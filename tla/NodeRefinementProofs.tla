------------------------ MODULE NodeRefinementProofs ------------------------
(***************************************************************************)
(* Proof that the node implements the safety part of ApServer under the   *)
(* refinement mapping of Node (AbsQueue, AbsWork, served): every step of  *)
(* the node is a step of the abstract server or leaves its state alone.   *)
(***************************************************************************)
EXTENDS NodeProofs, FiniteSetTheorems

USE KernelAssumption, NodeAssumption

InitialTasks == {Idle, Server, Generator, App}

(* The tasks main() and app_main() spawn keep their slots and classes:    *)
(* the idle and app tasks have no capacity, the server and the generator  *)
(* are real-time.                                                          *)
BootTasksKept ==
    /\ \A t \in InitialTasks : tstate[t] # "idle"
    /\ period[Server] > 0 /\ period[Generator] > 0
    /\ capacity[Idle] = 0 /\ capacity[App] = 0

IsIdleSlot(t) == tstate[t] = "idle"

(* The inductive invariant the refinement rests on.  Queued tasks are     *)
(* distinct aperiodic tasks not yet served; the task the server charges   *)
(* is aperiodic, neither queued nor served, and the fuel is not empty;    *)
(* the current task, next and every served task occupy their slots.        *)
RInv ==
    /\ TypeInv
    /\ BootTasksKept
    /\ ~IsIdleSlot(current)
    /\ ~IsIdleSlot(next)
    /\ \A i, j \in 1 .. Len(apQueue) : i # j => apQueue[i] # apQueue[j]
    /\ \A i \in 1 .. Len(apQueue) : IsAperiodic(apQueue[i]) /\ apQueue[i] \notin served
    /\ \A t \in served : ~IsIdleSlot(t)
    /\ spc = "charge" =>
          /\ IsAperiodic(next) /\ next \notin served /\ fuel >= 1
          /\ \A i \in 1 .. Len(apQueue) : apQueue[i] # next


(* No step but a spawn frees or fills a slot.                              *)
KeepSlots == \A t \in Tasks : tstate'[t] = "idle" <=> tstate[t] = "idle"

-----------------------------------------------------------------------------
(* The scheduler jumps into a task that occupies its slot, and only marks *)
(* it running.                                                             *)
LEMMA DispatchSlots ==
    ASSUME NEW st \in [Tasks -> States], NEW cr, Dispatch(st, cr)
    PROVE  /\ \A t \in Tasks : tstate'[t] = "idle" <=> st[t] = "idle"
           /\ tstate'[current'] # "idle"
<1>1. PICK n \in Candidates(st, cr) : current' = n /\ tstate' = [st EXCEPT ![n] = "running"]
  BY DEF Dispatch
<1>2. n \in Tasks /\ st[n] \in {"ready", "running"}
  BY <1>1 DEF Candidates, RTEligible, Runnable
<1>3. QED
  BY <1>1, <1>2

(* Saving a context and waking delayed tasks keep every slot as it was.   *)
LEMMA PreemptSlots ==
    ASSUME TypeOK
    PROVE  \A t \in Tasks : Preempt(tstate)[t] = "idle" <=> tstate[t] = "idle"
BY DEF Preempt, TypeOK

LEMMA WakeSlots ==
    ASSUME NEW st \in [Tasks -> States]
    PROVE  /\ \A t \in Tasks : Wake(st)[t] = "idle" <=> st[t] = "idle"
           /\ Wake(st) \in [Tasks -> States]
BY DEF Wake, States

(* An aperiodic task is none of the tasks of the boot sequence, so a      *)
(* queue of distinct aperiodic tasks is shorter than the TCB table: the   *)
(* addtail of line 141, whose result the code ignores, never fails.       *)
LEMMA AperiodicNotBoot ==
    ASSUME BootTasksKept, NEW t \in Tasks, IsAperiodic(t)
    PROVE  t \in 4 .. MaxTasks - 1
BY DEF BootTasksKept, IsAperiodic, InitialTasks, Tasks, Idle, Server, Generator, App

LEMMA QueueShort ==
    ASSUME RInv
    PROVE  Len(apQueue) < MaxTasks
<1>0. TypeOK /\ BootTasksKept
  BY DEF RInv, TypeInv
<1>1. Len(apQueue) \in Nat
  BY <1>0 DEF TypeOK
<1>2. apQueue \in Injection(1 .. Len(apQueue), 4 .. MaxTasks - 1)
  <2>1. \A i \in 1 .. Len(apQueue) : apQueue[i] \in 4 .. MaxTasks - 1
    <3> SUFFICES ASSUME NEW i \in 1 .. Len(apQueue) PROVE apQueue[i] \in 4 .. MaxTasks - 1
      OBVIOUS
    <3>1. apQueue[i] \in Tasks /\ IsAperiodic(apQueue[i])
      BY <1>0 DEF RInv, TypeOK
    <3>2. QED
      BY <3>1, <1>0, AperiodicNotBoot
  <2>2. apQueue \in [1 .. Len(apQueue) -> 4 .. MaxTasks - 1]
    <3>1. apQueue \in [1 .. Len(apQueue) -> Tasks]
      BY <1>0, LenProperties DEF TypeOK
    <3>2. QED
      BY <3>1, <2>1
  <2>3. \A i, j \in 1 .. Len(apQueue) : apQueue[i] = apQueue[j] => i = j
    BY DEF RInv
  <2>4. QED
    BY <2>2, <2>3 DEF Injection, IsInjective
<1>3. IsFiniteSet(4 .. MaxTasks - 1) /\ Cardinality(4 .. MaxTasks - 1) <= MaxTasks - 4
  <2>1. 4 \in Int /\ MaxTasks - 1 \in Int /\ MaxTasks >= 4
    OBVIOUS
  <2>2. /\ IsFiniteSet(4 .. MaxTasks - 1)
        /\ Cardinality(4 .. MaxTasks - 1) = IF 4 > MaxTasks - 1 THEN 0 ELSE MaxTasks - 1 - 4 + 1
    BY <2>1, FS_Interval
  <2>3. QED
    BY <2>1, <2>2
<1>4. Cardinality(1 .. Len(apQueue)) <= Cardinality(4 .. MaxTasks - 1)
  BY <1>2, <1>3, FS_Injection
<1>5. Cardinality(1 .. Len(apQueue)) = Len(apQueue)
  <2>1. 1 \in Int /\ Len(apQueue) \in Int
    BY <1>1
  <2>2. Cardinality(1 .. Len(apQueue)) = IF 1 > Len(apQueue) THEN 0 ELSE Len(apQueue) - 1 + 1
    BY <2>1, FS_Interval
  <2>3. QED
    BY <2>2, <1>1
<1>6. Len(apQueue) <= Cardinality(4 .. MaxTasks - 1)
  BY <1>4, <1>5
<1>7. Cardinality(4 .. MaxTasks - 1) \in Nat
  BY <1>3, FS_CardinalityType
<1>8. QED
  BY <1>3, <1>6, <1>7, <1>1


(* A task whose slot, period and capacity a step leaves alone keeps its    *)
(* class.                                                                  *)
LEMMA SameClass ==
    ASSUME NEW t \in Tasks,
           tstate'[t] = "idle" <=> tstate[t] = "idle",
           period'[t] = period[t], capacity'[t] = capacity[t]
    PROVE  IsAperiodic(t)' <=> IsAperiodic(t)
BY DEF IsAperiodic

-----------------------------------------------------------------------------
LEMMA RInvInit == Init => RInv
<1> SUFFICES ASSUME Init PROVE RInv
  OBVIOUS
<1>1. TypeInv
  BY TypeInvInit
<1>2. /\ Idle \in Tasks /\ Server \in Tasks /\ Generator \in Tasks /\ App \in Tasks
      /\ Idle # Server /\ Idle # Generator /\ Idle # App
      /\ Server # Generator /\ Server # App /\ Generator # App
  BY DEF Idle, Server, Generator, App, Tasks
<1>3. BootTasksKept
  BY <1>2 DEF Init, BootTasksKept, InitialTasks, ClearedState, ClearedField
<1>4. ~IsIdleSlot(current) /\ ~IsIdleSlot(next)
  BY <1>2 DEF Init, IsIdleSlot, ClearedState
<1>5. apQueue = << >> /\ served = {} /\ spc = "top"
  BY DEF Init, EmptyQueue
<1>6. QED
  BY <1>1, <1>3, <1>4, <1>5 DEF RInv

(* A step that changes no period, capacity, queue, served set or next,    *)
(* frees and fills no slot, jumps into an occupied slot and enters the    *)
(* charge with the fuel unchanged, if at all, keeps the invariant.         *)
LEMMA QuietStep ==
    ASSUME RInv, TypeInv', KeepSlots, tstate'[current'] # "idle",
           UNCHANGED <<period, capacity, apQueue, served, next>>,
           spc' = "charge" => spc = "charge" /\ fuel' = fuel
    PROVE  RInv'
<1>0. TypeOK /\ BootTasksKept
  BY DEF RInv, TypeInv
<1>1. \A t \in Tasks : IsAperiodic(t)' <=> IsAperiodic(t)
  BY SameClass DEF KeepSlots
<1>2. BootTasksKept'
  BY <1>0 DEF BootTasksKept, KeepSlots, InitialTasks, Idle, Server, Generator, App, Tasks
<1>3. ~IsIdleSlot(next)'
  BY <1>0 DEF RInv, IsIdleSlot, KeepSlots, TypeOK
<1>4. (\A i \in 1 .. Len(apQueue) : IsAperiodic(apQueue[i]) /\ apQueue[i] \notin served)'
  <2> SUFFICES ASSUME NEW i \in 1 .. Len(apQueue)
               PROVE  IsAperiodic(apQueue[i])' /\ apQueue[i] \notin served
    OBVIOUS
  <2>1. apQueue[i] \in Tasks
    BY <1>0 DEF TypeOK
  <2>4. IsAperiodic(apQueue[i]) /\ apQueue[i] \notin served
    BY DEF RInv
  <2>2. apQueue' = apQueue
    OBVIOUS
  <2>3. QED
    BY <2>1, <2>2, <2>4, <1>1
<1>5. \A t \in served' : ~IsIdleSlot(t)'
  BY <1>0 DEF RInv, IsIdleSlot, KeepSlots, TypeOK
<1>6. (spc = "charge")' =>
          /\ IsAperiodic(next)' /\ next' \notin served' /\ fuel' >= 1
          /\ \A i \in 1 .. Len(apQueue') : apQueue'[i] # next'
  BY <1>0, <1>1 DEF RInv, TypeOK
<1>7. \A i, j \in 1 .. Len(apQueue') : i # j => apQueue'[i] # apQueue'[j]
  BY DEF RInv
<1>8. ~IsIdleSlot(current)'
  BY DEF IsIdleSlot
<1>9. QED
  BY <1>2, <1>3, <1>4, <1>5, <1>6, <1>7, <1>8 DEF RInv

-----------------------------------------------------------------------------
(* The steps that leave the server's queue, next task and served set      *)
(* alone are quiet steps.                                                  *)
(* The timer interrupt frees and fills no slot and jumps into a taken one. *)
LEMMA TickSlots ==
    ASSUME RInv, DispatchTick
    PROVE  /\ KeepSlots /\ tstate'[current'] # "idle"
           /\ UNCHANGED <<period, capacity, apQueue, served, next, spc, fuel>>
<1>0. TypeOK /\ ~IsIdleSlot(current)
  BY DEF RInv, TypeInv
<1>1. /\ IF schedlock THEN tstate' = Wake(tstate) /\ UNCHANGED current
                      ELSE Dispatch(Wake(Preempt(tstate)), NewCapRem)
      /\ UNCHANGED <<period, capacity, apQueue, served, next, spc, fuel>>
  BY DEF DispatchTick, Tick
<1>2. KeepSlots /\ tstate'[current'] # "idle"
  <2>1. CASE schedlock
    <3>1. tstate' = Wake(tstate) /\ current' = current
      BY <1>1, <2>1
    <3>2. \A t \in Tasks : Wake(tstate)[t] = "idle" <=> tstate[t] = "idle"
      BY <1>0, WakeSlots DEF TypeOK
    <3>3. QED
      BY <3>1, <3>2, <1>0 DEF KeepSlots, IsIdleSlot, TypeOK
  <2>2. CASE ~schedlock
    <3>1. Preempt(tstate) \in [Tasks -> States]
      BY <1>0, PreemptType
    <3>2. Wake(Preempt(tstate)) \in [Tasks -> States]
          /\ \A t \in Tasks : Wake(Preempt(tstate))[t] = "idle" <=> Preempt(tstate)[t] = "idle"
      BY <3>1, WakeSlots
    <3>3. \A t \in Tasks : Preempt(tstate)[t] = "idle" <=> tstate[t] = "idle"
      BY <1>0, PreemptSlots
    <3>4. /\ \A t \in Tasks : tstate'[t] = "idle" <=> Wake(Preempt(tstate))[t] = "idle"
          /\ tstate'[current'] # "idle"
      BY <1>1, <2>2, <3>2, DispatchSlots
    <3>5. QED
      BY <3>3, <3>4, <3>2 DEF KeepSlots
  <2>3. QED
    BY <2>1, <2>2
<1>3. QED
  BY <1>1, <1>2

LEMMA TickQuiet ==
    ASSUME RInv, DispatchTick
    PROVE  RInv'
<1>1. TypeInv'
  BY TypeInvNext DEF RInv, Next
<1>2. QED
  BY <1>1, TickSlots, QuietStep

(* A step of the running task that only reschedules (hf_yield, delay_ms)  *)
(* or jumps into the popped task.                                          *)
LEMMA DispatchQuiet ==
    ASSUME RInv, NEW st \in [Tasks -> States],
           \A t \in Tasks : st[t] = "idle" <=> tstate[t] = "idle",
           NEW cr, Dispatch(st, cr), TypeInv',
           UNCHANGED <<period, capacity, apQueue, served, next>>,
           spc' = "charge" => spc = "charge" /\ fuel' = fuel
    PROVE  RInv'
<1>1. /\ \A t \in Tasks : tstate'[t] = "idle" <=> st[t] = "idle"
      /\ tstate'[current'] # "idle"
  BY DispatchSlots
<1>2. QED
  BY <1>1, QuietStep DEF KeepSlots

(* The server pops the head of the queue: the popped task is aperiodic and *)
(* unserved, and the fuel after the refill of line 122 is not empty.      *)
LEMMA PopStep ==
    ASSUME RInv, ServerPop
    PROVE  RInv'
<1>0. TypeOK
  BY DEF RInv, TypeInv
<1>1. /\ Len(apQueue) > 0
      /\ fuel' = Refill
      /\ next' = Head(apQueue)
      /\ apQueue' = Tail(apQueue)
      /\ spc' = "charge"
      /\ UNCHANGED <<tstate, period, capacity, current, served>>
  BY DEF ServerPop, PollingServerScheduler
<1>2. TypeInv'
  BY TypeInvNext DEF RInv, Next, ServerStep
<1>3. /\ Len(Tail(apQueue)) = Len(apQueue) - 1
      /\ \A i \in 1 .. Len(apQueue) - 1 : Tail(apQueue)[i] = apQueue[i + 1]
      /\ Head(apQueue) = apQueue[1]
  BY <1>0, <1>1, HeadTailProperties DEF TypeOK
<1>4. fuel' >= 1
  BY <1>0, <1>1 DEF Refill, TypeOK
<1>5. \A t \in Tasks : IsAperiodic(t)' <=> IsAperiodic(t)
  BY <1>1 DEF IsAperiodic
<1>6. Head(apQueue) \in Tasks /\ IsAperiodic(Head(apQueue)) /\ Head(apQueue) \notin served
  <2>1. 1 \in 1 .. Len(apQueue)
    BY <1>0, <1>1 DEF TypeOK
  <2>2. apQueue[1] \in Tasks
    BY <2>1, <1>0 DEF TypeOK
  <2>3. IsAperiodic(apQueue[1]) /\ apQueue[1] \notin served
    BY <2>1 DEF RInv
  <2>4. QED
    BY <2>2, <2>3, <1>3
<1>7. ~IsIdleSlot(next)'
  BY <1>1, <1>6 DEF IsIdleSlot, IsAperiodic
<1>8. /\ (\A i, j \in 1 .. Len(apQueue) : i # j => apQueue[i] # apQueue[j])'
      /\ (\A i \in 1 .. Len(apQueue) : apQueue[i] # next)'
  <2>1. Len(apQueue) \in Nat
    BY <1>0 DEF TypeOK
  <2>2. QED
    BY <1>1, <1>3, <2>1 DEF RInv
<1>9. (\A i \in 1 .. Len(apQueue) : IsAperiodic(apQueue[i]) /\ apQueue[i] \notin served)'
  <2> SUFFICES ASSUME NEW i \in 1 .. Len(apQueue) - 1
               PROVE  (IsAperiodic(apQueue[i]) /\ apQueue[i] \notin served)'
    BY <1>1, <1>3
  <2>1. i + 1 \in 1 .. Len(apQueue) /\ apQueue'[i] = apQueue[i + 1]
    BY <1>0, <1>1, <1>3 DEF TypeOK
  <2>2. apQueue[i + 1] \in Tasks
    BY <2>1, <1>0, ElementOfSeq DEF TypeOK
  <2>3. IsAperiodic(apQueue[i + 1]) /\ apQueue[i + 1] \notin served
    BY <2>1 DEF RInv
  <2>4. QED
    BY <2>1, <2>2, <2>3, <1>5, <1>1
<1>10. /\ BootTasksKept'
       /\ ~IsIdleSlot(current)'
       /\ (\A t \in served : ~IsIdleSlot(t))'
  BY <1>1 DEF RInv, BootTasksKept, IsIdleSlot
<1>11. (IsAperiodic(next) /\ next \notin served)'
  BY <1>1, <1>5, <1>6
<1>12. QED
  BY <1>2, <1>4, <1>7, <1>8, <1>9, <1>10, <1>11, <1>1 DEF RInv

(* Lines 144-145 mark the server READY and the popped task RUNNING: both  *)
(* slots were taken, so no slot is freed or filled.                        *)
LEMMA HandOverSlots ==
    ASSUME RInv, current = Server, HandOver
    PROVE  KeepSlots /\ tstate'[Server] # "idle"
<1>1. TypeOK /\ Server \in Tasks /\ tstate[Server] # "idle" /\ tstate[next] # "idle"
  BY DEF RInv, TypeInv, IsIdleSlot, BootTasksKept, InitialTasks, Server, Tasks
<1>2. QED
  BY <1>1 DEF HandOver, KeepSlots, TypeOK

(* The charge clause of the invariant, as the two charges use it.         *)
LEMMA ChargeFacts ==
    ASSUME RInv, spc = "charge"
    PROVE  /\ TypeOK /\ BootTasksKept
           /\ next \in Tasks /\ IsAperiodic(next) /\ next \notin served
           /\ fuel \in 1 .. ServerCapacity /\ capacity[next] \in Nat \ {0}
           /\ next # Idle /\ next # App /\ next # Server
           /\ \A i \in 1 .. Len(apQueue) : apQueue[i] # next
<1>1. TypeOK /\ BootTasksKept /\ IsAperiodic(next) /\ next \notin served /\ fuel >= 1
      /\ \A i \in 1 .. Len(apQueue) : apQueue[i] # next
  BY DEF RInv, TypeInv
<1>2. next \in Tasks /\ fuel \in 0 .. ServerCapacity /\ capacity[next] \in Nat
  BY <1>1 DEF TypeOK
<1>3. QED
  BY <1>1, <1>2 DEF IsAperiodic, BootTasksKept

(* Enough fuel (line 135): the task is charged in full and served.         *)
LEMMA ChargeFullStep ==
    ASSUME RInv, ChargeFull
    PROVE  RInv'
<1>1. /\ current = Server /\ spc = "charge" /\ HandOver /\ spc' = "dispatch"
      /\ served' = served \cup {next}
      /\ UNCHANGED <<period, capacity, apQueue, current, next>>
  BY DEF ChargeFull
<1>0. /\ TypeOK /\ BootTasksKept /\ next \in Tasks /\ next \notin served
      /\ \A i \in 1 .. Len(apQueue) : apQueue[i] # next
  BY <1>1, ChargeFacts
<1>2. KeepSlots /\ tstate'[Server] # "idle"
  BY <1>1, HandOverSlots
<1>3. \A t \in Tasks : IsAperiodic(t)' <=> IsAperiodic(t)
  BY <1>1, <1>2, SameClass DEF KeepSlots
<1>4. TypeInv'
  BY TypeInvNext DEF RInv, Next, ServerStep
<1>5. /\ BootTasksKept'
      /\ ~IsIdleSlot(current)'
      /\ ~IsIdleSlot(next)'
      /\ (\A t \in served : ~IsIdleSlot(t))'
  <2>1. BootTasksKept'
    BY <1>0, <1>1, <1>2 DEF BootTasksKept, KeepSlots, InitialTasks,
                           Idle, Server, Generator, App, Tasks
  <2>2. ~IsIdleSlot(current)'
    BY <1>1, <1>2 DEF IsIdleSlot
  <2>3. ~IsIdleSlot(next)'
    BY <1>0, <1>1, <1>2 DEF RInv, IsIdleSlot, KeepSlots
  <2>4. (\A t \in served : ~IsIdleSlot(t))'
    <3>1. \A t \in served : t \in Tasks /\ tstate[t] # "idle"
      BY <1>0 DEF RInv, IsIdleSlot, TypeOK
    <3>2. tstate[next] # "idle"
      BY DEF RInv, IsIdleSlot
    <3>3. QED
      BY <3>1, <3>2, <1>0, <1>1, <1>2 DEF IsIdleSlot, KeepSlots
  <2>5. QED
    BY <2>1, <2>2, <2>3, <2>4
<1>6. (\A i \in 1 .. Len(apQueue) : IsAperiodic(apQueue[i]) /\ apQueue[i] \notin served)'
  <2> SUFFICES ASSUME NEW i \in 1 .. Len(apQueue)
               PROVE  (IsAperiodic(apQueue[i]) /\ apQueue[i] \notin served)'
    BY <1>1
  <2>1. apQueue[i] \in Tasks
    BY <1>0, ElementOfSeq DEF TypeOK
  <2>2. IsAperiodic(apQueue[i]) /\ apQueue[i] \notin served /\ apQueue[i] # next
    BY <1>0 DEF RInv
  <2>3. QED
    BY <2>1, <2>2, <1>1, <1>3
<1>7. (\A i, j \in 1 .. Len(apQueue) : i # j => apQueue[i] # apQueue[j])'
  BY <1>1 DEF RInv
<1>8. QED
  BY <1>1, <1>4, <1>5, <1>6, <1>7 DEF RInv

(* Not enough fuel (lines 138-141): the task's capacity drops by the fuel *)
(* and stays positive, and it goes back to the tail of a queue that is    *)
(* never full, so the ignored result of addtail never loses it.           *)
LEMMA ChargePartialStep ==
    ASSUME RInv, ChargePartial
    PROVE  RInv'
<1>1. /\ current = Server /\ spc = "charge" /\ HandOver /\ spc' = "dispatch"
      /\ fuel < capacity[next]
      /\ capacity' = [capacity EXCEPT ![next] = @ - fuel]
      /\ apQueue' = AddTail(apQueue, next)
      /\ UNCHANGED <<period, current, next, served>>
  BY DEF ChargePartial
<1>0. /\ TypeOK /\ BootTasksKept /\ next \in Tasks /\ IsAperiodic(next)
      /\ next \notin served /\ fuel \in 1 .. ServerCapacity
      /\ capacity[next] \in Nat \ {0} /\ next # Idle /\ next # App
      /\ \A i \in 1 .. Len(apQueue) : apQueue[i] # next
  BY <1>1, ChargeFacts
<1>2. KeepSlots /\ tstate'[Server] # "idle"
  BY <1>1, HandOverSlots
<1>3. \A t \in Tasks : IsAperiodic(t)' <=> IsAperiodic(t)
  <2> SUFFICES ASSUME NEW t \in Tasks PROVE IsAperiodic(t)' <=> IsAperiodic(t)
    OBVIOUS
  <2>1. CASE t = next
    <3>1. capacity'[t] > 0 /\ capacity[t] > 0
      BY <1>0, <1>1, <2>1 DEF TypeOK
    <3>2. QED
      BY <3>1, <1>1, <1>2 DEF IsAperiodic, KeepSlots
  <2>2. CASE t # next
    BY <2>2, <1>0, <1>1, <1>2, SameClass DEF KeepSlots, TypeOK
  <2>3. QED
    BY <2>1, <2>2
<1>4. apQueue' = Append(apQueue, next) /\ Len(apQueue') = Len(apQueue) + 1
  <2>1. Len(apQueue) < MaxTasks
    BY QueueShort
  <2>2. QED
    BY <2>1, <1>0, <1>1 DEF AddTail, TypeOK
<1>5. \A i \in 1 .. Len(apQueue) + 1 :
         apQueue'[i] = IF i = Len(apQueue) + 1 THEN next ELSE apQueue[i]
  BY <1>0, <1>4 DEF TypeOK
<1>6. TypeInv'
  BY TypeInvNext DEF RInv, Next, ServerStep
<1>7. /\ BootTasksKept'
      /\ ~IsIdleSlot(current)'
      /\ ~IsIdleSlot(next)'
      /\ (\A t \in served : ~IsIdleSlot(t))'
  <2>1. BootTasksKept'
    BY <1>0, <1>1, <1>2 DEF BootTasksKept, KeepSlots, InitialTasks,
                           Idle, Server, Generator, App, Tasks
  <2>2. ~IsIdleSlot(current)'
    BY <1>1, <1>2 DEF IsIdleSlot
  <2>3. ~IsIdleSlot(next)'
    BY <1>0, <1>1, <1>2 DEF RInv, IsIdleSlot, KeepSlots
  <2>4. (\A t \in served : ~IsIdleSlot(t))'
    BY <1>0, <1>1, <1>2 DEF RInv, IsIdleSlot, KeepSlots, TypeOK
  <2>5. QED
    BY <2>1, <2>2, <2>3, <2>4
<1>8. (\A i \in 1 .. Len(apQueue) : IsAperiodic(apQueue[i]) /\ apQueue[i] \notin served)'
  <2> SUFFICES ASSUME NEW i \in 1 .. Len(apQueue) + 1
               PROVE  (IsAperiodic(apQueue[i]) /\ apQueue[i] \notin served)'
    BY <1>4
  <2>1. CASE i = Len(apQueue) + 1
    BY <2>1, <1>0, <1>1, <1>3, <1>5
  <2>2. CASE i # Len(apQueue) + 1
    <3>0. Len(apQueue) \in Nat
      BY <1>0, LenProperties DEF TypeOK
    <3>1. i \in 1 .. Len(apQueue)
      BY <2>2, <3>0
    <3>2. apQueue[i] \in Tasks
      BY <3>1, <1>0, ElementOfSeq DEF TypeOK
    <3>4. IsAperiodic(apQueue[i]) /\ apQueue[i] \notin served
      BY <3>1 DEF RInv
    <3>3. QED
      BY <3>1, <3>2, <3>4, <1>1, <1>3, <1>5
  <2>3. QED
    BY <2>1, <2>2
<1>9. (\A i, j \in 1 .. Len(apQueue) : i # j => apQueue[i] # apQueue[j])'
  <2> SUFFICES ASSUME NEW i \in 1 .. Len(apQueue) + 1, NEW j \in 1 .. Len(apQueue) + 1, i # j
               PROVE  apQueue'[i] # apQueue'[j]
    BY <1>4
  <2>1. Len(apQueue) \in Nat
    BY <1>0 DEF TypeOK
  <2>2. QED
    BY <2>1, <1>0, <1>5 DEF RInv
<1>10. QED
  BY <1>1, <1>6, <1>7, <1>8, <1>9 DEF RInv

(* A successful hf_spawn(dummy_task, 0, ...) fills the lowest free slot,  *)
(* which no queued, popped, served, current or boot task occupies, with a *)
(* new aperiodic task appended to the queue.                               *)
LEMMA SpawnStep ==
    ASSUME RInv, GenSpawn, ~SpawnFails(0, ApCapacity)
    PROVE  RInv'
<1>0. TypeOK /\ BootTasksKept
  BY DEF RInv, TypeInv
<1>1. PICK s \in FreeSlots :
        /\ tstate' = [tstate EXCEPT ![s] = "ready"]
        /\ period' = [period EXCEPT ![s] = 0]
        /\ capacity' = [capacity EXCEPT ![s] = ApCapacity]
        /\ apQueue' = Append(apQueue, s)
  BY DEF GenSpawn, Spawn
<1>2. UNCHANGED <<current, spc, fuel, next, served>>
  BY DEF GenSpawn
<1>3. /\ s \in Tasks /\ tstate[s] = "idle" /\ Len(apQueue) < MaxTasks
      /\ Len(apQueue) \in Nat
  BY <1>0, LenProperties DEF FreeSlots, SpawnFails, TypeOK
<1>4. /\ s \notin InitialTasks /\ s # current /\ s # next /\ s \notin served
      /\ \A i \in 1 .. Len(apQueue) : apQueue[i] # s
  BY <1>3 DEF RInv, IsIdleSlot, BootTasksKept, IsAperiodic
<1>5. /\ \A t \in Tasks \ {s} : IsAperiodic(t)' <=> IsAperiodic(t)
      /\ \A t \in Tasks \ {s} : tstate'[t] = tstate[t]
      /\ IsAperiodic(s)'
  <2>1. \A t \in Tasks \ {s} : tstate'[t] = tstate[t] /\ period'[t] = period[t]
                              /\ capacity'[t] = capacity[t]
    BY <1>0, <1>1 DEF TypeOK
  <2>2. IsAperiodic(s)'
    BY <1>0, <1>1, <1>3 DEF IsAperiodic, TypeOK
  <2>3. QED
    BY <2>1, <2>2, SameClass
<1>6. /\ Len(apQueue') = Len(apQueue) + 1
      /\ \A i \in 1 .. Len(apQueue) + 1 :
            apQueue'[i] = IF i = Len(apQueue) + 1 THEN s ELSE apQueue[i]
  <2>1. apQueue \in Seq(Tasks) /\ s \in Tasks
    BY <1>0, <1>3 DEF TypeOK
  <2>2. QED
    BY <2>1, <1>1, AppendProperties
<1>7. TypeInv'
  BY TypeInvNext DEF RInv, Next, GenStep
<1>8. BootTasksKept'
  <2>1. InitialTasks \subseteq Tasks \ {s}
    BY <1>4 DEF InitialTasks, Idle, Server, Generator, App, Tasks
  <2>2. QED
    BY <2>1, <1>0, <1>1, <1>5 DEF BootTasksKept, InitialTasks, TypeOK
<1>9. /\ ~IsIdleSlot(current)'
      /\ ~IsIdleSlot(next)'
      /\ (\A t \in served : ~IsIdleSlot(t))'
  <2>1. current \in Tasks \ {s} /\ next \in Tasks \ {s} /\ served \subseteq Tasks \ {s}
    BY <1>0, <1>4 DEF TypeOK
  <2>2. QED
    BY <2>1, <1>2, <1>5 DEF RInv, IsIdleSlot
<1>10. (\A i \in 1 .. Len(apQueue) : IsAperiodic(apQueue[i]) /\ apQueue[i] \notin served)'
  <2> SUFFICES ASSUME NEW i \in 1 .. Len(apQueue) + 1
               PROVE  (IsAperiodic(apQueue[i]) /\ apQueue[i] \notin served)'
    BY <1>6
  <2>1. CASE i = Len(apQueue) + 1
    BY <2>1, <1>2, <1>4, <1>5, <1>6
  <2>2. CASE i # Len(apQueue) + 1
    <3>1. i \in 1 .. Len(apQueue)
      BY <2>2, <1>3
    <3>2. apQueue[i] \in Tasks \ {s}
      BY <3>1, <1>0, <1>4, ElementOfSeq DEF TypeOK
    <3>3. IsAperiodic(apQueue[i]) /\ apQueue[i] \notin served
      BY <3>1 DEF RInv
    <3>4. QED
      BY <3>1, <3>2, <3>3, <1>2, <1>5, <1>6
  <2>3. QED
    BY <2>1, <2>2
<1>11. (\A i, j \in 1 .. Len(apQueue) : i # j => apQueue[i] # apQueue[j])'
  <2> SUFFICES ASSUME NEW i \in 1 .. Len(apQueue) + 1, NEW j \in 1 .. Len(apQueue) + 1, i # j
               PROVE  apQueue'[i] # apQueue'[j]
    BY <1>6
  <2>2. QED
    BY <1>3, <1>4, <1>6 DEF RInv
<1>12. (spc = "charge" =>
          /\ IsAperiodic(next) /\ next \notin served /\ fuel >= 1
          /\ \A i \in 1 .. Len(apQueue) : apQueue[i] # next)'
  <2> SUFFICES ASSUME spc = "charge"
               PROVE  /\ IsAperiodic(next)' /\ next \notin served /\ fuel >= 1
                      /\ \A i \in 1 .. Len(apQueue) + 1 : apQueue'[i] # next
    BY <1>2, <1>6
  <2>1. IsAperiodic(next) /\ next \notin served /\ fuel >= 1
        /\ \A i \in 1 .. Len(apQueue) : apQueue[i] # next
    BY DEF RInv
  <2>2. next \in Tasks \ {s}
    BY <1>0, <1>4 DEF TypeOK
  <2>3. \A i \in 1 .. Len(apQueue) + 1 : apQueue'[i] # next
    <3> SUFFICES ASSUME NEW i \in 1 .. Len(apQueue) + 1 PROVE apQueue'[i] # next
      OBVIOUS
    <3>1. CASE i = Len(apQueue) + 1
      BY <3>1, <1>4, <1>6
    <3>2. CASE i # Len(apQueue) + 1
      BY <3>2, <2>1, <1>3, <1>6
    <3>3. QED
      BY <3>1, <3>2
  <2>4. QED
    BY <2>1, <2>2, <2>3, <1>2, <1>5
<1>13. QED
  BY <1>7, <1>8, <1>9, <1>10, <1>11, <1>12 DEF RInv

-----------------------------------------------------------------------------
(* RInv is inductive: every step of the node keeps it.                     *)
LEMMA RInvNext == RInv /\ [Next]_vars => RInv'
<1> SUFFICES ASSUME RInv, [Next]_vars PROVE RInv'
  OBVIOUS
<1>0. /\ TypeOK /\ TypeInv' /\ ~IsIdleSlot(current) /\ ~IsIdleSlot(next)
  BY TypeInvNext DEF RInv, TypeInv
<1>1. CASE DispatchTick
  BY <1>1, TickQuiet
<1>2. CASE IdleUnlock
  BY <1>2, <1>0, QuietStep DEF IdleUnlock, nvars, KeepSlots, IsIdleSlot
<1>3. CASE ServerYield
  <2>1. /\ Dispatch(Preempt(tstate), capRem)
        /\ UNCHANGED <<period, capacity, apQueue, served, next, spc>>
        /\ spc = "top"
    BY <1>3 DEF ServerYield, Yield
  <2>2. Preempt(tstate) \in [Tasks -> States]
        /\ \A t \in Tasks : Preempt(tstate)[t] = "idle" <=> tstate[t] = "idle"
    BY <1>0, PreemptType, PreemptSlots
  <2>3. QED
    BY <2>1, <2>2, <1>0, DispatchQuiet
<1>4. CASE ServerPop
  BY <1>4, PopStep
<1>5. CASE ChargeFull
  BY <1>5, ChargeFullStep
<1>6. CASE ChargePartial
  BY <1>6, ChargePartialStep
<1>7. CASE ServerDispatch
  <2>1. /\ current' = next /\ spc' = "top"
        /\ UNCHANGED <<tstate, period, capacity, apQueue, served, next>>
    BY <1>7 DEF ServerDispatch
  <2>2. QED
    BY <2>1, <1>0, QuietStep DEF KeepSlots, IsIdleSlot
<1>8. CASE GenSpawn /\ ~SpawnFails(0, ApCapacity)
  BY <1>8, SpawnStep
<1>9. CASE GenSpawn /\ SpawnFails(0, ApCapacity)
  <2>1. UNCHANGED <<tstate, period, capacity, apQueue, current, served, next, spc, fuel>>
    BY <1>9 DEF GenSpawn, Spawn
  <2>2. QED
    BY <2>1, <1>0, QuietStep DEF KeepSlots, IsIdleSlot
<1>10. CASE GenDelay
  <2>1. /\ current = Generator
        /\ Dispatch([tstate EXCEPT ![current] = "delayed"], capRem)
        /\ UNCHANGED <<period, capacity, apQueue, served, next, spc, fuel>>
    BY <1>10 DEF GenDelay, DelayMs
  <2>2. /\ [tstate EXCEPT ![current] = "delayed"] \in [Tasks -> States]
        /\ \A t \in Tasks : [tstate EXCEPT ![current] = "delayed"][t] = "idle"
                               <=> tstate[t] = "idle"
    BY <1>0 DEF TypeOK, States, IsIdleSlot
  <2>3. QED
    BY <2>1, <2>2, <1>0, DispatchQuiet
<1>11. CASE UNCHANGED vars
  BY <1>11, <1>0, QuietStep DEF vars, kvars, nvars, KeepSlots, IsIdleSlot
<1>12. QED
  BY <1>1, <1>2, <1>3, <1>4, <1>5, <1>6, <1>7, <1>8, <1>9, <1>10, <1>11
  DEF Next, ServerStep, GenStep

-----------------------------------------------------------------------------
(* The refinement.  Abs!Init, Abs!Next and the ApServer actions are read   *)
(* through the mapping queue <- AbsQueue, work <- AbsWork, done <- served. *)
absvars == <<AbsQueue, AbsWork, served>>

(* main() leaves no aperiodic task: the queue is empty, no work is owed.   *)
LEMMA AbsInit == Init => Abs!Init
<1> SUFFICES ASSUME Init PROVE Abs!Init
  OBVIOUS
<1>1. \A t \in Tasks : ~IsAperiodic(t)
  <2>1. /\ Idle \in Tasks /\ Server \in Tasks /\ Generator \in Tasks /\ App \in Tasks
        /\ Idle # Server /\ Idle # Generator /\ Idle # App
        /\ Server # Generator /\ Server # App /\ Generator # App
    BY DEF Idle, Server, Generator, App, Tasks
  <2>2. QED
    BY <2>1 DEF Init, IsAperiodic, ClearedState, ClearedField
<1>2. AbsQueue = << >> /\ served = {}
  BY DEF Init, AbsQueue, EmptyQueue
<1>3. AbsWork = [t \in Tasks |-> 0]
  BY <1>1 DEF AbsWork
<1>4. QED
  BY <1>2, <1>3 DEF Abs!Init

(* A step that keeps every slot, period, capacity, the queue, next and    *)
(* the served set, and enters or leaves the charge of line 135 at no      *)
(* point, is invisible to ApServer.                                        *)
LEMMA Stutter ==
    ASSUME TypeOK, KeepSlots,
           UNCHANGED <<period, capacity, apQueue, served, next>>,
           (spc' = "charge") <=> (spc = "charge")
    PROVE  UNCHANGED absvars
<1>1. AbsQueue' = AbsQueue
  BY DEF AbsQueue
<1>2. \A t \in Tasks : IsAperiodic(t)' <=> IsAperiodic(t)
  BY SameClass DEF KeepSlots
<1>3. AbsWork' = AbsWork
  BY <1>2 DEF AbsWork
<1>4. QED
  BY <1>1, <1>3 DEF absvars

(* The abstract queue puts the popped task in front of the aperiodic      *)
(* queue: its head is that task, its tail the queue, and appending to it   *)
(* appends to the queue.                                                    *)
LEMMA ConsFacts ==
    ASSUME NEW x \in Tasks, NEW q \in Seq(Tasks), NEW y \in Tasks
    PROVE  /\ <<x>> \o q # << >>
           /\ Head(<<x>> \o q) = x
           /\ Tail(<<x>> \o q) = q
           /\ Append(<<x>> \o q, y) = <<x>> \o Append(q, y)
<1>1. <<x>> \in Seq(Tasks) /\ Len(<<x>>) = 1 /\ <<x>>[1] = x
  OBVIOUS
<1>2. /\ <<x>> \o q \in Seq(Tasks)
      /\ Len(<<x>> \o q) = 1 + Len(q)
      /\ \A i \in 1 .. 1 + Len(q) : (<<x>> \o q)[i] = IF i <= 1 THEN x ELSE q[i - 1]
  BY <1>1, ConcatProperties
<1>3. Len(q) \in Nat
  BY LenProperties
<1>4. <<x>> \o q # << >> /\ Head(<<x>> \o q) = x
  BY <1>2, <1>3
<1>5. Tail(<<x>> \o q) = q
  <2>1. /\ Tail(<<x>> \o q) \in Seq(Tasks)
        /\ Len(Tail(<<x>> \o q)) = Len(q)
        /\ \A i \in 1 .. Len(q) : Tail(<<x>> \o q)[i] = (<<x>> \o q)[i + 1]
    BY <1>2, <1>3, <1>4, HeadTailProperties
  <2>2. \A i \in 1 .. Len(q) : Tail(<<x>> \o q)[i] = q[i]
    BY <2>1, <1>2, <1>3
  <2>3. QED
    BY <2>1, <2>2, SeqEqual
<1>6. Append(<<x>> \o q, y) = <<x>> \o Append(q, y)
  <2>1. Append(<<x>> \o q, y) = (<<x>> \o q) \o <<y>> /\ Append(q, y) = q \o <<y>>
    BY <1>2, AppendIsConcat
  <2>2. <<y>> \in Seq(Tasks)
    OBVIOUS
  <2>3. QED
    BY <2>1, <2>2, <1>1, ConcatAssociative
<1>7. QED
  BY <1>4, <1>5, <1>6

(* The charge of line 136 is ApServer's Finish of the head: the task's    *)
(* work fits in the fuel, which never exceeds the server's capacity.       *)
LEMMA ChargeFullIsFinish ==
    ASSUME RInv, ChargeFull
    PROVE  Abs!Finish
<1>1. /\ current = Server /\ spc = "charge" /\ HandOver /\ spc' = "dispatch"
      /\ fuel >= capacity[next]
      /\ served' = served \cup {next}
      /\ UNCHANGED <<period, capacity, apQueue, next>>
  BY DEF ChargeFull
<1>0. /\ TypeOK /\ next \in Tasks /\ IsAperiodic(next) /\ next \notin served
      /\ fuel \in 1 .. ServerCapacity
  BY <1>1, ChargeFacts
<1>2. /\ AbsQueue = <<next>> \o apQueue /\ AbsQueue' = apQueue
      /\ AbsQueue # << >> /\ Head(AbsQueue) = next /\ Tail(AbsQueue) = apQueue
  BY <1>0, <1>1, ConsFacts DEF AbsQueue, TypeOK
<1>3. AbsWork[next] = capacity[next]
  BY <1>0 DEF AbsWork
<1>4. AbsWork' = [AbsWork EXCEPT ![next] = 0]
  <2>1. KeepSlots
    BY <1>1, HandOverSlots
  <2>2. \A t \in Tasks : IsAperiodic(t)' <=> IsAperiodic(t)
    BY <1>1, <2>1, SameClass DEF KeepSlots
  <2>3. QED
    BY <2>2, <1>0, <1>1 DEF AbsWork
<1>5. AbsWork[Head(AbsQueue)] <= ServerCapacity
  <2>1. capacity[next] \in Nat
    BY <1>0 DEF TypeOK
  <2>2. QED
    BY <2>1, <1>0, <1>1, <1>2, <1>3
<1>6. QED
  BY <1>1, <1>2, <1>4, <1>5 DEF Abs!Finish

(* The charge of lines 138-141 is ApServer's Grant of the fuel: the head  *)
(* goes to the tail owing its work less the fuel.                          *)
LEMMA ChargePartialIsGrant ==
    ASSUME RInv, ChargePartial
    PROVE  Abs!Grant(fuel)
<1>1. /\ current = Server /\ spc = "charge" /\ HandOver /\ spc' = "dispatch"
      /\ fuel < capacity[next]
      /\ capacity' = [capacity EXCEPT ![next] = @ - fuel]
      /\ apQueue' = AddTail(apQueue, next)
      /\ UNCHANGED <<period, next, served>>
  BY DEF ChargePartial
<1>0. /\ TypeOK /\ next \in Tasks /\ IsAperiodic(next) /\ next \notin served
      /\ fuel \in 1 .. ServerCapacity /\ capacity[next] \in Nat \ {0}
  BY <1>1, ChargeFacts
<1>2. apQueue' = Append(apQueue, next)
  <2>1. Len(apQueue) < MaxTasks
    BY QueueShort
  <2>2. QED
    BY <2>1, <1>1 DEF AddTail
<1>3. /\ AbsQueue = <<next>> \o apQueue /\ AbsQueue' = apQueue'
      /\ AbsQueue # << >> /\ Head(AbsQueue) = next /\ Tail(AbsQueue) = apQueue
  BY <1>0, <1>1, ConsFacts DEF AbsQueue, TypeOK
<1>4. AbsWork[next] = capacity[next]
  BY <1>0 DEF AbsWork
<1>5. AbsWork' = [AbsWork EXCEPT ![next] = @ - fuel]
  <2>1. KeepSlots
    BY <1>1, HandOverSlots
  <2>2. \A t \in Tasks \ {next} : IsAperiodic(t)' <=> IsAperiodic(t)
    BY <1>0, <1>1, <2>1, SameClass DEF KeepSlots, TypeOK
  <2>3. IsAperiodic(next)'
    BY <1>0, <1>1, <2>1 DEF IsAperiodic, KeepSlots, TypeOK
  <2>4. \A t \in Tasks \ {next} : AbsWork'[t] = AbsWork[t]
    BY <2>2, <1>0, <1>1 DEF AbsWork, TypeOK
  <2>5. AbsWork'[next] = capacity[next] - fuel
    BY <2>3, <1>0, <1>1 DEF AbsWork, TypeOK
  <2>6. QED
    BY <2>4, <2>5, <1>4, <1>0 DEF AbsWork
<1>6. QED
  BY <1>0, <1>1, <1>2, <1>3, <1>4, <1>5 DEF Abs!Grant

(* A successful spawn of the generator is ApServer's Arrive of the new    *)
(* task: the slot it takes held no pending or done task.                  *)
LEMMA SpawnIsArrive ==
    ASSUME RInv, GenSpawn, ~SpawnFails(0, ApCapacity)
    PROVE  \E t \in Tasks : Abs!Arrive(t)
<1>0. TypeOK
  BY DEF RInv, TypeInv
<1>1. PICK s \in FreeSlots :
        /\ tstate' = [tstate EXCEPT ![s] = "ready"]
        /\ period' = [period EXCEPT ![s] = 0]
        /\ capacity' = [capacity EXCEPT ![s] = ApCapacity]
        /\ apQueue' = Append(apQueue, s)
  BY DEF GenSpawn, Spawn
<1>2. UNCHANGED <<spc, next, served>>
  BY DEF GenSpawn
<1>3. /\ s \in Tasks /\ tstate[s] = "idle"
      /\ s # next /\ s \notin served
      /\ \A i \in 1 .. Len(apQueue) : apQueue[i] # s
      /\ next \in Tasks /\ apQueue \in Seq(Tasks) /\ Len(apQueue) \in Nat
  BY <1>0, LenProperties DEF FreeSlots, RInv, IsIdleSlot, IsAperiodic, TypeOK
<1>4. s \notin Abs!Pending \cup served
  <2>1. \A i \in 1 .. Len(AbsQueue) : AbsQueue[i] # s
    <3>1. CASE spc = "charge"
      <4>1. /\ Len(<<next>> \o apQueue) = 1 + Len(apQueue)
            /\ \A i \in 1 .. 1 + Len(apQueue) :
                  (<<next>> \o apQueue)[i] = IF i <= 1 THEN next ELSE apQueue[i - 1]
        BY <1>3, ConcatProperties
      <4>2. QED
        BY <3>1, <4>1, <1>3 DEF AbsQueue
    <3>2. CASE spc # "charge"
      BY <3>2, <1>3 DEF AbsQueue
    <3>3. QED
      BY <3>1, <3>2
  <2>2. QED
    BY <2>1, <1>3 DEF Abs!Pending
<1>5. AbsQueue' = Append(AbsQueue, s)
  <2>1. CASE spc = "charge"
    BY <2>1, <1>1, <1>2, <1>3, ConsFacts DEF AbsQueue
  <2>2. CASE spc # "charge"
    BY <2>2, <1>1, <1>2 DEF AbsQueue
  <2>3. QED
    BY <2>1, <2>2
<1>6. AbsWork' = [AbsWork EXCEPT ![s] = ApCapacity]
  <2>1. \A t \in Tasks \ {s} : tstate'[t] = tstate[t] /\ period'[t] = period[t]
                              /\ capacity'[t] = capacity[t]
    BY <1>0, <1>1 DEF TypeOK
  <2>2. \A t \in Tasks \ {s} : IsAperiodic(t)' <=> IsAperiodic(t)
    BY <2>1, SameClass
  <2>3. \A t \in Tasks \ {s} : AbsWork'[t] = AbsWork[t]
    BY <2>1, <2>2, <1>2 DEF AbsWork
  <2>4. IsAperiodic(s)' /\ capacity'[s] = ApCapacity
    BY <1>0, <1>1, <1>3 DEF IsAperiodic, TypeOK
  <2>5. AbsWork'[s] = ApCapacity
    BY <2>4, <1>2, <1>3 DEF AbsWork
  <2>6. QED
    BY <2>3, <2>5, <1>3 DEF AbsWork
<1>7. QED
  BY <1>2, <1>3, <1>4, <1>5, <1>6 DEF Abs!Arrive

(* hf_queue_remhead splits a queue into its head and its tail.             *)
LEMMA HeadTailJoin ==
    ASSUME NEW q \in Seq(Tasks), q # << >>
    PROVE  <<Head(q)>> \o Tail(q) = q
<1>1. /\ Head(q) \in Tasks /\ Tail(q) \in Seq(Tasks)
      /\ Len(Tail(q)) = Len(q) - 1
      /\ \A i \in 1 .. Len(Tail(q)) : Tail(q)[i] = q[i + 1]
  BY HeadTailProperties
<1>2. Len(q) \in Nat /\ Len(q) > 0
  BY LenProperties, EmptySeq
<1>3. /\ <<Head(q)>> \o Tail(q) \in Seq(Tasks)
      /\ Len(<<Head(q)>> \o Tail(q)) = 1 + Len(Tail(q))
      /\ \A i \in 1 .. 1 + Len(Tail(q)) :
            (<<Head(q)>> \o Tail(q))[i] = IF i <= 1 THEN Head(q) ELSE Tail(q)[i - 1]
  BY <1>1, ConcatProperties
<1>4. \A i \in 1 .. Len(q) : (<<Head(q)>> \o Tail(q))[i] = q[i]
  BY <1>1, <1>2, <1>3
<1>5. QED
  BY <1>1, <1>2, <1>3, <1>4, SeqEqual

(* Every step of the node is a step of ApServer or leaves it unchanged.   *)
LEMMA AbsStep == RInv /\ [Next]_vars => [Abs!Next]_absvars
<1> SUFFICES ASSUME RInv, [Next]_vars PROVE [Abs!Next]_absvars
  OBVIOUS
<1>0. TypeOK /\ ~IsIdleSlot(current)
  BY DEF RInv, TypeInv
<1>1. CASE DispatchTick
  BY <1>1, <1>0, TickSlots, Stutter
<1>2. CASE IdleUnlock
  BY <1>2, <1>0, Stutter DEF IdleUnlock, nvars, KeepSlots
<1>3. CASE ServerYield
  <2>1. /\ Dispatch(Preempt(tstate), capRem)
        /\ UNCHANGED <<period, capacity, apQueue, served, next, spc>>
    BY <1>3 DEF ServerYield, Yield
  <2>2. Preempt(tstate) \in [Tasks -> States]
        /\ \A t \in Tasks : Preempt(tstate)[t] = "idle" <=> tstate[t] = "idle"
    BY <1>0, PreemptType, PreemptSlots
  <2>3. KeepSlots
    BY <2>1, <2>2, DispatchSlots DEF KeepSlots
  <2>4. QED
    BY <2>1, <2>3, <1>0, Stutter
<1>4. CASE ServerPop
  <2>1. /\ Len(apQueue) > 0 /\ spc = "top" /\ spc' = "charge"
        /\ next' = Head(apQueue) /\ apQueue' = Tail(apQueue)
        /\ UNCHANGED <<tstate, period, capacity, served>>
    BY <1>4 DEF ServerPop, PollingServerScheduler
  <2>2. AbsQueue' = AbsQueue
    <3>1. apQueue \in Seq(Tasks) /\ apQueue # << >>
      BY <2>1, <1>0 DEF TypeOK
    <3>2. QED
      BY <3>1, <2>1, HeadTailJoin DEF AbsQueue
  <2>3. AbsWork' = AbsWork
    BY <2>1 DEF AbsWork, IsAperiodic
  <2>4. QED
    BY <2>1, <2>2, <2>3 DEF absvars
<1>5. CASE ChargeFull
  BY <1>5, ChargeFullIsFinish DEF Abs!Next, Abs!Serve
<1>6. CASE ChargePartial
  <2>1. fuel \in 1 .. ServerCapacity
    BY <1>6, ChargeFacts DEF ChargePartial
  <2>2. QED
    BY <1>6, <2>1, ChargePartialIsGrant DEF Abs!Next, Abs!Serve
<1>7. CASE ServerDispatch
  <2>1. /\ spc = "dispatch" /\ spc' = "top"
        /\ UNCHANGED <<tstate, period, capacity, apQueue, served, next>>
    BY <1>7 DEF ServerDispatch
  <2>2. QED
    BY <2>1, <1>0, Stutter DEF KeepSlots
<1>8. CASE GenSpawn /\ ~SpawnFails(0, ApCapacity)
  BY <1>8, SpawnIsArrive DEF Abs!Next
<1>9. CASE GenSpawn /\ SpawnFails(0, ApCapacity)
  <2>1. UNCHANGED <<tstate, period, capacity, apQueue, served, next, spc>>
    BY <1>9 DEF GenSpawn, Spawn
  <2>2. QED
    BY <2>1, <1>0, Stutter DEF KeepSlots
<1>10. CASE GenDelay
  <2>1. /\ Dispatch([tstate EXCEPT ![current] = "delayed"], capRem)
        /\ UNCHANGED <<period, capacity, apQueue, served, next, spc>>
    BY <1>10 DEF GenDelay, DelayMs
  <2>2. /\ [tstate EXCEPT ![current] = "delayed"] \in [Tasks -> States]
        /\ \A t \in Tasks : [tstate EXCEPT ![current] = "delayed"][t] = "idle"
                               <=> tstate[t] = "idle"
    BY <1>0 DEF TypeOK, States, IsIdleSlot
  <2>3. KeepSlots
    BY <2>1, <2>2, DispatchSlots DEF KeepSlots
  <2>4. QED
    BY <2>1, <2>3, <1>0, Stutter
<1>11. CASE UNCHANGED vars
  BY <1>11, <1>0, Stutter DEF vars, kvars, nvars, KeepSlots
<1>12. QED
  BY <1>1, <1>2, <1>3, <1>4, <1>5, <1>6, <1>7, <1>8, <1>9, <1>10, <1>11
  DEF Next, ServerStep, GenStep

(* The node implements the safety part of what the polling server         *)
(* promises (ApServer!SafeSpec): main.c's pop (line 133), full charge     *)
(* (line 136), partial charge with requeue (lines 138-141) and the        *)
(* generator's hf_spawn are, under the mapping, a FIFO of pending tasks   *)
(* served in grants of at most the server's capacity, none lost, none     *)
(* served twice.                                                           *)
THEOREM Refinement == Spec => ServesSafely
<1>1. Init => RInv /\ Abs!Init
  BY RInvInit, AbsInit
<1>2. RInv /\ [Next]_vars => RInv' /\ [Abs!Next]_absvars
  BY RInvNext, AbsStep
<1>3. QED
  BY <1>1, <1>2, PTL DEF Spec, ServesSafely, Abs!SafeSpec, Abs!avars, absvars

====
