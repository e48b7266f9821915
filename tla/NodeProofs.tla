----------------------------- MODULE NodeProofs -----------------------------
(***************************************************************************)
(* Proofs about module Node, for every value of its constants.            *)
(***************************************************************************)
EXTENDS Node, SequenceTheorems, TLAPS

USE KernelAssumption, NodeAssumption

-----------------------------------------------------------------------------
(* The scheduler only ever jumps into a task of the TCB table, and leaves *)
(* every state field a TCB state.                                          *)
LEMMA DispatchType ==
    ASSUME NEW st \in [Tasks -> States], NEW cr, Dispatch(st, cr)
    PROVE  /\ tstate' \in [Tasks -> States]
           /\ current' \in Tasks
BY DEF Dispatch, Candidates, RTEligible, States

(* Saving the context of the current task keeps the state a TCB state.    *)
LEMMA PreemptType ==
    ASSUME TypeOK
    PROVE  Preempt(tstate) \in [Tasks -> States]
BY DEF Preempt, TypeOK, States, Tasks

(* A spawn fills a slot with a task of the given class and appends at     *)
(* most to a queue that is not full.                                       *)
LEMMA SpawnType ==
    ASSUME TypeOK, NEW per \in Nat, NEW cap \in Nat, Spawn(per, cap)
    PROVE  /\ tstate' \in [Tasks -> States]
           /\ period' \in [Tasks -> Nat]
           /\ capacity' \in [Tasks -> Nat]
           /\ capRem' \in [Tasks -> Nat]
           /\ apQueue' \in Seq(Tasks) /\ Len(apQueue') <= MaxTasks
<1>1. CASE SpawnFails(per, cap)
  BY <1>1 DEF Spawn, TypeOK
<1>2. CASE ~SpawnFails(per, cap)
  <2>1. PICK s \in FreeSlots :
               /\ tstate' = [tstate EXCEPT ![s] = "ready"]
               /\ period' = [period EXCEPT ![s] = per]
               /\ capacity' = [capacity EXCEPT ![s] = cap]
               /\ capRem' = [capRem EXCEPT ![s] = IF per > 0 THEN cap ELSE 0]
               /\ apQueue' = IF per = 0 /\ cap > 0 THEN Append(apQueue, s)
                                                   ELSE apQueue
    BY <1>2 DEF Spawn
  <2>2. s \in Tasks
    BY DEF FreeSlots
  <2>3. per = 0 /\ cap > 0 => Len(apQueue) < MaxTasks
    BY <1>2 DEF TypeOK, SpawnFails
  <2>4. tstate' \in [Tasks -> States]
    BY <2>1, <2>2 DEF TypeOK, States
  <2>5. period' \in [Tasks -> Nat] /\ capacity' \in [Tasks -> Nat]
        /\ capRem' \in [Tasks -> Nat]
    <3>1. period' \in [Tasks -> Nat]
      BY <2>1, <2>2 DEF TypeOK
    <3>2. capacity' \in [Tasks -> Nat]
      BY <2>1, <2>2 DEF TypeOK
    <3>3. (IF per > 0 THEN cap ELSE 0) \in Nat
      OBVIOUS
    <3>4. capRem' \in [Tasks -> Nat]
      BY <2>1, <2>2, <3>3 DEF TypeOK
    <3>5. QED
      BY <3>1, <3>2, <3>4
  <2>6. apQueue' \in Seq(Tasks) /\ Len(apQueue') <= MaxTasks
    <3>1. CASE per = 0 /\ cap > 0
      <4>1. apQueue' = Append(apQueue, s) /\ Len(apQueue) < MaxTasks
        BY <2>1, <2>3, <3>1
      <4>2. QED
        BY <4>1, <2>2 DEF TypeOK
    <3>2. CASE ~(per = 0 /\ cap > 0)
      BY <2>1, <3>2 DEF TypeOK
    <3>3. QED
      BY <3>1, <3>2
  <2>7. QED
    BY <2>4, <2>5, <2>6
<1>3. QED
  BY <1>1, <1>2

-----------------------------------------------------------------------------
(* The type invariant, with a delayed task's positive residual delay:     *)
(* the tick counts delays down without going below zero.                   *)
LEMMA TypeInvInit == Init => TypeInv
<1> SUFFICES ASSUME Init PROVE TypeInv
  OBVIOUS
<1>1. Idle \in Tasks /\ Server \in Tasks /\ Generator \in Tasks /\ App \in Tasks
  BY DEF Idle, Server, Generator, App, Tasks
<1>2. tstate \in [Tasks -> States] /\ \A t \in Tasks : tstate[t] # "delayed"
  BY <1>1 DEF Init, ClearedState, States
<1>3. period \in [Tasks -> Nat] /\ capacity \in [Tasks -> Nat] /\ capRem \in [Tasks -> Nat]
  BY <1>1 DEF Init, ClearedField
<1>4. delay \in [Tasks -> Nat] /\ apQueue \in Seq(Tasks) /\ Len(apQueue) <= MaxTasks
  BY DEF Init, ClearedField, EmptyQueue
<1>5. /\ tick \in 0 .. TickWrap - 1 /\ current \in Tasks /\ schedlock \in BOOLEAN
      /\ fuel \in 0 .. ServerCapacity /\ spc \in {"top", "charge", "dispatch"}
      /\ next \in Tasks /\ gpc \in {"spawn", "delay"} /\ served \subseteq Tasks
      /\ given \in [Tasks -> Nat] /\ spent \in Nat
  BY <1>1 DEF Init
<1>6. DelayedPositive
  BY <1>2 DEF DelayedPositive
<1>7. QED
  BY <1>2, <1>3, <1>4, <1>5, <1>6 DEF TypeInv, TypeOK

LEMMA TypeInvNext == TypeInv /\ [Next]_vars => TypeInv'
<1> SUFFICES ASSUME TypeInv, [Next]_vars PROVE TypeInv'
  OBVIOUS
<1>0. TypeOK /\ DelayedPositive
  BY DEF TypeInv
<1>s. Server \in Tasks /\ Generator \in Tasks /\ Idle \in Tasks
  BY DEF Server, Generator, Idle, Tasks
<1>1. CASE DispatchTick
  <2>1. /\ tick' = (tick + 1) % TickWrap
        /\ capRem' = NewCapRem
        /\ delay' = CountedDelay
        /\ IF schedlock THEN tstate' = Wake(tstate) /\ UNCHANGED current
                        ELSE Dispatch(Wake(Preempt(tstate)), NewCapRem)
        /\ UNCHANGED <<period, capacity, apQueue, schedlock, fuel, spc, next,
                       gpc, served, given>>
        /\ spent' = IF Released(Server) THEN 0 ELSE spent
    BY <1>1 DEF DispatchTick, Tick
  <2>2. CountedDelay \in [Tasks -> Nat]
    <3>1. ASSUME NEW t \in Tasks PROVE CountedDelay[t] \in Nat
      <4>1. CASE tstate[t] = "delayed"
        <5>1. delay[t] \in Nat /\ delay[t] > 0
          BY <1>0, <4>1 DEF TypeOK, DelayedPositive
        <5>2. QED
          BY <4>1, <5>1 DEF CountedDelay
      <4>2. CASE tstate[t] # "delayed"
        BY <1>0, <4>2 DEF TypeOK, CountedDelay
      <4>3. QED
        BY <4>1, <4>2
    <3>2. QED
      BY <3>1 DEF CountedDelay
  <2>3. NewCapRem \in [Tasks -> Nat]
    <3>1. ChargedCap \in [Tasks -> Nat]
      BY <1>0 DEF TypeOK, ChargedCap
    <3>2. QED
      BY <3>1, <1>0 DEF TypeOK, NewCapRem
  <2>4. ASSUME NEW st \in [Tasks -> States]
        PROVE  Wake(st) \in [Tasks -> States]
    BY DEF Wake, States
  <2>5. tstate' \in [Tasks -> States] /\ current' \in Tasks
    <3>1. Preempt(tstate) \in [Tasks -> States]
      BY <1>0, PreemptType
    <3>2. CASE schedlock
      BY <2>1, <2>4, <3>2, <1>0 DEF TypeOK
    <3>3. CASE ~schedlock
      <4>1. Dispatch(Wake(Preempt(tstate)), NewCapRem)
        BY <2>1, <3>3
      <4>2. Wake(Preempt(tstate)) \in [Tasks -> States]
        BY <3>1, <2>4
      <4>3. QED
        BY <4>1, <4>2, DispatchType
    <3>4. QED
      BY <3>2, <3>3
  <2>6. ASSUME NEW st \in [Tasks -> States],
               \A t \in Tasks : st[t] = "delayed" => tstate[t] = "delayed"
        PROVE  \A t \in Tasks : Wake(st)[t] = "delayed" => CountedDelay[t] > 0
    <3> SUFFICES ASSUME NEW t \in Tasks, Wake(st)[t] = "delayed"
                 PROVE  CountedDelay[t] > 0
      OBVIOUS
    <3>1. st[t] = "delayed" /\ CountedDelay[t] # 0
      BY DEF Wake
    <3>2. tstate[t] = "delayed"
      BY <3>1, <2>6
    <3>3. delay[t] \in Nat /\ delay[t] > 0
      BY <3>2, <1>0 DEF DelayedPositive, TypeOK, TypeInv
    <3>4. CountedDelay[t] = delay[t] - 1
      BY <3>2 DEF CountedDelay
    <3>5. QED
      BY <3>1, <3>3, <3>4
  <2>7. DelayedPositive'
    <3>1. CASE schedlock
      BY <2>1, <2>6, <3>1, <1>0 DEF DelayedPositive, TypeOK
    <3>2. CASE ~schedlock
      <4>1. PICK n \in Candidates(Wake(Preempt(tstate)), NewCapRem) :
                 /\ current' = n
                 /\ tstate' = [Wake(Preempt(tstate)) EXCEPT ![n] = "running"]
        BY <2>1, <3>2 DEF Dispatch
      <4>2. Preempt(tstate) \in [Tasks -> States]
        BY <1>0, PreemptType
      <4>3. \A t \in Tasks : Preempt(tstate)[t] = "delayed" => tstate[t] = "delayed"
        BY <1>0 DEF Preempt, TypeOK
      <4>4. \A t \in Tasks : Wake(Preempt(tstate))[t] = "delayed"
                               => CountedDelay[t] > 0
        BY <4>2, <4>3, <2>6
      <4>5. Wake(Preempt(tstate)) \in [Tasks -> States]
        BY <4>2, <2>4
      <4>6. QED
        BY <4>1, <4>4, <4>5, <2>1 DEF DelayedPositive
    <3>3. QED
      BY <3>1, <3>2
  <2>8. tick' \in 0 .. TickWrap - 1
    BY <2>1, <1>0 DEF TypeOK
  <2>9. spent' \in Nat
    BY <2>1, <1>0 DEF TypeOK
  <2>10. QED
    BY <2>1, <2>2, <2>3, <2>5, <2>7, <2>8, <2>9, <1>0 DEF TypeInv, TypeOK
<1>2. CASE IdleUnlock
  BY <1>2, <1>0 DEF IdleUnlock, nvars, TypeInv, TypeOK, DelayedPositive
<1>3. CASE ServerYield
  <2>1. /\ Dispatch(Preempt(tstate), capRem)
        /\ UNCHANGED <<tick, period, capacity, capRem, delay, apQueue, schedlock>>
        /\ fuel' = Refill
        /\ UNCHANGED <<spc, next, gpc, served, given, spent>>
    BY <1>3 DEF ServerYield, Yield
  <2>2. tstate' \in [Tasks -> States] /\ current' \in Tasks
    BY <2>1, <1>0, PreemptType, DispatchType
  <2>3. DelayedPositive'
    <3>1. PICK n \in Candidates(Preempt(tstate), capRem) :
               tstate' = [Preempt(tstate) EXCEPT ![n] = "running"]
      BY <2>1 DEF Dispatch
    <3>2. \A t \in Tasks : tstate'[t] = "delayed" => tstate[t] = "delayed"
      BY <3>1, <1>0 DEF Preempt, TypeOK
    <3>3. QED
      BY <3>2, <2>1, <1>0 DEF DelayedPositive
  <2>4. Refill \in 0 .. ServerCapacity
    BY <1>0 DEF TypeOK, Refill
  <2>5. QED
    BY <2>1, <2>2, <2>3, <2>4, <1>0 DEF TypeInv, TypeOK
<1>4. CASE ServerPop
  <2>1. /\ Len(apQueue) > 0
        /\ fuel' = Refill
        /\ next' = Head(apQueue)
        /\ apQueue' = Tail(apQueue)
        /\ spc' = "charge"
        /\ UNCHANGED <<tick, tstate, period, capacity, capRem, delay, current,
                       schedlock, gpc, served, given, spent>>
    BY <1>4 DEF ServerPop, PollingServerScheduler
  <2>2. Head(apQueue) \in Tasks /\ Tail(apQueue) \in Seq(Tasks)
        /\ Len(Tail(apQueue)) <= MaxTasks
    <3>1. apQueue \in Seq(Tasks) /\ apQueue # << >> /\ Len(apQueue) <= MaxTasks
      BY <2>1, <1>0 DEF TypeOK
    <3>2. QED
      BY <3>1, HeadTailProperties
  <2>3. Refill \in 0 .. ServerCapacity
    BY <1>0 DEF TypeOK, Refill
  <2>4. QED
    BY <2>1, <2>2, <2>3, <1>0 DEF TypeInv, TypeOK, DelayedPositive
<1>5. CASE ChargeFull
  <2>1. /\ fuel >= capacity[next]
        /\ fuel' = fuel - capacity[next]
        /\ HandOver
        /\ spc' = "dispatch"
        /\ served' = served \cup {next}
        /\ given' = [given EXCEPT ![next] = @ + capacity[next]]
        /\ spent' = spent + capacity[next]
        /\ UNCHANGED <<tick, period, capacity, capRem, delay, apQueue, current,
                       schedlock, next, gpc>>
    BY <1>5 DEF ChargeFull
  <2>2. tstate' \in [Tasks -> States] /\ DelayedPositive'
    BY <2>1, <1>0, <1>s DEF HandOver, TypeOK, States, DelayedPositive
  <2>a. /\ next \in Tasks /\ capacity[next] \in Nat /\ fuel \in 0 .. ServerCapacity
        /\ spent \in Nat /\ given \in [Tasks -> Nat] /\ served \subseteq Tasks
    BY <1>0 DEF TypeOK
  <2>3. fuel' \in 0 .. ServerCapacity /\ spent' \in Nat
    BY <2>1, <2>a
  <2>4. given' \in [Tasks -> Nat] /\ served' \subseteq Tasks
    BY <2>1, <2>a
  <2>5. QED
    BY <2>1, <2>2, <2>3, <2>4, <1>0 DEF TypeInv, TypeOK
<1>6. CASE ChargePartial
  <2>1. /\ fuel < capacity[next]
        /\ capacity' = [capacity EXCEPT ![next] = @ - fuel]
        /\ fuel' = 0
        /\ apQueue' = AddTail(apQueue, next)
        /\ HandOver
        /\ spc' = "dispatch"
        /\ given' = [given EXCEPT ![next] = @ + fuel]
        /\ spent' = spent + fuel
        /\ UNCHANGED <<tick, period, capRem, delay, current, schedlock, next,
                       gpc, served>>
    BY <1>6 DEF ChargePartial
  <2>2. tstate' \in [Tasks -> States] /\ DelayedPositive'
    BY <2>1, <1>0, <1>s DEF HandOver, TypeOK, States, DelayedPositive
  <2>3. capacity' \in [Tasks -> Nat]
    BY <2>1, <1>0 DEF TypeOK
  <2>4. apQueue' \in Seq(Tasks) /\ Len(apQueue') <= MaxTasks
    BY <2>1, <1>0 DEF TypeOK, AddTail
  <2>5. given' \in [Tasks -> Nat] /\ spent' \in Nat /\ fuel' \in 0 .. ServerCapacity
    BY <2>1, <1>0 DEF TypeOK
  <2>6. QED
    BY <2>1, <2>2, <2>3, <2>4, <2>5, <1>0 DEF TypeInv, TypeOK
<1>7. CASE ServerDispatch
  BY <1>7, <1>0 DEF ServerDispatch, TypeInv, TypeOK, DelayedPositive
<1>8. CASE GenSpawn
  <2>1. Spawn(0, ApCapacity) /\ gpc' = "delay"
        /\ UNCHANGED <<tick, delay, current, schedlock, fuel, spc, next, served,
                       given, spent>>
    BY <1>8 DEF GenSpawn
  <2>2. /\ tstate' \in [Tasks -> States]
        /\ period' \in [Tasks -> Nat]
        /\ capacity' \in [Tasks -> Nat]
        /\ capRem' \in [Tasks -> Nat]
        /\ apQueue' \in Seq(Tasks) /\ Len(apQueue') <= MaxTasks
    BY <2>1, <1>0, SpawnType
  <2>3. \A t \in Tasks : tstate'[t] = "delayed" => tstate[t] = "delayed"
    BY <2>1, <1>0 DEF Spawn, TypeOK
  <2>4. QED
    BY <2>1, <2>2, <2>3, <1>0 DEF TypeInv, TypeOK, DelayedPositive
<1>9. CASE GenDelay
  <2>1. PICK d \in DelayTicks :
          /\ delay' = [delay EXCEPT ![current] = d]
          /\ Dispatch([tstate EXCEPT ![current] = "delayed"], capRem)
          /\ UNCHANGED <<tick, period, capacity, capRem, apQueue, schedlock>>
          /\ gpc' = "spawn"
          /\ UNCHANGED <<fuel, spc, next, served, given, spent>>
    BY <1>9 DEF GenDelay, DelayMs
  <2>2. [tstate EXCEPT ![current] = "delayed"] \in [Tasks -> States]
    BY <1>0 DEF TypeOK, States
  <2>3. tstate' \in [Tasks -> States] /\ current' \in Tasks
    BY <2>1, <2>2, DispatchType
  <2>4. d \in Nat /\ d > 0
    BY NodeAssumption
  <2>5. DelayedPositive'
    <3>1. PICK n \in Candidates([tstate EXCEPT ![current] = "delayed"], capRem) :
               tstate' = [[tstate EXCEPT ![current] = "delayed"] EXCEPT ![n] = "running"]
      BY <2>1 DEF Dispatch
    <3>2. QED
      BY <3>1, <2>1, <2>4, <1>0 DEF DelayedPositive, TypeOK
  <2>6. QED
    BY <2>1, <2>3, <2>4, <2>5, <1>0 DEF TypeInv, TypeOK
<1>10. CASE UNCHANGED vars
  BY <1>10, <1>0 DEF vars, kvars, nvars, TypeInv, TypeOK, DelayedPositive
<1>11. QED
  BY <1>1, <1>2, <1>3, <1>4, <1>5, <1>6, <1>7, <1>8, <1>9, <1>10
  DEF Next, ServerStep, GenStep

(* Every reachable state of the node is well typed.                        *)
THEOREM TypeCorrect == Spec => []TypeOK
<1>1. Init => TypeInv
  BY TypeInvInit
<1>2. TypeInv /\ [Next]_vars => TypeInv'
  BY TypeInvNext
<1>3. TypeInv => TypeOK
  BY DEF TypeInv
<1>4. QED
  BY <1>1, <1>2, <1>3, PTL DEF Spec

=============================================================================
