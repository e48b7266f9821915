------------------------------- MODULE Kernel -------------------------------
(***************************************************************************)
(* The HellfireOS task kernel of one node, as the services the tasks of   *)
(* src/hellfireos/sys/kernel/main.c call: the tick dispatcher with its    *)
(* accounting and RT job releases, the two-tier scheduler (rate-monotonic *)
(* real-time tier, then best effort), hf_spawn, hf_yield, delay_ms and    *)
(* the head pop of the aperiodic queue.  The kernel's own sources are not *)
(* part of src/, so every operator here is written from the design        *)
(* document (spec.md sections 3, 4.1-4.6).                                 *)
(*                                                                         *)
(* The operators define the primed kernel variables only; the module that *)
(* models the tasks (Node) composes them with the tasks' own state.       *)
(***************************************************************************)
EXTENDS Naturals, Sequences, FiniteSets

CONSTANTS
    MaxTasks,   \* MAX_TASKS: slots of the TCB table, capacity of every queue
    TickWrap    \* the tick counter is kept modulo TickWrap (a common
                \* multiple of every period, so releases are unaffected)

ASSUME KernelAssumption ==
    /\ MaxTasks \in Nat \ {0}
    /\ TickWrap \in Nat \ {0}

Tasks == 0 .. MaxTasks - 1

(* TCB state field; "idle" is TASK_IDLE, the free slot.                    *)
States == {"idle", "ready", "running", "blocked", "delayed"}

VARIABLES
    tick,       \* krnl_pcb.tick_time, modulo TickWrap
    tstate,     \* krnl_tcb[i].state
    period,     \* krnl_tcb[i].period (0: not real-time)
    capacity,   \* krnl_tcb[i].capacity (for aperiodic tasks: work left)
    capRem,     \* krnl_tcb[i].capacity_rem of the current job
    delay,      \* krnl_tcb[i].delay, residual ticks of a delayed task
    apQueue,    \* krnl_aperiodic_queue, a FIFO of task ids
    current,    \* krnl_current_task
    schedlock   \* scheduler lock of hf_schedlock(): no preemption while set

kvars == <<tick, tstate, period, capacity, capRem, delay, apQueue, current,
           schedlock>>

-----------------------------------------------------------------------------
(* Classes of a spawned task.  A task is real-time when its period is     *)
(* positive, aperiodic when its period is 0 and it carries a capacity     *)
(* (the build's hf_spawn(dummy_task, 0, 18, 0, ...)), best effort else.    *)
IsRT(t)        == tstate[t] # "idle" /\ period[t] > 0
IsAperiodic(t) == tstate[t] # "idle" /\ period[t] = 0 /\ capacity[t] > 0
IsBE(t)        == tstate[t] # "idle" /\ period[t] = 0 /\ capacity[t] = 0

(* A task is in a ready queue when it is neither blocked nor delayed; the  *)
(* state field of a task that is not the current one may still say        *)
(* "running" (see the polling server), and the queues do not look at it.   *)
Runnable(st, t) == st[t] \in {"ready", "running"}

(* hf_queue_addtail on a queue of capacity MaxTasks: fails when full, and  *)
(* the queue is then unchanged.                                            *)
AddTail(q, x) == IF Len(q) < MaxTasks THEN Append(q, x) ELSE q

-----------------------------------------------------------------------------
(* The scheduler (spec 4.4).  Real-time tier: the eligible RT task with    *)
(* the smallest period (RMA), ties by id.  Best-effort tier: a ready BE    *)
(* task; every BE task of this build has priority 0, so the round robin   *)
(* among them is left as a free choice.  Aperiodic tasks are in no ready  *)
(* queue: only the polling server runs them.                               *)
RTEligible(st, cr) ==
    {t \in Tasks : IsRT(t) /\ Runnable(st, t) /\ cr[t] > 0}

RMABefore(t, u) == period[t] < period[u] \/ (period[t] = period[u] /\ t <= u)

(* Mutant: aperiodic tasks sit in the best-effort ready queue.            *)
CandidatesWithAperiodic(st, cr) ==
    LET rt == RTEligible(st, cr) IN
    IF rt # {} THEN {t \in rt : \A u \in rt : RMABefore(t, u)}
               ELSE {t \in Tasks : (IsBE(t) \/ IsAperiodic(t)) /\ Runnable(st, t)}

Candidates(st, cr) ==
    LET rt == RTEligible(st, cr) IN
    IF rt # {} THEN {t \in rt : \A u \in rt : RMABefore(t, u)}
               ELSE {t \in Tasks : IsBE(t) /\ Runnable(st, t)}

(* Saving the context of the current task: a RUNNING task becomes READY.   *)
Preempt(st) == [st EXCEPT ![current] = IF @ = "running" THEN "ready" ELSE @]

(* Choose the next task from state st and budgets cr, and jump into it.    *)
Dispatch(st, cr) ==
    \E n \in Candidates(st, cr) :
        /\ current' = n
        /\ tstate' = [st EXCEPT ![n] = "running"]

-----------------------------------------------------------------------------
(* The timer interrupt (spec 4.3): save the current task, advance the      *)
(* tick, charge the running RT task, count down delays and wake those that *)
(* reach zero, release the jobs whose period elapsed, then schedule.  With *)
(* the scheduler lock held the current task keeps the processor.          *)
Released(t) == IsRT(t) /\ ((tick + 1) % TickWrap) % period[t] = 0

(* The running RT task is charged the tick it ran.                         *)
ChargedCap == [capRem EXCEPT ![current] =
                  IF IsRT(current) /\ @ > 0 THEN @ - 1 ELSE @]

(* A released job gets the task's full capacity.                           *)
NewCapRem == [t \in Tasks |-> IF Released(t) THEN capacity[t] ELSE ChargedCap[t]]

CountedDelay == [t \in Tasks |-> IF tstate[t] = "delayed" THEN delay[t] - 1
                                                         ELSE delay[t]]

(* The delayed tasks whose delay ran out go back to their ready queue.     *)
Wake(st) == [t \in Tasks |->
                IF st[t] = "delayed" /\ CountedDelay[t] = 0 THEN "ready" ELSE st[t]]

Tick ==
    /\ tick' = (tick + 1) % TickWrap
    /\ capRem' = NewCapRem
    /\ delay' = CountedDelay
    /\ IF schedlock
          THEN /\ tstate' = Wake(tstate)
               /\ UNCHANGED current
          ELSE Dispatch(Wake(Preempt(tstate)), NewCapRem)
    /\ UNCHANGED <<period, capacity, apQueue, schedlock>>

(* hf_yield(): the current task gives up the processor without a tick.     *)
Yield ==
    /\ Dispatch(Preempt(tstate), capRem)
    /\ UNCHANGED <<tick, period, capacity, capRem, delay, apQueue, schedlock>>

(* delay_ms(): the current task sleeps d ticks (d >= 1) and the scheduler  *)
(* picks another task.                                                     *)
DelayMs(d) ==
    /\ delay' = [delay EXCEPT ![current] = d]
    /\ Dispatch([tstate EXCEPT ![current] = "delayed"], capRem)
    /\ UNCHANGED <<tick, period, capacity, capRem, apQueue, schedlock>>

(* hf_spawn(entry, per, cap, ...): the lowest free slot gets the task; an  *)
(* RT task starts with its first job released, an aperiodic task joins the *)
(* tail of the aperiodic queue.  With no free slot, or the aperiodic queue *)
(* full, it fails and nothing changes.                                     *)
FreeSlots == {t \in Tasks : tstate[t] = "idle"}

SpawnFails(per, cap) ==
    FreeSlots = {} \/ (per = 0 /\ cap > 0 /\ Len(apQueue) >= MaxTasks)

Spawn(per, cap) ==
    IF SpawnFails(per, cap)
       THEN UNCHANGED <<tstate, period, capacity, capRem, apQueue>>
       ELSE \E s \in FreeSlots :
              /\ \A u \in FreeSlots : s <= u
              /\ tstate' = [tstate EXCEPT ![s] = "ready"]
              /\ period' = [period EXCEPT ![s] = per]
              /\ capacity' = [capacity EXCEPT ![s] = cap]
              /\ capRem' = [capRem EXCEPT ![s] = IF per > 0 THEN cap ELSE 0]
              /\ apQueue' = IF per = 0 /\ cap > 0 THEN Append(apQueue, s)
                                                  ELSE apQueue

(* polling_server_scheduler(): the next aperiodic task is the head of the  *)
(* aperiodic queue, which it removes (hf_queue_remhead).                   *)
PollingServerScheduler(q) == <<Head(q), Tail(q)>>

=============================================================================
