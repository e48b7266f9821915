-------------------------------- MODULE Node --------------------------------
(***************************************************************************)
(* One HellfireOS node as src/hellfireos/sys/kernel/main.c builds it: the *)
(* boot sequence of main(), the idle task, the polling server task that   *)
(* serves the aperiodic queue with a fuel budget, and the aperiodic task  *)
(* generator that spawns a dummy_task now and then, all running on the    *)
(* kernel of module Kernel and preempted by its timer tick.               *)
(*                                                                         *)
(* A task executes a step only while it is krnl_current_task.  The steps  *)
(* are cut where the timer interrupt can fall between them: the polling   *)
(* server runs lines 121-133 and 135-145 with interrupts enabled and      *)
(* lines 146-155 with interrupts disabled.                                 *)
(***************************************************************************)
EXTENDS Kernel

CONSTANTS
    ServerPeriod,    \* hf_spawn(polling_server_task, 20, 6, 20, ...)
    ServerCapacity,
    GenPeriod,       \* hf_spawn(aperiodic_task_generator, 10, 2, 10, ...)
    GenCapacity,
    ApCapacity,      \* hf_spawn(dummy_task, 0, 18, 0, ...)
    DelayTicks       \* ticks that delay_ms(random() % 140 + 60) may sleep

ASSUME NodeAssumption ==
    /\ MaxTasks >= 4
    /\ ServerPeriod \in Nat \ {0} /\ ServerCapacity \in 1 .. ServerPeriod
    /\ GenPeriod \in Nat \ {0} /\ GenCapacity \in 1 .. GenPeriod
    /\ TickWrap % ServerPeriod = 0 /\ TickWrap % GenPeriod = 0
    /\ ApCapacity \in Nat \ {0}
    /\ DelayTicks \subseteq Nat \ {0} /\ DelayTicks # {}

(* Task ids in spawn order (hf_spawn takes the lowest free slot).         *)
Idle == 0
Server == 1
Generator == 2
App == 3

VARIABLES
    fuel,     \* server_fuel, local of polling_server_task
    spc,      \* where the polling server resumes: loop top, fuel charge or dispatch
    next,     \* next_aperiodic, local of polling_server_task
    gpc,      \* where the generator resumes: hf_spawn or delay_ms
    served,   \* ghost: aperiodic tasks the server has charged in full
    given,    \* ghost: fuel the server has charged to each aperiodic task
    spent     \* ghost: fuel charged since the server's last job release

nvars == <<fuel, spc, next, gpc, served, given, spent>>
vars == <<kvars, nvars>>

-----------------------------------------------------------------------------
(* clear_tcb(): every slot is free (TASK_IDLE) and its counters are 0.   *)
ClearedState == [t \in Tasks |-> "idle"]
ClearedField == [t \in Tasks |-> 0]

(* init_queues(): the queues start empty.                                  *)
EmptyQueue == << >>

(* main(): hf_schedlock(1), clear_tcb(), clear_pcb(), init_queues(), then  *)
(* the idle task, the polling server and the generator are spawned, and    *)
(* app_main() spawns one best-effort task (sender or receiver of          *)
(* noc_test); the first task dispatched is the idle task.  The server's   *)
(* prologue sets server_fuel to its own capacity.                          *)
Init ==
    /\ tick = 0
    /\ tstate = [ClearedState EXCEPT ![Idle] = "running", ![Server] = "ready",
                                     ![Generator] = "ready", ![App] = "ready"]
    /\ period = [ClearedField EXCEPT ![Server] = ServerPeriod,
                                     ![Generator] = GenPeriod]
    /\ capacity = [ClearedField EXCEPT ![Server] = ServerCapacity,
                                       ![Generator] = GenCapacity]
    /\ capRem = capacity
    /\ delay = ClearedField
    /\ apQueue = EmptyQueue
    /\ current = Idle
    /\ schedlock = TRUE
    /\ fuel = ServerCapacity
    /\ spc = "top"
    /\ next = Idle
    /\ gpc = "spawn"
    /\ served = {}
    /\ given = [t \in Tasks |-> 0]
    /\ spent = 0

-----------------------------------------------------------------------------
(* The timer interrupt; a release of the server's job starts a new budget *)
(* period for the ghost spent.                                             *)
DispatchTick ==
    /\ Tick
    /\ spent' = IF Released(Server) THEN 0 ELSE spent
    /\ UNCHANGED <<fuel, spc, next, gpc, served, given>>

(* idletask(): releases the scheduler lock taken by main(), then idles.   *)
IdleUnlock ==
    /\ current = Idle
    /\ schedlock
    /\ schedlock' = FALSE
    /\ UNCHANGED <<tick, tstate, period, capacity, capRem, delay, apQueue,
                   current, nvars>>

(* Mutant: the refill of line 122 is lost.                                 *)
RefillNever == fuel

(* Top of the server loop: the fuel is refilled only once it is empty.    *)
Refill == IF fuel = 0 THEN ServerCapacity ELSE fuel

(* An empty aperiodic queue: the server yields, keeping its fuel.          *)
ServerYield ==
    /\ current = Server
    /\ spc = "top"
    /\ Len(apQueue) = 0
    /\ fuel' = Refill
    /\ Yield
    /\ UNCHANGED <<spc, next, gpc, served, given, spent>>

(* Mutant: the count test is off by one, a lone queued task is never      *)
(* popped.                                                                 *)
ServerPopOffByOne ==
    /\ current = Server
    /\ spc = "top"
    /\ Len(apQueue) > 1
    /\ fuel' = Refill
    /\ next' = PollingServerScheduler(apQueue)[1]
    /\ apQueue' = PollingServerScheduler(apQueue)[2]
    /\ spc' = "charge"
    /\ UNCHANGED <<tick, tstate, period, capacity, capRem, delay, current,
                   schedlock, gpc, served, given, spent>>

(* Mutant: the head is read (hf_queue_get) and left in the queue.         *)
ServerPopPeek ==
    /\ current = Server
    /\ spc = "top"
    /\ Len(apQueue) > 0
    /\ fuel' = Refill
    /\ next' = PollingServerScheduler(apQueue)[1]
    /\ spc' = "charge"
    /\ UNCHANGED <<tick, tstate, period, capacity, capRem, delay, apQueue,
                   current, schedlock, gpc, served, given, spent>>

(* Otherwise it takes the head of the aperiodic queue.                     *)
ServerPop ==
    /\ current = Server
    /\ spc = "top"
    /\ Len(apQueue) > 0
    /\ fuel' = Refill
    /\ next' = PollingServerScheduler(apQueue)[1]
    /\ apQueue' = PollingServerScheduler(apQueue)[2]
    /\ spc' = "charge"
    /\ UNCHANGED <<tick, tstate, period, capacity, capRem, delay, current,
                   schedlock, gpc, served, given, spent>>

(* Lines 144-145: the server marks itself READY and the aperiodic task    *)
(* RUNNING, with interrupts still enabled.                                 *)
HandOver == tstate' = [tstate EXCEPT ![Server] = "ready", ![next] = "running"]

(* Mutant: the fuel test of line 135 is dropped.                          *)
ChargeFullNoGuard ==
    /\ current = Server
    /\ spc = "charge"
    /\ fuel' = fuel - capacity[next]
    /\ HandOver
    /\ spc' = "dispatch"
    /\ served' = served \cup {next}
    /\ given' = [given EXCEPT ![next] = @ + capacity[next]]
    /\ spent' = spent + capacity[next]
    /\ UNCHANGED <<tick, period, capacity, capRem, delay, apQueue, current,
                   schedlock, next, gpc>>

(* Mutant: the task is not queued again (line 141 lost).                 *)
ChargePartialNoRequeue ==
    /\ current = Server
    /\ spc = "charge"
    /\ fuel < capacity[next]
    /\ capacity' = [capacity EXCEPT ![next] = @ - fuel]
    /\ fuel' = 0
    /\ HandOver
    /\ spc' = "dispatch"
    /\ given' = [given EXCEPT ![next] = @ + fuel]
    /\ spent' = spent + fuel
    /\ UNCHANGED <<tick, period, capRem, delay, current, schedlock, next, gpc,
                   served, apQueue>>

(* Mutant: lines 139 and 140 swapped, the capacity is lowered by the fuel *)
(* after it was emptied.                                                   *)
ChargePartialSwapped ==
    /\ current = Server
    /\ spc = "charge"
    /\ fuel < capacity[next]
    /\ capacity' = [capacity EXCEPT ![next] = @ - 0]
    /\ fuel' = 0
    /\ apQueue' = AddTail(apQueue, next)
    /\ HandOver
    /\ spc' = "dispatch"
    /\ given' = [given EXCEPT ![next] = @ + fuel]
    /\ spent' = spent + fuel
    /\ UNCHANGED <<tick, period, capRem, delay, current, schedlock, next, gpc,
                   served>>

(* Mutant: the task goes back to the head of the queue, not the tail.     *)
ChargePartialAtHead ==
    /\ current = Server
    /\ spc = "charge"
    /\ fuel < capacity[next]
    /\ capacity' = [capacity EXCEPT ![next] = @ - fuel]
    /\ fuel' = 0
    /\ apQueue' = <<next>> \o apQueue
    /\ HandOver
    /\ spc' = "dispatch"
    /\ given' = [given EXCEPT ![next] = @ + fuel]
    /\ spent' = spent + fuel
    /\ UNCHANGED <<tick, period, capRem, delay, current, schedlock, next, gpc,
                   served>>

(* Mutant: line 134 tests server_fuel > capacity, so a task the fuel    *)
(* covers exactly may take the partial charge.                             *)
ChargePartialLe ==
    /\ current = Server
    /\ spc = "charge"
    /\ fuel <= capacity[next]
    /\ capacity' = [capacity EXCEPT ![next] = @ - fuel]
    /\ fuel' = 0
    /\ apQueue' = AddTail(apQueue, next)
    /\ HandOver
    /\ spc' = "dispatch"
    /\ given' = [given EXCEPT ![next] = @ + fuel]
    /\ spent' = spent + fuel
    /\ UNCHANGED <<tick, period, capRem, delay, current, schedlock, next, gpc,
                   served>>

(* Enough fuel: the whole remaining capacity is charged and the task is   *)
(* not queued again.                                                       *)
ChargeFull ==
    /\ current = Server
    /\ spc = "charge"
    /\ fuel >= capacity[next]
    /\ fuel' = fuel - capacity[next]
    /\ HandOver
    /\ spc' = "dispatch"
    /\ served' = served \cup {next}
    /\ given' = [given EXCEPT ![next] = @ + capacity[next]]
    /\ spent' = spent + capacity[next]
    /\ UNCHANGED <<tick, period, capacity, capRem, delay, apQueue, current,
                   schedlock, next, gpc>>

(* Not enough: the fuel left is charged, the fuel is emptied and the task *)
(* goes back to the tail of the queue (the result of addtail is ignored). *)
ChargePartial ==
    /\ current = Server
    /\ spc = "charge"
    /\ fuel < capacity[next]
    /\ capacity' = [capacity EXCEPT ![next] = @ - fuel]
    /\ fuel' = 0
    /\ apQueue' = AddTail(apQueue, next)
    /\ HandOver
    /\ spc' = "dispatch"
    /\ given' = [given EXCEPT ![next] = @ + fuel]
    /\ spent' = spent + fuel
    /\ UNCHANGED <<tick, period, capRem, delay, current, schedlock, next, gpc,
                   served>>

(* Lines 146-155, interrupts disabled: the aperiodic task becomes the     *)
(* current task and is jumped into; when the dispatcher later resumes the *)
(* server, setjmp returns non-zero and the loop starts over.               *)
ServerDispatch ==
    /\ current = Server
    /\ spc = "dispatch"
    /\ current' = next
    /\ spc' = "top"
    /\ UNCHANGED <<tick, tstate, period, capacity, capRem, delay, apQueue,
                   schedlock, fuel, next, gpc, served, given, spent>>

(* aperiodic_task_generator(): spawn a dummy task (its result ignored)... *)
GenSpawn ==
    /\ current = Generator
    /\ gpc = "spawn"
    /\ Spawn(0, ApCapacity)
    /\ gpc' = "delay"
    /\ UNCHANGED <<tick, delay, current, schedlock, fuel, spc, next, served,
                   given, spent>>

(* ... then sleep a pseudo-random time.                                    *)
GenDelay ==
    /\ current = Generator
    /\ gpc = "delay"
    /\ \E d \in DelayTicks : DelayMs(d)
    /\ gpc' = "spawn"
    /\ UNCHANGED <<fuel, spc, next, served, given, spent>>

ServerStep == ServerYield \/ ServerPop \/ ChargeFull \/ ChargePartial
                \/ ServerDispatch
GenStep == GenSpawn \/ GenDelay

Next == DispatchTick \/ IdleUnlock \/ ServerStep \/ GenStep

(* The timer always interrupts again; a task that is current again and    *)
(* again runs at least one step between two ticks.                         *)
Fairness ==
    /\ WF_vars(DispatchTick)
    /\ SF_vars(IdleUnlock)
    /\ SF_vars(ServerStep)
    /\ SF_vars(GenStep)

Spec == Init /\ [][Next]_vars /\ Fairness

-----------------------------------------------------------------------------
TypeOK ==
    /\ tick \in 0 .. TickWrap - 1
    /\ tstate \in [Tasks -> States]
    /\ period \in [Tasks -> Nat]
    /\ capacity \in [Tasks -> Nat]
    /\ capRem \in [Tasks -> Nat]
    /\ delay \in [Tasks -> Nat]
    /\ apQueue \in Seq(Tasks) /\ Len(apQueue) <= MaxTasks
    /\ current \in Tasks
    /\ schedlock \in BOOLEAN
    /\ fuel \in 0 .. ServerCapacity
    /\ spc \in {"top", "charge", "dispatch"}
    /\ next \in Tasks
    /\ gpc \in {"spawn", "delay"}
    /\ served \subseteq Tasks
    /\ given \in [Tasks -> Nat]
    /\ spent \in Nat

(* Spec 3: a delayed task has a strictly positive residual delay; with   *)
(* TypeOK it is inductive.                                                 *)
DelayedPositive == \A t \in Tasks : tstate[t] = "delayed" => delay[t] > 0

TypeInv == TypeOK /\ DelayedPositive

(* Spec 3: exactly one TCB is RUNNING outside the scheduler's critical    *)
(* section.  The polling server writes the two state fields (lines        *)
(* 144-145) before it disables interrupts (line 146).                      *)
OneRunning == Cardinality({t \in Tasks : tstate[t] = "running"}) = 1

(* Spec 4.5: the server grants at most its capacity of aperiodic work in  *)
(* one of its periods.  The code refills server_fuel whenever it reaches  *)
(* 0 (lines 121-122), not at the server's job release.                     *)
ServerBudget == spent <= ServerCapacity

InQueue(t) == \E i \in 1 .. Len(apQueue) : apQueue[i] = t
InService(t) == spc = "charge" /\ next = t

(* Every aperiodic task the generator spawned is, at any time, in exactly *)
(* one place: once in the aperiodic queue, popped and being charged by    *)
(* the server, or served in full.  A popped task that is not served goes  *)
(* back to the queue (line 141), and nothing else touches the queue.      *)
AperiodicAccounted ==
    /\ \A i, j \in 1 .. Len(apQueue) : i # j => apQueue[i] # apQueue[j]
    /\ \A t \in Tasks :
          /\ IsAperiodic(t) <=> (InQueue(t) \/ InService(t) \/ t \in served)
          /\ ~(InQueue(t) /\ InService(t))
          /\ ~(InQueue(t) /\ t \in served)
          /\ ~(InService(t) /\ t \in served)

(* The fuel the server charges to an aperiodic task adds up to the        *)
(* capacity it was spawned with: partial charges (lines 139-140) lower    *)
(* the task's capacity by exactly the fuel they take, and the full charge *)
(* (line 136) takes what is left.                                          *)
CapacityConserved ==
    \A t \in Tasks : IsAperiodic(t) =>
        IF t \in served THEN given[t] = ApCapacity
                        ELSE given[t] + capacity[t] = ApCapacity

(* A task the server has charged in full stays served and is never       *)
(* charged again: no step touches its account or its capacity field.     *)
(* Only the task popped at line 133 is charged, and a served task must    *)
(* never come out of the queue again.                                      *)
ServedUntouched ==
    \A t \in served : t \in served' /\ given'[t] = given[t]
                                   /\ capacity'[t] = capacity[t]
ServedFinal == [][ServedUntouched]_vars

(* Aperiodic tasks sit in no ready queue (spec 4.5): the dispatcher never *)
(* picks one, so an aperiodic task holds the processor only because the  *)
(* server jumped into it (lines 146-155) after charging it.  While it     *)
(* runs, the server is back at the loop top with that task as             *)
(* next_aperiodic and has burned fuel for it (lines 134-140).              *)
AperiodicViaServer ==
    IsAperiodic(current) =>
        /\ next = current
        /\ spc = "top"
        /\ fuel < ServerCapacity

(* Every aperiodic task that is spawned is eventually served in full.      *)
AperiodicServed == \A t \in Tasks : IsAperiodic(t) ~> t \in served


-----------------------------------------------------------------------------
(* The refinement mapping to ApServer.  The pending FIFO is the aperiodic *)
(* queue, with the task the server has popped and not yet charged at its  *)
(* head; the work a pending task needs is its capacity field, which the   *)
(* partial charge of line 139 lowers; the done tasks are those charged in *)
(* full.                                                                   *)
AbsQueue == IF spc = "charge" THEN <<next>> \o apQueue ELSE apQueue
AbsWork == [t \in Tasks |-> IF IsAperiodic(t) /\ t \notin served
                               THEN capacity[t] ELSE 0]

Abs == INSTANCE ApServer WITH Slots <- Tasks, Budget <- ServerCapacity,
           Work <- ApCapacity, queue <- AbsQueue, work <- AbsWork, done <- served

(* The safety part of that promise: every step of the node is a step of  *)
(* ApServer under the mapping or leaves it unchanged.  Pops (line 133)    *)
(* stutter, the full charge (line 136) finishes the head, the partial     *)
(* charge (lines 138-141) grants the fuel and requeues the head at the    *)
(* tail, a spawn of the generator arrives at the tail.                     *)
ServesSafely == Abs!SafeSpec

(* The FIFO the polling server serves, read through the mapping, never   *)
(* holds a task twice, never holds a served task, and every queued or     *)
(* popped task still needs work, at most the capacity hf_spawn gave it:   *)
(* the comparison of line 134 sends a task whose capacity the fuel covers *)
(* to the full charge, so a partial charge never leaves it at 0.           *)
AbsServerInv == Abs!ServerInv

(* The polling server implements the promise of ApServer: aperiodic tasks *)
(* are served in FIFO order, a partially served one (lines 138-141) goes  *)
(* to the tail with exactly the work it still needs, a grant never        *)
(* exceeds the server's capacity, no task is lost or served twice, and    *)
(* every pending task is eventually done.                                  *)
ServesAsPromised == Abs!Spec

=============================================================================
