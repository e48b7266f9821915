# A TLA+ verification development for HellfireOS (polling-server build)

This directory models the code under `src/`:

- `src/hellfireos/sys/kernel/main.c`: the boot sequence, the idle task, a
  polling server for aperiodic tasks and an aperiodic task generator;
- `src/hellfireos/app/noc_test/noc_test.c`: the application, which spawns one
  best-effort task;
- `src/hellfireos/lib/libc/libc.c`: the kernel's C library, including the
  software multiply, divide and shift routines the compiler calls.

The modules are checked with TLC. TLAPS proves the type theorem and the
refinement of an abstract polling server for every value of the constants.
`PROJECT.json` lists the components, runs, mutants, the source lines each
definition models, the findings and the hazards.

## The system and how its parts interact

`main()` takes the scheduler lock and clears the TCB table. It creates the
four task queues and then spawns three tasks:

- the idle task, in slot 0;
- the polling server, an RT task with period 20 and capacity 6, in slot 1;
- the generator, an RT task with period 10 and capacity 2, in slot 2.

`app_main()` then spawns one best-effort task, and the idle task is dispatched
first. The idle task releases the scheduler lock.

The timer interrupt (`dispatch_isr`) does three things on each tick:

- it charges the current RT job;
- it releases RT jobs at their periods;
- it counts down the delays, then picks the next task, first by
  rate-monotonic order among the RT tasks with capacity left, then among the
  best-effort tasks.

The generator spawns a `dummy_task` of capacity 18 with period 0. The kernel
puts such an aperiodic task on `krnl_aperiodic_queue`. The generator then
sleeps for a pseudo-random time.

The polling server loops:

- it refills `server_fuel` when it is empty;
- it yields when the queue is empty, keeping the fuel it has left. Spec
  4.5 and 9 describe a budget that is replenished each period and lost when
  the server has nothing to serve; the code keeps unused fuel across yields
  and refills only an empty tank (lines 121-122). The model follows the
  code, and the `node_server_budget` run shows the consequence;
- otherwise it pops the head of the queue and charges the task:
  - if the fuel covers the task's whole capacity, it charges it in full;
  - otherwise it charges the fuel left to the task's capacity and puts the
    task back at the tail;
- it then marks itself READY and the task RUNNING, disables interrupts and
  jumps into the task.

The kernel's own sources (dispatcher, scheduler, `hf_spawn`, queues) are not
in `src/`. Module `Kernel` therefore models them from the design document
`spec.md` (sections 3 and 4.1-4.6). Every Kernel operator is marked
`spec_modelled` in the map.

## Modules

| module | models | checked by |
|---|---|---|
| `Kernel` | the kernel services the tasks use: `Tick` (dispatch_isr: charge, release, wake, pick), `Dispatch`, `RMABefore`/`Candidates` (two tiers), `Spawn` (lowest free slot, aperiodic tasks to the aperiodic queue), `Yield`, `DelayMs`, `PollingServerScheduler` (head pop) | through `Node` |
| `Node` | main.c: `Init` (main, clear_tcb, init_queues, the three spawns, app_main's spawn); `IdleUnlock`; the server's steps `ServerYield`, `ServerPop`, `ChargeFull`, `ChargePartial`, `ServerDispatch`; the generator's `GenSpawn`, `GenDelay`; the tick `DispatchTick` | `MCNode` |
| `ApServer` | what the polling server promises the aperiodic tasks (spec 4.5): a FIFO of pending tasks, each owing work; `Arrive` at the tail, `Finish` of a head whose work fits in one grant, `Grant(k)` of k in 1..`Budget` that moves the head to the tail | as `Node`'s refinement target |
| `NodeProofs` | TLAPS proof of the type invariant of `Node` | tlapm |
| `NodeRefinementProofs` | TLAPS proof that `Node` implements `ApServer`'s safety specification | tlapm |
| `ApServerProofs` | TLAPS proof of `ApServer`'s invariant `ServerInv` | tlapm |
| `NodeSafetyProofs` | TLAPS proofs of `Node`'s accounting invariants, of `ServedFinal`, of `ApServer`'s invariant on the mapped node state and of `AperiodicViaServer` | tlapm |
| `LibArith` | libc.c 612-890: `__mulsi3`, `__muldsi3`, `__muldi3`, `__udivmodsi4`, `__divsi3`, `__modsi3`, `__udivsi3`, `__umodsi3`, `__ashldi3`, `__ashrdi3`, `__lshrdi3`, `__udivmoddi4`, `__umoddi3`, `__udivdi3`, `__moddi3`, `__divdi3` | `MCLibArith` |
| `Words` | the word width `W` (32 in the build) and `WordMod = 2^W`, shared by `LibArith` and `Mulsi3Loop` | through both |
| `Mulsi3Loop` | libc.c 627-637: the loop of `__mulsi3`, one iteration per step (`MulStep`), with its loop invariant and the TLAPS proof that it returns the product modulo 2^W | `MCLibArith`, tlapm |
| `LibConv` | libc.c 216-317: `strtol`, `atoi`, `itoa` | `MCLibConv` |
| `LibString` | libc.c 5-214: `strcpy`, `strncpy`, `strcat`, `strncat`, `strcmp`, `strncmp`, `strstr`, `strlen`, `strchr`, `strpbrk`, `strsep`, `strtok`, `memcpy`, `memmove`, `memcmp`, `memset` | `MCLibString` |

### State and actions of Node

The kernel variables of `Kernel` model the following fields:

- `tick`: `krnl_pcb.tick_time`, kept modulo `TickWrap`;
- `tstate`, `period`, `capacity`, `capRem`, `delay`: the TCB fields;
- `apQueue`: `krnl_aperiodic_queue`, as a sequence;
- `current`: `krnl_current_task`;
- `schedlock`: the `hf_schedlock` flag.

`Node` adds the locals of the tasks:

- `fuel`: `server_fuel`;
- `spc`: where the server resumes;
- `next`: `next_aperiodic`;
- `gpc`: where the generator resumes.

It also adds three ghost variables:

- `served`: the tasks charged in full;
- `given`: the fuel charged to each task;
- `spent`: the fuel charged since the server's last job release.

A task takes a step only while it is `current`. The steps are cut where the
timer can interrupt:

- lines 121-133 (refill, then yield or pop) are one step, because the queue
  calls are atomic in the kernel;
- lines 135-145 (charge, re-queue and the two state writes) are one step;
- lines 146-155 run with interrupts disabled and are one step.

The cut between 145 and 146 is the one that matters: there a tick can preempt
the server after it has already marked the aperiodic task RUNNING. `dummy_task`'s
busy loop changes no modelled state, and its return is kernel code, so it is
not an action.

### The libc modules

A word has `W` bits: 32 in the build, 4 in the checks. Every value is held as
its unsigned bit pattern, and `Signed` reads it in two's complement. Each
routine is written loop by loop:

- a loop is a `RECURSIVE` operator whose parameters are the loop variables;
- every wrap-around of the C types is an explicit `Pattern(_, W)`.

C leaves a shift by W or more bits undefined. On the target processors it
either masks the amount or yields 0, so the shift helpers `ShlW`, `ShrW` and
`SarW` return the set of results the build can produce, and a property
requires every member to be right.

The strings of `LibConv` are sequences of character codes. Reading past the
end reads NUL, as reading the terminator does in C.

In `LibString` memory is a sequence of bytes (0..255) and a pointer is a
0-based position in it; NULL is -1. A routine that writes returns the memory
after the call. Each loop is a recursive operator that reads the memory as
the earlier iterations left it, so an overlapping copy behaves as the C loop
makes it behave. `strcmp` and `strncmp` read bytes as `int8_t` (`SChar`),
as the code's pointer types do; `memcmp` reads them as `uint8_t`. `strtok`
takes and returns its static `last` pointer explicitly.

`MCLibString` also drives `strtok` as a caller does: `strtok(text, ", ")`,
then `strtok(NULL, ", ")` until it returns NULL (`Tokenized`, `Drive`). The
memory and the static `last` are threaded from each call to the next, so the
check sees what one call leaves behind for the following one.

The `MC` modules of libc enumerate every input with one counter variable. `Init` is a
single state, and the only action, `Call`, moves to the next input.

`MCLibArith` also runs `__mulsi3` step by step. `Mulsi3Loop` holds the C
variables `a`, `b` and `answer` (and the arguments `ma`, `mb`). `MulStep` is one
iteration of lines 630-635: add `a` when the low bit of `b` is set, double
`a` modulo the word, halve `b`. When `Call` moves to a pair whose high words
are zero, it enters the loop with that pair (line 628). It only moves on once
`b = 0`, that is, once the loop has exited. `MulsiResult` then states the
result. Pairs with a non-zero high word leave the loop alone; the recursive
`Mulsi3` of `LibArith` covers them inside `MulCorrect`.

## Runs

| run | expect | checks | shows |
|---|---|---|---|
| `node_safety` (MCNode.cfg) | pass | `TypeOK`, `AperiodicAccounted`, `CapacityConserved`, `AbsServerInv`, `AperiodicViaServer`, `ServedFinal`, `AperiodicServed`, `ServesSafely`, `ServesAsPromised` | Every spawned aperiodic task is always in exactly one place: the queue, in service, or served. Its charges add up to its capacity, and under the fairness below it is eventually served. Once a task is served, no step touches its account again (`ServedFinal`). The mapped state satisfies `ApServer`'s own invariant (`AbsServerInv`). An aperiodic task is current only as the `next` the server jumped into after charging it, with the server back at its loop top and its fuel below capacity (`AperiodicViaServer`). Under the mapping below, every behaviour of the node is a behaviour of `ApServer`, its fairness included. |
| `node_one_running` | violation | `OneRunning` | A tick between lines 145 and 146 leaves two TCBs RUNNING. |
| `node_server_budget` | violation | `ServerBudget` | The server can grant more than its capacity in one period. |
| `arith` | pass | `MulsiResult`, `MulCorrect`, `UDivModSiCorrect`, `SDivModSiCorrect`, `DivDiCorrect`, `ShiftsCorrect` | The multiply, divide and short-shift routines are exact on every argument pair. Run iteration by iteration, the loop of `__mulsi3` exits with the product modulo the word (`MulsiResult`). |
| `arith_moddi3_sign` | violation | `ModDiCorrect` | `__moddi3` gives the wrong sign for a negative divisor. |
| `arith_ashrdi3_word` | violation | `AshrdiWordShiftCorrect` | `__ashrdi3` by exactly 32 returns the wrong word. |
| `arith_wide_shifts` | violation | `WideShiftsCorrect` | Shifts by 33..63 take the wrong branch. |
| `conv` (MCLibConv.cfg) | pass | `AtoiCorrect`, `StrtolDecimalCorrect`, `ItoaCorrect` | `atoi` and decimal `strtol` agree with C on every 4-character buffer; `itoa` is right for -1100..1100 in bases 2..36, and returns empty for other bases. |
| `conv_strtol_letters` | violation | `StrtolCorrect` | `strtol` reads letters as digits in any base. |
| `conv_roundtrip` | violation | `StrtolItoaRoundTrip` | `strtol` cannot read back a long numeral of `itoa`. |
| `string` (MCLibString.cfg) | pass | `MemCorrect`, `StrScanCorrect`, `StrCopyCorrect`, `StrtokSplits` | The mem* routines, with `memmove` overlapping both ways, the scanning routines and the copying routines compute what the C standard says. `strcmp`/`strncmp` are checked on 7-bit strings only. A whole `strtok` tokenization returns exactly the delimiter-separated fields, and a further call returns NULL. |
| `string_strcmp_sign` | violation | `StrcmpUnsigned` | `strcmp` orders a byte of 128 or more below the 7-bit bytes. |

### The refinement mapping

`ApServer` has three variables, and `Node` maps them as follows:

- `queue` is `AbsQueue`: the aperiodic queue, with the task the server has
  popped and not yet charged (`spc = "charge"`) in front of it;
- `work` is `AbsWork`: the capacity field of an aperiodic task not yet
  served, which the partial charge lowers (line 139), and 0 otherwise;
- `done` is `served`.

Under this mapping the node's steps correspond to abstract steps:

- the pop of line 133 is a stutter, because the popped task stays at the head
  of `AbsQueue`;
- the full charge (line 136) is `Finish`;
- the partial charge (lines 138-141) is `Grant(fuel)`, since the fuel is
  between 1 and the capacity;
- a successful spawn of the generator is `Arrive`;
- every other step is a stutter.

`ServesSafely` is `ApServer`'s `SafeSpec` under this mapping, and
`ServesAsPromised` is its full `Spec`, with weak fairness on serving the head.

Every property of a passing run has a mutant in `PROJECT.json`: a plausible
bug in the mapped definition that TLC catches with the same configuration.
The mutants are:

- the dropped fuel test of line 135;
- the lost re-queue of line 141;
- lines 139 and 140 swapped;
- the lost refill of line 122;
- a lost cross product in `__muldsi3`;
- the dropped top-bit test of line 677;
- a remainder sign that follows the divisor;
- a `<` for `<=` at line 827;
- lost carries in `__ashldi3`;
- a `'-'` case in `atoi` that does not step over the sign;
- `strtol`'s end pointer not advanced;
- `itoa`'s swap starting one character late;
- a partially charged task re-queued at the head instead of the tail;
- the server's queue-count test off by one, so a lone queued task is never
  popped;
- `memmove` always copying forward;
- `strncmp`'s count test one short;
- `strncat`'s count test one short;
- `strtok` not skipping leading delimiters;
- a pop at line 133 that only peeks (`hf_queue_get`), so a fully charged
  task stays queued and is charged again;
- line 134 testing `server_fuel >= capacity` (a partial charge taken on an
  exact fit), which leaves a queued task with no work;
- `__mulsi3` doubling `a` before adding it (lines 632-633 swapped);
- aperiodic tasks in the dispatcher's best-effort queue, so the dispatcher
  runs one that the server never charged.

### Bounds

- **MCNode** has 6 TCB slots in the two violation runs: idle, server,
  generator, app and two aperiodic tasks. With them, the slot table fills up, and a second aperiodic task can
  be queued while the first one is in service.
  - The server has capacity 2 and period 4; the generator has capacity 1 and
    period 2. `TickWrap` is 4, a common multiple of the periods, so releases
    are exact.
  - Aperiodic tasks have capacity 3. That is not a multiple of 2, so both the
    partial charge with its re-queue and the full charge happen.
  - Delays are 1 or 2 ticks.
  - The real values (20/6, 10/2, 18, 60-200 ms) change how often things happen,
    not which interleavings are possible.
  - The passing run `node_safety` has 7 slots, so three aperiodic tasks can be pending at once. A task
    can then be partially charged and re-queued behind two others, which is
    where FIFO order and the re-queue position differ (the refinement).
- **MCLibArith** uses W = 4, so every one of the 65536 pairs of 8-bit double
  words is checked. Every branch of every routine is taken at this width:
  - the scaling loop reaching the top bit;
  - INT_MIN;
  - each shift amount from 0 to 7, shift amounts of a word and more included.
- **MCLibConv** checks, in one run, every buffer of 4 characters and every
  value and base below:
  - buffers over NUL, blank, tab, '+', '-' and the digits 0, 1 and 9;
  - and, for the failing run, over letters and 'x';
  - every value in -1100..1100, in bases 0, 1, 2, 3,
  8, 10, 16, 36 and 37. The range holds numerals of 11 digits in base 2 and
  values with two-digit remainders in base 36.

- **MCLibString** checks every memory of 5 bytes, the last one NUL and the
  others from {0, 'a', 'b', 200}. It checks every pair of pointers and every
  count in 0..4: 32000 calls. The NUL inside the memory gives empty and
  short strings, and 200 is a byte above 127. The pointers cover every
  overlap of source and destination, in both directions, at every distance.
  Each call also tokenizes a text of 5 characters over {'a', 'b', ',', ' '};
  all 1024 texts are reached. They include leading, trailing and repeated
  delimiters and texts made only of delimiters.

### Fairness

`Node` assumes weak fairness for the tick: the timer keeps interrupting. It
assumes strong fairness for the steps of the idle task, the server and the
generator. A task that the dispatcher makes current again and again takes a
step before the next tick.

The code justifies this because a tick period is many thousands of
instructions, and each modelled step is a few lines of C. No fairness is
assumed on the order in which the scheduler picks tasks. That order is
`Tick`'s deterministic rate-monotonic choice.

Two limits of `AperiodicServed` follow from the model. Served tasks keep
their slots (see "Not modelled"), so arrivals stop once the aperiodic slots
are full: a task overtaken forever by newer arrivals is not a behaviour the
run contains. And the property would hold vacuously if the idle task never
released the scheduler lock taken by `main()` (line 196), because no
aperiodic task is spawned before the generator runs; it does not check that
hand-over.

## What is proved

`NodeProofs` proves `THEOREM TypeCorrect == Spec => []TypeOK` for every value
of the constants that satisfies `KernelAssumption` and `NodeAssumption`.
Among those assumptions:

- at least four slots;
- positive periods, with capacities no larger than the periods;
- a `TickWrap` divisible by both periods;
- positive delays.

`TypeOK` alone is not inductive. The tick decrements the delay of every
delayed task and wakes it at 0, so the strengthening `TypeInv` adds
`DelayedPositive`: a delayed task has a positive delay. The proof has three
parts:

- `TypeInvInit`;
- `TypeInvNext`, with one case per action and one step per variable the
  action changes;
- lemmas on the kernel operators: `DispatchType`, `PreemptType` and
  `SpawnType` (a spawn keeps the queue within `MaxTasks`).

`NodeRefinementProofs` proves `THEOREM Refinement == Spec => ServesSafely`.
The node implements the safety part of `ApServer` for every value of the
constants allowed by the assumptions. The proof rests on the inductive
invariant `RInv`, which TLC also checks on the 7-slot instance. `RInv` holds
`TypeInv` and the following facts:

- the tasks of the boot sequence keep their slots and classes;
- the current task, `next` and every served task occupy their slots;
- the queued tasks are distinct, aperiodic and not served;
- while the server is charging (`spc = "charge"`), `next` is aperiodic,
  neither queued nor served, and the fuel is at least 1.

`QueueShort` derives from `RInv` that the queue is shorter than `MaxTasks`.
Queued tasks are distinct aperiodic tasks, and those exclude the four boot
tasks. So the `hf_queue_addtail` of line 141, whose result the code ignores,
never fails, and `Grant` re-queues the task. The proof has four parts:

- `RInvInit` and `RInvNext`: the invariant holds initially and is kept by
  every step. `RInvNext` has one lemma per action that changes the queue,
  and `QuietStep` covers the others;
- `AbsInit`: the initial state maps to `ApServer`'s initial state;
- `AbsStep`: each node step maps to an abstract step, by `Stutter`,
  `ChargeFullIsFinish`, `ChargePartialIsGrant` and `SpawnIsArrive`;
- `ConsFacts` and `HeadTailJoin`: the sequence lemmas these steps use.

### Accounting, finality and the abstract invariant

`NodeSafetyProofs` proves five theorems for every value of the constants
allowed by the assumptions:

- `Accounted == Spec => []AperiodicAccounted`;
- `Conserved == Spec => []CapacityConserved`;
- `ServedStable == Spec => ServedFinal`;
- `ServesInv == Spec => []AbsServerInv`;
- `ViaServer == Spec => []AperiodicViaServer`.

The first three rest on the inductive invariant `AInv`, which TLC checks on
the 7-slot instance before the proof. `AInv` is `RInv` with three more
conjuncts, each needed because the others alone are not kept by some step:

- `Complete`: every aperiodic task is queued, in service or served, and every
  served task is aperiodic. Without it, a spawn could meet an aperiodic task
  that is nowhere, and a pop could not be shown to keep the task accounted.
- `FreshAccount`: an idle slot has `given = 0`. A spawn of the generator
  reuses the lowest free slot; without this conjunct the new task could
  start with a stale account and `CapacityConserved` would fail at once.
- `CapacityConserved` itself: `capacity + given = ApCapacity` for every
  aperiodic task. A full charge moves the whole capacity into `given`, and a
  partial charge moves the fuel (lines 136-140). Given the other conjuncts,
  it is inductive as it stands.

There is one lemma per action that changes the queue or the accounts
(`APop`, `AChargeFull`, `AChargePartial`, `ASpawn`), and one (`AQuiet`) for
the others. `ServedStep` shows that each step keeps every served task served
with its account untouched, and `ServedStable` follows by PTL.

`ApServerProofs` proves `ServerSafe`. Its hypothesis is `WorkAssumption`,
a positive `Work` and a natural `Budget`. Under it, `SafeSpec => []ServerInv`
holds: the abstract queue has no duplicates and no served task, every queued
task owes work in 1..`Work`, and every served task owes nothing. `ServerInv`
is inductive as it stands. The `Grant` case rests on `Grant`'s guard
`k < work[head]`, which keeps the re-queued task's work positive.

`ServesInv` moves this theorem to the node through the refinement. It
instantiates `ApServerProofs` with `Node`'s mapping and shows that the two
instances of `ApServer` have the same initial predicate and next-state
relation. By `Refinement`, the node's behaviours then satisfy the abstract
`SafeSpec`, and so `ServerSafe` applies to them.

`AperiodicViaServer` says that a current aperiodic task is the server's
`next`, that the server is at its loop top, and that its fuel is below
capacity. It is not inductive as it stands: `ServerDispatch` (lines 146-155)
makes `next` current from the "dispatch" point, and nothing there says
that fuel was burned. The strengthening `DInv` therefore adds
`spc = "dispatch" => fuel < ServerCapacity`. Both charges establish it: a
full charge takes at least one unit (lemma `ChargeWork`: by `AbsServerInv`
the popped task heads the abstract queue and owes 1..`ApCapacity` units), and a partial charge
empties the fuel, with `ServerCapacity >= 1` by `NodeAssumption`. TLC checked
`DInv` on the 7-slot instance before the proof. `DInvNext` goes action by
action, and three lemmas carry it:

- `DispatchNotAperiodic`: every task the dispatcher picks, in the tick, in
  `hf_yield` and in `delay_ms`, is RT or best-effort.
- `BootNotAperiodic`: the server and the generator, current during their
  own steps, are not aperiodic; `RInv`'s `BootTasksKept` supplies this.
- `WakeSlots`: the tick under the scheduler lock keeps the current task's
  class.

### `__mulsi3`

`Mulsi3Loop` proves `MulsiCorrect == MulSpec => []MulsiResult` for every even
word width `W >= 2`. The loop invariant `MulInv` says that `answer + a * b`
equals the product `ma * mb` up to a multiple of `2^W`:

- `MulInvInit`: it holds on entry.
- `MulInvStep`: one iteration keeps it. Write `b = 2h + r`. Each wrap of
  `answer` and of `a` subtracts a multiple of the word (lemma `Wrap`). The
  remaining identity is ring arithmetic, stated once as `MulRing`.
- `MulInvResult`: at exit (`b = 0`) the invariant leaves `answer` congruent
  to the product. Since `answer` is a word, it is the remainder (lemma
  `ModUnique`).

The provers cannot evaluate `2^W`. `Words` therefore states
`WordMod \in Nat \ {0}` as a second assumption, `WordModPositive`. It is an
arithmetic fact, not a restriction, and TLC evaluates it on every run that
extends `Words`.

## What is only model-checked

Two kinds of result stay with TLC:

- The liveness properties `AperiodicServed` and the fairness part of
  `ServesAsPromised`: TLAPS does not handle the reasoning about `ENABLED`
  and fairness they need.
- All libc results except `MulsiResult`. Their modules use `RECURSIVE`
  operators and `Bitwise`, which tlapm cannot use. A statement about every
  input of a recursive definition needs induction over data, which the
  installed provers cannot instantiate.
- In particular the loop of `__udivmodsi4`. Its invariant needs the fact
  that `bit` is always a power of two, together with facts about `2^i`, and
  the provers do not reason about `^`. It is checked by `UDivModSiCorrect` on
  4-bit words only.

The violation runs (`OneRunning`, `ServerBudget` and the libc findings) are
counterexamples that TLC finds. There is nothing about them to prove.

## Findings

- **main.c:144-146**: the two state writes come before `_di()`. A tick in
  between leaves two tasks RUNNING, against spec section 3.
- **main.c:121**: the fuel is refilled whenever it is empty, not at the
  server's release, so the server can exceed its capacity per period.
- **libc.c:862**: `__moddi3` flips the sign for a negative divisor, so
  `7 % -2` on `int64_t` gives -1.
- **libc.c:780**: `__ashrdi3` by 32 shifts the low word where it should
  shift the high word.
- **libc.c:752**: `bm` is unsigned, so shifts by 33..63 take the
  short-shift branch and make undefined word shifts.
- **libc.c:232**: `strtol` takes any letter as a digit, whatever the base.
- **libc.c:228**: `strtol` reads at most nine characters.
- **libc.c:61** (and 69): `strcmp` and `strncmp` subtract the differing
  characters as `int8_t`. A byte of 128 or more therefore sorts below every
  7-bit byte: `strcmp("a", "\xc8") > 0`. The C standard orders strings by
  `unsigned char`, as this file's own `memcmp` does.

## Not modelled

- The NoC messaging layer that `sender`/`receiver` use is not in `src/`.
- The kernel's blocking, semaphores, task kill and what happens when a task
  function returns are not modelled. A served `dummy_task` therefore keeps
  its slot, and the generator's spawns fail once the table is full.
- The formatted output routines are I/O, and `random` is a 32-bit LCG beyond
  TLC's integers; the generator's delay is a choice from `DelayTicks`.
- The software floating-point routines are not modelled.
- The `den = 0` path of `__udivmoddi4` (lines 817-818) is not modelled, and
  the checks use non-zero divisors only. The code divides by zero on purpose
  to trap. On a target without a hardware divider, `1 / den` is a call to
  `__udivsi3`, which returns 0 without trapping and leaves the remainder
  unset; what the build does there is not checked.
- `strtol` of this file skips no leading whitespace and takes no `'+'`,
  unlike C's. `StrtolDecimalCorrect` and `StrtolCorrect` leave buffers that
  begin with a blank or a `'+'` out of their precondition; for them the code
  returns 0 with the end pointer at the start of the buffer.

## Plan for the next sittings

1. State the server's budget per period in `ApServer` and show, by a
   violation run, that `Node` does not refine it (the refill finding).
2. Model the NoC send/receive protocol of `noc_test` from the spec.
3. Write the loop of `__udivmodsi4` as a state machine like `Mulsi3Loop`,
   with `bit` kept as an exponent so that its invariant is within the
   provers' reach.
