------------------------------ MODULE ApServer ------------------------------
(***************************************************************************)
(* What the polling server of main.c promises the aperiodic tasks (spec   *)
(* 4.5): a FIFO of pending tasks, each with the work it still needs.  A   *)
(* task arrives once, at the tail, with its full work.  The head either   *)
(* finishes, when what it needs fits in one grant of at most Budget, or   *)
(* receives a grant of k in 1..Budget short of what it needs and moves to *)
(* the tail with the rest.  Every pending task is eventually done.        *)
(***************************************************************************)
EXTENDS Naturals, Sequences

CONSTANTS
    Slots,     \* the ids an aperiodic task may have
    Budget,    \* the most work one grant may give
    Work       \* the work a task arrives with

VARIABLES
    queue,     \* pending tasks, in the order they will be granted
    work,      \* work still needed by each pending task
    done       \* tasks that got all their work

avars == <<queue, work, done>>

Pending == {queue[i] : i \in 1 .. Len(queue)}

Init ==
    /\ queue = << >>
    /\ work = [t \in Slots |-> 0]
    /\ done = {}

Arrive(t) ==
    /\ t \notin Pending \cup done
    /\ queue' = Append(queue, t)
    /\ work' = [work EXCEPT ![t] = Work]
    /\ UNCHANGED done

Finish ==
    /\ queue # << >>
    /\ work[Head(queue)] <= Budget
    /\ queue' = Tail(queue)
    /\ work' = [work EXCEPT ![Head(queue)] = 0]
    /\ done' = done \cup {Head(queue)}

Grant(k) ==
    /\ queue # << >>
    /\ k < work[Head(queue)]
    /\ queue' = Append(Tail(queue), Head(queue))
    /\ work' = [work EXCEPT ![Head(queue)] = @ - k]
    /\ UNCHANGED done

Serve == Finish \/ \E k \in 1 .. Budget : Grant(k)

Next == (\E t \in Slots : Arrive(t)) \/ Serve

(* What the FIFO promises at every moment: each pending task is queued    *)
(* once, is not done and still needs work, at most what it arrived with;  *)
(* a done task needs nothing more.                                         *)
ServerInv ==
    /\ queue \in Seq(Slots) /\ work \in [Slots -> Nat] /\ done \subseteq Slots
    /\ \A i, j \in 1 .. Len(queue) : i # j => queue[i] # queue[j]
    /\ \A i \in 1 .. Len(queue) : queue[i] \notin done /\ work[queue[i]] \in 1 .. Work
    /\ \A t \in done : work[t] = 0

(* Safety part alone, and with the promise that the head is served.       *)
SafeSpec == Init /\ [][Next]_avars

Spec == SafeSpec /\ WF_avars(Serve)

====
