--------------------------- MODULE ApServerProofs ---------------------------
(***************************************************************************)
(* The invariant of the abstract polling server: ServerInv holds in every *)
(* state of ApServer's safety specification, for every set of slots,      *)
(* budget and arrival work.  Node uses it, through the refinement, for    *)
(* the polling server of main.c.                                           *)
(***************************************************************************)
EXTENDS ApServer, SequenceTheorems, TLAPS

(* The constants as the node instantiates them: a positive arrival work.  *)
WorkAssumption == Work \in Nat \ {0} /\ Budget \in Nat

LEMMA InvInit == Init => ServerInv
BY DEF Init, ServerInv

(* An arrival appends a task that is neither pending nor done, with its   *)
(* full work.                                                              *)
LEMMA InvArrive ==
    ASSUME WorkAssumption, ServerInv, NEW t \in Slots, Arrive(t)
    PROVE  ServerInv'
<1>1. /\ queue' = Append(queue, t) /\ work' = [work EXCEPT ![t] = Work]
      /\ done' = done /\ t \notin done /\ \A i \in 1 .. Len(queue) : queue[i] # t
  BY DEF Arrive, Pending
<1>2. /\ Len(queue) \in Nat /\ Len(queue') = Len(queue) + 1
      /\ \A i \in 1 .. Len(queue) : queue'[i] = queue[i]
      /\ queue'[Len(queue) + 1] = t
      /\ queue' \in Seq(Slots)
  BY <1>1, AppendProperties DEF ServerInv
<1>3. work' \in [Slots -> Nat] /\ work'[t] = Work
      /\ \A u \in Slots \ {t} : work'[u] = work[u]
  BY <1>1 DEF ServerInv, WorkAssumption
<1>4. (\A i, j \in 1 .. Len(queue) : i # j => queue[i] # queue[j])'
  BY <1>1, <1>2 DEF ServerInv
<1>5. (\A i \in 1 .. Len(queue) : queue[i] \notin done /\ work[queue[i]] \in 1 .. Work)'
  <2> SUFFICES ASSUME NEW i \in 1 .. Len(queue) + 1
               PROVE  queue'[i] \notin done' /\ work'[queue'[i]] \in 1 .. Work
    BY <1>2
  <2>1. CASE i = Len(queue) + 1
    BY <2>1, <1>1, <1>2, <1>3 DEF WorkAssumption
  <2>2. CASE i # Len(queue) + 1
    <3>1. i \in 1 .. Len(queue) /\ queue[i] \in Slots /\ queue[i] # t
      BY <2>2, <1>1, <1>2 DEF ServerInv
    <3>2. QED
      BY <3>1, <1>1, <1>2, <1>3 DEF ServerInv
  <2>3. QED
    BY <2>1, <2>2
<1>6. (\A u \in done : work[u] = 0)'
  BY <1>1, <1>3 DEF ServerInv
<1>7. QED
  BY <1>1, <1>2, <1>3, <1>4, <1>5, <1>6 DEF ServerInv

(* The head leaves the queue and is done, owing nothing.                   *)
LEMMA InvFinish ==
    ASSUME ServerInv, Finish
    PROVE  ServerInv'
<1>1. /\ queue # << >> /\ queue' = Tail(queue)
      /\ work' = [work EXCEPT ![Head(queue)] = 0]
      /\ done' = done \cup {Head(queue)}
  BY DEF Finish
<1>2. /\ Len(queue) \in Nat /\ Len(queue) > 0
      /\ Head(queue) = queue[1] /\ Head(queue) \in Slots
      /\ queue' \in Seq(Slots) /\ Len(queue') = Len(queue) - 1
      /\ \A i \in 1 .. Len(queue) - 1 : queue'[i] = queue[i + 1]
  <2>1. queue \in Seq(Slots) /\ queue # << >>
    BY <1>1 DEF ServerInv
  <2>2. Len(queue) \in Nat \ {0}
    BY <2>1, EmptySeq
  <2>3. /\ Head(queue) \in Slots /\ Tail(queue) \in Seq(Slots)
        /\ Len(Tail(queue)) = Len(queue) - 1
        /\ \A i \in 1 .. Len(Tail(queue)) : Tail(queue)[i] = queue[i + 1]
    BY <2>1, HeadTailProperties
  <2>4. Head(queue) = queue[1]
    OBVIOUS
  <2>5. QED
    BY <1>1, <2>2, <2>3, <2>4
<1>3. \A i \in 1 .. Len(queue) - 1 : queue'[i] # Head(queue)
  <2> SUFFICES ASSUME NEW i \in 1 .. Len(queue) - 1 PROVE queue'[i] # queue[1]
    BY <1>2
  <2>1. i + 1 \in 1 .. Len(queue) /\ 1 \in 1 .. Len(queue) /\ i + 1 # 1
    BY <1>2
  <2>2. QED
    BY <2>1, <1>2 DEF ServerInv
<1>4. (\A i, j \in 1 .. Len(queue) : i # j => queue[i] # queue[j])'
  <2> SUFFICES ASSUME NEW i \in 1 .. Len(queue) - 1, NEW j \in 1 .. Len(queue) - 1, i # j
               PROVE  queue'[i] # queue'[j]
    BY <1>2
  <2>1. i + 1 \in 1 .. Len(queue) /\ j + 1 \in 1 .. Len(queue) /\ i + 1 # j + 1
    BY <1>2
  <2>2. queue'[i] = queue[i + 1] /\ queue'[j] = queue[j + 1]
    BY <1>2
  <2>3. queue[i + 1] # queue[j + 1]
    BY <2>1 DEF ServerInv
  <2>4. QED
    BY <2>2, <2>3
<1>5. (\A i \in 1 .. Len(queue) : queue[i] \notin done /\ work[queue[i]] \in 1 .. Work)'
  <2> SUFFICES ASSUME NEW i \in 1 .. Len(queue) - 1
               PROVE  queue'[i] \notin done' /\ work'[queue'[i]] \in 1 .. Work
    BY <1>2
  <2>1. i + 1 \in 1 .. Len(queue) /\ queue'[i] = queue[i + 1] /\ queue[i + 1] \in Slots
    BY <1>2 DEF ServerInv
  <2>2. QED
    BY <2>1, <1>1, <1>3 DEF ServerInv
<1>6. QED
  BY <1>1, <1>2, <1>4, <1>5 DEF ServerInv

(* A grant of k short of what the head needs leaves it needing at least 1 *)
(* and moves it to the tail.                                               *)
LEMMA InvGrant ==
    ASSUME WorkAssumption, ServerInv, NEW k \in 1 .. Budget, Grant(k)
    PROVE  ServerInv'
<1>1. /\ queue # << >> /\ k < work[Head(queue)]
      /\ queue' = Append(Tail(queue), Head(queue))
      /\ work' = [work EXCEPT ![Head(queue)] = @ - k]
      /\ done' = done
  BY DEF Grant
<1>2. /\ Len(queue) \in Nat /\ Len(queue) > 0
      /\ Head(queue) = queue[1] /\ Head(queue) \in Slots
      /\ Tail(queue) \in Seq(Slots) /\ Len(Tail(queue)) = Len(queue) - 1
      /\ \A i \in 1 .. Len(queue) - 1 : Tail(queue)[i] = queue[i + 1]
  <2>1. queue \in Seq(Slots) /\ queue # << >>
    BY <1>1 DEF ServerInv
  <2>2. Len(queue) \in Nat \ {0}
    BY <2>1, EmptySeq
  <2>3. /\ Head(queue) \in Slots /\ Tail(queue) \in Seq(Slots)
        /\ Len(Tail(queue)) = Len(queue) - 1
        /\ \A i \in 1 .. Len(Tail(queue)) : Tail(queue)[i] = queue[i + 1]
    BY <2>1, HeadTailProperties
  <2>4. Head(queue) = queue[1]
    OBVIOUS
  <2>5. QED
    BY <2>2, <2>3, <2>4
<1>3. /\ queue' \in Seq(Slots) /\ Len(queue') = Len(queue)
      /\ \A i \in 1 .. Len(queue) - 1 : queue'[i] = queue[i + 1]
      /\ queue'[Len(queue)] = queue[1]
  <2>1. /\ Append(Tail(queue), Head(queue)) \in Seq(Slots)
        /\ Len(Append(Tail(queue), Head(queue))) = Len(Tail(queue)) + 1
        /\ \A i \in 1 .. Len(Tail(queue)) :
              Append(Tail(queue), Head(queue))[i] = Tail(queue)[i]
        /\ Append(Tail(queue), Head(queue))[Len(Tail(queue)) + 1] = Head(queue)
    BY <1>2, AppendProperties
  <2>2. QED
    BY <2>1, <1>1, <1>2
<1>4. /\ work[Head(queue)] \in 1 .. Work /\ Head(queue) \notin done
      /\ work' \in [Slots -> Nat] /\ work'[Head(queue)] \in 1 .. Work
      /\ \A u \in Slots \ {Head(queue)} : work'[u] = work[u]
  <2>1. 1 \in 1 .. Len(queue)
    BY <1>2
  <2>2. work[queue[1]] \in 1 .. Work /\ queue[1] \notin done
    BY <2>1 DEF ServerInv
  <2>3. work[Head(queue)] \in 1 .. Work /\ Head(queue) \notin done
    BY <2>2, <1>2
  <2>4. work'[Head(queue)] = work[Head(queue)] - k /\ k \in Nat /\ k < work[Head(queue)]
    BY <1>1, <1>2 DEF ServerInv
  <2>5. work' \in [Slots -> Nat]
    <3>1. work[Head(queue)] - k \in Nat
      BY <2>3, <2>4
    <3>2. QED
      BY <3>1, <1>1, <1>2 DEF ServerInv
  <2>6. work'[Head(queue)] \in 1 .. Work
    <3>1. k \in Int /\ 1 <= k
      OBVIOUS
    <3>2. work[Head(queue)] \in Int /\ 1 <= work[Head(queue)] /\ work[Head(queue)] <= Work
      BY <2>3
    <3>3. QED
      BY <3>1, <3>2, <2>4 DEF WorkAssumption
  <2>7. \A u \in Slots \ {Head(queue)} : work'[u] = work[u]
    BY <1>1, <1>2 DEF ServerInv
  <2>8. QED
    BY <2>3, <2>5, <2>6, <2>7
<1>5. \A i \in 1 .. Len(queue) : \E m \in 1 .. Len(queue) : queue'[i] = queue[m]
                                   /\ (i < Len(queue) => m = i + 1)
                                   /\ (i = Len(queue) => m = 1)
  <2> SUFFICES ASSUME NEW i \in 1 .. Len(queue)
               PROVE  \E m \in 1 .. Len(queue) : queue'[i] = queue[m]
                                   /\ (i < Len(queue) => m = i + 1)
                                   /\ (i = Len(queue) => m = 1)
    OBVIOUS
  <2>1. CASE i < Len(queue)
    <3>1. i + 1 \in 1 .. Len(queue) /\ i \in 1 .. Len(queue) - 1
      BY <2>1, <1>2
    <3>2. queue'[i] = queue[i + 1]
      BY <3>1, <1>3
    <3>3. QED
      BY <2>1, <3>1, <3>2
  <2>2. CASE i = Len(queue)
    <3>1. 1 \in 1 .. Len(queue) /\ queue'[i] = queue[1]
      BY <2>2, <1>2, <1>3
    <3>2. ~(i < Len(queue)) /\ (i = Len(queue) => 1 = 1)
      BY <2>2, <1>2
    <3>3. WITNESS 1 \in 1 .. Len(queue)
    <3>4. QED
      BY <3>1, <3>2
  <2>3. i < Len(queue) \/ i = Len(queue)
    <3>1. Len(queue) \in Nat
      BY <1>2
    <3>2. QED
      BY <3>1
  <2>4. QED
    BY <2>1, <2>2, <2>3
<1>6. (\A i, j \in 1 .. Len(queue) : i # j => queue[i] # queue[j])'
  <2> SUFFICES ASSUME NEW i \in 1 .. Len(queue), NEW j \in 1 .. Len(queue), i # j
               PROVE  queue'[i] # queue'[j]
    BY <1>3
  <2>1. PICK m \in 1 .. Len(queue) : queue'[i] = queue[m] /\ (i < Len(queue) => m = i + 1)
                                      /\ (i = Len(queue) => m = 1)
    BY <1>5
  <2>2. PICK n \in 1 .. Len(queue) : queue'[j] = queue[n] /\ (j < Len(queue) => n = j + 1)
                                      /\ (j = Len(queue) => n = 1)
    BY <1>5
  <2>3. m # n
    <3>1. Len(queue) \in Nat
      BY <1>2
    <3>2. (i < Len(queue) => m = i + 1) /\ (i = Len(queue) => m = 1)
          /\ (j < Len(queue) => n = j + 1) /\ (j = Len(queue) => n = 1)
      BY <2>1, <2>2
    <3>3. QED
      BY <3>1, <3>2
  <2>4. QED
    BY <2>1, <2>2, <2>3 DEF ServerInv
<1>7. (\A i \in 1 .. Len(queue) : queue[i] \notin done /\ work[queue[i]] \in 1 .. Work)'
  <2> SUFFICES ASSUME NEW i \in 1 .. Len(queue)
               PROVE  queue'[i] \notin done' /\ work'[queue'[i]] \in 1 .. Work
    BY <1>3
  <2>1. PICK m \in 1 .. Len(queue) : queue'[i] = queue[m]
    BY <1>5
  <2>2. queue[m] \in Slots /\ queue[m] \notin done /\ work[queue[m]] \in 1 .. Work
    BY DEF ServerInv
  <2>3. QED
    BY <2>1, <2>2, <1>1, <1>4
<1>8. (\A u \in done : work[u] = 0)'
  BY <1>1, <1>4 DEF ServerInv
<1>9. QED
  BY <1>1, <1>3, <1>4, <1>6, <1>7, <1>8 DEF ServerInv

LEMMA InvNext ==
    ASSUME WorkAssumption
    PROVE  ServerInv /\ [Next]_avars => ServerInv'
<1> SUFFICES ASSUME ServerInv, [Next]_avars PROVE ServerInv'
  OBVIOUS
<1>1. CASE \E t \in Slots : Arrive(t)
  BY <1>1, InvArrive
<1>2. CASE Finish
  BY <1>2, InvFinish
<1>3. CASE \E k \in 1 .. Budget : Grant(k)
  BY <1>3, InvGrant
<1>4. CASE UNCHANGED avars
  BY <1>4 DEF ServerInv, avars
<1>5. QED
  BY <1>1, <1>2, <1>3, <1>4 DEF Next, Serve

(* In every behaviour of the abstract server each pending task is queued  *)
(* once, is not done, and needs between 1 and Work; done tasks need 0.    *)
THEOREM ServerSafe ==
    ASSUME WorkAssumption
    PROVE  SafeSpec => []ServerInv
<1>1. Init => ServerInv
  BY InvInit
<1>2. ServerInv /\ [Next]_avars => ServerInv'
  BY InvNext
<1>3. QED
  BY <1>1, <1>2, PTL DEF SafeSpec

=============================================================================
