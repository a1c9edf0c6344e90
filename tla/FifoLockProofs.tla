---------------------------- MODULE FifoLockProofs ----------------------------
(***************************************************************************)
(* Theorems about FifoLock, for any number of calls, any of which may be   *)
(* cancelled.                                                              *)
(***************************************************************************)
EXTENDS FifoLock, SequenceTheorems, TLAPS

(* Only the head of the queue is inside or on its way in. *)
BehindInv ==
    \A i \in 2 .. Len(queue) :
        /\ pc[queue[i]] \in {"waiting", "cancelled"}
        /\ queue[i] \in locked

IInv == TypeOK /\ BehindInv /\ HeadIsServed

-----------------------------------------------------------------------------
(* IInv holds initially. *)
LEMMA InitLemma == Init => IInv
<1> SUFFICES ASSUME Init PROVE IInv
  OBVIOUS
<1>1. queue = <<>> /\ Len(queue) = 0 /\ queue \in Seq(Calls)
  BY DEF Init
<1> QED BY <1>1 DEF Init, IInv, TypeOK, BehindInv, HeadIsServed, CallState

(* acquire() adds one ticket at the end and disturbs no other. *)
LEMMA AcquireLemma ==
    ASSUME IInv, NEW c \in Calls, Acquire(c)
    PROVE  IInv'
<1> DEFINE n == Len(queue)
<1>1. /\ queue \in Seq(Calls) /\ n \in Nat
      /\ pc \in [Calls -> CallState] /\ pc[c] = "idle" /\ locked \subseteq Calls
      /\ \A i \in 1 .. n : queue[i] # c /\ queue[i] \in Calls
  BY DEF IInv, TypeOK, Acquire
<1>2. /\ queue' \in Seq(Calls) /\ Len(queue') = n + 1
      /\ queue'[n + 1] = c
      /\ \A i \in 1 .. n : queue'[i] = queue[i]
  BY <1>1, AppendProperties DEF Acquire
<1>3. /\ locked' = locked \cup {c}
      /\ pc' = [pc EXCEPT ![c] = IF queue = <<>> THEN "inside" ELSE "waiting"]
      /\ pc'[c] = IF queue = <<>> THEN "inside" ELSE "waiting"
      /\ \A d \in Calls \ {c} : pc'[d] = pc[d]
  BY <1>1 DEF Acquire
<1>4. n = 0 <=> queue = <<>>
  BY <1>1, EmptySeq
<1>5. TypeOK'
  <2>1. pc' \in [Calls -> CallState] /\ locked' \subseteq Calls
    BY <1>1, <1>3 DEF CallState
  <2>2. \A i, j \in 1 .. Len(queue') : queue'[i] = queue'[j] => i = j
    BY <1>1, <1>2 DEF IInv, TypeOK
  <2>3. ASSUME NEW d \in Calls
        PROVE  pc'[d] # "idle" <=> \E i \in 1 .. Len(queue') : queue'[i] = d
    <3>1. CASE d = c
      BY <1>1, <1>2, <1>3, <3>1
    <3>2. CASE d # c
      <4>1. pc[d] # "idle" <=> \E i \in 1 .. n : queue[i] = d
        BY DEF IInv, TypeOK
      <4> QED BY <1>1, <1>2, <1>3, <3>2, <4>1
    <3> QED BY <3>1, <3>2
  <2> QED BY <1>2, <2>1, <2>2, <2>3 DEF TypeOK
<1>6. BehindInv'
  <2> SUFFICES ASSUME NEW i \in 2 .. Len(queue')
               PROVE  pc'[queue'[i]] \in {"waiting", "cancelled"} /\ queue'[i] \in locked'
    BY DEF BehindInv
  <2>1. CASE i = n + 1
    BY <1>1, <1>2, <1>3, <1>4, <2>1
  <2>2. CASE i \in 2 .. n
    BY <1>1, <1>2, <1>3, <2>2 DEF IInv, BehindInv
  <2> QED BY <1>1, <1>2, <2>1, <2>2
<1>7. HeadIsServed'
  <2>1. Head(queue') = queue'[1]
    BY <1>2
  <2>2. CASE queue = <<>>
    BY <1>2, <1>3, <1>4, <2>1, <2>2 DEF HeadIsServed
  <2>3. CASE queue # <<>>
    <3>1. 1 \in 1 .. n /\ Head(queue) = queue[1]
      BY <1>1, <1>4, <2>3
    <3> QED BY <1>1, <1>2, <1>3, <2>1, <2>3, <3>1 DEF IInv, HeadIsServed
  <2> QED BY <2>2, <2>3
<1> QED BY <1>5, <1>6, <1>7 DEF IInv

(* Whoever is inside is the head of the queue. *)
LEMMA InsideIsHead ==
    ASSUME IInv, NEW c \in Calls, pc[c] \in {"inside", "woken"}
    PROVE  Len(queue) >= 1 /\ queue # <<>> /\ queue[1] = c /\ Head(queue) = c
<1>1. PICK i \in 1 .. Len(queue) : queue[i] = c
  BY DEF IInv, TypeOK
<1>2. Len(queue) \in Nat /\ queue \in Seq(Calls)
  BY DEF IInv, TypeOK
<1>3. i \notin 2 .. Len(queue)
  BY <1>1 DEF IInv, BehindInv
<1> QED BY <1>1, <1>2, <1>3

(* release() takes the ticket of the caller out and passes the lock on to  *)
(* the call that came next, unless that one was cancelled.                 *)
LEMMA ReleaseLemma ==
    ASSUME IInv, NEW c \in Calls, Release(c)
    PROVE  IInv'
<1> DEFINE n == Len(queue)
           q == Tail(queue)
<1>1. /\ queue \in Seq(Calls) /\ n \in Nat /\ n >= 1 /\ queue[1] = c
      /\ pc \in [Calls -> CallState] /\ pc[c] = "inside" /\ locked \subseteq Calls
      /\ \A i \in 1 .. n : queue[i] \in Calls
      /\ \A i \in 2 .. n : queue[i] # c
  BY InsideIsHead DEF IInv, TypeOK, Release
<1>2. /\ q \in Seq(Calls) /\ Len(q) = n - 1 /\ queue' = q
      /\ \A i \in 1 .. n - 1 : q[i] = queue[i + 1]
  BY <1>1 DEF Release
<1> HIDE DEF q
<1>3. q = <<>> <=> n = 1
  <2>1. q = <<>> <=> Len(q) = 0
    BY <1>2, EmptySeq
  <2> QED BY <1>1, <1>2, <2>1
<1>4. /\ pc' \in [Calls -> CallState] /\ locked' \subseteq Calls
      /\ pc'[c] = "idle"
      /\ \A i \in 2 .. n : pc'[queue[i]] # "idle"
      /\ \A i \in 3 .. n : pc'[queue[i]] = pc[queue[i]] /\ (queue[i] \in locked => queue[i] \in locked')
      /\ n >= 2 => pc'[queue[2]] \in {"woken", "cancelled"}
      /\ \A d \in Calls \ {c} : pc'[d] = "idle" <=> pc[d] = "idle"
  <2>1. CASE n = 1
    BY <1>1, <1>2, <1>3, <2>1 DEF Release, CallState, q
  <2>2. CASE n >= 2
    <3> DEFINE h == queue[2]
    <3>1. q # <<>> /\ Head(q) = h /\ h \in Calls /\ h # c
      BY <1>1, <1>2, <1>3, <2>2
    <3>2. h \in locked /\ pc[h] \in {"waiting", "cancelled"}
      BY <1>1, <2>2 DEF IInv, BehindInv
    <3>3. /\ locked' = locked \ {c, h}
          /\ pc' = [pc EXCEPT ![c] = "idle", ![h] = IF @ = "waiting" THEN "woken" ELSE @]
      BY <3>1, <3>2 DEF Release, Unlock, q
    <3>4. /\ pc'[c] = "idle"
          /\ pc'[h] = IF pc[h] = "waiting" THEN "woken" ELSE pc[h]
          /\ \A d \in Calls \ {c, h} : pc'[d] = pc[d]
          /\ pc' \in [Calls -> CallState]
      BY <1>1, <3>1, <3>3 DEF CallState
    <3>5. \A i \in 3 .. n : queue[i] # h
      BY <1>1, <2>2 DEF IInv, TypeOK
    <3>6. \A i \in 2 .. n : pc[queue[i]] \in {"waiting", "cancelled"}
      BY DEF IInv, BehindInv
    <3>7. \A i \in 3 .. n : i \in 2 .. n
      BY <1>1
    <3>8. \A i \in 3 .. n : queue[i] \in Calls \ {c, h}
      BY <1>1, <3>5, <3>7
    <3>9. \A i \in 2 .. n : pc'[queue[i]] # "idle"
      BY <1>1, <3>2, <3>4, <3>6
    <3>10. \A i \in 3 .. n : pc'[queue[i]] = pc[queue[i]] /\ (queue[i] \in locked => queue[i] \in locked')
      BY <3>3, <3>4, <3>8
    <3>11. pc'[h] \in {"woken", "cancelled"}
      BY <3>2, <3>4
    <3>12. locked' \subseteq Calls /\ \A d \in Calls \ {c} : pc'[d] = "idle" <=> pc[d] = "idle"
      BY <1>1, <3>2, <3>3, <3>4
    <3> QED BY <3>4, <3>9, <3>10, <3>11, <3>12
  <2>3. n = 1 \/ n >= 2
    <3>1. n \in Nat /\ n >= 1
      BY <1>1
    <3> HIDE DEF n
    <3> QED BY <3>1
  <2> QED BY <2>1, <2>2, <2>3
<1>5. TypeOK'
  <2>1. \A i, j \in 1 .. Len(q) : q[i] = q[j] => i = j
    <3> SUFFICES ASSUME NEW i \in 1 .. n - 1, NEW j \in 1 .. n - 1, q[i] = q[j]
                 PROVE  i = j
      BY <1>2
    <3>1. /\ i + 1 \in 1 .. n /\ j + 1 \in 1 .. n
          /\ queue[i + 1] = queue[j + 1]
      BY <1>1, <1>2
    <3>2. i + 1 = j + 1
      BY <3>1 DEF IInv, TypeOK
    <3> QED BY <3>2, <1>1
  <2>2. ASSUME NEW d \in Calls
        PROVE  pc'[d] # "idle" <=> \E i \in 1 .. Len(q) : q[i] = d
    <3>0. pc[d] # "idle" <=> \E i \in 1 .. n : queue[i] = d
      BY DEF IInv, TypeOK
    <3>1. (\E i \in 1 .. Len(q) : q[i] = d) <=> \E i \in 2 .. n : queue[i] = d
      <4>1. ASSUME NEW i \in 2 .. n, queue[i] = d
            PROVE  \E j \in 1 .. Len(q) : q[j] = d
        <5>1. i - 1 \in 1 .. n - 1 /\ q[i - 1] = queue[(i - 1) + 1] /\ (i - 1) + 1 = i
          BY <1>1, <1>2
        <5> QED BY <4>1, <5>1, <1>2
      <4>2. ASSUME NEW j \in 1 .. Len(q), q[j] = d
            PROVE  \E i \in 2 .. n : queue[i] = d
        BY <4>2, <1>1, <1>2
      <4> QED BY <4>1, <4>2
    <3>2. CASE d = c
      BY <1>1, <1>4, <3>1, <3>2
    <3>3. CASE d # c
      BY <1>1, <1>4, <3>0, <3>1, <3>3
    <3> QED BY <3>2, <3>3
  <2> QED BY <1>2, <1>4, <2>1, <2>2 DEF TypeOK
<1>6. BehindInv'
  <2> SUFFICES ASSUME NEW i \in 2 .. Len(q)
               PROVE  pc'[q[i]] \in {"waiting", "cancelled"} /\ q[i] \in locked'
    BY <1>2 DEF BehindInv
  <2>1. i + 1 \in 3 .. n /\ i + 1 \in 2 .. n /\ q[i] = queue[i + 1]
    BY <1>1, <1>2
  <2> QED BY <1>4, <2>1 DEF IInv, BehindInv
<1>7. HeadIsServed'
  <2> SUFFICES ASSUME q # <<>> PROVE pc'[Head(q)] \in {"woken", "inside", "cancelled"}
    BY <1>2 DEF HeadIsServed
  <2>1. n >= 2 /\ Head(q) = queue[2]
    BY <1>1, <1>2, <1>3
  <2> QED BY <1>4, <2>1
<1> QED BY <1>5, <1>6, <1>7 DEF IInv

(* A woken call enters, or is cancelled: it is at the head either way. *)
LEMMA OtherLemma ==
    ASSUME IInv, NEW c \in Calls, Resume(c) \/ Cancel(c)
    PROVE  IInv'
<1>1. /\ queue' = queue /\ queue \in Seq(Calls) /\ Len(queue) \in Nat
      /\ pc \in [Calls -> CallState] /\ pc[c] # "idle"
      /\ locked' \in {locked, locked \cup {c}}
      /\ \A i \in 1 .. Len(queue) : queue[i] \in Calls
  BY DEF IInv, TypeOK, Resume, Cancel
<1>2. \E st \in {"inside", "cancelled"} :
        pc' = [pc EXCEPT ![c] = st] /\ (pc[c] = "woken" \/ st = "cancelled")
  BY DEF Resume, Cancel
<1>3. /\ pc' \in [Calls -> CallState]
      /\ pc'[c] \in {"inside", "cancelled"}
      /\ pc[c] # "woken" => pc'[c] = "cancelled"
      /\ \A d \in Calls \ {c} : pc'[d] = pc[d]
  BY <1>1, <1>2 DEF CallState
<1>4. TypeOK'
  BY <1>1, <1>3 DEF IInv, TypeOK
<1>5. BehindInv'
  <2> SUFFICES ASSUME NEW i \in 2 .. Len(queue)
               PROVE  pc'[queue[i]] \in {"waiting", "cancelled"} /\ queue[i] \in locked'
    BY <1>1 DEF BehindInv
  <2>1. queue[i] \in Calls /\ pc[queue[i]] \in {"waiting", "cancelled"} /\ queue[i] \in locked
    BY <1>1 DEF IInv, BehindInv
  <2> QED BY <1>1, <1>3, <2>1
<1>6. HeadIsServed'
  <2> SUFFICES ASSUME queue # <<>> PROVE pc'[Head(queue)] \in {"woken", "inside", "cancelled"}
    BY <1>1 DEF HeadIsServed
  <2>1. Head(queue) \in Calls /\ pc[Head(queue)] \in {"woken", "inside", "cancelled"}
    BY <1>1 DEF IInv, HeadIsServed
  <2> QED BY <1>3, <2>1
<1> QED BY <1>4, <1>5, <1>6 DEF IInv

(* Every step preserves IInv. *)
LEMMA StepLemma == IInv /\ [Next]_vars => IInv'
<1> SUFFICES ASSUME IInv, [Next]_vars PROVE IInv'
  OBVIOUS
<1>1. CASE UNCHANGED vars
  BY <1>1 DEF vars, IInv, TypeOK, BehindInv, HeadIsServed
<1> QED BY <1>1, AcquireLemma, ReleaseLemma, OtherLemma DEF Next

-----------------------------------------------------------------------------
(* IInv is an invariant of FifoLock. *)
THEOREM Invariance == Spec => []IInv
<1> QED BY InitLemma, StepLemma, PTL DEF Spec

(* The variables keep their types, and the queue holds exactly one ticket  *)
(* for each call that has not released yet.                                *)
THEOREM TypeCorrect == Spec => []TypeOK
<1>1. IInv => TypeOK
  BY DEF IInv
<1> QED BY <1>1, Invariance, PTL

(* At most one call is inside the lock, whatever is cancelled. *)
THEOREM Exclusion == Spec => []MutualExclusion
<1>1. IInv => MutualExclusion
  BY InsideIsHead DEF MutualExclusion
<1> QED BY <1>1, Invariance, PTL

(* The head of the queue is never left waiting: no wake-up is lost. *)
THEOREM NoLostWakeUp == Spec => []HeadIsServed
<1>1. IInv => HeadIsServed
  BY DEF IInv
<1> QED BY <1>1, Invariance, PTL

(* Nobody enters before a call that came earlier. *)
THEOREM Fifo == Spec => EntersInOrder
<1>1. IInv /\ IInv' /\ [Next]_vars =>
        [\A c, d \in Calls : Before(c, d) => ~(pc[d] # "inside" /\ pc'[d] = "inside")]_vars
  <2> SUFFICES ASSUME IInv, [Next]_vars, NEW c \in Calls, NEW d \in Calls,
                      Before(c, d), pc[d] # "inside", pc'[d] = "inside"
               PROVE  FALSE
    OBVIOUS
  <2>1. PICK i, j \in 1 .. Len(queue) : i < j /\ queue[i] = c /\ queue[j] = d
    BY DEF Before
  <2>2. Len(queue) \in Nat /\ j \in 2 .. Len(queue) /\ pc \in [Calls -> CallState]
    BY <2>1 DEF IInv, TypeOK
  <2>3. pc[d] \in {"waiting", "cancelled"}
    BY <2>1, <2>2 DEF IInv, BehindInv
  <2>4. ASSUME NEW e \in Calls, Acquire(e) \/ Resume(e) \/ Release(e) \/ Cancel(e)
        PROVE  pc'[d] # "inside"
    BY <2>2, <2>3, <2>4 DEF Acquire, Resume, Release, Unlock, Cancel
  <2> QED BY <2>3, <2>4 DEF Next, vars
<1> QED BY <1>1, Invariance, StepLemma, PTL DEF Spec, EntersInOrder

(* Once the head of the queue was cancelled, nobody ever enters again. *)
THEOREM Wedge == Spec => WedgedForever
<1>1. IInv /\ [Next]_vars =>
        [Wedged => Wedged' /\ \A c \in Calls : pc'[c] # "inside"]_vars
  <2> SUFFICES ASSUME IInv, [Next]_vars, Wedged, vars' # vars
               PROVE  Wedged' /\ \A c \in Calls : pc'[c] # "inside"
    BY DEF vars
  <2>1. /\ queue # <<>> /\ queue \in Seq(Calls) /\ pc \in [Calls -> CallState]
        /\ pc[Head(queue)] = "cancelled" /\ Head(queue) \in Calls
    BY DEF Wedged, IInv, TypeOK
  <2>2. \A c \in Calls : pc[c] \notin {"inside", "woken"}
    BY <2>1, InsideIsHead
  <2>3. PICK c \in Calls : Acquire(c) \/ Cancel(c)
    BY <2>2 DEF Next, Resume, Release
  <2>4. queue' # <<>> /\ Head(queue') = Head(queue)
    <3>1. CASE Acquire(c)
      <4>1. queue' = Append(queue, c) /\ Len(queue) \in Nat /\ Len(queue) # 0
        BY <2>1, <3>1, EmptySeq DEF Acquire
      <4>2. Len(queue') = Len(queue) + 1 /\ queue'[1] = queue[1] /\ queue' \in Seq(Calls)
        BY <2>1, <4>1, AppendProperties
      <4> QED BY <2>1, <4>1, <4>2
    <3>2. CASE Cancel(c)
      BY <2>1, <3>2 DEF Cancel
    <3> QED BY <2>3, <3>1, <3>2
  <2>5. pc'[Head(queue)] = "cancelled" /\ \A d \in Calls : pc'[d] # "inside"
    BY <2>1, <2>2, <2>3 DEF Acquire, Cancel
  <2> QED BY <2>4, <2>5 DEF Wedged
<1> QED BY <1>1, Invariance, PTL DEF Spec, WedgedForever

=============================================================================
