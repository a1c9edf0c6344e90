------------------------------ MODULE GateProofs ------------------------------
(***************************************************************************)
(* Theorems about Gate, for any finite number of visitors, of permits and  *)
(* of controllers, whatever is cancelled how often.                        *)
(***************************************************************************)
EXTENDS Gate, FiniteSetTheorems, SequenceTheorems, TLAPS

(* The visitors that wait for a permit wait once, and are in that state. *)
QueueInv ==
    /\ semQueue \in Seq(Visitors)
    /\ \A i \in 1 .. Len(semQueue) : pc[semQueue[i]] = "queued"
    /\ \A i, j \in 1 .. Len(semQueue) : semQueue[i] = semQueue[j] => i = j

IInv ==
    /\ TypeOK
    /\ QueueInv
    /\ PermitsExact
    /\ NoLostPermit
    /\ CounterExact
    /\ DrainHasCause

Count(f, states) == Cardinality({v \in Visitors : f[v] \in states})
Counted == {"queued", "granted", "inside"}
Bit(x, states) == IF x \in states THEN 1 ELSE 0

-----------------------------------------------------------------------------
(* Counting is natural, and counts nobody only if there is nobody. *)
LEMMA CountType ==
    ASSUME NEW f, NEW states
    PROVE  /\ IsFiniteSet({v \in Visitors : f[v] \in states})
           /\ Count(f, states) \in Nat
           /\ Count(f, states) = 0 => \A v \in Visitors : f[v] \notin states
<1> DEFINE S == {v \in Visitors : f[v] \in states}
<1>1. IsFiniteSet(S)
  BY GateAssumption, FS_Subset
<1>2. Cardinality(S) \in Nat /\ (Cardinality(S) = 0 => S = {})
  BY <1>1, FS_CardinalityType, FS_EmptySet
<1> QED BY <1>1, <1>2 DEF Count

(* One visitor that changes its state changes a count by one at most. *)
LEMMA MoveLemma ==
    ASSUME NEW f \in [Visitors -> VisitorState], NEW v \in Visitors, NEW x \in VisitorState,
           NEW states
    PROVE  Count([f EXCEPT ![v] = x], states) = Count(f, states) + Bit(x, states) - Bit(f[v], states)
<1> DEFINE S == {w \in Visitors : f[w] \in states}
           T == {w \in Visitors : [f EXCEPT ![v] = x][w] \in states}
<1>1. IsFiniteSet(S) /\ Cardinality(S) \in Nat
  BY CountType DEF Count
<1>2. T = IF x \in states THEN S \cup {v} ELSE S \ {v}
  OBVIOUS
<1>3. v \in S <=> f[v] \in states
  OBVIOUS
<1>4. Cardinality(S \cup {v}) = IF v \in S THEN Cardinality(S) ELSE Cardinality(S) + 1
  BY <1>1, FS_AddElement
<1>5. Cardinality(S \ {v}) = IF v \in S THEN Cardinality(S) - 1 ELSE Cardinality(S)
  BY <1>1, FS_RemoveElement
<1>6. Cardinality(T) = Cardinality(S) + Bit(x, states) - Bit(f[v], states)
  <2> HIDE DEF S, T
  <2> QED BY <1>1, <1>2, <1>3, <1>4, <1>5 DEF Bit
<1> QED BY <1>6 DEF Count

(* What acquire() of the semaphore does to the queue and the counts. *)
LEMMA AcquireLemma ==
    ASSUME TypeOK, QueueInv, PermitsExact, NoLostPermit,
           NEW v \in Visitors, pc[v] \notin {"queued", "inside"}, SemAcquire(v)
    PROVE  /\ pc' \in [Visitors -> VisitorState] /\ permits' \in 0 .. N
           /\ QueueInv' /\ PermitsExact' /\ NoLostPermit'
           /\ Count(pc', Counted)
                = Count(pc, Counted) + 1
                    - Bit(pc[v], Counted)
<1> DEFINE x == IF permits > 0 THEN "inside" ELSE "queued"
<1>0. pc \in [Visitors -> VisitorState]
  BY DEF TypeOK
<1>1. pc' = [pc EXCEPT ![v] = x] /\ x \in VisitorState
  BY DEF SemAcquire, VisitorState
<1>2. pc' \in [Visitors -> VisitorState]
  BY <1>0, <1>1
<1>3. /\ Count(pc', Counted) = Count(pc, Counted) + Bit(x, Counted) - Bit(pc[v], Counted)
      /\ Count(pc', {"granted"}) = Count(pc, {"granted"}) + Bit(x, {"granted"}) - Bit(pc[v], {"granted"})
      /\ Count(pc', {"inside"}) = Count(pc, {"inside"}) + Bit(x, {"inside"}) - Bit(pc[v], {"inside"})
      /\ Count(pc', {"granted"}) \in Nat
  <2> HIDE DEF x
  <2>1. Count(pc', Counted) = Count(pc, Counted) + Bit(x, Counted) - Bit(pc[v], Counted)
    BY <1>0, <1>1, MoveLemma
  <2>2. Count(pc', {"granted"}) = Count(pc, {"granted"}) + Bit(x, {"granted"}) - Bit(pc[v], {"granted"})
    BY <1>0, <1>1, MoveLemma
  <2>3. Count(pc', {"inside"}) = Count(pc, {"inside"}) + Bit(x, {"inside"}) - Bit(pc[v], {"inside"})
    BY <1>0, <1>1, MoveLemma
  <2>4. Count(pc', {"granted"}) \in Nat
    BY CountType
  <2> QED BY <2>1, <2>2, <2>3, <2>4
<1>4. Count(pc, Counted) \in Nat /\ Count(pc, {"granted"}) \in Nat /\ Count(pc, {"inside"}) \in Nat
  BY CountType
<1>5. permits \in 0 .. N /\ N \in Nat
  BY GateAssumption DEF TypeOK
<1>6. permits' = IF permits > 0 THEN permits - 1 ELSE permits
  BY DEF SemAcquire
<1>7. QueueInv'
  <2>1. CASE permits > 0
    BY <1>0, <1>1, <2>1 DEF SemAcquire, QueueInv
  <2>2. CASE ~(permits > 0)
    <3>1. /\ semQueue' \in Seq(Visitors)
          /\ Len(semQueue') = Len(semQueue) + 1
          /\ \A i \in 1 .. Len(semQueue) : semQueue'[i] = semQueue[i]
          /\ semQueue'[Len(semQueue) + 1] = v
      BY <2>2, AppendProperties DEF SemAcquire, QueueInv
    <3>2. Len(semQueue) \in Nat /\ \A i \in 1 .. Len(semQueue) : semQueue[i] \in Visitors \ {v}
      BY DEF QueueInv
    <3>3. pc'[v] = "queued" /\ \A w \in Visitors \ {v} : pc'[w] = pc[w]
      BY <1>0, <1>1, <2>2
    <3> QED BY <3>1, <3>2, <3>3 DEF QueueInv
  <2> QED BY <2>1, <2>2
<1>8. PermitsExact'
  BY <1>3, <1>4, <1>5, <1>6 DEF PermitsExact, At, Count, Bit
<1>9. NoLostPermit'
  <2>1. CASE permits > 0
    <3>1. semQueue' = semQueue
      BY <2>1 DEF SemAcquire
    <3>2. Count(pc', {"granted"}) >= Count(pc, {"granted"}) - 1
      BY <1>3, <1>4, <2>1 DEF Bit, Counted
    <3> QED BY <1>4, <1>5, <1>6, <2>1, <3>1, <3>2, <1>3 DEF NoLostPermit, At, Count, Bit
  <2>2. CASE ~(permits > 0)
    <3>1. permits' = 0 /\ Count(pc', {"granted"}) \in Nat
      BY <1>3, <1>5, <1>6, <2>2
    <3> QED BY <3>1 DEF NoLostPermit, At, Count
  <2> QED BY <2>1, <2>2
<1>10. permits' \in 0 .. N
  BY <1>5, <1>6
<1> QED BY <1>2, <1>3, <1>4, <1>7, <1>8, <1>9, <1>10 DEF Bit, Counted

(* What the departure of v and the waking of the first waiter do to them. *)
LEMMA WakeLemma ==
    ASSUME TypeOK, QueueInv, NEW v \in Visitors, pc[v] \in {"granted", "inside"}, WakeNext(v)
    PROVE  /\ pc' \in [Visitors -> VisitorState]
           /\ QueueInv'
           /\ Count(pc', {"inside"}) = Count(pc, {"inside"}) - Bit(pc[v], {"inside"})
           /\ Count(pc', Counted)
                = Count(pc, Counted) - 1
           /\ semQueue' # <<>> => /\ semQueue # <<>>
                                  /\ Count(pc', {"granted"}) = Count(pc, {"granted"}) + 1
                                                                 - Bit(pc[v], {"granted"})
<1> DEFINE f == [pc EXCEPT ![v] = "idle"]
<1>0. pc \in [Visitors -> VisitorState]
  BY DEF TypeOK
<1>1. f \in [Visitors -> VisitorState]
  BY <1>0 DEF VisitorState
<1>2. /\ Count(f, Counted) = Count(pc, Counted) + Bit("idle", Counted) - Bit(pc[v], Counted)
      /\ Count(f, {"granted"}) = Count(pc, {"granted"}) + Bit("idle", {"granted"}) - Bit(pc[v], {"granted"})
      /\ Count(f, {"inside"}) = Count(pc, {"inside"}) + Bit("idle", {"inside"}) - Bit(pc[v], {"inside"})
  <2>1. "idle" \in VisitorState
    BY DEF VisitorState
  <2>2. f = [pc EXCEPT ![v] = "idle"]
    OBVIOUS
  <2> HIDE DEF f
  <2>3. Count(f, Counted) = Count(pc, Counted) + Bit("idle", Counted) - Bit(pc[v], Counted)
    BY <1>0, <2>1, <2>2, MoveLemma
  <2>4. Count(f, {"granted"}) = Count(pc, {"granted"}) + Bit("idle", {"granted"}) - Bit(pc[v], {"granted"})
    BY <1>0, <2>1, <2>2, MoveLemma
  <2>5. Count(f, {"inside"}) = Count(pc, {"inside"}) + Bit("idle", {"inside"}) - Bit(pc[v], {"inside"})
    BY <1>0, <2>1, <2>2, MoveLemma
  <2> QED BY <2>3, <2>4, <2>5
<1>3. Count(pc, Counted) \in Nat /\ Count(pc, {"granted"}) \in Nat /\ Count(pc, {"inside"}) \in Nat
  BY CountType
<1>4. CASE semQueue = <<>>
  <2>1. pc' = f /\ semQueue' = semQueue
    BY <1>4 DEF WakeNext
  <2>2. Len(semQueue) = 0
    BY <1>4
  <2>3. QueueInv'
    BY <2>1, <2>2 DEF QueueInv
  <2>4. Count(pc', {"inside"}) = Count(pc, {"inside"}) - Bit(pc[v], {"inside"})
    BY <1>2, <1>3, <2>1 DEF Bit, Counted
  <2>5. Count(pc', Counted) = Count(pc, Counted) - 1
    BY <1>2, <1>3, <2>1 DEF Bit, Counted
  <2> QED BY <1>1, <1>4, <2>1, <2>3, <2>4, <2>5
<1>5. CASE semQueue # <<>>
  <2> DEFINE h == Head(semQueue)
  <2>1. /\ h \in Visitors /\ h = semQueue[1] /\ 1 \in 1 .. Len(semQueue)
        /\ Tail(semQueue) \in Seq(Visitors)
        /\ Len(Tail(semQueue)) = Len(semQueue) - 1
        /\ \A i \in 1 .. Len(Tail(semQueue)) : Tail(semQueue)[i] = semQueue[i + 1]
    BY <1>5, HeadTailProperties DEF QueueInv
  <2>2. pc[h] = "queued" /\ h # v
    BY <2>1 DEF QueueInv
  <2>3. pc' = [f EXCEPT ![h] = "granted"] /\ semQueue' = Tail(semQueue)
    BY <1>5, <2>2 DEF WakeNext
  <2>4. f[h] = "queued"
    BY <1>0, <2>1, <2>2
  <2>5. /\ Count(pc', Counted) = Count(f, Counted) + Bit("granted", Counted) - Bit(f[h], Counted)
        /\ Count(pc', {"granted"}) = Count(f, {"granted"}) + Bit("granted", {"granted"}) - Bit(f[h], {"granted"})
        /\ Count(pc', {"inside"}) = Count(f, {"inside"}) + Bit("granted", {"inside"}) - Bit(f[h], {"inside"})
    <3>1. "granted" \in VisitorState
      BY DEF VisitorState
    <3>0. h \in Visitors /\ pc' = [f EXCEPT ![h] = "granted"]
      BY <2>1, <2>3
    <3> HIDE DEF f, h
    <3>2. Count(pc', Counted) = Count(f, Counted) + Bit("granted", Counted) - Bit(f[h], Counted)
      BY <1>1, <3>0, <3>1, MoveLemma
    <3>3. Count(pc', {"granted"}) = Count(f, {"granted"}) + Bit("granted", {"granted"}) - Bit(f[h], {"granted"})
      BY <1>1, <3>0, <3>1, MoveLemma
    <3>4. Count(pc', {"inside"}) = Count(f, {"inside"}) + Bit("granted", {"inside"}) - Bit(f[h], {"inside"})
      BY <1>1, <3>0, <3>1, MoveLemma
    <3> QED BY <3>2, <3>3, <3>4
  <2>6. QueueInv'
    <3>1. \A i \in 1 .. Len(Tail(semQueue)) :
             /\ i + 1 \in 1 .. Len(semQueue)
             /\ Tail(semQueue)[i] = semQueue[i + 1]
             /\ semQueue[i + 1] # h
             /\ semQueue[i + 1] # v
             /\ semQueue[i + 1] \in Visitors
      BY <2>1 DEF QueueInv
    <3>2. \A w \in Visitors \ {h, v} : pc'[w] = pc[w]
      BY <1>0, <2>3
    <3>3. \A i \in 1 .. Len(Tail(semQueue)) : pc'[Tail(semQueue)[i]] = "queued"
      BY <3>1, <3>2 DEF QueueInv
    <3>4. \A i, j \in 1 .. Len(Tail(semQueue)) : Tail(semQueue)[i] = Tail(semQueue)[j] => i = j
      BY <3>1 DEF QueueInv
    <3> QED BY <2>1, <2>3, <3>3, <3>4 DEF QueueInv
  <2>7. Count(pc', {"inside"}) = Count(pc, {"inside"}) - Bit(pc[v], {"inside"})
    BY <1>2, <1>3, <2>4, <2>5 DEF Bit, Counted
  <2>8. Count(pc', Counted) = Count(pc, Counted) - 1
    BY <1>2, <1>3, <2>4, <2>5 DEF Bit, Counted
  <2>9. Count(pc', {"granted"}) = Count(pc, {"granted"}) + 1 - Bit(pc[v], {"granted"})
    BY <1>2, <1>3, <2>4, <2>5 DEF Bit, Counted
  <2>10. pc' \in [Visitors -> VisitorState]
    BY <1>1, <2>3 DEF VisitorState
  <2> QED BY <1>5, <2>6, <2>7, <2>8, <2>9, <2>10
<1> QED BY <1>4, <1>5

(* A visitor gives up in the queue: the others keep their places. *)
LEMMA WithoutLemma ==
    ASSUME TypeOK, QueueInv, NEW i \in 1 .. Len(semQueue), semQueue' = WithoutAt(i),
           pc' = [pc EXCEPT ![semQueue[i]] = "idle"]
    PROVE  QueueInv' /\ (semQueue' # <<>> => semQueue # <<>>)
<1> DEFINE n == Len(semQueue)
           a == SubSeq(semQueue, 1, i - 1)
           b == SubSeq(semQueue, i + 1, n)
<1>1. n \in Nat /\ i \in Nat /\ 1 <= i /\ i <= n /\ \A j \in 1 .. n : semQueue[j] \in Visitors
  BY DEF QueueInv
<1>2. /\ a \in Seq(Visitors)
      /\ Len(a) = i - 1
      /\ \A j \in 1 .. i - 1 : a[j] = semQueue[j]
  BY <1>1, SubSeqProperties
<1>3. /\ b \in Seq(Visitors)
      /\ Len(b) = n - i
      /\ \A j \in 1 .. n - i : b[j] = semQueue[j + i]
  <2>1. \A j \in i + 1 .. n : semQueue[j] \in Visitors
    BY <1>1
  <2>2. /\ b \in Seq(Visitors)
        /\ Len(b) = IF i + 1 <= n THEN n - (i + 1) + 1 ELSE 0
        /\ \A j \in 1 .. n - (i + 1) + 1 : b[j] = semQueue[(i + 1) + j - 1]
    BY <1>1, <2>1, SubSeqProperties
  <2> HIDE DEF b
  <2> QED BY <1>1, <2>2
<1>4. /\ semQueue' \in Seq(Visitors)
      /\ Len(semQueue') = n - 1
      /\ \A j \in 1 .. n - 1 : semQueue'[j] = IF j <= i - 1 THEN semQueue[j] ELSE semQueue[j + 1]
  <2>1. semQueue' = a \o b
    BY DEF WithoutAt
  <2>2. /\ a \o b \in Seq(Visitors)
        /\ Len(a \o b) = Len(a) + Len(b)
        /\ \A j \in 1 .. Len(a) + Len(b) : (a \o b)[j] = IF j <= Len(a) THEN a[j] ELSE b[j - Len(a)]
    BY <1>2, <1>3, ConcatProperties
  <2>3. Len(a) + Len(b) = n - 1
    <3> HIDE DEF a, b
    <3> QED BY <1>1, <1>2, <1>3
  <2>4. ASSUME NEW j \in 1 .. n - 1
        PROVE  semQueue'[j] = IF j <= i - 1 THEN semQueue[j] ELSE semQueue[j + 1]
    <3> HIDE DEF a, b
    <3>1. CASE j <= i - 1
      BY <1>1, <1>2, <2>1, <2>2, <2>3, <3>1
    <3>2. CASE ~(j <= i - 1)
      <4>1. j - (i - 1) \in 1 .. n - i /\ j - (i - 1) + i = j + 1
        BY <1>1, <3>2
      <4> QED BY <1>1, <1>2, <1>3, <2>1, <2>2, <2>3, <3>2, <4>1
    <3> QED BY <3>1, <3>2
  <2> QED BY <2>1, <2>2, <2>3, <2>4
<1>5. \A j \in 1 .. n - 1 : \E k \in 1 .. n :
         /\ k # i
         /\ semQueue'[j] = semQueue[k]
         /\ k = IF j <= i - 1 THEN j ELSE j + 1
  BY <1>1, <1>4
<1>6. \A k \in 1 .. n : k # i => pc'[semQueue[k]] = "queued"
  BY <1>1 DEF QueueInv, TypeOK
<1>7. \A j \in 1 .. Len(semQueue') : pc'[semQueue'[j]] = "queued"
  BY <1>4, <1>5, <1>6
<1>8. \A j, l \in 1 .. Len(semQueue') : semQueue'[j] = semQueue'[l] => j = l
  BY <1>1, <1>4, <1>5 DEF QueueInv
<1>9. semQueue # <<>>
  BY <1>1
<1> QED BY <1>4, <1>7, <1>8, <1>9 DEF QueueInv

-----------------------------------------------------------------------------
(* IInv holds initially. *)
LEMMA InitLemma == Init => IInv
<1> SUFFICES ASSUME Init PROVE IInv
  OBVIOUS
<1>1. At({"inside"}) = {} /\ At({"queued", "granted", "inside"}) = {}
  BY DEF Init, At
<1>2. Cardinality({}) = 0
  BY FS_EmptySet
<1>3. Len(semQueue) = 0 /\ semQueue \in Seq(Visitors)
  BY DEF Init
<1>4. QueueInv /\ NoLostPermit /\ DrainHasCause
  BY <1>3 DEF Init, QueueInv, NoLostPermit, DrainHasCause
<1>5. N \in Nat /\ N + 0 = N /\ 0 + 0 = 0 /\ N \in 0 .. N
  BY GateAssumption
<1>6. PermitsExact
  BY <1>1, <1>2, <1>5 DEF Init, PermitsExact
<1>7. CounterExact
  BY <1>1, <1>2, <1>5 DEF Init, CounterExact
<1>8. permits \in 0 .. N /\ counter \in Nat /\ leaked \in Nat
  BY <1>5 DEF Init
<1>9. status \in StatusEnum /\ isOpen \in BOOLEAN /\ empty \in BOOLEAN
  BY DEF Init, StatusEnum
<1>10. pc \in [Visitors -> VisitorState] /\ drain \in [Controllers -> {"idle", "waiting", "woken"}]
  BY DEF Init, VisitorState
<1> QED BY <1>3, <1>4, <1>6, <1>7, <1>8, <1>9, <1>10 DEF IInv, TypeOK

(* A visitor is counted and asks for a permit. *)
LEMMA EnterLemma ==
    ASSUME IInv, NEW v \in Visitors, pc[v] \in {"idle", "admitted"}, Enter(v)
    PROVE  IInv'
<1>1. /\ pc' \in [Visitors -> VisitorState] /\ permits' \in 0 .. N
      /\ QueueInv' /\ PermitsExact' /\ NoLostPermit'
      /\ Count(pc', Counted) = Count(pc, Counted) + 1 - Bit(pc[v], Counted)
  BY AcquireLemma DEF IInv, Enter
<1>2. Bit(pc[v], Counted) = 0
  BY DEF Bit, Counted
<1>3. Count(pc, Counted) \in Nat
  BY CountType
<1>4. counter \in Nat /\ leaked \in Nat /\ counter' = counter + 1 /\ leaked' = leaked
  BY DEF IInv, TypeOK, Enter
<1>5. counter = Count(pc, Counted) + leaked
  BY DEF IInv, CounterExact, Count, At, Counted
<1>6. counter' = Count(pc', Counted) + leaked'
  BY <1>1, <1>2, <1>3, <1>4, <1>5
<1>7. CounterExact'
  BY <1>4, <1>6 DEF Enter, CounterExact, Count, At, Counted
<1>8. DrainHasCause'
  BY DEF Enter, DrainHasCause
<1>9. TypeOK'
  <2>1. counter' \in Nat /\ leaked' \in Nat
    BY <1>4
  <2>3. empty' \in BOOLEAN
    BY DEF Enter
  <2>2. status' \in StatusEnum /\ isOpen' \in BOOLEAN /\ drain' \in [Controllers -> {"idle", "waiting", "woken"}]
    BY DEF IInv, TypeOK, Enter
  <2> QED BY <1>1, <2>1, <2>2, <2>3 DEF TypeOK, QueueInv
<1> QED BY <1>1, <1>7, <1>8, <1>9 DEF IInv

(* A woken waiter of the semaphore that tries again for a permit keeps the invariant. *)
LEMMA GetPermitLemma ==
    ASSUME IInv, NEW v \in Visitors, GetPermit(v)
    PROVE  IInv'
<1>1. /\ pc' \in [Visitors -> VisitorState] /\ permits' \in 0 .. N
      /\ QueueInv' /\ PermitsExact' /\ NoLostPermit'
      /\ Count(pc', Counted) = Count(pc, Counted) + 1 - Bit(pc[v], Counted)
  BY AcquireLemma DEF IInv, GetPermit
<1>2. Bit(pc[v], Counted) = 1
  BY DEF Bit, Counted, GetPermit
<1>3. Count(pc, Counted) \in Nat
  BY CountType
<1>4. Count(pc', Counted) = Count(pc, Counted)
  BY <1>1, <1>2, <1>3
<1>5. CounterExact'
  BY <1>4 DEF IInv, GetPermit, CounterExact, Count, At, Counted
<1>6. DrainHasCause'
  BY DEF IInv, GetPermit, DrainHasCause
<1>7. TypeOK'
  BY <1>1 DEF IInv, TypeOK, GetPermit, QueueInv
<1> QED BY <1>1, <1>5, <1>6, <1>7 DEF IInv

(* The last one to leave makes the gate empty, and wakes who waits for it. *)
LEMMA LeaveLemma ==
    ASSUME IInv, NEW v \in Visitors, Leave(v)
    PROVE  IInv'
<1>1. pc[v] = "inside" /\ WakeNext(v) /\ permits' = permits + 1 /\ counter' = counter - 1 /\ leaked' = leaked
  BY DEF Leave
<1>2. /\ pc' \in [Visitors -> VisitorState]
      /\ QueueInv'
      /\ Count(pc', {"inside"}) = Count(pc, {"inside"}) - Bit(pc[v], {"inside"})
      /\ Count(pc', Counted) = Count(pc, Counted) - 1
      /\ semQueue' # <<>> => /\ semQueue # <<>>
                             /\ Count(pc', {"granted"}) = Count(pc, {"granted"}) + 1
                                                            - Bit(pc[v], {"granted"})
  BY <1>1, WakeLemma DEF IInv
<1>3. Bit(pc[v], {"inside"}) = 1 /\ Bit(pc[v], {"granted"}) = 0
  BY <1>1 DEF Bit
<1>4. Count(pc, {"inside"}) \in Nat /\ Count(pc, Counted) \in Nat /\ Count(pc, {"granted"}) \in Nat
  BY CountType
<1>5. Count(pc', {"inside"}) \in Nat
  BY CountType
<1>6. Count(pc', Counted) \in Nat
  BY CountType
<1>7. /\ permits \in 0 .. N /\ N \in Nat /\ counter \in Nat /\ leaked \in Nat
      /\ permits + Count(pc, {"inside"}) = N
      /\ counter = Count(pc, Counted) + leaked
      /\ semQueue # <<>> => permits <= Count(pc, {"granted"})
  BY GateAssumption DEF IInv, TypeOK, PermitsExact, CounterExact, NoLostPermit, Count, At, Counted
<1>8. permits' + Count(pc', {"inside"}) = N /\ permits' \in 0 .. N
  <2>1. Count(pc', {"inside"}) = Count(pc, {"inside"}) - 1
    BY <1>2, <1>3
  <2> QED BY <1>1, <1>4, <1>5, <1>7, <2>1
<1>9. counter' = Count(pc', Counted) + leaked' /\ counter' \in Nat /\ counter # 0
  BY <1>1, <1>2, <1>4, <1>6, <1>7
<1>10. semQueue' # <<>> => permits' <= Count(pc', {"granted"})
  BY <1>1, <1>2, <1>3, <1>4, <1>7
<1>11. PermitsExact' /\ NoLostPermit'
  BY <1>8, <1>10 DEF PermitsExact, NoLostPermit, Count, At
<1>12. empty = FALSE
  BY <1>9 DEF IInv, TypeOK, CounterExact
<1>13. CounterExact'
  <2>1. empty' <=> counter' = 0
    BY <1>12 DEF Leave
  <2> QED BY <1>9, <2>1 DEF CounterExact, Count, At, Counted
<1>14. DrainHasCause'
  BY <1>12 DEF IInv, Leave, DrainHasCause
<1>15. TypeOK'
  <2>1. empty' \in BOOLEAN /\ drain' \in [Controllers -> {"idle", "waiting", "woken"}]
    BY <1>12 DEF IInv, TypeOK, Leave
  <2> QED BY <1>2, <1>8, <1>9, <1>1, <1>7, <2>1 DEF IInv, TypeOK, Leave, QueueInv
<1> QED BY <1>2, <1>11, <1>13, <1>14, <1>15 DEF IInv

(* A cancelled visitor stays counted, as a leak, and takes no permit away. *)
LEMMA CancelLemma ==
    ASSUME IInv, NEW v \in Visitors, CancelInQueue(v)
    PROVE  IInv'
<1>1. /\ leaked' = leaked + 1 /\ counter' = counter /\ permits' = permits
      /\ status' = status /\ isOpen' = isOpen /\ empty' = empty /\ drain' = drain
  BY DEF CancelInQueue
<1>2. /\ permits \in 0 .. N /\ counter \in Nat /\ leaked \in Nat
      /\ permits + Count(pc, {"inside"}) = N
      /\ counter = Count(pc, Counted) + leaked
      /\ semQueue # <<>> => permits <= Count(pc, {"granted"})
  BY DEF IInv, TypeOK, PermitsExact, CounterExact, NoLostPermit, Count, At, Counted
<1>3. Count(pc, {"inside"}) \in Nat /\ Count(pc, Counted) \in Nat /\ Count(pc, {"granted"}) \in Nat
  BY CountType
<1>4. /\ pc' \in [Visitors -> VisitorState]
      /\ QueueInv'
      /\ Count(pc', {"inside"}) = Count(pc, {"inside"})
      /\ Count(pc', Counted) = Count(pc, Counted) - 1
      /\ semQueue' # <<>> => permits <= Count(pc', {"granted"})
  <2>0. pc \in [Visitors -> VisitorState]
    BY DEF IInv, TypeOK
  <2>1. ASSUME pc' = [pc EXCEPT ![v] = "idle"]
        PROVE  /\ pc' \in [Visitors -> VisitorState]
               /\ Count(pc', {"inside"}) = Count(pc, {"inside"}) - Bit(pc[v], {"inside"})
               /\ Count(pc', Counted) = Count(pc, Counted) - Bit(pc[v], Counted)
               /\ Count(pc', {"granted"}) = Count(pc, {"granted"}) - Bit(pc[v], {"granted"})
    <3>0. "idle" \in VisitorState
      BY DEF VisitorState
    <3>1. Count(pc', {"inside"}) = Count(pc, {"inside"}) + Bit("idle", {"inside"}) - Bit(pc[v], {"inside"})
      BY <2>0, <2>1, <3>0, MoveLemma
    <3>2. Count(pc', Counted) = Count(pc, Counted) + Bit("idle", Counted) - Bit(pc[v], Counted)
      BY <2>0, <2>1, <3>0, MoveLemma
    <3>3. Count(pc', {"granted"}) = Count(pc, {"granted"}) + Bit("idle", {"granted"}) - Bit(pc[v], {"granted"})
      BY <2>0, <2>1, <3>0, MoveLemma
    <3>4. Bit("idle", {"inside"}) = 0 /\ Bit("idle", Counted) = 0 /\ Bit("idle", {"granted"}) = 0
      BY DEF Bit, Counted
    <3>5. pc' \in [Visitors -> VisitorState]
      BY <2>0, <2>1, <3>0
    <3>9. \A states : Bit(pc[v], states) \in {0, 1}
      BY DEF Bit
    <3>6. Count(pc', {"inside"}) = Count(pc, {"inside"}) - Bit(pc[v], {"inside"})
      BY <1>3, <3>1, <3>4, <3>9
    <3>7. Count(pc', Counted) = Count(pc, Counted) - Bit(pc[v], Counted)
      BY <1>3, <3>2, <3>4, <3>9
    <3>8. Count(pc', {"granted"}) = Count(pc, {"granted"}) - Bit(pc[v], {"granted"})
      BY <1>3, <3>3, <3>4, <3>9
    <3> QED BY <3>5, <3>6, <3>7, <3>8
  <2>2. CASE pc[v] = "queued"
    <3>1. PICK i \in 1 .. Len(semQueue) : semQueue[i] = v /\ semQueue' = WithoutAt(i)
      BY <2>2 DEF CancelInQueue
    <3>2. pc' = [pc EXCEPT ![v] = "idle"]
      BY <2>2 DEF CancelInQueue
    <3>3. Bit(pc[v], {"inside"}) = 0 /\ Bit(pc[v], Counted) = 1 /\ Bit(pc[v], {"granted"}) = 0
      BY <2>2 DEF Bit, Counted
    <3>4. QueueInv' /\ (semQueue' # <<>> => semQueue # <<>>)
      BY <3>1, <3>2, WithoutLemma DEF IInv
    <3> QED BY <1>2, <1>3, <2>1, <3>2, <3>3, <3>4
  <2>3. CASE pc[v] = "granted" /\ permits > 0
    <3>1. Bit(pc[v], {"inside"}) = 0 /\ Bit(pc[v], Counted) = 1 /\ Bit(pc[v], {"granted"}) = 1
      BY <2>3 DEF Bit, Counted
    <3>2. WakeNext(v)
      BY <2>3 DEF CancelInQueue
    <3>3. /\ pc' \in [Visitors -> VisitorState]
          /\ QueueInv'
          /\ Count(pc', {"inside"}) = Count(pc, {"inside"}) - Bit(pc[v], {"inside"})
          /\ Count(pc', Counted) = Count(pc, Counted) - 1
          /\ semQueue' # <<>> => /\ semQueue # <<>>
                                 /\ Count(pc', {"granted"}) = Count(pc, {"granted"}) + 1
                                                                - Bit(pc[v], {"granted"})
      BY <2>3, <3>2, WakeLemma DEF IInv
    <3> QED BY <1>2, <1>3, <3>1, <3>3
  <2>4. CASE pc[v] = "granted" /\ ~(permits > 0)
    <3>1. pc' = [pc EXCEPT ![v] = "idle"] /\ semQueue' = semQueue
      BY <2>4 DEF CancelInQueue
    <3>2. Bit(pc[v], {"inside"}) = 0 /\ Bit(pc[v], Counted) = 1
      BY <2>4 DEF Bit, Counted
    <3>3. permits = 0
      BY <1>2, <2>4
    <3>4. Count(pc', {"granted"}) \in Nat
      BY CountType
    <3>5. QueueInv'
      BY <2>0, <2>4, <3>1 DEF IInv, QueueInv
    <3> QED BY <1>3, <2>1, <3>1, <3>2, <3>3, <3>4, <3>5
  <2> QED BY <2>2, <2>3, <2>4 DEF CancelInQueue
<1>5. PermitsExact' /\ NoLostPermit'
  BY <1>1, <1>2, <1>4 DEF PermitsExact, NoLostPermit, Count, At
<1>6. counter' = Count(pc', Counted) + leaked'
  BY <1>1, <1>2, <1>3, <1>4
<1>7. CounterExact'
  BY <1>1, <1>6 DEF IInv, CounterExact, Count, At, Counted
<1>8. DrainHasCause'
  BY <1>1 DEF IInv, DrainHasCause
<1>9. TypeOK'
  <2>1. leaked' \in Nat
    BY <1>1, <1>2
  <2> QED BY <1>1, <1>4, <2>1 DEF IInv, TypeOK, QueueInv
<1> QED BY <1>4, <1>5, <1>7, <1>8, <1>9 DEF IInv

(* Whoever is not behind the gate may come and go, and controllers may do  *)
(* what they like: no visitor behind the gate moves.                       *)
LEMMA OutsideLemma ==
    ASSUME IInv,
           pc' \in [Visitors -> VisitorState],
           \A v \in Visitors : \A x \in Counted : pc'[v] = x <=> pc[v] = x,
           UNCHANGED <<counter, empty, permits, semQueue, leaked>>,
           status' \in StatusEnum, isOpen' \in BOOLEAN,
           drain' \in [Controllers -> {"idle", "waiting", "woken"}],
           DrainHasCause'
    PROVE  IInv'
<1>1. /\ {v \in Visitors : pc'[v] \in Counted} = {v \in Visitors : pc[v] \in Counted}
      /\ {v \in Visitors : pc'[v] \in {"inside"}} = {v \in Visitors : pc[v] \in {"inside"}}
      /\ {v \in Visitors : pc'[v] \in {"granted"}} = {v \in Visitors : pc[v] \in {"granted"}}
  BY DEF Counted
<1>2. CounterExact' /\ PermitsExact' /\ NoLostPermit'
  BY <1>1 DEF IInv, CounterExact, PermitsExact, NoLostPermit, At, Counted
<1>3. QueueInv'
  BY DEF IInv, QueueInv, Counted
<1>4. TypeOK'
  BY DEF IInv, TypeOK
<1> QED BY <1>2, <1>3, <1>4 DEF IInv

(* Every step of a visitor, and every opening or closing of the gate, keeps the invariant. *)
LEMMA NextLemma == IInv /\ [Next]_vars => IInv'
<1> SUFFICES ASSUME IInv, [Next]_vars PROVE IInv'
  OBVIOUS
<1>1. ASSUME NEW v \in Visitors, Arrive(v) \/ Admit(v)
      PROVE  IInv'
  BY <1>1, EnterLemma DEF Arrive, Admit
<1>2. ASSUME NEW v \in Visitors, WaitOutside(v) \/ CancelOutside(v)
      PROVE  IInv'
  <2>1. /\ \/ pc[v] = "idle" /\ pc' = [pc EXCEPT ![v] = "outside"]
           \/ pc[v] \in {"outside", "admitted"} /\ pc' = [pc EXCEPT ![v] = "idle"]
        /\ UNCHANGED <<status, isOpen, counter, empty, permits, semQueue, drain, leaked>>
    BY <1>2 DEF WaitOutside, CancelOutside
  <2>2. /\ pc' \in [Visitors -> VisitorState]
        /\ \A w \in Visitors : \A x \in Counted : pc'[w] = x <=> pc[w] = x
    BY <2>1 DEF IInv, TypeOK, VisitorState, Counted
  <2>3. /\ status' \in StatusEnum /\ isOpen' \in BOOLEAN
        /\ drain' \in [Controllers -> {"idle", "waiting", "woken"}]
        /\ DrainHasCause'
    BY <2>1 DEF IInv, TypeOK, DrainHasCause
  <2> QED BY <2>1, <2>2, <2>3, OutsideLemma
<1>3. ASSUME NEW k \in Controllers, Controller(k)
      PROVE  IInv'
  <2>1. UNCHANGED <<counter, empty, permits, semQueue, leaked>>
    BY <1>3 DEF Controller, ready, shut, DrainReturns, CancelDrain
  <2>2. /\ pc' \in [Visitors -> VisitorState]
        /\ \A w \in Visitors : \A x \in Counted : pc'[w] = x <=> pc[w] = x
    BY <1>3 DEF IInv, TypeOK, VisitorState, Counted, Controller, ready, shut, DrainReturns, CancelDrain
  <2>3. status' \in StatusEnum /\ isOpen' \in BOOLEAN
    BY <1>3 DEF IInv, TypeOK, StatusEnum, Controller, ready, shut, DrainReturns, CancelDrain
  <2>4. drain' \in [Controllers -> {"idle", "waiting", "woken"}]
    BY <1>3 DEF IInv, TypeOK, Controller, ready, shut, DrainReturns, CancelDrain
  <2>5. DrainHasCause'
    BY <1>3 DEF IInv, TypeOK, DrainHasCause, Controller, ready, shut, DrainReturns, CancelDrain
  <2> QED BY <2>1, <2>2, <2>3, <2>4, <2>5, OutsideLemma
<1>4. CASE close \/ UNCHANGED vars
  <2>1. /\ UNCHANGED <<status, counter, empty, permits, semQueue, pc, drain, leaked>>
        /\ isOpen' \in BOOLEAN
    BY <1>4 DEF IInv, TypeOK, close, vars
  <2>2. /\ pc' \in [Visitors -> VisitorState]
        /\ status' \in StatusEnum
        /\ drain' \in [Controllers -> {"idle", "waiting", "woken"}]
        /\ DrainHasCause'
    BY <2>1 DEF IInv, TypeOK, DrainHasCause
  <2> QED BY <2>1, <2>2, OutsideLemma
<1> QED BY <1>1, <1>2, <1>3, <1>4, GetPermitLemma, LeaveLemma, CancelLemma DEF Next, Visitor

(* The inductive invariant of the gate holds in every reachable state. *)
LEMMA Invariance == Spec => []IInv
BY InitLemma, NextLemma, PTL DEF Spec

-----------------------------------------------------------------------------
(* Every variable keeps its type: permits never exceed what the semaphore  *)
(* was given, and the counter never becomes negative.                      *)
THEOREM TypeCorrect == Spec => []TypeOK
BY Invariance, PTL DEF IInv

(* The semaphore neither loses a permit nor makes one up. *)
THEOREM PermitsAreExact == Spec => []PermitsExact
BY Invariance, PTL DEF IInv

(* No permit lies idle while somebody waits for one without being woken. *)
THEOREM PermitsAreOffered == Spec => []NoLostPermit
BY Invariance, PTL DEF IInv

(* The counter is right up to the visits that were cancelled. *)
THEOREM CounterIsExact == Spec => []CounterExact
BY Invariance, PTL DEF IInv

(* Who waits for the gate to become empty has somebody to wait for. *)
THEOREM DrainsHaveCause == Spec => []DrainHasCause
BY Invariance, PTL DEF IInv

===============================================================================
