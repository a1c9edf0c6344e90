-------------------------------- MODULE Gate --------------------------------
(***************************************************************************)
(* Gate and ServerStatus (gate.py): a gate that lets visitors in while it  *)
(* is open, at most N of them at a time, and that can be closed and waited *)
(* for until the last visitor has left.  It is built from an               *)
(* asyncio.Event, an asyncio.Semaphore and a counter with a second Event.  *)
(*                                                                         *)
(* The Event and the Semaphore are those of Python 3.7 to 3.9, which the   *)
(* loop argument of gate.py needs: Event.wait() does not look at the flag  *)
(* again when it is woken, and a newcomer may take a permit that was       *)
(* released for somebody who waits.                                        *)
(***************************************************************************)
EXTENDS Naturals, Sequences, FiniteSets

CONSTANTS
    Visitors,       \* tasks that pass the gate, again and again
    Cancellable,    \* those that may be cancelled on their way in
    Controllers,    \* tasks that call the methods of ServerStatus
    N,              \* permits of the semaphore
    MaxLeaks        \* bound: cancellations inside Semaphore.acquire()

ASSUME GateAssumption ==
    /\ IsFiniteSet(Visitors)
    /\ Cancellable \subseteq Visitors
    /\ N \in Nat \ {0}
    /\ MaxLeaks \in Nat

VARIABLES
    status,     \* ServerStatus._state
    isOpen,     \* the flag of Gate._state
    counter,    \* Gate._counter
    empty,      \* the flag of Gate._emtpy_statue
    permits,    \* the value of the semaphore
    semQueue,   \* the visitors whose futures the semaphore keeps
    pc,         \* where each visitor is
    drain,      \* where each controller is inside close_until_complete
    leaked      \* visits cancelled between counting and getting a permit

vars == <<status, isOpen, counter, empty, permits, semQueue, pc, drain, leaked>>

(* "outside" waits for the gate; "admitted" was woken by open(); "queued"  *)
(* waits for a permit; "granted" was woken by one.                         *)
VisitorState == {"idle", "outside", "admitted", "queued", "granted", "inside"}
StatusEnum == {"Zero", "Running", "NotAvailable", "Updating"}

At(states) == {v \in Visitors : pc[v] \in states}

Init ==
    /\ status = "Zero"
    /\ isOpen = FALSE
    /\ counter = 0
    /\ empty = TRUE
    /\ permits = N
    /\ semQueue = <<>>
    /\ pc = [v \in Visitors |-> "idle"]
    /\ drain = [k \in Controllers |-> "idle"]
    /\ leaked = 0

-----------------------------------------------------------------------------
(* asyncio.Semaphore *)

(* Mutant: a permit that is there is taken without being counted. *)
Mut_SemAcquire(v) ==
    IF permits > 0
    THEN pc' = [pc EXCEPT ![v] = "inside"] /\ UNCHANGED <<permits, semQueue>>
    ELSE /\ semQueue' = Append(semQueue, v)
         /\ pc' = [pc EXCEPT ![v] = "queued"]
         /\ UNCHANGED permits

(* acquire(), up to its await or its end. *)
SemAcquire(v) ==
    IF permits > 0
    THEN /\ permits' = permits - 1
         /\ pc' = [pc EXCEPT ![v] = "inside"]
         /\ UNCHANGED semQueue
    ELSE /\ semQueue' = Append(semQueue, v)
         /\ pc' = [pc EXCEPT ![v] = "queued"]
         /\ UNCHANGED permits

(* Visitor v goes away and the first waiter, if there is one, is woken. *)
WakeNext(v) ==
    IF semQueue = <<>>
    THEN pc' = [pc EXCEPT ![v] = "idle"] /\ UNCHANGED semQueue
    ELSE /\ pc' = [pc EXCEPT ![v] = "idle", ![Head(semQueue)] = "granted"]
         /\ semQueue' = Tail(semQueue)

-----------------------------------------------------------------------------
(* Gate.acquire and Gate.release *)

(* acquire() behind the gate: count the visitor, then ask for a permit. *)
Enter(v) ==
    /\ empty' = FALSE
    /\ counter' = counter + 1
    /\ SemAcquire(v)
    /\ UNCHANGED <<status, isOpen, drain, leaked>>

Arrive(v) ==
    /\ pc[v] = "idle"
    /\ isOpen
    /\ Enter(v)

WaitOutside(v) ==
    /\ pc[v] = "idle"
    /\ ~isOpen
    /\ pc' = [pc EXCEPT ![v] = "outside"]
    /\ UNCHANGED <<status, isOpen, counter, empty, permits, semQueue, drain, leaked>>

(* A visitor that open() has woken: the gate may be closed again by now. *)
Admit(v) ==
    /\ pc[v] = "admitted"
    /\ Enter(v)

(* A woken waiter of the semaphore tries again, at the end of the queue if *)
(* a newcomer was faster.                                                  *)
GetPermit(v) ==
    /\ pc[v] = "granted"
    /\ SemAcquire(v)
    /\ UNCHANGED <<status, isOpen, counter, empty, drain, leaked>>

(* Mutant: the last visitor does not announce that the gate is empty. *)
Mut_Leave(v) ==
    /\ pc[v] = "inside"
    /\ permits' = permits + 1
    /\ WakeNext(v)
    /\ counter' = counter - 1
    /\ UNCHANGED <<status, isOpen, empty, drain, leaked>>

(* Mutant: a permit is put back and nobody is woken for it. *)
Mut2_Leave(v) ==
    /\ pc[v] = "inside"
    /\ permits' = permits + 1
    /\ pc' = [pc EXCEPT ![v] = "idle"]
    /\ counter' = counter - 1
    /\ empty' = (counter' = 0)
    /\ drain' = [k \in Controllers |->
                   IF counter' = 0 /\ drain[k] = "waiting" THEN "woken" ELSE drain[k]]
    /\ UNCHANGED <<status, isOpen, semQueue, leaked>>

(* release(): the last one to leave sets the empty event, which wakes      *)
(* everybody inside close_until_complete.                                  *)
Leave(v) ==
    /\ pc[v] = "inside"
    /\ permits' = permits + 1
    /\ WakeNext(v)
    /\ counter' = counter - 1
    /\ IF counter' = 0
       THEN /\ empty' = TRUE
            /\ drain' = [k \in Controllers |-> IF drain[k] = "waiting" THEN "woken" ELSE drain[k]]
       ELSE UNCHANGED <<empty, drain>>
    /\ UNCHANGED <<status, isOpen, leaked>>

-----------------------------------------------------------------------------
(* Cancellation of a visitor inside acquire(). *)

CancelOutside(v) ==
    /\ v \in Cancellable
    /\ pc[v] \in {"outside", "admitted"}
    /\ pc' = [pc EXCEPT ![v] = "idle"]
    /\ UNCHANGED <<status, isOpen, counter, empty, permits, semQueue, drain, leaked>>

WithoutAt(i) == SubSeq(semQueue, 1, i - 1) \o SubSeq(semQueue, i + 1, Len(semQueue))

(* The visitor was counted and nobody will count it off: __aexit__ does    *)
(* not run.  The semaphore hands a permit that was meant for it on.        *)
CancelInQueue(v) ==
    /\ v \in Cancellable
    /\ leaked < MaxLeaks
    /\ \/ /\ pc[v] = "queued"
          /\ pc' = [pc EXCEPT ![v] = "idle"]
          /\ \E i \in 1 .. Len(semQueue) : semQueue[i] = v /\ semQueue' = WithoutAt(i)
       \/ /\ pc[v] = "granted"
          /\ IF permits > 0 THEN WakeNext(v)
             ELSE pc' = [pc EXCEPT ![v] = "idle"] /\ UNCHANGED semQueue
    /\ leaked' = leaked + 1
    /\ UNCHANGED <<status, isOpen, counter, empty, permits, drain>>

-----------------------------------------------------------------------------
(* ServerStatus *)

(* ready(): the gate opens and everybody outside is woken. *)
ready(k) ==
    /\ drain[k] = "idle"
    /\ status' = "Running"
    /\ isOpen' = TRUE
    /\ pc' = [v \in Visitors |-> IF pc[v] = "outside" THEN "admitted" ELSE pc[v]]
    /\ UNCHANGED <<counter, empty, permits, semQueue, drain, leaked>>

(* Mutant: close_until_complete waits whether or not somebody is inside. *)
Mut_shut(k, s) ==
    /\ drain[k] = "idle"
    /\ status' = s
    /\ isOpen' = FALSE
    /\ drain' = [drain EXCEPT ![k] = "waiting"]
    /\ UNCHANGED <<counter, empty, permits, semQueue, pc, leaked>>

(* error(), left() and update(): the gate closes, and the controller waits *)
(* unless nobody is inside.                                                *)
shut(k, s) ==
    /\ drain[k] = "idle"
    /\ status' = s
    /\ isOpen' = FALSE
    /\ drain' = [drain EXCEPT ![k] = IF empty THEN "idle" ELSE "waiting"]
    /\ UNCHANGED <<counter, empty, permits, semQueue, pc, leaked>>

(* Gate.close, called on the gate itself: it does not wait for anybody. *)
close ==
    /\ isOpen
    /\ isOpen' = FALSE
    /\ UNCHANGED <<status, counter, empty, permits, semQueue, pc, drain, leaked>>

(* close_until_complete returns; the gate may be open or in use again. *)
DrainReturns(k) ==
    /\ drain[k] = "woken"
    /\ drain' = [drain EXCEPT ![k] = "idle"]
    /\ UNCHANGED <<status, isOpen, counter, empty, permits, semQueue, pc, leaked>>

(* A controller is cancelled inside close_until_complete, woken or not:    *)
(* the status and the closed gate stay as it has set them.                 *)
CancelDrain(k) ==
    /\ drain[k] \in {"waiting", "woken"}
    /\ drain' = [drain EXCEPT ![k] = "idle"]
    /\ UNCHANGED <<status, isOpen, counter, empty, permits, semQueue, pc, leaked>>

Visitor(v) ==
    \/ Arrive(v)
    \/ WaitOutside(v)
    \/ Admit(v)
    \/ GetPermit(v)
    \/ Leave(v)
    \/ CancelOutside(v)
    \/ CancelInQueue(v)

Controller(k) ==
    \/ ready(k)
    \/ \E s \in StatusEnum \ {"Running"} : shut(k, s)
    \/ DrainReturns(k)
    \/ CancelDrain(k)

Next ==
    \/ \E v \in Visitors : Visitor(v)
    \/ \E k \in Controllers : Controller(k)
    \/ close

(* Ready tasks run, and visitors leave.  Nobody has to come, and nobody    *)
(* has to open the gate or to close it.                                    *)
Fairness ==
    /\ \A v \in Visitors : WF_vars(Admit(v)) /\ WF_vars(GetPermit(v)) /\ WF_vars(Leave(v))
    /\ \A k \in Controllers : WF_vars(DrainReturns(k))

Spec == Init /\ [][Next]_vars
FairSpec == Spec /\ Fairness

-----------------------------------------------------------------------------
(* Type invariant of the gate, its semaphore and its tasks. *)
TypeOK ==
    /\ status \in StatusEnum
    /\ isOpen \in BOOLEAN
    /\ counter \in Nat
    /\ empty \in BOOLEAN
    /\ permits \in 0 .. N
    /\ semQueue \in Seq(Visitors)
    /\ pc \in [Visitors -> VisitorState]
    /\ drain \in [Controllers -> {"idle", "waiting", "woken"}]
    /\ leaked \in Nat

(* Permits are neither lost nor made up, so at most N visitors are inside, *)
(* whatever is cancelled at whatever await.                                *)
PermitsExact == permits + Cardinality(At({"inside"})) = N

(* No permit lies idle: where somebody waits for one, every free permit    *)
(* has a visitor that was woken for it.                                    *)
NoLostPermit ==
    semQueue # <<>> => permits <= Cardinality(At({"granted"}))

(* The counter counts the visitors that passed the gate and, for ever,     *)
(* each that was cancelled before it got its permit; the empty event says  *)
(* whether it is zero.                                                     *)
CounterExact ==
    /\ counter = Cardinality(At({"queued", "granted", "inside"})) + leaked
    /\ empty <=> counter = 0

(* A controller waits only for visitors: never when there is nobody to     *)
(* wake it.                                                                *)
DrainHasCause ==
    \A k \in Controllers : drain[k] = "waiting" => ~empty

(* close_until_complete returns, unless the gate is opened again or a      *)
(* visitor was cancelled while it waited for a permit.                     *)
OnlyLeaksBlockDrain ==
    \A k \in Controllers : drain[k] = "waiting" ~> (drain[k] # "waiting" \/ isOpen \/ leaked > 0)

=============================================================================
