------------------------------ MODULE FifoLock ------------------------------
(***************************************************************************)
(* FifoLock (fifo_lock.py): a lock made of a queue of asyncio.Locks, one   *)
(* for each call of acquire().  A call locks its own Lock when somebody is *)
(* before it, puts it in the queue and then waits to lock it (again);      *)
(* release() takes the head out of the queue and unlocks the next one.     *)
(*                                                                         *)
(* A call is followed from acquire() to the end of release(): it is used   *)
(* as "async with" uses it, so only who got in releases, and it releases   *)
(* however its body ends.  maxsize is 0, the default, so that put() never  *)
(* waits.                                                                  *)
(***************************************************************************)
EXTENDS Naturals, Sequences

CONSTANTS
    Calls,          \* calls of acquire(); a call is reused once it has released
    Cancellable     \* those whose task may be cancelled while it waits

ASSUME LockAssumption == Cancellable \subseteq Calls

VARIABLES
    queue,      \* _lock_queue: whose asyncio.Lock it holds, in order
    locked,     \* the calls whose asyncio.Lock is locked
    pc          \* where each call is

vars == <<queue, locked, pc>>

(* "waiting" on a locked Lock; "woken" when it was unlocked but the task   *)
(* has not run yet; "inside" the lock; "cancelled" while it waited.        *)
CallState == {"idle", "waiting", "woken", "inside", "cancelled"}

Init ==
    /\ queue = <<>>
    /\ locked = {}
    /\ pc = [c \in Calls |-> "idle"]

(* Mutant: the queue is not looked at. *)
Mut_Acquire(c) ==
    /\ pc[c] = "idle"
    /\ queue' = Append(queue, c)
    /\ locked' = locked \cup {c}
    /\ pc' = [pc EXCEPT ![c] = "inside"]

(* acquire() up to its last await: a call that finds the queue empty gets  *)
(* its Lock at once, any other has locked it before and now waits for it.  *)
Acquire(c) ==
    /\ pc[c] = "idle"
    /\ queue' = Append(queue, c)
    /\ locked' = locked \cup {c}
    /\ pc' = [pc EXCEPT ![c] = IF queue = <<>> THEN "inside" ELSE "waiting"]

(* The woken task locks its Lock and enters. *)
Resume(c) ==
    /\ pc[c] = "woken"
    /\ locked' = locked \cup {c}
    /\ pc' = [pc EXCEPT ![c] = "inside"]
    /\ UNCHANGED queue

(* Unlocking a Lock wakes the call that waits for it, if one still does. *)
Unlock(c, h) ==
    /\ locked' = locked \ {c, h}
    /\ pc' = [pc EXCEPT ![c] = "idle", ![h] = IF @ = "waiting" THEN "woken" ELSE @]

(* Mutant: the last of the queue is woken, not the first. *)
Mut_Release(c) ==
    /\ pc[c] = "inside"
    /\ queue' = Tail(queue)
    /\ IF Tail(queue) = <<>>
       THEN locked' = locked \ {c} /\ pc' = [pc EXCEPT ![c] = "idle"]
       ELSE Unlock(c, queue[Len(queue)])

(* Mutant: the next one is unlocked only if exactly one call waits. *)
Mut2_Release(c) ==
    /\ pc[c] = "inside"
    /\ queue' = Tail(queue)
    /\ IF Len(queue) # 2
       THEN locked' = locked \ {c} /\ pc' = [pc EXCEPT ![c] = "idle"]
       ELSE Unlock(c, Head(Tail(queue)))

(* Mutant: nothing is taken out of a queue that nobody waits in. *)
Mut3_Release(c) ==
    /\ pc[c] = "inside"
    /\ IF Tail(queue) = <<>>
       THEN UNCHANGED queue /\ locked' = locked \ {c} /\ pc' = [pc EXCEPT ![c] = "idle"]
       ELSE queue' = Tail(queue) /\ Unlock(c, Head(Tail(queue)))

(* release(): the head of the queue leaves it, and the next one is         *)
(* unlocked if it is locked.                                               *)
Release(c) ==
    /\ pc[c] = "inside"
    /\ queue' = Tail(queue)
    /\ IF Tail(queue) = <<>> \/ Head(Tail(queue)) \notin locked
       THEN locked' = locked \ {c} /\ pc' = [pc EXCEPT ![c] = "idle"]
       ELSE Unlock(c, Head(Tail(queue)))

(* Cancellation while waiting, also of a task that was woken already: its  *)
(* Lock stays in the queue.                                                *)
Cancel(c) ==
    /\ c \in Cancellable
    /\ pc[c] \in {"waiting", "woken"}
    /\ pc' = [pc EXCEPT ![c] = "cancelled"]
    /\ UNCHANGED <<queue, locked>>

Next ==
    \E c \in Calls :
        \/ Acquire(c)
        \/ Resume(c)
        \/ Release(c)
        \/ Cancel(c)

(* A woken task runs and whoever is inside leaves.  Nobody has to come. *)
Fairness == \A c \in Calls : WF_vars(Resume(c)) /\ WF_vars(Release(c))

Spec == Init /\ [][Next]_vars
FairSpec == Spec /\ Fairness

-----------------------------------------------------------------------------
(* Type invariant of the lock and its calls: the queue holds one Lock for  *)
(* each call between acquire() and release(), and no other.                *)
TypeOK ==
    /\ queue \in Seq(Calls)
    /\ locked \subseteq Calls
    /\ pc \in [Calls -> CallState]
    /\ \A i, j \in 1 .. Len(queue) : queue[i] = queue[j] => i = j
    /\ \A c \in Calls : pc[c] # "idle" <=> \E i \in 1 .. Len(queue) : queue[i] = c

(* The lock excludes: at most one call is inside, whoever is cancelled. *)
MutualExclusion ==
    \A c, d \in Calls : pc[c] = "inside" /\ pc[d] = "inside" => c = d

(* No wake-up is lost: the head of the queue is inside or on its way in,   *)
(* unless it was cancelled; it never just waits.                           *)
HeadIsServed ==
    queue # <<>> => pc[Head(queue)] \in {"woken", "inside", "cancelled"}

Before(c, d) ==
    \E i, j \in 1 .. Len(queue) : i < j /\ queue[i] = c /\ queue[j] = d

(* The lock is fair: nobody enters before a call that came earlier, not    *)
(* even before one that was cancelled.                                     *)
EntersInOrder ==
    [][\A c, d \in Calls : Before(c, d) => ~(pc[d] # "inside" /\ pc'[d] = "inside")]_vars

(* Where the head was cancelled nobody will ever enter again: release() is *)
(* for those inside, so nothing takes the dead Lock out of the queue.      *)
Wedged == queue # <<>> /\ pc[Head(queue)] = "cancelled"
WedgedForever ==
    [][Wedged => Wedged' /\ \A c \in Calls : pc'[c] # "inside"]_vars

(* Everyone who waits gets in, unless somebody is cancelled: the death of  *)
(* a waiter is the only thing that ever stops the lock.                    *)
OnlyCancellationStops ==
    \A c \in Calls : pc[c] = "waiting" ~> (pc[c] = "inside" \/ \E d \in Calls : pc[d] = "cancelled")

=============================================================================
