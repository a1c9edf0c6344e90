------------------------------ MODULE Presence ------------------------------
(***************************************************************************)
(* What a node's websocket side promises to the code that reads it (the    *)
(* redis commands on db 0 and db 1): a set of sessions that are online     *)
(* and, for each of them, the user it is logged in as.  A session logs in  *)
(* and out only while it is online, and whoever goes offline disappears    *)
(* from its user at the same instant.                                      *)
(***************************************************************************)

CONSTANTS
    Sessions,   \* identities of websocket sessions
    Users       \* user names a session may log in as

VARIABLES
    online,     \* the sessions that can be looked up
    who         \* for each session, the users it is found under

vars == <<online, who>>

TypeOK ==
    /\ online \subseteq Sessions
    /\ who \in [Sessions -> SUBSET Users]

Init ==
    /\ online = {}
    /\ who = [s \in Sessions |-> {}]

Join(s) ==
    /\ s \notin online
    /\ online' = online \cup {s}
    /\ UNCHANGED who

Login(s, u) ==
    /\ s \in online
    /\ who' = [who EXCEPT ![s] = {u}]
    /\ UNCHANGED online

Logout(s) ==
    /\ s \in online
    /\ who' = [who EXCEPT ![s] = {}]
    /\ UNCHANGED online

Leave(s) ==
    /\ s \in online
    /\ online' = online \ {s}
    /\ who' = [who EXCEPT ![s] = {}]

Next ==
    \E s \in Sessions :
        \/ Join(s)
        \/ Logout(s)
        \/ Leave(s)
        \/ \E u \in Users : Login(s, u)

Spec == Init /\ [][Next]_vars

=============================================================================
