---------------------------- MODULE SocketServer ----------------------------
(***************************************************************************)
(* SocketBasedRedisServer (design.py): redis clients of a websocket node   *)
(* read its directory and act on its sessions while the connection         *)
(* handlers, callbacks and senders of WebsocketApp go on.                  *)
(*                                                                         *)
(* A command that does not suspend is one step.  DEL suspends: it awaits   *)
(* close() of the sessions that it found, which may end, log in as         *)
(* somebody else or be evicted in the meantime.                            *)
(***************************************************************************)
EXTENDS WebsocketApp, Integers

CONSTANTS
    Clients,            \* redis connections of the node
    DefaultLoads        \* LOADS is the one of the class, not of a subclass

MAX_DB_COUNT == 2
Databases == 0 .. MAX_DB_COUNT - 1

ASSUME ServerAssumption == DefaultLoads \in BOOLEAN

VARIABLES
    db,         \* RedisSession.current_db
    at,         \* "idle", "deleting" (DEL awaits), or "gone" (the connection was ended)
    aimed,      \* the sessions whose close() a DEL awaits
    missed      \* history: a SET found a session and sent nothing to it

clientVars == <<db, at, aimed, missed>>
serverVars == <<vars, clientVars>>

-----------------------------------------------------------------------------
(* What the commands that only read answer, for the database they are in. *)

scan(d) == IF d = 0 THEN sessionDict ELSE DOMAIN userDict

(* The sessions GET describes; none stands for a nil reply. *)
get(d, key) == IF d = 0 THEN {key} \cap sessionDict ELSE get_user(userDict, key)

Keys(d) == IF d = 0 THEN Sessions ELSE Users

-----------------------------------------------------------------------------
ServerInit ==
    /\ Init
    /\ db = [r \in Clients |-> 0]
    /\ at = [r \in Clients |-> "idle"]
    /\ aimed = [r \in Clients |-> {}]
    /\ missed = FALSE

(* Mutant: one database too many. *)
Mut_select(r, d) ==
    /\ at[r] = "idle"
    /\ d \in 0 .. MAX_DB_COUNT
    /\ db' = [db EXCEPT ![r] = d]
    /\ UNCHANGED <<vars, at, aimed, missed>>

(* A number that is no database is refused and changes nothing. *)
select(r, d) ==
    /\ at[r] = "idle"
    /\ d \in Databases
    /\ db' = [db EXCEPT ![r] = d]
    /\ UNCHANGED <<vars, at, aimed, missed>>

(* SET of a key that is a session, on db 0: one task sends to it.  LOADS   *)
(* is called as a method, self.LOADS(value): json.loads gets two           *)
(* arguments and raises, which handle_stream answers by ending the         *)
(* connection; so does a value that LOADS cannot decode.                   *)
SetSends(r, s) ==
    /\ ~DefaultLoads
    /\ \E t \in Senders : ScheduleSend(t, s)
    /\ UNCHANGED clientVars

SetRaises(r, decodes) ==
    /\ DefaultLoads \/ ~decodes
    /\ at' = [at EXCEPT ![r] = "gone"]
    /\ missed' = (missed \/ decodes)
    /\ UNCHANGED <<vars, db, aimed>>

(* SET answers OK without doing anything on db 1, or without a session. *)
SetIgnores(r, key, decodes) ==
    /\ missed' = (missed \/ (decodes /\ get(db[r], key) # {}))
    /\ UNCHANGED <<vars, db, at, aimed>>

set(r, key, decodes) ==
    /\ at[r] = "idle"
    /\ IF db[r] = 0 /\ get(0, key) # {}
       THEN (decodes /\ SetSends(r, key)) \/ SetRaises(r, decodes)
       ELSE SetIgnores(r, key, decodes)

(* Mutant: the session is also taken out of the directory at once. *)
Mut_delete(r, key) ==
    /\ at[r] = "idle"
    /\ get(db[r], key) # {}
    /\ IF db[r] = 0
       THEN cleanup_session(key) /\ UNCHANGED <<currentUser, open, pc, escaped, sendVars, closers, dropped>>
       ELSE DeleteUser(key)
    /\ at' = [at EXCEPT ![r] = "deleting"]
    /\ aimed' = [aimed EXCEPT ![r] = get(db[r], key)]
    /\ UNCHANGED <<db, missed>>

(* close() of one session runs at once up to its await; those of a user    *)
(* become tasks of gather().  A key with nothing behind it is answered     *)
(* at once: 0 on db 0, 1 on db 1.                                          *)
delete(r, key) ==
    /\ at[r] = "idle"
    /\ get(db[r], key) # {}
    /\ IF db[r] = 0 THEN CloseSession(key) ELSE DeleteUser(key)
    /\ at' = [at EXCEPT ![r] = "deleting"]
    /\ aimed' = [aimed EXCEPT ![r] = get(db[r], key)]
    /\ UNCHANGED <<db, missed>>

(* Mutant: DEL does not wait for the tasks it made. *)
Mut_DeleteReturns(r) ==
    /\ at[r] = "deleting"
    /\ at' = [at EXCEPT ![r] = "idle"]
    /\ aimed' = [aimed EXCEPT ![r] = {}]
    /\ UNCHANGED <<vars, db, missed>>

(* Every close() that DEL awaits has returned. *)
DeleteReturns(r) ==
    /\ at[r] = "deleting"
    /\ aimed[r] \cap closers = {}
    /\ at' = [at EXCEPT ![r] = "idle"]
    /\ aimed' = [aimed EXCEPT ![r] = {}]
    /\ UNCHANGED <<vars, db, missed>>

(* The connection ends, or was ended, and the client opens another one. *)
Reconnect(r) ==
    /\ at[r] \in {"idle", "gone"}
    /\ at' = [at EXCEPT ![r] = "idle"]
    /\ db' = [db EXCEPT ![r] = 0]
    /\ UNCHANGED <<vars, aimed, missed>>

Client(r) ==
    \/ \E d \in 0 .. MAX_DB_COUNT : select(r, d)
    \/ \E key \in Keys(db[r]) :
        \/ \E decodes \in BOOLEAN : set(r, key, decodes)
        \/ delete(r, key)
    \/ DeleteReturns(r)
    \/ Reconnect(r)

(* A session object that a DEL still holds is not reused. *)
AppStep ==
    /\ \/ \E s \in Sessions :
            \/ Handler(s) /\ (pc[s] = "done" => s \notin UNION Range(aimed))
            \/ Others(s)
       \/ \E t \in Senders : Sender(t)
    /\ UNCHANGED clientVars

ServerNext ==
    \/ AppStep
    \/ \E r \in Clients : Client(r)

ServerSpec == ServerInit /\ [][ServerNext]_serverVars

-----------------------------------------------------------------------------
(* Type invariant of the variables that this module adds. *)
ServerTypeOK ==
    /\ db \in [Clients -> Databases]
    /\ at \in [Clients -> {"idle", "deleting", "gone"}]
    /\ aimed \in [Clients -> SUBSET Sessions]
    /\ missed \in BOOLEAN

(* The commands agree with each other at every instant: KEYS lists a key   *)
(* exactly if GET describes it, and a session that GET describes under a   *)
(* user on db 1 is one that GET finds on db 0, with that user.             *)
ReadersAgree ==
    /\ \A d \in Databases : \A key \in Keys(d) : key \in scan(d) <=> get(d, key) # {}
    /\ \A u \in Users \ FalsyUsers : \A s \in get(1, u) :
        get(0, s) # {} /\ currentUser[s] = u

(* By the time DEL is answered, no session that it found is open any more, *)
(* whoever evicted, closed or renamed it while DEL waited.                 *)
AnsweredDelHasClosed ==
    [][\A r \in Clients :
        at[r] = "deleting" /\ at'[r] # "deleting" => aimed[r] \cap open = {}]_serverVars

(* Redis clients do to the sessions only what WebsocketApp has an action   *)
(* for, so that whatever is proved of its Spec holds of the whole node.    *)
AppSpec == Spec

(* What the docs say of SET: the value is sent to the session that the key *)
(* names on db 0, and to every session of the user on db 1.                *)
SetReachesItsTargets == ~missed

=============================================================================
