--------------------------- MODULE RedisConnection ---------------------------
(***************************************************************************)
(* The redis side of a node: RedisServerBase.handle_stream                 *)
(* (redis_server_base.py), one coroutine for each client connection, and   *)
(* RedisTaskNode (redis_task_node.py), which reads one request, names the  *)
(* server method that runs it and writes its reply.  The connections share *)
(* the server's set of connections, which starting the node again empties  *)
(* while connections accepted before that are still being served.          *)
(*                                                                         *)
(* The server methods are abstracted to what they may return: Results      *)
(* gives, for each command, the kinds of result that write_result tells    *)
(* apart.  Keys, values and the text of the replies are left out.          *)
(***************************************************************************)
EXTENDS Naturals

CONSTANTS
    Connections,    \* connection slots; a slot is reused when its handler has ended
    EnableAuth,     \* ENABLE_AUTH of the server class
    Commands,       \* the commands the clients send
    Results,        \* for each command, the kinds of result its method returns
    MaxOwed         \* bound: unanswered requests on a connection before it stops reading

(* The commands RedisTaskNode.create knows; NOOP stands for all the others. *)
AllCommands == {"AUTH", "CONFIG", "INFO", "SELECT", "DBSIZE", "PING", "SET", "GETSET",
                "GET", "TYPE", "TTL", "SCAN", "KEYS", "DEL", "NOOP"}

(* A Result holds a value the codec can write, None, a false value, a      *)
(* value the codec refuses or an error; or the method itself raised.       *)
Kinds == {"value", "nil", "false", "badtype", "error", "raised"}

ASSUME ServerAssumption ==
    /\ EnableAuth \in BOOLEAN
    /\ Commands \subseteq AllCommands
    /\ Results \in [AllCommands -> SUBSET Kinds]
    /\ MaxOwed \in Nat

VARIABLES
    server,         \* where PorkPepperNode.start and stop are
    connections,    \* the server's set of connections
    stale,          \* connections accepted before the set was last emptied
    pc,             \* where a connection's handle_stream is
    command,        \* the command of its current RedisTaskNode
    result,         \* the node's result
    needAuth,       \* connections whose need_auth_event is set
    lastAuth,       \* what auth() said last time it was asked on this connection
    owed,           \* requests read and not answered on this connection
    silent,         \* clients that send nothing any more
    deaf            \* clients that read nothing any more

vars == <<server, connections, stale, pc, command, result, needAuth, lastAuth,
          owed, silent, deaf>>

nodeVars == <<server, connections, stale>>
clientVars == <<silent, deaf>>
authVars == <<needAuth, lastAuth>>

-----------------------------------------------------------------------------
(* Mutant: delete() returns a bool, which set_integer refuses. *)
Mut_SocketResults ==
    [c \in AllCommands |->
        CASE c \in {"AUTH", "GETSET"} -> {"error"}
          [] c \in {"CONFIG", "SELECT"} -> {"value", "error"}
          [] c = "SET" -> {"value", "raised"}
          [] c = "GET" -> {"value", "nil"}
          [] c = "DEL" -> {"badtype"}
          [] OTHER -> {"value"}]

(* The methods of SocketBasedRedisServer (design.py).  GETSET is not       *)
(* supported, AUTH is an error as long as there is no password, and SET    *)
(* raises when it finds the session of its key on db 0.                    *)
SocketResults ==
    [c \in AllCommands |->
        CASE c \in {"AUTH", "GETSET"} -> {"error"}
          [] c \in {"CONFIG", "SELECT"} -> {"value", "error"}
          [] c = "SET" -> {"value", "raised"}
          [] c = "GET" -> {"value", "nil"}
          [] OTHER -> {"value"}]

(* A subclass of it that overrides password. *)
PasswordResults == [SocketResults EXCEPT !["AUTH"] = {"value", "false"}]

(* The methods of ServiceBasedRedisServer with json for LOADS and DUMPS:   *)
(* the stub of RedisServerBase for AUTH and DEL, and errors for databases  *)
(* and keys that do not exist and services that raise.                     *)
ServiceResults ==
    [c \in AllCommands |->
        CASE c \in {"AUTH", "DEL"} -> {"error"}
          [] c = "GET" -> {"value", "nil", "error"}
          [] c \in {"CONFIG", "SELECT", "SET", "GETSET", "SCAN", "KEYS", "DBSIZE"} ->
               {"value", "error"}
          [] OTHER -> {"value"}]

-----------------------------------------------------------------------------
(* RedisTaskNode.create: how many words each command takes, itself included. *)
ArityOK(c, n) ==
    CASE c \in {"AUTH", "INFO", "PING", "NOOP"} -> TRUE
      [] c = "CONFIG" -> n = 3
      [] c = "DBSIZE" -> n = 1
      [] c \in {"SET", "GETSET"} -> n >= 3
      [] c \in {"SCAN", "KEYS"} -> n >= 2 /\ n % 2 = 0
      [] OTHER -> n = 2

(* Values that set_binary, set_integer and set_ok refuse. *)
NotWritable == {"nil", "false", "badtype"}

(* RedisTaskNode.write_result: the results it returns from without writing. *)
Silent(c, r) ==
    \/ r = "error" /\ c \in {"PING", "TTL", "DEL"}
    \/ r \in NotWritable /\ c \in {"INFO", "DBSIZE", "PING", "TYPE", "TTL", "DEL"}
    \/ r \in NotWritable \ {"nil"} /\ c \in {"GET", "GETSET"}

(* The results on which it raises, with part of the reply written or none. *)
Breaks(c, r) ==
    \/ r = "error" /\ c = "INFO"
    \/ r \in NotWritable /\ c \in {"CONFIG", "SCAN", "KEYS"}

-----------------------------------------------------------------------------
HandlerState == {"none", "read", "call", "write", "drain", "closing"}
Live == {c \in Connections : pc[c] # "none"}

Init ==
    /\ server = "stopped"
    /\ connections = {}
    /\ stale = {}
    /\ pc = [c \in Connections |-> "none"]
    /\ command = [c \in Connections |-> "NOOP"]
    /\ result = [c \in Connections |-> "nil"]
    /\ needAuth = {}
    /\ lastAuth = [c \in Connections |-> "none"]
    /\ owed = [c \in Connections |-> 0]
    /\ silent = {}
    /\ deaf = {}

(* Mutant: the connections are kept. *)
Mut_init_property ==
    /\ stale' = Live
    /\ UNCHANGED connections

(* The server's set of connections is replaced by an empty one. *)
init_property ==
    /\ connections' = {}
    /\ stale' = Live

(* PorkPepperNode.start: init_property() comes first; the web runner and   *)
(* on_start() are awaited before the server listens.  start() does not ask *)
(* whether the node runs: called again it empties the set just the same,   *)
(* and the node goes on listening, whether the second call succeeds or     *)
(* finds the address in use.                                               *)
Start ==
    /\ server # "starting"
    /\ server' = IF server = "listening" THEN "listening" ELSE "starting"
    /\ init_property
    /\ UNCHANGED <<pc, command, result, authVars, owed, clientVars>>

(* start_server() succeeds, or something on the way raises. *)
Serve ==
    /\ server = "starting"
    /\ server' \in {"listening", "stopped"}
    /\ UNCHANGED <<connections, stale, pc, command, result, authVars, owed, clientVars>>

(* PorkPepperNode.stop closes the listening socket, not the connections. *)
Stop ==
    /\ server = "listening"
    /\ server' = "stopped"
    /\ UNCHANGED <<connections, stale, pc, command, result, authVars, owed, clientVars>>

-----------------------------------------------------------------------------
Goto(c, label) == pc' = [pc EXCEPT ![c] = label]

(* handle_stream starts: its own event, set if the class wants AUTH first. *)
Accept(c) ==
    /\ server = "listening"
    /\ pc[c] = "none"
    /\ Goto(c, "read")
    /\ connections' = connections \cup {c}
    /\ needAuth' = IF EnableAuth THEN needAuth \cup {c} ELSE needAuth \ {c}
    /\ lastAuth' = [lastAuth EXCEPT ![c] = "none"]
    /\ owed' = [owed EXCEPT ![c] = 0]
    /\ UNCHANGED <<server, stale, command, result, clientVars>>

(* Mutant: requests are let through while AUTH is needed. *)
Mut_ReadRequest(c, cmd, n) ==
    /\ pc[c] = "read"
    /\ c \notin silent
    /\ owed[c] < MaxOwed
    /\ owed' = [owed EXCEPT ![c] = @ + 1]
    /\ command' = [command EXCEPT ![c] = cmd]
    /\ Goto(c, IF cmd = "NOOP" THEN "write" ELSE IF ArityOK(cmd, n) THEN "call" ELSE "closing")
    /\ result' = [result EXCEPT ![c] = "error"]
    /\ UNCHANGED <<nodeVars, authVars, clientVars>>

(* A request of n words has been read: AUTH is always taken; any other     *)
(* request of a connection that needs AUTH becomes an AUTH node that has   *)
(* its error already; an unknown command becomes a NOOP node; and a        *)
(* request of the wrong length ends the connection without a reply.        *)
ReadRequest(c, cmd, n) ==
    /\ pc[c] = "read"
    /\ c \notin silent
    /\ owed[c] < MaxOwed
    /\ owed' = [owed EXCEPT ![c] = @ + 1]
    /\ LET refused == cmd # "AUTH" /\ c \in needAuth
       IN /\ command' = [command EXCEPT ![c] = IF refused THEN "AUTH" ELSE cmd]
          /\ Goto(c, IF refused \/ cmd = "NOOP" THEN "write"
                     ELSE IF ArityOK(cmd, n) THEN "call" ELSE "closing")
    /\ result' = [result EXCEPT ![c] = "error"]
    /\ UNCHANGED <<nodeVars, authVars, clientVars>>

(* Mutant: a handler that waits for a request for too long stays. *)
Mut_ReadFails(c) ==
    /\ pc[c] = "read"
    /\ c \notin silent
    /\ Goto(c, "closing")
    /\ UNCHANGED <<nodeVars, command, result, authVars, owed, clientVars>>

(* The end of the stream, IDLE_TIMEOUT, broken framing, or an argument     *)
(* that is not utf-8 or not an integer: nothing is answered.               *)
ReadFails(c) ==
    /\ pc[c] = "read"
    /\ Goto(c, "closing")
    /\ UNCHANGED <<nodeVars, command, result, authVars, owed, clientVars>>

(* The server method returned, after any number of awaits, or raised. *)
CallReturns(c, r) ==
    /\ pc[c] = "call"
    /\ r \in Results[command[c]]
    /\ Goto(c, IF r = "raised" THEN "closing" ELSE "write")
    /\ result' = [result EXCEPT ![c] = r]
    /\ lastAuth' = IF command[c] = "AUTH" /\ r # "raised"
                   THEN [lastAuth EXCEPT ![c] = IF r \in {"value", "badtype"} THEN "accepted" ELSE "refused"]
                   ELSE lastAuth
    /\ UNCHANGED <<nodeVars, command, needAuth, owed, clientVars>>

(* Mutant: a refused AUTH leaves the event as it is. *)
Mut_write_auth(c) ==
    /\ needAuth' = IF result[c] \in {"value", "badtype"} THEN needAuth \ {c} ELSE needAuth
    /\ Goto(c, "drain")
    /\ owed' = [owed EXCEPT ![c] = @ - 1]

(* The AUTH branch always answers, and sets or clears the event. *)
write_auth(c) ==
    /\ needAuth' = IF result[c] \in {"value", "badtype"} THEN needAuth \ {c} ELSE needAuth \cup {c}
    /\ Goto(c, "drain")
    /\ owed' = [owed EXCEPT ![c] = @ - 1]

(* Mutant: after writing an error the branch goes on to write the result. *)
Mut_write_other(c) ==
    /\ owed' = [owed EXCEPT ![c] = IF result[c] = "error" THEN @ - 2 ELSE @ - 1]
    /\ Goto(c, "drain")
    /\ UNCHANGED needAuth

(* The other branches: a reply, no reply at all, or a broken one. *)
write_other(c) ==
    LET refused == c \in needAuth
        silently == ~refused /\ Silent(command[c], result[c])
        breaks == ~refused /\ Breaks(command[c], result[c])
    IN /\ owed' = IF silently \/ breaks THEN owed ELSE [owed EXCEPT ![c] = @ - 1]
       /\ Goto(c, IF breaks THEN "closing" ELSE IF silently THEN "read" ELSE "drain")
       /\ UNCHANGED needAuth

(* The task that wait_for made for write_result runs up to its drain(). *)
WriteResult(c) ==
    /\ pc[c] = "write"
    /\ IF command[c] = "AUTH" THEN write_auth(c) ELSE write_other(c)
    /\ UNCHANGED <<nodeVars, command, result, lastAuth, clientVars>>

DrainReturns(c) ==
    /\ pc[c] = "drain"
    /\ Goto(c, "read")
    /\ UNCHANGED <<nodeVars, command, result, authVars, owed, clientVars>>

(* The client is gone, or IDLE_TIMEOUT has passed. *)
DrainFails(c) ==
    /\ pc[c] = "drain"
    /\ Goto(c, "closing")
    /\ UNCHANGED <<nodeVars, command, result, authVars, owed, clientVars>>

(* wait_closed() returned.  If init_property has replaced the set since,   *)
(* remove() raises KeyError out of the coroutine, which ends just the same. *)
HandlerEnds(c) ==
    /\ pc[c] = "closing"
    /\ Goto(c, "none")
    /\ connections' = connections \ {c}
    /\ stale' = stale \ {c}
    /\ command' = [command EXCEPT ![c] = "NOOP"]
    /\ result' = [result EXCEPT ![c] = "nil"]
    /\ silent' = silent \ {c}
    /\ deaf' = deaf \ {c}
    /\ UNCHANGED <<server, authVars, owed>>

-----------------------------------------------------------------------------
(* The clients. *)

StopsSending(c) ==
    /\ pc[c] # "none"
    /\ c \notin silent
    /\ silent' = silent \cup {c}
    /\ UNCHANGED <<nodeVars, pc, command, result, authVars, owed, deaf>>

StopsReading(c) ==
    /\ pc[c] # "none"
    /\ c \notin deaf
    /\ deaf' = deaf \cup {c}
    /\ UNCHANGED <<nodeVars, pc, command, result, authVars, owed, silent>>

Next ==
    \/ Start
    \/ Serve
    \/ Stop
    \/ \E c \in Connections :
        \/ Accept(c)
        \/ \E cmd \in Commands : \E n \in 1 .. 4 : ReadRequest(c, cmd, n)
        \/ ReadFails(c)
        \/ \E r \in Kinds : CallReturns(c, r)
        \/ WriteResult(c)
        \/ DrainReturns(c)
        \/ DrainFails(c)
        \/ HandlerEnds(c)
        \/ StopsSending(c)
        \/ StopsReading(c)

(* Every read and every write is under wait_for(IDLE_TIMEOUT); the server  *)
(* methods are assumed to return; and a closed transport is flushed as     *)
(* long as the client reads.                                               *)
Fairness ==
    \A c \in Connections :
        /\ WF_vars(ReadFails(c))
        /\ WF_vars(\E r \in Kinds : CallReturns(c, r))
        /\ WF_vars(WriteResult(c))
        /\ WF_vars(DrainFails(c))
        /\ WF_vars(HandlerEnds(c) /\ c \notin deaf)

Spec == Init /\ [][Next]_vars
FairSpec == Spec /\ Fairness

-----------------------------------------------------------------------------
(* Type invariant of the server and its connections. *)
TypeOK ==
    /\ server \in {"stopped", "starting", "listening"}
    /\ connections \subseteq Connections
    /\ stale \subseteq Connections
    /\ pc \in [Connections -> HandlerState]
    /\ command \in [Connections -> AllCommands]
    /\ result \in [Connections -> Kinds]
    /\ needAuth \subseteq Connections
    /\ lastAuth \in [Connections -> {"none", "accepted", "refused"}]
    /\ owed \in [Connections -> Nat]
    /\ silent \subseteq Connections
    /\ deaf \subseteq Connections

(* connected_clients counts the live connections accepted since the node   *)
(* was last started, each once, and nothing else; so only a connection     *)
(* from before a restart meets KeyError at its end.                        *)
ConnectionsExact == connections = Live \ stale

(* A command other than AUTH runs only on a connection whose last AUTH was *)
(* accepted, or that was never refused on a server that does not ask.      *)
AuthGate ==
    \A c \in Connections :
        pc[c] = "call" /\ command[c] # "AUTH" =>
            \/ lastAuth[c] = "accepted"
            \/ lastAuth[c] = "none" /\ ~EnableAuth

(* write_result never has to refuse a command that create let through and  *)
(* that has run by then: its NOAUTH branch is dead.                        *)
NoLateRefusal ==
    \A c \in Connections : pc[c] = "write" /\ command[c] # "AUTH" => c \notin needAuth

(* Replies stay in step with requests: whenever a connection reads its     *)
(* next request, every earlier one has been answered, so that a client     *)
(* that pipelines or reuses the connection reads the reply to its own      *)
(* request.                                                                *)
RepliesInStep ==
    \A c \in Connections : pc[c] = "read" => owed[c] = 0

(* A client that sends nothing any more is disconnected, unless it does    *)
(* not take the bytes it was sent either.                                  *)
SilentClientLeaves ==
    \A c \in Connections : c \in silent ~> (pc[c] = "none" \/ c \in deaf)

=============================================================================
