---------------------------- MODULE NodeLifecycle ----------------------------
(***************************************************************************)
(* PorkPepperNode (node.py): start, stop and serve of the nodes of one     *)
(* process, await by await.  Any await may raise: an address is in use,    *)
(* the application's startup fails, or the caller's task is cancelled.     *)
(* Each node has at most one of the three calls running.                   *)
(*                                                                         *)
(* The hooks on_start and on_shutdown never suspend in the classes of this *)
(* repository; HookAtStart and HookAtEnd name the steps that they are part *)
(* of, for the module that composes this one with what the hooks do.       *)
(***************************************************************************)

CONSTANTS
    Nodes       \* node objects of the process

VARIABLES
    call,       \* the call that runs on a node: "none", "start", "stop", "serve"
    pc,         \* the await it is at
    listening,  \* listening sockets: <<node, "web" or "redis", who can close it>>
    outcome,    \* history: how the last call on the node ended
    startEvent, \* nodes whose start_event is set
    stopEvent   \* nodes whose stop_event is set

lifeVars == <<call, pc, listening, outcome, startEvent, stopEvent>>

(* Who can close a socket: stop(), through _runner and _redis_server_object; *)
(* the serve() that runs, through its locals; or nobody any more.            *)
Closers == {"held", "serve", "lost"}
Closer(n) == IF call[n] = "serve" THEN "serve" ELSE "held"

Await == {"idle", "setup", "site", "redis", "forever", "cleanup"}
Outcome == {"fresh", "up", "stopped", "served", "failed"}

LifeInit ==
    /\ call = [n \in Nodes |-> "none"]
    /\ pc = [n \in Nodes |-> "idle"]
    /\ listening = {}
    /\ outcome = [n \in Nodes |-> "fresh"]
    /\ startEvent = {}
    /\ stopEvent = {}

Goto(n, label) == pc' = [pc EXCEPT ![n] = label]

(* The attribute that held the node's socket of this kind is overwritten. *)
Overwritten(n, kind) ==
    IF <<n, kind, "held">> \in listening
    THEN (listening \ {<<n, kind, "held">>}) \cup {<<n, kind, "lost">>}
    ELSE listening

Finish(n, result) ==
    /\ Goto(n, "idle")
    /\ call' = [call EXCEPT ![n] = "none"]
    /\ outcome' = [outcome EXCEPT ![n] = result]

-----------------------------------------------------------------------------
(* start() keeps its runner in the node before it awaits anything. *)
Start(n) ==
    /\ pc[n] = "idle"
    /\ call' = [call EXCEPT ![n] = "start"]
    /\ Goto(n, "setup")
    /\ listening' = Overwritten(n, "web")
    /\ UNCHANGED <<outcome, startEvent, stopEvent>>

(* Mutant: the events of an earlier serve() stay set. *)
Mut_Serve(n) ==
    /\ pc[n] = "idle"
    /\ \A kind \in {"web", "redis"} : <<n, kind, "held">> \notin listening
    /\ call' = [call EXCEPT ![n] = "serve"]
    /\ Goto(n, "setup")
    /\ UNCHANGED <<listening, outcome, startEvent, stopEvent>>

(* serve() keeps its runner to itself.  It is not called on a node that    *)
(* start() has left listening: the two are alternatives.                   *)
Serve(n) ==
    /\ pc[n] = "idle"
    /\ \A kind \in {"web", "redis"} : <<n, kind, "held">> \notin listening
    /\ call' = [call EXCEPT ![n] = "serve"]
    /\ Goto(n, "setup")
    /\ startEvent' = startEvent \ {n}
    /\ stopEvent' = stopEvent \ {n}
    /\ UNCHANGED <<listening, outcome>>

SetupReturns(n, enableWebsocket) ==
    /\ pc[n] = "setup"
    /\ Goto(n, IF enableWebsocket THEN "site" ELSE "redis")
    /\ UNCHANGED <<call, listening, outcome, startEvent, stopEvent>>

(* In serve() this await stands before the try statement. *)
SetupFails(n) ==
    /\ pc[n] = "setup"
    /\ Finish(n, "failed")
    /\ UNCHANGED <<listening, startEvent, stopEvent>>

SiteReturns(n) ==
    /\ pc[n] = "site"
    /\ listening' = listening \cup {<<n, "web", Closer(n)>>}
    /\ Goto(n, "redis")
    /\ UNCHANGED <<call, outcome, startEvent, stopEvent>>

(* start() leaves what it has, serve() goes to its finally clause. *)
BindFails(n) ==
    /\ pc[n] \in {"site", "redis"}
    /\ IF call[n] = "serve" THEN Goto(n, "cleanup") /\ UNCHANGED <<call, outcome>>
       ELSE Finish(n, "failed")
    /\ UNCHANGED <<listening, startEvent, stopEvent>>

(* Mutant: serve() is not told that the server listens. *)
Mut_Serves(n) ==
    /\ pc[n] = "redis"
    /\ call[n] = "serve"
    /\ listening' = listening \cup {<<n, "redis", "serve">>}
    /\ Goto(n, "forever")
    /\ UNCHANGED <<call, outcome, startEvent, stopEvent>>

(* The redis server listens: start() returns, serve() sets start_event. *)
StartReturns(n) ==
    /\ pc[n] = "redis"
    /\ call[n] = "start"
    /\ listening' = Overwritten(n, "redis") \cup {<<n, "redis", "held">>}
    /\ Finish(n, "up")
    /\ UNCHANGED <<startEvent, stopEvent>>

Serves(n) ==
    /\ pc[n] = "redis"
    /\ call[n] = "serve"
    /\ listening' = listening \cup {<<n, "redis", "serve">>}
    /\ startEvent' = startEvent \cup {n}
    /\ Goto(n, "forever")
    /\ UNCHANGED <<call, outcome, stopEvent>>

(* serve_forever() ends by cancellation; "async with" closes the server. *)
ServeBreaks(n) ==
    /\ pc[n] = "forever"
    /\ listening' = listening \ {<<n, "redis", "serve">>}
    /\ Goto(n, "cleanup")
    /\ UNCHANGED <<call, outcome, startEvent, stopEvent>>

(* Mutant: the redis server is forgotten without being closed. *)
Mut_Stop(n) ==
    /\ pc[n] = "idle"
    /\ call' = [call EXCEPT ![n] = "stop"]
    /\ Goto(n, "cleanup")
    /\ UNCHANGED <<listening, outcome, startEvent, stopEvent>>

Stop(n) ==
    /\ pc[n] = "idle"
    /\ call' = [call EXCEPT ![n] = "stop"]
    /\ Goto(n, "cleanup")
    /\ listening' = listening \ {<<n, "redis", "held">>}
    /\ UNCHANGED <<outcome, startEvent, stopEvent>>

(* Mutant: the runner is forgotten and not cleaned up. *)
Mut_CleanupReturns(n) ==
    /\ pc[n] = "cleanup"
    /\ listening' = Overwritten(n, "web")
    /\ Finish(n, IF call[n] = "serve" THEN "served" ELSE "stopped")
    /\ stopEvent' = IF call[n] = "serve" THEN stopEvent \cup {n} ELSE stopEvent
    /\ UNCHANGED startEvent

(* runner.cleanup() returned: the end of stop(), or of serve(). *)
CleanupReturns(n) ==
    /\ pc[n] = "cleanup"
    /\ listening' = listening \ {<<n, "web", Closer(n)>>}
    /\ Finish(n, IF call[n] = "serve" THEN "served" ELSE "stopped")
    /\ stopEvent' = IF call[n] = "serve" THEN stopEvent \cup {n} ELSE stopEvent
    /\ UNCHANGED startEvent

(* It raised, or the task was cancelled again, before or after the web     *)
(* socket was closed.  The node keeps its runner, serve() does not.        *)
CleanupFails(n) ==
    /\ pc[n] = "cleanup"
    /\ \/ listening' = listening \ {<<n, "web", Closer(n)>>}
       \/ IF call[n] = "serve" /\ <<n, "web", "serve">> \in listening
          THEN listening' = (listening \ {<<n, "web", "serve">>}) \cup {<<n, "web", "lost">>}
          ELSE UNCHANGED listening
    /\ Finish(n, "failed")
    /\ UNCHANGED <<startEvent, stopEvent>>

-----------------------------------------------------------------------------
(* The hooks run in the step that ends the await before them. *)
HookAtStart(n) == pc[n] \in {"setup", "site"} /\ pc'[n] = "redis"
HookAtEnd(n) == pc[n] = "cleanup" /\ outcome'[n] # "failed"

LifeStep(n, enableWebsocket) ==
    \/ SetupReturns(n, enableWebsocket)
    \/ SetupFails(n)
    \/ SiteReturns(n)
    \/ BindFails(n)
    \/ StartReturns(n)
    \/ Serves(n)
    \/ ServeBreaks(n)
    \/ Stop(n)
    \/ CleanupReturns(n)
    \/ CleanupFails(n)

=============================================================================
