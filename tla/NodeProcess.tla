----------------------------- MODULE NodeProcess -----------------------------
(***************************************************************************)
(* Several nodes of one class in one process: RedisServiceNode, whose      *)
(* start() and serve() begin with the service map, or SimpleMonitorNode,   *)
(* whose hooks start and cancel the monitor tasks.  Nodes share nothing    *)
(* but what their class holds.                                             *)
(***************************************************************************)
EXTENDS NodeLifecycle, ServiceRegistry, MonitorTasks

CONSTANTS
    StartMaps,      \* service maps that start() and serve() are given
    ServeNodes      \* bound: nodes on which serve() is called; start() is on all

ASSUME ProcessAssumption ==
    /\ Servers = Nodes
    /\ Monitors = Nodes
    /\ StartMaps \subseteq Maps
    /\ ServeNodes \subseteq Nodes

VARIABLES
    class,          \* "service" or "monitor"
    disturbed       \* history: nodes whose class another node has changed since
                    \* they last cleared the map or started their monitor tasks

processVars == <<lifeVars, registryVars, taskVars, class, disturbed>>

Init ==
    /\ LifeInit
    /\ RegistryInit
    /\ TaskInit
    /\ class \in {"service", "monitor"}
    /\ disturbed = {}

OthersDisturbed(n) == disturbed' = disturbed \cup (Nodes \ {n})
OnlyOthersDisturbed(n) == disturbed' = Nodes \ {n}

Called(n) == Start(n) \/ (n \in ServeNodes /\ Serve(n))

-----------------------------------------------------------------------------
(* RedisServiceNode *)

(* The map is registered before anything of the node is started; if it is  *)
(* refused, nothing is.                                                    *)
StartWith(n, map) ==
    /\ class = "service"
    /\ initialize_service_map(n, map)
    /\ IF map = EmptyMap THEN OnlyOthersDisturbed(n) ELSE OthersDisturbed(n)
    /\ IF Refused(map) THEN pc[n] = "idle" /\ UNCHANGED lifeVars
       ELSE Called(n)
    /\ UNCHANGED <<taskVars, class>>

(* Services are replaced while the node runs, or before, or after. *)
Replace(n, d, svc) ==
    /\ class = "service"
    /\ svc \notin BadServices
    /\ update_service(n, [EmptyMap EXCEPT ![d] = svc])
    /\ OthersDisturbed(n)
    /\ UNCHANGED <<lifeVars, taskVars, class>>

ServiceStep(n) ==
    /\ class = "service"
    /\ LifeStep(n, FALSE)
    /\ UNCHANGED <<registryVars, taskVars, class, disturbed>>

-----------------------------------------------------------------------------
(* SimpleMonitorNode *)

MonitorStart(n) ==
    /\ class = "monitor"
    /\ Called(n)
    /\ UNCHANGED <<registryVars, taskVars, class, disturbed>>

MonitorStep(n) ==
    /\ class = "monitor"
    /\ LifeStep(n, TRUE)
    /\ IF HookAtStart(n) THEN on_start(n) /\ OnlyOthersDisturbed(n)
       ELSE IF HookAtEnd(n) THEN on_shutdown /\ OthersDisturbed(n)
       ELSE UNCHANGED <<taskVars, disturbed>>
    /\ UNCHANGED <<registryVars, class>>

Next ==
    \E n \in Nodes :
        \/ \E map \in StartMaps : StartWith(n, map)
        \/ \E d \in Databases : \E svc \in Services : Replace(n, d, svc)
        \/ ServiceStep(n)
        \/ MonitorStart(n)
        \/ MonitorStep(n)

(* Every await of start, stop and serve but serve_forever() ends. *)
Fairness ==
    \A n \in Nodes : WF_processVars(
        (ServiceStep(n) \/ MonitorStep(n)) /\ pc[n] \in {"setup", "site", "redis", "cleanup"})

Spec == Init /\ [][Next]_processVars
FairSpec == Spec /\ Fairness

-----------------------------------------------------------------------------
(* Type invariant of the composition. *)
TypeOK ==
    /\ call \in [Nodes -> {"none", "start", "stop", "serve"}]
    /\ pc \in [Nodes -> Await]
    /\ listening \subseteq Nodes \X {"web", "redis"} \X Closers
    /\ outcome \in [Nodes -> Outcome]
    /\ startEvent \subseteq Nodes
    /\ stopEvent \subseteq Nodes
    /\ serviceMap \in Maps
    /\ maxDbCount \in [Nodes -> 0 .. MaxDatabase + 1]
    /\ registered \in [Nodes -> Maps]
    /\ taskList \subseteq Nodes
    /\ polling \subseteq Nodes
    /\ class \in {"service", "monitor"}
    /\ disturbed \subseteq Nodes

(* What a stop() that has returned leaves behind: no socket that the node  *)
(* still knew of and no monitor task, after any failures and restarts.     *)
StoppedIsQuiet ==
    \A n \in Nodes : outcome[n] = "stopped" /\ pc[n] = "idle" =>
        /\ \A kind \in {"web", "redis"} : <<n, kind, "held">> \notin listening
        /\ n \notin polling

(* Who waits for stop_event may bind the addresses again: no serve() runs  *)
(* and none has left a socket that it would still have closed.             *)
StopEventMeansReleased ==
    \A n \in Nodes : n \in stopEvent =>
        /\ call[n] # "serve"
        /\ \A kind \in {"web", "redis"} : <<n, kind, "serve">> \notin listening

(* A socket that nobody can close any more comes from a serve() whose      *)
(* cleanup failed, or from a start() of a node that had not been stopped   *)
(* after one that succeeded or failed; never from stop().                  *)
OnlyRestartsLose ==
    [][\A n \in Nodes : \A kind \in {"web", "redis"} :
        <<n, kind, "lost">> \in listening' /\ <<n, kind, "lost">> \notin listening =>
            \/ outcome[n] \in {"up", "failed"} /\ "start" \in {call[n], call'[n]}
            \/ call[n] = "serve" /\ outcome'[n] = "failed"]_processVars

(* A monitor task that runs can be cancelled: the list has it. *)
NoStrayMonitor == polling \subseteq taskList

(* A monitor node that is up polls, unless another monitor node of the     *)
(* process has reached one of its hooks since, even in a start that failed. *)
UpIsPolling ==
    \A n \in Nodes : class = "monitor" /\ outcome[n] = "up" /\ n \notin disturbed =>
        n \in polling

(* A service node offers exactly what it has itself registered, unless     *)
(* another node of the process has registered or cleared something since.  *)
OffersWhatItRegistered ==
    \A n \in Nodes : class = "service" /\ n \notin disturbed =>
        \A d \in Databases : lookup(n, d) = registered[n][d]

(* serve() is heard of: it sets start_event or stop_event, unless it fails *)
(* in the set-up, which stands before its try statement, or in its cleanup. *)
ServeIsReported ==
    \A n \in Nodes :
        call[n] = "serve" ~>
            \/ n \in startEvent \cup stopEvent
            \/ outcome[n] = "failed" /\ call[n] # "serve"

=============================================================================
