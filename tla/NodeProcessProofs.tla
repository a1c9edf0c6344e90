-------------------------- MODULE NodeProcessProofs --------------------------
(***************************************************************************)
(* Theorems about NodeProcess, for any number of nodes, databases and      *)
(* services.  The lifecycle, the monitor tasks and the registry each have  *)
(* an invariant of their own; together they are inductive.                 *)
(***************************************************************************)
EXTENDS NodeProcess, TLAPS

LifeTypeOK ==
    /\ call \in [Nodes -> {"none", "start", "stop", "serve"}]
    /\ pc \in [Nodes -> Await]
    /\ listening \subseteq Nodes \X {"web", "redis"} \X Closers
    /\ outcome \in [Nodes -> Outcome]
    /\ startEvent \subseteq Nodes
    /\ stopEvent \subseteq Nodes

(* Which await belongs to which call. *)
CallInv ==
    \A n \in Nodes :
        /\ pc[n] = "idle" <=> call[n] = "none"
        /\ call[n] = "start" => pc[n] \in {"setup", "site", "redis"}
        /\ call[n] = "stop" => pc[n] = "cleanup"
        /\ pc[n] = "forever" => call[n] = "serve"

(* Which sockets there can be at which await, and after which outcome. *)
SocketInv ==
    \A n \in Nodes :
        /\ <<n, "redis", "serve">> \in listening => pc[n] = "forever"
        /\ <<n, "web", "serve">> \in listening =>
               call[n] = "serve" /\ pc[n] \in {"redis", "forever", "cleanup"}
        /\ <<n, "redis", "held">> \in listening =>
               outcome[n] \in {"up", "failed"} /\ call[n] \in {"none", "start"}
        /\ <<n, "web", "held">> \in listening =>
               /\ call[n] # "serve"
               /\ pc[n] # "redis" => outcome[n] \in {"up", "failed"}
        /\ n \in stopEvent => call[n] # "serve"

LifeInv == LifeTypeOK /\ CallInv /\ SocketInv

LifeNext == \E n \in Nodes : Start(n) \/ Serve(n) \/ \E b \in BOOLEAN : LifeStep(n, b)

-----------------------------------------------------------------------------
(* start(), stop() and serve() of node.py keep what is known of every node's life. *)
LEMMA LifeLemma ==
    ASSUME LifeInv, LifeNext
    PROVE  LifeInv'
<1> USE DEF Goto, Finish, Overwritten, Closer, LifeInv, LifeTypeOK, CallInv, SocketInv, Await, Outcome, Closers
<1>1. ASSUME NEW n \in Nodes, Start(n)
      PROVE  LifeInv'
  BY <1>1 DEF Start
<1>2. ASSUME NEW n \in Nodes, Serve(n)
      PROVE  LifeInv'
  <2>1. <<n, "web", "held">> \notin listening /\ <<n, "redis", "held">> \notin listening
    BY <1>2 DEF Serve
  <2>2. <<n, "web", "serve">> \notin listening /\ <<n, "redis", "serve">> \notin listening
    BY <1>2 DEF Serve
  <2>3. LifeTypeOK' /\ CallInv'
    BY <1>2 DEF Serve
  <2>4. SocketInv'
    BY <1>2, <2>1, <2>2 DEF Serve
  <2> QED BY <2>3, <2>4
<1>3. ASSUME NEW n \in Nodes, NEW b \in BOOLEAN, SetupReturns(n, b)
      PROVE  LifeInv'
  BY <1>3 DEF SetupReturns
<1>4. ASSUME NEW n \in Nodes, SetupFails(n)
      PROVE  LifeInv'
  BY <1>4 DEF SetupFails
<1>5. ASSUME NEW n \in Nodes, SiteReturns(n)
      PROVE  LifeInv'
  BY <1>5 DEF SiteReturns
<1>6. ASSUME NEW n \in Nodes, BindFails(n)
      PROVE  LifeInv'
  BY <1>6 DEF BindFails
<1>7. ASSUME NEW n \in Nodes, StartReturns(n)
      PROVE  LifeInv'
  BY <1>7 DEF StartReturns
<1>8. ASSUME NEW n \in Nodes, Serves(n)
      PROVE  LifeInv'
  BY <1>8 DEF Serves
<1>9. ASSUME NEW n \in Nodes, ServeBreaks(n)
      PROVE  LifeInv'
  BY <1>9 DEF ServeBreaks
<1>10. ASSUME NEW n \in Nodes, Stop(n)
      PROVE  LifeInv'
  BY <1>10 DEF Stop
<1>11. ASSUME NEW n \in Nodes, CleanupReturns(n)
      PROVE  LifeInv'
  BY <1>11 DEF CleanupReturns
<1>12. ASSUME NEW n \in Nodes, CleanupFails(n)
      PROVE  LifeInv'
  BY <1>12 DEF CleanupFails
<1> QED BY <1>1, <1>2, <1>3, <1>4, <1>5, <1>6, <1>7, <1>8, <1>9, <1>10, <1>11, <1>12
        DEF LifeNext, LifeStep

-----------------------------------------------------------------------------
(* The list names the tasks that run; a monitor node that is up, or about  *)
(* to be, polls if nobody disturbed it, and one that was stopped does not. *)
TaskInv ==
    /\ taskList \subseteq Nodes
    /\ polling = taskList
    /\ class = "service" => polling = {}
    /\ \A n \in Nodes :
        /\ /\ class = "monitor"
           /\ outcome[n] = "up" \/ pc[n] = "redis"
           /\ n \notin disturbed
           => n \in polling
        /\ outcome[n] = "stopped" /\ pc[n] = "idle" => n \notin polling

(* A node that nobody disturbed registered all that there is, and knows    *)
(* that many databases.                                                    *)
RegistryInv ==
    /\ serviceMap \in Maps
    /\ maxDbCount \in [Nodes -> 0 .. MaxDatabase + 1]
    /\ registered \in [Nodes -> Maps]
    /\ \A n \in Nodes : \A d \in Databases :
        /\ registered[n][d] # NoService => d < maxDbCount[n]
        /\ class = "service" /\ n \notin disturbed => serviceMap[d] = registered[n][d]

IInv ==
    /\ class \in {"service", "monitor"}
    /\ disturbed \subseteq Nodes
    /\ LifeInv
    /\ TaskInv
    /\ RegistryInv

(* A process in which no node has been started satisfies the invariant. *)
LEMMA InitLemma == Init => IInv
<1> SUFFICES ASSUME Init PROVE IInv
  OBVIOUS
<1> USE ProcessAssumption, RegistryAssumption
<1>1. LifeInv
  BY DEF Init, LifeInit, LifeInv, LifeTypeOK, CallInv, SocketInv, Await, Outcome
<1>2. TaskInv
  BY DEF Init, LifeInit, TaskInit, TaskInv
<1>3. RegistryInv
  BY DEF Init, RegistryInit, RegistryInv, EmptyMap, Maps, Databases
<1> QED BY <1>1, <1>2, <1>3 DEF Init, IInv

(* Registering more services keeps a node in agreement with its own list. *)
LEMMA UpdateLemma ==
    ASSUME RegistryInv, class = "service", UNCHANGED class,
           NEW n \in Nodes, NEW new \in Maps, update_service(n, new), OthersDisturbed(n)
    PROVE  RegistryInv'
<1> USE ProcessAssumption, RegistryAssumption
<1> DEFINE counts == {maxDbCount[n]} \cup {d + 1 : d \in Keys(new)}
<1>1. PICK m \in counts :
        /\ \A k \in counts : k <= m
        /\ maxDbCount' = [maxDbCount EXCEPT ![n] = m]
  BY DEF update_service
<1>2. counts \subseteq 0 .. MaxDatabase + 1
  BY DEF RegistryInv, Keys, Databases
<1>3. maxDbCount' \in [Nodes -> 0 .. MaxDatabase + 1]
  BY <1>1, <1>2 DEF RegistryInv
<1>4. ASSUME NEW map \in Maps
      PROVE  Over(map, new) \in Maps
  BY DEF Over, Maps
<1>5. serviceMap' \in Maps /\ registered' \in [Nodes -> Maps]
  BY <1>4 DEF update_service, RegistryInv
<1>6. maxDbCount[n] <= m /\ \A d \in Keys(new) : d + 1 <= m
  BY <1>1
<1>7. ASSUME NEW r \in Nodes, NEW d \in Databases
      PROVE  /\ registered'[r][d] # NoService => d < maxDbCount'[r]
             /\ class' = "service" /\ r \notin disturbed' => serviceMap'[d] = registered'[r][d]
  <2>1. CASE r # n
    BY <1>1, <2>1 DEF RegistryInv, update_service, OthersDisturbed
  <2>2. CASE r = n
    <3>1. registered'[n][d] = IF new[d] # NoService THEN new[d] ELSE registered[n][d]
      BY DEF RegistryInv, update_service, Over
    <3>2. serviceMap'[d] = IF new[d] # NoService THEN new[d] ELSE serviceMap[d]
      BY DEF update_service, Over
    <3>3. maxDbCount'[n] = m
      BY <1>1 DEF RegistryInv
    <3>4. n \notin disturbed' => n \notin disturbed
      BY DEF OthersDisturbed
    <3>5. new[d] # NoService => d + 1 <= m
      BY <1>6 DEF Keys
    <3>6. m \in Int /\ d \in Int /\ maxDbCount[n] \in Int
      BY <1>2 DEF Databases, RegistryInv
    <3>7. registered'[n][d] # NoService => d < m
      BY <1>6, <3>1, <3>5, <3>6 DEF RegistryInv
    <3> QED BY <2>2, <3>1, <3>2, <3>3, <3>4, <3>7 DEF RegistryInv
  <2> QED BY <2>1, <2>2
<1> QED BY <1>3, <1>5, <1>7 DEF RegistryInv

(* Clearing leaves nothing to disagree about. *)
LEMMA ClearLemma ==
    ASSUME RegistryInv, class = "service", UNCHANGED class,
           NEW n \in Nodes, clear_service(n), OnlyOthersDisturbed(n)
    PROVE  RegistryInv'
<1> USE ProcessAssumption, RegistryAssumption
<1>1. EmptyMap \in Maps
  BY DEF EmptyMap, Maps
<1>2. /\ serviceMap' \in Maps
      /\ registered' \in [Nodes -> Maps]
      /\ maxDbCount' \in [Nodes -> 0 .. MaxDatabase + 1]
  BY <1>1 DEF RegistryInv, clear_service
<1>3. ASSUME NEW r \in Nodes, NEW d \in Databases
      PROVE  /\ registered'[r][d] # NoService => d < maxDbCount'[r]
             /\ class' = "service" /\ r \notin disturbed' => serviceMap'[d] = registered'[r][d]
  <2>1. CASE r # n
    BY <2>1 DEF RegistryInv, clear_service, OnlyOthersDisturbed
  <2>2. CASE r = n
    BY <2>2 DEF RegistryInv, clear_service, EmptyMap
  <2> QED BY <2>1, <2>2
<1> QED BY <1>2, <1>3 DEF RegistryInv

(* A node begins start() or serve(), without a hook: nothing polls that    *)
(* did not poll before.                                                    *)
LEMMA CalledLemma ==
    ASSUME LifeInv, TaskInv, NEW n \in Nodes, Called(n), UNCHANGED <<taskVars, class>>,
           disturbed \subseteq disturbed' \/ class = "service"
    PROVE  TaskInv'
<1>1. /\ pc' = [pc EXCEPT ![n] = "setup"]
      /\ outcome' = outcome
  BY DEF Called, Start, Serve, Goto
<1> QED BY <1>1 DEF TaskInv, LifeInv, LifeTypeOK, taskVars

(* A step inside start, stop or serve of a service node. *)
LEMMA QuietLemma ==
    ASSUME LifeInv, TaskInv, class = "service", UNCHANGED <<taskVars, class>>
    PROVE  TaskInv'
BY DEF TaskInv, taskVars

(* How a step of start, stop or serve may change the outcome and the await. *)
LEMMA StepLemma ==
    ASSUME LifeInv, NEW n \in Nodes, LifeStep(n, TRUE)
    PROVE  /\ \A r \in Nodes \ {n} : outcome'[r] = outcome[r] /\ pc'[r] = pc[r]
           /\ pc'[n] = "redis" => HookAtStart(n)
           /\ outcome'[n] = "up" => outcome[n] = "up" \/ pc[n] = "redis"
           /\ outcome'[n] = "up" /\ pc[n] = "cleanup" => FALSE
           /\ outcome'[n] = "stopped" /\ pc'[n] = "idle" => HookAtEnd(n)
           /\ HookAtStart(n) => pc'[n] # "idle"
           /\ HookAtEnd(n) => outcome'[n] # "up" /\ pc'[n] = "idle"
<1> USE DEF LifeInv, LifeTypeOK, CallInv, HookAtStart, HookAtEnd, Goto, Finish, Await, Outcome
<1>1. CASE SetupReturns(n, TRUE)
  BY <1>1 DEF SetupReturns
<1>2. CASE SetupFails(n)
  BY <1>2 DEF SetupFails
<1>3. CASE SiteReturns(n)
  BY <1>3 DEF SiteReturns
<1>4. CASE BindFails(n)
  BY <1>4 DEF BindFails
<1>5. CASE StartReturns(n)
  BY <1>5 DEF StartReturns
<1>6. CASE Serves(n)
  BY <1>6 DEF Serves
<1>7. CASE ServeBreaks(n)
  BY <1>7 DEF ServeBreaks
<1>8. CASE Stop(n)
  BY <1>8 DEF Stop
<1>9. CASE CleanupReturns(n)
  BY <1>9 DEF CleanupReturns
<1>10. CASE CleanupFails(n)
  BY <1>10 DEF CleanupFails
<1> QED BY <1>1, <1>2, <1>3, <1>4, <1>5, <1>6, <1>7, <1>8, <1>9, <1>10 DEF LifeStep

(* The hooks keep the list and the running tasks together. *)
LEMMA MonitorLemma ==
    ASSUME LifeInv, TaskInv, disturbed \subseteq Nodes, NEW n \in Nodes, MonitorStep(n)
    PROVE  TaskInv'
<1>0. class = "monitor" /\ class' = "monitor" /\ LifeStep(n, TRUE)
  BY DEF MonitorStep
<1>1. CASE HookAtStart(n)
  <2>1. polling' = {n} /\ taskList' = {n} /\ disturbed' = Nodes \ {n}
    BY <1>1 DEF MonitorStep, on_start, OnlyOthersDisturbed, TaskInv
  <2> QED BY <1>0, <1>1, <2>1, StepLemma DEF TaskInv
<1>2. CASE ~HookAtStart(n) /\ HookAtEnd(n)
  <2>1. polling' = {} /\ taskList' = {} /\ disturbed' = disturbed \cup (Nodes \ {n})
    BY <1>2 DEF MonitorStep, on_shutdown, cancel_monitor_tasks, OthersDisturbed, TaskInv
  <2> QED BY <1>0, <1>2, <2>1, StepLemma DEF TaskInv
<1>3. CASE ~HookAtStart(n) /\ ~HookAtEnd(n)
  <2>1. polling' = polling /\ taskList' = taskList /\ disturbed' = disturbed
    BY <1>3 DEF MonitorStep, taskVars
  <2> QED BY <1>0, <1>3, <2>1, StepLemma DEF TaskInv
<1> QED BY <1>1, <1>2, <1>3

(* Whatever the class, a step of the lifecycle is a step of one node. *)
LEMMA NextLemma == IInv /\ [Next]_processVars => IInv'
<1> SUFFICES ASSUME IInv, [Next]_processVars PROVE IInv'
  OBVIOUS
<1> USE ProcessAssumption, RegistryAssumption
<1>0. LifeInv /\ TaskInv /\ RegistryInv /\ disturbed \subseteq Nodes
  BY DEF IInv
<1>1. ASSUME NEW n \in Nodes, NEW map \in StartMaps, StartWith(n, map)
      PROVE  IInv'
  <2>1. class = "service" /\ class' = class /\ taskVars' = taskVars
    BY <1>1 DEF StartWith
  <2>2. disturbed' \subseteq Nodes
    BY <1>0, <1>1 DEF StartWith, OthersDisturbed, OnlyOthersDisturbed
  <2>3. LifeInv'
    <3>1. CASE UNCHANGED lifeVars
      BY <1>0, <3>1 DEF LifeInv, LifeTypeOK, CallInv, SocketInv, lifeVars
    <3>2. CASE Called(n)
      BY <1>0, <3>2, LifeLemma DEF Called, LifeNext
    <3> QED BY <1>1, <3>1, <3>2 DEF StartWith
  <2>4. TaskInv'
    BY <1>0, <2>1, QuietLemma
  <2>5. RegistryInv'
    <3>1. CASE map = EmptyMap
      BY <1>0, <1>1, <2>1, <3>1, ClearLemma DEF StartWith, initialize_service_map
    <3>2. CASE map # EmptyMap
      <4>1. PICK new \in Maps : update_service(n, new)
        BY <1>1, <3>2 DEF StartWith, initialize_service_map
      <4> QED BY <1>0, <1>1, <2>1, <3>2, <4>1, UpdateLemma DEF StartWith
    <3> QED BY <3>1, <3>2
  <2> QED BY <2>1, <2>2, <2>3, <2>4, <2>5 DEF IInv
<1>2. ASSUME NEW n \in Nodes, NEW d \in Databases, NEW svc \in Services, Replace(n, d, svc)
      PROVE  IInv'
  <2>1. [EmptyMap EXCEPT ![d] = svc] \in Maps
    BY DEF EmptyMap, Maps
  <2>2. class = "service" /\ class' = class /\ taskVars' = taskVars /\ lifeVars' = lifeVars
    BY <1>2 DEF Replace
  <2>3. RegistryInv'
    BY <1>0, <1>2, <2>1, <2>2, UpdateLemma DEF Replace
  <2>4. LifeInv' /\ TaskInv'
    BY <1>0, <2>2, QuietLemma DEF LifeInv, LifeTypeOK, CallInv, SocketInv, lifeVars
  <2>5. disturbed' \subseteq Nodes
    BY <1>0, <1>2 DEF Replace, OthersDisturbed
  <2> QED BY <2>2, <2>3, <2>4, <2>5 DEF IInv
<1>3. ASSUME NEW n \in Nodes, ServiceStep(n)
      PROVE  IInv'
  <2>1. /\ class = "service" /\ class' = class
        /\ taskVars' = taskVars /\ registryVars' = registryVars /\ disturbed' = disturbed
    BY <1>3 DEF ServiceStep
  <2>2. LifeInv'
    BY <1>0, <1>3, LifeLemma DEF ServiceStep, LifeNext
  <2> QED BY <1>0, <2>1, <2>2, QuietLemma DEF RegistryInv, registryVars, IInv
<1>4. ASSUME NEW n \in Nodes, MonitorStart(n)
      PROVE  IInv'
  <2>1. /\ Called(n) /\ class' = class
        /\ taskVars' = taskVars /\ registryVars' = registryVars /\ disturbed' = disturbed
    BY <1>4 DEF MonitorStart
  <2>2. LifeInv'
    BY <1>0, <2>1, LifeLemma DEF Called, LifeNext
  <2>3. TaskInv'
    BY <1>0, <2>1, CalledLemma
  <2> QED BY <1>0, <2>1, <2>2, <2>3 DEF RegistryInv, registryVars, IInv
<1>5. ASSUME NEW n \in Nodes, MonitorStep(n)
      PROVE  IInv'
  <2>1. class = "monitor" /\ class' = class /\ registryVars' = registryVars
    BY <1>5 DEF MonitorStep
  <2>2. disturbed' \subseteq Nodes
    BY <1>0, <1>5 DEF MonitorStep, OthersDisturbed, OnlyOthersDisturbed
  <2>3. LifeInv'
    BY <1>0, <1>5, LifeLemma DEF MonitorStep, LifeNext
  <2>4. TaskInv'
    BY <1>0, <1>5, MonitorLemma
  <2>5. RegistryInv'
    BY <1>0, <2>1 DEF RegistryInv, registryVars
  <2> QED BY <2>1, <2>2, <2>3, <2>4, <2>5 DEF IInv
<1>6. CASE UNCHANGED processVars
  BY <1>6 DEF processVars, lifeVars, registryVars, taskVars, IInv,
              LifeInv, LifeTypeOK, CallInv, SocketInv, TaskInv, RegistryInv
<1> QED BY <1>1, <1>2, <1>3, <1>4, <1>5, <1>6 DEF Next

(* The inductive invariant of the process holds in every reachable state. *)
LEMMA Invariance == Spec => []IInv
BY InitLemma, NextLemma, PTL DEF Spec

-----------------------------------------------------------------------------
(* Every variable keeps its type, for any number of nodes and databases. *)
THEOREM TypeCorrect == Spec => []TypeOK
<1>1. IInv => TypeOK
  BY DEF IInv, LifeInv, LifeTypeOK, TaskInv, RegistryInv, TypeOK
<1> QED BY <1>1, Invariance, PTL

(* stop() leaves nothing that the node knew of, after whatever failures. *)
THEOREM StopIsQuiet == Spec => []StoppedIsQuiet
<1>1. IInv => StoppedIsQuiet
  BY DEF IInv, LifeInv, CallInv, SocketInv, TaskInv, StoppedIsQuiet
<1> QED BY <1>1, Invariance, PTL

(* stop_event is set only while serve() holds no socket. *)
THEOREM StopEventReleases == Spec => []StopEventMeansReleased
<1>1. IInv => StopEventMeansReleased
  BY DEF IInv, LifeInv, SocketInv, CallInv, StopEventMeansReleased
<1> QED BY <1>1, Invariance, PTL

(* The class's list has every monitor task that runs. *)
THEOREM TasksAreListed == Spec => []NoStrayMonitor
<1>1. IInv => NoStrayMonitor
  BY DEF IInv, TaskInv, NoStrayMonitor
<1> QED BY <1>1, Invariance, PTL

(* A monitor node that is up polls until another node reaches a hook. *)
THEOREM MonitorsPoll == Spec => []UpIsPolling
<1>1. IInv => UpIsPolling
  BY DEF IInv, TaskInv, UpIsPolling
<1> QED BY <1>1, Invariance, PTL

(* A service node offers what it registered until another node registers   *)
(* or clears something.                                                    *)
THEOREM ServicesOffered == Spec => []OffersWhatItRegistered
<1>1. IInv => OffersWhatItRegistered
  <2> SUFFICES ASSUME IInv, NEW n \in Nodes, class = "service", n \notin disturbed,
                      NEW d \in Databases
               PROVE  lookup(n, d) = registered[n][d]
    BY DEF OffersWhatItRegistered
  <2> QED BY DEF IInv, RegistryInv, lookup
<1> QED BY <1>1, Invariance, PTL

(* Only a failed cleanup of serve(), and a restart without a stop(), lose a *)
(* socket.                                                                 *)
THEOREM LossNeedsCause == Spec => OnlyRestartsLose
<1> DEFINE Caused == \A n \in Nodes : \A kind \in {"web", "redis"} :
        <<n, kind, "lost">> \in listening' /\ <<n, kind, "lost">> \notin listening =>
            \/ outcome[n] \in {"up", "failed"} /\ "start" \in {call[n], call'[n]}
            \/ call[n] = "serve" /\ outcome'[n] = "failed"
<1>1. IInv /\ [Next]_processVars => [Caused]_processVars
  <2> SUFFICES ASSUME IInv, Next PROVE Caused
    OBVIOUS
  <2>0. LifeInv
    BY DEF IInv
  <2>1. CASE listening' = listening
    BY <2>1
  <2>2. ASSUME NEW n \in Nodes, NEW b \in BOOLEAN, Called(n) \/ LifeStep(n, b)
        PROVE  Caused
    <3> USE <2>0 DEF LifeInv, LifeTypeOK, CallInv, SocketInv, Overwritten, Closer, Finish
    <3>1. CASE Start(n)
      BY <3>1 DEF Start
    <3>2. CASE StartReturns(n)
      BY <3>2 DEF StartReturns
    <3>3. CASE CleanupFails(n)
      BY <3>3 DEF CleanupFails
    <3>4. CASE \/ Serve(n) \/ SetupReturns(n, b) \/ SetupFails(n) \/ SiteReturns(n)
               \/ BindFails(n) \/ Serves(n) \/ ServeBreaks(n) \/ Stop(n) \/ CleanupReturns(n)
      BY <3>4 DEF Serve, SetupReturns, SetupFails, SiteReturns, BindFails, Serves,
                  ServeBreaks, Stop, CleanupReturns
    <3> QED BY <2>2, <3>1, <3>2, <3>3, <3>4 DEF Called, LifeStep
  <2>3. ASSUME NEW n \in Nodes,
               \/ \E map \in StartMaps : StartWith(n, map)
               \/ \E d \in Databases : \E svc \in Services : Replace(n, d, svc)
               \/ ServiceStep(n)
               \/ MonitorStart(n)
               \/ MonitorStep(n)
        PROVE  Caused
    BY <2>1, <2>2, <2>3 DEF StartWith, Replace, ServiceStep, MonitorStart, MonitorStep, lifeVars
  <2> QED BY <2>3 DEF Next
<1> QED BY <1>1, Invariance, PTL DEF Spec, OnlyRestartsLose

=============================================================================
