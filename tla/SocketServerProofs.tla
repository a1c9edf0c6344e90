------------------------- MODULE SocketServerProofs -------------------------
(***************************************************************************)
(* Theorems about SocketServer, for any sets of sessions, users and redis  *)
(* clients.  Its steps are steps of WebsocketApp, so that the invariant of *)
(* WebsocketAppProofs holds of it; what DEL has closed needs one of its    *)
(* own on top.                                                             *)
(***************************************************************************)
EXTENDS SocketServer, WebsocketAppProofs

-----------------------------------------------------------------------------
(* Every step of a redis client is a step of WebsocketApp or leaves it alone. *)
LEMMA StepIsAppStep ==
    ASSUME [ServerNext]_serverVars
    PROVE  [Next]_vars
<1>1. CASE AppStep
  BY <1>1 DEF AppStep, Next
<1>2. ASSUME NEW r \in Clients, Client(r)
      PROVE  [Next]_vars
  <2>1. ASSUME NEW d \in 0 .. MAX_DB_COUNT, select(r, d)
        PROVE  UNCHANGED vars
    BY <2>1 DEF select
  <2>2. ASSUME NEW key \in Keys(db[r]), NEW decodes \in BOOLEAN, set(r, key, decodes)
        PROVE  [Next]_vars
    <3>1. CASE SetRaises(r, decodes) \/ SetIgnores(r, key, decodes)
      BY <3>1 DEF SetRaises, SetIgnores
    <3>2. ASSUME db[r] = 0, SetSends(r, key)
          PROVE  Next
      <4>1. key \in Sessions
        BY <3>2 DEF Keys
      <4>2. PICK t \in Senders : ScheduleSend(t, key)
        BY <3>2 DEF SetSends
      <4> QED BY <4>1, <4>2 DEF Next, Sender
    <3> QED BY <2>2, <3>1, <3>2 DEF set
  <2>3. ASSUME NEW key \in Keys(db[r]), delete(r, key)
        PROVE  Next
    <3>1. CASE db[r] = 0
      BY <2>3, <3>1 DEF delete, Keys, Next, Others
    <3>2. CASE db[r] # 0
      BY <2>3, <3>2 DEF delete, Keys, Next
    <3> QED BY <3>1, <3>2
  <2>4. CASE DeleteReturns(r) \/ Reconnect(r)
    BY <2>4 DEF DeleteReturns, Reconnect
  <2> QED BY <1>2, <2>1, <2>2, <2>3, <2>4 DEF Client
<1>3. CASE UNCHANGED serverVars
  BY <1>3 DEF serverVars
<1> QED BY <1>1, <1>2, <1>3 DEF ServerNext

(* The websocket node, with its redis clients, implements WebsocketApp:    *)
(* every theorem about Spec holds of it.                                   *)
THEOREM ImplementsApp == ServerSpec => AppSpec
<1>1. ServerInit => Init
  BY DEF ServerInit
<1>2. [ServerNext]_serverVars => [Next]_vars
  BY StepIsAppStep
<1> QED BY <1>1, <1>2, PTL DEF ServerSpec, AppSpec, Spec

(* KEYS, GET on db 0 and GET on db 1 agree with each other at every instant. *)
THEOREM CommandsAgree == ServerSpec => []ReadersAgree
<1>1. IInv => ReadersAgree
  <2> SUFFICES ASSUME IInv PROVE ReadersAgree
    OBVIOUS
  <2>1. /\ sessionDict \subseteq Sessions
        /\ userDict \in Dicts
        /\ IndexInv
    BY DEF IInv, TypeRest
  <2>2. ASSUME NEW d \in Databases, NEW key \in Keys(d)
        PROVE  key \in scan(d) <=> get(d, key) # {}
    <3>1. CASE d = 0
      BY <3>1 DEF scan, get
    <3>2. CASE d # 0
      BY <2>1, <3>2 DEF scan, get, get_user, IndexInv
    <3> QED BY <3>1, <3>2
  <2>3. ASSUME NEW u \in Users \ FalsyUsers, NEW s \in get(1, u)
        PROVE  get(0, s) # {} /\ currentUser[s] = u
    <3>1. s \in get_user(userDict, u)
      BY <2>3 DEF get
    <3>2. s \in Sessions
      BY <2>1, <3>1 DEF get_user, Dicts
    <3>3. s \in sessionDict /\ currentUser[s] = u
      BY <2>1, <3>1, <3>2 DEF IndexInv
    <3> QED BY <3>3 DEF get
  <2> QED BY <2>2, <2>3 DEF ReadersAgree
<1> QED BY <1>1, ImplementsApp, Invariance, PTL DEF AppSpec

-----------------------------------------------------------------------------
(* A websocket that is open belongs to a session that close() still works  *)
(* on; one whose handler is past on_finish() is not open.                  *)
OpenInv ==
    /\ open \subseteq attached
    /\ \A s \in Sessions : pc[s] = "closing" => s \notin open

(* What a DEL aimed at is closed, or its close() has not run yet. *)
AimInv == \A r \in Clients : aimed[r] \cap open \subseteq closers

DelInv == IInv /\ ServerTypeOK /\ OpenInv /\ AimInv

(* No handler, and no command of the redis server, breaks the relation of sessions to open sockets. *)
LEMMA OpenLemma ==
    ASSUME IInv, OpenInv, [Next]_vars
    PROVE  OpenInv'
<1> USE DEF Goto
<1>0. /\ pc \in [Sessions -> HandlerState] /\ attached \subseteq Sessions
      /\ sessionDict = attached
      /\ \A t \in Senders : sendAt[t] = "closing" => sendTo[t] \notin open
  BY DEF IInv, TypeRest, RegisteredIffAttached, SenderInv
<1>1. ASSUME NEW s \in Sessions, Connect(s)
      PROVE  OpenInv'
  BY <1>0, <1>1 DEF Connect, setup_session, OpenInv
<1>2. ASSUME NEW s \in Sessions,
             \/ CallbackReturns(s) \/ HandlerRaises(s) \/ ReceiveEnd(s) \/ CancelServing(s)
             \/ \E frame \in Frames : Receive(s, frame)
      PROVE  OpenInv'
  <2>1. /\ open' = open /\ attached' = attached
        /\ \E label \in {"receive", "request", "finish"} : pc' = [pc EXCEPT ![s] = label]
    BY <1>2 DEF CallbackReturns, HandlerRaises, ReceiveEnd, CancelServing, Receive, indexVars
  <2> QED BY <1>0, <2>1 DEF OpenInv
<1>3. ASSUME NEW s \in Sessions, FinishEnds(s)
      PROVE  OpenInv'
  BY <1>0, <1>3 DEF FinishEnds, indexVars, OpenInv
<1>4. ASSUME NEW s \in Sessions, CloseReturns(s) \/ CancelClose(s) \/ CancelFinish(s)
      PROVE  OpenInv'
  <2>1. CASE CancelFinish(s) /\ CancelIsException
    BY <1>0, <2>1 DEF CancelFinish, indexVars, OpenInv
  <2>2. CASE CancelFinish(s) /\ ~CancelIsException
    BY <1>0, <2>2 DEF CancelFinish, HandlerEnds, indexVars, OpenInv
  <2>3. CASE CloseReturns(s) \/ CancelClose(s)
    <3>1. /\ pc[s] = "closing" /\ pc' = [pc EXCEPT ![s] = "done"] /\ open' = open
          /\ attached' = attached \/ attached' = attached \ {s}
      BY <2>3 DEF CloseReturns, CancelClose, HandlerEnds, cleanup_session, indexVars
    <3> QED BY <1>0, <3>1 DEF OpenInv
  <2> QED BY <1>4, <2>1, <2>2, <2>3
<1>5. ASSUME NEW s \in Sessions,
             \/ ClientCloses(s) \/ CloseSession(s) \/ RunClose(s)
             \/ \E v \in Users \cup {NoUser} : SetUser(s, v)
      PROVE  OpenInv'
  <2>1. open' \subseteq open /\ attached' = attached /\ pc' = pc
    BY <1>5 DEF ClientCloses, CloseSession, RunClose, SetUser, indexVars
  <2> QED BY <2>1 DEF OpenInv
<1>6. ASSUME NEW t \in Senders, Sender(t)
      PROVE  OpenInv'
  <2>1. CASE SendCleansUp(t)
    <3>1. /\ pc' = pc /\ open' = open /\ sendTo[t] \notin open
          /\ attached' = attached \/ attached' = attached \ {sendTo[t]}
      BY <1>0, <2>1 DEF SendCleansUp, cleanup_session, indexVars
    <3> QED BY <3>1 DEF OpenInv
  <2>2. CASE ~SendCleansUp(t)
    <3>1. pc' = pc /\ open' \subseteq open /\ attached' = attached
      BY <1>6, <2>2 DEF Sender, ScheduleSend, SendRefused, SendStarts, SendReturns, SendRaises, indexVars
    <3> QED BY <3>1 DEF OpenInv
  <2> QED BY <2>1, <2>2
<1>7. ASSUME NEW u \in Users, DeleteUser(u)
      PROVE  OpenInv'
  BY <1>7 DEF DeleteUser, indexVars, OpenInv
<1>8. CASE UNCHANGED vars
  BY <1>8 DEF vars, OpenInv
<1> QED BY <1>1, <1>2, <1>3, <1>4, <1>5, <1>6, <1>7, <1>8 DEF Next, Handler, Others

(* No step but the connection of a new session opens a websocket, and none *)
(* but the close() itself takes a session from those to be closed.         *)
LEMMA ClosingLemma ==
    ASSUME IInv, OpenInv, [Next]_vars, NEW s \in open', s \notin closers'
    PROVE  (s \in open /\ s \notin closers) \/ (s \in Sessions /\ pc[s] = "done" /\ pc'[s] # "done")
<1>0. pc \in [Sessions -> HandlerState]
  BY DEF IInv, TypeRest
<1>1. CASE \E x \in Sessions : Connect(x)
  BY <1>0, <1>1 DEF Connect
<1>2. CASE \E x \in Sessions : RunClose(x)
  BY <1>2 DEF RunClose, OpenInv
<1>3. ASSUME NEW x \in Sessions, Handler(x) \/ Others(x), ~Connect(x), ~RunClose(x)
      PROVE  open' \subseteq open /\ closers' = closers
  BY <1>3 DEF Handler, Others, CallbackReturns, HandlerRaises, Receive, ReceiveEnd, FinishEnds,
              CloseReturns, SetUser, ClientCloses, CancelServing, CancelFinish, CancelClose,
              CloseSession, HandlerEnds
<1>4. ASSUME NEW t \in Senders, Sender(t)
      PROVE  open' \subseteq open /\ closers' = closers
  BY <1>4 DEF Sender, ScheduleSend, SendRefused, SendStarts, SendReturns, SendRaises, SendCleansUp
<1>5. ASSUME NEW u \in Users, DeleteUser(u)
      PROVE  open' = open /\ closers \subseteq closers'
  BY <1>5 DEF DeleteUser
<1>6. CASE UNCHANGED vars
  BY <1>6 DEF vars
<1> QED BY <1>1, <1>2, <1>3, <1>4, <1>5, <1>6 DEF Next

(* Only the handler of a session itself starts it. *)
LEMMA StartLemma ==
    ASSUME pc \in [Sessions -> HandlerState], NEW s \in Sessions, pc[s] = "done", pc'[s] # "done",
           NEW x \in Sessions, Handler(x) \/ Others(x)
    PROVE  x = s /\ Handler(x)
<1> USE DEF Goto
<1>1. CASE Handler(x)
  BY <1>1 DEF Handler, Connect, CallbackReturns, HandlerRaises, Receive, ReceiveEnd, FinishEnds,
              CloseReturns, HandlerEnds
<1>2. CASE Others(x)
  BY <1>2 DEF Others, SetUser, ClientCloses, CancelServing, CancelFinish, CancelClose,
              CloseSession, RunClose, HandlerEnds, Serving
<1> QED BY <1>1, <1>2

(* Every step of the node preserves DelInv. *)
LEMMA DelStep == DelInv /\ [ServerNext]_serverVars => DelInv'
<1> SUFFICES ASSUME DelInv, [ServerNext]_serverVars PROVE DelInv'
  OBVIOUS
<1>0. IInv /\ ServerTypeOK /\ OpenInv /\ AimInv /\ [Next]_vars
  BY StepIsAppStep DEF DelInv
<1>1. IInv' /\ OpenInv'
  BY <1>0, StepLemma, OpenLemma
<1>2. /\ pc \in [Sessions -> HandlerState] /\ sessionDict = attached
      /\ db \in [Clients -> Databases] /\ aimed \in [Clients -> SUBSET Sessions]
      /\ at \in [Clients -> {"idle", "deleting", "gone"}] /\ missed \in BOOLEAN
      /\ userDict \in Dicts /\ sessionDict \subseteq Sessions
  BY <1>0 DEF IInv, TypeRest, RegisteredIffAttached, ServerTypeOK
<1>3. CASE AppStep
  <2>1. UNCHANGED clientVars
    BY <1>3 DEF AppStep
  <2>2. ServerTypeOK'
    BY <1>0, <2>1 DEF ServerTypeOK, clientVars
  <2>3. ASSUME NEW r \in Clients, NEW s \in aimed[r], s \in open', s \notin closers'
        PROVE  FALSE
    <3>1. s \notin open \/ s \in closers
      BY <1>0, <2>3 DEF AimInv
    <3>2. s \in Sessions /\ pc[s] = "done" /\ pc'[s] # "done"
      BY <1>0, <2>3, <3>1, ClosingLemma
    <3>3. ASSUME NEW t \in Senders, Sender(t)
          PROVE  pc' = pc
      BY <3>3 DEF Sender, ScheduleSend, SendRefused, SendStarts, SendReturns, SendRaises, SendCleansUp
    <3>4. PICK x \in Sessions : \/ Handler(x) /\ (pc[x] = "done" => x \notin UNION Range(aimed))
                                \/ Others(x)
      BY <1>3, <3>2, <3>3 DEF AppStep
    <3>5. x = s /\ s \notin UNION Range(aimed)
      <4>1. x = s /\ Handler(x)
        BY <1>2, <3>2, <3>4, StartLemma
      <4>2. CASE Others(x) /\ ~(pc[x] = "done" => x \notin UNION Range(aimed))
        <5>1. pc'[x] = "done"
          BY <1>2, <3>2, <4>1, <4>2 DEF Others, SetUser, ClientCloses, CancelServing, CancelFinish,
                CancelClose, CloseSession, RunClose, HandlerEnds, Serving, Goto
        <5> QED BY <3>2, <4>1, <5>1
      <4> QED BY <3>2, <3>4, <4>1, <4>2
    <3>6. s \in UNION Range(aimed)
      BY <1>2, <2>3 DEF Range
    <3> QED BY <3>5, <3>6
  <2>4. AimInv'
    BY <2>1, <2>3 DEF AimInv, clientVars
  <2> QED BY <1>1, <2>2, <2>4 DEF DelInv
<1>4. ASSUME NEW r \in Clients, NEW d \in 0 .. MAX_DB_COUNT, select(r, d)
      PROVE  DelInv'
  <2>1. db' = [db EXCEPT ![r] = d] /\ d \in Databases /\ UNCHANGED <<at, aimed, missed, open, closers>>
    BY <1>4 DEF select, vars
  <2>2. ServerTypeOK'
    BY <1>2, <2>1 DEF ServerTypeOK
  <2>3. AimInv'
    BY <1>0, <2>1 DEF AimInv
  <2> QED BY <1>1, <2>2, <2>3 DEF DelInv
<1>5. ASSUME NEW r \in Clients, NEW key \in Keys(db[r]), NEW decodes \in BOOLEAN, set(r, key, decodes)
      PROVE  DelInv'
  <2>1. /\ UNCHANGED <<db, aimed, open, closers>>
        /\ at' = at \/ at' = [at EXCEPT ![r] = "gone"]
        /\ missed' \in BOOLEAN
    BY <1>2, <1>5 DEF set, SetSends, SetRaises, SetIgnores, ScheduleSend, clientVars, vars
  <2>2. ServerTypeOK'
    BY <1>2, <2>1 DEF ServerTypeOK
  <2>3. AimInv'
    BY <1>0, <2>1 DEF AimInv
  <2> QED BY <1>1, <2>2, <2>3 DEF DelInv
<1>6. ASSUME NEW r \in Clients, NEW key \in Keys(db[r]), delete(r, key)
      PROVE  DelInv'
  <2>1. /\ at' = [at EXCEPT ![r] = "deleting"]
        /\ aimed' = [aimed EXCEPT ![r] = get(db[r], key)]
        /\ UNCHANGED <<db, missed>>
    BY <1>6 DEF delete
  <2>2. get(db[r], key) \subseteq Sessions
    BY <1>2 DEF get, get_user, Dicts
  <2>3. ServerTypeOK'
    BY <1>2, <2>1, <2>2 DEF ServerTypeOK
  <2>4. open' \subseteq open /\ closers \subseteq closers' /\ get(db[r], key) \cap open' \subseteq closers'
    <3>1. CASE db[r] = 0
      BY <1>2, <1>6, <3>1 DEF delete, CloseSession, get
    <3>2. CASE db[r] # 0
      BY <1>6, <3>2 DEF delete, DeleteUser, get
    <3> QED BY <3>1, <3>2
  <2>5. AimInv'
    BY <1>0, <1>2, <2>1, <2>4 DEF AimInv
  <2> QED BY <1>1, <2>3, <2>5 DEF DelInv
<1>7. ASSUME NEW r \in Clients, DeleteReturns(r) \/ Reconnect(r)
      PROVE  DelInv'
  <2>1. /\ db' = db \/ db' = [db EXCEPT ![r] = 0]
        /\ at' = [at EXCEPT ![r] = "idle"]
        /\ aimed' = aimed \/ aimed' = [aimed EXCEPT ![r] = {}]
        /\ UNCHANGED <<missed, open, closers>>
    BY <1>7 DEF DeleteReturns, Reconnect, vars
  <2>2. ServerTypeOK'
    BY <1>2, <2>1 DEF ServerTypeOK, Databases, MAX_DB_COUNT
  <2>3. AimInv'
    BY <1>0, <1>2, <2>1 DEF AimInv
  <2> QED BY <1>1, <2>2, <2>3 DEF DelInv
<1>8. CASE UNCHANGED serverVars
  BY <1>0, <1>1, <1>8 DEF DelInv, ServerTypeOK, AimInv, serverVars, clientVars, vars
<1> QED BY <1>3, <1>4, <1>5, <1>6, <1>7, <1>8 DEF ServerNext, Client

(* DelInv is an invariant of the node. *)
THEOREM DelInvariance == ServerSpec => []DelInv
<1>1. ServerInit => DelInv
  <2> SUFFICES ASSUME ServerInit PROVE DelInv
    OBVIOUS
  <2>1. IInv
    BY InitLemma DEF ServerInit
  <2>2. ServerTypeOK
    <3>1. 0 \in Databases
      BY DEF Databases, MAX_DB_COUNT
    <3>2. db \in [Clients -> Databases]
      BY <3>1 DEF ServerInit
    <3>3. missed \in BOOLEAN
      BY DEF ServerInit
    <3> QED BY <3>2, <3>3 DEF ServerInit, ServerTypeOK
  <2>3. OpenInv /\ AimInv
    BY DEF ServerInit, Init, OpenInv, AimInv
  <2> QED BY <2>1, <2>2, <2>3 DEF DelInv
<1> QED BY <1>1, DelStep, PTL DEF ServerSpec

(* The variables of the redis clients keep their types: current_db names   *)
(* one of the two databases at any time.                                   *)
THEOREM ServerTypeCorrect == ServerSpec => []ServerTypeOK
<1>1. DelInv => ServerTypeOK
  BY DEF DelInv
<1> QED BY <1>1, DelInvariance, PTL

(* When a DEL is answered, every session that it found is closed, for any  *)
(* number of clients that delete, send and read at the same time.          *)
THEOREM AnsweredDel == ServerSpec => AnsweredDelHasClosed
<1> DEFINE Answer == \A r \in Clients :
        at[r] = "deleting" /\ at'[r] # "deleting" => aimed[r] \cap open = {}
<1>1. DelInv /\ [ServerNext]_serverVars => [Answer]_serverVars
  <2> SUFFICES ASSUME DelInv, ServerNext, NEW r \in Clients, at[r] = "deleting", at'[r] # "deleting"
               PROVE  aimed[r] \cap open = {}
    OBVIOUS
  <2>1. AimInv /\ at \in [Clients -> {"idle", "deleting", "gone"}]
    BY DEF DelInv, ServerTypeOK
  <2>2. ~AppStep
    BY DEF AppStep, clientVars
  <2>3. PICK q \in Clients : Client(q)
    BY <2>2 DEF ServerNext
  <2>4. q = r /\ DeleteReturns(q)
    BY <2>1, <2>3 DEF Client, select, set, SetSends, SetRaises, SetIgnores, delete, DeleteReturns,
                      Reconnect, clientVars
  <2> QED BY <2>1, <2>4 DEF AimInv, DeleteReturns
<1> QED BY <1>1, DelInvariance, PTL DEF ServerSpec, AnsweredDelHasClosed

=============================================================================
