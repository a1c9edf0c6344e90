-------------------------- MODULE WebsocketAppProofs --------------------------
(***************************************************************************)
(* Theorems about WebsocketApp, for any sets of sessions, users, senders   *)
(* and frames.  TypeOK and the named parts below form an inductive         *)
(* invariant; the rest follows from it.                                    *)
(***************************************************************************)
EXTENDS WebsocketApp, TLAPS

Dicts == UNION {[D -> SUBSET Sessions] : D \in SUBSET Users}

(* The parts of TypeOK but the index, which its own lemmas type. *)
TypeRest ==
    /\ sessionDict \subseteq Sessions
    /\ currentUser \in [Sessions -> Users \cup {NoUser}]
    /\ attached \subseteq Sessions
    /\ open \subseteq Sessions
    /\ pc \in [Sessions -> HandlerState]
    /\ escaped \subseteq Sessions
    /\ sendAt \in [Senders -> SendState]
    /\ sendTo \in [Senders -> Sessions \cup {NoSession}]
    /\ closers \subseteq Sessions
    /\ dropped \subseteq {TEXT, BINARY}

(* .app and .socket are set exactly while the session is in the directory. *)
RegisteredIffAttached == sessionDict = attached

(* The index, session by session, and without empty keys. *)
IndexInv ==
    /\ \A u \in Users \ FalsyUsers : \A s \in Sessions :
         s \in get_user(userDict, u) <=> s \in sessionDict /\ currentUser[s] = u
    /\ \A u \in DOMAIN userDict : userDict[u] # {}

(* A sender about to clean its session up has closed its socket already. *)
SenderInv ==
    \A t \in Senders :
        /\ sendAt[t] # "idle" => sendTo[t] \in Sessions
        /\ sendAt[t] = "closing" => sendTo[t] \notin open

(* Only with an exception that nothing catches does a handler skip the clean-up. *)
HandlerInv ==
    CancelIsException => escaped = {} /\ NoGhostSession

IInv ==
    /\ TypeRest
    /\ userDict \in Dicts
    /\ RegisteredIffAttached
    /\ IndexInv
    /\ SenderInv
    /\ HandlerInv
    /\ OpenSessionIsListed

-----------------------------------------------------------------------------
(* remove_user takes the session from that user and from no other, and it  *)
(* leaves no user without a session behind.                                *)
LEMMA RemoveUserLemma ==
    ASSUME NEW dict \in Dicts, NEW u \in Users \cup {NoUser}, NEW s \in Sessions,
           \A v \in DOMAIN dict : dict[v] # {}
    PROVE  /\ remove_user(dict, u, s) \in Dicts
           /\ \A v : get_user(remove_user(dict, u, s), v)
                       = IF v = u THEN get_user(dict, v) \ {s} ELSE get_user(dict, v)
           /\ \A v \in DOMAIN remove_user(dict, u, s) : remove_user(dict, u, s)[v] # {}
<1> DEFINE new == remove_user(dict, u, s)
<1>0. /\ dict \in [DOMAIN dict -> SUBSET Sessions]
      /\ DOMAIN dict \subseteq Users
  BY DEF Dicts
<1>1. CASE s \notin get_user(dict, u)
  <2>1. new = dict
    BY <1>1 DEF remove_user
  <2>2. \A v : get_user(new, v) = IF v = u THEN get_user(dict, v) \ {s} ELSE get_user(dict, v)
    BY <1>1, <2>1
  <2> QED BY <2>1, <2>2
<1>2. CASE s \in get_user(dict, u) /\ dict[u] = {s}
  <2>0. u \in DOMAIN dict
    BY <1>2 DEF get_user
  <2>1. new = [v \in DOMAIN dict \ {u} |-> dict[v]]
    BY <1>2 DEF remove_user
  <2>2. DOMAIN new = DOMAIN dict \ {u} /\ \A v \in DOMAIN new : new[v] = dict[v]
    BY <2>1
  <2>3. new \in [DOMAIN dict \ {u} -> SUBSET Sessions]
    BY <1>0, <2>1
  <2>4. new \in Dicts
    BY <1>0, <2>3 DEF Dicts
  <2>5. \A v : get_user(new, v) = IF v = u THEN get_user(dict, v) \ {s} ELSE get_user(dict, v)
    BY <1>2, <2>0, <2>2 DEF get_user
  <2> QED BY <2>2, <2>4, <2>5
<1>3. CASE s \in get_user(dict, u) /\ dict[u] # {s}
  <2>0. u \in DOMAIN dict /\ s \in dict[u]
    BY <1>3 DEF get_user
  <2>1. new = [dict EXCEPT ![u] = @ \ {s}]
    BY <1>3 DEF remove_user
  <2>2. /\ DOMAIN new = DOMAIN dict
        /\ \A v \in DOMAIN dict : new[v] = IF v = u THEN dict[v] \ {s} ELSE dict[v]
    BY <1>0, <2>0, <2>1
  <2>3. new \in [DOMAIN dict -> SUBSET Sessions]
    BY <1>0, <2>0, <2>1
  <2>4. new \in Dicts
    BY <1>0, <2>3 DEF Dicts
  <2>5. \A v : get_user(new, v) = IF v = u THEN get_user(dict, v) \ {s} ELSE get_user(dict, v)
    BY <2>0, <2>2 DEF get_user
  <2>6. \A v \in DOMAIN new : new[v] # {}
    BY <1>3, <2>0, <2>2
  <2> QED BY <2>4, <2>5, <2>6
<1> QED BY <1>1, <1>2, <1>3

(* add_user puts the session under that user and under no other. *)
LEMMA AddUserLemma ==
    ASSUME NEW dict \in Dicts, NEW u \in Users \cup {NoUser}, NEW s \in Sessions,
           \A v \in DOMAIN dict : dict[v] # {}
    PROVE  /\ add_user(dict, u, s) \in Dicts
           /\ \A v \in Users : get_user(add_user(dict, u, s), v)
                = IF v = u THEN get_user(dict, v) \cup {s} ELSE get_user(dict, v)
           /\ \A v \in DOMAIN add_user(dict, u, s) : add_user(dict, u, s)[v] # {}
<1> DEFINE new == add_user(dict, u, s)
<1>0. /\ dict \in [DOMAIN dict -> SUBSET Sessions]
      /\ DOMAIN dict \subseteq Users
  BY DEF Dicts
<1>1. CASE u = NoUser
  <2>1. new = dict
    BY <1>1 DEF add_user
  <2> QED BY <1>1, <2>1, AppAssumption
<1>2. CASE u # NoUser
  <2>1. new = [v \in DOMAIN dict \cup {u} |->
                 IF v = u THEN get_user(dict, u) \cup {s} ELSE dict[v]]
    BY <1>2 DEF add_user
  <2>2. get_user(dict, u) \in SUBSET Sessions
    BY <1>0 DEF get_user
  <2>3. new \in [DOMAIN dict \cup {u} -> SUBSET Sessions]
    BY <1>0, <2>1, <2>2
  <2>4. new \in Dicts
    BY <1>0, <1>2, <2>3 DEF Dicts
  <2>5. /\ DOMAIN new = DOMAIN dict \cup {u}
        /\ \A v \in DOMAIN new :
             new[v] = IF v = u THEN get_user(dict, u) \cup {s} ELSE dict[v]
    BY <2>1
  <2>6. \A v \in Users : get_user(new, v)
                = IF v = u THEN get_user(dict, v) \cup {s} ELSE get_user(dict, v)
    BY <2>5 DEF get_user
  <2> QED BY <2>4, <2>5, <2>6
<1> QED BY <1>1, <1>2

-----------------------------------------------------------------------------
(* cleanup_session keeps the index exact, whether or not the session was   *)
(* still registered, and whatever its current_user is by now.              *)
LEMMA CleanupLemma ==
    ASSUME IInv, NEW s \in Sessions, cleanup_session(s), UNCHANGED currentUser
    PROVE  /\ userDict' \in Dicts
           /\ RegisteredIffAttached'
           /\ IndexInv'
<1>0. /\ userDict \in Dicts
      /\ currentUser \in [Sessions -> Users \cup {NoUser}]
      /\ FalsyUsers \subseteq Users /\ NoUser \notin Users
  BY AppAssumption DEF IInv, TypeRest
<1>1. sessionDict' = sessionDict \ {s} /\ attached' = attached \ {s} /\ currentUser' = currentUser
  BY DEF cleanup_session
<1>2. RegisteredIffAttached'
  BY <1>1 DEF IInv, RegisteredIffAttached
<1>3. CASE currentUser[s] \in FalsyUsers \cup {NoUser}
  <2>1. userDict' = userDict
    BY <1>3 DEF cleanup_session
  <2>2. IndexInv'
    BY <1>0, <1>1, <1>3, <2>1 DEF IInv, IndexInv, get_user
  <2> QED BY <1>0, <1>2, <2>1, <2>2
<1>4. CASE currentUser[s] \notin FalsyUsers \cup {NoUser}
  <2> DEFINE u0 == currentUser[s]
  <2>1. userDict' = remove_user(userDict, u0, s)
    BY <1>4 DEF cleanup_session
  <2>2. u0 \in Users \cup {NoUser}
    BY <1>0
  <2>3. \A v \in DOMAIN userDict : userDict[v] # {}
    BY DEF IInv, IndexInv
  <2>4. /\ userDict' \in Dicts
        /\ \A v : get_user(userDict', v)
                    = IF v = u0 THEN get_user(userDict, v) \ {s} ELSE get_user(userDict, v)
        /\ \A v \in DOMAIN userDict' : userDict'[v] # {}
    BY <1>0, <2>1, <2>2, <2>3, RemoveUserLemma
  <2>5. ASSUME NEW u \in Users \ FalsyUsers, NEW x \in Sessions
        PROVE  x \in get_user(userDict', u) <=> x \in sessionDict' /\ currentUser'[x] = u
    <3>1. x \in get_user(userDict, u) <=> x \in sessionDict /\ currentUser[x] = u
      BY DEF IInv, IndexInv
    <3> QED BY <3>1, <2>4, <1>1
  <2>6. IndexInv'
    BY <2>4, <2>5 DEF IndexInv
  <2> QED BY <1>2, <2>4, <2>6
<1> QED BY <1>3, <1>4

(* The setter keeps the index exact, for a session that is still           *)
(* registered and for one that a failed send has cleaned up already.       *)
LEMMA SetUserLemma ==
    ASSUME IInv, NEW s \in Sessions, NEW v \in Users \cup {NoUser}, SetUser(s, v)
    PROVE  /\ userDict' \in Dicts
           /\ IndexInv'
<1>0. /\ userDict \in Dicts
      /\ currentUser \in [Sessions -> Users \cup {NoUser}]
      /\ NoUser \notin Users
      /\ sessionDict = attached
      /\ sessionDict' = sessionDict
      /\ currentUser' = [currentUser EXCEPT ![s] = v]
      /\ \A w \in DOMAIN userDict : userDict[w] # {}
  BY AppAssumption DEF IInv, TypeRest, SetUser, RegisteredIffAttached, IndexInv
<1>1. CASE s \notin attached
  <2>1. userDict' = userDict
    BY <1>1 DEF SetUser
  <2>2. ASSUME NEW u \in Users \ FalsyUsers, NEW x \in Sessions
        PROVE  x \in get_user(userDict', u) <=> x \in sessionDict' /\ currentUser'[x] = u
    <3>1. x \in get_user(userDict, u) <=> x \in sessionDict /\ currentUser[x] = u
      BY DEF IInv, IndexInv
    <3> QED BY <3>1, <2>1, <1>0, <1>1
  <2> QED BY <1>0, <2>1, <2>2 DEF IndexInv
<1>2. CASE s \in attached
  <2> DEFINE u0 == currentUser[s]
             mid == remove_user(userDict, u0, s)
  <2>1. userDict' = add_user(mid, v, s)
    BY <1>2 DEF SetUser
  <2>2. u0 \in Users \cup {NoUser}
    BY <1>0
  <2>3. /\ mid \in Dicts
        /\ \A w : get_user(mid, w)
                    = IF w = u0 THEN get_user(userDict, w) \ {s} ELSE get_user(userDict, w)
        /\ \A w \in DOMAIN mid : mid[w] # {}
    BY <1>0, <2>2, RemoveUserLemma
  <2> HIDE DEF mid
  <2>4. /\ userDict' \in Dicts
        /\ \A w \in Users : get_user(userDict', w)
                    = IF w = v THEN get_user(mid, w) \cup {s} ELSE get_user(mid, w)
        /\ \A w \in DOMAIN userDict' : userDict'[w] # {}
    BY <2>1, <2>3, AddUserLemma
  <2>5. ASSUME NEW u \in Users \ FalsyUsers, NEW x \in Sessions
        PROVE  x \in get_user(userDict', u) <=> x \in sessionDict' /\ currentUser'[x] = u
    <3>1. x \in get_user(userDict, u) <=> x \in sessionDict /\ currentUser[x] = u
      BY DEF IInv, IndexInv
    <3>2. x \in get_user(userDict', u)
            <=> (u = v /\ x = s) \/ (x \in get_user(userDict, u) /\ ~(u = u0 /\ x = s))
      BY <2>3, <2>4
    <3>3. CASE x = s
      BY <3>1, <3>2, <3>3, <1>0, <1>2
    <3>4. CASE x # s
      BY <3>1, <3>2, <3>4, <1>0
    <3> QED BY <3>3, <3>4
  <2> QED BY <2>4, <2>5 DEF IndexInv
<1> QED BY <1>1, <1>2

-----------------------------------------------------------------------------
(* IInv holds initially. *)
LEMMA InitLemma == Init => IInv
<1> SUFFICES ASSUME Init PROVE IInv
  OBVIOUS
<1>1. userDict = [u \in {} |-> {}]
  BY DEF Init
<1>2. userDict \in Dicts
  BY <1>1 DEF Dicts
<1>3. \A u : get_user(userDict, u) = {}
  BY <1>1 DEF get_user
<1>4. TypeRest
  BY DEF Init, TypeRest, HandlerState, SendState
<1>5. IndexInv
  BY <1>1, <1>3 DEF Init, IndexInv
<1> QED BY <1>2, <1>4, <1>5 DEF Init, IInv, RegisteredIffAttached, SenderInv, HandlerInv,
                          NoGhostSession, OpenSessionIsListed

(* A step that leaves the directory, the index and the users alone leaves  *)
(* their invariants alone.                                                 *)
LEMMA QuietIndex ==
    ASSUME IInv, UNCHANGED <<indexVars, currentUser>>
    PROVE  userDict' \in Dicts /\ RegisteredIffAttached' /\ IndexInv'
<1>1. /\ sessionDict' = sessionDict /\ userDict' = userDict
      /\ attached' = attached /\ currentUser' = currentUser
  BY DEF indexVars
<1>2. userDict \in Dicts /\ RegisteredIffAttached /\ IndexInv
  BY DEF IInv
<1>3. RegisteredIffAttached'
  BY <1>1, <1>2 DEF RegisteredIffAttached
<1>4. IndexInv'
  BY <1>1, <1>2 DEF IndexInv, get_user
<1> QED BY <1>1, <1>2, <1>3, <1>4

(* Every step preserves IInv. *)
LEMMA StepLemma == IInv /\ [Next]_vars => IInv'
<1> SUFFICES ASSUME IInv, [Next]_vars PROVE IInv'
  OBVIOUS
<1> USE AppAssumption
<1>0. TypeRest /\ userDict \in Dicts /\ RegisteredIffAttached
  BY DEF IInv
<1> USE DEF Goto
<1>1. ASSUME NEW s \in Sessions, CallbackReturns(s)
     PROVE  IInv'
  <2>1. userDict' \in Dicts /\ RegisteredIffAttached' /\ IndexInv'
    BY <1>1, QuietIndex DEF CallbackReturns
  <2>2. TypeRest'
    BY <1>1, <1>0 DEF CallbackReturns, TypeRest, HandlerState, SendState, indexVars, sendVars, Serving
  <2>3. SenderInv'
    BY <1>1, <1>0 DEF CallbackReturns, IInv, SenderInv, TypeRest, indexVars, sendVars
  <2>4. HandlerInv'
    BY <1>1, <1>0 DEF CallbackReturns, IInv, HandlerInv, NoGhostSession, TypeRest, indexVars
  <2>5. OpenSessionIsListed'
    BY <1>1, <1>0 DEF CallbackReturns, IInv, OpenSessionIsListed, TypeRest, Serving, indexVars
  <2> QED BY <2>1, <2>2, <2>3, <2>4, <2>5 DEF IInv
<1>2. ASSUME NEW s \in Sessions, HandlerRaises(s)
     PROVE  IInv'
  <2>1. userDict' \in Dicts /\ RegisteredIffAttached' /\ IndexInv'
    BY <1>2, QuietIndex DEF HandlerRaises
  <2>2. TypeRest'
    BY <1>2, <1>0 DEF HandlerRaises, TypeRest, HandlerState, SendState, indexVars, sendVars, Serving
  <2>3. SenderInv'
    BY <1>2, <1>0 DEF HandlerRaises, IInv, SenderInv, TypeRest, indexVars, sendVars
  <2>4. HandlerInv'
    BY <1>2, <1>0 DEF HandlerRaises, IInv, HandlerInv, NoGhostSession, TypeRest, indexVars
  <2>5. OpenSessionIsListed'
    BY <1>2, <1>0 DEF HandlerRaises, IInv, OpenSessionIsListed, TypeRest, Serving, indexVars
  <2> QED BY <2>1, <2>2, <2>3, <2>4, <2>5 DEF IInv
<1>3. ASSUME NEW s \in Sessions, ReceiveEnd(s)
     PROVE  IInv'
  <2>1. userDict' \in Dicts /\ RegisteredIffAttached' /\ IndexInv'
    BY <1>3, QuietIndex DEF ReceiveEnd
  <2>2. TypeRest'
    BY <1>3, <1>0 DEF ReceiveEnd, TypeRest, HandlerState, SendState, indexVars, sendVars, Serving
  <2>3. SenderInv'
    BY <1>3, <1>0 DEF ReceiveEnd, IInv, SenderInv, TypeRest, indexVars, sendVars
  <2>4. HandlerInv'
    BY <1>3, <1>0 DEF ReceiveEnd, IInv, HandlerInv, NoGhostSession, TypeRest, indexVars
  <2>5. OpenSessionIsListed'
    BY <1>3, <1>0 DEF ReceiveEnd, IInv, OpenSessionIsListed, TypeRest, Serving, indexVars
  <2> QED BY <2>1, <2>2, <2>3, <2>4, <2>5 DEF IInv
<1>4. ASSUME NEW s \in Sessions, FinishEnds(s)
     PROVE  IInv'
  <2>1. userDict' \in Dicts /\ RegisteredIffAttached' /\ IndexInv'
    BY <1>4, QuietIndex DEF FinishEnds
  <2>2. TypeRest'
    BY <1>4, <1>0 DEF FinishEnds, TypeRest, HandlerState, SendState, indexVars, sendVars, Serving
  <2>3. SenderInv'
    BY <1>4, <1>0 DEF FinishEnds, IInv, SenderInv, TypeRest, indexVars, sendVars
  <2>4. HandlerInv'
    BY <1>4, <1>0 DEF FinishEnds, IInv, HandlerInv, NoGhostSession, TypeRest, indexVars
  <2>5. OpenSessionIsListed'
    BY <1>4, <1>0 DEF FinishEnds, IInv, OpenSessionIsListed, TypeRest, Serving, indexVars
  <2> QED BY <2>1, <2>2, <2>3, <2>4, <2>5 DEF IInv
<1>5. ASSUME NEW s \in Sessions, CancelServing(s)
     PROVE  IInv'
  <2>1. userDict' \in Dicts /\ RegisteredIffAttached' /\ IndexInv'
    BY <1>5, QuietIndex DEF CancelServing
  <2>2. TypeRest'
    BY <1>5, <1>0 DEF CancelServing, TypeRest, HandlerState, SendState, indexVars, sendVars, Serving
  <2>3. SenderInv'
    BY <1>5, <1>0 DEF CancelServing, IInv, SenderInv, TypeRest, indexVars, sendVars
  <2>4. HandlerInv'
    BY <1>5, <1>0 DEF CancelServing, IInv, HandlerInv, NoGhostSession, TypeRest, indexVars
  <2>5. OpenSessionIsListed'
    BY <1>5, <1>0 DEF CancelServing, IInv, OpenSessionIsListed, TypeRest, Serving, indexVars
  <2> QED BY <2>1, <2>2, <2>3, <2>4, <2>5 DEF IInv
<1>6. ASSUME NEW s \in Sessions, ClientCloses(s)
     PROVE  IInv'
  <2>1. userDict' \in Dicts /\ RegisteredIffAttached' /\ IndexInv'
    BY <1>6, QuietIndex DEF ClientCloses
  <2>2. TypeRest'
    BY <1>6, <1>0 DEF ClientCloses, TypeRest, HandlerState, SendState, indexVars, sendVars, Serving
  <2>3. SenderInv'
    BY <1>6, <1>0 DEF ClientCloses, IInv, SenderInv, TypeRest, indexVars, sendVars
  <2>4. HandlerInv'
    BY <1>6, <1>0 DEF ClientCloses, IInv, HandlerInv, NoGhostSession, TypeRest, indexVars
  <2>5. OpenSessionIsListed'
    BY <1>6, <1>0 DEF ClientCloses, IInv, OpenSessionIsListed, TypeRest, Serving, indexVars
  <2> QED BY <2>1, <2>2, <2>3, <2>4, <2>5 DEF IInv
<1>7. ASSUME NEW s \in Sessions, CloseSession(s)
     PROVE  IInv'
  <2>1. userDict' \in Dicts /\ RegisteredIffAttached' /\ IndexInv'
    BY <1>7, QuietIndex DEF CloseSession
  <2>2. TypeRest'
    BY <1>7, <1>0 DEF CloseSession, TypeRest, HandlerState, SendState, indexVars, sendVars, Serving
  <2>3. SenderInv'
    BY <1>7, <1>0 DEF CloseSession, IInv, SenderInv, TypeRest, indexVars, sendVars
  <2>4. HandlerInv'
    BY <1>7, <1>0 DEF CloseSession, IInv, HandlerInv, NoGhostSession, TypeRest, indexVars
  <2>5. OpenSessionIsListed'
    BY <1>7, <1>0 DEF CloseSession, IInv, OpenSessionIsListed, TypeRest, Serving, indexVars
  <2> QED BY <2>1, <2>2, <2>3, <2>4, <2>5 DEF IInv
<1>8. ASSUME NEW s \in Sessions, RunClose(s)
     PROVE  IInv'
  <2>1. userDict' \in Dicts /\ RegisteredIffAttached' /\ IndexInv'
    BY <1>8, QuietIndex DEF RunClose
  <2>2. TypeRest'
    BY <1>8, <1>0 DEF RunClose, TypeRest, HandlerState, SendState, indexVars, sendVars, Serving
  <2>3. SenderInv'
    BY <1>8, <1>0 DEF RunClose, IInv, SenderInv, TypeRest, indexVars, sendVars
  <2>4. HandlerInv'
    BY <1>8, <1>0 DEF RunClose, IInv, HandlerInv, NoGhostSession, TypeRest, indexVars
  <2>5. OpenSessionIsListed'
    BY <1>8, <1>0 DEF RunClose, IInv, OpenSessionIsListed, TypeRest, Serving, indexVars
  <2> QED BY <2>1, <2>2, <2>3, <2>4, <2>5 DEF IInv
<1>9. ASSUME NEW s \in Sessions, NEW frame \in Frames, Receive(s, frame)
     PROVE  IInv'
  <2>1. userDict' \in Dicts /\ RegisteredIffAttached' /\ IndexInv'
    BY <1>9, QuietIndex DEF Receive
  <2>2. TypeRest'
    BY <1>9, <1>0 DEF Receive, TypeRest, HandlerState, SendState, indexVars, sendVars, Serving
  <2>3. SenderInv'
    BY <1>9, <1>0 DEF Receive, IInv, SenderInv, TypeRest, indexVars, sendVars
  <2>4. HandlerInv'
    BY <1>9, <1>0 DEF Receive, IInv, HandlerInv, NoGhostSession, TypeRest, indexVars
  <2>5. OpenSessionIsListed'
    BY <1>9, <1>0 DEF Receive, IInv, OpenSessionIsListed, TypeRest, Serving, indexVars
  <2> QED BY <2>1, <2>2, <2>3, <2>4, <2>5 DEF IInv
<1>10. ASSUME NEW u \in Users, DeleteUser(u)
     PROVE  IInv'
  <2>1. userDict' \in Dicts /\ RegisteredIffAttached' /\ IndexInv'
    BY <1>10, QuietIndex DEF DeleteUser
  <2>2. TypeRest'
    BY <1>10, <1>0 DEF DeleteUser, TypeRest, HandlerState, SendState, indexVars, sendVars, Serving, get_user, Dicts
  <2>3. SenderInv'
    BY <1>10, <1>0 DEF DeleteUser, IInv, SenderInv, TypeRest, indexVars, sendVars, get_user, Dicts
  <2>4. HandlerInv'
    BY <1>10, <1>0 DEF DeleteUser, IInv, HandlerInv, NoGhostSession, TypeRest, indexVars, get_user, Dicts
  <2>5. OpenSessionIsListed'
    BY <1>10, <1>0 DEF DeleteUser, IInv, OpenSessionIsListed, TypeRest, Serving, indexVars, get_user, Dicts
  <2> QED BY <2>1, <2>2, <2>3, <2>4, <2>5 DEF IInv
<1>11. ASSUME NEW t \in Senders, NEW s \in Sessions, ScheduleSend(t, s)
     PROVE  IInv'
  <2>1. userDict' \in Dicts /\ RegisteredIffAttached' /\ IndexInv'
    BY <1>11, QuietIndex DEF ScheduleSend
  <2>2. TypeRest'
    BY <1>11, <1>0 DEF ScheduleSend, TypeRest, HandlerState, SendState, indexVars, sendVars, Serving
  <2>3. SenderInv'
    BY <1>11, <1>0 DEF ScheduleSend, IInv, SenderInv, TypeRest, indexVars, sendVars
  <2>4. HandlerInv'
    BY <1>11, <1>0 DEF ScheduleSend, IInv, HandlerInv, NoGhostSession, TypeRest, indexVars
  <2>5. OpenSessionIsListed'
    BY <1>11, <1>0 DEF ScheduleSend, IInv, OpenSessionIsListed, TypeRest, Serving, indexVars
  <2> QED BY <2>1, <2>2, <2>3, <2>4, <2>5 DEF IInv
<1>12. ASSUME NEW t \in Senders, SendRefused(t)
     PROVE  IInv'
  <2>1. userDict' \in Dicts /\ RegisteredIffAttached' /\ IndexInv'
    BY <1>12, QuietIndex DEF SendRefused
  <2>2. TypeRest'
    BY <1>12, <1>0 DEF SendRefused, TypeRest, HandlerState, SendState, indexVars, sendVars, Serving, SendEnds
  <2>3. SenderInv'
    BY <1>12, <1>0 DEF SendRefused, IInv, SenderInv, TypeRest, indexVars, sendVars, SendEnds
  <2>4. HandlerInv'
    BY <1>12, <1>0 DEF SendRefused, IInv, HandlerInv, NoGhostSession, TypeRest, indexVars, SendEnds
  <2>5. OpenSessionIsListed'
    BY <1>12, <1>0 DEF SendRefused, IInv, OpenSessionIsListed, TypeRest, Serving, indexVars, SendEnds
  <2> QED BY <2>1, <2>2, <2>3, <2>4, <2>5 DEF IInv
<1>13. ASSUME NEW t \in Senders, SendStarts(t)
     PROVE  IInv'
  <2>1. userDict' \in Dicts /\ RegisteredIffAttached' /\ IndexInv'
    BY <1>13, QuietIndex DEF SendStarts
  <2>2. TypeRest'
    BY <1>13, <1>0 DEF SendStarts, TypeRest, HandlerState, SendState, indexVars, sendVars, Serving, SendEnds
  <2>3. SenderInv'
    BY <1>13, <1>0 DEF SendStarts, IInv, SenderInv, TypeRest, indexVars, sendVars, SendEnds
  <2>4. HandlerInv'
    BY <1>13, <1>0 DEF SendStarts, IInv, HandlerInv, NoGhostSession, TypeRest, indexVars, SendEnds
  <2>5. OpenSessionIsListed'
    BY <1>13, <1>0 DEF SendStarts, IInv, OpenSessionIsListed, TypeRest, Serving, indexVars, SendEnds
  <2> QED BY <2>1, <2>2, <2>3, <2>4, <2>5 DEF IInv
<1>14. ASSUME NEW t \in Senders, SendReturns(t)
     PROVE  IInv'
  <2>1. userDict' \in Dicts /\ RegisteredIffAttached' /\ IndexInv'
    BY <1>14, QuietIndex DEF SendReturns
  <2>2. TypeRest'
    BY <1>14, <1>0 DEF SendReturns, TypeRest, HandlerState, SendState, indexVars, sendVars, Serving, SendEnds
  <2>3. SenderInv'
    BY <1>14, <1>0 DEF SendReturns, IInv, SenderInv, TypeRest, indexVars, sendVars, SendEnds
  <2>4. HandlerInv'
    BY <1>14, <1>0 DEF SendReturns, IInv, HandlerInv, NoGhostSession, TypeRest, indexVars, SendEnds
  <2>5. OpenSessionIsListed'
    BY <1>14, <1>0 DEF SendReturns, IInv, OpenSessionIsListed, TypeRest, Serving, indexVars, SendEnds
  <2> QED BY <2>1, <2>2, <2>3, <2>4, <2>5 DEF IInv
<1>15. ASSUME NEW t \in Senders, SendRaises(t)
     PROVE  IInv'
  <2>1. userDict' \in Dicts /\ RegisteredIffAttached' /\ IndexInv'
    BY <1>15, QuietIndex DEF SendRaises
  <2>2. TypeRest'
    BY <1>15, <1>0 DEF SendRaises, TypeRest, HandlerState, SendState, indexVars, sendVars, Serving, SendEnds
  <2>3. SenderInv'
    BY <1>15, <1>0 DEF SendRaises, IInv, SenderInv, TypeRest, indexVars, sendVars, SendEnds
  <2>4. HandlerInv'
    BY <1>15, <1>0 DEF SendRaises, IInv, HandlerInv, NoGhostSession, TypeRest, indexVars, SendEnds
  <2>5. OpenSessionIsListed'
    BY <1>15, <1>0 DEF SendRaises, IInv, OpenSessionIsListed, TypeRest, Serving, indexVars, SendEnds
  <2> QED BY <2>1, <2>2, <2>3, <2>4, <2>5 DEF IInv
<1>16. ASSUME NEW s \in Sessions, Connect(s)
     PROVE  IInv'
  <2>0. /\ s \notin sessionDict /\ s \notin attached
        /\ \A t \in Senders : sendTo[t] # s
        /\ \A v \in DOMAIN userDict : s \notin userDict[v]
    BY <1>16, <1>0 DEF Connect, setup_session, Referenced, Range, TypeRest
  <2>1. userDict' \in Dicts /\ RegisteredIffAttached'
    BY <1>16, <1>0 DEF Connect, setup_session, RegisteredIffAttached
  <2>2. IndexInv'
    BY <1>16, <1>0, <2>0 DEF Connect, setup_session, IInv, IndexInv, get_user, TypeRest
  <2>3. TypeRest'
    BY <1>16, <1>0 DEF Connect, setup_session, TypeRest, HandlerState, Serving, sendVars
  <2>4. SenderInv'
    BY <1>16, <1>0, <2>0 DEF Connect, setup_session, IInv, SenderInv, TypeRest, sendVars
  <2>5. HandlerInv'
    BY <1>16, <1>0 DEF Connect, setup_session, IInv, HandlerInv, NoGhostSession, TypeRest
  <2>6. OpenSessionIsListed'
    BY <1>16, <1>0 DEF Connect, setup_session, IInv, OpenSessionIsListed, TypeRest, Serving
  <2> QED BY <2>1, <2>2, <2>3, <2>4, <2>5, <2>6 DEF IInv
<1>17. ASSUME NEW s \in Sessions, NEW v \in Users \cup {NoUser}, SetUser(s, v)
     PROVE  IInv'
  <2>1. userDict' \in Dicts /\ IndexInv'
    BY <1>17, SetUserLemma
  <2>2. RegisteredIffAttached'
    BY <1>17, <1>0 DEF SetUser, RegisteredIffAttached
  <2>3. TypeRest'
    BY <1>17, <1>0 DEF SetUser, TypeRest, sendVars
  <2>4. SenderInv' /\ HandlerInv' /\ OpenSessionIsListed'
    BY <1>17 DEF SetUser, IInv, SenderInv, HandlerInv, NoGhostSession, OpenSessionIsListed, sendVars
  <2> QED BY <2>1, <2>2, <2>3, <2>4 DEF IInv
<1>18. ASSUME NEW s \in Sessions, CloseReturns(s)
     PROVE  IInv'
  <2> USE <1>18, <1>0 DEF HandlerEnds
  <2>1. userDict' \in Dicts /\ RegisteredIffAttached' /\ IndexInv'
    BY CleanupLemma, QuietIndex DEF CloseReturns, indexVars
  <2>2. sessionDict' \in {sessionDict, sessionDict \ {s}} /\ attached' \subseteq attached
    BY DEF CloseReturns, cleanup_session, indexVars
  <2>3. TypeRest'
    BY <2>2 DEF CloseReturns, TypeRest, HandlerState, sendVars
  <2>4. SenderInv'
    BY DEF CloseReturns, IInv, SenderInv, TypeRest, sendVars
  <2>5. HandlerInv'
    BY DEF CloseReturns, IInv, HandlerInv, NoGhostSession, TypeRest, cleanup_session
  <2>6. OpenSessionIsListed'
    BY <2>2 DEF CloseReturns, IInv, OpenSessionIsListed, TypeRest, Serving
  <2> QED BY <2>1, <2>3, <2>4, <2>5, <2>6 DEF IInv
<1>19. ASSUME NEW s \in Sessions, CancelClose(s)
     PROVE  IInv'
  <2> USE <1>19, <1>0 DEF HandlerEnds
  <2>1. userDict' \in Dicts /\ RegisteredIffAttached' /\ IndexInv'
    BY CleanupLemma, QuietIndex DEF CancelClose, indexVars
  <2>2. sessionDict' \in {sessionDict, sessionDict \ {s}} /\ attached' \subseteq attached
    BY DEF CancelClose, cleanup_session, indexVars
  <2>3. TypeRest'
    BY <2>2 DEF CancelClose, TypeRest, HandlerState, sendVars
  <2>4. SenderInv'
    BY DEF CancelClose, IInv, SenderInv, TypeRest, sendVars
  <2>5. HandlerInv'
    BY DEF CancelClose, IInv, HandlerInv, NoGhostSession, TypeRest, cleanup_session
  <2>6. OpenSessionIsListed'
    BY <2>2 DEF CancelClose, IInv, OpenSessionIsListed, TypeRest, Serving
  <2> QED BY <2>1, <2>3, <2>4, <2>5, <2>6 DEF IInv
<1>20. ASSUME NEW s \in Sessions, CancelFinish(s)
     PROVE  IInv'
  <2> USE <1>20, <1>0 DEF HandlerEnds
  <2>1. userDict' \in Dicts /\ RegisteredIffAttached' /\ IndexInv'
    BY QuietIndex DEF CancelFinish, indexVars
  <2>2. TypeRest'
    BY DEF CancelFinish, TypeRest, HandlerState, indexVars, sendVars
  <2>3. SenderInv'
    BY DEF CancelFinish, IInv, SenderInv, TypeRest, sendVars
  <2>4. HandlerInv'
    BY DEF CancelFinish, IInv, HandlerInv, NoGhostSession, TypeRest, indexVars
  <2>5. OpenSessionIsListed'
    BY DEF CancelFinish, IInv, OpenSessionIsListed, TypeRest, Serving, indexVars
  <2> QED BY <2>1, <2>2, <2>3, <2>4, <2>5 DEF IInv
<1>21. ASSUME NEW t \in Senders, SendCleansUp(t)
     PROVE  IInv'
  <2> USE <1>21, <1>0 DEF SendEnds
  <2>0. sendTo[t] \in Sessions /\ sendTo[t] \notin open
    BY DEF SendCleansUp, IInv, SenderInv
  <2>1. userDict' \in Dicts /\ RegisteredIffAttached' /\ IndexInv'
    BY <2>0, CleanupLemma, QuietIndex DEF SendCleansUp, indexVars
  <2>2. /\ sessionDict' \in {sessionDict, sessionDict \ {sendTo[t]}}
        /\ attached' \subseteq attached
    BY DEF SendCleansUp, cleanup_session, indexVars
  <2>3. TypeRest'
    BY <2>2 DEF SendCleansUp, TypeRest, SendState
  <2>4. SenderInv'
    BY DEF SendCleansUp, IInv, SenderInv, TypeRest
  <2>5. HandlerInv'
    BY <2>2 DEF SendCleansUp, IInv, HandlerInv, NoGhostSession, TypeRest
  <2>6. OpenSessionIsListed'
    BY <2>0, <2>2 DEF SendCleansUp, IInv, OpenSessionIsListed, TypeRest
  <2> QED BY <2>1, <2>3, <2>4, <2>5, <2>6 DEF IInv
<1>22. CASE UNCHANGED vars
  <2>1. userDict' \in Dicts /\ RegisteredIffAttached' /\ IndexInv'
    BY <1>22, QuietIndex DEF vars, indexVars
  <2>2. TypeRest' /\ SenderInv' /\ HandlerInv' /\ OpenSessionIsListed'
    BY <1>22, <1>0 DEF vars, IInv, TypeRest, SenderInv, HandlerInv, NoGhostSession, OpenSessionIsListed
  <2> QED BY <2>1, <2>2 DEF IInv
<1> QED
  BY <1>1, <1>2, <1>3, <1>4, <1>5, <1>6, <1>7, <1>8, <1>9, <1>10, <1>11, <1>12, <1>13, <1>14, <1>15, <1>16, <1>17, <1>18, <1>19, <1>20, <1>21, <1>22
  DEF Next, Handler, Others, Sender

-----------------------------------------------------------------------------
(* IInv is an invariant of WebsocketApp. *)
THEOREM Invariance == Spec => []IInv
<1> QED BY InitLemma, StepLemma, PTL DEF Spec

(* The variables keep their types: in particular no key of the user index  *)
(* is ever anything but a user.                                            *)
THEOREM TypeCorrect == Spec => []TypeOK
<1>1. IInv => TypeOK
  BY DEF IInv, TypeOK, TypeRest, Dicts
<1> QED BY <1>1, Invariance, PTL

(* What db 1 shows is what db 0 shows grouped by user, for every user but  *)
(* the falsy ones, whatever fails, is cancelled or is closed in between.   *)
THEOREM IndexIsExact == Spec => []UserIndexExact
<1>1. IInv => UserIndexExact
  BY DEF IInv, UserIndexExact, IndexInv, TypeRest, Dicts, get_user
<1> QED BY <1>1, Invariance, PTL

(* No failure path takes an open session that is served out of the directory. *)
THEOREM OpenIsListed == Spec => []OpenSessionIsListed
<1>1. IInv => OpenSessionIsListed
  BY DEF IInv
<1> QED BY <1>1, Invariance, PTL

(* Where CancelledError is an Exception, no ended handler leaves its       *)
(* session in the directory.                                               *)
THEOREM NoGhosts == ASSUME CancelIsException PROVE Spec => []NoGhostSession
<1>1. IInv => NoGhostSession
  BY DEF IInv, HandlerInv
<1> QED BY <1>1, Invariance, PTL

-----------------------------------------------------------------------------
(* The refinement of Presence, for an application without falsy users.     *)

(* What IInv makes of the index: the mapping read off the sessions.        *)
LoggedIn == [s \in Sessions |-> {u \in Users : s \in sessionDict /\ currentUser[s] = u}]

MappedIndex == who = LoggedIn

(* Under IInv a session is found under the user it is logged in as. *)
LEMMA WhoLemma == IInv /\ FalsyUsers = {} => MappedIndex
<1> SUFFICES ASSUME IInv, FalsyUsers = {},
                    NEW s \in Sessions
             PROVE  {u \in DOMAIN userDict : s \in userDict[u]}
                      = {u \in Users : s \in sessionDict /\ currentUser[s] = u}
  BY DEF MappedIndex, who, LoggedIn
<1>1. DOMAIN userDict \subseteq Users
  BY DEF IInv, Dicts
<1>2. \A u \in Users : s \in get_user(userDict, u) <=> s \in sessionDict /\ currentUser[s] = u
  BY DEF IInv, IndexInv
<1> QED BY <1>1, <1>2 DEF get_user

(* A step that leaves directory and users alone is invisible. *)
LEMMA QuietPresence ==
    ASSUME who = LoggedIn, who' = LoggedIn', UNCHANGED <<sessionDict, currentUser>>
    PROVE  UNCHANGED P!vars
<1>1. sessionDict' = sessionDict /\ currentUser' = currentUser
  OBVIOUS
<1>2. LoggedIn' = LoggedIn
  BY <1>1 DEF LoggedIn
<1> QED BY <1>1, <1>2 DEF P!vars

(* cleanup_session is the session's leaving, or invisible if it has left already. *)
LEMMA CleanupPresence ==
    ASSUME who = LoggedIn, who' = LoggedIn', NEW s \in Sessions,
           cleanup_session(s), UNCHANGED currentUser
    PROVE  [P!Next]_(P!vars)
<1>1. sessionDict' = sessionDict \ {s} /\ currentUser' = currentUser
  BY DEF cleanup_session
<1>2. CASE s \notin sessionDict
  <2>1. sessionDict' = sessionDict
    BY <1>1, <1>2
  <2> QED BY <1>1, <2>1, QuietPresence
<1>3. CASE s \in sessionDict
  <2>1. who' = [who EXCEPT ![s] = {}]
    <3>1. \A x \in Sessions : LoggedIn'[x] = IF x = s THEN {} ELSE LoggedIn[x]
      BY <1>1 DEF LoggedIn
    <3> QED BY <3>1 DEF LoggedIn
  <2>2. P!Leave(s)
    BY <1>1, <1>3, <2>1 DEF P!Leave
  <2> QED BY <2>2 DEF P!Next
<1> QED BY <1>2, <1>3

(* Every step of WebsocketApp is a step of Presence or changes nothing in it. *)
LEMMA StepPresence ==
    ASSUME FalsyUsers = {}, IInv, who = LoggedIn, who' = LoggedIn', [Next]_vars
    PROVE  [P!Next]_(P!vars)
<1>1. ASSUME NEW s \in Sessions, Connect(s)
      PROVE  [P!Next]_(P!vars)
  <2>1. /\ s \notin sessionDict
        /\ sessionDict' = sessionDict \cup {s}
        /\ currentUser' = [currentUser EXCEPT ![s] = NoUser]
        /\ currentUser \in [Sessions -> Users \cup {NoUser}]
    BY <1>1 DEF Connect, setup_session, Referenced, IInv, TypeRest
  <2>2. \A x \in Sessions : LoggedIn'[x] = LoggedIn[x]
    BY <2>1, AppAssumption DEF LoggedIn
  <2>3. who' = who
    BY <2>2 DEF LoggedIn
  <2>4. P!Join(s)
    BY <2>1, <2>3 DEF P!Join
  <2> QED BY <2>4 DEF P!Next
<1>2. ASSUME NEW s \in Sessions, NEW v \in Users \cup {NoUser}, SetUser(s, v)
      PROVE  [P!Next]_(P!vars)
  <2>1. /\ sessionDict' = sessionDict
        /\ currentUser' = [currentUser EXCEPT ![s] = v]
        /\ currentUser \in [Sessions -> Users \cup {NoUser}]
    BY <1>2 DEF SetUser, IInv, TypeRest
  <2>2. CASE s \notin sessionDict
    <3>1. \A x \in Sessions : LoggedIn'[x] = LoggedIn[x]
      BY <2>1, <2>2 DEF LoggedIn
    <3>2. who' = who
      BY <3>1 DEF LoggedIn
    <3> QED BY <2>1, <3>2 DEF P!vars
  <2>3. CASE s \in sessionDict /\ v \in Users
    <3>1. \A x \in Sessions : LoggedIn'[x] = IF x = s THEN {v} ELSE LoggedIn[x]
      BY <2>1, <2>3 DEF LoggedIn
    <3>2. who' = [who EXCEPT ![s] = {v}]
      BY <3>1 DEF LoggedIn
    <3>3. P!Login(s, v)
      BY <2>1, <2>3, <3>2 DEF P!Login
    <3> QED BY <2>3, <3>3 DEF P!Next
  <2>4. CASE s \in sessionDict /\ v = NoUser
    <3>1. \A x \in Sessions : LoggedIn'[x] = IF x = s THEN {} ELSE LoggedIn[x]
      BY <2>1, <2>4, AppAssumption DEF LoggedIn
    <3>2. who' = [who EXCEPT ![s] = {}]
      BY <3>1 DEF LoggedIn
    <3>3. P!Logout(s)
      BY <2>1, <2>4, <3>2 DEF P!Logout
    <3> QED BY <3>3 DEF P!Next
  <2> QED BY <2>2, <2>3, <2>4
<1>3. ASSUME NEW s \in Sessions, CloseReturns(s) \/ CancelFinish(s) \/ CancelClose(s)
      PROVE  [P!Next]_(P!vars)
  <2>1. /\ UNCHANGED currentUser
        /\ cleanup_session(s) \/ UNCHANGED sessionDict
    BY <1>3 DEF CloseReturns, CancelFinish, CancelClose, HandlerEnds, indexVars
  <2> QED BY <2>1, CleanupPresence, QuietPresence
<1>4. ASSUME NEW t \in Senders, SendCleansUp(t)
      PROVE  [P!Next]_(P!vars)
  <2>1. sendTo[t] \in Sessions
    BY <1>4 DEF SendCleansUp, IInv, SenderInv
  <2>2. /\ UNCHANGED currentUser
        /\ cleanup_session(sendTo[t]) \/ UNCHANGED sessionDict
    BY <1>4 DEF SendCleansUp, indexVars
  <2> QED BY <2>1, <2>2, CleanupPresence, QuietPresence
<1>5. CASE UNCHANGED <<sessionDict, currentUser>>
  BY <1>5, QuietPresence
<1>6. ASSUME NEW s \in Sessions,
             \/ CallbackReturns(s) \/ HandlerRaises(s) \/ ReceiveEnd(s) \/ FinishEnds(s)
             \/ CancelServing(s) \/ ClientCloses(s) \/ CloseSession(s) \/ RunClose(s)
             \/ \E frame \in Frames : Receive(s, frame)
      PROVE  UNCHANGED <<sessionDict, currentUser>>
  BY <1>6 DEF CallbackReturns, HandlerRaises, ReceiveEnd, FinishEnds, CancelServing,
              ClientCloses, CloseSession, RunClose, Receive, indexVars
<1>7. ASSUME NEW t \in Senders,
             \/ SendRefused(t) \/ SendStarts(t) \/ SendReturns(t) \/ SendRaises(t)
             \/ \E s \in Sessions : ScheduleSend(t, s)
      PROVE  UNCHANGED <<sessionDict, currentUser>>
  BY <1>7 DEF SendRefused, SendStarts, SendReturns, SendRaises, ScheduleSend, indexVars
<1>8. ASSUME NEW u \in Users, DeleteUser(u)
      PROVE  UNCHANGED <<sessionDict, currentUser>>
  BY <1>8 DEF DeleteUser, indexVars
<1>9. CASE UNCHANGED vars
  BY <1>5, <1>9 DEF vars
<1> QED
  BY <1>1, <1>2, <1>3, <1>4, <1>5, <1>6, <1>7, <1>8, <1>9 DEF Next, Handler, Others, Sender

(* WebsocketApp implements Presence: sessions come and go and log in and   *)
(* out one at a time, and nobody stays under a user after leaving.         *)
THEOREM ImplementsPresence == ASSUME FalsyUsers = {} PROVE Spec => PresenceSpec
<1>1. Init => P!Init
  <2> SUFFICES ASSUME Init PROVE P!Init
    OBVIOUS
  <2>1. sessionDict = {} /\ userDict = [u \in {} |-> {}]
    BY DEF Init
  <2> QED BY <2>1 DEF P!Init, who
<1>2. IInv => MappedIndex
  BY WhoLemma
<1>3. IInv' => MappedIndex'
  BY <1>2, PTL
<1>4. IInv /\ IInv' /\ [Next]_vars => [P!Next]_(P!vars)
  BY <1>2, <1>3, StepPresence DEF MappedIndex
<1> QED BY <1>1, <1>4, Invariance, PTL DEF Spec, P!Spec, PresenceSpec

=============================================================================
