---------------------------- MODULE WebsocketApp ----------------------------
(***************************************************************************)
(* The websocket side of a node: WebsocketApp (websocket_app.py), which    *)
(* keeps a directory of sessions and an index of users, and the            *)
(* WebsocketSession objects (websocket_session.py) that its connection     *)
(* handlers, the tasks that send to them and the redis commands that close *)
(* them all work on.                                                       *)
(*                                                                         *)
(* asyncio runs one task at a time and switches only at an await, so an    *)
(* action is the code between two awaits.  A session's current_user may be *)
(* assigned by its own callbacks or by any other task that found it.       *)
(***************************************************************************)
EXTENDS Functions

CONSTANTS
    Sessions,           \* session objects; one is reused once nothing holds it
    Users,              \* strings a callback may store in current_user
    FalsyUsers,         \* those of them that Python takes for false: the empty string
    NoUser,             \* None in current_user
    NoSession,          \* the target of a sender that is not sending
    Senders,            \* tasks inside WebsocketSession.send
    Frames,             \* frames a client may send: [type, decodes]
    CancelIsException   \* CancelledError is an Exception (Python 3.7), or not (3.8)

(* aiohttp.WSMsgType: the numbers matter to PassedToLoads. *)
TEXT == 1
BINARY == 2
PING == 9

ASSUME AppAssumption ==
    /\ FalsyUsers \subseteq Users
    /\ NoUser \notin Users
    /\ NoSession \notin Sessions
    /\ CancelIsException \in BOOLEAN
    /\ Frames \subseteq [type : {TEXT, BINARY, PING}, decodes : BOOLEAN]

VARIABLES
    sessionDict,    \* the keys of _session_dict
    userDict,       \* _user_dict: a set of sessions for each key it holds
    currentUser,    \* session._current_user
    attached,       \* sessions whose .app and .socket are set
    open,           \* sessions whose WebSocketResponse is not closing or closed
    pc,             \* where the session's connection handler is
    escaped,        \* handlers unwinding with an exception nothing catches
    sendAt,         \* where a sender task is inside send()
    sendTo,         \* the session it sends to
    closers,        \* sessions with a close() task that has not run yet
    dropped         \* types of the decodable data frames no request() ever saw

vars == <<sessionDict, userDict, currentUser, attached, open, pc, escaped,
          sendAt, sendTo, closers, dropped>>

indexVars == <<sessionDict, userDict, attached>>
sendVars == <<sendAt, sendTo>>

-----------------------------------------------------------------------------
(* The operations of WebsocketApp, as functions of the user index. *)

(* get_user: dict.get does not create the key, though _user_dict is a defaultdict. *)
get_user(dict, u) == IF u \in DOMAIN dict THEN dict[u] ELSE {}

(* The key is popped together with its last session. *)
remove_user(dict, u, s) ==
    IF s \notin get_user(dict, u) THEN dict
    ELSE IF dict[u] = {s} THEN [v \in DOMAIN dict \ {u} |-> dict[v]]
    ELSE [dict EXCEPT ![u] = @ \ {s}]

(* Mutant: None is stored as a user. *)
Mut_add_user(dict, u, s) ==
    [v \in DOMAIN dict \cup {u} |->
        IF v = u THEN get_user(dict, u) \cup {s} ELSE dict[v]]

add_user(dict, u, s) ==
    IF u = NoUser THEN dict
    ELSE [v \in DOMAIN dict \cup {u} |->
            IF v = u THEN get_user(dict, u) \cup {s} ELSE dict[v]]

(* Mutant: a cleaned up session keeps its app. *)
Mut_cleanup_session(s) ==
    /\ userDict' = remove_user(userDict, currentUser[s], s)
    /\ sessionDict' = sessionDict \ {s}
    /\ UNCHANGED attached

(* Mutant: only sessions with a user are removed from the directory. *)
Mut2_cleanup_session(s) ==
    /\ userDict' = remove_user(userDict, currentUser[s], s)
    /\ sessionDict' = IF currentUser[s] = NoUser THEN sessionDict ELSE sessionDict \ {s}
    /\ attached' = attached \ {s}

(* The user is forgotten only if current_user is true in the sense of      *)
(* Python: neither None nor the empty string.                              *)
cleanup_session(s) ==
    /\ userDict' = IF currentUser[s] \in FalsyUsers \cup {NoUser} THEN userDict
                   ELSE remove_user(userDict, currentUser[s], s)
    /\ sessionDict' = sessionDict \ {s}
    /\ attached' = attached \ {s}

(* add_session, with the socket and the app that make a session usable. *)
setup_session(s) ==
    /\ sessionDict' = sessionDict \cup {s}
    /\ attached' = attached \cup {s}

(* Line 79 tests msg.type against the tuple (TEXT, msg.type == BINARY),    *)
(* whose second member is False or True, that is 0 or 1.                   *)
PassedToLoads(type) == type \in {TEXT, IF type = BINARY THEN 1 ELSE 0}

-----------------------------------------------------------------------------
(* The connection handler. *)

Callback == {"prepare", "request", "finish"}
Serving == {"prepare", "receive", "request", "finish"}
HandlerState == Serving \cup {"closing", "done"}
SendState == {"idle", "scheduled", "sending", "closing"}

(* Who holds a session besides its handler. *)
Referenced(s) ==
    \/ s \in sessionDict \cup attached \cup closers
    \/ s \in UNION Range(userDict)
    \/ s \in Range(sendTo)

Init ==
    /\ sessionDict = {}
    /\ userDict = [u \in {} |-> {}]
    /\ currentUser = [s \in Sessions |-> NoUser]
    /\ attached = {}
    /\ open = {}
    /\ pc = [s \in Sessions |-> "done"]
    /\ escaped = {}
    /\ sendAt = [t \in Senders |-> "idle"]
    /\ sendTo = [t \in Senders |-> NoSession]
    /\ closers = {}
    /\ dropped = {}

(* ws.prepare has returned: a new session object is set up and its         *)
(* prepare() callback starts.                                              *)
Connect(s) ==
    /\ pc[s] = "done"
    /\ ~Referenced(s)
    /\ setup_session(s)
    /\ open' = open \cup {s}
    /\ currentUser' = [currentUser EXCEPT ![s] = NoUser]
    /\ pc' = [pc EXCEPT ![s] = "prepare"]
    /\ UNCHANGED <<userDict, escaped, sendVars, closers, dropped>>

(* Mutant: the setter does not take the session from its former user. *)
Mut_SetUser(s, v) ==
    /\ pc[s] \in Serving \cup {"closing"}
    /\ currentUser' = [currentUser EXCEPT ![s] = v]
    /\ userDict' = IF s \in attached THEN add_user(userDict, v, s) ELSE userDict
    /\ UNCHANGED <<sessionDict, attached, open, pc, escaped, sendVars, closers, dropped>>

(* The current_user setter: a session whose app is gone keeps the value    *)
(* but is not indexed.                                                     *)
SetUser(s, v) ==
    /\ pc[s] \in Serving \cup {"closing"}
    /\ currentUser' = [currentUser EXCEPT ![s] = v]
    /\ userDict' = IF s \in attached
                   THEN add_user(remove_user(userDict, currentUser[s], s), v, s)
                   ELSE userDict
    /\ UNCHANGED <<sessionDict, attached, open, pc, escaped, sendVars, closers, dropped>>

Goto(s, label) == pc' = [pc EXCEPT ![s] = label]

(* prepare() or request() returned: the loop waits for the next message. *)
CallbackReturns(s) ==
    /\ pc[s] \in {"prepare", "request"}
    /\ Goto(s, "receive")
    /\ UNCHANGED <<indexVars, currentUser, open, escaped, sendVars, closers, dropped>>

(* prepare() or request() raised, or receive() did (a read timeout). *)
HandlerRaises(s) ==
    /\ pc[s] \in {"prepare", "receive", "request"}
    /\ Goto(s, "finish")
    /\ UNCHANGED <<indexVars, currentUser, open, escaped, sendVars, closers, dropped>>

(* receive() returned a message that does not end the connection. *)
Receive(s, frame) ==
    LET isData == frame.type \in {TEXT, BINARY} IN
    /\ pc[s] = "receive"
    /\ s \in open
    /\ Goto(s, IF PassedToLoads(frame.type) /\ frame.decodes THEN "request" ELSE "receive")
    /\ dropped' = IF isData /\ frame.decodes /\ ~PassedToLoads(frame.type)
                  THEN dropped \cup {frame.type} ELSE dropped
    /\ UNCHANGED <<indexVars, currentUser, open, escaped, sendVars, closers>>

(* The client closes the websocket, or the connection is lost. *)
ClientCloses(s) ==
    /\ pc[s] # "done"
    /\ s \in open
    /\ open' = open \ {s}
    /\ UNCHANGED <<indexVars, currentUser, pc, escaped, sendVars, closers, dropped>>

(* Mutant: the loop goes on after a close message. *)
Mut_ReceiveEnd(s) ==
    /\ pc[s] = "receive"
    /\ s \notin open
    /\ UNCHANGED vars

(* receive() returned CLOSE, CLOSING, CLOSED or ERROR: the loop breaks. *)
ReceiveEnd(s) ==
    /\ pc[s] = "receive"
    /\ s \notin open
    /\ Goto(s, "finish")
    /\ UNCHANGED <<indexVars, currentUser, open, escaped, sendVars, closers, dropped>>

(* on_finish() returned or raised: ws.close() starts. *)
FinishEnds(s) ==
    /\ pc[s] = "finish"
    /\ Goto(s, "closing")
    /\ open' = open \ {s}
    /\ UNCHANGED <<indexVars, currentUser, escaped, sendVars, closers, dropped>>

(* The handler ends: it reaches cleanup_session, which stands after the    *)
(* try statement, unless an exception is on its way out.                   *)
HandlerEnds(s, raising) ==
    /\ Goto(s, "done")
    /\ escaped' = escaped \ {s}
    /\ IF raising THEN UNCHANGED indexVars ELSE cleanup_session(s)
    /\ UNCHANGED <<currentUser, sendVars, closers, dropped>>

CloseReturns(s) ==
    /\ pc[s] = "closing"
    /\ HandlerEnds(s, s \in escaped)
    /\ UNCHANGED open

-----------------------------------------------------------------------------
(* Cancellation of the handler task, at each place where it can wait. *)

(* Inside the try block: the finally clause runs either way. *)
CancelServing(s) ==
    /\ pc[s] \in {"prepare", "receive", "request"}
    /\ Goto(s, "finish")
    /\ escaped' = IF CancelIsException THEN escaped ELSE escaped \cup {s}
    /\ UNCHANGED <<indexVars, currentUser, open, sendVars, closers, dropped>>

(* Inside on_finish(): if "except Exception" lets it pass, ws.close() is skipped too. *)
CancelFinish(s) ==
    /\ pc[s] = "finish"
    /\ IF CancelIsException
       THEN /\ Goto(s, "closing")
            /\ open' = open \ {s}
            /\ UNCHANGED <<indexVars, currentUser, escaped, sendVars, closers, dropped>>
       ELSE HandlerEnds(s, TRUE) /\ UNCHANGED open

(* Inside ws.close(). *)
CancelClose(s) ==
    /\ pc[s] = "closing"
    /\ HandlerEnds(s, ~CancelIsException \/ s \in escaped)
    /\ UNCHANGED open

-----------------------------------------------------------------------------
(* WebsocketSession.send, run by a task of its own. *)

(* Any task that can look a session up, or a callback of its own. *)
ScheduleSend(t, s) ==
    /\ sendAt[t] = "idle"
    /\ s \in sessionDict \cup UNION Range(userDict) \/ pc[s] \in Callback
    /\ sendAt' = [sendAt EXCEPT ![t] = "scheduled"]
    /\ sendTo' = [sendTo EXCEPT ![t] = s]
    /\ UNCHANGED <<indexVars, currentUser, open, pc, escaped, closers, dropped>>

SendEnds(t) ==
    /\ sendAt' = [sendAt EXCEPT ![t] = "idle"]
    /\ sendTo' = [sendTo EXCEPT ![t] = NoSession]

(* The task's first step: no socket any more, or a message that cannot be dumped. *)
SendRefused(t) ==
    /\ sendAt[t] = "scheduled"
    /\ SendEnds(t)
    /\ UNCHANGED <<indexVars, currentUser, open, pc, escaped, closers, dropped>>

SendStarts(t) ==
    /\ sendAt[t] = "scheduled"
    /\ sendTo[t] \in attached
    /\ sendAt' = [sendAt EXCEPT ![t] = "sending"]
    /\ UNCHANGED <<indexVars, currentUser, open, pc, escaped, sendTo, closers, dropped>>

SendReturns(t) ==
    /\ sendAt[t] = "sending"
    /\ SendEnds(t)
    /\ UNCHANGED <<indexVars, currentUser, open, pc, escaped, closers, dropped>>

(* Mutant: a failed send cleans the session up without closing its socket. *)
Mut_SendRaises(t) ==
    /\ sendAt[t] = "sending"
    /\ sendAt' = [sendAt EXCEPT ![t] = "closing"]
    /\ UNCHANGED <<indexVars, currentUser, open, pc, escaped, sendTo, closers, dropped>>

(* send_str raised: close() does nothing if the session was cleaned up in  *)
(* the meantime, and then there is no app to clean it up with either.      *)
SendRaises(t) ==
    /\ sendAt[t] = "sending"
    /\ IF sendTo[t] \in attached
       THEN /\ open' = open \ {sendTo[t]}
            /\ sendAt' = [sendAt EXCEPT ![t] = "closing"]
            /\ UNCHANGED sendTo
       ELSE SendEnds(t) /\ UNCHANGED open
    /\ UNCHANGED <<indexVars, currentUser, pc, escaped, closers, dropped>>

(* close() returned; the handler may have cleaned the session up while it waited. *)
SendCleansUp(t) ==
    /\ sendAt[t] = "closing"
    /\ IF sendTo[t] \in attached THEN cleanup_session(sendTo[t]) ELSE UNCHANGED indexVars
    /\ SendEnds(t)
    /\ UNCHANGED <<currentUser, open, pc, escaped, closers, dropped>>

-----------------------------------------------------------------------------
(* WebsocketSession.close, called by a task that looked the session up. *)

(* At once: DEL on db 0, or a callback that closes its own session. *)
CloseSession(s) ==
    /\ s \in sessionDict
    /\ open' = IF s \in attached THEN open \ {s} ELSE open
    /\ UNCHANGED <<indexVars, currentUser, pc, escaped, sendVars, closers, dropped>>

(* DEL on db 1: one close() task for each session the user has now. *)
DeleteUser(u) ==
    /\ u \in DOMAIN userDict
    /\ closers' = closers \cup get_user(userDict, u)
    /\ UNCHANGED <<indexVars, currentUser, open, pc, escaped, sendVars, dropped>>

(* One of these tasks runs. *)
RunClose(s) ==
    /\ s \in closers
    /\ closers' = closers \ {s}
    /\ open' = IF s \in attached THEN open \ {s} ELSE open
    /\ UNCHANGED <<indexVars, currentUser, pc, escaped, sendVars, dropped>>

-----------------------------------------------------------------------------
Handler(s) ==
    \/ Connect(s)
    \/ CallbackReturns(s)
    \/ HandlerRaises(s)
    \/ \E frame \in Frames : Receive(s, frame)
    \/ ReceiveEnd(s)
    \/ FinishEnds(s)
    \/ CloseReturns(s)

Others(s) ==
    \/ \E v \in Users \cup {NoUser} : SetUser(s, v)
    \/ ClientCloses(s)
    \/ CancelServing(s)
    \/ CancelFinish(s)
    \/ CancelClose(s)
    \/ CloseSession(s)
    \/ RunClose(s)

Sender(t) ==
    \/ \E s \in Sessions : ScheduleSend(t, s)
    \/ SendRefused(t)
    \/ SendStarts(t)
    \/ SendReturns(t)
    \/ SendRaises(t)
    \/ SendCleansUp(t)

Next ==
    \/ \E s \in Sessions : Handler(s) \/ Others(s)
    \/ \E t \in Senders : Sender(t)
    \/ \E u \in Users : DeleteUser(u)

(* Callbacks end, a closed websocket is reported to its reader, and the    *)
(* event loop runs every ready task.  Nothing makes a client connect, send *)
(* or close, and nothing makes anybody send to a session.                  *)
Fairness ==
    /\ \A s \in Sessions :
        /\ WF_vars(CallbackReturns(s))
        /\ WF_vars(ReceiveEnd(s))
        /\ WF_vars(FinishEnds(s))
        /\ WF_vars(CloseReturns(s))
        /\ WF_vars(RunClose(s))

Spec == Init /\ [][Next]_vars
FairSpec == Spec /\ Fairness

-----------------------------------------------------------------------------
(* Type invariant of the variables of WebsocketApp and of its sessions. *)
TypeOK ==
    /\ sessionDict \subseteq Sessions
    /\ userDict \in UNION {[D -> SUBSET Sessions] : D \in SUBSET Users}
    /\ currentUser \in [Sessions -> Users \cup {NoUser}]
    /\ attached \subseteq Sessions
    /\ open \subseteq Sessions
    /\ pc \in [Sessions -> HandlerState]
    /\ escaped \subseteq Sessions
    /\ sendAt \in [Senders -> SendState]
    /\ sendTo \in [Senders -> Sessions \cup {NoSession}]
    /\ closers \subseteq Sessions
    /\ dropped \subseteq {TEXT, BINARY}

(* What db 1 shows is what db 0 shows, grouped by user: a user is a key of *)
(* the index exactly while a listed session is logged in as that user, and *)
(* the sessions under it are exactly those.  It must survive a session     *)
(* that a failed send has cleaned up while its handler goes on and its     *)
(* callback assigns current_user.                                          *)
UserIndexExact ==
    \A u \in Users \ FalsyUsers :
        /\ get_user(userDict, u) = {s \in sessionDict : currentUser[s] = u}
        /\ u \in DOMAIN userDict => userDict[u] # {}

(* A connection whose websocket is open and whose handler still serves it  *)
(* can be looked up, sent to and closed through the directory: no failure  *)
(* path takes a session out of the directory before it closes its socket.  *)
OpenSessionIsListed ==
    \A s \in open : pc[s] \in Serving => s \in sessionDict

(* A session whose handler has ended is no longer in the directory. *)
NoGhostSession ==
    \A s \in sessionDict : pc[s] # "done"

(* Once its websocket is closed, by either side, a session leaves the      *)
(* directory, whatever its handler, senders and closers were doing.        *)
ClosedSessionLeaves ==
    \A s \in Sessions : (s \in sessionDict /\ s \notin open) ~> s \notin sessionDict

(* What the docs say of db 1: the keys it lists are users that are online. *)
ListedUsersAreOnline ==
    \A u \in DOMAIN userDict : userDict[u] \cap sessionDict # {}

(* What the docs say of request(): it handles the data read from the       *)
(* websocket; no data frame that message_loads can decode is skipped.      *)
EveryDataFrameIsRequested == dropped = {}

(* The directory and the index implement Presence. *)
who == [s \in Sessions |-> {u \in DOMAIN userDict : s \in userDict[u]}]
P == INSTANCE Presence WITH online <- sessionDict, who <- who

(* Every step of the code is a join, a login, a logout or a leave of one   *)
(* session, or changes nothing a reader of db 0 and db 1 can see: a        *)
(* session is never under two users, and never under one once it is gone.  *)
PresenceSpec == P!Spec

=============================================================================
