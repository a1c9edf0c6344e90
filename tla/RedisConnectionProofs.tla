------------------------- MODULE RedisConnectionProofs -------------------------
(***************************************************************************)
(* Theorems about RedisConnection, for any set of connections, any server  *)
(* class (Results, EnableAuth) and any commands.                           *)
(***************************************************************************)
EXTENDS RedisConnection, TLAPS

(* The set of connections, against the handlers that live. *)
SetInv == stale \subseteq Live /\ ConnectionsExact

(* What the event should say, from what auth() said. *)
NeedsAuth(c) == lastAuth[c] = "refused" \/ (lastAuth[c] = "none" /\ EnableAuth)

(* The event says it, except between the judgement of auth() and the reply *)
(* to AUTH, which sets or clears the event.                                *)
AuthInv ==
    \A c \in Connections :
        /\ pc[c] \in {"read", "call", "drain"} => (c \in needAuth <=> NeedsAuth(c))
        /\ pc[c] \in {"call", "write"} /\ command[c] # "AUTH" => c \notin needAuth /\ ~NeedsAuth(c)
        /\ pc[c] = "write" /\ command[c] = "AUTH" =>
             (result[c] \in {"value", "badtype"} <=> ~NeedsAuth(c))

(* A server none of whose methods returns what write_result is silent on. *)
AlwaysAnswers ==
    \A cmd \in AllCommands : \A r \in Results[cmd] : ~Silent(cmd, r)

(* A connection that runs a request owes its reply; if the server always   *)
(* answers it owes no other.                                               *)
OwedInv ==
    \A c \in Connections :
        /\ pc[c] \in {"call", "write"} => owed[c] >= 1
        /\ pc[c] = "call" => command[c] # "NOOP"
        /\ pc[c] = "write" =>
             \/ result[c] \in Results[command[c]]
             \/ result[c] = "error" /\ command[c] \in {"AUTH", "NOOP"}
        /\ AlwaysAnswers /\ pc[c] \in {"read", "drain"} => owed[c] = 0
        /\ AlwaysAnswers /\ pc[c] \in {"call", "write"} => owed[c] = 1

IInv == TypeOK /\ SetInv /\ AuthInv /\ OwedInv

-----------------------------------------------------------------------------
(* IInv holds initially. *)
LEMMA InitLemma == Init => IInv
  BY DEF Init, IInv, TypeOK, SetInv, ConnectionsExact, Live, AuthInv, OwedInv,
         HandlerState, AllCommands, Kinds

(* Every step preserves IInv. *)
LEMMA StepLemma == IInv /\ [Next]_vars => IInv'
<1> SUFFICES ASSUME IInv, [Next]_vars PROVE IInv'
  OBVIOUS
<1> USE ServerAssumption DEF Goto
<1>1. ASSUME Start
     PROVE  IInv'
  <2> USE <1>1 DEF Start, init_property, authVars, clientVars
  <2>1. TypeOK'
    BY DEF IInv, TypeOK, HandlerState, AllCommands, Kinds, OwedInv, Live
  <2>2. SetInv'
    BY DEF IInv, SetInv, ConnectionsExact, Live, TypeOK
  <2>3. AuthInv'
    BY DEF IInv, AuthInv, NeedsAuth, TypeOK
  <2>4. OwedInv'
    BY DEF IInv, OwedInv, AlwaysAnswers, TypeOK
  <2> QED BY <2>1, <2>2, <2>3, <2>4 DEF IInv
<1>2. ASSUME Serve
     PROVE  IInv'
  <2> USE <1>2 DEF Serve, authVars, clientVars
  <2>1. TypeOK'
    BY DEF IInv, TypeOK, HandlerState, AllCommands, Kinds, OwedInv, Live
  <2>2. SetInv'
    BY DEF IInv, SetInv, ConnectionsExact, Live, TypeOK
  <2>3. AuthInv'
    BY DEF IInv, AuthInv, NeedsAuth, TypeOK
  <2>4. OwedInv'
    BY DEF IInv, OwedInv, AlwaysAnswers, TypeOK
  <2> QED BY <2>1, <2>2, <2>3, <2>4 DEF IInv
<1>3. ASSUME Stop
     PROVE  IInv'
  <2> USE <1>3 DEF Stop, authVars, clientVars
  <2>1. TypeOK'
    BY DEF IInv, TypeOK, HandlerState, AllCommands, Kinds, OwedInv, Live
  <2>2. SetInv'
    BY DEF IInv, SetInv, ConnectionsExact, Live, TypeOK
  <2>3. AuthInv'
    BY DEF IInv, AuthInv, NeedsAuth, TypeOK
  <2>4. OwedInv'
    BY DEF IInv, OwedInv, AlwaysAnswers, TypeOK
  <2> QED BY <2>1, <2>2, <2>3, <2>4 DEF IInv
<1>4. ASSUME NEW c \in Connections, Accept(c)
     PROVE  IInv'
  <2> USE <1>4 DEF Accept, clientVars
  <2>1. TypeOK'
    BY DEF IInv, TypeOK, HandlerState, AllCommands, Kinds, OwedInv, Live
  <2>2. SetInv'
    BY DEF IInv, SetInv, ConnectionsExact, Live, TypeOK
  <2>3. AuthInv'
    BY DEF IInv, AuthInv, NeedsAuth, TypeOK
  <2>4. OwedInv'
    BY DEF IInv, OwedInv, AlwaysAnswers, TypeOK
  <2> QED BY <2>1, <2>2, <2>3, <2>4 DEF IInv
<1>5. ASSUME NEW c \in Connections, NEW cmd \in Commands, NEW n \in 1 .. 4, ReadRequest(c, cmd, n)
     PROVE  IInv'
  <2> USE <1>5 DEF ReadRequest, nodeVars, authVars, clientVars
  <2>1. TypeOK'
    BY DEF IInv, TypeOK, HandlerState, AllCommands, Kinds, OwedInv, Live
  <2>2. SetInv'
    BY DEF IInv, SetInv, ConnectionsExact, Live, TypeOK
  <2>3. AuthInv'
    BY DEF IInv, AuthInv, NeedsAuth, TypeOK
  <2>4. OwedInv'
    BY DEF IInv, OwedInv, AlwaysAnswers, TypeOK
  <2> QED BY <2>1, <2>2, <2>3, <2>4 DEF IInv
<1>6. ASSUME NEW c \in Connections, ReadFails(c)
     PROVE  IInv'
  <2> USE <1>6 DEF ReadFails, nodeVars, authVars, clientVars
  <2>1. TypeOK'
    BY DEF IInv, TypeOK, HandlerState, AllCommands, Kinds, OwedInv, Live
  <2>2. SetInv'
    BY DEF IInv, SetInv, ConnectionsExact, Live, TypeOK
  <2>3. AuthInv'
    BY DEF IInv, AuthInv, NeedsAuth, TypeOK
  <2>4. OwedInv'
    BY DEF IInv, OwedInv, AlwaysAnswers, TypeOK
  <2> QED BY <2>1, <2>2, <2>3, <2>4 DEF IInv
<1>7. ASSUME NEW c \in Connections, NEW r \in Kinds, CallReturns(c, r)
     PROVE  IInv'
  <2> USE <1>7 DEF CallReturns, nodeVars, clientVars
  <2>1. TypeOK'
    BY DEF IInv, TypeOK, HandlerState, AllCommands, Kinds, OwedInv, Live
  <2>2. SetInv'
    BY DEF IInv, SetInv, ConnectionsExact, Live, TypeOK
  <2>3. AuthInv'
    BY DEF IInv, AuthInv, NeedsAuth, TypeOK
  <2>4. OwedInv'
    <3>1. /\ pc'[c] \in {"write", "closing"}
          /\ command' = command /\ owed' = owed
          /\ result'[c] = r /\ r \in Results[command[c]]
          /\ \A x \in Connections \ {c} : pc'[x] = pc[x] /\ result'[x] = result[x]
      BY DEF IInv, TypeOK
    <3>2. ASSUME NEW x \in Connections \ {c}
          PROVE  /\ pc'[x] = pc[x] /\ command'[x] = command[x]
                 /\ owed'[x] = owed[x] /\ result'[x] = result[x]
      BY <3>1
    <3> QED BY <3>1, <3>2 DEF IInv, OwedInv, AlwaysAnswers
  <2> QED BY <2>1, <2>2, <2>3, <2>4 DEF IInv
<1>8. ASSUME NEW c \in Connections, WriteResult(c)
     PROVE  IInv'
  <2> USE <1>8 DEF WriteResult, nodeVars, clientVars
  <2>0. /\ owed[c] \in Nat /\ owed[c] >= 1 /\ owed \in [Connections -> Nat]
        /\ AlwaysAnswers => owed[c] = 1
        /\ pc \in [Connections -> HandlerState] /\ pc[c] = "write"
    BY DEF IInv, TypeOK, OwedInv
  <2>1. /\ owed' \in [Connections -> Nat]
        /\ pc' \in [Connections -> HandlerState]
        /\ needAuth' \subseteq Connections
        /\ pc'[c] \in {"read", "drain", "closing"}
        /\ \A x \in Connections \ {c} : pc'[x] = pc[x] /\ owed'[x] = owed[x]
        /\ \A x \in Connections \ {c} : x \in needAuth' <=> x \in needAuth
    <3>1. CASE command[c] = "AUTH"
      BY <2>0, <3>1 DEF write_auth, IInv, TypeOK, HandlerState
    <3>2. CASE command[c] # "AUTH"
      BY <2>0, <3>2 DEF write_other, IInv, TypeOK, HandlerState
    <3> QED BY <3>1, <3>2
  <2>2. AlwaysAnswers /\ pc'[c] \in {"read", "drain"} => owed'[c] = 0
    <3>1. CASE command[c] = "AUTH"
      BY <2>0, <3>1 DEF write_auth
    <3>2. CASE command[c] # "AUTH"
      <4>1. AlwaysAnswers => ~Silent(command[c], result[c])
        BY <2>0, <3>2 DEF IInv, TypeOK, OwedInv, AlwaysAnswers, Silent, NotWritable
      <4> QED BY <2>0, <3>2, <4>1 DEF write_other
    <3> QED BY <3>1, <3>2
  <2>3. TypeOK'
    BY <2>1 DEF IInv, TypeOK
  <2>4. SetInv'
    BY <2>0, <2>1 DEF IInv, SetInv, ConnectionsExact, Live
  <2>5. AuthInv'
    BY <2>0, <2>1 DEF IInv, AuthInv, NeedsAuth, TypeOK, write_auth, write_other
  <2>6. OwedInv'
    BY <2>0, <2>1, <2>2 DEF IInv, OwedInv, AlwaysAnswers
  <2> QED BY <2>3, <2>4, <2>5, <2>6 DEF IInv
<1>9. ASSUME NEW c \in Connections, DrainReturns(c)
     PROVE  IInv'
  <2> USE <1>9 DEF DrainReturns, nodeVars, authVars, clientVars
  <2>1. TypeOK'
    BY DEF IInv, TypeOK, HandlerState, AllCommands, Kinds, OwedInv, Live
  <2>2. SetInv'
    BY DEF IInv, SetInv, ConnectionsExact, Live, TypeOK
  <2>3. AuthInv'
    BY DEF IInv, AuthInv, NeedsAuth, TypeOK
  <2>4. OwedInv'
    BY DEF IInv, OwedInv, AlwaysAnswers, TypeOK
  <2> QED BY <2>1, <2>2, <2>3, <2>4 DEF IInv
<1>10. ASSUME NEW c \in Connections, DrainFails(c)
     PROVE  IInv'
  <2> USE <1>10 DEF DrainFails, nodeVars, authVars, clientVars
  <2>1. TypeOK'
    BY DEF IInv, TypeOK, HandlerState, AllCommands, Kinds, OwedInv, Live
  <2>2. SetInv'
    BY DEF IInv, SetInv, ConnectionsExact, Live, TypeOK
  <2>3. AuthInv'
    BY DEF IInv, AuthInv, NeedsAuth, TypeOK
  <2>4. OwedInv'
    BY DEF IInv, OwedInv, AlwaysAnswers, TypeOK
  <2> QED BY <2>1, <2>2, <2>3, <2>4 DEF IInv
<1>11. ASSUME NEW c \in Connections, HandlerEnds(c)
     PROVE  IInv'
  <2> USE <1>11 DEF HandlerEnds, authVars
  <2>1. TypeOK'
    BY DEF IInv, TypeOK, HandlerState, AllCommands, Kinds, OwedInv, Live
  <2>2. SetInv'
    BY DEF IInv, SetInv, ConnectionsExact, Live, TypeOK
  <2>3. AuthInv'
    BY DEF IInv, AuthInv, NeedsAuth, TypeOK
  <2>4. OwedInv'
    BY DEF IInv, OwedInv, AlwaysAnswers, TypeOK
  <2> QED BY <2>1, <2>2, <2>3, <2>4 DEF IInv
<1>12. ASSUME NEW c \in Connections, StopsSending(c)
     PROVE  IInv'
  <2> USE <1>12 DEF StopsSending, nodeVars, authVars
  <2>1. TypeOK'
    BY DEF IInv, TypeOK, HandlerState, AllCommands, Kinds, OwedInv, Live
  <2>2. SetInv'
    BY DEF IInv, SetInv, ConnectionsExact, Live, TypeOK
  <2>3. AuthInv'
    BY DEF IInv, AuthInv, NeedsAuth, TypeOK
  <2>4. OwedInv'
    BY DEF IInv, OwedInv, AlwaysAnswers, TypeOK
  <2> QED BY <2>1, <2>2, <2>3, <2>4 DEF IInv
<1>13. ASSUME NEW c \in Connections, StopsReading(c)
     PROVE  IInv'
  <2> USE <1>13 DEF StopsReading, nodeVars, authVars
  <2>1. TypeOK'
    BY DEF IInv, TypeOK, HandlerState, AllCommands, Kinds, OwedInv, Live
  <2>2. SetInv'
    BY DEF IInv, SetInv, ConnectionsExact, Live, TypeOK
  <2>3. AuthInv'
    BY DEF IInv, AuthInv, NeedsAuth, TypeOK
  <2>4. OwedInv'
    BY DEF IInv, OwedInv, AlwaysAnswers, TypeOK
  <2> QED BY <2>1, <2>2, <2>3, <2>4 DEF IInv
<1>14. CASE UNCHANGED vars
  BY <1>14 DEF vars, IInv, TypeOK, SetInv, ConnectionsExact, Live, AuthInv, NeedsAuth, OwedInv, AlwaysAnswers
<1> QED
  BY <1>1, <1>2, <1>3, <1>4, <1>5, <1>6, <1>7, <1>8, <1>9, <1>10, <1>11, <1>12, <1>13, <1>14 DEF Next

-----------------------------------------------------------------------------
(* IInv is an invariant of RedisConnection. *)
THEOREM Invariance == Spec => []IInv
<1> QED BY InitLemma, StepLemma, PTL DEF Spec

(* The variables keep their types; in particular no request is answered    *)
(* twice: a connection never has fewer requests than replies.              *)
THEOREM TypeCorrect == Spec => []TypeOK
<1>1. IInv => TypeOK
  BY DEF IInv
<1> QED BY <1>1, Invariance, PTL

(* The server's set holds the live connections of the current start and no *)
(* other, whenever the node is stopped and started.                        *)
THEOREM ConnectionsAreExact == Spec => []ConnectionsExact
<1>1. IInv => ConnectionsExact
  BY DEF IInv, SetInv
<1> QED BY <1>1, Invariance, PTL

(* No command but AUTH runs without the authentication the server asks for. *)
THEOREM OnlyAuthorisedRun == Spec => []AuthGate
<1>1. IInv => AuthGate
  BY ServerAssumption DEF IInv, AuthInv, AuthGate, NeedsAuth, TypeOK
<1> QED BY <1>1, Invariance, PTL

(* The NOAUTH branch of write_result is never taken. *)
THEOREM NoRefusalAfterTheCall == Spec => []NoLateRefusal
<1>1. IInv => NoLateRefusal
  BY DEF IInv, AuthInv, NoLateRefusal
<1> QED BY <1>1, Invariance, PTL

(* On a server whose methods return nothing that write_result is silent    *)
(* on, every reply is the reply to the latest request.                     *)
THEOREM RepliesKeepStep == ASSUME AlwaysAnswers PROVE Spec => []RepliesInStep
<1>1. IInv => RepliesInStep
  BY DEF IInv, OwedInv, RepliesInStep
<1> QED BY <1>1, Invariance, PTL

(* SocketBasedRedisServer is such a server, with a password or without. *)
THEOREM SocketServerAnswers == Results \in {SocketResults, PasswordResults} => AlwaysAnswers
<1> SUFFICES ASSUME Results \in {SocketResults, PasswordResults},
                    NEW cmd \in AllCommands, NEW r \in Results[cmd]
             PROVE  ~Silent(cmd, r)
  BY DEF AlwaysAnswers
<1> QED BY DEF SocketResults, PasswordResults, Silent, NotWritable, AllCommands

=============================================================================
