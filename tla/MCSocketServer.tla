--------------------------- MODULE MCSocketServer ---------------------------
(***************************************************************************)
(* Instances of SocketServer for TLC.  What frames do to a session is      *)
(* checked with WebsocketApp; here one that reaches request() is enough.   *)
(***************************************************************************)
EXTENDS SocketServer, TLC

OneFrame == {[type |-> TEXT, decodes |-> TRUE]}

Symmetry == Permutations(Sessions) \cup Permutations(Clients)

=============================================================================
