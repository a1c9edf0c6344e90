--------------------------- MODULE MCWebsocketApp ---------------------------
(***************************************************************************)
(* Instances of WebsocketApp for TLC.  Text and binary data that decodes,  *)
(* data that does not, and a control frame are enough to take every branch *)
(* of the receive loop.                                                    *)
(***************************************************************************)
EXTENDS WebsocketApp, TLC

AllFrames == [type : {TEXT, BINARY, PING}, decodes : BOOLEAN]

=============================================================================
