-------------------------- MODULE MCRedisConnection --------------------------
(***************************************************************************)
(* Instances of RedisConnection for TLC.  FewCommands has one command of   *)
(* each kind that the handler treats in its own way: AUTH, a command that  *)
(* can fail in every way, one that may go unanswered, and an unknown one.  *)
(***************************************************************************)
EXTENDS RedisConnection, TLC

FewCommands == {"AUTH", "SET", "DEL", "NOOP"}

=============================================================================
