---------------------------- MODULE MonitorTasks ----------------------------
(***************************************************************************)
(* SimpleMonitorNode (monitor_node.py): the tasks that poll the monitored  *)
(* nodes and send what they say to all sessions.  MONITOR_TASK_LIST is one *)
(* list, an attribute of the class, for all nodes.  A task that has been   *)
(* cancelled does nothing more; one that has not goes on for ever.         *)
(***************************************************************************)
CONSTANTS
    Monitors    \* monitor nodes, each with something in NODE_URL_LIST

VARIABLES
    taskList,   \* the nodes whose tasks are in MONITOR_TASK_LIST
    polling     \* the nodes whose tasks have not been cancelled

taskVars == <<taskList, polling>>

TaskInit == taskList = {} /\ polling = {}

cancel_monitor_tasks ==
    /\ polling' = polling \ taskList
    /\ taskList' = {}

(* Mutant: the tasks that run are replaced in the list but not cancelled. *)
Mut_on_start(n) ==
    /\ polling' = polling \cup {n}
    /\ taskList' = {n}

(* Mutant: on_start cancels after it has filled the list. *)
Mut2_on_start(n) ==
    /\ polling' = (polling \ taskList) \ {n}
    /\ taskList' = {}

(* on_start cancels what the list holds, then fills it anew. *)
on_start(n) ==
    /\ polling' = (polling \ taskList) \cup {n}
    /\ taskList' = {n}

on_shutdown == cancel_monitor_tasks

=============================================================================
