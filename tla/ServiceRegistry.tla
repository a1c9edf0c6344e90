--------------------------- MODULE ServiceRegistry ---------------------------
(***************************************************************************)
(* RedisServiceNode and ServiceBasedRedisServer (design.py): which service *)
(* each redis database offers.  SERVICE_MAP is one dictionary, an          *)
(* attribute of the class, for the servers of all nodes; MAX_DB_COUNT      *)
(* becomes an attribute of each server when it is first assigned.          *)
(*                                                                         *)
(* None of these operations suspends.  A map of databases to services has  *)
(* NoService where it has no key.                                          *)
(***************************************************************************)
EXTENDS Integers

CONSTANTS
    Servers,        \* redis server objects, one for each service node
    MaxDatabase,    \* bound: databases are 0 .. MaxDatabase
    Services,       \* service classes or objects
    BadServices,    \* those update_service refuses: a key that is used twice or no string
    NoService

Databases == 0 .. MaxDatabase
Maps == [Databases -> Services \cup {NoService}]
EmptyMap == [d \in Databases |-> NoService]

ASSUME RegistryAssumption ==
    /\ MaxDatabase \in Nat
    /\ BadServices \subseteq Services
    /\ NoService \notin Services

VARIABLES
    serviceMap,     \* SERVICE_MAP
    maxDbCount,     \* MAX_DB_COUNT of each server
    registered      \* history: what the node of a server has itself registered

registryVars == <<serviceMap, maxDbCount, registered>>

RegistryInit ==
    /\ serviceMap = EmptyMap
    /\ maxDbCount = [r \in Servers |-> 0]
    /\ registered = [r \in Servers |-> EmptyMap]

(* What GET, SET, GETSET, SCAN and DBSIZE find in database d of a server. *)
lookup(r, d) == IF d < maxDbCount[r] THEN serviceMap[d] ELSE NoService

-----------------------------------------------------------------------------
Over(map, new) == [d \in Databases |-> IF new[d] # NoService THEN new[d] ELSE map[d]]
Keys(map) == {d \in Databases : map[d] # NoService}

(* Mutant: MAX_DB_COUNT becomes the number of the last database. *)
Mut_update_service(r, new) ==
    LET counts == {maxDbCount[r]} \cup Keys(new) IN
    /\ serviceMap' = Over(serviceMap, new)
    /\ \E m \in counts :
        /\ \A k \in counts : k <= m
        /\ maxDbCount' = [maxDbCount EXCEPT ![r] = m]
    /\ registered' = [registered EXCEPT ![r] = Over(@, new)]

(* Mutant: one database too many. *)
Mut2_update_service(r, new) ==
    LET counts == {maxDbCount[r]} \cup {d + 2 : d \in Keys(new)} IN
    /\ serviceMap' = Over(serviceMap, new)
    /\ \E m \in counts :
        /\ \A k \in counts : k <= m
        /\ maxDbCount' = [maxDbCount EXCEPT ![r] = m]
    /\ registered' = [registered EXCEPT ![r] = Over(@, new)]

(* Called for one database after the other, with nothing in between. *)
update_service(r, new) ==
    LET counts == {maxDbCount[r]} \cup {d + 1 : d \in Keys(new)} IN
    /\ serviceMap' = Over(serviceMap, new)
    /\ \E m \in counts :
        /\ \A k \in counts : k <= m
        /\ maxDbCount' = [maxDbCount EXCEPT ![r] = m]
    /\ registered' = [registered EXCEPT ![r] = Over(@, new)]

clear_service(r) ==
    /\ serviceMap' = EmptyMap
    /\ maxDbCount' = [maxDbCount EXCEPT ![r] = 0]
    /\ registered' = [registered EXCEPT ![r] = EmptyMap]

(* A map is refused at the first bad service in it, at which any of its    *)
(* other services may have been registered already.                        *)
Refused(map) == \E d \in Databases : map[d] \in BadServices

PartOf(new, map) ==
    \A d \in Databases : new[d] \in {map[d], NoService} \ BadServices

(* Without a map, or with an empty one, everything is cleared. *)
initialize_service_map(r, map) ==
    IF map = EmptyMap THEN clear_service(r)
    ELSE \E new \in Maps :
            /\ IF Refused(map) THEN PartOf(new, map) ELSE new = map
            /\ update_service(r, new)

=============================================================================
