# Verification of porkpepper

porkpepper is a Python library (asyncio, aiohttp) for nodes that keep websocket
sessions or offer services and that are controlled through the redis protocol.
This directory holds TLA+ models of it, the TLC configurations that check them
and the proofs, checked by TLAPS, of what holds for every size of the system.
Paths such as `websocket_app.py:61` are under `src/porkpepper/`.

## The system

A `PorkPepperNode` (node.py) owns a `WebsocketApp` and a redis server object.

| component | state | operations | behaviour that is hard |
|---|---|---|---|
| `WebsocketApp` (websocket_app.py) | `_session_dict`, `_user_dict` | `setup_session`, `cleanup_session`, `add_user`, `remove_user`, the connection `handler` | one handler task per client; others take sessions out of the directory under its feet; cancellation |
| `WebsocketSession` (websocket_session.py) | `_current_user`, `socket`, `app` | `current_user` setter, `send`, `close`, callbacks `prepare`, `request`, `on_finish` | `send` awaits twice and reads `socket` and `app` again after each await |
| `RedisServerBase` (redis_server_base.py), `RedisTaskNode` (redis_task_node.py), `RedisSession` | `connections`, `need_auth_event`, `current_db`, counters | `handle_stream`, `create`, `write_result`, `init_property`, `serve` | AUTH gate across requests, silent replies, timeouts, restart while old connections live |
| `SocketBasedRedisServer` (design.py) | none: reads and ends websocket sessions | SELECT, GET, SET, DEL, SCAN, DBSIZE, INFO | acts on sessions that end meanwhile |
| `ServiceBasedRedisServer`, `RedisServiceNode` (design.py) | `SERVICE_MAP`, `MAX_DB_COUNT` | `update_service`, `clear_service`, GET, SET, GETSET | map shared by the class; replaced while calls run |
| `PorkPepperNode` (node.py) | runner, server object, two events | `start`, `stop`, `serve` | partial failure of start, restart |
| `FifoLock` (fifo_lock.py) | a queue of `asyncio.Lock` | `acquire`, `release` | hand-over, cancellation |
| `Gate`, `ServerStatus` (gate.py) | flag, counter, semaphore, empty event | `acquire`, `release`, `open`, `close`, `close_until_complete` | cancellation, reopening during a drain |
| `SimpleMonitorNode` (monitor_node.py) | task list of the class | `monitor_task`, `on_start`, `on_shutdown` | broadcast to sessions that end |
| `RedisProtocol`, `Result`, utils | none | codec, value wrapper, key generation | boundaries of the codec |

How they interact:

- aiohttp calls `WebsocketApp.handler` for each client. The handler calls the
  callbacks of its session; they assign `current_user`, which updates the user
  index of the app, and they may call `send` and `close`.
- A redis client of a websocket node reads the directory (`KEYS`, `GET`,
  `DBSIZE`) and closes sessions (`DEL`); a monitor node sends to all sessions.
  Each of these is a task of its own that found a session some time before.
- A `send` that fails closes the socket and cleans the session up itself, while
  the handler of the session may be anywhere.
- `PorkPepperNode.start` calls `init_property` on the redis server, which forgets
  the connections of an earlier start; `stop` closes the listening socket only.
- Nodes of one process share what their class holds: the service map of
  `ServiceBasedRedisServer`, the task list of `SimpleMonitorNode`.

asyncio switches tasks only at an `await` that really suspends. Everything
between two such points is one step, and one action in these modules. An `await`
of a coroutine that never suspends (`FifoLock.release`, `Gate.release`,
`Gate.open`) is no switch.

### What makes each component correct

- Directory and index: db 1 is db 0 grouped by user, at every instant; a session
  that can be talked to can be found; one that is gone cannot.
- Redis connections: nothing but AUTH runs before AUTH was accepted; replies
  stay in step with requests; the connection set is exact across restarts; a
  client that falls silent is disconnected.
- The bytes: what is dispatched is what was sent, wherever the stream is cut into
  pieces or ends; what is answered can be read back.
- `FifoLock`: exclusion, order of arrival, no lost wake-up.
- Redis commands of a websocket node: `KEYS` and `GET` agree on both databases;
  when `DEL` is answered the sessions are closed; `SET` reaches its session.
- Nodes: a stopped node holds nothing; only a failed cleanup or a restart without a
  stop loses a socket; a node offers, or polls, what it was started with unless
  another one of its class interferes; `serve` says when it begins and ends.
- `Gate`: at most N inside, no permit lost or made up, the counter is exact,
  `close_until_complete` returns when the last visitor has left.

## The modules

| module | models | with |
|---|---|---|
| `Presence` | the abstract specification of directory and index | |
| `WebsocketApp` | websocket_app.py, websocket_session.py, closing by others | `MCWebsocketApp`, `WebsocketAppProofs` |
| `SocketServer` | `SocketBasedRedisServer` of design.py, on top of `WebsocketApp` | `MCSocketServer`, `SocketServerProofs` |
| `RedisConnection` | `handle_stream`, `RedisTaskNode`, restart of the node | `MCRedisConnection`, `RedisConnectionProofs` |
| `RedisCodec` | redis_protocol.py, byte by byte | `RedisCodecProofs` |
| `RedisReader` | how a redis client reads replies (outside of the repository) | `RedisCodecProofs` |
| `RedisStream` | the reads of `RedisTaskNode.create` and the writes of `write_result` on one connection | `MCRedisStream`, `RedisStreamProofs` |
| `NodeLifecycle` | `start`, `stop` and `serve` of node.py | |
| `ServiceRegistry` | the service map of `RedisServiceNode` | |
| `MonitorTasks` | the task list of `SimpleMonitorNode` | |
| `NodeProcess` | several nodes of one class: the three above composed | `MCNodeProcess`, `NodeProcessProofs` |
| `FifoLock` | fifo_lock.py | `FifoLockProofs` |
| `Gate` | gate.py | `GateProofs` |

`SocketServer` extends `WebsocketApp` and implements its `Spec`, which in turn
implements `Presence`: what is checked and proved of the lower one holds of the
whole node.

Operators named `Mut_...` stand before the definition they vary. Each is that
definition with a plausible bug in it, which one of the runs detects; nothing
uses them otherwise.

### WebsocketApp

| variable | in the code |
|---|---|
| `sessionDict`, `userDict` | the keys of `_session_dict`; `_user_dict`, key by key |
| `currentUser` | `_current_user` of each session |
| `attached` | `session.app` and `session.socket`, always set and cleared together |
| `open` | the `WebSocketResponse` is not closing or closed |
| `pc` | the await the handler is at: `prepare`, `receive`, `request`, `finish`, `closing`, or `done` |
| `escaped` | an exception that passed `except Exception` is on its way out |
| `sendAt`, `sendTo` | tasks inside `send`: scheduled, at `send_str`, or at `close` |
| `closers` | `close()` tasks that `DEL` on db 1 has made and that have not run |
| `dropped` | history: types of data frames that `request()` never saw |

`current_user` is assigned by `SetUser` at any moment at which the session's
handler runs, which covers its callbacks and any other task that found it.
`CloseSession` is `DEL` on db 0 or a callback. `CancelServing`, `CancelFinish` and
`CancelClose` cancel the handler at each of its awaits. `CancelIsException` is
the class of `CancelledError`: an `Exception` up to Python 3.7, a
`BaseException` from 3.8; setup.py permits both. A session object is reused in
`Connect` when nothing refers to it, which stands for a fresh one.
Not modelled: the cancellation of a sender (under 3.7 it is `SendRaises`, after
that `SendReturns`), assignment to `current_user` after the handler is done, and
the session's `lock`, which the library itself does not use.

### SocketServer

`db` is `current_db` of each redis connection; `at` is whether it is at a command or
awaits the closes of a `DEL` (`aimed`), or was ended by an exception. `scan(d)` and `get(d, key)` are
what `KEYS` and `GET` read; the commands that only read have no step of their own,
since they do not suspend and change nothing. `delete` starts the closes
(`CloseSession`, `DeleteUser` of `WebsocketApp`), `DeleteReturns` is the end of the
await. `DefaultLoads` says whether the server class keeps the `LOADS` of
`SocketBasedRedisServer`, with which every delivery fails, or is a subclass with a
method that decodes. `SET` sends through a task of `WebsocketApp`'s `Senders`; with
all of them busy it is not taken, which bounds the sends in flight. A session object that a `DEL` still holds
is not reused by `Connect`. `BINARY` and undecodable frames are left to `WebsocketApp`.

### NodeLifecycle, ServiceRegistry, MonitorTasks and NodeProcess

| variable | in the code |
|---|---|
| `call`, `pc` | which of `start`, `stop`, `serve` runs on a node, and the await it is at: `setup`, `site`, `redis`, `forever`, `cleanup` |
| `listening` | sockets by node, kind and who can close them: `held` by `_runner` or `_redis_server_object`, by the locals of `serve`, or `lost` |
| `outcome` | history: how the node's last call ended |
| `startEvent`, `stopEvent` | the two events |
| `serviceMap`, `maxDbCount` | `SERVICE_MAP` of the class, `MAX_DB_COUNT` of each server |
| `registered` | history: what a node has registered since it last cleared |
| `taskList`, `polling` | `MONITOR_TASK_LIST` of the class; the nodes whose tasks were not cancelled |
| `disturbed` | history: nodes whose class was changed by another node since they last cleared it or filled it |

Each await may raise (`SetupFails`, `BindFails`, `CleanupFails`; `ServeBreaks` is the
cancellation of `serve_forever`). The hooks `on_start` and `on_shutdown` never
suspend in this repository, so that they run within the step that ends the await
before them (`HookAtStart`, `HookAtEnd`). `StartWith` registers the service map
before anything else, and a map with a service that `update_service` refuses is
registered in part.

What is taken for granted: a node has one of the three calls running at a time;
a `start` is not cancelled while asyncio's `create_server` is under way, which has then
opened a socket that the caller has no name for (`BindFails` is a bind that opened none);
`serve` is not called on a node that `start` left listening; databases are natural
numbers; the hooks are those of the repository; `asyncio.Server.wait_closed` returns
at once, as it did when this code was written (`stop` closes the server before it
waits, so that a later return would add no state but a delay).

### RedisConnection

One `pc` for each connection: `read` (in `create`), `call` (in the server method),
`write`, `drain`, `closing` (in `wait_closed`). `owed` counts requests read and not
answered; `lastAuth` is what `auth()` last said; `stale` are connections accepted
before the last `init_property`. `Start` may be called on a node that listens: it empties
the set all the same, and the node goes on listening. Which sockets of a node a second
`start` loses is left to `NodeLifecycle`; `Stop` takes all that listen. The server methods are a parameter: `Results`
gives for each command the kinds of result its method can return, and
`SocketResults`, `PasswordResults` and `ServiceResults` are these for the server
classes of design.py. `Silent` and `Breaks` say on which results `write_result`
returns without a reply or raises. `deaf` clients take no more bytes: for them
`wait_closed` may not return.

### RedisCodec, RedisReader and RedisStream

`RedisCodec` has the methods of `RedisProtocol` as operators. A byte is a string of
one character, CR or LF; `Unwritable` is what `set_binary` refuses. In `RedisStream`,
`stream` is what the client has written, of which `arrived` bytes have reached the
`StreamReader` and `pos` were read; `Deliver` lets any number arrive and
`EndOfStream` ends the stream anywhere. `ReadCount`, `ReadSize` and `ReadWord` are the
three reads of `create`, each under its own `wait_for`. `Answer` writes a reply up to its first `drain()`; for `KEYS` and `SCAN`
there is one after each key (`keysLeft`). A word of an array, or a key, that cannot be written ends
the connection with the reply begun (`Writable`). The `drain()` at the end of `write_result` is
one with that after the last key.

A message of the client is a first line, words as `set_binary` writes them, and
what follows them. Those of `Requests` have a first line that counts their words
and nothing after them. `Garbage` stands for what breaks the protocol before a word
ends (`Breaks`): a first line that counts no words, or more words than there are,
after which comes no size. No first line of a message is itself a size, so that
where one message ends and the next begins is well defined: `StreamAssumption`
says this, and that the bytes of the protocol are among those of `Byte`.

What a request means, and what happens when a server method raises or a result is
not answered, is left to `RedisConnection`: here every request gets one of
`Replies`, of any of the kinds that `write_result` writes (`IsReply`). The texts of
status lines and errors are the library's own and have no CR (a subclass that puts one
into its answer to PING or TYPE, or into an error of AUTH, breaks the reply by itself);
words may have any bytes. The two bytes after a word of a request are dropped unseen by the code, and the
client is assumed to write CR LF there. Lines beyond the limit of `StreamReader` are
left out.

`RedisReader` stands for a redis client. It reads token by token and keeps how many
elements of arrays are still `owed`; a value is whole when none is. Nothing of it is
in the repository, and nothing of the repository's in it but the digits of numbers.

### FifoLock and Gate

`FifoLock` follows each call of `acquire` up to its `release`; `locked` is the state
of the call's `asyncio.Lock`. The lock is used as `async with` does, so the early
return of `release` on an empty queue is never taken by somebody inside. `Gate`
models `asyncio.Event` and `asyncio.Semaphore` as they are in Python 3.7 to 3.9: the
`loop` argument of the constructor was removed in 3.10. A visitor that `open()`
has woken enters even if the gate was closed again, as `Event.wait()` does not
look at the flag a second time; `Admit` has that step. Visitors may be cancelled at
each await of `acquire`, controllers inside `close_until_complete` (`CancelDrain`).

## The runs

| run | shows | bounds |
|---|---|---|
| `websocket` | with `CancelledError` an `Exception`: type, exact index, listed while open, no ghosts, implements `Presence`; a closed session leaves the directory | 2 sessions, 2 users, 1 sender |
| `socket_server` | with escaping cancellation, an empty user and a redis client: commands that agree, `DEL` that has closed what it found; implements `WebsocketApp` | 2 sessions, 2 users of which one is empty, 1 sender, 1 client |
| `websocket_empty_user`, `websocket_cancel`, `websocket_binary`, `socket_set` | four disagreements with the docs (below) | 1 or 2 sessions |
| `redis` | gate, connection set and replies in step, with restarts, on a websocket node with a password; a silent client is disconnected | 2 connections, a command of each kind |
| `redis_del` | a disagreement with the docs | 1 connection |
| `redis_bytes` | words that look like protocol, pieces, cuts and garbage: requests are dispatched as sent, in order, and in the end; a client reads the replies that were completed, and no others | 2 messages of 4 requests and 6 kinds of garbage, 15 replies to one of the requests |
| `nodes` | stopped nodes are quiet, events mean what they say, only a failed cleanup and restarts lose sockets, what nodes of a class do to each other; `serve` is reported | 2 nodes, 2 databases, a good and a refused service, `serve` on one of the nodes |
| `lock` | exclusion, order, hand-over; only a cancellation keeps a waiter out; a wedge is permanent | 5 calls, 4 cancellable |
| `gate` | permits, counter and empty event agree; only a leaked visit keeps a drain from ending | 4 visitors, 2 controllers, N = 2, 2 leaks; every task may be cancelled |

Why the bounds are enough to be interesting: two sessions are needed for a user
with more than one session; one sender is enough to race the handler, the setter
and a closer at each await of `send`. One redis client is enough to have a `DEL`
pending while sessions change; what several do to each other they do through the
directory, and the theorems are for any number. Two nodes show all that one
node does to another; `serve` on one of them (`ServeNodes`) keeps the run short,
since the class does not know which call a node is in. Connections of the
redis side share only the connection set, so two of them and the restart show
what they do to each other. Five calls make a queue of the lock with a head, a
cancelled one and others on both sides; four visitors at two permits queue,
overtake and are cancelled. Service maps are none, one service, and two of which
one is refused (`FewMaps`), over two databases (`MaxDatabase`). Bounds limit counters: `MaxOwed` (unanswered
requests on a connection before it is taken to stop reading, 2) and `MaxLeaks`
(visitors cancelled in the semaphore's queue, 2); `MaxSent` is the messages a client sends on a connection (2). Frames are one of each
kind the receive loop tells apart; `socket_server` needs one only (`OneFrame`).
Symmetry is used in the one large run without liveness, `socket_server`.

Two messages are the least in which a byte too many or too few of one is missed in
the other; a word of ten bytes gives a size of two digits.

`CHECK_DEADLOCK FALSE` is set for `lock`, in which a cancellation really stops the
lock, and for `redis_bytes`, whose connection is closed in the end.

### Fairness

All of it is weak. The event loop runs every ready task and callbacks are assumed
to end: `CallbackReturns`, `FinishEnds`, `CloseReturns`, `ReceiveEnd` and `RunClose` of
`WebsocketApp`; `Resume` and `Release`; `Admit`, `GetPermit`, `Leave` and
`DrainReturns`. Reads and writes on redis connections are under
`wait_for(IDLE_TIMEOUT)`, which makes `ReadFails` and `DrainFails` fair; server methods
are assumed to return. In `RedisStream` the network delivers, reads that can return do
and `drain()` returns or fails; timeouts and the end of the stream are not assumed, so that
`RequestsServed` cannot be met by them. In `NodeProcess` every await of `start`, `stop` and `serve` ends,
with a result or an exception, except `serve_forever`. `wait_closed` is fair only while the client takes bytes.
No client is assumed to do anything, and no one is assumed to open a gate, to
send or to cancel.

## Disagreements found

| run | the code | the other side |
|---|---|---|
| `websocket_empty_user` | `cleanup_session` skips `remove_user` if `current_user` is the empty string, `add_user` does not (websocket_app.py:61) | docs/guide/websocketservice.rst:15, db 1 lists users that are online |
| `websocket_cancel` | `cleanup_session` is not in the `finally` clause (websocket_app.py:102) | websocketservice.rst:10, db 0 holds the sessions of the node |
| `websocket_binary` | the type test compares BINARY with a bool (websocket_app.py:79) | websocketservice.rst:26, `request` handles the data received |
| `redis_del` | on a service node DEL is never answered (redis_task_node.py:292) | docs/guide/servicebasic.rst:15, DEL is supported |
| `socket_set` | `self.LOADS(value)` passes two arguments to `json.loads` and raises, which ends the redis connection; on db 1 `set` does nothing (design.py:71) | websocketservice.rst:12, SET sends the value to the session, or to all sessions of the user |

`FifoLock` has a weakness that no text speaks of: the Lock of a waiter that was cancelled
stays in the queue (fifo_lock.py:14), and once it comes to the head nobody enters any
more. `WedgedForever` and `OnlyCancellationStops` say that this, and only this, stops it.
`Gate` has a kindred one, the counter that goes up before an await that may be
cancelled (gate.py:18), which `OnlyLeaksBlockDrain` and `CounterExact` name.

Worth knowing, though no text contradicts it: `write_result` sets the
`need_auth_event` on every refused AUTH, also on a server that asks for none, and
the connection has to be opened again. `AuthGate` is stated accordingly and does not tell
whether this is intended. A second
service node in a process that is started, even if its `start` fails because the
address is in use, has by then replaced or cleared the services of the first; a
monitor node that starts or stops cancels the tasks of the others. `OffersWhatItRegistered`
and `UpIsPolling` hold up to such a disturbance, and say nothing of it. If `runner.setup()` fails in `serve`,
neither event is set: `ServeIsReported` makes that exception.

## The proofs

All are for any values of the constants that satisfy the named assumptions of the
module. Every invariant and every action property of the passing runs is a theorem.
Finiteness is assumed of the visitors of `Gate` only, which it counts.

**WebsocketAppProofs.** The inductive invariant `IInv` says, besides the types, that
a session is attached exactly while it is in the directory; that an entry of the
index names an attached session under its own `current_user`, that an attached
session with a true `current_user` has its entry and that no key is empty; that a
sender past its first step holds a session; and where the handler can be of a
session in each of these states. `UserIndexExact` alone is not inductive: `SetUser` on an evicted session
leaves the index alone only because such a session has no app, and `cleanup_session`
finds the right key only because each session has one. The four helpers
(`RemoveUserLemma`, `AddUserLemma`, `CleanupLemma`, `SetUserLemma`) say what each does to
`get_user` for every user; `StepLemma` has one case for each action. From it follow
`TypeCorrect`, `IndexIsExact`, `OpenIsListed`, and, where `CancelIsException`, `NoGhosts`.
`ImplementsPresence` maps each step to `Presence`, if no user is false in Python; with
the empty string as a user it is wrong, as `websocket_empty_user` shows.

**RedisConnectionProofs.** `IInv` ties the connection set to `pc` and `stale`, the
`need_auth_event` to the last answer of `auth()` (`AuthInv`, wherever the event was
already brought up to date), and `owed` to `pc` (`OwedInv`). The results are
`ConnectionsAreExact`, `OnlyAuthorisedRun` and `NoRefusalAfterTheCall` for every server
class, and `RepliesKeepStep` for those whose methods return nothing `write_result` is
silent on, which `SocketServerAnswers` shows of the websocket node's server.

**FifoLockProofs.** The queue and `pc` determine each other (part of `TypeOK`), and only
the head can be woken or inside (`BehindInv`). `Exclusion`, `NoLostWakeUp`, `Fifo` and
`Wedge` follow for any number of calls.

**SocketServerProofs.** `StepIsAppStep` shows that every step of a redis client is a
step of `WebsocketApp` or leaves it alone, from which `ImplementsApp` and, with the
invariant of `WebsocketAppProofs`, `CommandsAgree` follow. `AnsweredDel` needs an invariant
of its own: a session that a `DEL` aims at is closed, or its close is still a
task. It is kept because a session can only be opened by `Connect`, which does not
take one that a `DEL` holds.

**NodeProcessProofs.** `LifeInv` says which sockets there can be at which await and after
which outcome, `TaskInv` that list and running tasks are the same, and `RegistryInv`
that an undisturbed node has registered all that the class holds. `LifeLemma` has a
case for each step of the lifecycle and does not know of the class; `MonitorLemma`,
`UpdateLemma` and `ClearLemma` are about what the class holds and do not know of
sockets. `StopIsQuiet`, `StopEventReleases`, `LossNeedsCause`, `MonitorsPoll` and
`ServicesOffered` follow for any number of nodes, databases and services.

**GateProofs.** The invariant is the conjunction of the checked ones and `QueueInv`: the
queue of the semaphore has no visitor twice and each is in its state. `MoveLemma` says
what one visitor's move does to the number in a set of states; `AcquireLemma` and
`WakeLemma` apply it to the two operations of the semaphore. `NoLostPermit` is
inductive only because the head of the queue is woken with each permit that is put
back, and by a woken visitor that is cancelled.

**RedisCodecProofs.** Texts of numbers, `FlattenSeq` and `ReadAll` are defined by recursion, so that
these are inductions. The induction theorems of the library take an operator as a
parameter, which no prover here can instantiate; `WFMin`, that a set of naturals which is
not empty has a least element, takes a set, and gives induction over a set
(`SetInduction`), functions that are equal step by step (`AgreeStepByStep`) and the
existence of those that recursive definitions choose (`Iterate`, `DecimalExists`).
`DecimalIsRead` and `HeaderIsRead` say that every number, and every count and size, is
read as it was written. `TextSpells`, `IntSpells`, `NilSpells` and `WordSpells` say that
wherever such bytes stand, between whatever other bytes, a redis client finds
their token; `ReadsAll`, that what it finds token by token is all that it finds.

**RedisStreamProofs.** `RequestsAreIntact` needs to know where `create` is in what was
sent (`ReaderInv`): between requests at the first byte of a message, before a size behind
the words it has, before a word behind the size of it. Nothing else makes a
line that was read the header of a message, rather than bytes of a word that look like
one. The lemmas on `line` and `buffer` take this to what the reads return, with any number
of bytes that have not arrived. Of garbage they say that it stops the reader within it, or
at the begin of what follows. `RequestsServed` apart, nothing is assumed about timeouts.

`RepliesAreReadable` has its own invariant (`WritingInv`): between replies a client has read
all of them (`Idle`); within `KEYS` or `SCAN` all but the last one, of which it lacks as many keys
as are still to be written (`Lacks`); once the connection is closed, at least all but the last
one. `ArrayBeginIsRead` and `WritableLemma` show that an array of which a word cannot be written
is never taken for a whole one. That `RepliesReadable` holds when the connection is closed follows from what held
in the step before, and is not inductive without it.

Only model-checked: the liveness properties, `ClosedSessionLeaves`,
`SilentClientLeaves`, `RequestsServed`, `OnlyCancellationStops`, `OnlyLeaksBlockDrain` and
`ServeIsReported`. They need fairness and ENABLED, which are beyond what TLAPS proves.

## Not modelled

MATCH patterns, INFO texts and the counters in them, with no effect on what is checked here. Session ids (taken to be distinct). What
a service method computes. The connection of a monitor task to the node it polls.
The value `DEL` answers. `Result`, `utils`, the stubs of `RedisServer`; packaging and
tests.

## What could be added

The pattern of `SCAN MATCH` against a reference definition of globbing; an abstract bounded room that `Gate` implements, and an abstract
fair lock that `FifoLock` implements while nobody is cancelled; connections of
`RedisConnection` whose server is a live `SocketServer`.
