# Verification of cochat

TLA+ models, TLC configurations and TLAPS proofs for
[cochat](../src/README.md), a distributed chat system in C++ built on the
`corpc` RPC framework. Paths below are relative to `src/`.

1. [The system](#1-the-system)
2. [The modules and the code](#2-the-modules-and-the-code)
3. [The runs](#3-the-runs)
4. [The proofs](#4-the-proofs)
5. [What was found](#5-what-was-found)
6. [What is not modelled](#6-what-is-not-modelled)

## 1. The system

```
 TestClient  <-- own protocol, AES -->  ProxyService (several)
                                          |        ^
                        corpc RPC, 5 s    v        |  forwarded messages
            UserService  FriendService  GroupService  ChatService (several each)
                   \          |            |           /        |
                    MySQL (user, friend, allgroup,    /     RocketMQ
                    groupuser, offlinemessage)       /   save_offline_msg
                    Redis (user_state:<id>, user_host:<id>)
```

A client keeps one connection to one proxy. The proxy turns each request into
RPCs; the four services keep nothing in memory but pools and hold all business
state in MySQL and Redis. `corpc` handles the requests of one connection one
after the other and those of different connections concurrently, on four
threads; an RPC that has no answer after five seconds is given up by its
caller, not by the service that executes it.

### Components

| component | state it keeps | operations | interacts with |
|---|---|---|---|
| UserService handlers (`UserService/UserService/interface/`) | none | Login, Logout, Register | row, cache and host entry through `UserDao`; called by the proxies |
| presence stores and `UserDao` (same code in four services) | MySQL `user.state`; Redis `user_state:<id>` (no TTL, or 300 s for "not exist"), `user_host:<id>` | look-ups with cache fill, update with cache eviction, list fills | every handler of every service |
| offline messages (`ChatService/.../read_offline_message.cpp`, `save_offline_message.cpp`, `mq/mq.cpp`) | MySQL `offlinemessage`, the RocketMQ topic | save (send with retries), consume, read-and-delete | the login handler of the proxy; senders; consumer threads |
| connection pool (`lib/connection_pool.h`, same code in four services) | queue of idle connections, counter, mutex, condition | `init`, `getConnection`, the deleter, the producer and the scanner thread | every DAO constructor and destructor |
| proxy sessions (`ProxyService/ProxyService/chat_service_dispatcher.cpp`) | `userConnMap_` (user → connection), `userCipherMap_` (connection → key), one mutex each | connect, key exchange, login, logout, close, `reset()` on SIGINT | UserService by RPC; the client |
| message forwarding (`one_chat.cpp`, `group_chat.cpp`; `oneChat`, `groupChat`, `forwarded` of the proxy) | none of its own | one-to-one chat, group chat, forwarding, saving offline | presence, sessions, offline messages |
| FriendService | MySQL `friend` | add, delete, list, user info | presence cache |
| GroupService | MySQL `allgroup`, `groupuser` | create, join, quit, info, list | presence cache |
| ID generator (`ChatService/.../utils/id_generator.h`) | second and counter | `getUID` | the message keys of the producer |
| client protocol codec | the connection's buffers | encode, decode with resynchronisation | proxies, clients, forwarding |
| test client (`TestClient/TestClient/chat_client.cpp`) | who is logged in; a semaphore; two flags | menus, reader thread, heartbeat thread | one proxy |

Encryption and hashing, start-up code, generated stubs, vendored `json.hpp`,
configuration, scripts and the manual test programs have no state that matters
to the protocols.

### What is hard

* **Concurrency without transactions.** Every handler is a series of separate
  accesses to MySQL and Redis, and any number of handlers run at once: check
  and update of the status are two accesses, the cache is filled by readers
  and evicted by writers, a member list writes many entries from one snapshot.
* **Two views of a session.** A proxy's maps and UserService's row and host
  entry change in different steps of the same handler, with other connections
  of the same user in between.
* **Failure without report.** A failed SELECT looks like an empty one, a failed
  INSERT in the consumer is ignored, a timed-out RPC reads as success and may
  be executed later.
* **Delivery.** A message is retried with a new key, redelivered after a
  consumer's death, read and deleted in two statements.
* **Threads and locks.** The pool is started without a lock, its scanner spins
  with the lock held, its producer sleeps on a condition few signal. The
  client's main and heartbeat threads share an output buffer without a lock,
  and so do, at the proxy, a connection's answers and the messages pushed to it.
* **Snapshots.** A chat message is sent by a status, a member list and a host
  entry that were read one after the other; a quit deletes by a role read
  before.

`PROJECT.json` lists these hazards line by line, with the properties that
cover each.

### What makes each component correct

| component | properties |
|---|---|
| presence | a stale cache entry has one of four known causes; the cache never invents a user; the host entry follows the row; only an admitted login, a logout or a registration changes a status; a login or a logout is one step to everybody else |
| offline messages | an accepted message is never forgotten but in three known gaps; a message is shown twice only for three known reasons; what has been shown or lost stays so; the queue drains, and mail is read in the end by a user who keeps logging in |
| pool | a connection has one user and is open; the counter is exact and bounded; the producer is awake when needed; the scanner lets go of the lock |
| sessions | nobody is locked out; a user's entry holds a connection that has a key and whose client is that user; a user with an entry is online there; sessions end only by their own logout, close or proxy; a user is in through one connection at most; a closed client goes offline |
| forwarding | an accepted message is on its way to every receiver; nobody else reads it; a refusal has a reason; nobody who is logged in has mail waiting; senders are told, copies arrive |
| FriendService, GroupService | a group keeps its one creator; an answer was true at some moment of its request |
| client | one answer per wait, its own; a request speaks for the user of the connection; a wait ends |
| codec | the frames sent are decoded once and in order, wherever the stream is cut |

## 2. The modules and the code

One action is one access to a store, one RPC, or one critical section: the
unit that other threads and processes can come between. History variables
(never read by a guard) are marked as such in the modules.

| module | models | abstract specification |
|---|---|---|
| `Presence` | UserService's handlers and every reader of the status | `Accounts`, with proxies for places |
| `OfflineMessages` | from `RocketMQProducer::send` to the login that shows the message | `Mailbox` |
| `ConnectionPool` | one pool with its request threads, producers and scanners | `BoundedPool` |
| `Session` | proxies, connections and their clients, with UserService | `Accounts`, with connections for places |
| `Delivery` (extends `Session`) | chat messages over the sessions, from the sender's proxy to the mailbox | `Post` |
| `Relations` | the tables of FriendService and GroupService under their handlers | |
| `ChatClient` | the client's three threads and the proxy's end of the connection | |
| `Codec` | frames on the byte stream | |
| `MC…` | values of the constants and symmetry sets | |
| `…Proofs` | theorems about the module they extend | |

**Presence.** `row`, `cache`, `host` are the columns and keys; a *worker* is a
handler somewhere in one of the services, with its next access (`pc`), its
request (`job`) and the states in its local `User` objects (`seen`).
`InfoSelect … StateFill` are the halves of `queryUserInfo` and
`queryUserState`, `Update`/`Evict` those of `updateUserState`, `Join`/
`ListFill` a friend list or a group's members. A login that is rejected runs
on to `Update` as the code does, with the state it has read. The kind of
request stands for all handlers with the same accesses; names and passwords
are reduced to *right* or *wrong*. `StoresMayFail` lets each access fail in
the way its wrapper reports it; a statement reported as failed may have been
executed before its connection was lost (`done` and `ok` in `Update`).

**OfflineMessages.** `Attempt`/`Return` are one turn of the retry loop, the
second when the broker's answer, or its absence, reaches the sender; a *copy*
is a message with the key of one attempt. `Deliver`, `Insert`, `Acknowledge`
and `Crash` are the consumer; a *row* is a copy and the hand-out that made it.
`Select`, `Delete`, `Reply` are `ReadOfflineMessage`, its last step including
the proxy and the client, which drop the mail when any other part of the login
fails. `KeysUnique` leaves open whether `offlinemessage` has a unique index,
since the repository has no schema.

**ConnectionPool.** A thread that finds `started_` false runs `Fill` and
`Launch`; `Take`, `Sleep`, `TimeOut`, `GiveBack` are `getConnection` and the
deleter; `Produce`, `ProducerWaits`, `ScanBegin`, `Close`, `ScanEnd` are the
helper threads. Each launching thread has helpers of its own, as two racing
starts make two of each. `init` pushes without the lock, so an overlapping
access to the queue, a data race, and `front()` of an empty queue end the
process (`up`), the worst the build can do, after which nothing is claimed; a
dereferenced null after `TimeOut` likewise. `aged` abstracts `clock()`.
`need` is the number of DAOs a request constructs.

**Session.** `table` is `userConnMap_`, `cipher` `userCipherMap_`; `pc` is what
a connection's coroutine does next. Login and Logout of UserService are one
action each here (`Presence` shows what is inside). `LoginRpc`/`Insert`/`Load`
are `login`: the call, the critical section, the look-ups whose failure makes
the client take the login for failed. `LogoutRpc`/`Erase` are `logout`,
`CloseErase`/`CloseRpc` are `clientCloseException`, `Interrupt`/`ResetRpc`/
`Exit` are `reset()`, during which `connMutex_` stays locked. `late` holds the
calls whose caller has given up. A call that meets a stale cache entry, another
request about the same user or a failing statement inside UserService writes
row and host entry or not, whatever it answers (`GoWrong`). `upset` is a history
of accounts that met one of the named causes of disagreement; the safety
properties are about all others.

**Delivery.** Every action of `Session` is an action here too (`SessionStep`),
so logins, closes, shutdowns and crashes come between any two steps of a
message. `stage` is the next step of the handler of a message, first `oneChat`
at the proxy, then `OneChat` or `GroupChat` of ChatService; `on` is the
snapshot of the receivers' states, `rest` the receivers the loop has still to
deal with, `at` the proxy read from the host entry, `fate` where each copy is:
*away* and *adrift* are copies sent to a proxy before and after it has found
the user gone, *queued* and *stored* are the mailbox. Pushing to a client and
`forwarded` are critical sections under `connMutex_`. `GroupChat` reads the
rows of the members (`OnlineIn`), `OneChat` what the cache has of its receiver,
which may be stale for good; and every handler that looks up an account,
`SaveOfflineMessage` included, believes an entry that says there is none. What
such an entry does to a message is in `misled`: *forwarded* though its receiver
is offline, *mailed* though he is online, *refused*, or not saved (*unsaved*)
when his proxy sends it back. When entries are stale is the subject of
`Presence`; here each use of one is possible at any time and counts as a mishap.
The queue and the table are a step each; what happens inside them is the subject
of `OfflineMessages`.

**Relations.** One action per SQL statement; `LookUp` is a SELECT whose
failure reads as *nothing found*, an INSERT or DELETE may be done and its
answer lost. Several workers may serve one user, since a call that has timed
out goes on while its user asks for the next thing. `QueryUserInfo` is the look-up
of an account, which first believes a `not_exist` entry of the cache (`hidden`)
and leaves one when its SELECT fails; `Hide` and `Unhide` are what everybody else
does to these entries, of accounts that exist. The handlers take it for
granted that `friend(userid, friendid)`, `allgroup(groupname)` and
`groupuser(groupid, userid)` are unique, as they read a failed INSERT as "is
there already"; the repository has no schema, and the model takes the same for
granted. `was` is the history of what the tables, and the cache about the
accounts, said while a request lasted.

**ChatClient.** `at` and `asked` are where main is in `start` and `mainMenu`;
`success`, `running`, `user`, `sem` are the client's members; `reader` and
`handled` the answer the reader works on. A *writer* is a thread that encodes
and sends through an output buffer it shares with another: main with heart,
the connection's coroutine with whoever pushes a message. `Begin` and `Finish`
are the ends of that access, and if two overlap (`clash`) each frame may be
lost or sent twice, the outcomes of two unlocked writes to a `TcpBuffer` that
leave the stream decodable; `Codec` has those that do not. A send that reports
an error loses the frame. `session` is what `userConnMap_` has for the
connection. `upset` is set by a fault that hits a request or an answer, and by
a login whose later look-ups fail, which the client takes for refused.

**Codec.** The layout of a frame, the scan and the recycling are the code's,
byte by byte, with the lengths and magic numbers it uses. `Arrive` moves any
number of bytes. `LeaveTail` puts the end of a lost frame into the stream,
what is left when two encoders write at the same place. Nothing is escaped, so
that frames are told apart at all depends on the bodies: `BodyAssumption` and
`TailAssumption` say what of them.

### How they fit together

`Session` uses `Presence` at the grain of whole RPCs. `Accounts` is the
interface between them: accounts, the places their users are logged in from,
and the accounts of which no more is promised. `Presence` implements it with
proxies for places, so a login or a logout, whatever its accesses to the two
stores are interleaved with, is one step, `Login` or `Logout` of `Accounts`, and
that is all `Admit` and `Retire` of `Session` do; what `Presence` gives up,
accounts with overlapping session requests or failed accesses (`disturbed`), and
those whose logout a stale cache entry turns away, is a call that goes wrong in
`Session` (`GoWrong`), and its account one with a fault there (`upset`). On top of it `Session` implements
`Accounts` once more, with connections for places. `Delivery`
composes the sessions with presence and mailbox into end-to-end delivery; the
readers of `OfflineMessages` are the `Load` steps of `Session`, and overlap
exactly when two logins of one account were admitted. The client's menus in
`Session` (log in when logged out, log out when logged in, one request at a
time) are what `ChatClient` shows of the real threads (`OneAnswerPerWait`,
`RequestsSpeakForSession`). `Relations` answers which members a group message
has. The stale entries of `Presence` (`tainted`) are `misled` in `Delivery` and
`hidden` in `Relations`. `ConnectionPool` is beneath all DAOs, `Codec` beneath every connection of
a proxy.

## 3. The runs

A run marked *violation* checks one statement of a comment or an error message
against what the code does, and finds it false (section 5).

| run | what it asks | instance |
|---|---|---|
| `presence_failure` | what row, cache and host may disagree on, who changes a status, is a login or a logout one step to all others (the abstract accounts) | 1 account, 2 proxies, 3 requests of any kind at once, any access may fail |
| `presence_double_login` (violation) | may two logins both be admitted? | 1 account, 2 requests, no failures |
| `offline_unreliable` | accepted messages, duplicates, the abstract mailbox, liveness of queue and mail | 1 message, 2 attempts, 2 consumers, 2 hand-outs, 1 login at a time, everything failing |
| `offline_deletes` (violation) | are only queried messages deleted? | 1 message, 1 login, no failures |
| `pool` | sharing, limits, the producer's sleep, the abstract pool; the scanner lets go | 2 threads that may both start the pool, 4 connections, requests of up to 2 |
| `session_two_users` | all overlaps of logins, logouts, closes, shutdown in one proxy's table; the abstract accounts | 2 accounts, 1 proxy, 2 connections, 1 fault or call that goes wrong |
| `session_left_online` (violation) | does every closed client go offline? | 1 account, 1 proxy, 2 connections, no faults |
| `delivery_faults` | what a sender may rely on, why a message is refused, that handlers, copies and closes come to an end | 1 receiver, 1 proxy, 1 fault or stale entry anywhere, liveness |
| `delivery_moving` | who reads what while a receiver moves between proxies and another takes his connection; why a group message is refused; the abstract post | a group of 2, 2 proxies, 1 fault or stale entry of the message, 1 shutdown |
| `relations` | a group's creator, the truth of answers | 2 users, 1 group, 2 requests at once, any statement may fail, 1 account may be hidden |
| `client` | one answer per wait, requests and sessions, every wait ends | 2 accounts, 1 connection, 2 faults, liveness |
| `codec` | frames in order over any cutting of the stream | 3 frames of 4 bodies, 1 of 5 tails |

### Bounds

* *Actors.* The races of `Presence` are between one reader or writer and
  other requests that come between two of its accesses, so two workers reach
  them; `presence_failure` has three, so that two of them may also overlap
  inside the third, and two proxies, so that a login has a place to be wrong
  about. One account is enough because no handler carries anything from one
  account to another: a list takes the entry it fills from that account's own
  row. In `Session` the conflicts are between two connections in one table
  (`session_two_users`) or between two tables (`delivery_moving`, which has
  every step of `Session`). The types of `Session` are in `DeliveryTypeOK`,
  which `delivery_faults` checks. Two accounts matter when one connection has
  had both. In `Relations` a third request could only lengthen the interval
  between two statements of another. The safety properties of these modules are
  also proved, for any number of accounts, workers, proxies and connections.
* *delivery_moving* is cut by constraints to what `delivery_faults` has not:
  `NoneUpset` (sessions whose history is settled; three of its properties hold
  of these only), `NoneLate` (faults are the message's), `OtherUp` (one proxy
  may be interrupted, none stays down), `VTakesOver`: while the message is on
  its way and the first member has left his connection to p1, the second may log
  in on it, and stays, so that a copy for the first can meet him there. Before
  that he is away, and there is a copy that goes to the mailbox.
* *relations*: `OneHidden` lets the cache hide the account that the other one
  befriends; which of two it is makes no difference to a handler.
* *client* stops at the first fault that hits a request or an answer
  (`InStep`): every property of it is about the time before. One heartbeat and
  one pushed message are under way at a time, each enough to overlap a request
  or an answer.
* *codec*: bodies of 1, 2 and 16 bytes, two of them with a magic number and a
  length inside, one of which points at the end of the next frame; tails
  shorter than, equal to and longer than the shortest frame. What no body may
  hold is a whole frame, which ciphertext meets practically never; what none may
  hold in its last bytes, as many as a tail is long, is a magic number followed
  by a length that points beyond the body. `BodyAssumption` states both and TLC
  evaluates it for the bodies given. Four bytes that read as a negative length
  are not among the inputs; they meet a magic number once in 2^33 bytes.
* *Retries* is the configured `send_msg_retries`, 2. *MaxDeliveries* 2 is one
  redelivery per copy, enough for every cause of a duplicate.
* *Pool sizes.* The code compares sizes only with each other: `InitSize` 1
  below `MaxSize` 2, with as many connection names as racing starts can
  open. The names bound the instance, not the code: a closed connection's name
  is used again.
* *MaxFaults* caps late calls, failed look-ups, calls that go wrong and crashes
  in `Session`, the faults of a message and its stale entries in `Delivery`, lost and doubled frames in `ChatClient`;
  one of each kind is tried at every point. The proofs have no such bound.
* Nothing else is bounded: sessions, logins, hand-overs and pool cycles repeat
  for ever.

Symmetry is used in safety runs only, and over sets no constant tells apart.
`CHECK_DEADLOCK FALSE` is set for the pool, where the process may die (`up`),
after which nothing moves, and for the codec, which ends with the frames.

### Fairness

* Handlers, coroutines, consumers and helper threads are weakly fair: they are
  run by schedulers that starve nobody, and each of their steps is one that
  stays possible until it is taken or that another thread's step repeats.
* The broker hands out what it holds.
* The client's threads and the proxy's coroutine are weakly fair (`Fairness`
  of `ChatClient`); an RPC is answered or given up after five seconds, so
  `Serve` is too. So are the handlers of messages and the carriage of copies
  (`DeliveryFairness`).
* Nobody has to send a request, log in, hang up, restart a proxy or execute a
  late call, type a command or keep a connection: these have no fairness.
  `offline_unreliable` adds, as the condition of `MailIsSettled`, a user who
  keeps logging in and a store that does not fail for ever (`LoyalSpec`: strong
  fairness of a DELETE that works).
* A waiting `getConnection` has no fairness for its time-out: every
  `notify_all` starts the 100 ms anew, and a producer at the limit sends them
  without pause.

## 4. The proofs

All theorems hold for every value of the constants that the named assumptions
allow; no proof step is taken on trust.

| theorem | statement | rests on |
|---|---|---|
| `PresenceProofs!TypeCorrect` | `Spec => []TypeOK` | `LocalFit`, `ReadsReal` |
| `PresenceProofs!StaleEntriesExplained` | `Spec => []StaleEntryExplained` | the full `IInv` below |
| `PresenceProofs!CacheOnlyNamesRealUsers` | `Spec => []CacheNamesRealUsers` | `IInv` |
| `PresenceProofs!HostAlwaysFollowsRow` | `Spec => []HostFollowsRow` | `IInv` |
| `PresenceProofs!StatusChangesEarned` | `Spec => StatusChangesAreEarned` | `IInv` |
| `PresenceProofs!ServiceIsAtomic` | `Spec => Promise!Spec` of `Accounts` | `IInv` |
| `OfflineMessagesProofs!TypeCorrect`, `AcceptedRemembered` | `[]TypeOK`, `[]AcceptedNotForgotten` | `LocalInv`, `TraceInv` |
| `OfflineMessagesProofs!DuplicatesHaveReasons` | `[]DuplicatesExplained` | `OnceInv` |
| `OfflineMessagesProofs!ImplementsMailbox` | `Spec => Promise!Spec` | `PlaceInv` |
| `ConnectionPoolProofs!TypeCorrect`, `NeverShared` | `[]TypeOK`, `[]NoSharing` | `IInv` |
| `ConnectionPoolProofs!CountIsExact` (no run) | `[]CountExact` | `CountInv` |
| `ConnectionPoolProofs!PoolBounded`, `ProducersAwake` | `[]CountBounded`, `[]ProducerSleepExplained` | `BoundInv` |
| `ConnectionPoolProofs!ImplementsPool` | `Spec => Promise!Spec` | `IInv`, `StepKinds` |
| `SessionProofs!TypeCorrect` | `Spec => []TypeOK` | `IInv` |
| `SessionProofs!NobodyLockedOut` | `Spec => []OnlineHasSession` | `IInv` |
| `SessionProofs!MessagesReachTheirUser`, `EntriesAreOnline` | `[]EntryHasOwner`, `[]EntryIsOnline` | `IInv` |
| `SessionProofs!SessionsOnlyEndThemselves` | `Spec => SessionsEndThemselves` | `IInv` |
| `SessionProofs!OneSessionEach` | `Spec => Ledger!Spec` of `Accounts` | `IInv`, `LostStaysLost` |
| `DeliveryProofs!DeliveryTypeCorrect`, `AcceptanceHolds`, `OnlyReceiversRead`, `RefusalsExplained` | `[]DeliveryTypeOK`, `[]AcceptedIsOnItsWay`, `[]NobodyElseReads`, `[]RefusalExplained` | `DInv` |
| `DeliveryProofs!NoMailWaits` | `[]MailWaitsOnlyIfOvertaken` | `MailInv` |
| `DeliveryProofs!SessionsBeneath` | `DeliverySpec => Spec` of `Session` | `SessionStep` |
| `DeliveryProofs!ImplementsPost` | `DeliverySpec => KeepsPostPromise` | `DInv` |
| `RelationsProofs!TypeCorrect`, `GroupsKeepTheirCreator` | `[]TypeOK`, `[]GroupKeepsItsCreator` | `CreatorFits` |
| `RelationsProofs!AnswersTrue` | `[]AnswersWereTrue` | `IInv` |
| `CodecProofs!TypeCorrect`, `FramesAreDecodedInOrder` | `[]TypeOK`, `[]FramesInOrder` | `IInv`, `FirstFrame` |
| `ChatClientProofs!TypeCorrect`, `MainAndProxyInStep`, `UserIdsAreTheSessions` | `[]TypeOK`, `[]OneAnswerPerWait`, `[]RequestsSpeakForSession` | `IInv` |

**Presence.** A login that is rejected writes back the state it has read, so
the row's type, and everything about it, depends on what handlers hold in
their local objects. `IInv` adds to the properties: local states fit their
step (`LocalFit`); whoever holds a state read from a row holds one a row can
have, of a row that exists (`ReadsReal`, without which `CacheNamesRealUsers`
is not inductive); a non-disturbed account has at most one session request in
progress (`OneAtATime`), and that request's step agrees with the row and the
host entry (`SessionFits`). With these each action keeps each conjunct.
The refinement of `Accounts` takes a login to have happened when its UPDATE is
done: until its host entry is written too, the user is where that request says
(`Arriving`), afterwards where the entry says. A logout has happened at its
UPDATE as well, so the host entry it has still to remove is not looked at. The
proof gives each account that stays undisturbed one of four fates in a step:
it stays as it is, is created, entered or left.

**OfflineMessages.** `LocalInv` ties a sender's attempts to its copies and a
consumer's stage to what it holds. `TraceInv` says what the property needs of
*every* copy that reached the broker, accepted or not: it can be traced, and a
row a consumer calls stored is accounted for. For the refinement `PlaceInv`
adds that whatever is inside or shown came from a copy that was sent, so a
message never passes from *nowhere* to *inside* behind its sender's back. The
refinement maps a message to the best of the places its copies are in; `Select`,
`Deliver` and the acknowledgements of other copies are stutters.
`DuplicatesExplained` speaks only of what has been shown, and a row on its way
could still break it. `OnceInv` follows a message to which none of the named
causes has happened: one copy of it reached the broker (`OneCopy`), its row was
made by the hand-out that ends with the acknowledgement (`RowFinal`), so there is
one (`OneRow`), which is with one login and out of the table when that login
answers (`OneLogin`), and nowhere else once it is shown (`ShownOnce`). The run
has one login at a time; that two may overlap is in the theorem only.

**ConnectionPool.** `NoSharing` is inductive together with the shape of a
request (`NeedFits`: only a request in progress holds connections). The
counter needs cardinalities: lemmas on finite sets give the size of the idle
set after a push, a pop and a move, and `StepKinds` classifies every step as
opening, closing, lending, taking back or none of these, which both
`CountIsExact` and `ImplementsPool` use. The bound on the counter is not
inductive, as a starter in the middle of `init` has connections still to open:
`Budget` counts these too. `ProducerSleepExplained` is inductive with the types,
since whoever empties the queue wakes every producer, but for the scanner.

**Session.** For accounts not in `upset`, `IInv` relates the four views of a
session: an entry's connection is one whose client takes itself for that user
or is about to (`EntriesFit`), a connection in a step of a session has the
entry or is about to insert it (`TableFits`, `LiveFits`), one connection per
proxy is live for a user, and whoever is online has a *keeper* at the proxy in
`host`, the connection or pending step that will log him out (`OnlineFits`);
late calls belong to upset accounts (`LateFits`). `OnlineHasSession` alone is
not inductive: a logout's `Erase` could remove an entry another login relies
on, and only *one live session per proxy* excludes it. For the refinement of
`Accounts` a user is at the keepers of his session (`Keeper`), of which there is
never more than one. That fails for one kind of account not yet upset: a login
admitted at a proxy that is already in `reset()` waits for a lock it will never
get, and while it does, a second connection there can log the user out and a
third log him in. `Lost` counts these accounts with the upset ones, as the end
of the proxy will (`LostStaysLost`). The proof shows that no step makes another
connection the keeper of a session that goes on (`KeepersStay`), and that a
status changes only by a login that finds no keeper or a logout through it
(`StatusStep`).

**Delivery.** Whatever `Session` guarantees holds under the messages too
(`SessionsBeneath`), so `SessionProofs` is used, not repeated. `DInv` adds
where a copy can be at each stage of its handler: receivers not dealt with
have none (`Fits`), who was seen online, or taken for it from a stale entry, or is
being forwarded to explains a refusal (`Course`, `Readings`, `Refusals`; `Asked`
says what the look-ups come to), and a pushed copy met an entry of its user
(`Whereabouts`), which with `EntryHasOwner` is why nobody else reads it. The
refinement of `Post` reads verdict and place off `stage` and `fate`; every
step of `Session` is a stutter of it or moves copies to their end. That no mail
waits needs the whole way of a copy that no login of its receiver has overtaken:
as long as he is settled at a proxy (`Settled`), ChatService has seen him online,
unless a stale entry has sent the copy to the mailbox, and at that proxy, and what
has been forwarded goes there (`Follows`). The runs have the group's case of this,
in which no such entry is looked at; a single receiver's is in the theorem. A user
becomes settled only by the `Load` of a login (`SettledStep`), and that reads
what is stored and overtakes what is not.

**Relations.** That a group keeps its creator is not inductive: a quit deletes
by user and group whatever the role has become. `CreatorFits` adds that no
quit is about to delete the row of a creator or of one who is about to become
it, which holds because a quit is at its DELETE only for a member it has seen
as ordinary, and nobody changes a role. `AnswersTrue` follows the history
`was`: what an answer claims was recorded by the statement that found it, and
that an account is not there by the entry that said so (`CacheKeeps`: the cache
changes no other fact).

**ChatClient.** `Due` is the set of places where a request or an answer is.
`IInv` says which of four things main is in: waiting for nothing, posted
(`Answered`), waiting for the one frame at a named station (`Waiting`), or for
one that went with the connection (`CutOff`). A step leaves every station as it
is but for heartbeats and messages (`Same`), takes the frame to the next one
(`Moves`), or turns the request into its answer. For the session each station
has its own claim: until the proxy has served the request its session is that
of main's page (`PageFits`), then what the answer says (`AnswerFits`), then what
the flags say (`FlagsFit`), which is again the page when main has looked at
them. Two lemmas on sequences carry the stream: appending heartbeats and taking
the head keep *no frame due* and *one frame due*.

**Codec.** The theorem is for bodies and tails of any length, any number of
frames and any cutting, under `BodyAssumption` and `TailAssumption`. `IInv` is
stated in positions of the stream from its first byte on, which no step moves:
frame k has the bytes from `Start(k) + 1` to `ends[k]`. `Layout` puts the frames
one after the other with one gap at most, `Content` puts their bytes where they
were sent for as long as they have not been recycled, and `NoDecoy` says that a
magic number outside all frames leads to none (`Dead`), whatever is sent after
it. `Place` is what makes it inductive: recycling, which takes from the front
of the buffer and not from where the frame was found, lags behind decoding by
the gap and no more, and has passed the frame before the last. `FirstFrame` is
the heart: what the scan finds first is the frame after the last or the last
again; a head inside a frame cannot be first, because a frame it would make
ends within that frame, which `BodyAssumption` excludes, or beyond it, and then
that frame itself is whole and begins earlier, unless its beginning has been
recycled, of which `Behind` says how much is left.

**Only model-checked.** The liveness properties (`QueueDrains`,
`MailIsSettled`, `ScannerLetsGo`, `ClosedGoesOfflineUnlessUpset`,
`SendersAreTold`, `CopiesArrive`, `EveryWaitEnds`), because TLAPS does not
support the fairness reasoning they need, and neither `ENABLED`. Every other property of a passing
run is proved.

## 5. What was found

Three statements of the repository fail, each shown by a run; `PROJECT.json`
quotes the lines.

| run | property | what happens |
|---|---|---|
| `presence_double_login` | `LoginRefusedWhenOnline` | two logins read "offline" before either writes; both are admitted |
| `offline_deletes` | `OnlyQueriedAreDeleted` | a message stored between SELECT and DELETE is deleted unread |
| `session_left_online` | `ClosedGoesOffline` | a logout's second half erases the entry of a login in between; when that client closes, nobody logs it out |

The properties that hold name, in their history variables, the other ways in
which the code parts from what one would expect:

* `tainted` (Presence): a look-up overtaken by a login stores "offline" with no
  TTL. Logout trusts the cache, so the online user is told, however late and
  alone he asks, that he has already logged out.
* `tainted` again: an UPDATE that was executed but is reported as failed, its
  connection being lost, sends no DEL; the entry stays as it was, with no TTL.
* `dropped`, `wiped`, `unheard` (OfflineMessages): an INSERT that fails and is
  acknowledged, a DELETE of rows not read, a reply that is lost after them.
* `Starters` (ConnectionPool, `CountBounded`): two first requests both start
  the pool, and it outgrows `max_pool_size` by the initial size.
* `ReadPastEnd`: the scanner takes the front of the queue without asking
  whether it is empty, which is undefined; the model ends the process there.
* `drained`: the scanner closes the last idle connection and wakes no producer.
* `Closes`: `~MySQL` tests the wrong way round and closes nothing. The proofs
  hold for both values of `Closes`; the runs take `TRUE`, the Redis pool, as a
  pool that leaks has no finite instance.
* two requests that hold one connection each and wait for a second one at the
  limit never get it, and never a time-out either: the producer's notifications
  start their 100 ms anew. `Fairness` leaves `TimeOut` out for that reason.
* `Stranded` (Session): a login UserService admits at a proxy that is being shut
  down is never recorded; until the proxy is gone, other connections there can
  log the user out and in again behind it.
* `upset` (Session): a login admitted before its entry was made survives the
  shutdown of its proxy; `reset()` logs out a user who has moved to another
  proxy; a call read as a success is executed later, or never.
* `stirred`, `overtaken` (Delivery): a logout between the look at the status
  and the look at the host entry turns a message that could be stored into an
  error; the first member of a group that cannot be reached ends the loop, the
  members before it have the message and the sender is told it failed; a
  message forwarded to a proxy its user has left is stored after his next
  login has read his mail.
* `misled` (Delivery): `OneChat` believes the cache. A stale *online* of a user
  who is offline makes his messages fail, one after the other, until he logs in;
  a stale *offline* sends what is for a user who is online to his mailbox, where
  it waits for his next login; a `not_exist` entry refuses a message, or drops a
  copy that the proxy wanted saved, after the sender was told a success.
* `hidden` (Relations): for the 300 seconds of a `not_exist` entry an account
  that exists is told, or said, not to.
* `troubled` (Relations): a group whose second INSERT fails stays without a
  creator for ever, with its name taken; so does one whose creator joins it as
  a member between the two.
* `upset` (ChatClient): a frame lost where two threads write through one
  buffer, or by a send that fails, leaves main at `sem_wait` for ever, while
  the heartbeat keeps the connection up; a frame sent twice posts the
  semaphore once too often, and from then on main runs one answer ahead.
* `tail` (Codec): bytes that belong to no frame are never dropped, as
  `recycleRead` takes the frame's length from the front of the buffer; when
  they are as many as the frame is long, the frame is decoded twice.

A property that names such a gap shows that there is no other, and says nothing
of what happens in it: `AcceptedNotForgotten` of an INSERT that fails,
`GroupKeepsItsCreator` of a creation cut short, `OneAnswerPerWait` and
`EveryWaitEnds` of a frame lost or doubled, `OnlineHasSession` of the users of a
proxy that crashed. `PROJECT.json` notes it at each of these hazards.

## 6. What is not modelled

* The contents of messages, names and passwords: data no property tells apart.
* Encryption: calls into OpenSSL; whether there is a key is in `Session`.
* Start-up, configuration and the generated dispatch. `CALL_RPC_INTERFACE` of
  every service runs a handler and turns an exception into a return code; the
  handlers' models contain that as their outcome. The macro runs `done` once in
  the branch taken and once more at its end (`UserService.cpp:28`, `:60`). What a
  second run of that closure does is corpc's affair, whose source is not in the
  repository; the models take a request to be answered once.
* The handlers that only read (`GetUserInfo`, `GetFriendList`, `GetGroupInfo`,
  `GetUserGroups`): what they write to the cache is in `Presence`, their
  answers are lists of what they have read.
* The internals of corpc, MySQL, Redis and RocketMQ, which appear as their
  users see them; `RedisLock` and `incr`, which nothing calls.
* A server that refuses a pool's connection.
* The SIGINT handler on a thread that holds `connMutex_`: undefined behaviour
  in the end, so there is nothing to state but that it must not happen.
* The ids of `IDGenerator`: they repeat after 65536 in a second, or when two
  threads raise the counter at once, and are keys of rows in
  `offlinemessage`. What that does depends on an index of a schema that is not
  in the repository; `OfflineMessages` gives each attempt a key of its own.

The map covers a small share of the repository's lines, as nine tenths of them
are three copies of `json.hpp` and protobuf output. Of the program's own code,
four services share copies of the same pool, wrappers and DAO, and the map
names one of each.

What would come next: several overlapping logins in a run of
`OfflineMessages`; the mailbox of `Delivery` as an instance of `Mailbox`, which
needs a history of the copies that went through it, as a copy shown by a push
never enters it.
