# A TLA+ model of zmqtt

zmqtt is an asyncio MQTT 3.1.1 / 5.0 client library. This directory holds TLA+
modules that model its concurrent core, TLC configurations that check them on
small instances, and TLAPS proofs of what matters most for every instance.
Paths below are relative to `src/zmqtt/` of the repository.

## 1. The system

Everything runs on one asyncio event loop. A task is interrupted only where it
awaits, so an action of a model is what a task does between two suspensions. A
task suspends in `transport.write` only when the write buffer is above its
high-water mark, on a future, on a lock, on a queue, or in a sleep; cancelling
a task takes effect when the event loop runs it again.

| Component | State | Operations | Interacts with |
|---|---|---|---|
| Packet identifier pool, `_internal/state.py` | next, in-use set | acquire, release | protocol engine |
| Protocol engine, `_internal/protocol.py` | in-flight QoS 1 and 2 tables, pending SUBACK / UNSUBACK tables, dead flag | publish, subscribe, unsubscribe, the dispatch of every packet, run, disconnect | transport; the broker's answers resolve futures of application tasks |
| Keepalive, `_internal/protocol.py` | list of waiting pings | ping, ping loop, PINGRESP | engine's run() |
| Client, `client.py` | protocol, connection info, subscription list, run task, failure signal | connect, retry, run loop, start / stop / get_message, disconnect | creates one engine per connection; restores subscriptions on it |
| Inbound flow and session replay, `_internal/inbound.py` | inbound QoS 2 flights, replay buffer | handle_publish, handle_pubrel, drain, expire, clear | queues of the subscriptions, request dispatcher |
| Subscription guards, `_internal/protocol.py` | a lock and a count per filter | hold | subscribe, unsubscribe, response observers |
| Subscription index, `_internal/subscription_index.py`, `topic_matching.py` | trie of filters, identifiers, observers | add, remove, select | inbound flow |
| Request dispatcher, `_internal/request_response.py` | pending requests, capacity, observed topics | request, claim, bind, restore, cancel_pending | inbound flow, guards |
| Codec and framing, `_internal/packets/` | incremental buffer | encode, decode, PacketBuffer | read loop |
| Transport, `_internal/transport/` | closed flags | read, write, close | asyncio streams |

What is hard: answers that arrive after their caller was cancelled; identifiers
that are reused while an old answer is on the way; calls that begin while
`run()` unwinds; a timer racing the answer it waits for; subscriptions that are
started or stopped while the client reconnects; exceptions of many classes that
can end a connection, each of which must be repaired or reported; a read loop
that blocks on a full application queue. `PROJECT.json` lists each such hazard
with its line and the properties aimed at it.

What makes the components correct:

* identifiers: one owner each; none leaks; none is reused while the broker may
  still answer;
* engine: each call reports the broker's verdict on its own request; every call
  ends; a conforming broker never causes a protocol error;
* keepalive: an answer reaches the ping that asked for it; a silent peer is
  noticed;
* client: no transport leaks; connection information is never stale; losses are
  repaired with all active subscriptions, or reported exactly once; nobody
  waits for messages of a client that has failed;
* inbound: QoS 1 at least once, QoS 2 exactly once, no acknowledgement of what
  was not delivered, replay bounded and in order;
* guards: calls that name a common filter never run at the same time, and no
  overlap of calls and cancellations blocks them for ever;
* index: the trie holds exactly the subscriptions, matches what MQTT matching
  says, and the recipient it selects is the most specific one;
* dispatcher: places are given back once, a topic stays subscribed exactly as
  long as a request or the application needs it, a response goes to the one
  request with its correlation data, and every request ends;
* codec: what is decoded is what was encoded, however the bytes are cut, and a
  complete packet never waits for further bytes.

## 2. Modules

### PacketIdPool
`PacketIdPool` is the allocator as operators on a record. The code's 65535 is
the constant `MaxPacketId`. The loop in `acquire()` that walks from `_next` is
the operator `FirstFree`: the first free identifier at or above `next`, else
the lowest.

### MQTTProtocol, MCMQTTProtocol, MQTTProtocolProofs
One connection. Each member of `Ops` is an application task that makes one call
(`Kinds`); `pc` is where it is suspended: `sending` (in `drain()`), `waiting`
(on its future), `unwinding` (cancelled, not yet run). `Register` acquires the
identifier and enters the future; `StartFlight` is that and the write, up to the
first suspension. Encoding comes in between and may raise (`Unencodable`, the
kinds of call for which it does: a topic of more than 65535 bytes, a property out
of range): `RefuseUnencodable` is a call that has nothing to undo or whose
`finally` block undoes it, `StrandPublish` a QoS 1 or 2 publish, which has no such
block and leaves identifier and flight behind. `Finish` is the end of a call with
the `finally` blocks. The tables of `SessionState` map an identifier to the task whose future they hold.
`toBroker` and `toClient` are what is written and unanswered, answered and
undispatched; the broker may answer in any order except that requests with one
identifier are answered in order, and `MaxRogue` lets it send packets it was
not asked for. The read loop takes one packet per step (`Handle...`); it may
itself be suspended when it writes PUBREL. `Losses` says how the connection may
be lost: `closed` (TCP end of file; writes still pass), `shut` (TLS end of
file: writes raise), `reset` (the transport fails), `silent`. `FailLoop` is an
exception leaving the loops, `Teardown` the `finally` block of `run()` with
`_cancel_pending`. Between the two, calls can still start. The branch of
`_read_loop` that returns when `_disconnecting` is set is not in `ReadEof`: the
client calls `disconnect()` only after it has cancelled and awaited `run()`
(`client.py` 543-548), so no read loop is left to take it.

### Keepalive, KeepaliveProofs
The list `_ping_waiters`, `ping()` called by `Pingers` and by the ping loop.
The timer of `wait_for` (`Expire`) and the turn in which the task runs again
(`TimedOut`) are two steps. PINGRESP carries no identifier, so `asked` and
`answer` number requests and answers as history. `Slow` says whether a timeout
may be shorter than the broker takes.

### ClientLifecycle, ClientLifecycleProofs
`MQTTClient` from `connect()` to `disconnect()`. A connection is a number; what
happens on it is abstracted to alive or ended with an error (`LinkErrors`, the
classes `run()` raises); `DialErrors` are the classes an attempt raises.
`_connect_with_retry` is one process whoever runs it, the run loop another, and
each `Subscription` a third (`Start`, `Subscribed`, `Stop`, ...). `held` is the
connection on which the broker holds a subscription's filters. `disconnect()` is
three steps: `Leave` clears the connection information and waits in
`cancel_pending()`, during which the run loop goes on and may reconnect or lose
the very task that restores a response topic (`RestoreCancelled`); `Exit` cancels
and awaits the run task; `Disconnect` closes the protocol. The application
does not stop a subscription on which it waits for a message.

### InboundPublishFlow, MCInboundPublishFlow, InboundPublishFlowProofs
What the client does with the broker's messages. A message is a number, its
place in the broker's order and its packet identifier; `TopicOf`, `Qos`,
`ManualAck` and `Responses` say how it is routed and acknowledged. The read loop
takes one packet per step and is suspended only where it matters: in
`queue.put()` on a full queue (`put`) and between PUBCOMP and delivery
(`completing`). `replay` is which of the three state objects is active; `held`,
`ids`, `topicCount`, `count` and `timer` are the fields of the buffered one, and
`lock` its lock with the holder first: tasks of `start()`, of `get_message()`,
or the expiration. `drain` is `_deliver_pending`, one message per step. While
its `pc` is `run` or `discard` the event loop is inside it, and `FreeLoop` keeps
everybody else still; it can be interrupted only in `send`. The application may
cancel a `start()` or `get_message()` there (`CancelDrain`), while it waits for the
lock or has just been given it (`CancelWait`), and a `get_message()` also between
taking its message and draining (`CancelGet`: the message is gone). A `start()`
cancelled before its SUBACK belongs to MQTTProtocol. `clear()` empties
the object while drains may still be suspended in it, and they go on as the code
does: `DrainSentLate` is the KeyError. A connection is a `session` number;
`Reconnect` waits until the writes of the old transport have ended. Stopping a
subscription is not part of this module. The broker answers every PUBREC with
PUBREL, as MQTT requires of a sender, and drops what it had sent of a session it
has forgotten. After the end of the connection `conn` is `broken` while writes
may still succeed, `lost` once one has raised, and `dead` when `run()` has ended.

### FilterOwnership, SubscriptionGuards, MCSubscriptionGuards, SubscriptionGuardsProofs
`SubscriptionGuards` is `hold(filters)`. Guard objects have identity (`Slots`),
because the danger is a caller with an object that the dictionary has dropped.
`Hold` is the call up to the first lock it must wait for (or into the body),
`Resume` its next turn, `Exit` and `CancelWait` the `finally` block. Filters are
numbers, so `sorted()` is `<`. `asyncio.Lock` is external: a queue of waiters,
served in order. `FilterOwnership` is what `hold` promises: all the filters of a
call are taken in one step, from nobody, and given back in one step.
`ImplementsOwnership` says that the first implements the second when a caller
owns what it named while it is inside.

### RequestDispatcher, MCRequestDispatcher, RequestDispatcherProofs
`client.request()` with the dispatcher, composed with the response observers of
the protocol engine, the guard of the topic (`queue`, its holder first), the
application's own subscription of the same topic (`App...`) and the client's
reconnection (`Lose`, `Bind`, `Restore...`, `Stop`, `Close`). An interest object
is named by the request that made it; `task` is its ready task, whose end is told
to everybody who awaits it (`Informed`), since `shield` lets several wait and a
later `bind()` forgets it. `pc` is where a call is: `calling` (the semaphore),
`ready`, `reply`, then in `unregister()` `cleanup`, `removing` (the guard),
`unsuback`. A cancellation is possible in each of them; `abandoned` records the
topics whose observer a cancelled cleanup left behind. `ReplyEnds` stands for the
reply, the timeout and a failed publish alike.

### TopicMatching, SubscriptionIndex, MCSubscriptionIndex, SubscriptionIndexProofs
A filter or topic is the sequence of its levels. `TopicMatching` has
`topic_matching.py` as operators and, as the reference, `MqttMatches`: the rules
of the MQTT standard stated with quantifiers over levels instead of the code's
recursion. The trie is a function from the paths of its nodes to their entries.
`match()` and the `select...()` functions are operators on the state; the
actions are those of the subscription table: `AddMany`, `RemoveFilter`, `Clear`.
The recursions of the code are recursive functions: over the levels in
`MatchParts`, over the nodes of the trie in `Collect`, over the filters of a
SUBSCRIBE in `AddMany`. A list comprehension is `Where`, which keeps the order of
what it selects, and the stable `sorted()` is `SortedByRank`; both give every item
the place that is the number of items before it (`Arranged`). `Levels` are the
texts of a level; a stripped prefix is one level that begins with "$"
(`PrefixAssumption`), like the defaults `$queue` and `$exclusive`: the client does
not check what it is given (`client.py` 492), and other prefixes are outside the
model. The filters are valid (`ValidFilter`, as `client.subscribe`
checks), and `Topics` contain for each filter a few topics that tell it from
others, with `OtherLevel`, which no filter names, in the place of its wildcards
(`Witnesses`), so that `Narrower` compares filters by what they match.

### PacketCodec, PacketBuffer, MCPacketBuffer, PacketBufferProofs
`PacketCodec` translates `codec.py`, `_wire.py` and `properties.py` to functions
on sequences of bytes. The tables for reading and for writing are separate in the
code and so they are here: a property that one has and the other lacks is the
mistake to look for. A text is its bytes; `DecodeStr` raises for those that are not
UTF-8 (`IsUtf8` is Python's decoder), `DecodeBytes` takes any. `Carried` is the reference: what of a packet a version of
the protocol carries at all. `PacketBuffer` is the buffer with its two readers,
`_await_connack()` and `_read_loop()`; the peer writes frames and TCP hands them
over in pieces of sizes in `Chunks`. `sent` is the history of what was written: the
meaning of each frame and where it ends in the stream. The encodings of all packets in
`MCPacketBuffer` were compared with those of the Python code, byte by byte.
The loops of the decoders are one operator, `Loop`.

## 3. Runs

| Run | Shows |
|---|---|
| `protocol_flights` | two calls of all kinds, publishes cancellable, all losses, with packets that cannot be encoded: identifiers are exclusive and leak only where such a publish strands them, no waiter is left after `run()`, outcomes are the broker's, no protocol error is raised against a conforming broker, QoS 2 keeps its order |
| `protocol_liveness` | every call ends and every identifier comes back unless it is stranded, with cancelled publishes, a reset, and a packet of any type that nobody asked for |
| `protocol_encode` (violation) | a publish that cannot be encoded keeps its identifier |
| `keepalive` | answers reach their own ping, no ping waits for an answer that is not coming, teardown fails the waiting pings, a silent peer is noticed, pings end |
| `lifecycle` | every class of exception, a subscription, two losses, reconnection enabled or not, `disconnect()` at any time: no transport leak, connection information current, active subscriptions are subscribed, the callback runs exactly when the run loop gives up; a loss is repaired, reported, or ends the run loop with an exception it does not handle, and consumers are woken in each case |
| `inbound_replay` | one resumed connection, three messages of QoS 0, 1 and 2, manual acknowledgement, a full queue, a full buffer, expiry: the buffer's tables are exact, no held message is forgotten, and each is delivered, expired or given back |
| `inbound_resume` | three connections, resumed or not, an automatic QoS 2 flight, a response to a request, a repeated PUBLISH, a cancelled `start()` or `get_message()`: the acknowledged is delivered, a QoS 2 message at most once |
| `inbound_pubrel` (violation) | PUBREL on a resumed session is unknown and ends the client |
| `guards` | three callers of any sets of three filters: no stale guard object, exclusive ownership (refinement), whoever waits gets in |
| `requests` | three requests for two places on one topic, two with the same correlation data, an application on the same topic, two connections, a cancellation: places are conserved, interests count their requests, waiting requests are heard, observers go with their last request, claims survive no connection, every request ends |
| `index` | every history of up to three subscriptions out of nine filters: trie and identifier table are exact, matching is the reference, the recipient is the most specific |
| `codec` | CONNACK and two frames out of all packet types in both versions, or malformed, in pieces of 1, 7 and 500 bytes: the codec is sound, packets come out whole and in order, only bad frames fail, none is held back |

The type invariants of Keepalive, ClientLifecycle, InboundPublishFlow and
RequestDispatcher are conjuncts of `EveryWaiterIsOwed`, `NoTransportLeak`,
`ReplayBookkeeping` and `CapacityConserved`.

Deadlock checking is off except in `guards` and `index`: once every task has made its call, or the client is
closed, the system really stops.

**Bounds.** Two tasks and two identifiers are enough for two flights to
coexist, for an identifier to be reused after its first owner finished, and for
exhaustion (with `MaxPacketId = 1` in `protocol_liveness`, where one call makes
the pool full); the safety invariants are proved for every number. One packet
out of turn suffices for every handler's error path, since each ends the loops.
Two pings of the application and the ping loop give three waiters. Two losses
and two attempts let a loss hit the restoration of an earlier one and let a
retry both succeed and run out. `MaxPings` bounds the ping loop only while the
connection works. The liveness run has one kind of loss: what it adds to the
safety runs is that whatever a loss leaves behind ends, and every loss ends in
the same teardown. That a packet out of turn leaves identifiers exclusive and no
waiter behind is proved (section 4). In `inbound_replay` two messages share a topic whose queue has
one place and three compete for a buffer of two, so that a queue fills during a
drain and the buffer overflows; `HeldIsResolved` was also checked there with one
cancelled call (`MaxCancels = 1`, 880 162 states), which takes too long for every
day. In `inbound_resume` one topic is enough, since what is checked is one
message's way through three connections (a session that is forgotten and one
resumed after it): its QoS 2 message is held and drained or handled at once,
repeated on one connection, and met again on the next after it was delivered. That
a message is delivered once also for manual acknowledgement and any number of
messages is proved (section 4). One subscription is enough in `lifecycle`, since
the client treats each on its own; that several are all restored is proved.
Three callers with three filters make every cycle of waiting that sorted locks
must exclude; three slots are enough identities, since at most three objects of
a filter are referred to at once. In `requests` a place short makes the third
request wait for the semaphore, equal correlation data meets a duplicate, and two
connections let a claim, a restoration and a cleanup straddle a reconnection. In
`index` the nine filters share trie nodes in every way (plain and shared on one
node, "#" at a parent, a prefix that leaves an empty filter), and three at a time
are enough for one to be removed between two others. In `codec` one byte at a
time reaches every cut; 7 spans a small frame and part of the next; 500 takes all
there is. `Many` stops the
history of deliveries at two. The violation runs use the smallest instances that show
their point.

**Fairness.** Weak fairness of each task's own steps, of the read loop and of
the teardown: asyncio runs every ready callback. Of timers: they fire. Of the
broker's answers while the connection works. In `MQTTProtocol`, of noticing a
silent connection (by the ping loop or by TCP). In
`InboundPublishFlow` strong fairness of the timer and of the teardown: they are
ready all along, and disabled only while the event loop is inside a drain.
In `SubscriptionGuards` of `Resume` and `Exit`: a body of a call ends (its SUBACK
arrives or the connection ends). In `RequestDispatcher` of each call's and ready
task's steps, of the broker's answers on a live connection, of the reply's
timeout and of `disconnect()` going on to close. Nothing is assumed of
cancellations, losses or application calls, and in `Keepalive` nothing of TCP.

## 4. Proofs

Every safety invariant the passing runs check is a theorem, except `CodecSound`,
which the theorems about PacketBuffer take as their hypothesis. The theorems hold for
every value of the constants that satisfies the named assumptions of the
modules; a theorem that needs more says so in its `ASSUME`. Each inductive
invariant was checked with TLC on the instances of section 3 before it was
proved.
A proof about queues begins with what appending to, taking from and deleting in a
sequence does to its elements.

### The engine: MQTTProtocolProofs

For all `Ops`, `MaxPacketId`, `Kinds`, `Cancellable`, `Unencodable`, `Losses`,
`PublishLimits` and `MaxRogue` (an identifier space that is not empty, known kinds):

* `TypeCorrect`: `Spec => []TypeOK`;
* `IdsExclusive`: `Spec => []PacketIdsExclusive`;
* `NoWaiterLeft`: `Spec => []DeadLeavesNoWaiter`;
* `LowestFirst`: `Spec => []LowestIdFirst`.

The inductive invariant is `IInv`. `PacketIdsExclusive` is not inductive: that
releasing an identifier frees nobody else's needs that the four tables are
disjoint and that an identifier is in use exactly when one of them has it, and
that a task may remove an entry needs that the entry is still its own
(`TaskOK`: a task that is suspended with a pending future is registered under
its identifier; a subscribe or unsubscribe until it finishes).
`DeadLeavesNoWaiter` follows because the teardown finds every pending future in
a table (`TasksOK`), and `EnsureAlive` keeps new calls out. `LowestFirst` rests
on two theorems about the allocator: acquire and release
keep every identifier below `next` in use, so the scan never wraps and
`acquire()` returns the lowest free identifier (`AcquireReturnsLowest`).

### The engine and the broker: MQTTProtocolProofs, second part

* `NoIdLeaks`: `Spec => []InUseIsOwed`, with any cancellations and any packets
  nobody asked for. `OwedInv` adds to `IInv` that an identifier in use has a
  packet that carries it on the way, a task that is about to release it, or a
  publish that ended because it could not be encoded (`Stranded`), and that such a
  publish keeps its flight as long as the loops run;
* `OutcomesMatch`: `OutcomeMatchesBroker` as long as `rogue = 0`;
* `NoSpuriousErrors`: `Spec => []NoSpuriousProtocolError`;
* `HandshakeKeepsOrder`: `Spec => Qos2Handshake`, an action property.

The last three assume `SubscribesUncancelled` (no subscribe or unsubscribe is
cancelled), and `HandshakeKeepsOrder` also `MaxRogue = 0`: without the first they
are false of the code (section 5, `ProtocolErrorBlamesBroker`), and the client
cannot tell an answer nobody asked for from the one it waits for. The invariant is `ConformingInv`: while the
broker only answers, every packet under way belongs to a flight that waits for it,
at the stage its table entry records, and no two packets carry one identifier. An outcome alone is not inductive: that the
answer which resolves a future is the answer to that future's request needs that
identifiers are not reused while one is under way, which is what cancelled
subscribes break.

### Keepalive: KeepaliveProofs

* `WaitersAreOwed`: `Spec => []EveryWaiterIsOwed`;
* `PingsAreFailed`: `Spec => []TeardownFailsPings`;
* `PongsAreOwn`: `Spec => []OwnPong`, assuming `~Slow`.

`KInv`: the list holds each pending future once (`ListOK`), it is no longer than
the requests and answers under way (`CountsOK`), and whoever waits is in it.
`OrderInv`, for the third: the list is the unanswered requests in the order they
were sent. With `Slow` a ping that gives up leaves its answer to the next one
(section 5), so the hypothesis is needed.

### The client: ClientLifecycleProofs

* `TransportsAreClosed`: `Spec => []NoTransportLeak`;
* `ConnectionInfoIsCurrent`: `Spec => []InfoIsCurrent`;
* `SubscriptionsAreRestored`: `Spec => []ActiveAreSubscribed`;
* `FailureIsNotified`: `Spec => []RecoveryFailureNotified`, for every class of
  exception: the callback was awaited if and only if the run loop gave up
  (`GaveUp`), at most once and not before.

`LInv` says which states of `connect()`, the retry loop and the run loop go
together (`Phases`), where an open transport can be (`Transports`), and for each
phase of a recovery which active subscriptions are held or still on the list to
restore (`Coverage`). `CallbackInv` relates the number of callbacks to the phase
and to the error that leaves the run loop: none before it gives up, one from then
on, none when an exception that no `except` clause names has ended it. The
property says which endings have a callback, not that all should: what the
documentation promises beyond it is `UnrestoredIsNotified` (section 5).

### Requests: RequestDispatcherProofs

* `PlacesAreConserved`: `Spec => []CapacityConserved`;
* `InterestsAreCounted`: `Spec => []InterestCounts`;
* `ClaimsAreOwed`: `Spec => []ClaimedIsOwed`;
* `ObserversAreWanted`: `Spec => []NoOrphanObserver`;
* `WaitersHear`: `Spec => []WaitersAreHeard`.

They hold for any set of requests, also an infinite one: only finitely many hold
a place, which is part of the invariant `Places`. The assumptions are a positive
capacity, a bound on connections that is not zero, `None` not being a request,
and that the application's topics in the model are response topics (others do not
meet the dispatcher). `Counts` relates the dictionary of interests to the pending
requests and to the calls in `unregister()`; `TasksInv` says that what a call was
told of a ready task is still how that task stands when the call acts on it, and
that an observer has an interest or a remover. `HeardInv` is about the guard of
each topic: an operation that awaits an answer is first in the queue, one that
waits for the guard is in it (`Guarded`); the broker has what the index routes
unless such an answer is awaited (`Settled`); and no removal is queued behind the
addition of the interest in the dictionary (`Served`), which is why a removal
that waits for its turn cannot take the topic from a request that came after it.
Between two connections nothing is left (`Quiescent`), so the next one starts in
order.

### Guards: SubscriptionGuardsProofs

For all finite `Callers`, all `Filters` (a set of numbers) and all `Slots`:

* `GuardsInvariant`: `Spec => []GuardInv`, the inductive invariant;
* `GuardsAreCurrent`: `Spec => []NoStaleGuard`;
* `GuardsImplementOwnership`: `Spec => ImplementsOwnership`, the refinement;
* `OwnershipIsExclusive`: no two callers own a common filter.

`NoStaleGuard` is not inductive: that the object a caller drops from the
dictionary is referred to by nobody else needs that its count is the number of
callers that noted it (`Bookkeeping`), which is an argument about cardinalities
and the reason why `Callers` must be finite. The refinement maps `Hold` and
`Resume` to `Enter` when they reach the body and to a stutter otherwise, `Exit` to
`Leave`, `CancelWait` to a stutter. That `Enter` finds its filters unowned is
where the invariant is used: two callers inside with a common filter would have
noted the same object, the current one, and both hold its lock.

### Receiving: InboundPublishFlowProofs

For all finite sets of messages, all topics and responses, every queue and buffer
size, and any number of connections, repetitions and cancellations:

* `TypeCorrect`: `Spec => []TypeOK`;
* `AcknowledgedIsDelivered`: `Spec => []AckedIsDelivered`;
* `BooksAreKept`: `Spec => []ReplayBookkeeping`;
* `Qos2DeliveredOnce`: `Spec => []Qos2AtMostOnce`;
* `DrainsAreNotMissed`: `Spec => []NoMissedDrain`.

`TypeInv` groups the types by owner and adds the contents of the wires and of a
drain. `AckInv`: what has been acknowledged is settled or in flight, and what the
application still has to acknowledge was delivered on its connection
(`EntriesOK`), so that a late `ack()` never starts a handshake for a message that
never arrived. `BooksInv` is about `Waiting`, the messages the buffer owns while a
drain passes them from hand to hand; `WaitingStep` shows that a step leaves this
sequence alone, appends to it, takes the message in the drain's hand out of it or
empties it, and `BooksAppend` and `BooksRemove` that the three tables follow, which
is an argument about cardinalities.

`Qos2Inv` is why PUBLISH is never taken twice: a message that has been delivered,
or is about to be, has its identifier in one of the tables; once PUBREL has
removed it from them, the order of the wire (`WireInv`: no PUBLISH behind its
PUBREL) and the broker's state (`Closed`) keep a repetition from coming. A write
that fails in a drain gives a message back although its flight has begun; then the
write of a PUBCOMP fails as well (`Quiet`), so that the flight does not complete.
A cancelled drain gives it back on a working connection (section 5,
`Qos2NoDuplicate`), which is why the property asks for `cancels = 0`.

`StuckInv` is why no drain is missed: what the last drain has passed over
(`Skipped`) has no subscription, or a full queue, or belongs to a topic with a call
that has yet to drain; a drain that is running does not count for what it has
already passed over. A call in the lock's queue keeps its reason (`LockInv`); one
that is cancelled there gives its place, and the lock if it had it, to the next. A
message that is held behind others of its topic is stuck because they are, which
needs the tables of `BooksInv`.

### The index: SubscriptionIndexProofs

For filters and topics of any length, any `Requests` and `Identifiers`, and any
number of subscriptions (the assumptions are `PrefixAssumption`, `FilterAssumption`
and `TopicAssumption`):

* `TopicMatchesIsMqtt`: `_match_parts` and the MQTT rules agree on every valid
  filter and every topic;
* `TablesConsistent`: `Spec => []IndexConsistent`;
* `MatchFindsAll`: `Spec => []MatchIsReference`;
* `SelectsTheBest`: `Spec => []SelectionIsBest`.

`IndexInv` says item by item what `IndexConsistent` says with sets: a node is there
because it is the root or on the way to an entry (`TreeOK`), it and the identifier
table list what `entries` has, and nothing twice. `Added` and `Removed` keep it
(`IndexOK` of any index, so that the recursion over a request does too), and the
heart of it is pruning: a node goes exactly when no remaining filter passes through
it.

That the recursions compute something is not taken for granted: for each there is a
lemma that a function with the recursive equation exists, by induction on the number
of levels or filters left, stated with a set instead of a predicate. What `Collect` returns below
a node at depth n is by induction from the depth of the topic upward: each item whose filter begins with the node's path and
matches from level n on, once (`Under`, `OnceEach`); literal, "+" and "#" children
give disjoint parts. `Match` then only filters and sorts, and sorting by counting
who goes before is a bijection because the order is linear (`Ordering`).

In `SelectsTheBest` the point is that the rank of a filter, a tuple compared
lexicographically, agrees with what the filters match. When f is strictly narrower
than g and both match a topic, its witnesses match g; at the first level where they
differ g has the wildcard, so the rank of f is the lower one and g cannot win. Two
filters of one rank that match one topic are the same.

### Framing: PacketBufferProofs

For all sets of packets and malformed frames, all `Chunks` without zero, any number
of frames, and `Versions` for which the codec is sound (`SoundVersions`):

* `CutsDoNotMatter`: when `decode()` has an outcome for the bytes that have arrived,
  it has the same outcome with more bytes behind them (no hypothesis on the codec);
* `InOrder`: `Spec => []InOrderAndWhole`;
* `NoneHeldBack`: `Spec => []NothingHeldBack`.

The hypothesis is that each packet, encoded and decoded in one piece, comes back as
`Carried`, and that a malformed frame raises. The run `codec` checks just that of
packets of every type with every property (`CodecSound`). The theorems add what the
cuts and the interleaving of peer, handshake and read loop can do to it: nothing.
`StreamInv` says that as long as the reader lives, its buffer followed by the wire is
what was sent after the packets yielded, frame by frame (`FramesOK`), and that
whoever is about to read has found the buffer without a packet. Neither property is
inductive without it: that the next packet is the right one depends on where in the
stream the buffer begins. By `CutsDoNotMatter` a buffer that begins at a frame either
is short of it or decodes to it (`FirstFrame`): it cannot fail early over a cut
length, nor end elsewhere. The bodies of the packets stay closed in this proof.

### Only model-checked

All liveness (fairness and ENABLED are outside the prover), and `CodecSound`: what
the encoders and decoders compute for every packet is a matter of induction over the
properties and filters in it, through operators of the library (`FlattenSeq`,
`SelectSeq`) that the prover cannot unfold.

## 5. Disagreements between code and documentation

Two have a run that shows them and an entry under "findings", with the sentence of
the documentation they contradict:

* `protocol_encode`: `publish()` acquires an identifier and registers the flight
  before it encodes the packet, without a `finally` block (`protocol.py` 300, 317):
  when encoding raises, both stay for the rest of the connection;
* `inbound_pubrel`: the table of QoS 2 flights does not outlive the connection
  (`client.py` 823, `inbound.py` 330), so the PUBREL of a resumed session is unknown.

Of seven more the module states what the documentation says. No run has them, because
they are false; TLC finds a counterexample within seconds when the property is put
in the configuration named, with the change given here:

| Property | Configuration | What the code does |
|---|---|---|
| `ProtocolErrorBlamesBroker` (`docs/error-handling.md` 126) | `protocol_flights`, `Cancellable` with `"subscribe"` | a cancelled subscribe or unsubscribe forgets its identifier in its `finally` block (`protocol.py` 467, 487), so that the answer of a conforming broker finds no entry and MQTTProtocolError ends the client. When the answer comes before the task has run again, the future is there but cancelled, and it is InvalidStateError; when the identifier was reused, the late answer settles the other call |
| `OwnPong` (`docs/advanced/ping.md` 37) | `keepalive`, `Slow = TRUE` | a ping that times out leaves its PINGRESP to the next waiter (`protocol.py` 500) |
| `PingRaisesAsDocumented` (`client.py` 636) | `keepalive`, `Slow = TRUE` | when PINGRESP takes the future off the list between the timer and the turn of the task, `list.remove` raises ValueError, from the ping loop out of `run()` |
| `UnrestoredIsNotified` (`docs/advanced/reconnection.md` 70) | `lifecycle` | an exception that the run loop does not name (`client.py` 905, 924) ends the client without the recovery callback: a ConnectionResetError on an established connection, a protocol error, a filter rejected on restoration, a peer that closes before CONNACK (for which there is no further attempt either) |
| `StoppedIsUnsubscribed` (`client.py` 325) | `lifecycle` | the list of subscriptions to restore is a snapshot taken before the reconnect delay (`client.py` 920), and a `stop()` meanwhile is undone |
| `Qos2NoDuplicate` (`docs/publishing.md` 26) | `inbound_resume` | a drain cancelled in the write of PUBREC gives its message back although its flight stays open (`inbound.py` 224), and it is delivered twice |
| `StopsListening` (`docs/advanced/request-response.md` 106) | `requests` | a request cancelled in its cleanup leaves the observer and the broker's subscription behind (`request_response.py` 194); `NoOrphanObserver` exempts such topics (`abandoned`). The same happens to a request cancelled a second time while its cleanup waits for SUBACK (187) |

The models contain these as well, without a property about them:

* `disconnect()` ends a request that is still registering with CancelledError,
  because `cancel_pending()` cancels the ready tasks (`request_response.py` 211),
  while `docs/advanced/request-response.md` 134 promises MQTTDisconnectedError;
* a request whose reply has arrived raises MQTTDisconnectedError when the
  connection is lost during the UNSUBSCRIBE of its cleanup (`client.py` 796; the
  same document, 143, names other reasons);
* a request cancelled while it waits for UNSUBACK makes that UNSUBACK unknown, and
  `_handle_unsuback` ends the client (`UnmatchedUnsuback`);
* a response topic that the broker rejects when the interests are restored ends
  the run loop (`RestoreFails`), and with it every subscription;
* a subscription whose `start()` raised stays in the client's list and is
  restored (`client.py` 271; `README.md` 69);
* `get_message()` takes a message off the queue and then drains the replay
  buffer; when that raises (the connection is gone, or the KeyError of
  `DrainSentLate`, `inbound.py` 244), or the task is cancelled meanwhile, the
  message is lost to the application, and the docstring names only the terminal
  error of the run loop. Cancelled before the drain, it also leaves the room it made
  unannounced, so that a held message waits for the next call or for its expiry
  (`CancelGet`; `NoMissedDrain` asks for `cancels = 0`);
* PUBCOMP is written before the message is put in the queue (`inbound.py` 334),
  so that a loss while the read loop is blocked there loses a QoS 2 message;
  `AckedIsDelivered` exempts it (`cut`);
* a PUBLISH repeated after its PUBREC makes the client send PUBREC again
  (`inbound.py` 438), and the second PUBREL that answers it finds no flight:
  MQTTProtocolError ends the client, as in `inbound_pubrel` but without a loss;
* replayed messages of one topic can be reordered (`inbound.py` 218): one is
  skipped because its queue is full, and a later one finds room when the drain
  goes on after a suspended write;
* `ping()` on a dead protocol times out instead of raising
  MQTTDisconnectedError (`protocol.py` 489; `docs/advanced/reconnection.md`);
* `keepalive=0` does not disable the ping loop (`protocol.py` 529;
  `client.py` 426);
* the write of PINGREQ is outside the timeout (`protocol.py` 495), which is why
  `SilentIsDetected` and `PingsEnd` exclude a blocked write;
* `decode_props_block` does not check that a property ends inside the block
  (`properties.py` 143): one that straddles its end is read from the bytes that
  follow, and those are read again as the next field.

## 6. Not modelled, and the plan

1. An abstract specification of a call with its verdict, implemented by
   MQTTProtocol.
2. InboundPublishFlow composed with Keepalive: a read loop that a full queue
   blocks cannot dispatch PINGRESP. `docs/advanced/backpressure.md` 59 describes
   the stall as intended, so the property would be how long it may last.
3. `auth()`, and the order in which messages of one topic are delivered.

Left out for good: the type classes and exceptions (data without state), the
checks of arguments in `client.py` and `types/topic.py` (`ValidFilter` apart), which
values fail to encode (that encoding may fail, and when, is in MQTTProtocol),
logging, and asyncio itself,
whose streams, timers and tasks appear only through what the code sees of them.
