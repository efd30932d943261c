-------------------------- MODULE InboundPublishFlow --------------------------
(***************************************************************************)
(* What the client does with the messages a broker sends it:               *)
(* InboundPublishFlow with its QoS 1 and QoS 2 receive flows, manual       *)
(* acknowledgement, a read loop that blocks on a full application queue,   *)
(* and the buffer that holds what a resumed session replays before the     *)
(* application has declared its subscriptions.                             *)
(*                                                                         *)
(* A message is its number in the broker's order and its own packet        *)
(* identifier.  A drain of the buffer runs under a lock; while drain.pc =  *)
(* "run" or "discard" the event loop is busy with it and nobody else       *)
(* moves, while it is "send" its task is suspended in the write of an      *)
(* acknowledgement.                                                        *)
(***************************************************************************)
EXTENDS SequencesExt, FiniteSetsExt, Integers

CONSTANTS
    Msgs,         \* the messages, numbered in the broker's order
    Topics,       \* one subscription each, with a queue of its own
    TopicOf,      \* [Msgs -> Topics]
    Qos,          \* [Msgs -> 0 .. 2]
    ManualAck,    \* the topics subscribed with auto_ack=False
    Responses,    \* messages that answer a pending request()
    Cap,          \* receive_buffer_size
    BufferSize,   \* session_replay_buffer_size, 0 for no limit
    MaxSessions,  \* bound: connections
    MaxDups,      \* bound: repeated PUBLISH packets within a connection
    MaxCancels,   \* bound: get_message() or start() cancelled in or before a drain
    Resumes       \* the values of CONNACK's Session Present flag

ASSUME InboundAssumption ==
    /\ Msgs \subseteq Nat \ {0} /\ IsFiniteSet(Msgs)
    /\ TopicOf \in [Msgs -> Topics] /\ Qos \in [Msgs -> 0 .. 2]
    /\ ManualAck \subseteq Topics /\ Responses \subseteq Msgs
    /\ Cap \in Nat \ {0} /\ BufferSize \in Nat
    /\ MaxSessions \in Nat \ {0} /\ MaxDups \in Nat /\ MaxCancels \in Nat
    /\ Resumes \subseteq BOOLEAN /\ Resumes # {}

NoMsg  == 0
Many   == 2     \* bound: the history of deliveries does not count further
Expiry == <<"expire", "timer">>
Tasks  == {Expiry} \cup ({"sub", "app"} \X Topics)

VARIABLES
    conn,        \* "up", "broken" (run() not yet ended), "lost" (a write has raised) or "dead"
    session,     \* the number of this connection
    resumed,     \* its Session Present flag
    failure,     \* the MQTTProtocolError that ended the read loop
    status,      \* the broker's view of each message
    wire,        \* packets for the read loop
    acks,        \* acknowledgements for the broker
    dups, cancels,
    subs,        \* a subscription's progress on this connection
    queue,       \* Subscription._queue: messages with their session
    hand,        \* what get_message() has taken from the queue and not returned
    unacked,     \* returned messages whose ack() the application has yet to call
    requests,    \* the pending request a response belongs to
    inflight,    \* inflight_qos2_in: the recipient of a message, or "none"
    pendingAck,  \* pending_ack_qos2_in
    reader,      \* where the read loop is suspended
    replay,      \* which of the three replay states is active
    held, ids, topicCount, count, timer,   \* _PersistentReplayBuffered
    lock,        \* its _delivery_lock: the holder, then the tasks waiting
    drain,       \* the holder's _deliver_pending
    puts,        \* history: deliveries of a message in this session
    before,      \* history: messages delivered in earlier sessions
    nobody,      \* history: messages accepted when they had no recipient
    cut          \* history: QoS 2 messages completed but cut off by the end of run()

broker  == <<status, wire, acks, dups>>
buffer  == <<replay, held, ids, topicCount, count, timer>>
link    == <<conn, session, resumed, failure, cancels>>
app     == <<subs, hand, unacked>>
history == <<puts, before, nobody, cut>>
deliver == <<queue, inflight, pendingAck, requests, puts, nobody>>
vars    == <<link, broker, app, deliver, reader, buffer, lock, drain, before, cut>>

Idle == [pc |-> "idle", msg |-> NoMsg, rcpt |-> "nobody"]
NoDrain == [pc |-> "off", msg |-> NoMsg, pending |-> <<>>, unmatched |-> <<>>]
Rcpts == {"request", "subscription", "nobody"}
QueueEntries == Msgs \X (1 .. MaxSessions)

TypeOK ==
    /\ conn \in {"up", "broken", "lost", "dead"} /\ session \in 1 .. MaxSessions
    /\ resumed \in BOOLEAN /\ failure \in {"none", "overflow", "unknownPubrel"}
    /\ status \in [Msgs -> {"queued", "sent", "released", "done", "dropped"}]
    /\ dups \in 0 .. MaxDups /\ cancels \in 0 .. MaxCancels
    /\ subs \in [Topics -> {"off", "asked", "acked", "on"}]
    /\ \A t \in Topics : queue[t] \in Seq(QueueEntries) /\ Len(queue[t]) <= Cap
    /\ hand \in [Topics -> {<<>>} \cup QueueEntries]
    /\ unacked \subseteq QueueEntries
    /\ requests \in [Responses -> {"waiting", "claimed", "done"}]
    /\ inflight \in [Msgs -> Rcpts \cup {"none", "delivered"}]
    /\ pendingAck \subseteq Msgs
    /\ reader \in [pc : {"idle", "put", "completing"}, msg : Msgs \cup {NoMsg}, rcpt : Rcpts]
    /\ replay \in {"none", "idle", "buffered"}
    /\ held \in Seq(Msgs) /\ ids \subseteq Msgs
    /\ topicCount \in [Topics -> Nat] /\ count \in Int
    /\ timer \in {"off", "armed", "fired"}
    /\ lock \in Seq(Tasks)
    /\ drain.pc \in {"off", "woken", "run", "send", "discard"}

Init ==
    /\ conn = "up" /\ session = 1 /\ resumed \in Resumes /\ failure = "none" /\ cancels = 0
    /\ status = [m \in Msgs |-> "queued"] /\ wire = <<>> /\ acks = <<>> /\ dups = 0
    /\ subs = [t \in Topics |-> "off"] /\ hand = [t \in Topics |-> <<>>] /\ unacked = {}
    /\ queue = [t \in Topics |-> <<>>] /\ inflight = [m \in Msgs |-> "none"]
    /\ pendingAck = {} /\ requests = [m \in Responses |-> "waiting"]
    /\ reader = Idle /\ replay = (IF resumed THEN "idle" ELSE "none")
    /\ held = <<>> /\ ids = {} /\ topicCount = [t \in Topics |-> 0] /\ count = 0
    /\ timer = "off" /\ lock = <<>> /\ drain = NoDrain
    /\ puts = [m \in Msgs |-> 0] /\ before = {} /\ nobody = {} /\ cut = {}

-----------------------------------------------------------------------------
(* The broker.                                                             *)

Packet(kind, x) == [kind |-> kind, of |-> x]
FreeLoop == drain.pc \notin {"run", "discard"}  \* the event loop is not inside a drain
Registered(t) == subs[t] # "off"               \* entries exist before SUBSCRIBE is sent

\* The broker sends the next message of a subscription it holds: all of them in
\* a resumed session, those the client has asked for in a new one.
BrokerSends(m) ==
    /\ FreeLoop /\ conn = "up" /\ status[m] = "queued"
    /\ \A k \in Msgs : k < m => status[k] # "queued"
    /\ resumed \/ Registered(TopicOf[m]) \/ m \in Responses
    /\ status' = [status EXCEPT ![m] = IF Qos[m] = 0 THEN "done" ELSE "sent"]
    /\ wire' = Append(wire, Packet("publish", m))
    /\ UNCHANGED <<link, acks, dups, app, deliver, reader, buffer, lock, drain, before, cut>>

\* MQTT 3.1.1 lets a broker repeat a PUBLISH it has no acknowledgement for.
BrokerRepeats(m) ==
    /\ FreeLoop /\ conn = "up" /\ status[m] = "sent" /\ dups < MaxDups
    /\ dups' = dups + 1 /\ wire' = Append(wire, Packet("publish", m))
    /\ UNCHANGED <<link, status, acks, app, deliver, reader, buffer, lock, drain, before, cut>>

\* Every PUBREC is answered by PUBREL.
BrokerTakesAck ==
    /\ FreeLoop /\ conn = "up" /\ acks # <<>>
    /\ LET a == Head(acks) IN
         IF a.kind = "pubrec"
         THEN /\ status' = [status EXCEPT ![a.of] = IF @ = "sent" THEN "released" ELSE @]
              /\ wire' = Append(wire, Packet("pubrel", a.of))
         ELSE status' = [status EXCEPT ![a.of] = "done"] /\ UNCHANGED wire
    /\ acks' = Tail(acks)
    /\ UNCHANGED <<link, dups, app, deliver, reader, buffer, lock, drain, before, cut>>

Written(kind, m) == IF conn = "up" THEN Append(acks, Packet(kind, m)) ELSE acks

-----------------------------------------------------------------------------
(* Recipients and the receive flows.                                       *)

\* select_recipient: a pending request that claims the message, else the
\* subscription its topic selects, else nobody.
Recipient(m) ==
    IF m \in Responses /\ requests[m] = "waiting" THEN "request"
    ELSE IF Registered(TopicOf[m]) THEN "subscription" ELSE "nobody"

AutoAck(m, r) == r # "subscription" \/ TopicOf[m] \notin ManualAck

Full(m, r) == r = "subscription" /\ Len(queue[TopicOf[m]]) >= Cap

\* Mutant: an automatic QoS 2 flow delivers before PUBREL.
PutsNowAlways(m, r) == r = "subscription"

\* Whether accepting the PUBLISH puts the message in the queue: an automatic
\* QoS 2 flow waits for PUBREL.
PutsNow(m, r) == r = "subscription" /\ (Qos[m] < 2 \/ ~AutoAck(m, r))

\* _deliver: a request gets its response, a subscription the message.
Deliver(m, r) ==
    /\ queue' = IF r = "subscription" THEN [queue EXCEPT ![TopicOf[m]] = Append(@, <<m, session>>)]
                ELSE queue
    /\ requests' = IF r = "request" THEN [requests EXCEPT ![m] = "done"] ELSE requests
    /\ puts' = IF r = "nobody" THEN puts ELSE [puts EXCEPT ![m] = Min({@ + 1, Many})]

\* _deliver_qos1_publish and _accept_qos2_publish up to the acknowledgement.
Accept(m, r) ==
    /\ IF Qos[m] < 2 \/ PutsNow(m, r) THEN Deliver(m, r)
       ELSE /\ requests' = IF r = "request" THEN [requests EXCEPT ![m] = "claimed"] ELSE requests
            /\ UNCHANGED <<queue, puts>>
    /\ inflight' = IF Qos[m] = 2 /\ AutoAck(m, r) THEN [inflight EXCEPT ![m] = r] ELSE inflight
    /\ pendingAck' = IF Qos[m] = 2 /\ ~AutoAck(m, r) THEN pendingAck \cup {m} ELSE pendingAck
    /\ nobody' = IF r = "nobody" /\ replay = "none" THEN nobody \cup {m} ELSE nobody

\* The acknowledgement that follows at once.
AckKind(m, r) ==
    IF Qos[m] = 0 \/ ~AutoAck(m, r) THEN "none" ELSE IF Qos[m] = 1 THEN "puback" ELSE "pubrec"
Acknowledge(m, r) ==
    acks' = IF AckKind(m, r) = "none" THEN acks ELSE Written(AckKind(m, r), m)

-----------------------------------------------------------------------------
(* The read loop.                                                          *)

Reading(kind, x) ==
    /\ FreeLoop /\ conn # "dead" /\ failure = "none" /\ reader.pc = "idle"
    /\ wire # <<>> /\ Head(wire) = Packet(kind, x) /\ wire' = Tail(wire)

ContainsPacketId(m) == replay = "buffered" /\ m \in ids

\* A repeated PUBLISH whose PUBREC has been sent: send it again.
HandlePublishKnown(m) ==
    /\ Reading("publish", m) /\ inflight[m] # "none"
    /\ acks' = Written("pubrec", m)
    /\ UNCHANGED <<link, status, dups, app, deliver, reader, buffer, lock, drain, before, cut>>

\* A repeated PUBLISH that waits for ack() or in the replay buffer: ignored.
HandlePublishWaiting(m) ==
    /\ Reading("publish", m) /\ inflight[m] = "none"
    /\ m \in pendingAck \/ ContainsPacketId(m)
    /\ UNCHANGED <<link, status, acks, dups, app, deliver, reader, buffer, lock, drain, before, cut>>

New(m) == inflight[m] = "none" /\ m \notin pendingAck /\ ~ContainsPacketId(m)

\* accept() of the three replay states: the recipient takes the message now,
\* unless it has none, or others of its topic are held and must go first.
PassesWhenIdle(m, r) ==
    replay # "buffered" \/ r = "request" \/ (r = "subscription" /\ topicCount[TopicOf[m]] = 0)
Passes(m, r) ==
    \/ replay = "none"
    \/ r # "nobody" /\ (replay = "idle" \/ r = "request" \/ topicCount[TopicOf[m]] = 0)

Overflows == replay = "buffered" /\ BufferSize > 0 /\ count >= BufferSize

HandlePublishDeliver(m) ==
    LET r == Recipient(m) IN
    /\ Reading("publish", m) /\ New(m) /\ Passes(m, r)
    /\ ~(PutsNow(m, r) /\ Full(m, r))
    /\ Accept(m, r) /\ Acknowledge(m, r)
    /\ UNCHANGED <<link, status, dups, app, reader, buffer, lock, drain, before, cut>>

\* The same with a full queue: the read loop blocks in queue.put().
HandlePublishBlock(m) ==
    LET r == Recipient(m) IN
    /\ Reading("publish", m) /\ New(m) /\ Passes(m, r)
    /\ PutsNow(m, r) /\ Full(m, r)
    /\ reader' = [pc |-> "put", msg |-> m, rcpt |-> r]
    /\ pendingAck' = IF Qos[m] = 2 THEN pendingAck \cup {m} ELSE pendingAck
    /\ UNCHANGED <<link, status, acks, dups, app, queue, inflight, requests, puts, nobody,
                   buffer, lock, drain, before, cut>>

\* The blocked put() finds room, and the flow goes on.
ReaderPut ==
    LET m == reader.msg IN
    /\ FreeLoop /\ conn # "dead" /\ reader.pc = "put" /\ ~Full(m, reader.rcpt)
    /\ Deliver(m, reader.rcpt) /\ Acknowledge(m, reader.rcpt)
    /\ reader' = Idle
    /\ UNCHANGED <<link, status, wire, dups, app, inflight, pendingAck, nobody,
                   buffer, lock, drain, before, cut>>

ArmedTimerNever == timer
ArmedTimer == IF timer = "off" THEN "armed" ELSE timer

\* Hold the message unacknowledged; the first one arms the expiration timer.
HandlePublishHold(m) ==
    /\ Reading("publish", m) /\ New(m) /\ ~Passes(m, Recipient(m)) /\ ~Overflows
    /\ replay' = "buffered" /\ held' = Append(held, m)
    /\ ids' = IF Qos[m] > 0 THEN ids \cup {m} ELSE ids
    /\ topicCount' = [topicCount EXCEPT ![TopicOf[m]] = @ + 1]
    /\ count' = count + 1
    /\ timer' = ArmedTimer
    /\ UNCHANGED <<link, status, acks, dups, app, deliver, reader, lock, drain, before, cut>>

\* A full buffer closes the transport and ends the read loop.
HandlePublishOverflow(m) ==
    /\ Reading("publish", m) /\ New(m) /\ ~Passes(m, Recipient(m)) /\ Overflows
    /\ conn' = "broken" /\ failure' = "overflow"
    /\ UNCHANGED <<session, resumed, cancels, status, acks, dups, app, deliver, reader,
                   buffer, lock, drain, before, cut>>

HandlePublish(m) ==
    \/ HandlePublishKnown(m) \/ HandlePublishWaiting(m) \/ HandlePublishDeliver(m)
    \/ HandlePublishBlock(m) \/ HandlePublishHold(m) \/ HandlePublishOverflow(m)

\* PUBCOMP is written before the message is delivered; a write that raises ends
\* the read loop, and the flight with it.
HandlePubrel(m) ==
    /\ Reading("pubrel", m) /\ inflight[m] # "none" /\ conn # "lost"
    /\ inflight' = [inflight EXCEPT ![m] = "none"]
    /\ acks' = Written("pubcomp", m)
    /\ reader' = IF inflight[m] = "delivered" THEN Idle
                 ELSE [pc |-> "completing", msg |-> m, rcpt |-> inflight[m]]
    /\ UNCHANGED <<link, status, dups, app, queue, pendingAck, requests, puts, nobody,
                   buffer, lock, drain, before, cut>>

\* The write of PUBCOMP has returned and the queue, if any, has room.
ReaderCompletes ==
    LET m == reader.msg IN
    /\ FreeLoop /\ conn # "dead" /\ reader.pc = "completing" /\ ~Full(m, reader.rcpt)
    /\ Deliver(m, reader.rcpt)
    /\ reader' = Idle
    /\ UNCHANGED <<link, broker, app, inflight, pendingAck, nobody,
                   buffer, lock, drain, before, cut>>

HandlePubrelUnknown(m) ==
    /\ Reading("pubrel", m) /\ inflight[m] = "none"
    /\ conn' = "broken" /\ failure' = "unknownPubrel"
    /\ UNCHANGED <<session, resumed, cancels, status, acks, dups, app, deliver, reader,
                   buffer, lock, drain, before, cut>>

HandleSuback(t) ==
    /\ Reading("suback", t)
    /\ subs' = [subs EXCEPT ![t] = IF @ = "asked" THEN "acked" ELSE @]
    /\ UNCHANGED <<link, status, acks, dups, hand, unacked, deliver, reader,
                   buffer, lock, drain, before, cut>>

-----------------------------------------------------------------------------
(* The application: subscribe, get_message and ack.                        *)

\* The entry is registered, SUBSCRIBE is sent, and the broker's SUBACK is on
\* its way.
Subscribe(t) ==
    /\ FreeLoop /\ conn = "up" /\ failure = "none" /\ subs[t] = "off"
    /\ subs' = [subs EXCEPT ![t] = "asked"]
    /\ wire' = Append(wire, Packet("suback", t))
    /\ UNCHANGED <<link, status, acks, dups, hand, unacked, deliver, reader,
                   buffer, lock, drain, before, cut>>

\* bound: the model ends with its last connection.
Over == conn = "dead" /\ session = MaxSessions

\* get_message() takes a message off the queue; it returns it after a drain.
GetMessage(t) ==
    /\ FreeLoop /\ ~Over /\ hand[t] = <<>> /\ queue[t] # <<>>
    /\ hand' = [hand EXCEPT ![t] = Head(queue[t])]
    /\ queue' = [queue EXCEPT ![t] = Tail(@)]
    /\ UNCHANGED <<link, broker, subs, unacked, inflight, pendingAck, requests, puts, nobody,
                   reader, buffer, lock, drain, before, cut>>

\* _puback and _pubrec.
AckCallback(m) ==
    /\ acks' = Written(IF Qos[m] = 1 THEN "puback" ELSE "pubrec", m)
    /\ pendingAck' = pendingAck \ {m}
    /\ inflight' = IF Qos[m] = 2 THEN [inflight EXCEPT ![m] = "delivered"] ELSE inflight

\* Message.ack() on a message of this connection; one of an earlier connection
\* only reaches the tables and the transport of that connection.
Ack(e) ==
    LET m == e[1] IN
    /\ FreeLoop /\ ~Over /\ e \in unacked /\ unacked' = unacked \ {e}
    /\ IF e[2] # session THEN UNCHANGED <<acks, pendingAck, inflight>> ELSE AckCallback(m)
    /\ UNCHANGED <<link, status, wire, dups, subs, hand, queue, requests, puts, nobody,
                   reader, buffer, lock, drain, before, cut>>

-----------------------------------------------------------------------------
(* Draining the replay buffer.                                             *)

NeedsAck(e) == e # <<>> /\ Qos[e[1]] > 0 /\ TopicOf[e[1]] \in ManualAck

\* The callers K of drain() return: start() is done, get_message() gives its
\* message to the application.
Return(K) ==
    /\ subs' = [t \in Topics |-> IF <<"sub", t>> \in K THEN "on" ELSE subs[t]]
    /\ hand' = [t \in Topics |-> IF <<"app", t>> \in K THEN <<>> ELSE hand[t]]
    /\ unacked' = unacked \cup {e \in {hand[t] : t \in {u \in Topics : <<"app", u>> \in K}} : NeedsAck(e)}

\* The caller k of drain() raises: a message in its hand is lost to the application.
RaiseTo(k) ==
    /\ subs' = [t \in Topics |-> IF k = <<"sub", t>> THEN "on" ELSE subs[t]]
    /\ hand' = [t \in Topics |-> IF k = <<"app", t>> THEN <<>> ELSE hand[t]]
    /\ UNCHANGED unacked

WantsDrain(k) == \E t \in Topics : \/ k = <<"sub", t>> /\ subs[t] = "acked"
                                   \/ k = <<"app", t>> /\ hand[t] # <<>>

DrainsOnSubscribe(k) == replay = "buffered" /\ k[1] = "sub"
Drains(k) == replay = "buffered"

\* drain() without a buffer returns; with one it takes the lock or waits for it.
CallDrain(k) ==
    /\ FreeLoop /\ WantsDrain(k) /\ k \notin Range(lock)
    /\ IF Drains(k)
       THEN /\ lock' = Append(lock, k)
            /\ drain' = IF lock = <<>> THEN [NoDrain EXCEPT !.pc = "run"] ELSE drain
            /\ UNCHANGED app
       ELSE Return({k}) /\ UNCHANGED <<lock, drain>>
    /\ UNCHANGED <<link, broker, deliver, reader, buffer, before, cut>>

\* The timer of the buffer fires; expire() is a drain that drops the rest.
TimerFires ==
    /\ FreeLoop /\ timer = "armed" /\ replay = "buffered"
    /\ timer' = "fired" /\ lock' = Append(lock, Expiry)
    /\ drain' = IF lock = <<>> THEN [NoDrain EXCEPT !.pc = "run"] ELSE drain
    /\ UNCHANGED <<link, broker, app, deliver, reader, replay, held, ids, topicCount, count,
                   before, cut>>

DrainBegins ==
    /\ drain.pc = "woken" /\ drain' = [drain EXCEPT !.pc = "run"]
    /\ UNCHANGED <<link, broker, app, deliver, reader, buffer, lock, before, cut>>

\* The lock goes to the next task, which runs in a later turn.
Woken(l) == IF l = <<>> THEN NoDrain ELSE [NoDrain EXCEPT !.pc = "woken"]

\* The batch in hand, else all that has been held meanwhile.
Batch == IF drain.pending = <<>> THEN held ELSE drain.pending
Later == IF drain.pending = <<>> THEN <<>> ELSE held

\* A message without a recipient, or with one whose queue is full, stays.
DrainSkips ==
    /\ drain.pc = "run" /\ Batch # <<>>
    /\ LET m == Head(Batch)  r == Recipient(m) IN
         /\ r = "nobody" \/ Full(m, r)
         /\ drain' = [drain EXCEPT !.pending = Tail(Batch), !.unmatched = Append(@, m)]
    /\ held' = Later
    /\ UNCHANGED <<link, broker, app, deliver, reader, replay, ids, topicCount, count, timer,
                   lock, before, cut>>

\* Any other is delivered; _discard comes after its acknowledgement is written.
DrainDelivers ==
    /\ drain.pc = "run" /\ Batch # <<>>
    /\ LET m == Head(Batch)  r == Recipient(m) IN
         /\ r # "nobody" /\ ~Full(m, r)
         /\ Accept(m, r) /\ Acknowledge(m, r)
         /\ drain' = [drain EXCEPT !.pc = IF AckKind(m, r) = "none" THEN "discard" ELSE "send",
                                 !.msg = m, !.pending = Tail(Batch)]
    /\ held' = Later
    /\ UNCHANGED <<link, status, wire, dups, app, reader, replay, ids, topicCount, count, timer,
                   lock, before, cut>>

\* An exception leaves _deliver_pending: everything not delivered goes back, and
\* the caller fails.  (The expiration task closes a transport that is gone.)
DrainRaises(back) ==
    LET k == Head(lock) IN
    /\ held' = drain.unmatched \o back \o drain.pending \o held
    /\ RaiseTo(k)
    /\ lock' = Tail(lock) /\ drain' = Woken(Tail(lock))
    /\ timer' = IF k = Expiry THEN "off" ELSE timer
    /\ UNCHANGED <<session, resumed, failure, broker, deliver, reader, replay, before, cut>>

DiscardKeepsTopic(m) ==
    count' = count - 1 /\ ids' = ids \ {m} /\ UNCHANGED topicCount

Discard(m) ==
    /\ count' = count - 1 /\ ids' = ids \ {m}
    /\ topicCount' = [topicCount EXCEPT ![TopicOf[m]] = @ - 1]

\* The write has returned: _discard, and on with the batch.
DrainSent ==
    /\ drain.pc \in {"send", "discard"} /\ topicCount[TopicOf[drain.msg]] > 0
    /\ Discard(drain.msg)
    /\ drain' = [drain EXCEPT !.pc = "run", !.msg = NoMsg]
    /\ UNCHANGED <<link, broker, app, deliver, reader, replay, held, timer, lock, before, cut>>

\* The same after clear() has emptied the tables: _discard raises KeyError.
DrainSentLate ==
    /\ drain.pc \in {"send", "discard"} /\ topicCount[TopicOf[drain.msg]] = 0
    /\ Head(lock) # Expiry
    /\ count' = count - 1 /\ UNCHANGED <<topicCount, ids, conn, cancels>>
    /\ DrainRaises(<<>>)

\* The write raises because the connection is gone, or because the end of run()
\* has cancelled the expiration task.
DrainSendFails ==
    /\ drain.pc = "send" /\ conn # "up"
    /\ conn' = IF conn = "broken" THEN "lost" ELSE conn
    /\ UNCHANGED <<count, topicCount, ids, cancels>>
    /\ DrainRaises(<<drain.msg>>)

\* The application cancels the task whose drain is suspended in a write.
CancelDrain ==
    /\ drain.pc = "send" /\ conn = "up" /\ Head(lock) # Expiry
    /\ cancels < MaxCancels /\ cancels' = cancels + 1
    /\ UNCHANGED <<count, topicCount, ids, conn>>
    /\ DrainRaises(<<drain.msg>>)

\* get_message() is cancelled when it has taken a message and not yet called
\* drain(): the message is gone, and the room it made is not announced.
CancelGet(t) ==
    /\ FreeLoop /\ hand[t] # <<>> /\ <<"app", t>> \notin Range(lock)
    /\ cancels < MaxCancels /\ cancels' = cancels + 1
    /\ RaiseTo(<<"app", t>>)
    /\ UNCHANGED <<conn, session, resumed, failure, broker, deliver, reader, buffer, lock, drain,
                   before, cut>>

\* The application cancels a task that waits for the lock, or has been given it
\* and has not run since: the lock then goes to the next one.
CancelWait(i) ==
    /\ FreeLoop /\ lock[i] # Expiry /\ (i > 1 \/ drain.pc = "woken")
    /\ cancels < MaxCancels /\ cancels' = cancels + 1
    /\ RaiseTo(lock[i])
    /\ lock' = RemoveAt(lock, i) /\ drain' = IF i = 1 THEN Woken(lock') ELSE drain
    /\ UNCHANGED <<conn, session, resumed, failure, broker, deliver, reader, buffer, before, cut>>

CancelCall == (\E t \in Topics : CancelGet(t)) \/ (\E i \in DOMAIN lock : CancelWait(i))

\* drain() has gone through everything.  An empty buffer is given up: the state
\* is idle again, and the tasks that wait for its lock find nothing to do.
DrainEnds ==
    /\ drain.pc = "run" /\ Batch = <<>> /\ Head(lock) # Expiry
    /\ held' = drain.unmatched
    /\ IF count = 0 /\ replay = "buffered"
       THEN /\ replay' = "idle" /\ timer' = "off"
            /\ Return(Range(lock)) /\ lock' = <<>> /\ drain' = NoDrain
       ELSE /\ Return({Head(lock)}) /\ lock' = Tail(lock) /\ drain' = Woken(Tail(lock))
            /\ UNCHANGED <<replay, timer>>
    /\ UNCHANGED <<link, broker, deliver, reader, ids, topicCount, count, before, cut>>

\* expire(): what is left is dropped without acknowledgement, and the rest of
\* the connection has no replay.
ExpireEnds ==
    /\ drain.pc = "run" /\ Batch = <<>> /\ Head(lock) = Expiry
    /\ replay' = IF count # 0 THEN "none" ELSE "idle"
    /\ held' = <<>> /\ ids' = {} /\ topicCount' = [t \in Topics |-> 0] /\ count' = 0
    /\ timer' = "off"
    /\ Return(Range(lock)) /\ lock' = <<>> /\ drain' = NoDrain
    /\ UNCHANGED <<link, broker, deliver, reader, before, cut>>

-----------------------------------------------------------------------------
(* The connection.                                                         *)

LoseConnection ==
    /\ FreeLoop /\ conn = "up" /\ conn' = "broken"
    /\ UNCHANGED <<session, resumed, failure, cancels, broker, app, deliver, reader, buffer,
                   lock, drain, before, cut>>

\* The expiration task gives up its place among the waiting.
WithoutExpiry(l) ==
    IF \E i \in DOMAIN l : l[i] = Expiry THEN RemoveAt(l, CHOOSE i \in DOMAIN l : l[i] = Expiry) ELSE l

\* run() ends: the read loop is cancelled where it stands and clear() discards
\* the buffer; an expiration task that waits for the lock is cancelled.
Teardown ==
    LET waiting == IF drain.pc = "send" THEN <<Head(lock)>> \o WithoutExpiry(Tail(lock))
                   ELSE WithoutExpiry(lock) IN
    /\ FreeLoop /\ conn \in {"broken", "lost"} /\ conn' = "dead"
    /\ replay' = "none" /\ timer' = "off"
    /\ held' = <<>> /\ ids' = {} /\ topicCount' = [t \in Topics |-> 0] /\ count' = 0
    /\ lock' = waiting /\ drain' = IF drain.pc = "send" THEN drain ELSE Woken(waiting)
    /\ reader' = Idle
    /\ cut' = cut \cup {m \in Msgs : \/ inflight[m] \in Rcpts
                                     \/ reader.pc = "completing" /\ reader.msg = m}
    /\ wire' = <<>> /\ acks' = <<>>
    /\ UNCHANGED <<session, resumed, failure, cancels, status, dups, app, deliver, before>>

\* A new protocol with empty tables; begin_session.  A broker that resumes the
\* session repeats what is unacknowledged: PUBREL where it has had PUBREC, else
\* PUBLISH; what it had sent of a session it has forgotten is dropped.
\* MQTTProtocolError ends the client instead.
Reconnect ==
    /\ conn = "dead" /\ lock = <<>> /\ session < MaxSessions /\ failure = "none"
    /\ conn' = "up" /\ session' = session + 1 /\ resumed' \in Resumes
    /\ replay' = IF resumed' THEN "idle" ELSE "none"
    /\ held' = <<>> /\ ids' = {} /\ topicCount' = [t \in Topics |-> 0] /\ count' = 0
    /\ status' = [m \in Msgs |-> IF status[m] \in {"sent", "released"} /\ ~resumed' THEN "dropped"
                                  ELSE IF status[m] = "sent" THEN "queued" ELSE status[m]]
    /\ \E again \in SetToSeqs({m \in Msgs : status'[m] = "released"}) :
         wire' = [i \in DOMAIN again |-> Packet("pubrel", again[i])]
    /\ subs' = [t \in Topics |-> "off"]
    /\ inflight' = [m \in Msgs |-> "none"] /\ pendingAck' = {}
    /\ requests' = [m \in Responses |-> IF requests[m] = "claimed" THEN "waiting" ELSE requests[m]]
    /\ before' = before \cup {m \in Msgs : puts[m] > 0} /\ puts' = [m \in Msgs |-> 0]
    /\ UNCHANGED <<failure, cancels, acks, dups, hand, unacked, queue, nobody, reader, timer,
                   lock, drain, cut>>

-----------------------------------------------------------------------------
Reader == \/ \E m \in Msgs : HandlePublish(m) \/ HandlePubrel(m) \/ HandlePubrelUnknown(m)
          \/ \E t \in Topics : HandleSuback(t)
          \/ ReaderPut \/ ReaderCompletes
Drainer == \/ DrainBegins \/ DrainSkips \/ DrainDelivers \/ DrainEnds \/ ExpireEnds
           \/ DrainSent \/ DrainSentLate \/ DrainSendFails

Next ==
    \/ \E m \in Msgs : BrokerSends(m) \/ BrokerRepeats(m)
    \/ BrokerTakesAck
    \/ Reader
    \/ \E t \in Topics : Subscribe(t) \/ GetMessage(t)
    \/ \E e \in unacked : Ack(e)
    \/ \E k \in Tasks : CallDrain(k)
    \/ TimerFires
    \/ Drainer \/ CancelDrain \/ CancelCall
    \/ LoseConnection \/ Teardown \/ Reconnect

Spec == Init /\ [][Next]_vars

\* A drain goes on: a write ends, since the broker reads or the connection
\* breaks, and the lock is handed over.  Timers fire and run() ends after a loss;
\* both are disabled, again and again, only while the event loop is inside a
\* drain, hence strong fairness.  Nothing is assumed of the read loop, the
\* application, the broker or losses.
FairSpec == Spec /\ WF_vars(Drainer) /\ SF_vars(TimerFires) /\ SF_vars(Teardown)

-----------------------------------------------------------------------------
(* What the replay buffer owns, in the order it would be given back.       *)
Waiting == drain.unmatched
           \o (IF drain.pc \in {"send", "discard"} THEN <<drain.msg>> ELSE <<>>)
           \o drain.pending \o held

\* _message_count, _topics and _packet_ids describe exactly the messages the
\* buffer owns, also while a drain has them in its hands; the buffer respects
\* session_replay_buffer_size; a buffered message always has a timer running or
\* its expiration under way; and an inactive buffer owns nothing
\* (_PersistentReplayBuffered: accept, _discard, drain, expire).  No queue is
\* filled past its capacity (TypeOK).
ReplayBookkeeping ==
    /\ TypeOK
    /\ conn # "dead" =>
      /\ count = Len(Waiting)
      /\ \A t \in Topics : topicCount[t] = Cardinality({i \in DOMAIN Waiting : TopicOf[Waiting[i]] = t})
      /\ ids = {m \in Range(Waiting) : Qos[m] > 0}
      /\ BufferSize > 0 => count <= BufferSize
      /\ \/ replay = "buffered" /\ (count > 0 \/ lock # <<>>) /\ (timer # "off" \/ conn # "up")
         \/ replay # "buffered" /\ count = 0 /\ timer = "off" /\ lock = <<>>

\* The broker is never told that a message arrived which is neither with its
\* recipient nor in a QoS 2 flight towards it: not for a held message, not for
\* one dropped on expiry or overflow, not while the read loop is blocked.  Exempt
\* are messages accepted without a recipient outside a replay, and QoS 2 messages
\* whose flight the end of the connection cut off (_deliver_qos1_publish,
\* _accept_qos2_publish, handle_pubrel).
AckedIsDelivered ==
    \A m \in Msgs :
      /\ Qos[m] > 0
      /\ status[m] \in {"released", "done"} \/ \E i \in DOMAIN acks : acks[i].of = m
      => \/ puts[m] > 0 \/ m \in before \/ m \in nobody \/ m \in cut
         \/ inflight[m] \in Rcpts
         \/ reader.pc = "completing" /\ reader.msg = m

\* A QoS 2 message is delivered at most once on a connection, however often
\* PUBLISH is repeated and whether or not it was held first, and with automatic
\* acknowledgement at most once over all connections of a session, unless the
\* application has cancelled a drain.
Qos2AtMostOnce ==
    cancels = 0 => \A m \in Msgs : Qos[m] = 2 =>
      /\ puts[m] <= 1
      /\ m \in before /\ TopicOf[m] \notin ManualAck => puts[m] = 0

\* "Full PUBREC/PUBREL/PUBCOMP handshake prevents duplicate protocol delivery
\* within the MQTT session" (publishing.md), also when the application cancels a
\* get_message() or start() that is draining the replay buffer.
Qos2NoDuplicate == \A m \in Msgs : Qos[m] = 2 => puts[m] <= 1

\* No held message is forgotten: when no drain is running, waiting for the lock
\* or about to be called, every held message lacks a recipient or room, unless
\* the application has cancelled a drain
\* (persistent-sessions.md: reading "makes room and resumes the transfer").
NoMissedDrain ==
    conn = "up" /\ cancels = 0 /\ lock = <<>>
    /\ (\A k \in Tasks : ~WantsDrain(k)) /\ (\A t \in Topics : subs[t] # "asked")
    => \A i \in DOMAIN held : LET r == Recipient(held[i]) IN r = "nobody" \/ Full(held[i], r)

\* A conforming broker never meets the MQTTProtocolError for an unknown PUBREL:
\* error-handling.md says that error means the broker violated the specification
\* (handle_pubrel).
NoUnknownPubrel == failure # "unknownPubrel"

\* A held message does not stay held: it is delivered, or dropped when the timer
\* has fired, or the connection ends.
HeldIsResolved ==
    \A m \in Msgs : ContainsPacketId(m) ~> (~ContainsPacketId(m) \/ conn = "dead")

=============================================================================
