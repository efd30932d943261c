---------------------------- MODULE MQTTProtocol ----------------------------
(***************************************************************************)
(* One connection of the protocol engine (class MQTTProtocol over one      *)
(* SessionState): the application's tasks that publish, subscribe and      *)
(* unsubscribe, the read loop that dispatches the broker's answers, and    *)
(* the end of run().                                                       *)
(*                                                                         *)
(* Everything runs on one asyncio event loop, so a task is interrupted     *)
(* only where it awaits: in transport.write (only when the write buffer is *)
(* above its high-water mark) and on the future that the answer resolves.  *)
(* Each task of Ops makes one call.                                        *)
(***************************************************************************)
EXTENDS PacketIdPool, SequencesExt

CONSTANTS
    Ops,            \* the application's tasks, one protocol call each
    None,           \* no task
    Kinds,          \* the calls the application makes
    Cancellable,    \* the calls whose task the application may cancel
    Unencodable,    \* the calls that may be given what encode() refuses
    Losses,         \* the ways the connection may be lost
    PublishLimits,  \* what Maximum QoS the CONNACK may announce
    MaxRogue        \* how many packets a misbehaving broker may make up

Publishes == {"qos0", "qos1", "qos2"}
AllKinds  == Publishes \cup {"subscribe", "unsubscribe"}

ASSUME OpsAssumption ==
    /\ None \notin Ops
    /\ Kinds \subseteq AllKinds
    /\ Cancellable \subseteq AllKinds /\ Unencodable \subseteq AllKinds
    /\ Losses \subseteq {"closed", "shut", "reset", "silent"}
    /\ PublishLimits \subseteq 0 .. 2 /\ MaxRogue \in Nat

VARIABLES
    pool,           \* packet_ids
    inflight1,      \* inflight_qos1: the task whose flight holds an identifier
    inflight2,      \* inflight_qos2_out, likewise
    qos2State,      \* OutboundQoS2Flight.state of the flights in inflight2
    pendingSubs,    \* pending_subs
    pendingUnsubs,  \* pending_unsubs
    kind,           \* which call a task makes
    pc,             \* where a task is suspended
    pid,            \* the identifier a task acquired, 0 before
    fut,            \* the future a task registered
    outcome,        \* how its call ended
    conn,           \* the connection: closed by the peer (TCP: writes still pass), shut
                    \* (TLS: the transport is closed as well), reset, or silently gone
    toBroker,       \* written, not yet answered (op is history, not on the wire)
    toClient,       \* answered, not yet dispatched
    verdict,        \* history: the broker's final answer to a task's request
    rogue,          \* history: packets the broker made up so far
    loop,           \* the read and ping loops inside run()
    cause,          \* the exception that ended them
    maxPublishQos,  \* _max_publish_qos, set by the CONNACK
    reader          \* whether the read loop is suspended in a write of its own

session == <<pool, inflight1, inflight2, qos2State, pendingSubs, pendingUnsubs>>
tasks   == <<kind, pc, pid, outcome>>
net     == <<conn, toBroker, toClient, verdict, rogue>>
run     == <<loop, cause, reader, maxPublishQos>>
vars    == <<session, tasks, fut, net, run>>

RequestTypes == {"PUBLISH1", "PUBLISH2", "PUBREL", "SUBSCRIBE", "UNSUBSCRIBE"}
AnswerTypes  == {"PUBACK", "PUBREC", "PUBCOMP", "SUBACK", "UNSUBACK",
                 "DISCONNECT", "OTHER"}
Verdicts     == {"ok", "rejected"}
Requests     == [type : RequestTypes, pid : PacketIds, op : Ops]
Answers      == [type : AnswerTypes, pid : PacketIds, code : Verdicts]
Errors       == {"protocolError", "invalidState", "disconnected", "oserror",
                 "timeout", "cancelled"}

Tables == [PacketIds -> Ops \cup {None}]
NoFlight == [i \in PacketIds |-> None]

TypeOK ==
    /\ pool \in Pools
    /\ inflight1 \in Tables /\ inflight2 \in Tables
    /\ pendingSubs \in Tables /\ pendingUnsubs \in Tables
    /\ qos2State \in [PacketIds -> {"pending_pubrec", "pending_pubcomp"}]
    /\ kind \in [Ops -> AllKinds \cup {"none"}]
    /\ pc \in [Ops -> {"idle", "sending", "waiting", "unwinding", "done"}]
    /\ pid \in [Ops -> PacketIds \cup {0}]
    /\ fut \in [Ops -> {"none", "pending", "acked", "rejected", "failed", "cancelled"}]
    /\ outcome \in [Ops -> {"none", "ok", "rejected", "disconnected", "oserror",
                            "cancelled", "exhausted", "qosExceeded", "unencodable"}]
    /\ conn \in {"up", "closed", "shut", "reset", "silent"}
    /\ toBroker \in Seq(Requests) /\ toClient \in Seq(Answers)
    /\ verdict \in [Ops -> Verdicts \cup {"none"}]
    /\ rogue \in 0 .. MaxRogue
    /\ loop \in {"running", "failing", "dead"}
    /\ cause \in Errors \cup {"none"}
    /\ reader \in {"reading", "draining"} /\ maxPublishQos \in PublishLimits

Init ==
    /\ pool = EmptyPool
    /\ inflight1 = NoFlight /\ inflight2 = NoFlight
    /\ pendingSubs = NoFlight /\ pendingUnsubs = NoFlight
    /\ qos2State = [i \in PacketIds |-> "pending_pubrec"]
    /\ kind = [o \in Ops |-> "none"] /\ pc = [o \in Ops |-> "idle"]
    /\ pid = [o \in Ops |-> 0] /\ fut = [o \in Ops |-> "none"]
    /\ outcome = [o \in Ops |-> "none"] /\ verdict = [o \in Ops |-> "none"]
    /\ conn = "up" /\ toBroker = <<>> /\ toClient = <<>> /\ rogue = 0
    /\ loop = "running" /\ cause = "none" /\ reader = "reading"
    /\ maxPublishQos \in PublishLimits

-----------------------------------------------------------------------------
(***************************************************************************)
(* transport.write: the bytes are handed to the socket at once (a          *)
(* connection that is gone swallows them), then drain() returns directly,  *)
(* waits for the write buffer, or raises, which a lost transport always    *)
(* makes it do.  A task in drain() is "sending".                           *)
(***************************************************************************)
Written(type, i, o) ==
    IF conn = "up" THEN Append(toBroker, [type |-> type, pid |-> i, op |-> o])
                   ELSE toBroker

WritesRaise == conn \in {"shut", "reset"}

QosOf(k) == CASE k = "qos0" -> 0 [] k = "qos1" -> 1 [] k = "qos2" -> 2 [] OTHER -> 0

RequestOf(k) == CASE k = "qos1" -> "PUBLISH1" [] k = "qos2" -> "PUBLISH2"
                  [] k = "subscribe" -> "SUBSCRIBE" [] OTHER -> "UNSUBSCRIBE"

\* The call ends before it has sent anything, and registers nothing.
EndsUnsent(o, k, out) ==
    /\ pc[o] = "idle"
    /\ kind' = [kind EXCEPT ![o] = k]
    /\ pc' = [pc EXCEPT ![o] = "done"]
    /\ outcome' = [outcome EXCEPT ![o] = out]
    /\ UNCHANGED <<inflight1, inflight2, qos2State, pendingSubs, pendingUnsubs, pid, fut, net, run>>

Refuse(o, k, out) == EndsUnsent(o, k, out) /\ UNCHANGED pool

\* The check at the head of every call.
EnsureAlive == loop # "dead"

RefuseDead(o, k) == ~EnsureAlive /\ Refuse(o, k, "disconnected")

RefuseQos(o, k) ==
    /\ EnsureAlive /\ QosOf(k) > maxPublishQos
    /\ Refuse(o, k, "qosExceeded")

RefuseExhausted(o, k) ==
    /\ EnsureAlive /\ QosOf(k) <= maxPublishQos /\ k # "qos0"
    /\ ~CanAcquire(pool)
    /\ Refuse(o, k, "exhausted")

\* QoS 0: the call is over when the write is.
PublishQos0(o) ==
    /\ pc[o] = "idle" /\ EnsureAlive
    /\ kind' = [kind EXCEPT ![o] = "qos0"]
    /\ \/ /\ ~WritesRaise
          /\ pc' = [pc EXCEPT ![o] = "done"]
          /\ outcome' = [outcome EXCEPT ![o] = "ok"]
       \/ /\ pc' = [pc EXCEPT ![o] = "sending"]
          /\ UNCHANGED outcome
    /\ UNCHANGED <<session, pid, fut, net, run>>

(***************************************************************************)
(* publish() with QoS 1 or 2, _send_subscribe() and _send_unsubscribe():   *)
(* acquire an identifier and register the future under it.                 *)
(***************************************************************************)
Register(o, k) ==
    /\ pc[o] = "idle" /\ EnsureAlive
    /\ k # "qos0" /\ QosOf(k) <= maxPublishQos
    /\ CanAcquire(pool)
    /\ LET i == FirstFree(pool)
           Entry(table, which) == IF k = which THEN [table EXCEPT ![i] = o] ELSE table
       IN  /\ pid' = [pid EXCEPT ![o] = i]
           /\ inflight1' = Entry(inflight1, "qos1")
           /\ inflight2' = Entry(inflight2, "qos2")
           /\ qos2State' = IF k = "qos2" THEN [qos2State EXCEPT ![i] = "pending_pubrec"]
                                         ELSE qos2State
           /\ pendingSubs' = Entry(pendingSubs, "subscribe")
           /\ pendingUnsubs' = Entry(pendingUnsubs, "unsubscribe")
    /\ pool' = Acquire(pool)
    /\ kind' = [kind EXCEPT ![o] = k]
    /\ fut' = [fut EXCEPT ![o] = "pending"]

\* The packet is encoded and written; the task waits for the write buffer
\* ("sending") or directly for the future ("waiting").
StartFlight(o, k) ==
    /\ Register(o, k)
    /\ toBroker' = Written(RequestOf(k), FirstFree(pool), o)
    /\ \E where \in {"sending"} \cup (IF WritesRaise THEN {} ELSE {"waiting"}) : pc' = [pc EXCEPT ![o] = where]
    /\ UNCHANGED <<outcome, conn, toClient, verdict, rogue, run>>

(***************************************************************************)
(* encode() raises (a string longer than 65535 bytes, a property out of    *)
(* range).  publish() has no finally block: the identifier and the flight  *)
(* stay although nothing was sent.                                         *)
(***************************************************************************)
StrandPublish(o, k) ==
    /\ k \in Unencodable \cap {"qos1", "qos2"}
    /\ Register(o, k)
    /\ pc' = [pc EXCEPT ![o] = "done"]
    /\ outcome' = [outcome EXCEPT ![o] = "unencodable"]
    /\ UNCHANGED <<net, run>>

\* encode() raises in a QoS 0 publish, which has registered nothing, or in a
\* subscribe or unsubscribe, whose finally block undoes what it did.
RefuseUnencodable(o, k) ==
    /\ EnsureAlive /\ k \in Unencodable \ {"qos1", "qos2"}
    /\ \/ k = "qos0" /\ UNCHANGED pool
       \/ k # "qos0" /\ CanAcquire(pool) /\ pool' = Release(Acquire(pool), FirstFree(pool))
    /\ EndsUnsent(o, k, "unencodable")

\* Mutant: a publish, too, gives its identifier back when its task ends.
FinishReleasesAll(o, out) ==
    /\ pc' = [pc EXCEPT ![o] = "done"]
    /\ outcome' = [outcome EXCEPT ![o] = out]
    /\ pool' = IF pid[o] = 0 THEN pool ELSE Release(pool, pid[o])
    /\ LET Popped(table) == [i \in PacketIds |-> IF i = pid[o] THEN None ELSE table[i]]
       IN  /\ inflight1' = Popped(inflight1) /\ inflight2' = Popped(inflight2)
           /\ pendingSubs' = Popped(pendingSubs) /\ pendingUnsubs' = Popped(pendingUnsubs)
    /\ UNCHANGED <<qos2State, kind, pid, fut, net, run>>

(***************************************************************************)
(* A call returns or raises.  The finally blocks of _send_subscribe and    *)
(* _send_unsubscribe forget the future and release the identifier; a       *)
(* publish leaves its flight to the handlers of the broker's answers.      *)
(***************************************************************************)
Finish(o, out) ==
    /\ pc' = [pc EXCEPT ![o] = "done"]
    /\ outcome' = [outcome EXCEPT ![o] = out]
    /\ pendingSubs' = IF kind[o] = "subscribe" THEN [pendingSubs EXCEPT ![pid[o]] = None]
                                               ELSE pendingSubs
    /\ pendingUnsubs' = IF kind[o] = "unsubscribe" THEN [pendingUnsubs EXCEPT ![pid[o]] = None]
                                                   ELSE pendingUnsubs
    /\ pool' = IF kind[o] \in Publishes THEN pool ELSE Release(pool, pid[o])
    /\ UNCHANGED <<inflight1, inflight2, qos2State, kind, pid, fut, net, run>>

\* What awaiting a future that is done returns or raises.
ResultOf(o) == CASE fut[o] = "rejected" -> "rejected"
                 [] fut[o] = "failed"   -> "disconnected"
                 [] OTHER               -> "ok"

\* The write buffer drained: a QoS 0 publish is over, the others await their future.
Drained(o) ==
    /\ pc[o] = "sending" /\ conn \in {"up", "closed"}
    /\ IF fut[o] = "pending"
       THEN /\ pc' = [pc EXCEPT ![o] = "waiting"]
            /\ UNCHANGED <<session, kind, pid, outcome, fut, net, run>>
       ELSE Finish(o, ResultOf(o))

\* drain() raises the transport's error.
SendFails(o) == pc[o] = "sending" /\ WritesRaise /\ Finish(o, "oserror")

\* The future is done and the event loop runs the task again.
Resume(o) ==
    /\ pc[o] = "waiting" /\ fut[o] # "pending"
    /\ Finish(o, ResultOf(o))

(***************************************************************************)
(* task.cancel(): the future it waits for is cancelled at once; the task   *)
(* itself runs again, and unwinds, in a later turn of the event loop.      *)
(***************************************************************************)
Cancel(o) ==
    /\ pc[o] \in {"sending", "waiting"} /\ kind[o] \in Cancellable
    /\ pc' = [pc EXCEPT ![o] = "unwinding"]
    /\ fut' = IF pc[o] = "waiting" /\ fut[o] = "pending"
              THEN [fut EXCEPT ![o] = "cancelled"] ELSE fut
    /\ UNCHANGED <<session, kind, pid, outcome, net, run>>

Unwind(o) == pc[o] = "unwinding" /\ Finish(o, "cancelled")

-----------------------------------------------------------------------------
(***************************************************************************)
(* The broker and the connection (outside the repository): a conforming    *)
(* broker answers each request once, in any order except that requests     *)
(* with one identifier are answered in the order they were sent.           *)
(***************************************************************************)
AnswerOf(type) == CASE type = "PUBLISH1" -> "PUBACK"  [] type = "PUBLISH2" -> "PUBREC"
                    [] type = "PUBREL" -> "PUBCOMP"   [] type = "SUBSCRIBE" -> "SUBACK"
                    [] OTHER -> "UNSUBACK"

BrokerAnswers(n, code) ==
    /\ conn = "up" /\ n \in DOMAIN toBroker
    /\ \A j \in 1 .. (n - 1) : toBroker[j].pid # toBroker[n].pid
    /\ LET r == toBroker[n]
       IN  /\ r.type = "PUBREL" => code = "ok"
           /\ toClient' = Append(toClient, [type |-> AnswerOf(r.type), pid |-> r.pid, code |-> code])
           /\ verdict' = IF r.type = "PUBLISH2" /\ code = "ok" THEN verdict
                         ELSE [verdict EXCEPT ![r.op] = code]
    /\ toBroker' = RemoveAt(toBroker, n)
    /\ UNCHANGED <<session, tasks, fut, conn, rogue, run>>

\* A misbehaving broker sends something it was not asked for (of the other
\* types no handler looks at the code).
BrokerMakesUp(a) ==
    /\ conn = "up" /\ rogue < MaxRogue
    /\ a.code = "rejected" => a.type \in {"PUBACK", "PUBREC", "SUBACK"}
    /\ rogue' = rogue + 1
    /\ toClient' = Append(toClient, a)
    /\ UNCHANGED <<session, tasks, fut, conn, toBroker, verdict, run>>

BrokerDisconnects ==
    /\ conn = "up" /\ conn' \in Losses \cap {"closed", "shut"}
    /\ toClient' = Append(toClient, [type |-> "DISCONNECT", pid |-> 1, code |-> "ok"])
    /\ toBroker' = <<>>
    /\ UNCHANGED <<session, tasks, fut, verdict, rogue, run>>

\* The peer closes, or goes silent; the client still reads what had arrived.
LoseConnection ==
    /\ conn = "up" /\ conn' \in Losses \ {"reset"}
    /\ toBroker' = <<>>
    /\ \E n \in 0 .. Len(toClient) : toClient' = SubSeq(toClient, 1, n)
    /\ UNCHANGED <<session, tasks, fut, verdict, rogue, run>>

\* The transport fails with an OSError; asyncio drops what had not been read.
ResetConnection ==
    /\ conn # "reset" /\ "reset" \in Losses /\ conn' = "reset"
    /\ toBroker' = <<>> /\ toClient' = <<>>
    /\ UNCHANGED <<session, tasks, fut, verdict, rogue, run>>

-----------------------------------------------------------------------------
\* An exception leaves the read loop (or the ping loop): run() stops both.
FailLoop(error) ==
    loop' = "failing" /\ cause' = error /\ reader' = "reading" /\ UNCHANGED maxPublishQos

\* _dispatch takes the next packet; answers carry one of the given types.
Receive(type) ==
    /\ loop = "running" /\ reader = "reading" /\ toClient # <<>>
    /\ Head(toClient).type = type
    /\ toClient' = Tail(toClient)
    /\ UNCHANGED <<conn, verdict, rogue, tasks>>

HandleUnknown(type, table) ==
    /\ Receive(type)
    /\ table[Head(toClient).pid] = None
    /\ FailLoop("protocolError")
    /\ UNCHANGED <<session, fut, toBroker>>

\* Mutant: the identifier of a finished flight is never released.
CompleteKeepsId(o, i, result) ==
    /\ pool' = pool
    /\ fut' = IF fut[o] = "pending" THEN [fut EXCEPT ![o] = result] ELSE fut

\* A flight is over: forget it, release its identifier, resolve its future if it is not done.
Complete(o, i, result) ==
    /\ pool' = Release(pool, i)
    /\ fut' = IF fut[o] = "pending" THEN [fut EXCEPT ![o] = result] ELSE fut

ResultFor(code) == IF code = "ok" THEN "acked" ELSE "rejected"

HandlePuback ==
    /\ Receive("PUBACK")
    /\ LET a == Head(toClient) o == inflight1[a.pid]
       IN  /\ o # None
           /\ inflight1' = [inflight1 EXCEPT ![a.pid] = None]
           /\ Complete(o, a.pid, ResultFor(a.code))
    /\ UNCHANGED <<inflight2, qos2State, pendingSubs, pendingUnsubs, toBroker, run>>

HandlePubrecWrongState ==
    /\ Receive("PUBREC")
    /\ inflight2[Head(toClient).pid] # None
    /\ qos2State[Head(toClient).pid] # "pending_pubrec"
    /\ FailLoop("protocolError")
    /\ UNCHANGED <<session, fut, toBroker>>

\* A negative PUBREC ends the flow; no PUBREL follows.
HandlePubrecRejected ==
    /\ Receive("PUBREC")
    /\ LET a == Head(toClient) o == inflight2[a.pid]
       IN  /\ o # None /\ qos2State[a.pid] = "pending_pubrec" /\ a.code = "rejected"
           /\ inflight2' = [inflight2 EXCEPT ![a.pid] = None]
           /\ Complete(o, a.pid, "rejected")
    /\ UNCHANGED <<inflight1, qos2State, pendingSubs, pendingUnsubs, toBroker, run>>

\* Mutant: a publish counts as complete once PUBREC is there.
HandlePubrecCompletes ==
    /\ Receive("PUBREC")
    /\ LET a == Head(toClient) o == inflight2[a.pid]
       IN  /\ o # None /\ qos2State[a.pid] = "pending_pubrec" /\ a.code = "ok"
           /\ inflight2' = [inflight2 EXCEPT ![a.pid] = None]
           /\ Complete(o, a.pid, "acked")
    /\ UNCHANGED <<inflight1, qos2State, pendingSubs, pendingUnsubs, toBroker, run>>

\* The read loop itself writes PUBREL, and may be suspended by the write buffer.
HandlePubrec ==
    /\ Receive("PUBREC")
    /\ LET a == Head(toClient) o == inflight2[a.pid]
       IN  /\ o # None /\ qos2State[a.pid] = "pending_pubrec" /\ a.code = "ok"
           /\ qos2State' = [qos2State EXCEPT ![a.pid] = "pending_pubcomp"]
           /\ toBroker' = Written("PUBREL", a.pid, o)
    /\ reader' \in {"reading", "draining"}
    /\ UNCHANGED <<pool, inflight1, inflight2, pendingSubs, pendingUnsubs, fut, loop, cause, maxPublishQos>>

\* Unlike PUBREC, PUBCOMP is accepted in any state of the flight.
HandlePubcomp ==
    /\ Receive("PUBCOMP")
    /\ LET a == Head(toClient) o == inflight2[a.pid]
       IN  /\ o # None
           /\ inflight2' = [inflight2 EXCEPT ![a.pid] = None]
           /\ Complete(o, a.pid, "acked")
    /\ UNCHANGED <<inflight1, qos2State, pendingSubs, pendingUnsubs, toBroker, run>>

(***************************************************************************)
(* SUBACK and UNSUBACK only resolve the future; the waiting task removes   *)
(* the entry when it runs again.  set_result raises InvalidStateError on a *)
(* future that is already done.                                            *)
(***************************************************************************)
Settle(type, table, result) ==
    /\ Receive(type)
    /\ LET o == table[Head(toClient).pid]
       IN  /\ o # None
           /\ \/ /\ fut[o] = "pending"
                 /\ fut' = [fut EXCEPT ![o] = result]
                 /\ UNCHANGED run
              \/ /\ fut[o] # "pending"
                 /\ FailLoop("invalidState")
                 /\ UNCHANGED fut
    /\ UNCHANGED <<session, toBroker>>

\* Mutant: the return codes of a SUBACK are not looked at.
HandleSubackIgnoresCode == Settle("SUBACK", pendingSubs, "acked")

HandleSuback == Settle("SUBACK", pendingSubs, ResultFor(Head(toClient).code))

\* The reason codes of an UNSUBACK are not looked at.
HandleUnsuback == Settle("UNSUBACK", pendingUnsubs, "acked")

HandleDisconnect ==
    /\ Receive("DISCONNECT")
    /\ FailLoop("disconnected")
    /\ UNCHANGED <<session, fut, toBroker>>

\* A packet no broker may send (AUTH under 3.1.1, a request packet).
HandleOther ==
    /\ Receive("OTHER")
    /\ FailLoop("protocolError")
    /\ UNCHANGED <<session, fut, toBroker>>

Dispatch ==
    \/ HandlePuback \/ HandlePubrecWrongState \/ HandlePubrecRejected \/ HandlePubrec
    \/ HandlePubcomp \/ HandleSuback \/ HandleUnsuback
    \/ HandleUnknown("PUBACK", inflight1) \/ HandleUnknown("PUBREC", inflight2)
    \/ HandleUnknown("PUBCOMP", inflight2) \/ HandleUnknown("SUBACK", pendingSubs)
    \/ HandleUnknown("UNSUBACK", pendingUnsubs)
    \/ HandleDisconnect \/ HandleOther

(***************************************************************************)
(* transport.read returns no data (MQTTDisconnectedError) or raises an     *)
(* OSError.  _disconnecting, which would let the loop return, is set only  *)
(* by disconnect(), and the client calls that after it has cancelled and   *)
(* awaited the task of run(): no loop is left that could read it.          *)
(***************************************************************************)
ReadEof ==
    /\ loop = "running" /\ reader = "reading"
    /\ toClient = <<>>
    /\ \/ conn \in {"closed", "shut"} /\ FailLoop("disconnected")
       \/ conn = "reset"  /\ FailLoop("oserror")
    /\ UNCHANGED <<session, tasks, fut, net>>

ReaderDrained ==
    /\ loop = "running" /\ reader = "draining"
    /\ \/ conn \in {"up", "closed"} /\ reader' = "reading" /\ UNCHANGED <<loop, cause, maxPublishQos>>
       \/ WritesRaise /\ FailLoop("oserror")
    /\ UNCHANGED <<session, tasks, fut, net>>

\* The ping loop's PINGRESP does not come in time (module Keepalive has the detail).
PingTimeout ==
    /\ loop = "running" /\ FailLoop("timeout")
    /\ UNCHANGED <<session, tasks, fut, net>>

\* The client cancels run() (MQTTClient.__aexit__).
CancelRun ==
    /\ loop = "running" /\ FailLoop("cancelled")
    /\ UNCHANGED <<session, tasks, fut, net>>

\* Mutant: _cancel_pending forgets the pending unsubscribes.
RegisteredWithoutUnsubs == {o \in Ops : \E i \in PacketIds :
                               o \in {inflight1[i], inflight2[i], pendingSubs[i]}}

\* The tasks whose future _cancel_pending finds in a table.
Registered == {o \in Ops : \E i \in PacketIds :
                  o \in {inflight1[i], inflight2[i], pendingSubs[i], pendingUnsubs[i]}}

(***************************************************************************)
(* The finally block of run(), once both loops have stopped: the protocol  *)
(* is dead and _cancel_pending fails every future that is not done.        *)
(***************************************************************************)
Teardown ==
    /\ loop = "failing" /\ loop' = "dead"
    /\ fut' = [o \in Ops |-> IF o \in Registered /\ fut[o] = "pending" THEN "failed" ELSE fut[o]]
    /\ UNCHANGED <<session, tasks, net, cause, reader, maxPublishQos>>

-----------------------------------------------------------------------------
TaskStep(o) == Drained(o) \/ SendFails(o) \/ Resume(o) \/ Unwind(o)

Broker == \E n \in 1 .. Len(toBroker), code \in Verdicts : BrokerAnswers(n, code)

Next ==
    \/ \E o \in Ops, k \in Kinds :
          RefuseDead(o, k) \/ RefuseQos(o, k) \/ RefuseExhausted(o, k)
          \/ RefuseUnencodable(o, k) \/ StrandPublish(o, k) \/ StartFlight(o, k)
    \/ \E o \in Ops : "qos0" \in Kinds /\ PublishQos0(o)
    \/ \E o \in Ops : TaskStep(o) \/ Cancel(o)
    \/ Broker
    \/ \E a \in Answers : BrokerMakesUp(a)
    \/ BrokerDisconnects \/ LoseConnection \/ ResetConnection
    \/ Dispatch \/ ReadEof \/ ReaderDrained \/ PingTimeout \/ CancelRun \/ Teardown

Spec == Init /\ [][Next]_vars

(***************************************************************************)
(* The event loop runs every task that can run, the read loop among them;  *)
(* the broker answers; the ping loop, or TCP, notices a silent connection. *)
(***************************************************************************)
Fairness ==
    /\ \A o \in Ops : WF_vars(TaskStep(o))
    /\ WF_vars(Broker)
    /\ WF_vars(Dispatch \/ ReadEof \/ ReaderDrained)
    /\ WF_vars((PingTimeout \/ ResetConnection) /\ conn = "silent")
    /\ WF_vars(Teardown)

FairSpec == Spec /\ Fairness

-----------------------------------------------------------------------------
Owners(i) == {inflight1[i], inflight2[i], pendingSubs[i], pendingUnsubs[i]} \ {None}

(***************************************************************************)
(* An identifier is in use exactly when one table has an entry for it, no  *)
(* two tables share an identifier, and each entry is that of a task which  *)
(* acquired this identifier.                                               *)
(***************************************************************************)
PacketIdsExclusive ==
    \A i \in PacketIds :
        /\ (i \in pool.inUse) <=> (Owners(i) # {})
        /\ \A o \in Owners(i) :
              /\ pid[o] = i
              /\ inflight1[i] = o     <=> kind[o] = "qos1"
              /\ inflight2[i] = o     <=> kind[o] = "qos2"
              /\ pendingSubs[i] = o   <=> kind[o] = "subscribe"
              /\ pendingUnsubs[i] = o <=> kind[o] = "unsubscribe"
        /\ \A o, q \in Owners(i) : o = q

(***************************************************************************)
(* _ensure_alive and _cancel_pending together leave nobody behind: once    *)
(* the protocol is dead, no task awaits a future nothing will resolve, not  *)
(* even that of a call that began while the loops were already stopping.   *)
(***************************************************************************)
DeadLeavesNoWaiter ==
    loop = "dead" => \A o \in Ops : pc[o] \in {"sending", "waiting"} => fut[o] # "pending"

(***************************************************************************)
(* With a broker that answers each request once and a connection that      *)
(* stays up, the read loop never raises MQTTProtocolError or               *)
(* InvalidStateError, whichever publishes are cancelled.                   *)
(***************************************************************************)
NoSpuriousProtocolError ==
    rogue = 0 /\ conn = "up" => cause \notin {"protocolError", "invalidState"}

(***************************************************************************)
(* MQTTProtocolError speaks of the broker ("Raised when the broker sends a *)
(* packet that violates the MQTT spec"): a broker that only answers what   *)
(* it was asked never makes the handlers raise it, whatever the client has *)
(* forgotten meanwhile.                                                    *)
(***************************************************************************)
ProtocolErrorBlamesBroker == rogue = 0 => cause # "protocolError"

(***************************************************************************)
(* A call reports what the broker said of that very request: success only  *)
(* after a positive final answer (for QoS 2 the PUBCOMP), a rejection only *)
(* after a negative one.                                                   *)
(***************************************************************************)
OutcomeMatchesBroker ==
    \A o \in Ops : kind[o] \in {"qos1", "qos2", "subscribe"} =>
        /\ outcome[o] = "ok" => verdict[o] = "ok"
        /\ outcome[o] = "rejected" => verdict[o] = "rejected"

\* The identifier's request or answer is on the way, or it belongs to a subscribe
\* or unsubscribe whose answer is there and whose task has yet to run.
OnItsWay(i) ==
    \/ \E n \in DOMAIN toBroker : toBroker[n].pid = i
    \/ \E n \in DOMAIN toClient : toClient[n].pid = i
    \/ \E o \in Owners(i) : /\ kind[o] \in {"subscribe", "unsubscribe"}
                            /\ fut[o] # "pending" /\ pc[o] # "done"

\* The identifier was taken by a publish whose packet could not be encoded.
Stranded(i) == \E o \in Owners(i) : outcome[o] = "unencodable"

(***************************************************************************)
(* While the connection works, encode() raising in publish() is the only   *)
(* way to leak an identifier: whatever else is in use is on its way, with  *)
(* calls cancelled at any await, id reuse and wrap-around.                 *)
(***************************************************************************)
InUseIsOwed ==
    conn = "up" /\ loop = "running" => \A i \in pool.inUse : OnItsWay(i) \/ Stranded(i)

(***************************************************************************)
(* publish() manages the identifiers it takes ("Publish packet IDs and the *)
(* complete handshake are managed by `publish()`"): none stays in use once *)
(* the call has failed without sending anything.                           *)
(***************************************************************************)
PublishManagesIds ==
    conn = "up" /\ loop = "running" => \A i \in pool.inUse : OnItsWay(i)

(***************************************************************************)
(* acquire() always returns the lowest free identifier.                    *)
(***************************************************************************)
LowestIdFirst == ScanStartsAtLowest(pool)

(***************************************************************************)
(* An outbound QoS 2 flight leaves PENDING_PUBREC for PENDING_PUBCOMP      *)
(* only, and until the broker rejects it; what is removed while waiting    *)
(* for PUBREC is never reported as a success.                              *)
(***************************************************************************)
Qos2Handshake ==
    [][\A i \in PacketIds :
          LET o == inflight2[i] IN
          o # None =>
             /\ (qos2State[i] = "pending_pubcomp" /\ inflight2'[i] = o) =>
                     qos2State'[i] = "pending_pubcomp"
             /\ (qos2State[i] = "pending_pubrec" /\ inflight2'[i] # o) => fut'[o] # "acked"]_vars

(***************************************************************************)
(* Every call that was started returns or raises: it is answered, or the   *)
(* end of the connection fails it.                                         *)
(***************************************************************************)
OpsTerminate == \A o \in Ops : pc[o] # "idle" ~> pc[o] = "done"

(***************************************************************************)
(* Every identifier in use is released, also that of a cancelled publish,  *)
(* as long as the loops run, unless encode() raised in its publish.        *)
(***************************************************************************)
PacketIdsReturn ==
    \A i \in PacketIds :
        i \in pool.inUse ~> (i \notin pool.inUse \/ Stranded(i) \/ loop # "running")

=============================================================================
