------------------------------ MODULE Keepalive ------------------------------
(***************************************************************************)
(* PINGREQ and PINGRESP on one connection: MQTTProtocol.ping(), called by  *)
(* the application's tasks and, with the keepalive interval between two    *)
(* calls, by the ping loop of run(); _handle_pingresp; and what the end of *)
(* run() does to the calls that wait.                                      *)
(*                                                                         *)
(* PINGRESP carries nothing that says which PINGREQ it answers: the client *)
(* relies on the order.  The numbers in asked and answer are history.      *)
(***************************************************************************)
EXTENDS SequencesExt, Naturals

CONSTANTS
    Pingers,       \* the application's tasks, one ping() each
    PingLoop,      \* the task of _ping_loop
    MaxPings,      \* how often the ping loop pings while the connection works
    Slow,          \* whether a timeout may be shorter than the broker's answer takes
    Backpressure,  \* whether the write buffer may be above its high-water mark
    Losses         \* the ways the connection may be lost

Tasks == Pingers \cup {PingLoop}

ASSUME KeepaliveAssumption ==
    /\ PingLoop \notin Pingers /\ MaxPings \in Nat
    /\ Slow \in BOOLEAN /\ Backpressure \in BOOLEAN
    /\ Losses \subseteq {"closed", "reset", "silent"}

VARIABLES
    pc,        \* where a task is in ping()
    fut,       \* the future of its current ping
    outcome,   \* how the ping ended
    waiters,   \* _ping_waiters: the tasks whose futures it holds
    conn,      \* the connection; "reset" also once the client has closed the transport
    atBroker,  \* PINGREQs the broker has yet to answer
    onWire,    \* PINGRESPs the read loop has yet to dispatch
    run,       \* the read and ping loops inside run()
    cause,     \* the exception that ended them
    sent,      \* history: PINGREQs written
    handled,   \* history: PINGRESPs dispatched
    asked,     \* history: which PINGREQ is that of a task's current ping
    answer,    \* history: which PINGRESP resolved its future
    began      \* history: the state of run() when a task called ping()

calls   == <<pc, fut, outcome>>
net     == <<conn, atBroker, onWire>>
loops   == <<run, cause>>
history == <<sent, handled, asked, answer, began>>
vars    == <<calls, waiters, net, loops, history>>

TypeOK ==
    /\ pc \in [Tasks -> {"idle", "sending", "waiting", "expired", "done"}]
    /\ fut \in [Tasks -> {"none", "pending", "answered", "failed"}]
    /\ outcome \in [Tasks -> {"none", "ok", "timeout", "disconnected", "oserror",
                              "cancelled", "valueError"}]
    /\ waiters \in Seq(Tasks)
    /\ conn \in {"up", "closed", "reset", "silent"}
    /\ atBroker \in Nat /\ onWire \in Nat
    /\ run \in {"running", "failing", "dead"}
    /\ cause \in {"none", "timeout", "disconnected", "oserror", "cancelled", "valueError"}
    /\ sent \in Nat /\ handled \in 0 .. sent
    /\ asked \in [Tasks -> 0 .. sent] /\ answer \in [Tasks -> 0 .. handled]
    /\ began \in [Tasks -> {"none", "running", "failing", "dead"}]

Init ==
    /\ pc = [t \in Tasks |-> "idle"] /\ fut = [t \in Tasks |-> "none"]
    /\ outcome = [t \in Tasks |-> "none"] /\ waiters = <<>>
    /\ conn = "up" /\ atBroker = 0 /\ onWire = 0
    /\ run = "running" /\ cause = "none"
    /\ sent = 0 /\ handled = 0 /\ began = [t \in Tasks |-> "none"]
    /\ asked = [t \in Tasks |-> 0] /\ answer = [t \in Tasks |-> 0]

-----------------------------------------------------------------------------
WritesRaise == conn = "reset"

(***************************************************************************)
(* ping() up to its first suspension: register a future, write PINGREQ.    *)
(* Unlike the other calls it does not ask whether the protocol is alive.   *)
(***************************************************************************)
Ping(t) ==
    /\ pc[t] = "idle"
    /\ waiters' = Append(waiters, t)
    /\ fut' = [fut EXCEPT ![t] = "pending"]
    /\ outcome' = [outcome EXCEPT ![t] = "none"]
    /\ \/ ~WritesRaise /\ pc' = [pc EXCEPT ![t] = "waiting"]
       \/ (Backpressure \/ WritesRaise) /\ pc' = [pc EXCEPT ![t] = "sending"]
    /\ atBroker' = IF conn = "up" THEN atBroker + 1 ELSE atBroker
    /\ sent' = sent + 1 /\ asked' = [asked EXCEPT ![t] = sent + 1]
    /\ answer' = [answer EXCEPT ![t] = 0] /\ began' = [began EXCEPT ![t] = run]
    /\ UNCHANGED <<conn, onWire, loops, handled>>

\* The interval of the ping loop has passed (no interval, not even 0, disables it).
KeepalivePing ==
    /\ run = "running"
    /\ conn = "up" => sent < MaxPings + Cardinality(Pingers)
    /\ Ping(PingLoop)

\* An exception leaves a loop: run() cancels both.
FailLoop(error) == run' = "failing" /\ cause' = error

\* A ping of the application is over; it returns or raises.
\* A ping of the ping loop is over: it sleeps again, or its error ends run().
Finish(t, out) ==
    /\ outcome' = [outcome EXCEPT ![t] = out]
    /\ \/ /\ t = PingLoop /\ out = "ok"
          /\ pc' = [pc EXCEPT ![t] = "idle"] /\ UNCHANGED loops
       \/ /\ t = PingLoop /\ out # "ok"
          /\ pc' = [pc EXCEPT ![t] = "done"] /\ FailLoop(out)
       \/ /\ t # PingLoop
          /\ pc' = [pc EXCEPT ![t] = "done"] /\ UNCHANGED loops

\* run() is stopping: the ping loop is cancelled wherever it is suspended.
Live(t) == t = PingLoop => run = "running"

\* The write buffer drained; only now does the timeout begin.
Drained(t) ==
    /\ pc[t] = "sending" /\ conn \in {"up", "closed"} /\ Live(t)
    /\ pc' = [pc EXCEPT ![t] = "waiting"]
    /\ UNCHANGED <<fut, outcome, waiters, net, loops, history>>

\* The write raises; the future stays in the list.
SendFails(t) ==
    /\ pc[t] = "sending" /\ WritesRaise /\ Live(t)
    /\ Finish(t, "oserror")
    /\ UNCHANGED <<fut, waiters, net, history>>

Resume(t) ==
    /\ pc[t] = "waiting" /\ fut[t] # "pending" /\ Live(t)
    /\ Finish(t, IF fut[t] = "answered" THEN "ok" ELSE "disconnected")
    /\ UNCHANGED <<fut, waiters, net, history>>

\* Without Slow, only an answer that does not come is late.
MayExpire == Slow \/ (conn # "up" /\ onWire = 0) \/ run # "running"

\* Mutant: the ping loop waits without a timeout.
ExpireApplicationOnly(t) ==
    /\ pc[t] = "waiting" /\ fut[t] = "pending" /\ t # PingLoop
    /\ MayExpire
    /\ pc' = [pc EXCEPT ![t] = "expired"]
    /\ UNCHANGED <<fut, outcome, waiters, net, loops, history>>

\* Mutant: only the ping loop's calls have a timeout.
ExpireLoopOnly(t) ==
    /\ pc[t] = "waiting" /\ fut[t] = "pending" /\ t = PingLoop /\ Live(t) /\ MayExpire
    /\ pc' = [pc EXCEPT ![t] = "expired"]
    /\ UNCHANGED <<fut, outcome, waiters, net, loops, history>>

\* The timer of wait_for fires; the task runs again in a later turn of the event loop.
Expire(t) ==
    /\ pc[t] = "waiting" /\ fut[t] = "pending" /\ Live(t)
    /\ MayExpire
    /\ pc' = [pc EXCEPT ![t] = "expired"]
    /\ UNCHANGED <<fut, outcome, waiters, net, loops, history>>

\* The task runs: list.remove raises ValueError if the future has left the list meanwhile.
TimedOut(t) ==
    /\ pc[t] = "expired" /\ Live(t)
    /\ \/ /\ \E k \in DOMAIN waiters : waiters[k] = t /\ waiters' = RemoveAt(waiters, k)
          /\ Finish(t, "timeout")
       \/ ~Contains(waiters, t) /\ Finish(t, "valueError") /\ UNCHANGED waiters
    /\ UNCHANGED <<fut, net, history>>

\* Mutant: a cancelled ping takes its future out of the list.
CancelForgets(t) ==
    /\ t \in Pingers /\ pc[t] \in {"sending", "waiting"}
    /\ Finish(t, "cancelled")
    /\ waiters' = SelectSeq(waiters, LAMBDA w : w # t)
    /\ UNCHANGED <<fut, net, history>>

\* The application cancels the task; shield() keeps its future in the list, pending.
Cancel(t) ==
    /\ t \in Pingers /\ pc[t] \in {"sending", "waiting"}
    /\ Finish(t, "cancelled")
    /\ UNCHANGED <<fut, waiters, net, history>>

-----------------------------------------------------------------------------
\* The broker and the connection (outside the repository).
BrokerAnswers ==
    /\ conn = "up" /\ atBroker > 0
    /\ atBroker' = atBroker - 1 /\ onWire' = onWire + 1
    /\ UNCHANGED <<calls, waiters, conn, loops, history>>

LoseConnection ==
    /\ conn = "up" /\ conn' \in Losses /\ atBroker' = 0
    /\ onWire' \in IF conn' = "reset" THEN {0} ELSE 0 .. onWire
    /\ UNCHANGED <<calls, waiters, loops, history>>

\* TCP gives up on a silent peer.
TcpGivesUp ==
    /\ conn = "silent" /\ "reset" \in Losses
    /\ conn' = "reset" /\ onWire' = 0
    /\ UNCHANGED <<calls, waiters, atBroker, loops, history>>

\* Mutant: the future that is resolved stays in the list.
HandlePingrespKeeps ==
    /\ run = "running" /\ onWire > 0
    /\ onWire' = onWire - 1 /\ handled' = handled + 1
    /\ \/ /\ waiters # <<>> /\ fut[Head(waiters)] = "pending"
          /\ fut' = [fut EXCEPT ![Head(waiters)] = "answered"]
          /\ answer' = [answer EXCEPT ![Head(waiters)] = handled + 1]
       \/ /\ waiters = <<>> \/ fut[Head(waiters)] # "pending"
          /\ UNCHANGED <<fut, answer>>
    /\ UNCHANGED <<pc, outcome, waiters, conn, atBroker, loops, sent, asked, began>>

\* _handle_pingresp resolves the oldest future of the list.
HandlePingresp ==
    /\ run = "running" /\ onWire > 0
    /\ onWire' = onWire - 1 /\ handled' = handled + 1
    /\ \/ /\ waiters # <<>> /\ waiters' = Tail(waiters)
          /\ fut' = [fut EXCEPT ![Head(waiters)] = "answered"]
          /\ answer' = [answer EXCEPT ![Head(waiters)] = handled + 1]
       \/ /\ waiters = <<>>
          /\ UNCHANGED <<waiters, fut, answer>>
    /\ UNCHANGED <<pc, outcome, conn, atBroker, loops, sent, asked, began>>

ReadEof ==
    /\ run = "running" /\ onWire = 0
    /\ \/ conn = "closed" /\ FailLoop("disconnected")
       \/ conn = "reset" /\ FailLoop("oserror")
    /\ UNCHANGED <<calls, waiters, net, history>>

CancelRun ==
    /\ run = "running" /\ FailLoop("cancelled")
    /\ UNCHANGED <<calls, waiters, net, history>>

\* Mutant: _cancel_pending does not look at the pings.
TeardownSkipsPings ==
    /\ run = "failing" /\ run' = "dead"
    /\ pc' = [pc EXCEPT ![PingLoop] = "done"]
    /\ UNCHANGED <<fut, waiters, outcome, net, cause, history>>

(***************************************************************************)
(* Both loops have stopped: _cancel_pending fails the futures of the list  *)
(* and empties it.                                                         *)
(***************************************************************************)
Teardown ==
    /\ run = "failing" /\ run' = "dead"
    /\ pc' = [pc EXCEPT ![PingLoop] = "done"]
    /\ fut' = [t \in Tasks |-> IF Contains(waiters, t) /\ fut[t] = "pending" THEN "failed" ELSE fut[t]]
    /\ waiters' = <<>>
    /\ UNCHANGED <<outcome, net, cause, history>>

\* The client closes the transport of a dead protocol.
CloseTransport ==
    /\ run = "dead" /\ conn # "reset" /\ conn' = "reset" /\ atBroker' = 0 /\ onWire' = 0
    /\ UNCHANGED <<calls, waiters, loops, history>>

-----------------------------------------------------------------------------
TaskStep(t) == Drained(t) \/ SendFails(t) \/ Resume(t) \/ TimedOut(t)

Next ==
    \/ \E t \in Pingers : Ping(t) \/ Cancel(t)
    \/ KeepalivePing
    \/ \E t \in Tasks : TaskStep(t) \/ Expire(t)
    \/ BrokerAnswers \/ LoseConnection \/ TcpGivesUp
    \/ HandlePingresp \/ ReadEof \/ CancelRun \/ Teardown \/ CloseTransport

Spec == Init /\ [][Next]_vars

(***************************************************************************)
(* The event loop runs what can run and its timers fire; the broker        *)
(* answers while the connection works.  Nothing is assumed of TCP.         *)
(***************************************************************************)
Fairness ==
    /\ \A t \in Tasks : WF_vars(TaskStep(t)) /\ WF_vars(Expire(t))
    /\ WF_vars(KeepalivePing) /\ WF_vars(HandlePingresp \/ ReadEof) /\ WF_vars(Teardown)
    /\ WF_vars(BrokerAnswers)

FairSpec == Spec /\ Fairness

-----------------------------------------------------------------------------
(***************************************************************************)
(* While the connection works, every future in _ping_waiters has a         *)
(* PINGRESP coming, whatever pings were cancelled or timed out: the list   *)
(* is never longer than what the broker owes.  The counters keep their     *)
(* types, in particular no PINGRESP is handled that was not asked for.     *)
(***************************************************************************)
EveryWaiterIsOwed ==
    /\ TypeOK
    /\ conn = "up" /\ run = "running" => Len(waiters) <= atBroker + onWire

(***************************************************************************)
(* A ping is resolved by the answer to its own PINGREQ, so the time it     *)
(* returns is its own round trip.                                          *)
(***************************************************************************)
OwnPong == \A t \in Tasks : outcome[t] = "ok" => answer[t] = asked[t]

(***************************************************************************)
(* A ping that gives up raises what its docstring announces                *)
(* ("MQTTTimeoutError: If no PINGRESP is received within *timeout*         *)
(* seconds."), or the error of the connection: never the ValueError of     *)
(* list.remove for a future that another task has taken from the list.     *)
(***************************************************************************)
PingRaisesAsDocumented == \A t \in Tasks : outcome[t] # "valueError"

(***************************************************************************)
(* When the end of run() finds a ping that waits, it fails it: no ping     *)
(* that began before is left pending once the protocol is dead.            *)
(***************************************************************************)
TeardownFailsPings ==
    run = "dead" =>
        \A t \in Pingers : pc[t] = "waiting" /\ began[t] # "dead" => fut[t] # "pending"

(***************************************************************************)
(* The keepalive does its work: a peer that has gone silent is noticed and *)
(* ends run(), although nothing is read any more and TCP may not have      *)
(* given up, unless the ping loop is stuck in a write, which its timeout   *)
(* does not cover.                                                         *)
(***************************************************************************)
SilentIsDetected == conn = "silent" ~> (run = "dead" \/ pc[PingLoop] = "sending")

(***************************************************************************)
(* Every ping() returns or raises, unless its write never drains.          *)
(***************************************************************************)
PingsEnd ==
    \A t \in Pingers : pc[t] # "idle" ~> (pc[t] = "done" \/ (pc[t] = "sending" /\ conn = "silent"))

=============================================================================
