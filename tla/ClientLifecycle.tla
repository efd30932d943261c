--------------------------- MODULE ClientLifecycle ---------------------------
(***************************************************************************)
(* The life of an MQTTClient: connect(), the background run loop that      *)
(* restores the connection and the subscriptions after a loss, the retry   *)
(* loop, the recovery callback, Subscription.start()/stop() and            *)
(* get_message(), and disconnect().                                        *)
(*                                                                         *)
(* A connection is a number, counted by the transports that were opened;   *)
(* what happens on it is module MQTTProtocol.  The broker keeps no session *)
(* between connections.                                                    *)
(***************************************************************************)
EXTENDS Naturals, FiniteSets

CONSTANTS
    Subs,         \* the application's Subscription objects
    None,         \* no Subscription
    Configs,      \* the values of ReconnectConfig.enabled
    MaxAttempts,  \* ReconnectConfig.max_attempts
    MaxLosses,    \* how often an established connection is lost
    LinkErrors,   \* what ends an established connection (raised by run())
    DialErrors,   \* what ends an attempt to connect (raised by _connect())
    Rejections    \* whether the broker may reject a filter

ASSUME LifecycleAssumption ==
    /\ None \notin Subs /\ Configs \subseteq BOOLEAN /\ Rejections \in BOOLEAN
    /\ MaxAttempts \in Nat \ {0} /\ MaxLosses \in Nat
    /\ LinkErrors \subseteq {"disconnected", "timeout", "oserror", "protocolError"}
    /\ DialErrors \subseteq {"refused", "disconnected", "timeout", "oserror", "protocolError"}

VARIABLES
    enabled,    \* ReconnectConfig.enabled, fixed when the client is made
    client,     \* where the application's connect()/disconnect() calls are
    runTask,    \* where the run loop is
    runEnd,     \* how the run task ended
    dial,       \* where _connect_with_retry is, whoever runs it
    attempt,    \* its attempt counter
    opened,     \* the transports that are open
    dialled,    \* how many transports were opened so far
    trying,     \* the transport of the attempt under way, 0 if none
    protocol,   \* the connection of self._protocol, 0 for None
    link,       \* the state of that connection
    losses,     \* connections lost so far
    info,       \* connection_id of self._connection_info, 0 for None
    connectionId,   \* self._connection_id
    subscriptions,  \* self._subscriptions
    toRestore,  \* subs_to_restore
    restoring,  \* the Subscription the run loop is re-subscribing
    sub,        \* where the application is with a Subscription
    on,         \* the connection on which start() or stop() waits for an answer
    registered, \* whether _registered_filters is not empty
    held,       \* the connection on which the broker holds the filters, 0 if none
    consumers,  \* the Subscriptions on which get_message() is waiting
    signal,     \* self._subscription_failure
    notified    \* how often on_connection_recovery_failed was awaited

loopVars == <<enabled, client, runTask, runEnd, signal, notified>>
dialVars == <<dial, attempt, dialled, trying, connectionId>>
subVars  == <<subscriptions, sub, on, registered, consumers>>
restVars == <<toRestore, restoring>>
connVars == <<opened, protocol, link, losses, info>>
vars == <<loopVars, dialVars, subVars, restVars, connVars, held>>

Ended == LinkErrors \cup {"cancelled"}

TypeOK ==
    /\ enabled \in Configs
    /\ client \in {"new", "connecting", "open", "leaving", "exiting", "closed", "failed"}
    /\ runTask \in {"none", "restoring", "running", "closing", "dialling", "notifying", "ended", "reaped"}
    /\ runEnd \in LinkErrors \cup DialErrors \cup {"none", "cancelled", "subscribeError", "disconnected"}
    /\ dial \in {"none", "sleep", "dialling", "handshake"}
    /\ attempt \in 0 .. MaxAttempts /\ dialled \in Nat /\ opened \subseteq 1 .. dialled
    /\ trying \in 0 .. dialled /\ protocol \in 0 .. dialled /\ losses \in 0 .. MaxLosses
    /\ link \in {"none", "alive"} \cup Ended
    /\ connectionId \in Nat /\ info \in 0 .. connectionId
    /\ subscriptions \subseteq Subs /\ toRestore \subseteq Subs /\ restoring \in Subs \cup {None}
    /\ sub \in [Subs -> {"new", "entering", "active", "stopping", "stopped", "failed"}]
    /\ on \in [Subs -> 0 .. dialled] /\ held \in [Subs -> 0 .. dialled]
    /\ registered \in [Subs -> BOOLEAN] /\ consumers \subseteq Subs
    /\ signal \in {"none", "pending", "set"} /\ notified \in Nat

Init ==
    /\ enabled \in Configs
    /\ client = "new" /\ runTask = "none" /\ runEnd = "none"
    /\ dial = "none" /\ attempt = 0 /\ dialled = 0 /\ trying = 0
    /\ opened = {} /\ protocol = 0 /\ link = "none" /\ losses = 0
    /\ info = 0 /\ connectionId = 0
    /\ subscriptions = {} /\ toRestore = {} /\ restoring = None
    /\ sub = [s \in Subs |-> "new"] /\ on = [s \in Subs |-> 0] /\ held = [s \in Subs |-> 0]
    /\ registered = [s \in Subs |-> FALSE] /\ consumers = {}
    /\ signal = "none" /\ notified = 0

-----------------------------------------------------------------------------
(***************************************************************************)
(* _connect_with_retry and _connect, run by connect() or by the run loop.  *)
(***************************************************************************)

\* connect(): the first attempt is made without a delay.
Connect ==
    /\ client = "new" /\ client' = "connecting"
    /\ dial' = "dialling" /\ attempt' = 0
    /\ UNCHANGED <<enabled, runTask, runEnd, signal, notified, dialled, trying, connectionId,
                   subVars, restVars, connVars, held>>

\* The back-off sleep is over.
Sleep ==
    /\ dial = "sleep" /\ dial' = "dialling"
    /\ UNCHANGED <<loopVars, attempt, dialled, trying, connectionId, subVars, restVars, connVars, held>>

\* The transport factory returns.
OpenTransport ==
    /\ dial = "dialling" /\ dial' = "handshake"
    /\ dialled' = dialled + 1 /\ trying' = dialled + 1
    /\ opened' = opened \cup {dialled + 1}
    /\ UNCHANGED <<loopVars, attempt, connectionId, subVars, restVars, protocol, link, losses, info, held>>

\* CONNACK accepts: the new protocol replaces the old one; its run() starts.
Connack ==
    /\ dial = "handshake" /\ dial' = "none"
    /\ protocol' = trying /\ trying' = 0 /\ link' = "alive"
    /\ connectionId' = connectionId + 1 /\ info' = connectionId + 1
    /\ runTask' = "restoring"
    /\ \/ client = "connecting" /\ client' = "open" /\ signal' = "pending"
       \/ client \in {"open", "leaving"} /\ UNCHANGED <<client, signal>>
    /\ UNCHANGED <<enabled, runEnd, notified, attempt, dialled, subVars, restVars, opened, losses, held>>

\* Mutant: a CONNACK timeout is not reported.
ReportedNoTimeout(error) == error \in {"refused", "oserror"}

\* Which connection errors the run loop reports to the recovery callback.
Reported(error) == error \in {"refused", "timeout", "oserror"}

\* The exception leaves _connect_with_retry: connect() raises it, or the run
\* loop awaits the callback and then ends with it.
GiveUp(error) ==
    /\ dial' = "none"
    /\ IF client = "connecting"
       THEN client' = "failed" /\ UNCHANGED <<runTask, runEnd, notified>>
       ELSE /\ runEnd' = error
            /\ IF Reported(error) THEN runTask' = "notifying" /\ notified' = notified + 1
                                  ELSE runTask' = "ended" /\ UNCHANGED notified
            /\ UNCHANGED client

Retryable(error) == error \in {"oserror", "timeout"}

OutOfAttempts(n) == ~enabled \/ n >= MaxAttempts

\* An attempt fails; _connect closes the transport it had opened.
AttemptFails(error) ==
    /\ dial = "handshake" \/ (dial = "dialling" /\ error = "oserror")
    /\ opened' = opened \ {trying} /\ trying' = 0
    /\ \/ /\ Retryable(error) /\ attempt' = attempt + 1
          /\ IF OutOfAttempts(attempt') THEN GiveUp(error)
             ELSE dial' = "sleep" /\ UNCHANGED <<client, runTask, runEnd, notified>>
       \/ ~Retryable(error) /\ GiveUp(error) /\ UNCHANGED attempt
    /\ UNCHANGED <<enabled, signal, dialled, connectionId, subVars, restVars, protocol, link, losses, info, held>>

-----------------------------------------------------------------------------
(***************************************************************************)
(* The run loop.                                                           *)
(***************************************************************************)

\* protocol.run() ends with an exception; the run loop has yet to notice.
LoseLink(error) ==
    /\ link = "alive" /\ losses < MaxLosses
    /\ link' = error /\ losses' = losses + 1
    /\ UNCHANGED <<loopVars, dialVars, subVars, restVars, opened, protocol, info, held>>

\* The next Subscription of subs_to_restore: SUBSCRIBE is sent.
RestoreNext(s) ==
    /\ runTask = "restoring" /\ link = "alive" /\ restoring = None /\ s \in toRestore
    /\ restoring' = s
    /\ UNCHANGED <<loopVars, dialVars, subVars, toRestore, connVars, held>>

Restored ==
    /\ runTask = "restoring" /\ link = "alive" /\ restoring # None
    /\ held' = [held EXCEPT ![restoring] = protocol]
    /\ registered' = [registered EXCEPT ![restoring] = TRUE]
    /\ toRestore' = toRestore \ {restoring} /\ restoring' = None
    /\ UNCHANGED <<loopVars, dialVars, subscriptions, sub, on, consumers, connVars>>

\* subs_to_restore is empty and the response topics of requests are restored
\* (module RequestDispatcher has the detail): wait for the protocol to end.
AwaitProtocol ==
    /\ runTask = "restoring" /\ restoring = None /\ toRestore = {}
    /\ runTask' = "running"
    /\ UNCHANGED <<enabled, client, runEnd, signal, notified, dialVars, subVars, restVars, connVars, held>>

\* Mutant: the connection information survives.
EndRunKeepsInfo(error) ==
    /\ runTask' = "ended" /\ runEnd' = error
    /\ info' = info /\ link' = (IF link = "alive" THEN "cancelled" ELSE link)
    /\ restoring' = None

\* An exception the run loop does not handle: the finally block cancels run().
EndRun(error) ==
    /\ runTask' = "ended" /\ runEnd' = error
    /\ info' = 0 /\ link' = (IF link = "alive" THEN "cancelled" ELSE link)
    /\ restoring' = None

\* The broker rejects a filter, or at last a response topic, that is being restored.
RestoreRejected ==
    /\ runTask = "restoring" /\ link = "alive" /\ Rejections
    /\ restoring # None \/ toRestore = {}
    /\ EndRun("subscribeError")
    /\ UNCHANGED <<enabled, client, signal, notified, dialVars, subVars, toRestore, opened, protocol, losses, held>>

\* Mutant: a ping timeout ends the client.
RecoverableDisconnectOnly(error) == error = "disconnected"

\* Errors the run loop answers by reconnecting.
Recoverable(error) == error \in {"disconnected", "timeout"}

(***************************************************************************)
(* The run loop notices the loss.  While it restores subscriptions and     *)
(* response topics, the loss reaches it through the SUBACK it waits for as *)
(* MQTTDisconnectedError, or through a write to a transport that failed.   *)
(***************************************************************************)
LossErrors ==
    IF runTask = "restoring" THEN {"disconnected"} \cup ({link} \cap {"oserror"}) ELSE {link}

NoticeLoss(error) ==
    /\ runTask \in {"restoring", "running"} /\ link \in LinkErrors /\ error \in LossErrors
    /\ \/ /\ Recoverable(error) /\ enabled
          /\ runTask' = "closing" /\ info' = 0 /\ restoring' = None
          /\ UNCHANGED <<runEnd, notified, link>>
       \/ /\ Recoverable(error) /\ ~enabled
          /\ runTask' = "notifying" /\ notified' = notified + 1 /\ runEnd' = error
          /\ info' = 0 /\ restoring' = None
          /\ UNCHANGED link
       \/ ~Recoverable(error) /\ EndRun(error) /\ UNCHANGED notified
    /\ UNCHANGED <<enabled, client, signal, dialVars, subVars, toRestore, opened, protocol, losses, held>>

\* Mutant: the dead transport stays open.
CloseAndRedialLeaks ==
    /\ runTask = "closing" /\ runTask' = "dialling"
    /\ toRestore' = subscriptions
    /\ dial' = "sleep" /\ attempt' = 0
    /\ UNCHANGED <<enabled, client, runEnd, signal, notified, dialled, trying, connectionId, subVars, restoring,
                   connVars, held>>

\* Mutant: what was left to restore is not refreshed.
CloseAndRedialKeepsList ==
    /\ runTask = "closing" /\ runTask' = "dialling"
    /\ opened' = opened \ {protocol}
    /\ dial' = "sleep" /\ attempt' = 0
    /\ UNCHANGED <<enabled, client, runEnd, signal, notified, dialled, trying, connectionId, subVars, restVars,
                   protocol, link, losses, info, held>>

\* The dead transport is closed, the subscriptions to restore are noted, the first delay begins.
CloseAndRedial ==
    /\ runTask = "closing" /\ runTask' = "dialling"
    /\ opened' = opened \ {protocol}
    /\ toRestore' = subscriptions
    /\ dial' = "sleep" /\ attempt' = 0
    /\ UNCHANGED <<enabled, client, runEnd, signal, notified, dialled, trying, connectionId, subVars, restoring,
                   protocol, link, losses, info, held>>

\* The recovery callback returns; the error ends the run task.
CallbackReturns ==
    /\ runTask = "notifying" /\ runTask' = "ended"
    /\ info' = 0
    /\ UNCHANGED <<enabled, client, runEnd, signal, notified, dialVars, subVars, restVars, opened, protocol, link, losses, held>>

\* Mutant: the consumers are not told.
NotifySubscriptionFailureSilent ==
    /\ runTask = "ended" /\ runTask' = "reaped"
    /\ info' = 0
    /\ UNCHANGED <<enabled, client, runEnd, signal, notified, dialVars, subVars, restVars, opened, protocol, link, losses, held>>

\* _notify_subscription_failure, the run task's done callback.
NotifySubscriptionFailure ==
    /\ runTask = "ended" /\ runTask' = "reaped"
    /\ info' = 0
    /\ signal' = IF runEnd # "cancelled" /\ signal = "pending" THEN "set" ELSE signal
    /\ UNCHANGED <<enabled, client, runEnd, notified, dialVars, subVars, restVars, opened, protocol, link, losses, held>>

-----------------------------------------------------------------------------
(***************************************************************************)
(* Subscriptions.                                                          *)
(***************************************************************************)

\* The application may use its Subscriptions until disconnect() has returned.
Usable == client \in {"open", "leaving", "exiting"}

\* start(): join the client's list, then send SUBSCRIBE; a dead protocol raises.
Start(s) ==
    /\ Usable /\ sub[s] = "new" /\ protocol # 0
    /\ subscriptions' = subscriptions \cup {s}
    /\ sub' = [sub EXCEPT ![s] = IF link = "alive" THEN "entering" ELSE "failed"]
    /\ on' = [on EXCEPT ![s] = protocol]
    /\ UNCHANGED <<loopVars, dialVars, restVars, registered, consumers, connVars, held>>

Answered(s) == on[s] = protocol /\ link = "alive"

\* A guard serializes start, stop and restoration of one filter.
Subscribed(s) ==
    /\ sub[s] = "entering" /\ Answered(s) /\ restoring # s
    /\ sub' = [sub EXCEPT ![s] = "active"]
    /\ held' = [held EXCEPT ![s] = protocol]
    /\ registered' = [registered EXCEPT ![s] = TRUE]
    /\ UNCHANGED <<loopVars, dialVars, restVars, subscriptions, on, consumers, connVars>>

\* The broker rejects the filter, or the connection ends first: start() raises.
StartFails(s) ==
    /\ sub[s] = "entering"
    /\ \/ Answered(s) /\ restoring # s /\ Rejections
       \/ ~Answered(s)
    /\ sub' = [sub EXCEPT ![s] = "failed"]
    /\ UNCHANGED <<loopVars, dialVars, restVars, subscriptions, on, registered, consumers, connVars, held>>

\* stop(): leave the list, then send UNSUBSCRIBE if there is something to unsubscribe.
Stop(s) ==
    /\ Usable /\ sub[s] = "active" /\ s \notin consumers
    /\ subscriptions' = subscriptions \ {s}
    /\ on' = [on EXCEPT ![s] = protocol]
    /\ sub' = [sub EXCEPT ![s] = IF registered[s] /\ link = "alive" THEN "stopping" ELSE "stopped"]
    /\ UNCHANGED <<loopVars, dialVars, restVars, registered, consumers, connVars, held>>

\* UNSUBACK, or the end of the connection, which stop() suppresses.
Stopped(s) ==
    /\ sub[s] = "stopping"
    /\ \/ Answered(s) /\ restoring # s /\ held' = [held EXCEPT ![s] = 0]
       \/ ~Answered(s) /\ UNCHANGED held
    /\ sub' = [sub EXCEPT ![s] = "stopped"]
    /\ UNCHANGED <<loopVars, dialVars, restVars, subscriptions, on, registered, consumers, connVars>>

\* get_message() on an empty queue waits for a message or for the failure signal.
GetMessage(s) ==
    /\ Usable /\ sub[s] = "active" /\ signal = "pending" /\ s \notin consumers
    /\ consumers' = consumers \cup {s}
    /\ UNCHANGED <<loopVars, dialVars, restVars, subscriptions, sub, on, registered, connVars, held>>

\* A message arrives on a live connection, or the failure signal is raised.
GetMessageReturns(s) ==
    /\ s \in consumers
    /\ signal = "set" \/ (held[s] = protocol /\ link = "alive")
    /\ consumers' = consumers \ {s}
    /\ UNCHANGED <<loopVars, dialVars, restVars, subscriptions, sub, on, registered, connVars, held>>

-----------------------------------------------------------------------------
(***************************************************************************)
(* disconnect().                                                           *)
(***************************************************************************)

\* disconnect() begins: while cancel_pending() waits for the request
\* dispatcher's tasks to end, the run loop goes on.
Leave ==
    /\ client = "open" /\ client' = "leaving"
    /\ info' = 0
    /\ UNCHANGED <<enabled, runTask, runEnd, signal, notified, dialVars, subVars, restVars,
                   opened, protocol, link, losses, held>>

\* cancel_pending() cancels the very task that restores a response topic.
RestoreCancelled ==
    /\ client = "leaving" /\ runTask = "restoring" /\ restoring = None /\ toRestore = {}
    /\ EndRun("cancelled")
    /\ UNCHANGED <<enabled, client, signal, notified, dialVars, subVars, toRestore, opened, protocol, losses, held>>

\* The run task is cancelled wherever it is suspended, and awaited.
Exit ==
    /\ client = "leaving" /\ client' = "exiting"
    /\ IF runTask \in {"ended", "reaped"}
       THEN UNCHANGED <<runTask, runEnd, dial, trying, opened, link, info, restoring>>
       ELSE /\ runTask' = "ended" /\ runEnd' = "cancelled"
            /\ dial' = "none" /\ trying' = 0 /\ info' = 0 /\ restoring' = None
            /\ opened' = opened \ ({trying} \cup (IF runTask = "closing" THEN {protocol} ELSE {}))
            /\ link' = IF link = "alive" THEN "cancelled" ELSE link
    /\ UNCHANGED <<enabled, signal, notified, attempt, dialled, connectionId, subVars, toRestore, protocol, losses, held>>

\* protocol.disconnect() sends DISCONNECT and closes the transport.
Disconnect ==
    /\ client = "exiting" /\ client' = "closed"
    /\ opened' = opened \ {protocol} /\ protocol' = 0
    /\ UNCHANGED <<enabled, runTask, runEnd, signal, notified, dialVars, subVars, restVars, link, losses, info, held>>

-----------------------------------------------------------------------------
DialStep == Sleep \/ OpenTransport \/ Connack \/ \E error \in DialErrors : AttemptFails(error)

RunLoopStep ==
    \/ \E s \in Subs : RestoreNext(s)
    \/ Restored \/ AwaitProtocol \/ RestoreRejected \/ CloseAndRedial
    \/ \E error \in LossErrors : NoticeLoss(error)
    \/ CallbackReturns \/ NotifySubscriptionFailure \/ RestoreCancelled

SubStep(s) == Subscribed(s) \/ StartFails(s) \/ Stopped(s)

Next ==
    \/ Connect \/ DialStep \/ RunLoopStep
    \/ \E error \in LinkErrors : LoseLink(error)
    \/ \E s \in Subs : Start(s) \/ Stop(s) \/ SubStep(s) \/ GetMessage(s) \/ GetMessageReturns(s)
    \/ Leave \/ Exit \/ Disconnect

Spec == Init /\ [][Next]_vars

\* The event loop runs what can run; the peers answer or their timeouts fire.
Fairness ==
    /\ WF_vars(DialStep) /\ WF_vars(RunLoopStep) /\ WF_vars(Exit) /\ WF_vars(Disconnect)
    /\ \A s \in Subs : WF_vars(SubStep(s)) /\ WF_vars(GetMessageReturns(s) /\ signal = "set")

FairSpec == Spec /\ Fairness

-----------------------------------------------------------------------------
(***************************************************************************)
(* File descriptors: every open transport belongs to the current protocol  *)
(* or to the attempt under way, and once connect() has failed or           *)
(* disconnect() has returned none is open.  Attempts stay within their     *)
(* limit and every index names a transport that was opened (TypeOK).       *)
(***************************************************************************)
NoTransportLeak ==
    /\ TypeOK
    /\ opened \subseteq {protocol, trying}
    /\ client \in {"failed", "closed"} => opened = {}

(***************************************************************************)
(* connection_info raises unless a successful connection is active: it is  *)
(* that of the current protocol, never left over while the loop            *)
(* reconnects, reports a failure or has ended, also when it reconnects     *)
(* while disconnect() waits for the requests to end.                       *)
(***************************************************************************)
InfoIsCurrent ==
    info # 0 => /\ info = connectionId /\ protocol \in opened
                /\ runTask \in {"restoring", "running"} /\ client \in {"open", "leaving"}

(***************************************************************************)
(* A subscription that start() reported as active is subscribed at the     *)
(* broker whenever the connection is up and restoration is over.           *)
(***************************************************************************)
ActiveAreSubscribed ==
    runTask = "running" /\ link = "alive" =>
        \A s \in Subs : sub[s] = "active" => held[s] = protocol

(***************************************************************************)
(* stop() does what it says ("Unsubscribe from all filters and stop        *)
(* message delivery."): once it has returned the broker does not hold the  *)
(* filters of the Subscription on the connection in use.                   *)
(***************************************************************************)
StoppedIsUnsubscribed ==
    link = "alive" => \A s \in Subs : sub[s] = "stopped" => held[s] # protocol

(***************************************************************************)
(* The run loop has given up: the attempts are used up, the broker refused *)
(* the connection, or a loss was noticed with reconnection disabled.       *)
(***************************************************************************)
GaveUp ==
    \/ attempt = MaxAttempts
    \/ runEnd \in {"refused", "timeout"}
    \/ ~enabled /\ runEnd = "disconnected"

(***************************************************************************)
(* When the run task has ended by itself, the recovery callback has been   *)
(* awaited if and only if the run loop gave up; it is awaited at most      *)
(* once, never for a failed initial connection and never before the run    *)
(* loop gives up.                                                          *)
(***************************************************************************)
RecoveryFailureNotified ==
    /\ runTask \in {"ended", "reaped"} /\ runEnd # "cancelled" => (notified = 1 <=> GaveUp)
    /\ notified <= 1
    /\ notified = 1 => connectionId > 0 /\ runTask \in {"notifying", "ended", "reaped"}

(***************************************************************************)
(* "The async callback is awaited exactly once after a previously          *)
(* established connection cannot be restored": whenever the run task has   *)
(* ended by itself, whatever exception ended it.                           *)
(***************************************************************************)
UnrestoredIsNotified ==
    runTask \in {"ended", "reaped"} /\ runEnd # "cancelled" => notified = 1

(***************************************************************************)
(* A lost connection is repaired, with every active subscription, or the   *)
(* recovery callback says that it was not, unless the application          *)
(* disconnects or an exception that no except clause of the run loop names *)
(* has ended it: an OSError of run() or of a write, a protocol error, a    *)
(* rejected filter, or the end of the connection before CONNACK.           *)
(***************************************************************************)
Repaired == /\ runTask = "running" /\ link = "alive"
            /\ \A s \in Subs : sub[s] = "active" => held[s] = protocol

Unhandled == /\ runTask \in {"ended", "reaped"}
             /\ \/ runEnd \in {"oserror", "protocolError", "subscribeError"}
                \/ enabled /\ runEnd = "disconnected"

LossIsRepaired ==
    (client = "open" /\ link \in LinkErrors)
        ~> (Repaired \/ notified > 0 \/ client # "open" \/ Unhandled)

(***************************************************************************)
(* Nobody waits for a message from a client that has failed: get_message() *)
(* raises the error that ended the run loop.                               *)
(***************************************************************************)
ConsumersLearnOfFailure ==
    \A s \in Subs : (s \in consumers /\ runTask = "ended" /\ runEnd # "cancelled") ~> s \notin consumers

=============================================================================
