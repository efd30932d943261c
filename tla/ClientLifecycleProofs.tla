------------------------ MODULE ClientLifecycleProofs ------------------------
(***************************************************************************)
(* The client's transports, its connection information, the subscriptions  *)
(* it restores and the recovery callback, for any number of subscriptions, *)
(* attempts and losses and any set of errors.                              *)
(***************************************************************************)
EXTENDS ClientLifecycle, TLAPS

\* Which states of connect()/disconnect(), the run loop and the retry loop go together.
Phases ==
    /\ client \in {"new", "connecting"} =>
          /\ runTask = "none" /\ protocol = 0 /\ info = 0 /\ \A s \in Subs : sub[s] = "new"
    /\ client = "new" => opened = {}
    /\ dial # "none" <=> (client = "connecting" \/ runTask = "dialling")
    /\ client \in {"exiting", "closed"} => runTask \in {"ended", "reaped"}
    /\ client = "failed" => runTask = "none"
    /\ client \in {"open", "leaving"} => runTask # "none"
    /\ runTask # "none" => connectionId > 0

\* The retry loop starts when the old transport is closed, and closes its own.
Transports ==
    /\ dial # "handshake" => trying = 0
    /\ dial = "handshake" => trying \in opened
    /\ dial # "none" => protocol \notin opened /\ attempt < MaxAttempts
    /\ runTask \in {"restoring", "running"} => protocol \in opened

\* An active subscription is at the broker or among those still to be restored.
Coverage ==
    /\ \A s \in Subs : sub[s] \in {"entering", "active"} => s \in subscriptions
    /\ runTask \in {"closing", "dialling"} => link # "alive"
    /\ runTask = "dialling" => \A s \in Subs : sub[s] = "active" => s \in toRestore
    /\ runTask \in {"restoring", "running"} =>
          \A s \in Subs : sub[s] = "active" => held[s] = protocol \/ s \in toRestore
    /\ runTask = "running" => toRestore = {}

LInv == NoTransportLeak /\ InfoIsCurrent /\ Phases /\ Transports /\ Coverage

\* The initial states satisfy the invariant.
LEMMA InitL == Init => LInv
<1> SUFFICES ASSUME Init PROVE LInv
  OBVIOUS
<1>1. TypeOK
  BY LifecycleAssumption DEF Init, TypeOK
<1> QED
  BY <1>1, LifecycleAssumption
     DEF Init, LInv, NoTransportLeak, InfoIsCurrent, Phases, Transports, Coverage

\* The steps of _connect_with_retry and connect().
LEMMA DialL == ASSUME LInv, Connect \/ DialStep PROVE LInv'
<1> USE LifecycleAssumption DEF LInv, NoTransportLeak, TypeOK, InfoIsCurrent, Phases, Transports, Coverage,
    loopVars, dialVars, subVars, restVars, connVars
<1>1. CASE Connect
  BY <1>1 DEF Connect
<1>2. CASE Sleep
  BY <1>2 DEF Sleep
<1>3. CASE OpenTransport
  BY <1>3 DEF OpenTransport
<1>4. CASE Connack
  BY <1>4 DEF Connack
<1>5. ASSUME NEW error \in DialErrors, AttemptFails(error) PROVE LInv'
  BY <1>5 DEF AttemptFails, GiveUp, OutOfAttempts
<1> QED
  BY <1>1, <1>2, <1>3, <1>4, <1>5 DEF DialStep

\* The steps of the run loop.
LEMMA RunL == ASSUME LInv, RunLoopStep \/ \E error \in LinkErrors : LoseLink(error) PROVE LInv'
<1> USE LifecycleAssumption DEF LInv, NoTransportLeak, TypeOK, InfoIsCurrent, Phases, Transports, Coverage,
    loopVars, dialVars, subVars, restVars, connVars, Ended
<1>1. ASSUME NEW s \in Subs, RestoreNext(s) PROVE LInv'
  BY <1>1 DEF RestoreNext
<1>2. CASE Restored
  BY <1>2 DEF Restored
<1>3. CASE AwaitProtocol
  BY <1>3 DEF AwaitProtocol
<1>4. CASE RestoreRejected
  BY <1>4 DEF RestoreRejected, EndRun
<1>5. CASE CloseAndRedial
  BY <1>5 DEF CloseAndRedial
<1>6. ASSUME NEW error \in LossErrors, NoticeLoss(error) PROVE LInv'
  BY <1>6 DEF NoticeLoss, LossErrors, EndRun
<1>7. CASE CallbackReturns
  BY <1>7 DEF CallbackReturns
<1>8. CASE NotifySubscriptionFailure
  BY <1>8 DEF NotifySubscriptionFailure
<1>9. ASSUME NEW error \in LinkErrors, LoseLink(error) PROVE LInv'
  BY <1>9 DEF LoseLink
<1>10. CASE RestoreCancelled
  BY <1>10 DEF RestoreCancelled, EndRun
<1> QED
  BY <1>1, <1>2, <1>3, <1>4, <1>5, <1>6, <1>7, <1>8, <1>9, <1>10 DEF RunLoopStep

\* The steps of a subscription.
LEMMA SubL ==
    ASSUME LInv, NEW s \in Subs,
           Start(s) \/ Stop(s) \/ SubStep(s) \/ GetMessage(s) \/ GetMessageReturns(s)
    PROVE  LInv'
<1> USE LifecycleAssumption DEF LInv, NoTransportLeak, TypeOK, InfoIsCurrent, Phases, Transports, Coverage,
    loopVars, dialVars, subVars, restVars, connVars
<1>1. CASE Start(s)
  BY <1>1 DEF Start, Usable
<1>2. CASE Stop(s)
  BY <1>2 DEF Stop, Usable
<1>3. CASE Subscribed(s)
  <2>1. TypeOK'
    BY <1>3 DEF Subscribed
  <2>2. /\ sub' = [sub EXCEPT ![s] = "active"] /\ held' = [held EXCEPT ![s] = protocol] /\ sub[s] = "entering"
        /\ link = "alive" /\ UNCHANGED <<runTask, link, subscriptions, toRestore, protocol>>
    BY ONLY <1>3 DEF Subscribed, Answered, loopVars, connVars, restVars
  <2>3. Coverage'
    BY <2>2
  <2> QED
    BY <1>3, <2>1, <2>3 DEF Subscribed
<1>4. CASE StartFails(s)
  BY <1>4 DEF StartFails
<1>5. CASE Stopped(s)
  BY <1>5 DEF Stopped
<1>6. CASE GetMessage(s)
  BY <1>6 DEF GetMessage, Usable
<1>7. CASE GetMessageReturns(s)
  BY <1>7 DEF GetMessageReturns
<1> QED
  BY <1>1, <1>2, <1>3, <1>4, <1>5, <1>6, <1>7 DEF SubStep

\* disconnect().
LEMMA ExitL == ASSUME LInv, Leave \/ Exit \/ Disconnect \/ UNCHANGED vars PROVE LInv'
<1> USE LifecycleAssumption DEF LInv, NoTransportLeak, TypeOK, InfoIsCurrent, Phases, Transports, Coverage,
    loopVars, dialVars, subVars, restVars, connVars, Ended
<1>1. CASE Exit
  <2>1. client = "leaving" /\ client' = "exiting" /\ info' \in {0, info}
        /\ UNCHANGED <<enabled, signal, notified, attempt, dialled, connectionId, subVars, toRestore, protocol,
                       losses, held>>
    BY ONLY <1>1 DEF Exit, subVars
  <2>2. CASE runTask \in {"ended", "reaped"}
    <3>1. UNCHANGED <<runTask, runEnd, dial, trying, opened, link, info, restoring>>
      BY ONLY <1>1, <2>2 DEF Exit
    <3> QED
      BY <2>1, <2>2, <3>1
  <2>3. CASE runTask \notin {"ended", "reaped"}
    <3>1. /\ info' = 0 /\ runTask' = "ended" /\ runEnd' = "cancelled" /\ dial' = "none" /\ trying' = 0 /\ restoring' = None
          /\ opened' \subseteq opened \ {trying}
          /\ link' \in {link, "cancelled"}
      BY ONLY <1>1, <2>3 DEF Exit
    <3>2. TypeOK'
      BY <2>1, <3>1
    <3>3. opened' \subseteq {protocol'} /\ Phases'
      BY <2>1, <3>1
    <3>4. Coverage'
      BY <2>1, <3>1
    <3> QED
      BY <2>1, <3>1, <3>2, <3>3, <3>4
  <2> QED
    BY <2>2, <2>3
<1>2. CASE Disconnect
  BY <1>2 DEF Disconnect
<1>3. CASE Leave
  BY <1>3 DEF Leave
<1>4. CASE UNCHANGED vars
  BY <1>4 DEF vars
<1> QED
  BY <1>1, <1>2, <1>3, <1>4

\* Every reachable state satisfies the invariant.
LEMMA InvariantL == Spec => []LInv
<1>1. ASSUME LInv, [Next]_vars PROVE LInv'
  BY <1>1, DialL, RunL, SubL, ExitL DEF Next
<1> QED
  BY <1>1, InitL, PTL DEF Spec

(***************************************************************************)
(* No transport is ever lost track of: _connect closes the one it opened   *)
(* when the attempt fails, the run loop closes the dead one before it      *)
(* dials again, and disconnect() closes the last, also when it cancels the *)
(* run loop half way through an attempt or through the closing.            *)
(***************************************************************************)
THEOREM TransportsAreClosed == Spec => []NoTransportLeak
<1>1. LInv => NoTransportLeak
  BY DEF LInv
<1> QED
  BY <1>1, InvariantL, PTL

(***************************************************************************)
(* connection_info describes the connection in use or raises, whatever     *)
(* error ends the connection and wherever the run loop is then.            *)
(***************************************************************************)
THEOREM ConnectionInfoIsCurrent == Spec => []InfoIsCurrent
<1>1. LInv => InfoIsCurrent
  BY DEF LInv
<1> QED
  BY <1>1, InvariantL, PTL

(***************************************************************************)
(* However often the connection is lost, also while the run loop restores  *)
(* and while subscriptions come and go: once restoration is over on a live *)
(* connection, the broker holds every active subscription.                 *)
(***************************************************************************)
THEOREM SubscriptionsAreRestored == Spec => []ActiveAreSubscribed
<1>1. LInv => ActiveAreSubscribed
  BY DEF LInv, Coverage, ActiveAreSubscribed
<1> QED
  BY <1>1, InvariantL, PTL

-----------------------------------------------------------------------------
(***************************************************************************)
(* The recovery callback.                                                  *)
(***************************************************************************)

\* The callback is awaited on the way to the end, when the run loop gives up,
\* and not before; only a client that may reconnect dials again.
CallbackInv ==
    /\ notified \in 0 .. 1
    /\ runTask \notin {"notifying", "ended", "reaped"} => notified = 0
    /\ runTask \in {"restoring", "running", "closing", "dialling"} => attempt < MaxAttempts
    /\ runTask \in {"closing", "dialling"} => enabled
    /\ runTask = "notifying" => notified = 1 /\ GaveUp
    /\ runTask \in {"ended", "reaped"} /\ runEnd # "cancelled" => (notified = 1 <=> GaveUp)

\* The invariant holds initially.
LEMMA CallbackInit == Init => CallbackInv
BY DEF Init, CallbackInv

\* An attempt that fails ends the run loop with the callback when the attempts are used
\* up or the broker refuses, and without it when the exception is not one it reports.
LEMMA AttemptStep ==
    ASSUME LInv, CallbackInv, NEW error \in DialErrors, AttemptFails(error)
    PROVE  CallbackInv'
<1>0. /\ client \in {"new", "connecting"} => runTask = "none"
      /\ dial # "none" => client = "connecting" \/ runTask = "dialling"
      /\ dial # "none" => attempt < MaxAttempts
      /\ MaxAttempts \in Nat /\ attempt \in 0 .. MaxAttempts
      /\ error \in {"refused", "disconnected", "timeout", "oserror", "protocolError"}
  BY LifecycleAssumption DEF LInv, Phases, Transports, NoTransportLeak, TypeOK
<1>1. dial # "none" /\ enabled' = enabled
  BY DEF AttemptFails
<1>2. CASE client = "connecting"
  BY <1>0, <1>1, <1>2 DEF AttemptFails, GiveUp, CallbackInv
<1>3. CASE runTask = "dialling" /\ client # "connecting" /\ Retryable(error)
  <2>1. attempt' = attempt + 1 /\ enabled
    BY <1>0, <1>1, <1>3 DEF AttemptFails, CallbackInv
  <2>2. CASE OutOfAttempts(attempt')
    <3>1. runEnd' = error /\ runTask' = "notifying" /\ notified' = notified + 1
      BY <1>3, <2>2 DEF AttemptFails, GiveUp, Retryable, Reported
    <3>2. attempt' = MaxAttempts
      BY <1>0, <1>1, <2>1, <2>2 DEF OutOfAttempts
    <3> QED
      BY <1>3, <3>1, <3>2 DEF CallbackInv, GaveUp
  <2>3. CASE ~OutOfAttempts(attempt')
    <3>1. UNCHANGED <<runTask, runEnd, notified>> /\ attempt' < MaxAttempts
      BY <1>0, <1>3, <2>1, <2>3 DEF AttemptFails, OutOfAttempts
    <3> QED
      BY <1>1, <1>3, <3>1 DEF CallbackInv
  <2> QED
    BY <2>2, <2>3
<1>4. CASE runTask = "dialling" /\ client # "connecting" /\ ~Retryable(error)
  <2>1. attempt' = attempt /\ runEnd' = error /\ error \in {"refused", "disconnected", "protocolError"}
        /\ \/ error = "refused" /\ runTask' = "notifying" /\ notified' = notified + 1
           \/ error # "refused" /\ runTask' = "ended" /\ notified' = notified
    BY <1>0, <1>4 DEF AttemptFails, GiveUp, Retryable, Reported
  <2>2. enabled /\ attempt < MaxAttempts /\ notified = 0
    BY <1>4 DEF CallbackInv
  <2> QED
    BY <1>0, <1>1, <2>1, <2>2 DEF CallbackInv, GaveUp
<1> QED
  BY <1>0, <1>1, <1>2, <1>3, <1>4

\* The steps of the run loop on an established connection.
LEMMA LoopStep ==
    ASSUME LInv, CallbackInv, RunLoopStep
    PROVE  CallbackInv'
<1> USE LifecycleAssumption DEF CallbackInv, GaveUp, loopVars, dialVars
<1>0. attempt \in 0 .. MaxAttempts
  BY DEF LInv, NoTransportLeak, TypeOK
<1>1. ASSUME NEW s \in Subs, RestoreNext(s) PROVE CallbackInv'
  BY <1>1 DEF RestoreNext
<1>2. CASE Restored \/ AwaitProtocol \/ CallbackReturns \/ NotifySubscriptionFailure \/ CloseAndRedial
  BY <1>2 DEF Restored, AwaitProtocol, CallbackReturns, NotifySubscriptionFailure, CloseAndRedial
<1>3. CASE RestoreRejected \/ RestoreCancelled
  BY <1>0, <1>3 DEF RestoreRejected, RestoreCancelled, EndRun
<1>4. ASSUME NEW error \in LossErrors, NoticeLoss(error) PROVE CallbackInv'
  <2>1. error \in {"disconnected", "timeout", "oserror", "protocolError"}
    BY <1>4 DEF NoticeLoss, LossErrors
  <2> QED
    BY <1>0, <1>4, <2>1 DEF NoticeLoss, EndRun, Recoverable
<1> QED
  BY <1>1, <1>2, <1>3, <1>4 DEF RunLoopStep

\* Every step keeps the invariant.
LEMMA CallbackStep ==
    ASSUME LInv, CallbackInv, [Next]_vars
    PROVE  CallbackInv'
<1> USE DEF CallbackInv, GaveUp, loopVars, dialVars
<1>0. /\ client \in {"new", "connecting"} => runTask = "none"
      /\ dial # "none" => (client = "connecting" \/ runTask = "dialling") /\ attempt < MaxAttempts
  BY DEF LInv, Phases, Transports
<1>1. CASE Connect \/ Sleep \/ OpenTransport
  BY <1>0, <1>1 DEF Connect, Sleep, OpenTransport
<1>2. CASE Connack
  BY <1>0, <1>2 DEF Connack
<1>3. ASSUME NEW error \in DialErrors, AttemptFails(error) PROVE CallbackInv'
  BY <1>3, AttemptStep
<1>4. CASE RunLoopStep
  BY <1>4, LoopStep
<1>5. ASSUME NEW error \in LinkErrors, LoseLink(error) PROVE CallbackInv'
  BY <1>5 DEF LoseLink
<1>6. ASSUME NEW s \in Subs, \/ Start(s) \/ Stop(s) \/ SubStep(s) \/ GetMessage(s) \/ GetMessageReturns(s)
      PROVE  CallbackInv'
  BY <1>6 DEF Start, Stop, SubStep, Subscribed, StartFails, Stopped, GetMessage, GetMessageReturns
<1>7. CASE Leave \/ Exit \/ Disconnect \/ UNCHANGED vars
  BY <1>7 DEF Leave, Exit, Disconnect, vars
<1> QED
  BY <1>1, <1>2, <1>3, <1>4, <1>5, <1>6, <1>7 DEF Next, DialStep

(***************************************************************************)
(* Whatever the errors: when the run task has ended by itself,             *)
(* on_connection_recovery_failed was awaited if and only if the run loop   *)
(* gave up (the attempts used up, the connection refused, or reconnection  *)
(* disabled), once, and never before.  That the exceptions its except      *)
(* clauses do not name end it without the callback is part of the claim.   *)
(***************************************************************************)
THEOREM FailureIsNotified == Spec => []RecoveryFailureNotified
<1>1. LInv /\ CallbackInv => RecoveryFailureNotified
  BY DEF LInv, Phases, CallbackInv, RecoveryFailureNotified
<1> QED
  BY <1>1, CallbackInit, CallbackStep, InvariantL, PTL DEF Spec
=============================================================================
