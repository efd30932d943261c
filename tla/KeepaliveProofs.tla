-------------------------- MODULE KeepaliveProofs --------------------------
(***************************************************************************)
(* Theorems about ping() and the keepalive, for any number of pings and    *)
(* every way the connection may be lost.                                   *)
(***************************************************************************)
EXTENDS Keepalive, SequencesExt, SequenceTheorems, TLAPS

-----------------------------------------------------------------------------
(* What the operators on sequences that the model uses do, element by      *)
(* element.                                                                *)
\* A packet is written, or a future registered, behind the others.
LEMMA AppendAt ==
    ASSUME NEW S, NEW s \in Seq(S), NEW x \in S
    PROVE  /\ DOMAIN Append(s, x) = 1 .. Len(s) + 1 /\ DOMAIN s = 1 .. Len(s) /\ Len(s) \in Nat
           /\ \A n \in 1 .. Len(s) : Append(s, x)[n] = s[n]
           /\ Append(s, x)[Len(s) + 1] = x
  OBVIOUS

\* The first packet or future is taken.
LEMMA TailAt ==
    ASSUME NEW S, NEW s \in Seq(S), s # <<>>
    PROVE  /\ DOMAIN s = 1 .. Len(s) /\ Len(s) \in Nat \ {0} /\ Head(s) = s[1]
           /\ DOMAIN Tail(s) = 1 .. Len(s) - 1
           /\ \A n \in 1 .. Len(s) - 1 : Tail(s)[n] = s[n + 1]
  OBVIOUS

\* One in any place is taken out.
LEMMA RemoveAtAt ==
    ASSUME NEW S, NEW s \in Seq(S), NEW k \in DOMAIN s
    PROVE  /\ DOMAIN s = 1 .. Len(s) /\ Len(s) \in Nat
           /\ RemoveAt(s, k) \in Seq(S) /\ Len(RemoveAt(s, k)) = Len(s) - 1
           /\ DOMAIN RemoveAt(s, k) = 1 .. Len(s) - 1
           /\ \A n \in 1 .. Len(s) - 1 : RemoveAt(s, k)[n] = IF n < k THEN s[n] ELSE s[n + 1]
<1> DEFINE a == SubSeq(s, 1, k - 1)
           b == SubSeq(s, k + 1, Len(s))
<1>0. DOMAIN s = 1 .. Len(s) /\ Len(s) \in Nat /\ k \in 1 .. Len(s)
  OBVIOUS
<1>1. a \in Seq(S) /\ Len(a) = k - 1 /\ \A n \in 1 .. k - 1 : a[n] = s[n]
  OBVIOUS
<1>2. b \in Seq(S) /\ Len(b) = Len(s) - k /\ \A n \in 1 .. Len(s) - k : b[n] = s[n + k]
  OBVIOUS
<1>3. RemoveAt(s, k) = a \o b
  BY DEF RemoveAt
<1> HIDE DEF a, b
<1>4. /\ a \o b \in Seq(S) /\ Len(a \o b) = Len(s) - 1
      /\ \A n \in 1 .. Len(a) + Len(b) : (a \o b)[n] = IF n <= Len(a) THEN a[n] ELSE b[n - Len(a)]
  <2>1. a \in Seq(S) /\ b \in Seq(S)
    BY <1>1, <1>2
  <2>2. /\ a \o b \in Seq(S) /\ Len(a \o b) = Len(a) + Len(b)
        /\ \A n \in 1 .. Len(a) + Len(b) : (a \o b)[n] = IF n <= Len(a) THEN a[n] ELSE b[n - Len(a)]
    BY ONLY <2>1, ConcatProperties
  <2> QED
    BY <1>0, <1>1, <1>2, <2>2
<1>5. ASSUME NEW n \in 1 .. Len(s) - 1
      PROVE  (a \o b)[n] = IF n < k THEN s[n] ELSE s[n + 1]
  <2>0. n \in 1 .. Len(a) + Len(b) /\ n \in Nat
    BY <1>0, <1>1, <1>2
  <2>1. CASE n < k
    <3>1. n <= Len(a) /\ n \in 1 .. k - 1
      BY <1>0, <1>1, <2>0, <2>1
    <3> QED
      BY <1>1, <1>4, <2>0, <2>1, <3>1
  <2>2. CASE ~(n < k)
    <3>1. ~(n <= Len(a)) /\ n - Len(a) \in 1 .. Len(s) - k /\ (n - Len(a)) + k = n + 1
      BY <1>0, <1>1, <2>0, <2>2
    <3> QED
      BY <1>2, <1>4, <2>0, <2>2, <3>1
  <2> QED
    BY <2>1, <2>2
<1>6. DOMAIN (a \o b) = 1 .. Len(s) - 1
  BY <1>4, LenProperties
<1> QED
  BY <1>0, <1>3, <1>4, <1>5, <1>6

-----------------------------------------------------------------------------

Pinging == {"sending", "waiting", "expired"}

\* _ping_waiters holds each future once, and only futures that are not done.
ListOK ==
    /\ \A j, k \in DOMAIN waiters : waiters[j] = waiters[k] => j = k
    /\ \A k \in DOMAIN waiters : fut[waiters[k]] = "pending" /\ pc[waiters[k]] # "idle"

\* What is handled, on the wire or at the broker has been sent.
CountsOK ==
    /\ handled + onWire + atBroker <= sent
    /\ conn # "up" => atBroker = 0
    /\ conn = "reset" => onWire = 0

\* Whoever waits is in the list, until the end of run() has failed it.
WaiterOK(t) ==
    pc[t] \in Pinging /\ fut[t] = "pending" =>
        /\ run # "dead" => \E k \in DOMAIN waiters : waiters[k] = t
        /\ run = "dead" => began[t] = "dead"

KInv ==
    /\ EveryWaiterIsOwed
    /\ ListOK /\ CountsOK
    /\ \A t \in Tasks : WaiterOK(t)
    /\ \A t \in Tasks : pc[t] # "idle" /\ run # "dead" => began[t] # "dead"

(***************************************************************************)
(* As long as answers can be dispatched, the list is exactly the PINGREQs  *)
(* without an answer, in the order they were sent; it is enough that       *)
(* nobody gives up on an answer that is still coming.                      *)
(***************************************************************************)
AnswersComing == run = "running" /\ (conn = "up" \/ onWire > 0)

OrderOK ==
    AnswersComing =>
        /\ Len(waiters) = sent - handled
        /\ \A k \in DOMAIN waiters : asked[waiters[k]] = handled + k
        /\ \A t \in Tasks : pc[t] # "expired"

PongOK(t) ==
    /\ fut[t] = "answered" => answer[t] = asked[t]
    /\ outcome[t] = "ok" => fut[t] = "answered"

OrderInv == OrderOK /\ \A t \in Tasks : PongOK(t)

USE KeepaliveAssumption

\* Nobody has called and the connection is new.
LEMMA InitK == Init => KInv
  BY DEF Init, KInv, EveryWaiterIsOwed, TypeOK, ListOK, CountsOK, WaiterOK, Pinging, Tasks

\* The list is a sequence of tasks.
LEMMA ListType ==
    ASSUME KInv
    PROVE  /\ waiters \in Seq(Tasks) /\ DOMAIN waiters = 1 .. Len(waiters) /\ Len(waiters) \in Nat
           /\ \A k \in DOMAIN waiters : waiters[k] \in Tasks
<1>1. waiters \in Seq(Tasks)
  BY DEF KInv, EveryWaiterIsOwed, TypeOK
<1> QED
  BY <1>1

(***************************************************************************)
(* A step that changes neither the list nor a future.                      *)
(***************************************************************************)
LEMMA QuietK ==
    ASSUME KInv, TypeOK', UNCHANGED <<waiters, fut, began>>, CountsOK',
           \A t \in Tasks : /\ pc'[t] \in Pinging => pc[t] \in Pinging
                            /\ pc'[t] = "idle" => pc[t] = "idle" \/ fut[t] = "answered"
                            /\ pc[t] = "idle" => pc'[t] = "idle",
           run' = run \/ (run = "running" /\ run' = "failing"),
           conn' = "up" => conn = "up" /\ atBroker' + onWire' = atBroker + onWire
    PROVE  KInv'
<1>1. EveryWaiterIsOwed'
  BY DEF KInv, EveryWaiterIsOwed
<1>2. ListOK'
  BY ListType DEF KInv, ListOK
<1>3. \A t \in Tasks : WaiterOK(t)'
  BY DEF KInv, WaiterOK
<1>4. \A t \in Tasks : pc'[t] # "idle" /\ run' # "dead" => began'[t] # "dead"
  BY DEF KInv
<1> QED
  BY <1>1, <1>2, <1>3, <1>4 DEF KInv

\* How a ping ends.
LEMMA FinishK ==
    ASSUME KInv, NEW t \in Tasks, NEW out, Finish(t, out), Live(t), pc[t] \in Pinging,
           out \in {"ok", "timeout", "disconnected", "oserror", "cancelled", "valueError"}
    PROVE  /\ \E p \in {"idle", "done"} : pc' = [pc EXCEPT ![t] = p] /\ (p = "idle" => out = "ok")
           /\ outcome' = [outcome EXCEPT ![t] = out]
           /\ run' = run \/ (run = "running" /\ run' = "failing")
           /\ run' \in {"running", "failing", "dead"}
           /\ cause' \in {"none", "timeout", "disconnected", "oserror", "cancelled", "valueError"}
<1>1. \/ pc' = [pc EXCEPT ![t] = "idle"] /\ out = "ok" /\ UNCHANGED <<run, cause>>
      \/ pc' = [pc EXCEPT ![t] = "done"] /\ UNCHANGED <<run, cause>>
      \/ pc' = [pc EXCEPT ![t] = "done"] /\ t = PingLoop /\ run' = "failing" /\ cause' = out
  BY DEF Finish, FailLoop, loops
<1>2. t = PingLoop => run = "running"
  BY DEF Live
<1> QED
  BY <1>1, <1>2 DEF Finish, KInv, EveryWaiterIsOwed, TypeOK

\* A ping that goes on or ends, with its future left where it is.
LEMMA TaskK ==
    ASSUME KInv, NEW t \in Tasks, Drained(t) \/ SendFails(t) \/ Resume(t) \/ Expire(t) \/ Cancel(t)
    PROVE  KInv'
<1>1. UNCHANGED <<waiters, fut, conn, atBroker, onWire, sent, handled, asked, answer, began>>
  BY DEF Drained, SendFails, Resume, Expire, Cancel, net, history
<1>2. /\ pc[t] \in Pinging
      /\ \E p \in {"waiting", "expired", "idle", "done"} :
            pc' = [pc EXCEPT ![t] = p] /\ (p = "idle" => fut[t] = "answered")
      /\ outcome' = outcome \/ \E out \in {"ok", "timeout", "disconnected", "oserror", "cancelled", "valueError"} :
                                  outcome' = [outcome EXCEPT ![t] = out]
      /\ run' = run \/ (run = "running" /\ run' = "failing")
      /\ run' \in {"running", "failing", "dead"}
      /\ cause' \in {"none", "timeout", "disconnected", "oserror", "cancelled", "valueError"}
  <2>1. CASE Drained(t) \/ Expire(t)
    BY <2>1 DEF Drained, Expire, Pinging, loops, KInv, EveryWaiterIsOwed, TypeOK
  <2>2. CASE SendFails(t)
    <3>1. pc[t] \in Pinging /\ Finish(t, "oserror") /\ Live(t)
      BY <2>2 DEF SendFails, Pinging
    <3> QED
      BY <3>1, FinishK
  <2>3. CASE Cancel(t)
    <3>1. pc[t] \in Pinging /\ Finish(t, "cancelled") /\ Live(t)
      BY <2>3 DEF Cancel, Pinging, Live
    <3> QED
      BY <3>1, FinishK
  <2>4. CASE Resume(t)
    <3>1. PICK out \in {"ok", "disconnected"} : Finish(t, out) /\ (out = "ok" => fut[t] = "answered")
      BY <2>4 DEF Resume
    <3>2. pc[t] \in Pinging /\ Live(t)
      BY <2>4 DEF Resume, Pinging
    <3> QED
      BY <3>1, <3>2, FinishK
  <2> QED
    BY <2>1, <2>2, <2>3, <2>4
<1>3. TypeOK'
  <2>1. pc' \in [Tasks -> {"idle", "sending", "waiting", "expired", "done"}]
    BY <1>2 DEF KInv, EveryWaiterIsOwed, TypeOK
  <2>2. outcome' \in [Tasks -> {"none", "ok", "timeout", "disconnected", "oserror", "cancelled", "valueError"}]
    BY <1>2 DEF KInv, EveryWaiterIsOwed, TypeOK
  <2> QED
    BY <1>1, <1>2, <2>1, <2>2 DEF KInv, EveryWaiterIsOwed, TypeOK
<1>4. CountsOK'
  BY <1>1 DEF KInv, CountsOK
<1>5. \A q \in Tasks : /\ pc'[q] \in Pinging => pc[q] \in Pinging
                       /\ pc'[q] = "idle" => pc[q] = "idle" \/ fut[q] = "answered"
                       /\ pc[q] = "idle" => pc'[q] = "idle"
  BY <1>2 DEF KInv, EveryWaiterIsOwed, TypeOK, Pinging
<1> QED
  BY <1>1, <1>2, <1>3, <1>4, <1>5, QuietK

\* Losing a connection only takes pings and answers out of the network.
LEMMA SumShrinks ==
    ASSUME NEW a \in Nat, NEW b \in Nat, NEW c \in Nat, c <= b
    PROVE  0 + c <= a + b
OBVIOUS

\* The network, the end of the loops, and nothing at all.
LEMMA NetK ==
    ASSUME KInv, \/ BrokerAnswers \/ LoseConnection \/ TcpGivesUp \/ ReadEof \/ CancelRun \/ CloseTransport
                 \/ UNCHANGED vars
    PROVE  KInv'
<1>0. atBroker \in Nat /\ onWire \in Nat /\ sent \in Nat /\ handled \in Nat
  BY DEF KInv, EveryWaiterIsOwed, TypeOK
<1>1. UNCHANGED <<waiters, fut, pc, outcome, sent, handled, asked, answer, began>>
  BY DEF BrokerAnswers, LoseConnection, TcpGivesUp, ReadEof, CancelRun, CloseTransport, vars, calls, history
<1>2. /\ atBroker' \in Nat /\ onWire' \in Nat /\ conn' \in {"up", "closed", "reset", "silent"}
      /\ atBroker' + onWire' <= atBroker + onWire
      /\ conn' # "up" => atBroker' = 0
      /\ conn' = "reset" => onWire' = 0
      /\ conn' = "up" => conn = "up" /\ atBroker' + onWire' = atBroker + onWire
  <2>0. /\ conn # "up" => atBroker = 0
        /\ conn = "reset" => onWire = 0
        /\ conn \in {"up", "closed", "reset", "silent"}
    BY DEF KInv, CountsOK, EveryWaiterIsOwed, TypeOK
  <2>1. CASE BrokerAnswers
    BY <1>0, <2>0, <2>1 DEF BrokerAnswers
  <2>2. CASE LoseConnection
    <3>1. conn' \in {"closed", "reset", "silent"} /\ atBroker' = 0
      BY <2>2 DEF LoseConnection
    <3>2. onWire' \in 0 .. onWire /\ (conn' = "reset" => onWire' = 0)
      BY <1>0, <2>2 DEF LoseConnection
    <3>3. onWire' \in Nat /\ onWire' <= onWire /\ atBroker' = 0
      BY <1>0, <3>1, <3>2
    <3>4. atBroker' + onWire' <= atBroker + onWire
      BY <1>0, <3>3, SumShrinks
    <3> QED
      BY <3>1, <3>2, <3>3, <3>4
  <2>3. CASE TcpGivesUp \/ CloseTransport
    BY <1>0, <2>0, <2>3 DEF TcpGivesUp, CloseTransport
  <2>4. CASE ReadEof \/ CancelRun \/ UNCHANGED vars
    BY <1>0, <2>0, <2>4 DEF ReadEof, CancelRun, vars, net
  <2> QED
    BY <2>1, <2>2, <2>3, <2>4
<1>3. /\ run' = run \/ (run = "running" /\ run' = "failing")
      /\ run' \in {"running", "failing", "dead"}
      /\ cause' \in {"none", "timeout", "disconnected", "oserror", "cancelled", "valueError"}
  BY DEF BrokerAnswers, LoseConnection, TcpGivesUp, ReadEof, CancelRun, CloseTransport, FailLoop, vars, loops,
         KInv, EveryWaiterIsOwed, TypeOK
<1>4. TypeOK'
  BY <1>1, <1>2, <1>3 DEF KInv, EveryWaiterIsOwed, TypeOK
<1>5. CountsOK'
  BY <1>0, <1>1, <1>2 DEF KInv, CountsOK
<1> QED
  BY <1>1, <1>2, <1>3, <1>4, <1>5, QuietK

\* A new ping: its future is the last of the list.
LEMMA PingK ==
    ASSUME KInv, NEW t \in Tasks, Ping(t)
    PROVE  KInv'
<1>0. /\ atBroker \in Nat /\ onWire \in Nat /\ sent \in Nat /\ handled \in 0 .. sent
      /\ asked \in [Tasks -> 0 .. sent] /\ answer \in [Tasks -> 0 .. handled]
  BY DEF KInv, EveryWaiterIsOwed, TypeOK
<1>1. /\ pc[t] = "idle" /\ waiters' = Append(waiters, t) /\ fut' = [fut EXCEPT ![t] = "pending"]
      /\ outcome' = [outcome EXCEPT ![t] = "none"]
      /\ \E p \in {"sending", "waiting"} : pc' = [pc EXCEPT ![t] = p]
      /\ atBroker' = IF conn = "up" THEN atBroker + 1 ELSE atBroker
      /\ sent' = sent + 1 /\ asked' = [asked EXCEPT ![t] = sent + 1]
      /\ answer' = [answer EXCEPT ![t] = 0] /\ began' = [began EXCEPT ![t] = run]
      /\ UNCHANGED <<conn, onWire, run, cause, handled>>
  BY DEF Ping, loops
<1>2. /\ DOMAIN waiters' = 1 .. Len(waiters) + 1 /\ DOMAIN waiters = 1 .. Len(waiters) /\ Len(waiters) \in Nat
      /\ \A n \in 1 .. Len(waiters) : waiters'[n] = waiters[n]
      /\ waiters'[Len(waiters) + 1] = t
      /\ waiters' \in Seq(Tasks) /\ Len(waiters') = Len(waiters) + 1
  <2>1. waiters \in Seq(Tasks)
    BY ListType
  <2> QED
    BY <1>1, <2>1, AppendAt
<1>3. \A k \in 1 .. Len(waiters) : waiters[k] \in Tasks \ {t}
  BY <1>1, <1>2, ListType DEF KInv, ListOK
<1>4. TypeOK'
  <2>1. asked' \in [Tasks -> 0 .. sent'] /\ answer' \in [Tasks -> 0 .. handled'] /\ handled' \in 0 .. sent'
    BY <1>0, <1>1
  <2> QED
    BY <1>0, <1>1, <1>2, <2>1 DEF KInv, EveryWaiterIsOwed, TypeOK
<1>5. EveryWaiterIsOwed'
  BY <1>0, <1>1, <1>2, <1>4 DEF KInv, EveryWaiterIsOwed
<1>6. CountsOK'
  BY <1>0, <1>1 DEF KInv, CountsOK
<1>7. \A k \in DOMAIN waiters' : k \in 1 .. Len(waiters) \/ k = Len(waiters) + 1
  BY <1>2
<1>8. \A q \in Tasks \ {t} : fut'[q] = fut[q] /\ pc'[q] = pc[q] /\ began'[q] = began[q]
  BY <1>1 DEF KInv, EveryWaiterIsOwed, TypeOK
<1>9. fut'[t] = "pending" /\ pc'[t] \in {"sending", "waiting"} /\ began'[t] = run
  BY <1>1 DEF KInv, EveryWaiterIsOwed, TypeOK
<1>10. ListOK'
  <2>1. ASSUME NEW j \in DOMAIN waiters', NEW k \in DOMAIN waiters', waiters'[j] = waiters'[k]
        PROVE  j = k
    BY <1>2, <1>3, <1>7, <2>1 DEF KInv, ListOK
  <2>2. ASSUME NEW k \in DOMAIN waiters'
        PROVE  fut'[waiters'[k]] = "pending" /\ pc'[waiters'[k]] # "idle"
    BY <1>2, <1>3, <1>7, <1>8, <1>9 DEF KInv, ListOK
  <2> QED
    BY <2>1, <2>2 DEF ListOK
<1>11. ASSUME NEW q \in Tasks
       PROVE  WaiterOK(q)'
  <2>1. CASE q = t
    <3>1. Len(waiters) + 1 \in DOMAIN waiters'
      BY <1>2
    <3> QED
      BY <1>1, <1>2, <1>9, <2>1, <3>1 DEF WaiterOK
  <2>2. CASE q # t
    <3>1. \A k \in DOMAIN waiters : k \in DOMAIN waiters' /\ waiters'[k] = waiters[k]
      BY <1>2
    <3>2. WaiterOK(q)
      BY DEF KInv
    <3> QED
      BY <1>1, <1>8, <2>2, <3>1, <3>2 DEF WaiterOK
  <2> QED
    BY <2>1, <2>2
<1>12. \A q \in Tasks : pc'[q] # "idle" /\ run' # "dead" => began'[q] # "dead"
  BY <1>1, <1>8, <1>9 DEF KInv
<1> QED
  BY <1>5, <1>6, <1>10, <1>11, <1>12 DEF KInv

\* A ping that timed out takes its future off the list, if it is still there.
LEMMA TimedOutK ==
    ASSUME KInv, NEW t \in Tasks, TimedOut(t)
    PROVE  KInv'
<1>0. /\ UNCHANGED <<fut, conn, atBroker, onWire, sent, handled, asked, answer, began>>
      /\ pc[t] \in Pinging /\ Live(t)
  BY DEF TimedOut, net, history, Pinging
<1>1. PICK out \in {"timeout", "valueError"} : Finish(t, out)
  BY DEF TimedOut
<1>2. /\ pc' = [pc EXCEPT ![t] = "done"] /\ outcome' = [outcome EXCEPT ![t] = out]
      /\ run' = run \/ (run = "running" /\ run' = "failing")
      /\ run' \in {"running", "failing", "dead"}
      /\ cause' \in {"none", "timeout", "disconnected", "oserror", "cancelled", "valueError"}
  BY <1>0, <1>1, FinishK
<1>3. CountsOK'
  BY <1>0 DEF KInv, CountsOK
<1>4. \A q \in Tasks \ {t} : pc'[q] = pc[q]
  BY <1>2 DEF KInv, EveryWaiterIsOwed, TypeOK
<1>5. pc'[t] = "done"
  BY <1>2 DEF KInv, EveryWaiterIsOwed, TypeOK
<1>6. waiters' \in Seq(Tasks) => TypeOK'
  <2>1. pc' \in [Tasks -> {"idle", "sending", "waiting", "expired", "done"}]
    BY <1>2 DEF KInv, EveryWaiterIsOwed, TypeOK
  <2>2. outcome' \in [Tasks -> {"none", "ok", "timeout", "disconnected", "oserror", "cancelled", "valueError"}]
    BY <1>2 DEF KInv, EveryWaiterIsOwed, TypeOK
  <2> QED
    BY <1>0, <1>2, <2>1, <2>2 DEF KInv, EveryWaiterIsOwed, TypeOK
<1>7. CASE waiters' = waiters
  <2>1. TypeOK'
    BY <1>6, <1>7, ListType
  <2>2. \A q \in Tasks : /\ pc'[q] \in Pinging => pc[q] \in Pinging
                         /\ pc'[q] = "idle" => pc[q] = "idle" \/ fut[q] = "answered"
                         /\ pc[q] = "idle" => pc'[q] = "idle"
    BY <1>0, <1>4, <1>5 DEF Pinging
  <2> QED
    BY <1>0, <1>2, <1>3, <1>7, <2>1, <2>2, QuietK
<1>8. ASSUME NEW k \in DOMAIN waiters, waiters[k] = t, waiters' = RemoveAt(waiters, k)
      PROVE  KInv'
  <2>1. /\ DOMAIN waiters = 1 .. Len(waiters) /\ Len(waiters) \in Nat
        /\ waiters' \in Seq(Tasks) /\ Len(waiters') = Len(waiters) - 1
        /\ DOMAIN waiters' = 1 .. Len(waiters) - 1
        /\ \A n \in 1 .. Len(waiters) - 1 : waiters'[n] = IF n < k THEN waiters[n] ELSE waiters[n + 1]
    BY <1>8, ListType, RemoveAtAt
  <2>2. EveryWaiterIsOwed'
    <3>1. Len(waiters') <= Len(waiters)
      BY <2>1
    <3>2. atBroker \in Nat /\ onWire \in Nat
      BY DEF KInv, EveryWaiterIsOwed, TypeOK
    <3> QED
      BY <1>0, <1>2, <1>6, <2>1, <3>1, <3>2 DEF KInv, EveryWaiterIsOwed
  <2>3. PICK old \in [DOMAIN waiters' -> DOMAIN waiters] :
           /\ \A n \in DOMAIN waiters' : waiters'[n] = waiters[old[n]]
           /\ \A m, n \in DOMAIN waiters' : old[m] = old[n] => m = n
           /\ \A m \in DOMAIN waiters \ {k} : \E n \in DOMAIN waiters' : old[n] = m
    <3> DEFINE f == [n \in 1 .. Len(waiters) - 1 |-> IF n < k THEN n ELSE n + 1]
    <3>1. f \in [DOMAIN waiters' -> DOMAIN waiters]
      BY <2>1
    <3>2. \A n \in DOMAIN waiters' : waiters'[n] = waiters[f[n]]
      BY <2>1
    <3>3. \A m, n \in DOMAIN waiters' : f[m] = f[n] => m = n
      BY <2>1
    <3>4. ASSUME NEW m \in DOMAIN waiters \ {k}
          PROVE  \E n \in DOMAIN waiters' : f[n] = m
      <4>1. CASE m < k
        <5>1. m \in DOMAIN waiters' /\ f[m] = m
          BY <2>1, <4>1
        <5> QED
          BY <5>1
      <4>2. CASE m > k
        <5>1. m - 1 \in DOMAIN waiters' /\ f[m - 1] = m
          BY <2>1, <4>2
        <5> QED
          BY <5>1
      <4> QED
        BY <2>1, <4>1, <4>2
    <3> HIDE DEF f
    <3> QED
      BY <3>1, <3>2, <3>3, <3>4
  <2>4. ListOK'
    <3>1. \A n \in DOMAIN waiters' : old[n] \in DOMAIN waiters /\ waiters[old[n]] \in Tasks
      BY <2>3, ListType
    <3>2. \A n \in DOMAIN waiters' : fut'[waiters'[n]] = "pending" /\ pc'[waiters'[n]] # "idle"
      BY <1>0, <1>4, <1>5, <2>3, <3>1 DEF KInv, ListOK
    <3>3. \A m, n \in DOMAIN waiters' : waiters'[m] = waiters'[n] => m = n
      BY <2>3, <3>1 DEF KInv, ListOK
    <3> QED
      BY <3>2, <3>3 DEF ListOK
  <2>5. ASSUME NEW q \in Tasks
        PROVE  WaiterOK(q)'
    <3>1. CASE q = t
      BY <1>5, <3>1 DEF WaiterOK, Pinging
    <3>2. CASE q # t
      <4>1. (\E m \in DOMAIN waiters : waiters[m] = q) => \E n \in DOMAIN waiters' : waiters'[n] = q
        BY <1>8, <2>3, <3>2
      <4>2. WaiterOK(q) /\ pc'[q] = pc[q]
        BY <1>4, <3>2 DEF KInv
      <4> QED
        BY <1>0, <1>2, <4>1, <4>2 DEF WaiterOK
    <3> QED
      BY <3>1, <3>2
  <2>6. \A q \in Tasks : pc'[q] # "idle" /\ run' # "dead" => began'[q] # "dead"
    BY <1>0, <1>2, <1>4 DEF KInv, Pinging
  <2> QED
    BY <1>3, <2>2, <2>4, <2>5, <2>6 DEF KInv
<1> QED
  BY <1>7, <1>8 DEF TimedOut

\* PINGRESP resolves the first future of the list.
LEMMA PingrespK ==
    ASSUME KInv, HandlePingresp
    PROVE  KInv'
<1>0. /\ atBroker \in Nat /\ onWire \in Nat \ {0} /\ sent \in Nat /\ handled \in 0 .. sent
      /\ asked \in [Tasks -> 0 .. sent] /\ answer \in [Tasks -> 0 .. handled]
      /\ handled + onWire + atBroker <= sent
  BY DEF KInv, EveryWaiterIsOwed, TypeOK, CountsOK, HandlePingresp
<1>1. /\ onWire' = onWire - 1 /\ handled' = handled + 1 /\ run = "running"
      /\ UNCHANGED <<pc, outcome, conn, atBroker, run, cause, sent, asked, began>>
  BY DEF HandlePingresp, loops
<1>2. handled' \in 0 .. sent /\ onWire' \in Nat /\ 0 .. handled \subseteq 0 .. handled'
  BY <1>0, <1>1
<1>3. CountsOK'
  BY <1>0, <1>1, <1>2 DEF KInv, CountsOK
<1>4. CASE waiters = <<>>
  <2>1. UNCHANGED <<waiters, fut, answer>>
    BY <1>4 DEF HandlePingresp
  <2>2. TypeOK'
    <3>1. answer' \in [Tasks -> 0 .. handled']
      BY <1>0, <1>2, <2>1
    <3> QED
      BY <1>1, <1>2, <2>1, <3>1 DEF KInv, EveryWaiterIsOwed, TypeOK
  <2>3. EveryWaiterIsOwed'
    BY <1>0, <1>1, <1>2, <1>4, <2>1, <2>2 DEF EveryWaiterIsOwed
  <2> QED
    BY <1>1, <1>3, <2>1, <2>3 DEF KInv, ListOK, WaiterOK
<1>5. CASE waiters # <<>>
  <2>0. /\ DOMAIN waiters = 1 .. Len(waiters) /\ Len(waiters) \in Nat \ {0} /\ Head(waiters) = waiters[1]
        /\ DOMAIN Tail(waiters) = 1 .. Len(waiters) - 1
        /\ \A n \in 1 .. Len(waiters) - 1 : Tail(waiters)[n] = waiters[n + 1]
        /\ Tail(waiters) \in Seq(Tasks) /\ Len(Tail(waiters)) = Len(waiters) - 1
    <3>1. waiters \in Seq(Tasks)
      BY ListType
    <3> QED
      BY <1>5, <3>1, TailAt
  <2>1. PICK t \in Tasks : t = Head(waiters)
    BY <2>0, ListType
  <2>2. /\ waiters' = Tail(waiters) /\ fut' = [fut EXCEPT ![t] = "answered"]
        /\ answer' = [answer EXCEPT ![t] = handled + 1]
    BY <1>5, <2>1 DEF HandlePingresp
  <2>3. TypeOK'
    <3>1. answer' \in [Tasks -> 0 .. handled']
      BY <1>0, <1>1, <1>2, <2>2
    <3>2. fut' \in [Tasks -> {"none", "pending", "answered", "failed"}]
      BY <2>2 DEF KInv, EveryWaiterIsOwed, TypeOK
    <3>3. waiters' \in Seq(Tasks)
      BY <2>0, <2>2
    <3> QED
      BY <1>1, <1>2, <3>1, <3>2, <3>3 DEF KInv, EveryWaiterIsOwed, TypeOK
  <2>4. EveryWaiterIsOwed'
    <3>1. Len(waiters') = Len(waiters) - 1
      BY <2>0, <2>2
    <3>2. conn = "up" => Len(waiters) <= atBroker + onWire
      BY <1>1 DEF KInv, EveryWaiterIsOwed
    <3>3. conn = "up" => Len(waiters') <= atBroker + onWire'
      BY <1>0, <1>1, <2>0, <3>1, <3>2
    <3> QED
      BY <1>1, <2>3, <3>3 DEF EveryWaiterIsOwed
  <2>5. \A q \in Tasks \ {t} : fut'[q] = fut[q]
    BY <2>2 DEF KInv, EveryWaiterIsOwed, TypeOK
  <2>6. ASSUME NEW n \in DOMAIN waiters'
        PROVE  n + 1 \in DOMAIN waiters /\ waiters'[n] = waiters[n + 1] /\ waiters'[n] \in Tasks \ {t}
    <3>1. n + 1 \in DOMAIN waiters /\ n + 1 # 1 /\ waiters'[n] = waiters[n + 1] /\ 1 \in DOMAIN waiters
      BY <2>0, <2>2
    <3> QED
      BY <2>0, <2>1, <3>1, ListType DEF KInv, ListOK
  <2>7. ListOK'
    <3>1. \A n \in DOMAIN waiters' : fut'[waiters'[n]] = "pending" /\ pc'[waiters'[n]] # "idle"
      BY <1>1, <2>5, <2>6 DEF KInv, ListOK
    <3>2. ASSUME NEW m \in DOMAIN waiters', NEW n \in DOMAIN waiters', waiters'[m] = waiters'[n]
          PROVE  m = n
      <4>1. m + 1 = n + 1
        BY <2>6, <3>2 DEF KInv, ListOK
      <4>2. m \in Int /\ n \in Int
        BY <2>0, <2>2
      <4> QED
        BY <4>1, <4>2
    <3> QED
      BY <3>1, <3>2 DEF ListOK
  <2>8. ASSUME NEW q \in Tasks
        PROVE  WaiterOK(q)'
    <3>1. CASE q = t
      <4>1. fut'[t] = "answered"
        BY <2>2 DEF KInv, EveryWaiterIsOwed, TypeOK
      <4> QED
        BY <3>1, <4>1 DEF WaiterOK
    <3>2. CASE q # t
      <4>1. ASSUME NEW m \in DOMAIN waiters, waiters[m] = q
            PROVE  \E n \in DOMAIN waiters' : waiters'[n] = q
        <5>1. m # 1
          BY <2>0, <2>1, <3>2, <4>1
        <5>2. m - 1 \in DOMAIN waiters' /\ waiters'[m - 1] = waiters[m]
          BY <2>0, <2>2, <5>1
        <5> QED
          BY <4>1, <5>2
      <4>2. WaiterOK(q) /\ fut'[q] = fut[q]
        BY <2>5, <3>2 DEF KInv
      <4> QED
        BY <1>1, <4>1, <4>2 DEF WaiterOK
    <3> QED
      BY <3>1, <3>2
  <2> QED
    BY <1>1, <1>3, <2>4, <2>7, <2>8 DEF KInv
<1> QED
  BY <1>4, <1>5

\* _cancel_pending fails every future of the list and empties it.
LEMMA TeardownK ==
    ASSUME KInv, Teardown
    PROVE  KInv'
<1>1. /\ run = "failing" /\ run' = "dead" /\ pc' = [pc EXCEPT ![PingLoop] = "done"] /\ waiters' = <<>>
      /\ UNCHANGED <<outcome, conn, atBroker, onWire, cause, sent, handled, asked, answer, began>>
  BY DEF Teardown, net, history
<1>2. \A t \in Tasks : fut'[t] = IF Contains(waiters, t) /\ fut[t] = "pending" THEN "failed" ELSE fut[t]
  BY DEF Teardown
<1>3. TypeOK'
  <2>1. fut' \in [Tasks -> {"none", "pending", "answered", "failed"}]
    BY DEF Teardown, KInv, EveryWaiterIsOwed, TypeOK
  <2>2. pc' \in [Tasks -> {"idle", "sending", "waiting", "expired", "done"}]
    BY <1>1 DEF KInv, EveryWaiterIsOwed, TypeOK
  <2> QED
    BY <1>1, <2>1, <2>2 DEF KInv, EveryWaiterIsOwed, TypeOK
<1>4. EveryWaiterIsOwed'
  BY <1>1, <1>3 DEF EveryWaiterIsOwed
<1>5. ListOK' /\ CountsOK'
  BY <1>1 DEF ListOK, CountsOK, KInv
<1>6. ASSUME NEW t \in Tasks
      PROVE  WaiterOK(t)'
  <2>1. pc'[t] = pc[t] \/ pc'[t] = "done"
    BY <1>1 DEF KInv, EveryWaiterIsOwed, TypeOK
  <2>2. (\E k \in DOMAIN waiters : waiters[k] = t) => Contains(waiters, t)
    BY ListType DEF Contains
  <2>3. WaiterOK(t)
    BY DEF KInv
  <2> QED
    BY <1>1, <1>2, <2>1, <2>2, <2>3 DEF WaiterOK, Pinging
<1> QED
  BY <1>1, <1>4, <1>5, <1>6 DEF KInv

\* Every step keeps the invariant.
LEMMA NextK == KInv /\ [Next]_vars => KInv'
<1> SUFFICES ASSUME KInv, [Next]_vars
             PROVE  KInv'
  OBVIOUS
<1>1. ASSUME NEW t \in Pingers, Ping(t) \/ Cancel(t)
      PROVE  KInv'
  BY <1>1, PingK, TaskK DEF Tasks
<1>2. CASE KeepalivePing
  BY <1>2, PingK DEF KeepalivePing, Tasks
<1>3. ASSUME NEW t \in Tasks, TaskStep(t) \/ Expire(t)
      PROVE  KInv'
  BY <1>3, TaskK, TimedOutK DEF TaskStep
<1>4. CASE \/ BrokerAnswers \/ LoseConnection \/ TcpGivesUp \/ ReadEof \/ CancelRun \/ CloseTransport
           \/ UNCHANGED vars
  BY <1>4, NetK
<1>5. CASE HandlePingresp \/ Teardown
  BY <1>5, PingrespK, TeardownK
<1> QED
  BY <1>1, <1>2, <1>3, <1>4, <1>5 DEF Next

\* The invariant holds of every reachable state.
LEMMA SpecK == Spec => []KInv
  BY InitK, NextK, PTL DEF Spec

(***************************************************************************)
(* While the connection works, _ping_waiters is never longer than what the *)
(* broker owes, whatever pings were cancelled, timed out or overtaken by   *)
(* their timers.                                                           *)
(***************************************************************************)
THEOREM WaitersAreOwed == Spec => []EveryWaiterIsOwed
  BY SpecK, PTL DEF KInv

(***************************************************************************)
(* Once run() has ended no ping that began before is left waiting for a    *)
(* future that nothing will resolve.                                       *)
(***************************************************************************)
THEOREM PingsAreFailed == Spec => []TeardownFailsPings
<1>1. KInv => TeardownFailsPings
  BY DEF KInv, WaiterOK, Pinging, TeardownFailsPings, Tasks
<1> QED
  BY <1>1, SpecK, PTL

-----------------------------------------------------------------------------
(* Each ping gets its own answer.                                          *)

\* Nobody waits.
LEMMA InitOrder == Init => OrderInv
  BY DEF Init, OrderInv, OrderOK, PongOK, Tasks

(***************************************************************************)
(* A step after which nothing new is answered: either the list and the     *)
(* counters stay, or no answer is dispatched any more.                     *)
(***************************************************************************)
LEMMA QuietOrder ==
    ASSUME KInv, OrderInv, UNCHANGED <<fut, asked, answer>>,
           AnswersComing' => AnswersComing /\ UNCHANGED <<waiters, sent, handled>>
                             /\ \A t \in Tasks : pc'[t] = "expired" => pc[t] = "expired",
           \A t \in Tasks : outcome'[t] = "ok" => outcome[t] = "ok" \/ fut[t] = "answered"
    PROVE  OrderInv'
<1>1. OrderOK'
  BY DEF OrderInv, OrderOK
<1>2. \A t \in Tasks : PongOK(t)'
  BY DEF OrderInv, PongOK
<1> QED
  BY <1>1, <1>2 DEF OrderInv

\* A ping that goes on or ends.
LEMMA TaskOrder ==
    ASSUME ~Slow, KInv, OrderInv, NEW t \in Tasks, TaskStep(t) \/ Expire(t) \/ Cancel(t)
    PROVE  OrderInv'
<1>0. UNCHANGED <<fut, conn, atBroker, onWire, sent, handled, asked, answer>>
  BY DEF TaskStep, Drained, SendFails, Resume, TimedOut, Expire, Cancel, net, history
<1>1. run' = "running" => run = "running"
  BY DEF TaskStep, Drained, SendFails, Resume, TimedOut, Expire, Cancel, Finish, FailLoop, loops
<1>2. \A q \in Tasks : outcome'[q] = "ok" => outcome[q] = "ok" \/ fut[q] = "answered"
  BY DEF TaskStep, Drained, SendFails, Resume, TimedOut, Expire, Cancel, Finish, KInv, EveryWaiterIsOwed, TypeOK
<1>3. CASE TimedOut(t)
  <2>1. ~AnswersComing
    BY <1>3 DEF TimedOut, OrderInv, OrderOK
  <2> QED
    BY <1>0, <1>1, <1>2, <2>1, QuietOrder DEF AnswersComing
<1>4. CASE Expire(t)
  <2>1. ~AnswersComing
    BY <1>4 DEF Expire, MayExpire, AnswersComing, KInv, EveryWaiterIsOwed, TypeOK
  <2> QED
    BY <1>0, <1>1, <1>2, <2>1, QuietOrder DEF AnswersComing
<1>5. CASE Drained(t) \/ SendFails(t) \/ Resume(t) \/ Cancel(t)
  <2>1. waiters' = waiters /\ \A q \in Tasks : pc'[q] = "expired" => pc[q] = "expired"
    BY <1>5 DEF Drained, SendFails, Resume, Cancel, Finish, KInv, EveryWaiterIsOwed, TypeOK
  <2> QED
    BY <1>0, <1>1, <1>2, <2>1, QuietOrder DEF AnswersComing
<1> QED
  BY <1>3, <1>4, <1>5 DEF TaskStep

\* A new ping is the last to be answered.
LEMMA PingOrder ==
    ASSUME KInv, OrderInv, NEW t \in Tasks, Ping(t)
    PROVE  OrderInv'
<1>0. sent \in Nat /\ handled \in Nat /\ handled <= sent
  BY DEF KInv, EveryWaiterIsOwed, TypeOK
<1>1. /\ pc[t] = "idle" /\ waiters' = Append(waiters, t) /\ fut' = [fut EXCEPT ![t] = "pending"]
      /\ outcome' = [outcome EXCEPT ![t] = "none"]
      /\ \E p \in {"sending", "waiting"} : pc' = [pc EXCEPT ![t] = p]
      /\ sent' = sent + 1 /\ asked' = [asked EXCEPT ![t] = sent + 1]
      /\ answer' = [answer EXCEPT ![t] = 0]
      /\ UNCHANGED <<conn, onWire, run, handled>>
  BY DEF Ping, loops
<1>2. /\ DOMAIN waiters' = 1 .. Len(waiters) + 1 /\ DOMAIN waiters = 1 .. Len(waiters) /\ Len(waiters) \in Nat
      /\ \A n \in 1 .. Len(waiters) : waiters'[n] = waiters[n]
      /\ waiters'[Len(waiters) + 1] = t /\ Len(waiters') = Len(waiters) + 1
  <2>1. waiters \in Seq(Tasks)
    BY ListType
  <2> QED
    BY <1>1, <2>1, AppendAt
<1>3. \A k \in 1 .. Len(waiters) : waiters[k] \in Tasks \ {t}
  BY <1>1, <1>2, ListType DEF KInv, ListOK
<1>4. \A q \in Tasks \ {t} : /\ asked'[q] = asked[q] /\ answer'[q] = answer[q] /\ fut'[q] = fut[q]
                             /\ outcome'[q] = outcome[q] /\ pc'[q] = pc[q]
  BY <1>1 DEF KInv, EveryWaiterIsOwed, TypeOK
<1>5. asked'[t] = sent + 1 /\ fut'[t] = "pending" /\ outcome'[t] = "none" /\ pc'[t] # "expired"
  BY <1>1 DEF KInv, EveryWaiterIsOwed, TypeOK
<1>6. ASSUME AnswersComing'
      PROVE  /\ Len(waiters') = sent' - handled'
             /\ \A k \in DOMAIN waiters' : asked'[waiters'[k]] = handled' + k
             /\ \A q \in Tasks : pc'[q] # "expired"
  <2>0. AnswersComing
    BY <1>1, <1>6 DEF AnswersComing
  <2>1. /\ Len(waiters) = sent - handled
        /\ \A k \in DOMAIN waiters : asked[waiters[k]] = handled + k
        /\ \A q \in Tasks : pc[q] # "expired"
    BY <2>0 DEF OrderInv, OrderOK
  <2>2. Len(waiters') = sent' - handled'
    BY <1>0, <1>1, <1>2, <2>1
  <2>3. ASSUME NEW k \in DOMAIN waiters'
        PROVE  asked'[waiters'[k]] = handled' + k
    <3>1. CASE k \in 1 .. Len(waiters)
      BY <1>1, <1>2, <1>3, <1>4, <2>1, <3>1
    <3>2. CASE k = Len(waiters) + 1
      <4>1. asked'[waiters'[k]] = sent + 1
        BY <1>2, <1>5, <3>2
      <4>2. handled + k = sent + 1
        BY <1>0, <1>2, <2>1, <3>2
      <4> QED
        BY <1>1, <4>1, <4>2
    <3> QED
      BY <1>2, <3>1, <3>2
  <2>4. \A q \in Tasks : pc'[q] # "expired"
    BY <1>4, <1>5, <2>1
  <2> QED
    BY <2>2, <2>3, <2>4
<1>7. \A q \in Tasks : PongOK(q)'
  BY <1>4, <1>5 DEF OrderInv, PongOK
<1> QED
  BY <1>6, <1>7 DEF OrderInv, OrderOK

\* The first of the list is the one that asked first, so the answer is its own.
LEMMA PingrespOrder ==
    ASSUME KInv, OrderInv, HandlePingresp
    PROVE  OrderInv'
<1>0. sent \in Nat /\ handled \in Nat /\ onWire \in Nat \ {0} /\ handled + onWire + atBroker <= sent /\ atBroker \in Nat
  BY DEF KInv, EveryWaiterIsOwed, TypeOK, CountsOK, HandlePingresp
<1>1. /\ onWire' = onWire - 1 /\ handled' = handled + 1 /\ run = "running"
      /\ UNCHANGED <<pc, outcome, conn, atBroker, run, sent, asked>>
  BY DEF HandlePingresp, loops
<1>2. AnswersComing
  BY <1>0, <1>1 DEF AnswersComing
<1>3. /\ Len(waiters) = sent - handled
      /\ \A k \in DOMAIN waiters : asked[waiters[k]] = handled + k
      /\ \A q \in Tasks : pc[q] # "expired"
  BY <1>2 DEF OrderInv, OrderOK
<1>4. waiters # <<>>
  BY <1>0, <1>3
<1>5. /\ DOMAIN waiters = 1 .. Len(waiters) /\ Len(waiters) \in Nat \ {0} /\ Head(waiters) = waiters[1]
      /\ DOMAIN Tail(waiters) = 1 .. Len(waiters) - 1
      /\ \A n \in 1 .. Len(waiters) - 1 : Tail(waiters)[n] = waiters[n + 1]
      /\ Len(Tail(waiters)) = Len(waiters) - 1
  <2>1. waiters \in Seq(Tasks)
    BY ListType
  <2> QED
    BY <1>4, <2>1, TailAt
<1>6. PICK t \in Tasks : t = waiters[1]
  BY <1>5, ListType
<1>7. /\ waiters' = Tail(waiters) /\ fut' = [fut EXCEPT ![t] = "answered"]
      /\ answer' = [answer EXCEPT ![t] = handled + 1]
  BY <1>4, <1>5, <1>6 DEF HandlePingresp
<1>8. asked[t] = handled + 1
  BY <1>3, <1>5, <1>6
<1>9. fut'[t] = "answered" /\ answer'[t] = handled + 1
  BY <1>7 DEF KInv, EveryWaiterIsOwed, TypeOK
<1>10. \A q \in Tasks \ {t} : fut'[q] = fut[q] /\ answer'[q] = answer[q]
  BY <1>7 DEF KInv, EveryWaiterIsOwed, TypeOK
<1>11. \A q \in Tasks : PongOK(q)'
  BY <1>1, <1>8, <1>9, <1>10 DEF OrderInv, PongOK
<1>12. Len(waiters') = sent' - handled'
  BY <1>0, <1>1, <1>3, <1>5, <1>7
<1>13. ASSUME NEW k \in DOMAIN waiters'
       PROVE  asked'[waiters'[k]] = handled' + k
  <2>1. k + 1 \in DOMAIN waiters /\ waiters'[k] = waiters[k + 1] /\ k \in Nat
    BY <1>5, <1>7
  <2>2. asked[waiters[k + 1]] = handled + (k + 1)
    BY <1>3, <2>1
  <2> QED
    BY <1>0, <1>1, <2>1, <2>2
<1> QED
  BY <1>1, <1>3, <1>11, <1>12, <1>13 DEF OrderInv, OrderOK

\* The network and the end of the loops.
LEMMA NetOrder ==
    ASSUME KInv, OrderInv,
           \/ BrokerAnswers \/ LoseConnection \/ TcpGivesUp \/ ReadEof \/ CancelRun \/ CloseTransport
           \/ UNCHANGED vars
    PROVE  OrderInv'
<1>1. UNCHANGED <<waiters, fut, pc, outcome, sent, handled, asked, answer>>
  BY DEF BrokerAnswers, LoseConnection, TcpGivesUp, ReadEof, CancelRun, CloseTransport, vars, calls, history
<1>2. AnswersComing' => AnswersComing
  BY DEF BrokerAnswers, LoseConnection, TcpGivesUp, ReadEof, CancelRun, CloseTransport, FailLoop, vars,
         net, loops, AnswersComing, KInv, EveryWaiterIsOwed, TypeOK
<1> QED
  BY <1>1, <1>2, QuietOrder

\* After the end of run() nothing is answered.
LEMMA TeardownOrder ==
    ASSUME KInv, OrderInv, Teardown
    PROVE  OrderInv'
<1>1. run' = "dead" /\ UNCHANGED <<outcome, asked, answer>>
  BY DEF Teardown, history
<1>2. \A q \in Tasks : fut'[q] = fut[q] \/ (fut[q] = "pending" /\ fut'[q] = "failed")
  BY DEF Teardown
<1>3. \A q \in Tasks : PongOK(q)'
  BY <1>1, <1>2 DEF OrderInv, PongOK
<1> QED
  BY <1>1, <1>3 DEF OrderInv, OrderOK, AnswersComing

(***************************************************************************)
(* A ping returns only with the answer to its own PINGREQ, so that the     *)
(* time it reports is its own round trip, provided that no ping gives up   *)
(* on an answer that is still coming.                                      *)
(***************************************************************************)
THEOREM PongsAreOwn ==
    ASSUME ~Slow
    PROVE  Spec => []OwnPong
<1>1. KInv /\ OrderInv /\ [Next]_vars => OrderInv'
  <2> SUFFICES ASSUME KInv, OrderInv, [Next]_vars
               PROVE  OrderInv'
    OBVIOUS
  <2>1. ASSUME NEW t \in Pingers, Ping(t) \/ Cancel(t)
        PROVE  OrderInv'
    BY <2>1, PingOrder, TaskOrder DEF Tasks
  <2>2. CASE KeepalivePing
    BY <2>2, PingOrder DEF KeepalivePing, Tasks
  <2>3. ASSUME NEW t \in Tasks, TaskStep(t) \/ Expire(t)
        PROVE  OrderInv'
    BY <2>3, TaskOrder
  <2>4. CASE \/ BrokerAnswers \/ LoseConnection \/ TcpGivesUp \/ ReadEof \/ CancelRun \/ CloseTransport
             \/ UNCHANGED vars
    BY <2>4, NetOrder
  <2>5. CASE HandlePingresp \/ Teardown
    BY <2>5, PingrespOrder, TeardownOrder
  <2> QED
    BY <2>1, <2>2, <2>3, <2>4, <2>5 DEF Next
<1>2. OrderInv => OwnPong
  BY DEF OrderInv, PongOK, OwnPong
<1> QED
  BY <1>1, <1>2, InitOrder, SpecK, PTL DEF Spec

=============================================================================
