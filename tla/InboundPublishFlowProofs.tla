---------------------- MODULE InboundPublishFlowProofs ----------------------
(***************************************************************************)
(* Theorems about the receiving side, for every set of messages, topics    *)
(* and responses, every queue and buffer size, and any number of           *)
(* connections, repetitions and cancellations.                             *)
(***************************************************************************)
EXTENDS InboundPublishFlow, SequencesExt, SequenceTheorems, FiniteSetTheorems, TLAPS

-----------------------------------------------------------------------------
(* What the operators on sequences that the model uses do, element by      *)
(* element.                                                                *)
\* A packet is written, or a future registered, behind the others.
LEMMA AppendAt ==
    ASSUME NEW S, NEW s \in Seq(S), NEW x \in S
    PROVE  /\ DOMAIN Append(s, x) = 1 .. Len(s) + 1 /\ DOMAIN s = 1 .. Len(s) /\ Len(s) \in Nat
           /\ \A n \in 1 .. Len(s) : Append(s, x)[n] = s[n]
           /\ Append(s, x)[Len(s) + 1] = x
  OBVIOUS

\* The first packet or future is taken.
LEMMA TailAt ==
    ASSUME NEW S, NEW s \in Seq(S), s # <<>>
    PROVE  /\ DOMAIN s = 1 .. Len(s) /\ Len(s) \in Nat \ {0} /\ Head(s) = s[1]
           /\ DOMAIN Tail(s) = 1 .. Len(s) - 1
           /\ \A n \in 1 .. Len(s) - 1 : Tail(s)[n] = s[n + 1]
  OBVIOUS

\* One in any place is taken out.
LEMMA RemoveAtAt ==
    ASSUME NEW S, NEW s \in Seq(S), NEW k \in DOMAIN s
    PROVE  /\ DOMAIN s = 1 .. Len(s) /\ Len(s) \in Nat
           /\ RemoveAt(s, k) \in Seq(S) /\ Len(RemoveAt(s, k)) = Len(s) - 1
           /\ DOMAIN RemoveAt(s, k) = 1 .. Len(s) - 1
           /\ \A n \in 1 .. Len(s) - 1 : RemoveAt(s, k)[n] = IF n < k THEN s[n] ELSE s[n + 1]
<1> DEFINE a == SubSeq(s, 1, k - 1)
           b == SubSeq(s, k + 1, Len(s))
<1>0. DOMAIN s = 1 .. Len(s) /\ Len(s) \in Nat /\ k \in 1 .. Len(s)
  OBVIOUS
<1>1. a \in Seq(S) /\ Len(a) = k - 1 /\ \A n \in 1 .. k - 1 : a[n] = s[n]
  OBVIOUS
<1>2. b \in Seq(S) /\ Len(b) = Len(s) - k /\ \A n \in 1 .. Len(s) - k : b[n] = s[n + k]
  OBVIOUS
<1>3. RemoveAt(s, k) = a \o b
  BY DEF RemoveAt
<1> HIDE DEF a, b
<1>4. /\ a \o b \in Seq(S) /\ Len(a \o b) = Len(s) - 1
      /\ \A n \in 1 .. Len(a) + Len(b) : (a \o b)[n] = IF n <= Len(a) THEN a[n] ELSE b[n - Len(a)]
  <2>1. a \in Seq(S) /\ b \in Seq(S)
    BY <1>1, <1>2
  <2>2. /\ a \o b \in Seq(S) /\ Len(a \o b) = Len(a) + Len(b)
        /\ \A n \in 1 .. Len(a) + Len(b) : (a \o b)[n] = IF n <= Len(a) THEN a[n] ELSE b[n - Len(a)]
    BY ONLY <2>1, ConcatProperties
  <2> QED
    BY <1>0, <1>1, <1>2, <2>2
<1>5. ASSUME NEW n \in 1 .. Len(s) - 1
      PROVE  (a \o b)[n] = IF n < k THEN s[n] ELSE s[n + 1]
  <2>0. n \in 1 .. Len(a) + Len(b) /\ n \in Nat
    BY <1>0, <1>1, <1>2
  <2>1. CASE n < k
    <3>1. n <= Len(a) /\ n \in 1 .. k - 1
      BY <1>0, <1>1, <2>0, <2>1
    <3> QED
      BY <1>1, <1>4, <2>0, <2>1, <3>1
  <2>2. CASE ~(n < k)
    <3>1. ~(n <= Len(a)) /\ n - Len(a) \in 1 .. Len(s) - k /\ (n - Len(a)) + k = n + 1
      BY <1>0, <1>1, <2>0, <2>2
    <3> QED
      BY <1>2, <1>4, <2>0, <2>2, <3>1
  <2> QED
    BY <2>1, <2>2
<1>6. DOMAIN (a \o b) = 1 .. Len(s) - 1
  BY <1>4, LenProperties
<1> QED
  BY <1>0, <1>3, <1>4, <1>5, <1>6

\* Concatenation.
LEMMA ConcatIn == ASSUME NEW S, NEW s \in Seq(S), NEW t \in Seq(S) PROVE s \o t \in Seq(S)
  BY ConcatProperties

\* An element moved from the front of one sequence to the end of the one before
\* it leaves their concatenation alone.
LEMMA MoveFirst ==
    ASSUME NEW S, NEW u \in Seq(S), NEW p \in Seq(S), NEW h \in Seq(S), p # <<>>
    PROVE  /\ Append(u, Head(p)) \o Tail(p) \o h = u \o p \o h
           /\ u \o <<Head(p)>> \o Tail(p) \o h = u \o p \o h
<1>1. Head(p) \in S /\ Tail(p) \in Seq(S) /\ <<Head(p)>> \in Seq(S)
  BY HeadTailProperties
<1>2. Append(u, Head(p)) = u \o <<Head(p)>>
  BY <1>1, AppendIsConcat
<1>3. <<Head(p)>> \o Tail(p) = p
  BY <1>1
<1>4. (u \o <<Head(p)>>) \o Tail(p) = u \o (<<Head(p)>> \o Tail(p))
  BY <1>1, ConcatAssociative
<1> QED
  BY <1>2, <1>3, <1>4

\* The element in the middle of a concatenation, and what is left without it.
LEMMA MiddleAt ==
    ASSUME NEW S, NEW u \in Seq(S), NEW x \in S, NEW v \in Seq(S)
    PROVE  Len(u) + 1 \in DOMAIN (u \o <<x>> \o v) /\ (u \o <<x>> \o v)[Len(u) + 1] = x
<1>1. <<x>> \in Seq(S) /\ Len(<<x>>) = 1 /\ u \o <<x>> \in Seq(S) /\ Len(u) \in Nat /\ Len(v) \in Nat
  BY ConcatProperties
<1>2. Len(u \o <<x>>) = Len(u) + 1 /\ (u \o <<x>>)[Len(u) + 1] = x
  BY <1>1, ConcatProperties
<1>3. /\ u \o <<x>> \o v \in Seq(S) /\ Len(u \o <<x>> \o v) = Len(u) + 1 + Len(v)
      /\ (u \o <<x>> \o v)[Len(u) + 1] = (u \o <<x>>)[Len(u) + 1]
  BY <1>1, <1>2, ConcatProperties
<1> QED
  BY <1>1, <1>2, <1>3

LEMMA RemoveMiddle ==
    ASSUME NEW S, NEW u \in Seq(S), NEW x \in S, NEW v \in Seq(S)
    PROVE  RemoveAt(u \o <<x>> \o v, Len(u) + 1) = u \o v
<1>0. PICK w : w = u \o <<x>> \o v
  OBVIOUS
<1>1. <<x>> \in Seq(S) /\ Len(<<x>>) = 1 /\ u \o <<x>> \in Seq(S) /\ u \o v \in Seq(S)
      /\ Len(u) \in Nat /\ Len(v) \in Nat
  BY ConcatProperties
<1>2. /\ w \in Seq(S) /\ Len(w) = Len(u) + 1 + Len(v)
      /\ \A i \in 1 .. Len(w) : w[i] = IF i <= Len(u) + 1 THEN (u \o <<x>>)[i] ELSE v[i - Len(u) - 1]
  BY <1>0, <1>1, ConcatProperties
<1>3. \A i \in 1 .. Len(u) + 1 : (u \o <<x>>)[i] = IF i <= Len(u) THEN u[i] ELSE x
  BY <1>1, ConcatProperties
<1>4. /\ Len(u \o v) = Len(u) + Len(v)
      /\ \A i \in 1 .. Len(u) + Len(v) : (u \o v)[i] = IF i <= Len(u) THEN u[i] ELSE v[i - Len(u)]
  BY ConcatProperties
<1>5. Len(u) + 1 \in DOMAIN w /\ w[Len(u) + 1] = x
  BY <1>1, <1>2, <1>3
<1>6. /\ RemoveAt(w, Len(u) + 1) \in Seq(S) /\ Len(RemoveAt(w, Len(u) + 1)) = Len(u) + Len(v)
      /\ \A n \in 1 .. Len(u) + Len(v) :
           RemoveAt(w, Len(u) + 1)[n] = IF n < Len(u) + 1 THEN w[n] ELSE w[n + 1]
  <2>1. PICK k \in DOMAIN w : k = Len(u) + 1
    BY <1>5
  <2>2. /\ RemoveAt(w, k) \in Seq(S) /\ Len(RemoveAt(w, k)) = Len(w) - 1
        /\ \A n \in 1 .. Len(w) - 1 : RemoveAt(w, k)[n] = IF n < k THEN w[n] ELSE w[n + 1]
    BY <1>2, RemoveAtAt
  <2>3. Len(w) - 1 = Len(u) + Len(v)
    BY <1>1, <1>2
  <2> QED
    BY <2>1, <2>2, <2>3
<1>7. \A n \in 1 .. Len(u) + Len(v) : RemoveAt(w, Len(u) + 1)[n] = (u \o v)[n]
  <2> SUFFICES ASSUME NEW n \in 1 .. Len(u) + Len(v) PROVE RemoveAt(w, Len(u) + 1)[n] = (u \o v)[n]
    OBVIOUS
  <2>1. CASE n <= Len(u)
    BY <1>1, <1>2, <1>3, <1>4, <1>6, <2>1
  <2>2. CASE n > Len(u)
    <3>1. n + 1 \in 1 .. Len(w) /\ ~(n + 1 <= Len(u) + 1) /\ ~(n < Len(u) + 1) /\ (n + 1) - Len(u) - 1 = n - Len(u)
      BY <1>1, <1>2, <2>2
    <3>2. w[n + 1] = v[(n + 1) - Len(u) - 1]
      BY <1>2, <3>1
    <3>3. RemoveAt(w, Len(u) + 1)[n] = w[n + 1]
      BY <1>6, <3>1
    <3>4. (u \o v)[n] = v[n - Len(u)]
      BY <1>1, <1>4, <2>2
    <3> QED
      BY <3>1, <3>2, <3>3, <3>4
  <2> QED
    BY <1>1, <2>1, <2>2
<1>8. RemoveAt(w, Len(u) + 1) = u \o v
  BY <1>1, <1>4, <1>6, <1>7, SeqEqual
<1> QED
  BY <1>0, <1>8

\* Concatenations associate, with an element in the middle or with none.
LEMMA PartsWith ==
    ASSUME NEW S, NEW u \in Seq(S), NEW x \in S, NEW p \in Seq(S), NEW h \in Seq(S)
    PROVE  /\ u \o <<x>> \o p \o h \in Seq(S)
           /\ u \o <<x>> \o p \o h = u \o <<x>> \o (p \o h)
           /\ u \o <<x>> \o p \o h = (u \o <<x>> \o p \o <<>>) \o h
           /\ u \o <<x>> \o p \o <<>> \in Seq(S)
<1>1. <<x>> \in Seq(S)
  OBVIOUS
<1>2. u \o <<x>> \in Seq(S)
  BY <1>1, ConcatIn
<1>3. u \o <<x>> \o p \in Seq(S)
  BY <1>2, ConcatIn
<1>4. u \o <<x>> \o p \o h \in Seq(S)
  BY <1>3, ConcatIn
<1>5. (u \o <<x>>) \o p \o h = (u \o <<x>>) \o (p \o h)
  BY <1>2, ConcatAssociative
<1>6. (u \o <<x>> \o p) \o <<>> = u \o <<x>> \o p
  BY <1>3, ConcatEmptySeq
<1> QED
  BY <1>3, <1>4, <1>5, <1>6

LEMMA PartsWithout ==
    ASSUME NEW S, NEW u \in Seq(S), NEW p \in Seq(S), NEW h \in Seq(S)
    PROVE  /\ u \o <<>> \o p \o h \in Seq(S)
           /\ u \o <<>> \o p \o h = u \o p \o h
           /\ u \o <<>> \o p \o h = u \o (p \o h)
           /\ u \o <<>> \o p \o h = (u \o <<>> \o p \o <<>>) \o h
           /\ u \o <<>> \o p \o <<>> \in Seq(S)
<1>1. u \o <<>> = u
  BY ConcatEmptySeq
<1>2. u \o p \in Seq(S)
  BY ConcatIn
<1>3. u \o p \o h \in Seq(S)
  BY <1>2, ConcatIn
<1>4. u \o p \o h = u \o (p \o h)
  BY ConcatAssociative
<1>5. (u \o p) \o <<>> = u \o p
  BY <1>2, ConcatEmptySeq
<1> QED
  BY <1>1, <1>2, <1>3, <1>4, <1>5

-----------------------------------------------------------------------------

(***************************************************************************)
(* Types, by the owner of the variables.  TypeOK leaves out what TLC need  *)
(* not be told: the contents of the wires and of a drain.                  *)
(***************************************************************************)
Packets   == [kind : {"publish", "pubrel", "suback"}, of : Msgs \cup Topics]
Acks      == [kind : {"puback", "pubrec", "pubcomp"}, of : Msgs]
Statuses  == {"queued", "sent", "released", "done", "dropped"}
SubStates == {"off", "asked", "acked", "on"}
DrainStates == [pc : {"off", "woken", "run", "send", "discard"}, msg : Msgs \cup {NoMsg},
                pending : Seq(Msgs), unmatched : Seq(Msgs)]

LinkOK ==
    /\ conn \in {"up", "broken", "lost", "dead"} /\ session \in 1 .. MaxSessions
    /\ resumed \in BOOLEAN /\ failure \in {"none", "overflow", "unknownPubrel"}
    /\ cancels \in 0 .. MaxCancels

BrokerOK ==
    /\ status \in [Msgs -> Statuses] /\ dups \in 0 .. MaxDups
    /\ wire \in Seq(Packets) /\ acks \in Seq(Acks)

AppOK ==
    /\ subs \in [Topics -> SubStates]
    /\ hand \in [Topics -> {<<>>} \cup QueueEntries]
    /\ unacked \subseteq QueueEntries

DeliverOK ==
    /\ queue \in [Topics -> Seq(QueueEntries)] /\ \A t \in Topics : Len(queue[t]) <= Cap
    /\ requests \in [Responses -> {"waiting", "claimed", "done"}]
    /\ inflight \in [Msgs -> Rcpts \cup {"none", "delivered"}]
    /\ pendingAck \subseteq Msgs
    /\ puts \in [Msgs -> 0 .. Many] /\ nobody \subseteq Msgs

ReaderOK ==
    /\ reader \in [pc : {"idle", "put", "completing"}, msg : Msgs \cup {NoMsg}, rcpt : Rcpts]
    /\ reader.pc # "idle" => reader.msg \in Msgs
    /\ reader.pc = "put" => reader.rcpt = "subscription"

BufferOK ==
    /\ replay \in {"none", "idle", "buffered"}
    /\ held \in Seq(Msgs) /\ ids \subseteq Msgs
    /\ topicCount \in [Topics -> Nat] /\ count \in Int
    /\ timer \in {"off", "armed", "fired"}

DrainOK ==
    /\ lock \in Seq(Tasks) /\ drain \in DrainStates
    /\ drain.pc = "off" <=> lock = <<>>
    /\ drain.pc \in {"send", "discard"} => drain.msg \in Msgs
    /\ drain.pc \in {"off", "woken"} => drain.pending = <<>> /\ drain.unmatched = <<>>

HistoryOK == before \subseteq Msgs /\ cut \subseteq Msgs

TypeInv == /\ LinkOK /\ BrokerOK /\ AppOK /\ DeliverOK
           /\ ReaderOK /\ BufferOK /\ DrainOK /\ HistoryOK

LEMMA AppTyped == ASSUME TypeInv, [Next]_vars PROVE AppOK'
<1> USE InboundAssumption DEF TypeInv, AppOK, LinkOK, app, link
<1>1. CASE UNCHANGED app
  BY <1>1
<1>2. CASE \E t \in Topics : HandleSuback(t) \/ Subscribe(t)
  BY <1>2 DEF HandleSuback, Subscribe, SubStates
<1>3. CASE \E t \in Topics : GetMessage(t)
  <2>1. PICK t \in Topics : GetMessage(t)
    BY <1>3
  <2>2. Head(queue[t]) \in QueueEntries
    BY <2>1, HeadTailProperties DEF GetMessage, DeliverOK
  <2> QED
    BY <2>1, <2>2 DEF GetMessage
<1>4. CASE \E e \in unacked : Ack(e)
  BY <1>4 DEF Ack
<1>5. ASSUME NEW K, Return(K) PROVE AppOK'
  BY <1>5 DEF Return, NeedsAck, SubStates
<1>6. ASSUME NEW k, RaiseTo(k) PROVE AppOK'
  BY <1>6 DEF RaiseTo, SubStates
<1>7. CASE Reconnect
  BY <1>7 DEF Reconnect, SubStates
<1> QED
  BY <1>1, <1>2, <1>3, <1>4, <1>5, <1>6, <1>7
     DEF Next, vars, Reader, Drainer, HandlePublish, BrokerSends, BrokerRepeats, BrokerTakesAck,
         HandlePublishKnown, HandlePublishWaiting, HandlePublishDeliver, HandlePublishBlock,
         HandlePublishHold, HandlePublishOverflow, HandlePubrel, HandlePubrelUnknown, ReaderPut,
         ReaderCompletes, CallDrain, TimerFires, DrainBegins, DrainSkips, DrainDelivers, DrainEnds,
         ExpireEnds, DrainSent, DrainSentLate, DrainSendFails, CancelDrain,
         CancelCall, CancelGet, CancelWait,
         DrainRaises,
         LoseConnection, Teardown

LEMMA LinkTyped == ASSUME TypeInv, [Next]_vars PROVE LinkOK'
<1> USE InboundAssumption DEF TypeInv, LinkOK, link
<1>1. CASE UNCHANGED link
  BY <1>1
<1>2. CASE \E m \in Msgs : HandlePublishOverflow(m) \/ HandlePubrelUnknown(m)
  BY <1>2 DEF HandlePublishOverflow, HandlePubrelUnknown
<1>3. CASE DrainSentLate \/ DrainSendFails \/ CancelDrain
  <2>1. ASSUME NEW back, DrainRaises(back) PROVE UNCHANGED <<session, resumed, failure>>
    BY <2>1 DEF DrainRaises
  <2>2. UNCHANGED <<session, resumed, failure>>
    BY <1>3, <2>1 DEF DrainSentLate, DrainSendFails, CancelDrain
  <2>3. /\ conn' \in {conn, "lost"}
        /\ cancels' = cancels \/ (cancels < MaxCancels /\ cancels' = cancels + 1)
    BY <1>3 DEF DrainSentLate, DrainSendFails, CancelDrain
  <2> QED
    BY <2>2, <2>3
<1>4. CASE LoseConnection \/ Teardown
  BY <1>4 DEF LoseConnection, Teardown
<1>5. CASE Reconnect
  BY <1>5 DEF Reconnect
<1>6. CASE CancelCall
  <2>1. UNCHANGED <<conn, session, resumed, failure>> /\ cancels < MaxCancels /\ cancels' = cancels + 1
    BY <1>6 DEF CancelCall, CancelGet, CancelWait
  <2> QED
    BY <2>1
<1> QED
  BY <1>1, <1>2, <1>3, <1>4, <1>5, <1>6
     DEF Next, vars, Reader, Drainer, HandlePublish, BrokerSends, BrokerRepeats, BrokerTakesAck,
         HandlePublishKnown, HandlePublishWaiting, HandlePublishDeliver, HandlePublishBlock,
         HandlePublishHold, HandlePubrel, HandleSuback, ReaderPut, ReaderCompletes, Subscribe,
         GetMessage, Ack, CallDrain, TimerFires, DrainBegins, DrainSkips, DrainDelivers, DrainEnds,
         ExpireEnds, DrainSent

\* An acknowledgement that is written is one.
LEMMA WrittenTyped ==
    ASSUME acks \in Seq(Acks), NEW kind \in {"puback", "pubrec", "pubcomp"}, NEW m \in Msgs
    PROVE  Written(kind, m) \in Seq(Acks)
<1>1. Packet(kind, m) \in Acks
  BY DEF Packet, Acks
<1> QED
  BY <1>1 DEF Written

LEMMA RecipientTyped == \A m \in Msgs : Recipient(m) \in Rcpts
  BY DEF Recipient, Rcpts

\* What a drain looks at next.
LEMMA BatchTyped ==
    ASSUME TypeInv
    PROVE  /\ Batch \in Seq(Msgs) /\ Later \in Seq(Msgs)
           /\ Batch # <<>> => Head(Batch) \in Msgs /\ Tail(Batch) \in Seq(Msgs)
<1>1. Batch \in Seq(Msgs) /\ Later \in Seq(Msgs)
  BY DEF TypeInv, Batch, Later, DrainOK, DrainStates, BufferOK
<1> QED
  BY <1>1, HeadTailProperties

LEMMA BrokerTyped == ASSUME TypeInv, [Next]_vars PROVE BrokerOK'
<1> USE DEF TypeInv, BrokerOK
<1>1. /\ \A m \in Msgs : Packet("publish", m) \in Packets /\ Packet("pubrel", m) \in Packets
      /\ \A t \in Topics : Packet("suback", t) \in Packets
  BY DEF Packet, Packets
<1>2. CASE UNCHANGED <<status, dups>> /\ UNCHANGED acks
           /\ (UNCHANGED wire \/ (wire # <<>> /\ wire' = Tail(wire)))
  BY <1>2, HeadTailProperties
<1>3. CASE \E m \in Msgs : BrokerSends(m) \/ BrokerRepeats(m)
  <2>1. PICK m \in Msgs : BrokerSends(m) \/ BrokerRepeats(m)
    BY <1>3
  <2>2. wire' \in Seq(Packets) /\ UNCHANGED acks
    <3>1. wire' = Append(wire, Packet("publish", m)) /\ UNCHANGED acks
      BY <2>1 DEF BrokerSends, BrokerRepeats
    <3>2. Packet("publish", m) \in Packets /\ wire \in Seq(Packets)
      BY <1>1
    <3>3. Append(wire, Packet("publish", m)) \in Seq(Packets)
      BY ONLY <3>2, AppendProperties
    <3> QED
      BY <3>1, <3>3
  <2>3. status' \in [Msgs -> Statuses] /\ dups' \in 0 .. MaxDups
    BY <2>1, InboundAssumption DEF BrokerSends, BrokerRepeats, Statuses
  <2> QED
    BY <2>2, <2>3
<1>4. CASE BrokerTakesAck
  <2>1. Head(acks) \in Acks /\ acks' \in Seq(Acks) /\ dups' = dups
    BY <1>4, HeadTailProperties DEF BrokerTakesAck
  <2>2. Head(acks).of \in Msgs
    BY <2>1 DEF Acks
  <2>3. wire' \in Seq(Packets)
    <3>1. UNCHANGED wire \/ wire' = Append(wire, Packet("pubrel", Head(acks).of))
      BY <1>4 DEF BrokerTakesAck
    <3> QED
      BY <2>2, <3>1, <1>1, AppendProperties
  <2>4. status' \in [Msgs -> Statuses]
    BY <1>4, <2>2 DEF BrokerTakesAck, Statuses
  <2> QED
    BY <2>1, <2>3, <2>4
<1>6. CASE \E t \in Topics : Subscribe(t)
  BY <1>6, <1>1 DEF Subscribe
<1>7. CASE Teardown
  BY <1>7 DEF Teardown
<1>8. CASE Reconnect
  <2>1. PICK again \in SetToSeqs({m \in Msgs : status'[m] = "released"}) :
          wire' = [i \in DOMAIN again |-> Packet("pubrel", again[i])]
    BY <1>8 DEF Reconnect
  <2>2. PICK n \in Nat : again \in [1 .. n -> Msgs]
    <3>1. IsFiniteSet({m \in Msgs : status'[m] = "released"})
      BY InboundAssumption, FS_Subset
    <3> QED
      BY <2>1, <3>1, FS_CardinalityType DEF SetToSeqs
  <2>3. wire' \in [1 .. n -> Packets]
    BY <2>1, <2>2, <1>1
  <2>4. wire' \in Seq(Packets)
    BY <2>3, IsASeq
  <2> QED
    BY <1>8, <2>4 DEF Reconnect, Statuses
<1>9. ASSUME NEW m \in Msgs, HandlePublish(m) \/ HandlePubrel(m) \/ HandlePubrelUnknown(m)
      PROVE  BrokerOK'
  <2>1. wire # <<>> /\ wire' = Tail(wire) /\ UNCHANGED <<status, dups>>
    BY <1>9 DEF HandlePublish, HandlePublishKnown, HandlePublishWaiting, HandlePublishDeliver,
                HandlePublishBlock, HandlePublishHold, HandlePublishOverflow, HandlePubrel,
                HandlePubrelUnknown, Reading
  <2>2. acks' = acks \/ \E kind \in {"puback", "pubrec", "pubcomp"} : acks' = Written(kind, m)
    BY <1>9 DEF HandlePublish, HandlePublishKnown, HandlePublishWaiting, HandlePublishDeliver,
                HandlePublishBlock, HandlePublishHold, HandlePublishOverflow, HandlePubrel,
                HandlePubrelUnknown, Acknowledge, AckKind
  <2>3. acks' \in Seq(Acks)
    BY <2>2, WrittenTyped
  <2> QED
    BY <2>1, <2>3, HeadTailProperties
<1>10. CASE ReaderPut \/ DrainDelivers
  <2>1. PICK m \in Msgs, r \in Rcpts : Acknowledge(m, r) /\ UNCHANGED <<status, wire, dups>>
    <3>1. CASE ReaderPut
      BY <3>1 DEF ReaderPut, ReaderOK
    <3>2. CASE DrainDelivers
      BY <3>2, BatchTyped, RecipientTyped DEF DrainDelivers
    <3> QED
      BY <1>10, <3>1, <3>2
  <2> QED
    <3>1. acks' = acks \/ \E kind \in {"puback", "pubrec", "pubcomp"} : acks' = Written(kind, m)
      BY <2>1 DEF Acknowledge, AckKind
    <3>2. acks' \in Seq(Acks)
      BY <3>1, WrittenTyped
    <3> QED
      BY <2>1, <3>2
<1>11. CASE \E e \in unacked : Ack(e)
  <2>1. PICK e \in unacked : Ack(e)
    BY <1>11
  <2>2. e[1] \in Msgs
    BY DEF AppOK, QueueEntries
  <2> QED
    <3>1. acks' = acks \/ \E kind \in {"puback", "pubrec", "pubcomp"} : acks' = Written(kind, e[1])
      BY <2>1 DEF Ack, AckCallback
    <3>2. UNCHANGED <<status, wire, dups>>
      BY <2>1 DEF Ack
    <3>3. acks' \in Seq(Acks)
      BY <2>2, <3>1, WrittenTyped
    <3> QED
      BY <3>2, <3>3
<1>12. CASE UNCHANGED broker
  BY <1>12 DEF broker
<1>13. CASE \E t \in Topics : HandleSuback(t)
  BY <1>2, <1>13 DEF HandleSuback, Reading
<1> QED
  BY <1>3, <1>4, <1>6, <1>7, <1>8, <1>9, <1>10, <1>11, <1>12, <1>13
     DEF Next, vars, Reader, Drainer, ReaderCompletes, GetMessage, CallDrain, TimerFires,
         DrainBegins, DrainSkips, DrainEnds, ExpireEnds, DrainSent, DrainSentLate, DrainSendFails,
         CancelDrain, CancelCall, CancelGet, CancelWait,
         DrainRaises, LoseConnection
\* The count of deliveries is capped at Many.
LEMMA OneMore ==
    ASSUME NEW n \in 0 .. Many
    PROVE  /\ Min({n + 1, Many}) \in 1 .. Many
           /\ n = 0 => Min({n + 1, Many}) = 1
<1> DEFINE S == {n + 1, Many}
<1>1. \E x \in S : \A y \in S : x <= y
  BY DEF Many
<1>2. Min(S) \in S /\ \A y \in S : Min(S) <= y
  BY <1>1 DEF Min
<1> QED
  BY <1>2 DEF Many

\* _deliver puts the message in a queue that has room, or gives it to the request.
LEMMA DeliverTyped ==
    ASSUME DeliverOK, LinkOK, NEW m \in Msgs, NEW r \in Rcpts, Deliver(m, r), ~Full(m, r)
    PROVE  /\ queue' \in [Topics -> Seq(QueueEntries)] /\ \A t \in Topics : Len(queue'[t]) <= Cap
           /\ requests' \in [Responses -> {"waiting", "claimed", "done"}]
           /\ puts' \in [Msgs -> 0 .. Many]
<1>1. TopicOf[m] \in Topics /\ <<m, session>> \in QueueEntries /\ Cap \in Nat
  BY InboundAssumption DEF LinkOK, QueueEntries
<1>2. Append(queue[TopicOf[m]], <<m, session>>) \in Seq(QueueEntries)
      /\ Len(Append(queue[TopicOf[m]], <<m, session>>)) = Len(queue[TopicOf[m]]) + 1
  BY <1>1, AppendProperties DEF DeliverOK
<1>3. queue' \in [Topics -> Seq(QueueEntries)] /\ \A t \in Topics : Len(queue'[t]) <= Cap
  <2>1. CASE r = "subscription"
    <3>1. Len(queue[TopicOf[m]]) < Cap /\ Len(queue[TopicOf[m]]) \in Nat
      BY <2>1, <1>1, LenProperties DEF Full, DeliverOK
    <3>2. queue' = [queue EXCEPT ![TopicOf[m]] = Append(queue[TopicOf[m]], <<m, session>>)]
      BY <2>1 DEF Deliver
    <3> QED
      BY <1>1, <1>2, <3>1, <3>2 DEF DeliverOK
  <2>2. CASE r # "subscription"
    BY <2>2 DEF Deliver, DeliverOK
  <2> QED
    BY <2>1, <2>2
<1>4. requests' \in [Responses -> {"waiting", "claimed", "done"}]
  BY DEF Deliver, DeliverOK
<1>5. puts' \in [Msgs -> 0 .. Many]
  <2>1. Min({puts[m] + 1, Many}) \in 0 .. Many
    <3>1. puts[m] \in 0 .. Many
      BY DEF DeliverOK
    <3>2. Min({puts[m] + 1, Many}) \in 1 .. Many
      BY <3>1, OneMore
    <3> QED
      BY <3>2 DEF Many
  <2> QED
    BY <2>1 DEF Deliver, DeliverOK
<1> QED
  BY <1>3, <1>4, <1>5

\* _deliver_qos1_publish and _accept_qos2_publish.
LEMMA AcceptTyped ==
    ASSUME DeliverOK, LinkOK, NEW m \in Msgs, NEW r \in Rcpts, Accept(m, r),
           ~(PutsNow(m, r) /\ Full(m, r))
    PROVE  DeliverOK'
<1>1. CASE Qos[m] < 2 \/ PutsNow(m, r)
  <2>1. Deliver(m, r)
    BY <1>1 DEF Accept
  <2>2. ~Full(m, r)
    BY <1>1 DEF Full, PutsNow
  <2>3. /\ queue' \in [Topics -> Seq(QueueEntries)] /\ \A t \in Topics : Len(queue'[t]) <= Cap
        /\ requests' \in [Responses -> {"waiting", "claimed", "done"}]
        /\ puts' \in [Msgs -> 0 .. Many]
    BY <2>1, <2>2, DeliverTyped
  <2> QED
    BY <2>3 DEF DeliverOK, Accept
<1>2. CASE ~(Qos[m] < 2 \/ PutsNow(m, r))
  BY <1>2 DEF Accept, DeliverOK
<1> QED
  BY <1>1, <1>2

LEMMA DeliverVarsTyped == ASSUME TypeInv, [Next]_vars PROVE DeliverOK'
<1> USE DEF TypeInv
<1>1. CASE UNCHANGED deliver
  BY <1>1 DEF deliver, DeliverOK
<1>2. ASSUME NEW m \in Msgs, HandlePublishDeliver(m) PROVE DeliverOK'
  BY <1>2, AcceptTyped, RecipientTyped DEF HandlePublishDeliver
<1>3. CASE DrainDelivers
  <2>1. Head(Batch) \in Msgs /\ Accept(Head(Batch), Recipient(Head(Batch)))
        /\ ~Full(Head(Batch), Recipient(Head(Batch)))
    BY <1>3, BatchTyped DEF DrainDelivers
  <2> QED
    BY <2>1, AcceptTyped, RecipientTyped
<1>4. ASSUME NEW m \in Msgs, HandlePublishBlock(m) \/ HandlePubrel(m) PROVE DeliverOK'
  BY <1>4 DEF HandlePublishBlock, HandlePubrel, DeliverOK
<1>5. CASE ReaderPut \/ ReaderCompletes
  <2>1. reader.msg \in Msgs /\ reader.rcpt \in Rcpts
    BY <1>5 DEF ReaderPut, ReaderCompletes, ReaderOK
  <2>2. Deliver(reader.msg, reader.rcpt) /\ ~Full(reader.msg, reader.rcpt)
        /\ UNCHANGED <<inflight, pendingAck, nobody>>
    BY <1>5 DEF ReaderPut, ReaderCompletes
  <2> QED
    BY <2>1, <2>2, DeliverTyped DEF DeliverOK
<1>6. ASSUME NEW t \in Topics, GetMessage(t) PROVE DeliverOK'
  <2>1. Tail(queue[t]) \in Seq(QueueEntries) /\ Len(Tail(queue[t])) = Len(queue[t]) - 1
        /\ Len(queue[t]) \in Nat
    BY <1>6, HeadTailProperties, LenProperties DEF GetMessage, DeliverOK
  <2>2. queue' = [queue EXCEPT ![t] = Tail(queue[t])]
        /\ UNCHANGED <<inflight, pendingAck, requests, puts, nobody>>
    BY <1>6 DEF GetMessage
  <2>3. queue' \in [Topics -> Seq(QueueEntries)] /\ \A u \in Topics : Len(queue'[u]) <= Cap
    BY <2>1, <2>2, InboundAssumption DEF DeliverOK
  <2> QED
    BY <2>2, <2>3 DEF DeliverOK
<1>7. ASSUME NEW e \in unacked, Ack(e) PROVE DeliverOK'
  <2>1. e[1] \in Msgs
    BY DEF AppOK, QueueEntries
  <2> QED
    BY <1>7, <2>1 DEF Ack, AckCallback, DeliverOK
<1>8. CASE Reconnect
  <2>1. puts' \in [Msgs -> 0 .. Many]
    BY <1>8 DEF Reconnect, Many
  <2> QED
    BY <1>8, <2>1 DEF Reconnect, DeliverOK
<1> QED
  BY <1>1, <1>2, <1>3, <1>4, <1>5, <1>6, <1>7, <1>8
     DEF Next, vars, Reader, Drainer, HandlePublish, BrokerSends, BrokerRepeats, BrokerTakesAck,
         HandlePublishKnown, HandlePublishWaiting, HandlePublishHold, HandlePublishOverflow,
         HandlePubrelUnknown, HandleSuback, Subscribe, CallDrain, TimerFires, DrainBegins,
         DrainSkips, DrainEnds, ExpireEnds, DrainSent, DrainSentLate, DrainSendFails, CancelDrain,
         CancelCall, CancelGet, CancelWait,
         DrainRaises, LoseConnection, Teardown
LEMMA ReaderTyped == ASSUME TypeInv, [Next]_vars PROVE ReaderOK'
<1> USE DEF TypeInv, ReaderOK
<1>1. CASE UNCHANGED reader
  BY <1>1
<1>2. CASE reader' = Idle
  BY <1>2 DEF Idle, Rcpts
<1>3. ASSUME NEW m \in Msgs, HandlePublishBlock(m) PROVE ReaderOK'
  BY <1>3, RecipientTyped DEF HandlePublishBlock, PutsNow
<1>4. ASSUME NEW m \in Msgs, HandlePubrel(m), reader' # Idle PROVE ReaderOK'
  BY <1>4 DEF HandlePubrel, DeliverOK
<1> QED
  BY <1>1, <1>2, <1>3, <1>4
     DEF Next, vars, Reader, Drainer, HandlePublish, BrokerSends, BrokerRepeats, BrokerTakesAck,
         HandlePublishKnown, HandlePublishWaiting, HandlePublishDeliver, HandlePublishHold,
         HandlePublishOverflow, HandlePubrelUnknown, HandleSuback, ReaderPut, ReaderCompletes,
         Subscribe, GetMessage, Ack, CallDrain, TimerFires, DrainBegins, DrainSkips,
         DrainDelivers, DrainEnds, ExpireEnds, DrainSent, DrainSentLate, DrainSendFails,
         CancelDrain, CancelCall, CancelGet, CancelWait,
         DrainRaises, LoseConnection, Teardown, Reconnect

LEMMA HistoryTyped == ASSUME TypeInv, [Next]_vars PROVE HistoryOK'
<1> USE DEF TypeInv, HistoryOK
<1>1. CASE UNCHANGED <<before, cut>>
  BY <1>1
<1>2. CASE Teardown \/ Reconnect
  BY <1>2 DEF Teardown, Reconnect
<1> QED
  BY <1>1, <1>2
     DEF Next, vars, Reader, Drainer, HandlePublish, BrokerSends, BrokerRepeats, BrokerTakesAck,
         HandlePublishKnown, HandlePublishWaiting, HandlePublishDeliver, HandlePublishBlock,
         HandlePublishHold, HandlePublishOverflow, HandlePubrel, HandlePubrelUnknown,
         HandleSuback, ReaderPut, ReaderCompletes, Subscribe, GetMessage, Ack, CallDrain,
         TimerFires, DrainBegins, DrainSkips, DrainDelivers, DrainEnds, ExpireEnds, DrainSent,
         DrainSentLate, DrainSendFails, CancelDrain,
         CancelCall, CancelGet, CancelWait,
         DrainRaises, LoseConnection

\* What a drain that raises gives back.
LEMMA BackTyped ==
    ASSUME TypeInv, NEW back \in Seq(Msgs)
    PROVE  drain.unmatched \o back \o drain.pending \o held \in Seq(Msgs)
<1>1. drain.unmatched \in Seq(Msgs) /\ drain.pending \in Seq(Msgs) /\ held \in Seq(Msgs)
  BY DEF TypeInv, DrainOK, DrainStates, BufferOK
<1> QED
  BY <1>1, ConcatProperties

\* The steps in which a drain raises.
LEMMA RaisesWith ==
    ASSUME TypeInv, DrainSentLate \/ DrainSendFails \/ CancelDrain
    PROVE  /\ \E back \in Seq(Msgs) : DrainRaises(back)
           /\ drain.pc \in {"send", "discard"} /\ UNCHANGED <<ids, topicCount>>
           /\ count' \in {count, count - 1}
<1>1. <<drain.msg>> \in Seq(Msgs) \/ ~(drain.pc \in {"send", "discard"})
  BY DEF TypeInv, DrainOK
<1>2. <<>> \in Seq(Msgs)
  OBVIOUS
<1> QED
  BY <1>1, <1>2 DEF DrainSentLate, DrainSendFails, CancelDrain

\* A call that is cancelled before its drain runs leaves the buffer alone.
LEMMA CallCancelled ==
    ASSUME CancelCall
    PROVE  /\ UNCHANGED <<conn, session, resumed, failure, broker, deliver, reader, buffer, before, cut>>
           /\ cancels' = cancels + 1
           /\ \/ /\ UNCHANGED <<lock, drain>>
                 /\ \E t \in Topics : <<"app", t>> \notin Range(lock) /\ RaiseTo(<<"app", t>>)
              \/ \E i \in DOMAIN lock :
                    /\ lock' = RemoveAt(lock, i) /\ RaiseTo(lock[i]) /\ lock[i] # Expiry
                    /\ \/ i = 1 /\ drain.pc = "woken" /\ drain' = Woken(lock')
                       \/ i # 1 /\ drain' = drain
<1>1. ASSUME NEW t \in Topics, CancelGet(t)
      PROVE  /\ UNCHANGED <<conn, session, resumed, failure, broker, deliver, reader, buffer, before, cut>>
             /\ cancels' = cancels + 1
             /\ UNCHANGED <<lock, drain>> /\ <<"app", t>> \notin Range(lock) /\ RaiseTo(<<"app", t>>)
  BY <1>1 DEF CancelGet
<1>2. ASSUME NEW i \in DOMAIN lock, CancelWait(i)
      PROVE  /\ UNCHANGED <<conn, session, resumed, failure, broker, deliver, reader, buffer, before, cut>>
             /\ cancels' = cancels + 1
             /\ lock' = RemoveAt(lock, i) /\ RaiseTo(lock[i]) /\ lock[i] # Expiry
             /\ \/ i = 1 /\ drain.pc = "woken" /\ drain' = Woken(lock')
                \/ i # 1 /\ drain' = drain
  BY <1>2 DEF CancelWait
<1> QED
  BY <1>1, <1>2 DEF CancelCall

LEMMA BufferTyped == ASSUME TypeInv, [Next]_vars PROVE BufferOK'
<1> USE DEF TypeInv, BufferOK
<1>1. CASE UNCHANGED buffer
  BY <1>1 DEF buffer
<1>2. ASSUME NEW m \in Msgs, HandlePublishHold(m) PROVE BufferOK'
  <2>1. held' \in Seq(Msgs)
    BY <1>2, AppendProperties DEF HandlePublishHold
  <2>2. topicCount' \in [Topics -> Nat]
    BY <1>2, InboundAssumption DEF HandlePublishHold
  <2> QED
    BY <1>2, <2>1, <2>2 DEF HandlePublishHold, ArmedTimer
<1>3. CASE DrainSkips \/ DrainDelivers
  <2>1. held' = Later /\ UNCHANGED <<replay, ids, topicCount, count, timer>>
    BY <1>3 DEF DrainSkips, DrainDelivers
  <2> QED
    BY <2>1, BatchTyped
<1>4. CASE DrainSentLate \/ DrainSendFails \/ CancelDrain
  <2>1. PICK back \in Seq(Msgs) : DrainRaises(back)
    BY <1>4, RaisesWith
  <2>2. held' \in Seq(Msgs)
    BY <2>1, BackTyped DEF DrainRaises
  <2>3. replay' = replay /\ timer' \in {"off", timer}
    BY <2>1 DEF DrainRaises
  <2> QED
    BY <1>4, <2>2, <2>3, RaisesWith
<1>5. CASE DrainEnds
  BY <1>5 DEF DrainEnds, DrainOK, DrainStates
<1>6. CASE ExpireEnds \/ Teardown \/ Reconnect
  <2>1. /\ replay' \in {"none", "idle"} /\ held' = <<>> /\ ids' = {} /\ count' = 0
        /\ topicCount' = [t \in Topics |-> 0] /\ timer' \in {"off", timer}
    BY <1>6 DEF ExpireEnds, Teardown, Reconnect
  <2> QED
    BY <2>1
<1>7. CASE DrainSent
  <2>1. topicCount[TopicOf[drain.msg]] > 0 /\ drain.msg \in Msgs
    BY <1>7 DEF DrainSent, DrainOK
  <2>2. topicCount' \in [Topics -> Nat]
    BY <1>7, <2>1, InboundAssumption DEF DrainSent, Discard
  <2> QED
    BY <1>7, <2>2 DEF DrainSent, Discard
<1>8. CASE TimerFires
  BY <1>8 DEF TimerFires
<1>9. CancelCall => UNCHANGED buffer
  BY CallCancelled
<1> QED
  BY <1>1, <1>2, <1>3, <1>4, <1>5, <1>6, <1>7, <1>8, <1>9
     DEF Next, vars, Reader, Drainer, HandlePublish, BrokerSends, BrokerRepeats, BrokerTakesAck,
         HandlePublishKnown, HandlePublishWaiting, HandlePublishDeliver, HandlePublishBlock,
         HandlePublishOverflow, HandlePubrel, HandlePubrelUnknown, HandleSuback, ReaderPut,
         ReaderCompletes, Subscribe, GetMessage, Ack, CallDrain, DrainBegins, LoseConnection
\* _cancel_expiration takes nothing but the expiration task from the lock's waiters.
LEMMA WithoutExpiryTyped == ASSUME NEW l \in Seq(Tasks) PROVE WithoutExpiry(l) \in Seq(Tasks)
<1>1. CASE \E i \in DOMAIN l : l[i] = Expiry
  <2>1. (CHOOSE i \in DOMAIN l : l[i] = Expiry) \in DOMAIN l
    BY <1>1
  <2> QED
    BY <1>1, <2>1, RemoveAtAt DEF WithoutExpiry
<1>2. CASE ~ \E i \in DOMAIN l : l[i] = Expiry
  BY <1>2 DEF WithoutExpiry
<1> QED
  BY <1>1, <1>2

LEMMA WokenTyped ==
    ASSUME NEW l \in Seq(Tasks)
    PROVE  /\ Woken(l) \in DrainStates /\ Woken(l).pending = <<>> /\ Woken(l).unmatched = <<>>
           /\ Woken(l).pc = (IF l = <<>> THEN "off" ELSE "woken")
<1>1. <<>> \in Seq(Msgs)
  OBVIOUS
<1>2. NoDrain \in DrainStates /\ NoDrain.pending = <<>> /\ NoDrain.unmatched = <<>> /\ NoDrain.pc = "off"
  BY <1>1 DEF NoDrain, DrainStates
<1>3. /\ [NoDrain EXCEPT !.pc = "woken"] \in DrainStates
      /\ [NoDrain EXCEPT !.pc = "woken"].pending = <<>> /\ [NoDrain EXCEPT !.pc = "woken"].unmatched = <<>>
      /\ [NoDrain EXCEPT !.pc = "woken"].pc = "woken"
  BY <1>2 DEF DrainStates
<1> QED
  BY <1>2, <1>3 DEF Woken

LEMMA DrainTyped == ASSUME TypeInv, [Next]_vars PROVE DrainOK'
<1> USE DEF TypeInv
<1>1. CASE UNCHANGED <<lock, drain>>
  BY <1>1 DEF DrainOK
<1>2. lock \in Seq(Tasks) /\ (lock # <<>> => Head(lock) \in Tasks /\ Tail(lock) \in Seq(Tasks))
  BY HeadTailProperties DEF DrainOK
<1>3. ASSUME NEW k \in Tasks, lock' = Append(lock, k),
             drain' = IF lock = <<>> THEN [NoDrain EXCEPT !.pc = "run"] ELSE drain
      PROVE  DrainOK'
  <2>1. lock' \in Seq(Tasks) /\ lock' # <<>>
    BY <1>2, <1>3, AppendProperties
  <2>2. [NoDrain EXCEPT !.pc = "run"] \in DrainStates /\ [NoDrain EXCEPT !.pc = "run"].pc = "run"
    <3>1. <<>> \in Seq(Msgs)
      OBVIOUS
    <3>2. NoDrain \in DrainStates
      BY <3>1 DEF NoDrain, DrainStates
    <3> QED
      BY <3>2 DEF DrainStates
  <2>3. CASE lock = <<>>
    BY <1>3, <2>1, <2>2, <2>3 DEF DrainOK
  <2>4. CASE lock # <<>>
    BY <1>3, <2>1, <2>4 DEF DrainOK
  <2> QED
    BY <2>3, <2>4
<1>4. ASSUME NEW l \in Seq(Tasks), lock' = l, drain' = Woken(l) PROVE DrainOK'
  BY <1>4, WokenTyped DEF DrainOK
<1>5. CASE DrainBegins
  BY <1>5 DEF DrainBegins, DrainOK, DrainStates
<1>6. CASE DrainSkips \/ DrainDelivers
  <2>1. Batch # <<>> /\ Head(Batch) \in Msgs /\ Tail(Batch) \in Seq(Msgs)
    BY <1>6, BatchTyped DEF DrainSkips, DrainDelivers
  <2>2. drain \in DrainStates /\ drain.pc = "run" /\ lock' = lock /\ lock # <<>>
        /\ Append(drain.unmatched, Head(Batch)) \in Seq(Msgs)
    BY <1>6, <2>1, AppendProperties DEF DrainSkips, DrainDelivers, DrainOK, DrainStates
  <2>3. CASE DrainSkips
    <3>1. drain' = [drain EXCEPT !.pending = Tail(Batch),
                                 !.unmatched = Append(drain.unmatched, Head(Batch))]
      BY <2>3 DEF DrainSkips
    <3>2. drain' \in DrainStates /\ drain'.pc = "run"
      BY <2>1, <2>2, <3>1 DEF DrainStates
    <3> QED
      BY <2>2, <3>2 DEF DrainOK
  <2>4. CASE DrainDelivers
    <3>1. PICK p \in {"send", "discard"} :
            drain' = [drain EXCEPT !.pc = p, !.msg = Head(Batch), !.pending = Tail(Batch)]
      BY <2>4 DEF DrainDelivers
    <3>2. drain' \in DrainStates /\ drain'.pc = p /\ drain'.msg = Head(Batch)
      BY <2>1, <2>2, <3>1 DEF DrainStates
    <3> QED
      BY <2>1, <2>2, <3>2 DEF DrainOK
  <2> QED
    BY <1>6, <2>3, <2>4
<1>7. CASE DrainSent
  BY <1>7 DEF DrainSent, DrainOK, DrainStates
<1>8. CASE DrainEnds \/ ExpireEnds
  <2>1. lock # <<>>
    BY <1>8 DEF DrainEnds, ExpireEnds, DrainOK
  <2>2. \/ lock' = <<>> /\ drain' = NoDrain
        \/ lock' = Tail(lock) /\ drain' = Woken(Tail(lock))
    BY <1>8 DEF DrainEnds, ExpireEnds
  <2>3. Woken(<<>>) = NoDrain /\ <<>> \in Seq(Tasks)
    BY DEF Woken
  <2> QED
    BY <1>2, <1>4, <2>1, <2>2, <2>3
<1>9. CASE DrainSentLate \/ DrainSendFails \/ CancelDrain
  <2>1. PICK back \in Seq(Msgs) : DrainRaises(back)
    BY <1>9, RaisesWith
  <2>2. lock # <<>>
    BY <1>9, RaisesWith DEF DrainOK
  <2>3. lock' = Tail(lock) /\ drain' = Woken(Tail(lock))
    BY <2>1 DEF DrainRaises
  <2> QED
    BY <1>2, <1>4, <2>2, <2>3
<1>10. CASE Teardown
  <2>1. CASE drain.pc = "send"
    <3>1. lock # <<>>
      BY <2>1 DEF DrainOK
    <3>2. lock' = <<Head(lock)>> \o WithoutExpiry(Tail(lock)) /\ drain' = drain
      BY <1>10, <2>1 DEF Teardown
    <3>3. <<Head(lock)>> \in Seq(Tasks) /\ Len(<<Head(lock)>>) = 1 /\ WithoutExpiry(Tail(lock)) \in Seq(Tasks)
      <4>1. Head(lock) \in Tasks /\ Tail(lock) \in Seq(Tasks)
        BY <1>2, <3>1
      <4>2. WithoutExpiry(Tail(lock)) \in Seq(Tasks)
        BY <4>1, WithoutExpiryTyped
      <4> HIDE DEF Tasks
      <4> QED
        BY <4>1, <4>2
    <3>4. lock' \in Seq(Tasks) /\ Len(lock') = 1 + Len(WithoutExpiry(Tail(lock)))
      BY <3>2, <3>3, ConcatProperties
    <3>5. lock' # <<>>
      BY <3>3, <3>4, LenProperties
    <3> QED
      BY <2>1, <3>2, <3>4, <3>5 DEF DrainOK
  <2>2. CASE drain.pc # "send"
    <3>1. lock' = WithoutExpiry(lock) /\ drain' = Woken(WithoutExpiry(lock))
      BY <1>10, <2>2 DEF Teardown
    <3> QED
      BY <1>2, <1>4, <3>1, WithoutExpiryTyped
  <2> QED
    BY <2>1, <2>2
<1>11. ASSUME NEW k \in Tasks, CallDrain(k) PROVE DrainOK'
  BY <1>1, <1>3, <1>11 DEF CallDrain
<1>12. CASE TimerFires
  <2>1. Expiry \in Tasks
    BY DEF Tasks
  <2> QED
    BY <1>3, <1>12, <2>1 DEF TimerFires
<1>13. CASE CancelCall
  <2>1. ASSUME NEW i \in DOMAIN lock, lock' = RemoveAt(lock, i),
               \/ i = 1 /\ drain' = Woken(lock')
               \/ i # 1 /\ drain' = drain
        PROVE  DrainOK'
    <3>1. RemoveAt(lock, i) \in Seq(Tasks) /\ Len(RemoveAt(lock, i)) = Len(lock) - 1 /\ i \in 1 .. Len(lock)
      BY <1>2, RemoveAtAt
    <3>2. CASE i = 1 /\ drain' = Woken(lock')
      BY <1>4, <2>1, <3>1, <3>2
    <3>3. CASE i # 1 /\ drain' = drain
      <4>1. Len(lock') # 0 /\ lock # <<>>
        BY <1>2, <2>1, <3>1, <3>3
      <4>2. lock' # <<>>
        BY <4>1
      <4> QED
        BY <2>1, <3>1, <3>3, <4>1, <4>2 DEF DrainOK
    <3> QED
      BY <2>1, <3>2, <3>3
  <2> QED
    BY <1>1, <1>13, <2>1, CallCancelled
<1> QED
  BY <1>1, <1>5, <1>6, <1>7, <1>8, <1>9, <1>10, <1>11, <1>12, <1>13
     DEF Next, vars, Reader, Drainer, HandlePublish, BrokerSends, BrokerRepeats, BrokerTakesAck,
         HandlePublishKnown, HandlePublishWaiting, HandlePublishDeliver, HandlePublishBlock,
         HandlePublishHold, HandlePublishOverflow, HandlePubrel, HandlePubrelUnknown,
         HandleSuback, ReaderPut, ReaderCompletes, Subscribe, GetMessage, Ack, LoseConnection,
         Reconnect

LEMMA InitTyped == Init => TypeInv
<1> SUFFICES ASSUME Init PROVE TypeInv
  OBVIOUS
<1> USE InboundAssumption DEF Init
<1>1. LinkOK /\ BrokerOK
  BY DEF LinkOK, BrokerOK, Statuses
<1>2. AppOK /\ HistoryOK
  BY DEF AppOK, SubStates, HistoryOK
<1>3. DeliverOK
  BY DEF DeliverOK, Many
<1>4. ReaderOK /\ BufferOK
  BY DEF ReaderOK, BufferOK, Idle, Rcpts
<1>5. DrainOK
  BY DEF DrainOK, DrainStates, NoDrain
<1> QED
  BY <1>1, <1>2, <1>3, <1>4, <1>5 DEF TypeInv

LEMMA NextTyped == TypeInv /\ [Next]_vars => TypeInv'
  BY LinkTyped, BrokerTyped, AppTyped, DeliverVarsTyped, ReaderTyped, BufferTyped, DrainTyped,
     HistoryTyped DEF TypeInv

(***************************************************************************)
(* Every variable keeps its type; in particular no queue is filled past    *)
(* receive_buffer_size.                                                    *)
(***************************************************************************)
THEOREM TypeCorrect == Spec => []TypeOK
<1>1. Spec => []TypeInv
  BY InitTyped, NextTyped, PTL DEF Spec
<1>2. TypeInv => TypeOK
  <2> SUFFICES ASSUME TypeInv PROVE TypeOK
    OBVIOUS
  <2> QED
    BY DEF TypeInv, TypeOK, LinkOK, BrokerOK, AppOK, DeliverOK, ReaderOK, BufferOK, DrainOK,
           Statuses, SubStates, DrainStates
<1> QED
  BY <1>1, <1>2, PTL
-----------------------------------------------------------------------------
(***************************************************************************)
(* What is acknowledged has been delivered.  In between are the QoS 2      *)
(* flights and the read loop between PUBCOMP and the queue; a message      *)
(* that ack() was called for is in one of the application's hands.         *)
(***************************************************************************)
Acked(m)   == status[m] \in {"released", "done"} \/ \E i \in DOMAIN acks : acks[i].of = m
Settled(m) == puts[m] > 0 \/ m \in before \/ m \in nobody \/ m \in cut
InFlight(m) == inflight[m] \in Rcpts \/ (reader.pc = "completing" /\ reader.msg = m)

AcksCovered ==
    \A m \in Msgs : Qos[m] > 0 /\ Acked(m) => Settled(m) \/ (conn # "dead" /\ InFlight(m))

FlightsOK ==
    /\ \A m \in Msgs : /\ inflight[m] = "delivered" => puts[m] > 0
                       /\ inflight[m] = "nobody" => m \in nobody
    /\ reader.pc = "completing" /\ reader.rcpt = "nobody" => reader.msg \in nobody

EntryOK(e, s, p) == e[2] <= s /\ (e[2] = s => p[e[1]] > 0)

EntriesOK ==
    /\ \A t \in Topics : \A i \in DOMAIN queue[t] : EntryOK(queue[t][i], session, puts)
    /\ \A t \in Topics : hand[t] # <<>> => EntryOK(hand[t], session, puts)
    /\ \A e \in unacked : EntryOK(e, session, puts)

AckInv == AcksCovered /\ FlightsOK /\ EntriesOK
\* What a step may do to the queues of a connection: messages of this connection
\* that have just been delivered come in, others go out.
QueueStep ==
    /\ \A x \in Msgs : puts[x] > 0 => puts'[x] > 0
    /\ \A t \in Topics : \A i \in DOMAIN queue'[t] :
         \/ \E j \in DOMAIN queue[t] : queue'[t][i] = queue[t][j]
         \/ \E m \in Msgs : queue'[t][i] = <<m, session>> /\ puts'[m] > 0

LEMMA DeliverQueues ==
    ASSUME DeliverOK, NEW m \in Msgs, NEW r \in Rcpts, Deliver(m, r)
    PROVE  QueueStep /\ (r # "nobody" => puts'[m] > 0)
<1>1. puts[m] \in 0 .. Many /\ puts \in [Msgs -> 0 .. Many] /\ TopicOf[m] \in Topics
  BY InboundAssumption DEF DeliverOK
<1>2. Min({puts[m] + 1, Many}) > 0 /\ Min({puts[m] + 1, Many}) \in 0 .. Many
  <2>1. Min({puts[m] + 1, Many}) \in 1 .. Many
    BY <1>1, OneMore
  <2> QED
    BY <2>1 DEF Many
<1>3. r # "nobody" => puts' = [puts EXCEPT ![m] = Min({puts[m] + 1, Many})]
  BY DEF Deliver
<1>4. r = "nobody" => puts' = puts
  BY DEF Deliver
<1>5. (\A x \in Msgs : puts[x] > 0 => puts'[x] > 0) /\ (r # "nobody" => puts'[m] > 0)
  BY <1>1, <1>2, <1>3, <1>4
<1>6. ASSUME NEW t \in Topics, NEW i \in DOMAIN queue'[t]
      PROVE  \/ \E j \in DOMAIN queue[t] : queue'[t][i] = queue[t][j]
             \/ \E x \in Msgs : queue'[t][i] = <<x, session>> /\ puts'[x] > 0
  <2>1. CASE r = "subscription" /\ t = TopicOf[m]
    <3>1. queue'[t] = Append(queue[t], <<m, session>>)
      BY <2>1, <1>1 DEF Deliver, DeliverOK
    <3>2. queue[t] \in Seq(QueueEntries)
      BY DEF DeliverOK
    <3>3. i \in 1 .. Len(queue[t]) + 1 /\ DOMAIN queue[t] = 1 .. Len(queue[t]) /\ Len(queue[t]) \in Nat
      BY <3>1, <3>2, LenProperties
    <3>4. i = Len(queue[t]) + 1 => queue'[t][i] = <<m, session>>
      BY <3>1, <3>2, <3>3
    <3>5. i # Len(queue[t]) + 1 => i \in DOMAIN queue[t] /\ queue'[t][i] = queue[t][i]
      BY <3>1, <3>2, <3>3
    <3> QED
      BY <2>1, <1>5, <3>4, <3>5
  <2>2. CASE ~(r = "subscription" /\ t = TopicOf[m])
    <3>1. queue'[t] = queue[t]
      BY <2>2, <1>1 DEF Deliver, DeliverOK
    <3> QED
      BY <3>1
  <2> QED
    BY <2>1, <2>2
<1> QED
  BY <1>5, <1>6 DEF QueueStep

LEMMA AcceptQueues ==
    ASSUME DeliverOK, NEW m \in Msgs, NEW r \in Rcpts, Accept(m, r) PROVE QueueStep
<1>1. CASE UNCHANGED <<queue, puts>>
  BY <1>1 DEF QueueStep
<1> QED
  BY <1>1, DeliverQueues DEF Accept

LEMMA QueuesStep == ASSUME TypeInv, [Next]_vars, ~Reconnect PROVE QueueStep /\ session' = session
<1> USE DEF TypeInv
<1>1. ASSUME UNCHANGED <<queue, puts>> PROVE QueueStep
  BY <1>1 DEF QueueStep
<1>2. ASSUME NEW m \in Msgs, HandlePublishDeliver(m) PROVE QueueStep
  BY <1>2, AcceptQueues, RecipientTyped DEF HandlePublishDeliver
<1>3. ASSUME DrainDelivers PROVE QueueStep
  BY <1>3, AcceptQueues, RecipientTyped, BatchTyped DEF DrainDelivers
<1>4. ASSUME ReaderPut \/ ReaderCompletes PROVE QueueStep
  BY <1>4, DeliverQueues DEF ReaderPut, ReaderCompletes, ReaderOK
<1>5. ASSUME NEW t \in Topics, GetMessage(t) PROVE QueueStep
  <2>1. queue[t] \in Seq(QueueEntries) /\ queue[t] # <<>> /\ puts' = puts
        /\ queue' = [queue EXCEPT ![t] = Tail(queue[t])] /\ queue \in [Topics -> Seq(QueueEntries)]
    BY <1>5 DEF GetMessage, DeliverOK
  <2>2. /\ DOMAIN queue[t] = 1 .. Len(queue[t]) /\ Len(queue[t]) \in Nat \ {0}
        /\ DOMAIN Tail(queue[t]) = 1 .. Len(queue[t]) - 1
        /\ \A n \in 1 .. Len(queue[t]) - 1 : Tail(queue[t])[n] = queue[t][n + 1]
    BY <2>1, TailAt
  <2>3. \A i \in DOMAIN queue'[t] : i + 1 \in DOMAIN queue[t] /\ queue'[t][i] = queue[t][i + 1]
    BY <2>1, <2>2
  <2> QED
    BY <2>1, <2>3 DEF QueueStep
<1>6. session' = session
  BY DEF Next, vars, link, Reader, Drainer, HandlePublish, BrokerSends, BrokerRepeats, BrokerTakesAck,
         HandlePublishKnown, HandlePublishWaiting, HandlePublishDeliver, HandlePublishBlock,
         HandlePublishHold, HandlePublishOverflow, HandlePubrel, HandlePubrelUnknown,
         HandleSuback, ReaderPut, ReaderCompletes, Subscribe, GetMessage, Ack, CallDrain,
         TimerFires, DrainBegins, DrainSkips, DrainDelivers, DrainEnds, ExpireEnds, DrainSent,
         DrainSentLate, DrainSendFails, CancelDrain,
         CancelCall, CancelGet, CancelWait,
         DrainRaises, LoseConnection, Teardown
<1>7. QueueStep
  BY <1>1, <1>2, <1>3, <1>4, <1>5
     DEF Next, vars, deliver, Reader, Drainer, HandlePublish, BrokerSends, BrokerRepeats, BrokerTakesAck,
         HandlePublishKnown, HandlePublishWaiting, HandlePublishBlock, HandlePublishHold,
         HandlePublishOverflow, HandlePubrel, HandlePubrelUnknown, HandleSuback, Subscribe, Ack,
         CallDrain, TimerFires, DrainBegins, DrainSkips, DrainEnds, ExpireEnds, DrainSent,
         DrainSentLate, DrainSendFails, CancelDrain,
         CancelCall, CancelGet, CancelWait,
         DrainRaises, LoseConnection, Teardown
<1> QED
  BY <1>6, <1>7

\* What the application holds comes from a queue.
LEMMA HandsStep ==
    ASSUME TypeInv, [Next]_vars
    PROVE  /\ \A t \in Topics : \/ hand'[t] \in {<<>>, hand[t]}
                                \/ queue[t] # <<>> /\ hand'[t] = Head(queue[t])
           /\ \A e \in unacked' : e \in unacked \/ \E t \in Topics : hand[t] # <<>> /\ e = hand[t]
<1> DEFINE P == /\ \A t \in Topics : \/ hand'[t] \in {<<>>, hand[t]}
                                     \/ queue[t] # <<>> /\ hand'[t] = Head(queue[t])
                /\ \A e \in unacked' : e \in unacked \/ \E t \in Topics : hand[t] # <<>> /\ e = hand[t]
<1>1. ASSUME UNCHANGED <<hand, unacked>> PROVE P
  BY <1>1
<1>2. ASSUME NEW t \in Topics, GetMessage(t) PROVE P
  BY <1>2 DEF GetMessage, TypeInv, AppOK
<1>3. ASSUME NEW e \in unacked, Ack(e) PROVE P
  BY <1>3 DEF Ack
<1>4. ASSUME NEW K, Return(K) PROVE P
  BY <1>4 DEF Return, NeedsAck
<1>5. ASSUME NEW k, RaiseTo(k) PROVE P
  BY <1>5 DEF RaiseTo
<1> HIDE DEF P
<1>6. P
  BY <1>1, <1>2, <1>3, <1>4, <1>5
     DEF Next, vars, app, Reader, Drainer, HandlePublish, BrokerSends, BrokerRepeats, BrokerTakesAck,
         HandlePublishKnown, HandlePublishWaiting, HandlePublishDeliver, HandlePublishBlock,
         HandlePublishHold, HandlePublishOverflow, HandlePubrel, HandlePubrelUnknown,
         HandleSuback, ReaderPut, ReaderCompletes, Subscribe, CallDrain,
         TimerFires, DrainBegins, DrainSkips, DrainDelivers, DrainEnds, ExpireEnds, DrainSent,
         DrainSentLate, DrainSendFails, CancelDrain,
         CancelCall, CancelGet, CancelWait,
         DrainRaises, LoseConnection, Teardown, Reconnect
<1> QED
  BY <1>6 DEF P
LEMMA EntriesKept == ASSUME TypeInv, EntriesOK, [Next]_vars PROVE EntriesOK'
<1> USE DEF TypeInv
<1>1. /\ \A t \in Topics : queue[t] \in Seq(QueueEntries) /\ queue'[t] \in Seq(QueueEntries)
      /\ \A e \in QueueEntries : e[1] \in Msgs /\ e[2] \in Nat /\ e[2] \in 1 .. MaxSessions
      /\ \A t \in Topics : (hand[t] = <<>> \/ hand[t] \in QueueEntries) /\ (hand'[t] = <<>> \/ hand'[t] \in QueueEntries)
      /\ unacked \subseteq QueueEntries /\ session \in Nat
  <2>1. DeliverOK' /\ AppOK'
    BY NextTyped
  <2> QED
    BY <2>1, InboundAssumption DEF DeliverOK, AppOK, LinkOK, QueueEntries
<1>2. ASSUME NEW t \in Topics, queue[t] # <<>>
      PROVE  Head(queue[t]) \in QueueEntries /\ EntryOK(Head(queue[t]), session, puts)
  <2>1. 1 \in DOMAIN queue[t] /\ Head(queue[t]) = queue[t][1]
    BY <1>1, <1>2, TailAt
  <2> QED
    BY <1>1, <1>2, <2>1, HeadTailProperties DEF EntriesOK
<1>3. CASE Reconnect
  <2>1. session' = session + 1 /\ UNCHANGED <<hand, unacked, queue>>
    BY <1>3 DEF Reconnect
  <2>2. ASSUME NEW e \in QueueEntries, EntryOK(e, session, puts) PROVE EntryOK(e, session', puts')
    BY <1>1, <2>1, <2>2 DEF EntryOK
  <2>3. \A t \in Topics : \A i \in DOMAIN queue[t] : queue[t][i] \in QueueEntries
    BY <1>1, ElementOfSeq
  <2> QED
    BY <1>1, <2>1, <2>2, <2>3 DEF EntriesOK
<1>4. CASE ~Reconnect
  <2>1. QueueStep /\ session' = session
    BY <1>4, QueuesStep
  <2>2. ASSUME NEW e \in QueueEntries, EntryOK(e, session, puts) PROVE EntryOK(e, session', puts')
    BY <1>1, <2>1, <2>2 DEF EntryOK, QueueStep
  <2>3. ASSUME NEW t \in Topics, NEW i \in DOMAIN queue'[t] PROVE EntryOK(queue'[t][i], session', puts')
    <3>1. CASE \E j \in DOMAIN queue[t] : queue'[t][i] = queue[t][j]
      <4>1. PICK j \in DOMAIN queue[t] : queue'[t][i] = queue[t][j]
        BY <3>1
      <4>2. queue[t][j] \in QueueEntries /\ EntryOK(queue[t][j], session, puts)
        BY <1>1, ElementOfSeq DEF EntriesOK
      <4> QED
        BY <4>1, <4>2, <2>2
    <3>2. CASE \E m \in Msgs : queue'[t][i] = <<m, session>> /\ puts'[m] > 0
      BY <3>2, <1>1, <2>1 DEF EntryOK
    <3> QED
      BY <2>1, <3>1, <3>2 DEF QueueStep
  <2>4. ASSUME NEW t \in Topics, hand'[t] # <<>> PROVE EntryOK(hand'[t], session', puts')
    BY <1>1, <1>2, <2>2, <2>4, HandsStep DEF EntriesOK
  <2>5. ASSUME NEW e \in unacked' PROVE EntryOK(e, session', puts')
    BY <1>1, <2>2, HandsStep DEF EntriesOK
  <2> QED
    BY <2>3, <2>4, <2>5 DEF EntriesOK
<1> QED
  BY <1>3, <1>4
LEMMA NobodyStays == ASSUME [Next]_vars PROVE nobody \subseteq nobody'
  BY DEF Next, vars, deliver, Reader, Drainer, HandlePublish, BrokerSends, BrokerRepeats, BrokerTakesAck,
         HandlePublishKnown, HandlePublishWaiting, HandlePublishDeliver, HandlePublishBlock,
         HandlePublishHold, HandlePublishOverflow, HandlePubrel, HandlePubrelUnknown,
         HandleSuback, ReaderPut, ReaderCompletes, Subscribe, GetMessage, Ack, CallDrain,
         TimerFires, DrainBegins, DrainSkips, DrainDelivers, DrainEnds, ExpireEnds, DrainSent,
         DrainSentLate, DrainSendFails, CancelDrain,
         CancelCall, CancelGet, CancelWait,
         DrainRaises, LoseConnection, Teardown, Reconnect,
         Accept

\* A settled message stays settled: a new connection moves the count to before.
LEMMA SettledStays == ASSUME TypeInv, [Next]_vars, NEW m \in Msgs, Settled(m) PROVE Settled(m)'
<1>1. nobody \subseteq nobody'
  BY NobodyStays
<1>2. before \subseteq before' /\ cut \subseteq cut'
  BY DEF Next, vars, Reader, Drainer, HandlePublish, BrokerSends, BrokerRepeats, BrokerTakesAck,
         HandlePublishKnown, HandlePublishWaiting, HandlePublishDeliver, HandlePublishBlock,
         HandlePublishHold, HandlePublishOverflow, HandlePubrel, HandlePubrelUnknown,
         HandleSuback, ReaderPut, ReaderCompletes, Subscribe, GetMessage, Ack, CallDrain,
         TimerFires, DrainBegins, DrainSkips, DrainDelivers, DrainEnds, ExpireEnds, DrainSent,
         DrainSentLate, DrainSendFails, CancelDrain,
         CancelCall, CancelGet, CancelWait,
         DrainRaises, LoseConnection, Teardown, Reconnect
<1>3. puts[m] > 0 => puts'[m] > 0 \/ m \in before'
  <2>1. CASE Reconnect
    BY <2>1 DEF Reconnect
  <2>2. CASE ~Reconnect
    BY <2>2, QueuesStep DEF QueueStep
  <2> QED
    BY <2>1, <2>2
<1> QED
  BY <1>1, <1>2, <1>3 DEF Settled

LEMMA FlightsKept == ASSUME TypeInv, EntriesOK, FlightsOK, [Next]_vars PROVE FlightsOK'
<1> USE DEF TypeInv
<1>1. nobody \subseteq nobody'
  BY NobodyStays
<1>2. CASE Reconnect
  BY <1>2 DEF Reconnect, FlightsOK
<1>3. ASSUME ~Reconnect PROVE \A m \in Msgs : puts[m] > 0 => puts'[m] > 0
  BY <1>3, QueuesStep DEF QueueStep
<1>4. CASE ~Reconnect /\ UNCHANGED <<inflight, reader>>
  BY <1>1, <1>3, <1>4 DEF FlightsOK, ReaderOK
<1>5. ASSUME NEW m \in Msgs, NEW r \in Rcpts, Accept(m, r), r = "nobody" => replay = "none",
             ~Reconnect, UNCHANGED reader
      PROVE  FlightsOK'
  <2>1. inflight' = inflight \/ inflight' = [inflight EXCEPT ![m] = r]
    BY <1>5 DEF Accept
  <2>2. r = "nobody" => m \in nobody'
    BY <1>5 DEF Accept
  <2> QED
    BY <1>1, <1>3, <1>5, <2>1, <2>2 DEF FlightsOK, ReaderOK, DeliverOK, Rcpts
<1>6. ASSUME NEW m \in Msgs, HandlePublishDeliver(m) PROVE FlightsOK'
  <2>1. Recipient(m) = "nobody" => replay = "none"
    BY <1>6 DEF HandlePublishDeliver, Passes
  <2>2. ~Reconnect
    BY <1>6 DEF HandlePublishDeliver, Reading, Reconnect
  <2> QED
    BY <1>5, <1>6, <2>1, <2>2, RecipientTyped DEF HandlePublishDeliver
<1>7. CASE DrainDelivers
  <2>1. ~Reconnect
    BY <1>7 DEF DrainDelivers, DrainOK, Reconnect
  <2> QED
    BY <1>5, <1>7, <2>1, RecipientTyped, BatchTyped DEF DrainDelivers
<1>8. ASSUME NEW m \in Msgs, HandlePubrel(m) PROVE FlightsOK'
  <2>1. ~Reconnect
    BY <1>8 DEF HandlePubrel, Reading, Reconnect
  <2>2. inflight' = [inflight EXCEPT ![m] = "none"]
        /\ (reader' = Idle \/ reader' = [pc |-> "completing", msg |-> m, rcpt |-> inflight[m]])
    BY <1>8 DEF HandlePubrel
  <2> QED
    BY <1>1, <1>3, <2>1, <2>2 DEF FlightsOK, DeliverOK, Idle
<1>9. ASSUME NEW e \in unacked, Ack(e) PROVE FlightsOK'
  <2>1. e[1] \in Msgs /\ EntryOK(e, session, puts)
    BY DEF AppOK, QueueEntries, EntriesOK
  <2>2. UNCHANGED <<reader, puts, nobody>>
    BY <1>9 DEF Ack
  <2>3. inflight' = inflight \/ (e[2] = session /\ inflight' = [inflight EXCEPT ![e[1]] = "delivered"])
    BY <1>9 DEF Ack, AckCallback
  <2> QED
    BY <2>1, <2>2, <2>3 DEF FlightsOK, DeliverOK, EntryOK
<1>10. ASSUME UNCHANGED inflight, reader' = Idle \/ reader'.pc = "put", ~Reconnect PROVE FlightsOK'
  BY <1>1, <1>3, <1>10 DEF FlightsOK, Idle
<1>11. ASSUME NEW m \in Msgs, HandlePublishBlock(m) PROVE FlightsOK'
  <2>1. ~Reconnect
    BY <1>11 DEF HandlePublishBlock, Reading, Reconnect
  <2> QED
    BY <1>10, <1>11, <2>1 DEF HandlePublishBlock
<1>12. CASE ReaderPut \/ ReaderCompletes \/ Teardown
  <2>1. ~Reconnect
    BY <1>12 DEF ReaderPut, ReaderCompletes, Teardown, Reconnect
  <2>2. UNCHANGED inflight /\ reader' = Idle
    BY <1>12 DEF ReaderPut, ReaderCompletes, Teardown, deliver
  <2> QED
    BY <1>10, <2>1, <2>2
<1> QED
  BY <1>2, <1>4, <1>6, <1>7, <1>8, <1>9, <1>11, <1>12
     DEF Next, vars, deliver, Reader, Drainer, HandlePublish, BrokerSends, BrokerRepeats, BrokerTakesAck,
         HandlePublishKnown, HandlePublishWaiting, HandlePublishHold, HandlePublishOverflow,
         HandlePubrelUnknown, HandleSuback, Subscribe, GetMessage, CallDrain, TimerFires,
         DrainBegins, DrainSkips, DrainEnds, ExpireEnds, DrainSent, DrainSentLate, DrainSendFails,
         CancelDrain, CancelCall, CancelGet, CancelWait,
         DrainRaises, LoseConnection
\* One more acknowledgement under way, if the connection is up.
LEMMA WrittenAcks ==
    ASSUME BrokerOK, UNCHANGED status, NEW x \in Msgs, NEW kind \in {"puback", "pubrec", "pubcomp"},
           acks' = Written(kind, x), NEW m \in Msgs, Acked(m)'
    PROVE  Acked(m) \/ (conn = "up" /\ m = x)
<1>1. Packet(kind, x) \in Acks /\ Packet(kind, x).of = x
  BY DEF Packet, Acks
<1>2. CASE conn = "up"
  <2>1. acks' = Append(acks, Packet(kind, x)) /\ acks \in Seq(Acks)
    BY <1>2 DEF Written, BrokerOK
  <2>2. /\ DOMAIN acks' = 1 .. Len(acks) + 1 /\ DOMAIN acks = 1 .. Len(acks) /\ Len(acks) \in Nat
        /\ \A n \in 1 .. Len(acks) : acks'[n] = acks[n]
        /\ acks'[Len(acks) + 1] = Packet(kind, x)
    BY <1>1, <2>1, AppendAt
  <2>3. ASSUME NEW i \in DOMAIN acks', acks'[i].of = m
        PROVE  m = x \/ (i \in DOMAIN acks /\ acks[i].of = m)
    <3>1. i \in 1 .. Len(acks) \/ i = Len(acks) + 1
      BY <2>2
    <3> QED
      BY <1>1, <2>2, <2>3, <3>1
  <2> QED
    BY <1>2, <2>3 DEF Acked
<1>3. CASE conn # "up"
  BY <1>3 DEF Written, Acked
<1> QED
  BY <1>2, <1>3

Covered(m) == Settled(m) \/ (conn # "dead" /\ InFlight(m))

LEMMA AcksKept ==
    ASSUME TypeInv, AckInv, [Next]_vars, NEW m \in Msgs, Qos[m] > 0, Acked(m)'
    PROVE  Covered(m)'
<1> USE DEF TypeInv, AckInv
<1>1. Settled(m) => Settled(m)'
  BY SettledStays
<1>2. Acked(m) => Covered(m)
  BY DEF AcksCovered, Covered
<1>3. CASE Acked(m) /\ UNCHANGED <<inflight, reader>> /\ (conn' = "dead" => conn = "dead")
  BY <1>1, <1>2, <1>3 DEF Covered, InFlight
<1>4. CASE Settled(m)
  BY <1>1, <1>4 DEF Covered
<1>5. CASE BrokerTakesAck
  <2>1. acks \in Seq(Acks) /\ acks # <<>> /\ acks' = Tail(acks)
    BY <1>5 DEF BrokerTakesAck, BrokerOK
  <2>2. /\ DOMAIN acks = 1 .. Len(acks) /\ Len(acks) \in Nat \ {0} /\ Head(acks) = acks[1]
        /\ DOMAIN acks' = 1 .. Len(acks) - 1
        /\ \A n \in 1 .. Len(acks) - 1 : acks'[n] = acks[n + 1]
    BY <2>1, TailAt
  <2>3. ASSUME NEW i \in DOMAIN acks', acks'[i].of = m PROVE Acked(m)
    <3>1. i + 1 \in DOMAIN acks /\ acks[i + 1].of = m
      BY <2>2, <2>3
    <3> QED
      BY <3>1 DEF Acked
  <2>4. ASSUME Head(acks).of = m PROVE Acked(m)
    BY <2>2, <2>4 DEF Acked
  <2>5. Head(acks).of # m => status'[m] = status[m]
    BY <1>5 DEF BrokerTakesAck, BrokerOK
  <2>6. Acked(m)
    BY <2>3, <2>4, <2>5 DEF Acked
  <2>7. UNCHANGED <<inflight, reader, conn>>
    BY <1>5 DEF BrokerTakesAck, deliver, link
  <2> QED
    BY <1>3, <2>6, <2>7
<1>6. ASSUME NEW x \in Msgs, BrokerSends(x) PROVE Covered(m)'
  <2>1. Acked(m)
    BY <1>6 DEF BrokerSends, Acked, BrokerOK
  <2>2. UNCHANGED <<inflight, reader, conn>>
    BY <1>6 DEF BrokerSends, deliver, link
  <2> QED
    BY <1>3, <2>1, <2>2
<1>7. ASSUME NEW x \in Msgs, HandlePublishKnown(x) PROVE Covered(m)'
  <2>1. acks' = Written("pubrec", x) /\ UNCHANGED <<status, inflight, reader, conn>>
        /\ inflight[x] # "none" /\ conn # "dead"
    BY <1>7 DEF HandlePublishKnown, Reading, deliver, link
  <2>2. Acked(m) \/ m = x
    BY <2>1, WrittenAcks
  <2>3. CASE m = x
    BY <1>1, <2>1, <2>3 DEF FlightsOK, Covered, Settled, InFlight, DeliverOK
  <2> QED
    BY <1>3, <2>1, <2>2, <2>3
\* The recipient accepts the message: from the read loop or from a drain.
<1>8. ASSUME NEW x \in Msgs, NEW r \in Rcpts, Accept(x, r), Acknowledge(x, r),
             r = "nobody" => replay = "none", UNCHANGED <<status, reader, conn>>,
             conn = "up" \/ conn = "broken" \/ conn = "lost" \/ conn = "dead"
      PROVE  Covered(m)'
  <2>1. AckKind(x, r) # "none" => AckKind(x, r) \in {"puback", "pubrec", "pubcomp"}
    BY DEF AckKind
  <2>2. Acked(m) \/ (conn = "up" /\ m = x /\ AckKind(x, r) # "none")
    BY <1>8, <2>1, WrittenAcks DEF Acknowledge, Acked
  <2>3. InFlight(m) => InFlight(m)'
    BY <1>8 DEF Accept, InFlight, DeliverOK
  <2>4. CASE Acked(m)
    BY <1>1, <1>2, <1>8, <2>3, <2>4 DEF Covered
  <2>5. CASE conn = "up" /\ m = x /\ AckKind(x, r) # "none"
    <3>1. Qos[m] \in {1, 2} /\ AutoAck(m, r)
      BY <2>5, InboundAssumption DEF AckKind
    <3>2. CASE Qos[m] = 2
      <4>1. inflight'[m] = r
        BY <1>8, <2>5, <3>1, <3>2 DEF Accept, DeliverOK
      <4> QED
        BY <1>8, <2>5, <4>1 DEF Covered, InFlight
    <3>3. CASE Qos[m] = 1
      <4>1. Deliver(m, r)
        BY <1>8, <2>5, <3>3 DEF Accept
      <4>2. r # "nobody" => puts'[m] > 0
        BY <4>1, DeliverQueues
      <4>3. r = "nobody" => m \in nobody'
        BY <1>8, <2>5 DEF Accept
      <4> QED
        BY <4>2, <4>3 DEF Covered, Settled
    <3> QED
      BY <3>1, <3>2, <3>3
  <2> QED
    BY <2>2, <2>4, <2>5
<1>9. ASSUME NEW x \in Msgs, HandlePublishDeliver(x) PROVE Covered(m)'
  <2>1. Recipient(x) = "nobody" => replay = "none"
    BY <1>9 DEF HandlePublishDeliver, Passes
  <2> QED
    BY <1>8, <1>9, <2>1, RecipientTyped DEF HandlePublishDeliver, link, LinkOK
<1>10. CASE DrainDelivers
  BY <1>8, <1>10, RecipientTyped, BatchTyped DEF DrainDelivers, link, LinkOK
<1>11. CASE ReaderPut
  <2>1. reader.msg \in Msgs /\ reader.rcpt = "subscription" /\ Deliver(reader.msg, reader.rcpt)
        /\ Acknowledge(reader.msg, reader.rcpt) /\ UNCHANGED <<status, inflight, conn>> /\ conn # "dead"
    BY <1>11 DEF ReaderPut, ReaderOK, link
  <2>2. puts'[reader.msg] > 0
    BY <2>1, DeliverQueues DEF Rcpts
  <2>3. Acked(m) \/ m = reader.msg
    BY <2>1, WrittenAcks DEF Acknowledge, AckKind, Acked
  <2>4. CASE m = reader.msg
    BY <2>2, <2>4 DEF Covered, Settled
  <2>5. CASE Acked(m)
    BY <1>1, <1>2, <1>11, <2>1, <2>5 DEF Covered, InFlight, ReaderPut
  <2> QED
    BY <2>3, <2>4, <2>5
<1>12. CASE ReaderCompletes
  <2>1. reader.msg \in Msgs /\ reader.rcpt \in Rcpts /\ Deliver(reader.msg, reader.rcpt)
        /\ reader.pc = "completing" /\ UNCHANGED <<status, acks, inflight, conn>> /\ conn # "dead"
    BY <1>12 DEF ReaderCompletes, ReaderOK, link, broker
  <2>2. puts'[reader.msg] > 0 \/ reader.msg \in nobody'
    BY <2>1, DeliverQueues, NobodyStays DEF FlightsOK
  <2>3. Acked(m)
    BY <2>1 DEF Acked
  <2>4. CASE m = reader.msg
    BY <2>2, <2>4 DEF Covered, Settled
  <2>5. CASE m # reader.msg
    BY <1>1, <1>2, <2>1, <2>3, <2>5 DEF Covered, InFlight
  <2> QED
    BY <2>4, <2>5
<1>13. ASSUME NEW x \in Msgs, HandlePubrel(x) PROVE Covered(m)'
  <2>1. acks' = Written("pubcomp", x) /\ UNCHANGED <<status, conn>> /\ inflight[x] # "none" /\ conn # "dead"
        /\ inflight' = [inflight EXCEPT ![x] = "none"] /\ reader.pc = "idle"
        /\ (inflight[x] # "delivered" => reader' = [pc |-> "completing", msg |-> x, rcpt |-> inflight[x]])
    BY <1>13 DEF HandlePubrel, Reading, link
  <2>2. Acked(m) \/ m = x
    BY <2>1, WrittenAcks
  <2>3. CASE m = x
    BY <1>1, <2>1, <2>3 DEF FlightsOK, Covered, Settled, InFlight
  <2>4. CASE m # x
    BY <1>1, <1>2, <2>1, <2>2, <2>4 DEF Covered, InFlight, DeliverOK
  <2> QED
    BY <2>3, <2>4
<1>14. ASSUME NEW e \in unacked, Ack(e) PROVE Covered(m)'
  <2>1. e[1] \in Msgs /\ EntryOK(e, session, puts)
    BY DEF AppOK, QueueEntries, EntriesOK
  <2>2. CASE e[2] # session
    <3>1. UNCHANGED <<acks, status, inflight, reader, conn>>
      BY <1>14, <2>2 DEF Ack, link
    <3> QED
      BY <1>3, <3>1 DEF Acked
  <2>3. CASE e[2] = session
    <3>1. puts[e[1]] > 0
      BY <2>1, <2>3 DEF EntryOK
    <3>2. UNCHANGED <<status, reader, conn>> /\ (inflight' = inflight \/ inflight' = [inflight EXCEPT ![e[1]] = "delivered"])
      BY <1>14, <2>3 DEF Ack, AckCallback, link
    <3>3. acks' = Written("puback", e[1]) \/ acks' = Written("pubrec", e[1])
      BY <1>14, <2>3 DEF Ack, AckCallback
    <3>4. Acked(m) \/ m = e[1]
      BY <2>1, <3>2, <3>3, WrittenAcks
    <3>5. CASE m = e[1]
      BY <1>4, <3>1, <3>5 DEF Settled
    <3>6. CASE m # e[1]
      BY <1>1, <1>2, <2>1, <3>2, <3>4, <3>6 DEF Covered, InFlight, DeliverOK
    <3> QED
      BY <3>5, <3>6
  <2> QED
    BY <2>2, <2>3
<1>15. CASE Teardown
  <2>1. acks' = <<>> /\ UNCHANGED status
        /\ cut' = cut \cup {x \in Msgs : inflight[x] \in Rcpts \/ (reader.pc = "completing" /\ reader.msg = x)}
    BY <1>15 DEF Teardown
  <2>2. Acked(m)
    BY <2>1 DEF Acked
  <2> QED
    BY <1>1, <1>2, <2>1, <2>2 DEF Covered, InFlight, Settled
<1>16. CASE Reconnect
  <2>1. acks' = acks /\ conn = "dead" /\ (status'[m] = status[m] \/ status'[m] \in {"dropped", "queued"})
    BY <1>16 DEF Reconnect, BrokerOK
  <2>2. Acked(m)
    BY <2>1 DEF Acked
  <2> QED
    BY <1>1, <1>2, <2>1, <2>2 DEF Covered
<1>17. ASSUME NEW x \in Msgs, HandlePublishBlock(x) PROVE Covered(m)'
  <2>1. UNCHANGED <<acks, status, inflight, conn>> /\ reader.pc = "idle"
    BY <1>17 DEF HandlePublishBlock, Reading, link
  <2> QED
    BY <1>1, <1>2, <2>1 DEF Covered, InFlight, Acked
<1>18. ASSUME UNCHANGED <<status, acks, inflight, reader>>, conn' = "dead" => conn = "dead" PROVE Covered(m)'
  BY <1>3, <1>18 DEF Acked
<1>19. CASE DrainSentLate \/ DrainSendFails \/ CancelDrain
  <2>1. UNCHANGED <<status, acks, inflight, reader>>
    BY <1>19, RaisesWith DEF DrainRaises, broker, deliver
  <2>2. conn' = "dead" => conn = "dead"
    BY <1>19 DEF DrainSentLate, DrainSendFails, CancelDrain
  <2> QED
    BY <1>18, <2>1, <2>2
<1>20. CASE CancelCall
  BY <1>18, <1>20, CallCancelled DEF broker, deliver
<1> QED
  BY <1>5, <1>6, <1>7, <1>9, <1>10, <1>11, <1>12, <1>13, <1>14, <1>15, <1>16, <1>17, <1>18, <1>19, <1>20
     DEF Next, vars, link, broker, deliver, Reader, Drainer, HandlePublish, BrokerRepeats,
         HandlePublishWaiting, HandlePublishHold, HandlePublishOverflow, HandlePubrelUnknown,
         HandleSuback, Subscribe, GetMessage, CallDrain, TimerFires, DrainBegins, DrainSkips,
         DrainEnds, ExpireEnds, DrainSent, LoseConnection

LEMMA InitAcks == Init => AckInv
<1> SUFFICES ASSUME Init PROVE AckInv
  OBVIOUS
<1>1. AcksCovered
  BY DEF Init, AcksCovered, Acked, Settled, InFlight
<1>2. FlightsOK
  BY DEF Init, FlightsOK, Idle
<1>3. EntriesOK
  BY DEF Init, EntriesOK
<1> QED
  BY <1>1, <1>2, <1>3 DEF AckInv

LEMMA NextAcks == TypeInv /\ AckInv /\ [Next]_vars => AckInv'
<1> SUFFICES ASSUME TypeInv, AckInv, [Next]_vars PROVE AckInv'
  OBVIOUS
<1>1. EntriesOK'
  BY EntriesKept DEF AckInv
<1>2. FlightsOK'
  BY FlightsKept DEF AckInv
<1>3. AcksCovered'
  BY AcksKept DEF AcksCovered, Covered
<1> QED
  BY <1>1, <1>2, <1>3 DEF AckInv

\* The broker is never told that a QoS 1 or QoS 2 message arrived which is
\* neither with its recipient nor in a flight towards it: whatever the replay
\* buffer holds, drops or gives back, however often the connection is lost, and
\* whether or not the application cancels a drain (_deliver_qos1_publish,
\* _accept_qos2_publish, handle_pubrel, _deliver_pending).
THEOREM AcknowledgedIsDelivered == Spec => []AckedIsDelivered
<1>1. Init => TypeInv /\ AckInv
  BY InitTyped, InitAcks
<1>2. TypeInv /\ AckInv /\ [Next]_vars => (TypeInv /\ AckInv)'
  BY NextTyped, NextAcks
<1>3. TypeInv /\ AckInv => AckedIsDelivered
  BY DEF AckInv, AcksCovered, AckedIsDelivered, Acked, Settled, InFlight
<1> QED
  BY <1>1, <1>2, <1>3, PTL DEF Spec
-----------------------------------------------------------------------------
(***************************************************************************)
(* The books of the replay buffer.  OnTopic are the places a topic's       *)
(* messages have in what the buffer owns; only a QoS 0 message may be      *)
(* there twice.                                                            *)
(***************************************************************************)
OnTopic(s, t) == {i \in DOMAIN s : TopicOf[s[i]] = t}
Unique(s)     == \A i, j \in DOMAIN s : s[i] = s[j] /\ Qos[s[i]] > 0 => i = j

Books(s, n, c, d) ==
    /\ n = Len(s) /\ \A t \in Topics : c[t] = Cardinality(OnTopic(s, t))
    /\ d = {m \in Range(s) : Qos[m] > 0} /\ Unique(s)

LEMMA OnTopicFinite ==
    ASSUME NEW s \in Seq(Msgs), NEW t
    PROVE  IsFiniteSet(OnTopic(s, t)) /\ Cardinality(OnTopic(s, t)) \in Nat
<1>1. OnTopic(s, t) \subseteq 1 .. Len(s) /\ Len(s) \in Int /\ 1 \in Int
  BY DEF OnTopic
<1>2. IsFiniteSet(1 .. Len(s))
  BY <1>1, FS_Interval
<1> QED
  BY <1>1, <1>2, FS_Subset, FS_CardinalityType

LEMMA NoBooks == Books(<<>>, 0, [t \in Topics |-> 0], {})
<1>1. \A t : OnTopic(<<>>, t) = {}
  BY DEF OnTopic
<1>2. Range(<<>>) = {}
  BY DEF Range
<1> QED
  BY <1>1, <1>2, FS_EmptySet DEF Books, Unique

LEMMA BooksAppend ==
    ASSUME NEW s \in Seq(Msgs), NEW m \in Msgs, NEW n, NEW c \in [Topics -> Nat], NEW d,
           Books(s, n, c, d), Qos[m] > 0 => m \notin d
    PROVE  Books(Append(s, m), n + 1, [c EXCEPT ![TopicOf[m]] = @ + 1],
                 IF Qos[m] > 0 THEN d \cup {m} ELSE d)
<1> DEFINE a == Append(s, m)
<1>1. /\ DOMAIN a = 1 .. Len(s) + 1 /\ DOMAIN s = 1 .. Len(s) /\ Len(s) \in Nat
      /\ \A i \in 1 .. Len(s) : a[i] = s[i]
      /\ a[Len(s) + 1] = m
  BY AppendAt
<1>2. Len(a) = Len(s) + 1
  BY AppendProperties
<1> HIDE DEF a
<1>3. \A t : OnTopic(a, t) = IF TopicOf[m] = t THEN OnTopic(s, t) \cup {Len(s) + 1} ELSE OnTopic(s, t)
  BY <1>1 DEF OnTopic
<1>4. ASSUME NEW t \in Topics PROVE [c EXCEPT ![TopicOf[m]] = @ + 1][t] = Cardinality(OnTopic(a, t))
  <2>1. IsFiniteSet(OnTopic(s, t))
    BY OnTopicFinite
  <2>2. Len(s) + 1 \notin OnTopic(s, t)
    BY <1>1 DEF OnTopic
  <2>3. c[t] = Cardinality(OnTopic(s, t))
    BY DEF Books
  <2>4. Cardinality(OnTopic(s, t) \cup {Len(s) + 1}) = c[t] + 1
    BY <2>1, <2>2, <2>3, FS_AddElement
  <2>5. CASE TopicOf[m] = t
    BY <1>3, <2>4, <2>5
  <2>6. CASE TopicOf[m] # t
    <3>1. OnTopic(a, t) = OnTopic(s, t)
      BY <1>3, <2>6
    <3> QED
      BY <2>3, <2>6, <3>1
  <2> QED
    BY <2>5, <2>6
<1>5. Range(a) = Range(s) \cup {m}
  BY <1>1 DEF Range
<1>6. Unique(a)
  <2>1. Qos[m] > 0 => \A i \in DOMAIN s : s[i] # m
    BY DEF Books, Range
  <2> QED
    BY <1>1, <2>1 DEF Unique, Books
<1> QED
  BY <1>2, <1>4, <1>5, <1>6 DEF Books, a

LEMMA BooksRemove ==
    ASSUME NEW s \in Seq(Msgs), NEW k \in DOMAIN s, NEW n, NEW c \in [Topics -> Nat], NEW d,
           Books(s, n, c, d)
    PROVE  /\ Books(RemoveAt(s, k), n - 1, [c EXCEPT ![TopicOf[s[k]]] = @ - 1], d \ {s[k]})
           /\ c[TopicOf[s[k]]] > 0
<1> USE InboundAssumption
<1> DEFINE r == RemoveAt(s, k)
<1>1. /\ DOMAIN s = 1 .. Len(s) /\ Len(s) \in Nat
      /\ r \in Seq(Msgs) /\ Len(r) = Len(s) - 1 /\ DOMAIN r = 1 .. Len(s) - 1
      /\ \A i \in 1 .. Len(s) - 1 : r[i] = IF i < k THEN s[i] ELSE s[i + 1]
  BY RemoveAtAt
<1>2. s[k] \in Msgs /\ TopicOf[s[k]] \in Topics /\ k \in 1 .. Len(s)
  <2>1. s[k] \in Msgs /\ k \in 1 .. Len(s)
    OBVIOUS
  <2> QED
    BY <2>1
<1> HIDE DEF r
<1>3. \A j \in DOMAIN s : j # k => \E i \in DOMAIN r : r[i] = s[j] /\ j = (IF i < k THEN i ELSE i + 1)
  <2> SUFFICES ASSUME NEW j \in DOMAIN s, j # k
               PROVE  \E i \in DOMAIN r : r[i] = s[j] /\ j = (IF i < k THEN i ELSE i + 1)
    OBVIOUS
  <2>1. CASE j < k
    BY <1>1, <1>2, <2>1
  <2>2. CASE j > k
    <3>1. j - 1 \in DOMAIN r /\ r[j - 1] = s[j] /\ ~(j - 1 < k) /\ j - 1 + 1 = j
      BY <1>1, <1>2, <2>2
    <3> QED
      BY <3>1
  <2> QED
    BY <1>1, <1>2, <2>1, <2>2
<1>4. ASSUME NEW t
      PROVE  Cardinality(OnTopic(r, t)) = Cardinality(OnTopic(s, t) \ {k})
  <2> DEFINE f == [i \in OnTopic(r, t) |-> IF i < k THEN i ELSE i + 1]
  <2>1. \A i \in DOMAIN r : r[i] = s[IF i < k THEN i ELSE i + 1] /\ (IF i < k THEN i ELSE i + 1) \in DOMAIN s \ {k}
    BY <1>1, <1>2
  <2>2. f \in [OnTopic(r, t) -> OnTopic(s, t) \ {k}]
    BY <2>1 DEF OnTopic
  <2>3. \A x, y \in OnTopic(r, t) : f[x] = f[y] => x = y
    <3>1. OnTopic(r, t) \subseteq Int
      BY <1>1 DEF OnTopic
    <3> QED
      BY <1>2, <3>1
  <2>4. \A y \in OnTopic(s, t) \ {k} : \E x \in OnTopic(r, t) : f[x] = y
    BY <1>3 DEF OnTopic
  <2>5. f \in Bijection(OnTopic(r, t), OnTopic(s, t) \ {k})
    <3> HIDE DEF f
    <3> QED
      BY <2>2, <2>3, <2>4 DEF Bijection, Injection, IsInjective, Surjection
  <2>6. IsFiniteSet(OnTopic(r, t))
    BY <1>1, OnTopicFinite
  <2>7. ExistsBijection(OnTopic(r, t), OnTopic(s, t) \ {k})
    BY <2>5 DEF ExistsBijection
  <2> QED
    BY <2>6, <2>7, FS_Bijection
<1>5. ASSUME NEW t \in Topics
      PROVE  /\ [c EXCEPT ![TopicOf[s[k]]] = @ - 1][t] = Cardinality(OnTopic(r, t))
             /\ t = TopicOf[s[k]] => c[t] > 0
  <2>1. IsFiniteSet(OnTopic(s, t)) /\ (k \in OnTopic(s, t) <=> TopicOf[s[k]] = t)
        /\ c[t] = Cardinality(OnTopic(s, t)) /\ c[t] \in Nat
    BY OnTopicFinite DEF OnTopic, Books
  <2>2. Cardinality(OnTopic(s, t) \ {k}) = IF k \in OnTopic(s, t) THEN Cardinality(OnTopic(s, t)) - 1
                                           ELSE Cardinality(OnTopic(s, t))
    BY <2>1, FS_RemoveElement
  <2>3. Cardinality(OnTopic(r, t)) \in Nat
    BY <1>1, OnTopicFinite
  <2> QED
    BY <1>2, <1>4, <2>1, <2>2, <2>3
<1>6. {m \in Range(r) : Qos[m] > 0} = d \ {s[k]}
  <2>1. \A i \in DOMAIN r : r[i] = s[IF i < k THEN i ELSE i + 1] /\ (IF i < k THEN i ELSE i + 1) \in DOMAIN s \ {k}
    BY <1>1, <1>2
  <2>2. Range(r) = {s[j] : j \in DOMAIN s \ {k}}
    BY <1>3, <2>1 DEF Range
  <2>3. d = {m \in {s[j] : j \in DOMAIN s} : Qos[m] > 0} /\ Unique(s)
    BY DEF Books, Range
  <2> QED
    BY <2>2, <2>3 DEF Unique
<1>7. Unique(r)
  <2> SUFFICES ASSUME NEW i \in DOMAIN r, NEW j \in DOMAIN r, r[i] = r[j], Qos[r[i]] > 0 PROVE i = j
    BY DEF Unique
  <2>1. /\ r[i] = s[IF i < k THEN i ELSE i + 1] /\ (IF i < k THEN i ELSE i + 1) \in DOMAIN s
        /\ r[j] = s[IF j < k THEN j ELSE j + 1] /\ (IF j < k THEN j ELSE j + 1) \in DOMAIN s
    BY <1>1, <1>2
  <2>2. (IF i < k THEN i ELSE i + 1) = (IF j < k THEN j ELSE j + 1)
    BY <2>1 DEF Books, Unique
  <2> QED
    BY <1>1, <1>2, <2>2
<1> QED
  BY <1>1, <1>2, <1>5, <1>6, <1>7 DEF Books, r

\* What the buffer owns when its drain is in state d and h is held.
Owned(d, h) ==
    d.unmatched \o (IF d.pc \in {"send", "discard"} THEN <<d.msg>> ELSE <<>>) \o d.pending \o h

LEMMA OwnedIs ==
    ASSUME NEW d \in DrainStates, d.pc \in {"send", "discard"} => d.msg \in Msgs, NEW h \in Seq(Msgs)
    PROVE  /\ Owned(d, h) \in Seq(Msgs)
           /\ d.pc \in {"send", "discard"} => /\ Owned(d, h) = d.unmatched \o <<d.msg>> \o d.pending \o h
                                              /\ Owned(d, h) = d.unmatched \o <<d.msg>> \o (d.pending \o h)
           /\ d.pc \notin {"send", "discard"} => Owned(d, h) = d.unmatched \o d.pending \o h
           /\ Owned(d, h) = Owned(d, <<>>) \o h /\ Owned(d, <<>>) \in Seq(Msgs)
<1> DEFINE u == d.unmatched
           p == d.pending
           x == d.msg
<1>1. u \in Seq(Msgs) /\ p \in Seq(Msgs) /\ (d.pc \in {"send", "discard"} => x \in Msgs)
  BY DEF DrainStates
<1>2. ASSUME d.pc \in {"send", "discard"}
      PROVE  Owned(d, h) = u \o <<x>> \o p \o h /\ Owned(d, <<>>) = u \o <<x>> \o p \o <<>>
  BY <1>2 DEF Owned
<1>3. ASSUME d.pc \notin {"send", "discard"}
      PROVE  Owned(d, h) = u \o <<>> \o p \o h /\ Owned(d, <<>>) = u \o <<>> \o p \o <<>>
  BY <1>3 DEF Owned
<1>4. SUFFICES
           /\ Owned(d, h) \in Seq(Msgs) /\ Owned(d, <<>>) \in Seq(Msgs)
           /\ d.pc \in {"send", "discard"} => /\ Owned(d, h) = u \o <<x>> \o p \o h
                                              /\ Owned(d, h) = u \o <<x>> \o (p \o h)
           /\ d.pc \notin {"send", "discard"} => Owned(d, h) = u \o p \o h
           /\ Owned(d, h) = Owned(d, <<>>) \o h
  OBVIOUS
<1> HIDE DEF u, p, x
<1>5. CASE d.pc \in {"send", "discard"}
  <2>1. /\ u \o <<x>> \o p \o h \in Seq(Msgs)
        /\ u \o <<x>> \o p \o h = u \o <<x>> \o (p \o h)
        /\ u \o <<x>> \o p \o h = (u \o <<x>> \o p \o <<>>) \o h
        /\ u \o <<x>> \o p \o <<>> \in Seq(Msgs)
    BY <1>1, <1>5, PartsWith
  <2> QED
    BY <1>2, <1>5, <2>1
<1>6. CASE d.pc \notin {"send", "discard"}
  <2>1. /\ u \o <<>> \o p \o h \in Seq(Msgs)
        /\ u \o <<>> \o p \o h = u \o p \o h
        /\ u \o <<>> \o p \o h = (u \o <<>> \o p \o <<>>) \o h
        /\ u \o <<>> \o p \o <<>> \in Seq(Msgs)
    BY <1>1, PartsWithout
  <2> QED
    BY <1>3, <1>6, <2>1
<1> QED
  BY <1>5, <1>6

LEMMA WaitingOwned ==
    ASSUME TypeInv
    PROVE  /\ Waiting = Owned(drain, held) /\ Waiting \in Seq(Msgs)
           /\ drain.unmatched \in Seq(Msgs) /\ drain.pending \in Seq(Msgs) /\ held \in Seq(Msgs)
           /\ drain.pc \in {"off", "woken"} => Waiting = held
<1>1. Waiting = Owned(drain, held)
  BY DEF Waiting, Owned
<1>2. /\ drain.unmatched \in Seq(Msgs) /\ drain.pending \in Seq(Msgs) /\ held \in Seq(Msgs)
      /\ drain \in DrainStates /\ (drain.pc \in {"send", "discard"} => drain.msg \in Msgs)
  BY DEF TypeInv, DrainOK, DrainStates, BufferOK
<1>3. ASSUME drain.pc \in {"off", "woken"} PROVE Waiting = held
  <2>1. Waiting = drain.unmatched \o drain.pending \o held
    BY <1>1, <1>2, <1>3, OwnedIs
  <2>2. drain.unmatched = <<>> /\ drain.pending = <<>>
    BY <1>3 DEF TypeInv, DrainOK
  <2> QED
    BY <1>2, <2>1, <2>2, ConcatEmptySeq
<1> QED
  BY <1>1, <1>2, <1>3, OwnedIs

\* The place the message in a drain's hand has in Waiting.
Place == Len(drain.unmatched) + 1

LEMMA PlaceOfMsg ==
    ASSUME TypeInv, drain.pc \in {"send", "discard"}
    PROVE  /\ Place \in DOMAIN Waiting /\ Waiting[Place] = drain.msg
           /\ RemoveAt(Waiting, Place) = drain.unmatched \o (drain.pending \o held)
<1>1. Waiting = drain.unmatched \o <<drain.msg>> \o (drain.pending \o held)
  BY WaitingOwned, OwnedIs DEF TypeInv, DrainOK, BufferOK
<1>2. drain.msg \in Msgs /\ drain.unmatched \in Seq(Msgs) /\ drain.pending \o held \in Seq(Msgs)
  BY WaitingOwned, ConcatIn DEF TypeInv, DrainOK
<1>3. PICK u \in Seq(Msgs), x \in Msgs, v \in Seq(Msgs) :
        u = drain.unmatched /\ x = drain.msg /\ v = drain.pending \o held
  BY <1>2
<1>4. Len(u) + 1 \in DOMAIN (u \o <<x>> \o v)
  BY MiddleAt
<1>5. (u \o <<x>> \o v)[Len(u) + 1] = x
  BY MiddleAt
<1>6. RemoveAt(u \o <<x>> \o v, Len(u) + 1) = u \o v
  BY RemoveMiddle
<1> QED
  BY <1>1, <1>3, <1>4, <1>5, <1>6 DEF Place

\* What a step does to the messages the buffer owns: nothing, although a drain
\* passes them from hand to hand; a message more; the one in the drain's hand
\* less; or all that is left is dropped.
LEMMA WaitingStep ==
    ASSUME TypeInv, [Next]_vars
    PROVE  \/ Waiting' = Waiting /\ UNCHANGED <<count, ids, topicCount>>
           \/ \E m \in Msgs : HandlePublishHold(m) /\ Waiting' = Append(Waiting, m)
           \/ (DrainSent \/ DrainSentLate) /\ Waiting' = RemoveAt(Waiting, Place)
           \/ (ExpireEnds \/ Reconnect) /\ Waiting' = <<>>
           \/ Teardown /\ \E rest \in Seq(Msgs) : Waiting = Waiting' \o rest
<1>0. TypeInv'
  BY NextTyped
<1>1. /\ Waiting = Owned(drain, held) /\ Waiting \in Seq(Msgs)
      /\ drain.unmatched \in Seq(Msgs) /\ drain.pending \in Seq(Msgs) /\ held \in Seq(Msgs)
      /\ drain.pc \in {"off", "woken"} => Waiting = held
      /\ drain \in DrainStates /\ (drain.pc \in {"send", "discard"} => drain.msg \in Msgs)
      /\ drain.pc \in {"off", "woken"} => drain.unmatched = <<>> /\ drain.pending = <<>>
  BY WaitingOwned DEF TypeInv, DrainOK
<1>2. /\ Waiting' = Owned(drain', held')
      /\ drain'.unmatched \in Seq(Msgs) /\ drain'.pending \in Seq(Msgs) /\ held' \in Seq(Msgs)
      /\ drain' \in DrainStates /\ (drain'.pc \in {"send", "discard"} => drain'.msg \in Msgs)
      /\ drain'.pc \in {"off", "woken"} => drain'.unmatched = <<>> /\ drain'.pending = <<>>
  BY <1>0 DEF TypeInv, DrainOK, DrainStates, BufferOK, Waiting, Owned
<1>3. ASSUME drain'.pc \in {"off", "woken"} PROVE Waiting' = held'
  <2>1. Waiting' = drain'.unmatched \o drain'.pending \o held'
    BY <1>2, <1>3, OwnedIs
  <2> QED
    BY <1>2, <1>3, <2>1, ConcatEmptySeq
<1>4. CASE UNCHANGED <<drain, held, count, ids, topicCount>>
  BY <1>1, <1>2, <1>4
<1>5. ASSUME NEW m \in Msgs, HandlePublishHold(m) PROVE Waiting' = Append(Waiting, m)
  <2>1. held' = Append(held, m) /\ drain' = drain
    BY <1>5 DEF HandlePublishHold
  <2>2. PICK o \in Seq(Msgs), h \in Seq(Msgs) : o = Owned(drain, <<>>) /\ h = held
    BY <1>1, OwnedIs
  <2>3. Owned(drain, held) = Owned(drain, <<>>) \o held /\ Owned(drain, held') = Owned(drain, <<>>) \o held'
    BY <1>1, <1>2, OwnedIs
  <2>4. <<m>> \in Seq(Msgs) /\ Append(h, m) = h \o <<m>> /\ Append(o \o h, m) = (o \o h) \o <<m>>
    BY AppendIsConcat, ConcatIn
  <2>5. (o \o h) \o <<m>> = o \o (h \o <<m>>)
    BY <2>4, ConcatAssociative
  <2> QED
    BY <1>1, <1>2, <2>1, <2>2, <2>3, <2>4, <2>5
<1>6. CASE (\E k \in Tasks : CallDrain(k)) \/ TimerFires
  <2>1. UNCHANGED <<held, count, ids, topicCount>> /\ (drain' = drain \/ (drain' = [NoDrain EXCEPT !.pc = "run"] /\ lock = <<>>))
    BY <1>6 DEF CallDrain, TimerFires, buffer
  <2>2. CASE drain' = drain
    BY <1>4, <2>1, <2>2
  <2>3. CASE drain' = [NoDrain EXCEPT !.pc = "run"] /\ lock = <<>>
    <3>1. drain.pc = "off"
      BY <2>3 DEF TypeInv, DrainOK
    <3>2. drain'.pc = "run" /\ drain'.unmatched = <<>> /\ drain'.pending = <<>>
      BY <2>3 DEF NoDrain
    <3>3. Waiting' = <<>> \o <<>> \o held
      BY <1>2, <2>1, <3>2, OwnedIs
    <3>4. Waiting' = held
      BY <1>1, <3>3, ConcatEmptySeq
    <3> QED
      BY <1>1, <2>1, <3>1, <3>4
  <2> QED
    BY <2>1, <2>2, <2>3
<1>7. CASE DrainBegins
  <2>1. UNCHANGED <<held, count, ids, topicCount>> /\ drain.pc = "woken" /\ drain' = [drain EXCEPT !.pc = "run"]
    BY <1>7 DEF DrainBegins, buffer
  <2>2. drain'.pc = "run" /\ drain'.unmatched = <<>> /\ drain'.pending = <<>>
    BY <1>1, <2>1 DEF DrainStates
  <2>3. Waiting' = drain'.unmatched \o drain'.pending \o held'
    BY <1>2, <2>2, OwnedIs
  <2>4. Waiting' = <<>> \o <<>> \o held
    BY <2>1, <2>2, <2>3
  <2> QED
    BY <1>1, <2>1, <2>4, ConcatEmptySeq
<1>8. CASE DrainSkips \/ DrainDelivers
  <2>1. drain.pc = "run" /\ UNCHANGED <<count, ids, topicCount>> /\ held' = Later /\ Batch # <<>>
    BY <1>8 DEF DrainSkips, DrainDelivers
  <2>2. Batch \in Seq(Msgs) /\ Later \in Seq(Msgs) /\ Waiting = drain.unmatched \o Batch \o Later
    <3>1. Waiting = drain.unmatched \o drain.pending \o held
      BY <1>1, <2>1, OwnedIs
    <3>2. CASE drain.pending # <<>>
      BY <1>1, <3>1, <3>2 DEF Batch, Later
    <3>3. CASE drain.pending = <<>>
      <4>1. drain.unmatched \o drain.pending = drain.unmatched /\ drain.unmatched \o held \o <<>> = drain.unmatched \o held
        BY <1>1, <3>3, ConcatEmptySeq, ConcatIn
      <4> QED
        BY <1>1, <3>1, <3>3, <4>1 DEF Batch, Later
    <3> QED
      BY <3>2, <3>3
  <2>3. CASE DrainSkips
    <3>1. drain'.pc = "run" /\ drain'.unmatched = Append(drain.unmatched, Head(Batch)) /\ drain'.pending = Tail(Batch)
      BY <1>1, <2>3 DEF DrainSkips, DrainStates
    <3>2. Waiting' = drain'.unmatched \o drain'.pending \o held'
      BY <1>2, <3>1, OwnedIs
    <3>3. Waiting' = Append(drain.unmatched, Head(Batch)) \o Tail(Batch) \o Later
      BY <2>1, <3>1, <3>2
    <3>4. PICK u \in Seq(Msgs), b \in Seq(Msgs), l \in Seq(Msgs) :
            u = drain.unmatched /\ b = Batch /\ l = Later
      BY <1>1, <2>2
    <3>5. Append(u, Head(b)) \o Tail(b) \o l = u \o b \o l
      <4>1. b # <<>>
        BY <2>1, <3>4
      <4> QED
        BY <4>1, MoveFirst
    <3> QED
      BY <2>1, <2>2, <3>3, <3>4, <3>5
  <2>4. CASE DrainDelivers
    <3>1. /\ drain'.pc \in {"send", "discard"} /\ drain'.msg = Head(Batch)
          /\ drain'.unmatched = drain.unmatched /\ drain'.pending = Tail(Batch)
      BY <1>1, <2>4 DEF DrainDelivers, DrainStates
    <3>2. Waiting' = drain'.unmatched \o <<drain'.msg>> \o drain'.pending \o held'
      BY <1>2, <3>1, OwnedIs
    <3>3. Waiting' = drain.unmatched \o <<Head(Batch)>> \o Tail(Batch) \o Later
      BY <2>1, <3>1, <3>2
    <3>4. PICK u \in Seq(Msgs), b \in Seq(Msgs), l \in Seq(Msgs) :
            u = drain.unmatched /\ b = Batch /\ l = Later
      BY <1>1, <2>2
    <3>5. u \o <<Head(b)>> \o Tail(b) \o l = u \o b \o l
      <4>1. b # <<>>
        BY <2>1, <3>4
      <4> QED
        BY <4>1, MoveFirst
    <3> QED
      BY <2>1, <2>2, <3>3, <3>4, <3>5
  <2> QED
    BY <1>8, <2>3, <2>4
<1>9. CASE DrainSent
  <2>1. /\ drain.pc \in {"send", "discard"} /\ held' = held /\ drain'.pc = "run"
        /\ drain'.unmatched = drain.unmatched /\ drain'.pending = drain.pending
    BY <1>1, <1>9 DEF DrainSent, DrainStates
  <2>2. Waiting' = drain.unmatched \o drain.pending \o held
    BY <1>2, <2>1, OwnedIs
  <2>3. PICK u \in Seq(Msgs), p \in Seq(Msgs), h \in Seq(Msgs) :
          u = drain.unmatched /\ p = drain.pending /\ h = held
    BY <1>1
  <2>4. u \o p \o h = u \o (p \o h)
    BY ConcatAssociative
  <2> QED
    BY <1>9, <2>1, <2>2, <2>3, <2>4, PlaceOfMsg
<1>10. CASE DrainSentLate \/ DrainSendFails \/ CancelDrain
  <2>1. PICK back \in Seq(Msgs) : DrainRaises(back) /\ back = IF DrainSentLate THEN <<>> ELSE <<drain.msg>>
    <3>1. drain.pc \in {"send", "discard"} /\ <<>> \in Seq(Msgs)
      BY <1>10 DEF DrainSentLate, DrainSendFails, CancelDrain
    <3>2. <<drain.msg>> \in Seq(Msgs)
      BY <1>1, <3>1
    <3> QED
      BY <1>10, <3>1, <3>2 DEF DrainSentLate, DrainSendFails, CancelDrain
  <2>2. held' = drain.unmatched \o back \o drain.pending \o held /\ drain' = Woken(Tail(lock))
    BY <2>1 DEF DrainRaises
  <2>3. drain'.pc \in {"off", "woken"}
    BY <2>2 DEF Woken, NoDrain
  <2>4. drain.pc \in {"send", "discard"} /\ (~DrainSentLate => UNCHANGED <<count, ids, topicCount>>)
    BY <1>10 DEF DrainSentLate, DrainSendFails, CancelDrain
  <2>5. CASE ~DrainSentLate
    <3>1. back = <<drain.msg>>
      BY <2>1, <2>5
    <3>2. Waiting = drain.unmatched \o <<drain.msg>> \o drain.pending \o held
      BY <1>1, <2>4, OwnedIs
    <3>3. Waiting' = Waiting
      BY <1>3, <2>2, <2>3, <3>1, <3>2
    <3> QED
      BY <2>4, <2>5, <3>3
  <2>6. CASE DrainSentLate
    <3>1. held' = drain.unmatched \o <<>> \o drain.pending \o held
      BY <2>1, <2>2, <2>6
    <3>2. PICK u \in Seq(Msgs), p \in Seq(Msgs), h \in Seq(Msgs) :
            u = drain.unmatched /\ p = drain.pending /\ h = held
      BY <1>1
    <3>3. u \o <<>> \o p \o h = u \o (p \o h)
      BY PartsWithout
    <3> QED
      BY <1>3, <2>3, <2>4, <2>6, <3>1, <3>2, <3>3, PlaceOfMsg
  <2> QED
    BY <2>5, <2>6
<1>11. CASE DrainEnds
  <2>1. /\ drain.pc = "run" /\ held' = drain.unmatched /\ UNCHANGED <<count, ids, topicCount>>
        /\ drain' \in {NoDrain, Woken(Tail(lock))} /\ Batch = <<>>
    BY <1>11 DEF DrainEnds
  <2>2. drain.pending = <<>> /\ held = <<>>
    BY <2>1 DEF Batch
  <2>3. Waiting = drain.unmatched \o drain.pending \o held
    BY <1>1, <2>1, OwnedIs
  <2>4. Waiting = drain.unmatched
    BY <1>1, <2>2, <2>3, ConcatEmptySeq
  <2>5. drain'.pc \in {"off", "woken"}
    BY <2>1 DEF Woken, NoDrain
  <2> QED
    BY <1>3, <2>1, <2>4, <2>5
<1>12. CASE ExpireEnds
  <2>1. held' = <<>> /\ drain'.pc = "off"
    BY <1>12 DEF ExpireEnds, NoDrain
  <2> QED
    BY <1>3, <1>12, <2>1
<1>13. CASE Reconnect
  <2>1. held' = <<>> /\ drain' = drain /\ lock = <<>>
    BY <1>13 DEF Reconnect
  <2>2. drain.pc = "off"
    BY <2>1 DEF TypeInv, DrainOK
  <2> QED
    BY <1>3, <1>13, <2>1, <2>2
<1>14. CASE Teardown
  <2>1. held' = <<>> /\ FreeLoop
    BY <1>14 DEF Teardown
  <2>2. CASE drain.pc = "send"
    <3>1. drain' = drain
      BY <1>14, <2>2 DEF Teardown
    <3>2. Waiting' = Owned(drain, <<>>)
      BY <1>2, <2>1, <3>1
    <3>3. Waiting = Waiting' \o held
      BY <1>1, <3>2, OwnedIs
    <3> QED
      BY <1>1, <1>14, <3>3
  <2>3. CASE drain.pc # "send"
    <3>1. drain' = Woken(WithoutExpiry(lock)) /\ drain.pc \in {"off", "woken"}
      BY <1>1, <1>14, <2>1, <2>3 DEF Teardown, FreeLoop, DrainStates
    <3>2. drain'.pc \in {"off", "woken"}
      BY <3>1 DEF Woken, NoDrain
    <3>3. Waiting' = <<>> /\ Waiting = held
      BY <1>1, <1>3, <2>1, <3>1, <3>2
    <3>4. Waiting = Waiting' \o held
      BY <1>1, <3>3, ConcatEmptySeq
    <3> QED
      BY <1>1, <1>14, <3>4
  <2> QED
    BY <2>2, <2>3
<1>15. CASE CancelCall
  <2>1. UNCHANGED <<held, count, ids, topicCount>>
    BY <1>15, CallCancelled DEF buffer
  <2>2. drain' = drain \/ (drain.pc = "woken" /\ \E l : drain' = Woken(l))
    BY <1>15, CallCancelled
  <2>3. \A l : Woken(l).pc \in {"off", "woken"}
    BY DEF Woken, NoDrain
  <2> QED
    BY <1>1, <1>3, <1>4, <2>1, <2>2, <2>3
<1> QED
  BY <1>4, <1>5, <1>6, <1>7, <1>8, <1>9, <1>10, <1>11, <1>12, <1>13, <1>14, <1>15
     DEF Next, vars, Reader, Drainer, HandlePublish, BrokerSends, BrokerRepeats, BrokerTakesAck,
         HandlePublishKnown, HandlePublishWaiting, HandlePublishDeliver, HandlePublishBlock,
         HandlePublishOverflow, HandlePubrel, HandlePubrelUnknown, buffer,
         HandleSuback, ReaderPut, ReaderCompletes, Subscribe, GetMessage, Ack, LoseConnection

ReplayState ==
    \/ replay = "buffered" /\ (count > 0 \/ lock # <<>>) /\ (timer # "off" \/ conn # "up")
    \/ replay # "buffered" /\ count = 0 /\ timer = "off" /\ lock = <<>>

\* A drain that waits for its turn has something to drain.
WokenCounts == drain.pc = "woken" => count > 0

\* clear() empties the tables when run() ends, although a drain that is suspended
\* in a write still has its messages.
BooksInv ==
    /\ conn = "dead" => timer = "off" /\ replay # "buffered"
    /\ conn # "dead" => /\ Books(Waiting, count, topicCount, ids)
                        /\ BufferSize > 0 => count <= BufferSize
                        /\ ReplayState
                        /\ WokenCounts

\* Only Reconnect leaves "dead", and only Teardown enters it.
LEMMA ConnStays == ASSUME [Next]_vars, ~Reconnect, conn' # "dead" PROVE conn # "dead"
  BY DEF Next, vars, link, Reader, Drainer, HandlePublish, BrokerSends, BrokerRepeats, BrokerTakesAck,
         HandlePublishKnown, HandlePublishWaiting, HandlePublishDeliver, HandlePublishBlock,
         HandlePublishHold, HandlePublishOverflow, HandlePubrel, HandlePubrelUnknown, Reading,
         HandleSuback, ReaderPut, ReaderCompletes, Subscribe, GetMessage, Ack, CallDrain, TimerFires,
         DrainBegins, DrainSkips, DrainDelivers, DrainEnds, ExpireEnds, DrainSent, DrainSentLate,
         DrainSendFails, CancelDrain,
         CancelCall, CancelGet, CancelWait,
         LoseConnection, Teardown

LEMMA DeadByTeardown == ASSUME [Next]_vars, ~Teardown, conn' = "dead" PROVE conn = "dead"
  BY DEF Next, vars, link, Reader, Drainer, HandlePublish, BrokerSends, BrokerRepeats, BrokerTakesAck,
         HandlePublishKnown, HandlePublishWaiting, HandlePublishDeliver, HandlePublishBlock,
         HandlePublishHold, HandlePublishOverflow, HandlePubrel, HandlePubrelUnknown, Reading,
         HandleSuback, ReaderPut, ReaderCompletes, Subscribe, GetMessage, Ack, CallDrain, TimerFires,
         DrainBegins, DrainSkips, DrainDelivers, DrainEnds, ExpireEnds, DrainSent, DrainSentLate,
         DrainSendFails, CancelDrain,
         CancelCall, CancelGet, CancelWait,
         LoseConnection, Reconnect

LEMMA WaitingTypedNext == ASSUME TypeInv' PROVE Waiting' \in Seq(Msgs)
<1>1. /\ Waiting' = Owned(drain', held') /\ held' \in Seq(Msgs)
      /\ drain' \in DrainStates /\ (drain'.pc \in {"send", "discard"} => drain'.msg \in Msgs)
  BY DEF TypeInv, DrainOK, BufferOK, Waiting, Owned
<1> QED
  BY <1>1, OwnedIs

LEMMA BooksKept ==
    ASSUME TypeInv, BooksInv, [Next]_vars, conn' # "dead"
    PROVE  Books(Waiting, count, topicCount, ids)' /\ (BufferSize > 0 => count' <= BufferSize)
<1> USE InboundAssumption
<1>0. /\ Waiting \in Seq(Msgs) /\ topicCount \in [Topics -> Nat] /\ count \in Int
  BY WaitingOwned DEF TypeInv, BufferOK
<1>1. CASE Reconnect
  <2>1. count' = 0 /\ topicCount' = [t \in Topics |-> 0] /\ ids' = {} /\ lock = <<>> /\ drain' = drain /\ held' = <<>>
    BY <1>1 DEF Reconnect
  <2>2. drain.pc = "off" /\ drain.unmatched = <<>> /\ drain.pending = <<>>
    BY <2>1 DEF TypeInv, DrainOK
  <2>3. Waiting' = <<>> \o <<>> \o <<>> \o <<>>
    BY <2>1, <2>2 DEF Waiting
  <2>4. Waiting' = <<>>
    BY <2>3
  <2> QED
    BY <2>1, <2>4, NoBooks
<1>2. CASE ~Reconnect
  <2>1. conn # "dead"
    BY <1>2, ConnStays
  <2>2. Books(Waiting, count, topicCount, ids) /\ (BufferSize > 0 => count <= BufferSize) /\ ReplayState
    BY <2>1 DEF BooksInv
  <2>3. CASE Waiting' = Waiting /\ UNCHANGED <<count, ids, topicCount>>
    BY <2>2, <2>3
  <2>4. ASSUME NEW m \in Msgs, HandlePublishHold(m), Waiting' = Append(Waiting, m)
        PROVE  Books(Waiting, count, topicCount, ids)' /\ (BufferSize > 0 => count' <= BufferSize)
    <3>1. /\ count' = count + 1 /\ topicCount' = [topicCount EXCEPT ![TopicOf[m]] = @ + 1]
          /\ ids' = (IF Qos[m] > 0 THEN ids \cup {m} ELSE ids)
          /\ New(m) /\ ~Overflows
      BY <2>4 DEF HandlePublishHold
    <3>2. replay # "buffered" => count = 0 /\ ids = {}
      <4>1. SUFFICES ASSUME replay # "buffered" PROVE count = 0 /\ ids = {}
        OBVIOUS
      <4>2. count = 0
        BY <2>2, <4>1 DEF ReplayState
      <4>3. Waiting = <<>>
        BY <1>0, <2>2, <4>2, EmptySeq DEF Books
      <4>4. ids = {}
        BY <2>2, <4>3 DEF Books, Range
      <4> QED
        BY <4>2, <4>4
    <3>3. m \notin ids
      BY <3>1, <3>2 DEF New, ContainsPacketId
    <3>4. BufferSize > 0 => count' <= BufferSize
      BY <1>0, <2>2, <3>1, <3>2 DEF Overflows
    <3> QED
      BY <1>0, <2>2, <2>4, <3>1, <3>3, <3>4, BooksAppend
  <2>5. CASE (DrainSent \/ DrainSentLate) /\ Waiting' = RemoveAt(Waiting, Place)
    <3>1. drain.pc \in {"send", "discard"}
      BY <2>5 DEF DrainSent, DrainSentLate
    <3>2. Place \in DOMAIN Waiting /\ Waiting[Place] = drain.msg
      BY <3>1, PlaceOfMsg
    <3>3. /\ Books(RemoveAt(Waiting, Place), count - 1,
                   [topicCount EXCEPT ![TopicOf[drain.msg]] = @ - 1], ids \ {drain.msg})
          /\ topicCount[TopicOf[drain.msg]] > 0
      BY <1>0, <2>2, <3>2, BooksRemove
    <3>4. DrainSent
      BY <2>5, <3>3 DEF DrainSentLate
    <3>5. /\ count' = count - 1 /\ ids' = ids \ {drain.msg}
          /\ topicCount' = [topicCount EXCEPT ![TopicOf[drain.msg]] = @ - 1]
      BY <3>4 DEF DrainSent, Discard
    <3> QED
      BY <1>0, <2>2, <2>5, <3>3, <3>5
  <2>6. CASE ExpireEnds /\ Waiting' = <<>>
    <3>1. count' = 0 /\ topicCount' = [t \in Topics |-> 0] /\ ids' = {}
      BY <2>6 DEF ExpireEnds
    <3> QED
      BY <2>6, <3>1, NoBooks
  <2>7. ~Teardown
    BY DEF Teardown
  <2> QED
    BY <1>2, <2>3, <2>4, <2>5, <2>6, <2>7, WaitingStep
<1> QED
  BY <1>1, <1>2

LEMMA ReplayStateKept ==
    ASSUME TypeInv, BooksInv, [Next]_vars, conn' # "dead"
    PROVE  ReplayState'
<1>0. count' = Len(Waiting') /\ Len(Waiting') \in Nat
  <2>1. Waiting' \in Seq(Msgs)
    BY NextTyped, WaitingTypedNext
  <2> QED
    BY <2>1, BooksKept, LenProperties DEF Books
<1>1. CASE Reconnect
  BY <1>1 DEF Reconnect, BooksInv, ReplayState
<1>2. CASE ~Reconnect
  <2>1. conn # "dead"
    BY <1>2, ConnStays
  <2>2. ReplayState /\ count = Len(Waiting) /\ Len(Waiting) \in Nat
    BY <2>1, WaitingOwned, LenProperties DEF BooksInv, Books
  <2>3. drain.pc = "off" <=> lock = <<>>
    BY DEF TypeInv, DrainOK
  <2>4. ASSUME UNCHANGED <<replay, count, timer, lock, conn>> PROVE ReplayState'
    BY <2>2, <2>4 DEF ReplayState
  <2>5. ASSUME NEW m \in Msgs, HandlePublishHold(m) PROVE ReplayState'
    BY <2>2, <2>5 DEF ReplayState, HandlePublishHold, ArmedTimer
  <2>6. ASSUME UNCHANGED <<replay, count, timer, lock>>, conn' = "broken" PROVE ReplayState'
    BY <2>2, <2>6 DEF ReplayState
  <2>7. ASSUME NEW k \in Tasks, CallDrain(k) PROVE ReplayState'
    <3>1. lock \in Seq(Tasks) /\ Append(lock, k) # <<>>
      BY AppendProperties DEF TypeInv, DrainOK
    <3> QED
      BY <2>2, <2>7, <3>1 DEF ReplayState, CallDrain, Drains, buffer, link
  <2>8. CASE TimerFires
    <3>1. lock \in Seq(Tasks) /\ Expiry \in Tasks
      BY DEF TypeInv, DrainOK, Tasks
    <3>2. Append(lock, Expiry) # <<>>
      BY <3>1, AppendProperties
    <3> QED
      BY <2>2, <2>8, <3>2 DEF ReplayState, TimerFires, link
  <2>9. CASE DrainSent
    BY <2>2, <2>3, <2>9, <1>0 DEF ReplayState, DrainSent, Discard, link
  <2>10. CASE DrainSentLate \/ DrainSendFails \/ CancelDrain
    <3>1. drain.pc \in {"send", "discard"}
      BY <2>10 DEF DrainSentLate, DrainSendFails, CancelDrain
    <3>2. topicCount[TopicOf[drain.msg]] > 0 /\ Place \in DOMAIN Waiting
      <4>1. Books(Waiting, count, topicCount, ids) /\ topicCount \in [Topics -> Nat]
        BY <2>1 DEF BooksInv, TypeInv, BufferOK
      <4> QED
        BY <3>1, <4>1, PlaceOfMsg, BooksRemove, WaitingOwned
    <3>3. count > 0
      BY <2>2, <3>2, WaitingOwned
    <3>4. DrainSendFails \/ CancelDrain
      BY <2>10, <3>2 DEF DrainSentLate
    <3>5. /\ UNCHANGED <<count, replay>> /\ timer' = (IF Head(lock) = Expiry THEN "off" ELSE timer)
          /\ (Head(lock) = Expiry => conn' # "up") /\ (conn # "up" => conn' # "up")
      BY <3>4 DEF DrainSendFails, CancelDrain, DrainRaises
    <3> QED
      BY <2>2, <2>3, <3>1, <3>3, <3>5 DEF ReplayState
  <2>11. CASE DrainEnds
    BY <2>2, <2>3, <2>11 DEF DrainEnds, ReplayState, link
  <2>12. CASE ExpireEnds
    BY <2>12 DEF ExpireEnds, ReplayState
  <2>13. ~Teardown
    BY DEF Teardown
  <2>14. CASE CancelCall
    <3>1. UNCHANGED <<replay, count, timer, conn>>
      BY <2>14, CallCancelled DEF buffer
    <3>2. lock' = lock \/ (lock # <<>> /\ count > 0) \/ (lock # <<>> /\ lock' # <<>>)
      <4>1. CASE lock' = lock
        BY <4>1
      <4>2. ASSUME NEW i \in DOMAIN lock, lock' = RemoveAt(lock, i), i = 1 => drain.pc = "woken"
            PROVE  lock # <<>> /\ (count > 0 \/ lock' # <<>>)
        <5>1. lock \in Seq(Tasks)
          BY DEF TypeInv, DrainOK
        <5>2. Len(lock') = Len(lock) - 1 /\ i \in 1 .. Len(lock) /\ Len(lock) \in Nat
          BY <4>2, <5>1, RemoveAtAt
        <5>3. lock # <<>>
          BY <5>1, <5>2
        <5>4. CASE i = 1
          BY <2>1, <4>2, <5>3, <5>4 DEF BooksInv, WokenCounts
        <5>5. CASE i # 1
          <6>1. Len(lock') # 0
            BY <5>2, <5>5
          <6> QED
            BY <5>3, <6>1
        <5> QED
          BY <5>4, <5>5
      <4> QED
        BY <2>14, <4>1, <4>2, CallCancelled
    <3> QED
      BY <2>2, <3>1, <3>2 DEF ReplayState
  <2> QED
    BY <1>2, <2>4, <2>5, <2>6, <2>7, <2>8, <2>9, <2>10, <2>11, <2>12, <2>13, <2>14
     DEF Next, vars, Reader, Drainer, HandlePublish, BrokerSends, BrokerRepeats, BrokerTakesAck,
         HandlePublishKnown, HandlePublishWaiting, HandlePublishDeliver, HandlePublishBlock,
         HandlePublishOverflow, HandlePubrel, HandlePubrelUnknown, buffer, link, DrainBegins, DrainSkips,
         DrainDelivers, HandleSuback, ReaderPut, ReaderCompletes, Subscribe, GetMessage, Ack, LoseConnection
<1> QED
  BY <1>1, <1>2

LEMMA WokenKept ==
    ASSUME TypeInv, BooksInv, [Next]_vars, conn' # "dead"
    PROVE  WokenCounts'
<1> USE DEF WokenCounts
<1>0. drain \in DrainStates /\ (drain.pc = "off" <=> lock = <<>>)
  BY DEF TypeInv, DrainOK
<1>1. CASE Reconnect
  BY <1>0, <1>1 DEF Reconnect
<1>2. CASE ~Reconnect
  <2>1. conn # "dead"
    BY <1>2, ConnStays
  <2>2. ReplayState /\ WokenCounts /\ count = Len(Waiting) /\ count \in Nat
        /\ Books(Waiting, count, topicCount, ids) /\ topicCount \in [Topics -> Nat]
    BY <2>1, WaitingOwned, LenProperties DEF BooksInv, Books, TypeInv, BufferOK
  <2>3. CASE UNCHANGED <<drain, count>>
    BY <2>2, <2>3
  <2>4. ASSUME NEW m \in Msgs, HandlePublishHold(m) PROVE WokenCounts'
    BY <2>2, <2>4 DEF HandlePublishHold
  <2>5. CASE (\E k \in Tasks : CallDrain(k)) \/ TimerFires
    BY <2>2, <2>5 DEF CallDrain, TimerFires, NoDrain, buffer
  <2>6. CASE DrainBegins \/ DrainSkips \/ DrainDelivers \/ DrainSent
    BY <1>0, <2>6 DEF DrainBegins, DrainSkips, DrainDelivers, DrainSent, DrainStates
  <2>7. CASE DrainSentLate \/ DrainSendFails \/ CancelDrain
    <3>1. drain.pc \in {"send", "discard"}
      BY <2>7, RaisesWith
    <3>2. Place \in DOMAIN Waiting /\ Waiting[Place] = drain.msg
      BY <3>1, PlaceOfMsg
    <3>3. topicCount[TopicOf[drain.msg]] > 0
      BY <2>2, <3>2, BooksRemove, WaitingOwned
    <3>4. count > 0
      BY <2>2, <3>2, WaitingOwned
    <3>5. count' = count
      BY <2>7, <3>3 DEF DrainSentLate, DrainSendFails, CancelDrain
    <3> QED
      BY <3>4, <3>5
  <2>8. CASE DrainEnds
    <3>1. lock # <<>> /\ count' = count
      BY <1>0, <2>8 DEF DrainEnds
    <3>2. replay = "buffered"
      BY <2>2, <3>1 DEF ReplayState
    <3>3. count # 0 \/ drain' = NoDrain
      BY <2>8, <3>2 DEF DrainEnds
    <3> QED
      BY <2>2, <3>1, <3>3 DEF NoDrain
  <2>9. CASE ExpireEnds
    BY <2>9 DEF ExpireEnds, NoDrain
  <2>10. CASE CancelCall
    <3>1. count' = count /\ (drain' = drain \/ drain.pc = "woken")
      BY <2>10, CallCancelled DEF buffer
    <3> QED
      BY <2>2, <3>1
  <2>11. ~Teardown
    BY DEF Teardown
  <2> QED
    BY <1>2, <2>3, <2>4, <2>5, <2>6, <2>7, <2>8, <2>9, <2>10, <2>11
     DEF Next, vars, Reader, Drainer, HandlePublish, BrokerSends, BrokerRepeats, BrokerTakesAck,
         HandlePublishKnown, HandlePublishWaiting, HandlePublishDeliver, HandlePublishBlock,
         HandlePublishOverflow, HandlePubrel, HandlePubrelUnknown, buffer,
         HandleSuback, ReaderPut, ReaderCompletes, Subscribe, GetMessage, Ack, LoseConnection
<1> QED
  BY <1>1, <1>2

LEMMA NextBooks == TypeInv /\ BooksInv /\ [Next]_vars => BooksInv'
<1> SUFFICES ASSUME TypeInv, BooksInv, [Next]_vars PROVE BooksInv'
  OBVIOUS
<1>1. ASSUME conn' = "dead" PROVE timer' = "off" /\ replay' # "buffered"
  <2>1. CASE Teardown
    BY <2>1 DEF Teardown
  <2>2. CASE ~Teardown
    <3>1. conn = "dead"
      BY <1>1, <2>2, DeadByTeardown
    <3>2. timer = "off" /\ replay # "buffered"
      BY <3>1 DEF BooksInv
    <3>3. CASE UNCHANGED <<timer, replay>>
      BY <3>2, <3>3
    <3>4. CASE DrainSentLate \/ DrainSendFails \/ CancelDrain
      BY <3>2, <3>4 DEF DrainSentLate, DrainSendFails, CancelDrain, DrainRaises
    <3>5. CASE DrainEnds \/ ExpireEnds
      BY <3>2, <3>5 DEF DrainEnds, ExpireEnds
    <3>6. CancelCall => UNCHANGED <<timer, replay>>
      BY CallCancelled DEF buffer
    <3> QED
      BY <1>1, <2>2, <3>1, <3>2, <3>3, <3>4, <3>5, <3>6
     DEF Next, vars, Reader, Drainer, HandlePublish, BrokerSends, BrokerRepeats, BrokerTakesAck,
         HandlePublishKnown, HandlePublishWaiting, HandlePublishDeliver, HandlePublishBlock,
         HandlePublishHold, Reading, CallDrain, TimerFires, DrainSent, Reconnect,
         HandlePublishOverflow, HandlePubrel, HandlePubrelUnknown, buffer, link, DrainBegins, DrainSkips,
         DrainDelivers, HandleSuback, ReaderPut, ReaderCompletes, Subscribe, GetMessage, Ack, LoseConnection
  <2> QED
    BY <2>1, <2>2
<1> QED
  BY <1>1, BooksKept, ReplayStateKept, WokenKept DEF BooksInv

LEMMA InitBooks == Init => BooksInv
<1> SUFFICES ASSUME Init PROVE BooksInv
  OBVIOUS
<1>1. Waiting = <<>> \o <<>> \o <<>> \o <<>>
  BY DEF Init, Waiting, NoDrain
<1>2. Waiting = <<>>
  BY <1>1
<1> QED
  BY <1>2, NoBooks, InboundAssumption DEF Init, BooksInv, ReplayState, WokenCounts, NoDrain

\* The replay buffer's books: its counters and packet identifiers describe
\* exactly the messages it owns, also those a drain has in its hands, it keeps
\* to session_replay_buffer_size, and whatever it holds has a timer
\* (_PersistentReplayBuffered: accept, _discard, drain, expire, clear).
THEOREM BooksAreKept == Spec => []ReplayBookkeeping
<1>1. Init => TypeInv /\ BooksInv
  BY InitTyped, InitBooks
<1>2. TypeInv /\ BooksInv /\ [Next]_vars => (TypeInv /\ BooksInv)'
  BY NextTyped, NextBooks
<1>3. TypeInv /\ BooksInv /\ TypeOK => ReplayBookkeeping
  BY DEF BooksInv, ReplayBookkeeping, Books, OnTopic, ReplayState
<1> QED
  BY <1>1, <1>2, <1>3, TypeCorrect, PTL DEF Spec

-----------------------------------------------------------------------------
(***************************************************************************)
(* A QoS 2 message is delivered once.  What makes a second delivery        *)
(* impossible is, for a message that has been delivered or is about to be, *)
(* its identifier in one of the tables, or, once PUBREL has removed it     *)
(* from them, the order of the wire: the broker is done with PUBLISH.      *)
(***************************************************************************)
Qos2       == {m \in Msgs : Qos[m] = 2}
Manual(m)  == TopicOf[m] \in ManualAck
Owns(m)    == \E i \in DOMAIN Waiting : Waiting[i] = m
Is(p, kind, m) == p.kind = kind /\ p.of = m
Coming(m)  == \E i \in DOMAIN wire : Is(wire[i], "publish", m)
InHand(m)  == drain.pc \in {"send", "discard"} /\ drain.msg = m
Busy(m)    == reader.pc # "idle" /\ reader.msg = m
Quiet      == conn \in {"lost", "dead"} \/ failure # "none"   \* no PUBREL is handled any more
Over2(s)   == s \in {"released", "done", "dropped"}
Closed(m)  == Over2(status[m]) /\ ~Coming(m)
Untouched(m) == puts[m] = 0 /\ inflight[m] = "none" /\ m \notin pendingAck /\ ~Busy(m)

WireInv ==
    /\ conn = "dead" => wire = <<>> /\ acks = <<>> /\ reader = Idle
    /\ \A m \in Qos2 : \A i \in DOMAIN wire :
         Is(wire[i], "pubrel", m) =>
           /\ status[m] \in {"released", "done"}
           /\ \A j \in DOMAIN wire : j > i => ~Is(wire[j], "publish", m)

SeenInv ==
    conn # "dead" => \A m \in Qos2 :
      Coming(m) \/ (\E i \in DOMAIN acks : acks[i].of = m) \/ Owns(m) \/ ~Untouched(m)
      => status[m] \in {"sent", "released", "done"}

ManualInv ==
    /\ \A m \in Qos2 : /\ m \in pendingAck \/ inflight[m] = "delivered" => Manual(m)
                       /\ inflight[m] = "subscription" => ~Manual(m)
    /\ \A m \in Responses : Owns(m) => requests[m] # "waiting"
    /\ \A e \in unacked : Manual(e[1])

OnceFor(m) ==
    /\ puts[m] <= 1
    /\ Busy(m) => puts[m] = 0
    /\ Busy(m) /\ reader.pc = "put" => m \in pendingAck /\ inflight[m] = "none" /\ ~Owns(m)
    /\ Busy(m) /\ reader.pc = "completing" => Closed(m) /\ (inflight[m] = "none" \/ Quiet)
    /\ puts[m] > 0 => m \in pendingAck \/ inflight[m] = "delivered" \/ Closed(m)
    /\ puts[m] > 0 => inflight[m] \notin Rcpts \/ Quiet
    /\ Owns(m) => InHand(m) \/ Quiet \/ Untouched(m)
    /\ Owns(m) /\ Manual(m) => InHand(m) \/ Untouched(m)
    /\ InHand(m) /\ Manual(m) => drain.pc = "discard"

GoneFor(m) == m \in before /\ ~Manual(m) => Closed(m) /\ Untouched(m) /\ ~Owns(m)

OnceInv == cancels = 0 => \A m \in Qos2 : OnceFor(m) /\ GoneFor(m)
UniqueInv == Unique(Waiting)

LEMMA WireStep ==
    ASSUME TypeInv, [Next]_vars, ~Teardown, ~Reconnect
    PROVE  \/ wire' = wire
           \/ wire # <<>> /\ wire' = Tail(wire)
           \/ \E p \in Packets : wire' = Append(wire, p) /\ p.kind = "suback"
           \/ \E m \in Msgs : (BrokerSends(m) \/ BrokerRepeats(m)) /\ wire' = Append(wire, Packet("publish", m))
           \/ /\ BrokerTakesAck /\ Head(acks).kind = "pubrec"
              /\ wire' = Append(wire, Packet("pubrel", Head(acks).of))
<1>1. ASSUME NEW t \in Topics, Subscribe(t)
      PROVE  \E p \in Packets : wire' = Append(wire, p) /\ p.kind = "suback"
  <2>1. Packet("suback", t) \in Packets /\ Packet("suback", t).kind = "suback"
    BY DEF Packet, Packets
  <2> QED
    BY <1>1, <2>1 DEF Subscribe
<1>2. ASSUME NEW kind, NEW x, Reading(kind, x) PROVE wire # <<>> /\ wire' = Tail(wire)
  BY <1>2 DEF Reading
<1>3. CASE BrokerTakesAck
  BY <1>3 DEF BrokerTakesAck
<1>4. ASSUME NEW m \in Msgs, BrokerSends(m) \/ BrokerRepeats(m) PROVE wire' = Append(wire, Packet("publish", m))
  BY <1>4 DEF BrokerSends, BrokerRepeats
<1> QED
  BY <1>1, <1>2, <1>3, <1>4
     DEF Next, vars, broker, Reader, Drainer, HandlePublish, HandlePublishKnown, HandlePublishWaiting,
         HandlePublishDeliver, HandlePublishBlock, HandlePublishHold, HandlePublishOverflow,
         HandlePubrel, HandlePubrelUnknown, HandleSuback, ReaderPut, ReaderCompletes, GetMessage,
         Ack, CallDrain, TimerFires, DrainBegins, DrainSkips, DrainDelivers, DrainEnds, ExpireEnds,
         DrainSent, DrainSentLate, DrainSendFails, CancelDrain,
         CancelCall, CancelGet, CancelWait,
         DrainRaises, LoseConnection

PacketIs == \A kind, x, k, y : Is(Packet(kind, x), k, y) <=> kind = k /\ x = y

LEMMA PacketIsLemma == PacketIs
  BY DEF PacketIs, Is, Packet

\* A repeated PUBREL: what a reconnected broker has written.
LEMMA WireAgain ==
    ASSUME TypeInv, Reconnect
    PROVE  \A i \in DOMAIN wire' : \E m \in Msgs : wire'[i] = Packet("pubrel", m) /\ status'[m] = "released"
<1> DEFINE S == {m \in Msgs : status'[m] = "released"}
<1>1. PICK again \in SetToSeqs(S) : wire' = [i \in DOMAIN again |-> Packet("pubrel", again[i])]
  BY DEF Reconnect
<1>2. again \in [1 .. Cardinality(S) -> S]
  BY <1>1 DEF SetToSeqs
<1> QED
  BY <1>1, <1>2

LEMMA ComingStep ==
    ASSUME TypeInv, [Next]_vars, NEW x \in Msgs, Coming(x)'
    PROVE  Coming(x) \/ BrokerSends(x) \/ BrokerRepeats(x)
<1>1. wire \in Seq(Packets) /\ PacketIs
  BY PacketIsLemma DEF TypeInv, BrokerOK
<1>2. PICK i \in DOMAIN wire' : Is(wire'[i], "publish", x)
  BY DEF Coming, Is
<1>3. ~Teardown
  BY <1>2 DEF Teardown
<1>4. ~Reconnect
  BY <1>1, <1>2, WireAgain DEF PacketIs
<1>5. CASE wire' = wire
  BY <1>2, <1>5 DEF Coming
<1>6. CASE wire # <<>> /\ wire' = Tail(wire)
  <2>1. i + 1 \in DOMAIN wire /\ wire'[i] = wire[i + 1]
    BY <1>1, <1>2, <1>6, TailAt
  <2> QED
    BY <1>2, <2>1 DEF Coming
<1>7. ASSUME NEW p \in Packets, wire' = Append(wire, p), ~Coming(x) PROVE Is(p, "publish", x)
  <2>1. (i \in DOMAIN wire /\ wire'[i] = wire[i]) \/ wire'[i] = p
    BY <1>1, <1>2, <1>7, AppendAt
  <2> QED
    BY <1>2, <1>7, <2>1 DEF Coming
<1>8. ASSUME NEW m \in Msgs, BrokerSends(m) \/ BrokerRepeats(m), wire' = Append(wire, Packet("publish", m))
      PROVE  Coming(x) \/ BrokerSends(x) \/ BrokerRepeats(x)
  <2>1. Packet("publish", m) \in Packets
    BY DEF Packet, Packets
  <2>2. Is(Packet("publish", m), "publish", x) => m = x
    BY <1>1 DEF PacketIs
  <2> QED
    BY <1>7, <1>8, <2>1, <2>2
<1>9. ASSUME BrokerTakesAck, wire' = Append(wire, Packet("pubrel", Head(acks).of)) PROVE Coming(x)
  <2>1. Head(acks) \in Acks
    BY <1>9, HeadTailProperties DEF TypeInv, BrokerOK, BrokerTakesAck
  <2>2. Packet("pubrel", Head(acks).of) \in Packets
    BY <2>1 DEF Packet, Packets, Acks
  <2>3. ~Is(Packet("pubrel", Head(acks).of), "publish", x)
    BY <1>1 DEF PacketIs
  <2> QED
    BY <1>7, <1>9, <2>2, <2>3
<1>10. ASSUME NEW p \in Packets, wire' = Append(wire, p), p.kind = "suback" PROVE Coming(x)
  BY <1>7, <1>10 DEF Is
<1> QED
  BY <1>3, <1>4, <1>5, <1>6, <1>8, <1>9, <1>10, WireStep

LEMMA StatusStep ==
    ASSUME TypeInv, [Next]_vars, ~Reconnect, NEW x \in Qos2
    PROVE  /\ Over2(status[x]) => Over2(status'[x])
           /\ status[x] \in {"released", "done"} => status'[x] \in {"released", "done"}
           /\ status[x] \in {"sent", "released", "done"} => status'[x] \in {"sent", "released", "done"}
           /\ BrokerSends(x) => status'[x] = "sent" /\ status[x] = "queued"
           /\ BrokerRepeats(x) => status'[x] = "sent" /\ status[x] = "sent"
<1>1. x \in Msgs /\ Qos[x] = 2 /\ status \in [Msgs -> Statuses]
  BY DEF Qos2, TypeInv, BrokerOK
<1>2. ASSUME NEW m \in Msgs, BrokerSends(m)
      PROVE  status[m] = "queued" /\ status' = [status EXCEPT ![m] = IF Qos[m] = 0 THEN "done" ELSE "sent"]
  BY <1>2 DEF BrokerSends
<1>3. ASSUME BrokerTakesAck
      PROVE  \E m \in Msgs : \E s \in {"done", IF status[m] = "sent" THEN "released" ELSE status[m]} :
               status' = [status EXCEPT ![m] = s]
  <2>1. Head(acks) \in Acks
    BY <1>3, HeadTailProperties DEF BrokerTakesAck, TypeInv, BrokerOK
  <2> QED
    BY <1>3, <2>1 DEF BrokerTakesAck, Acks
<1>4. ASSUME NEW m \in Msgs, BrokerRepeats(m) PROVE status' = status /\ status[m] = "sent"
  BY <1>4 DEF BrokerRepeats
<1>5. CASE \E m \in Msgs : BrokerSends(m)
  BY <1>1, <1>2, <1>4, <1>5 DEF Over2
<1>6. CASE BrokerTakesAck
  <2>1. ~BrokerSends(x) /\ ~BrokerRepeats(x)
    <3>1. acks' # acks
      BY <1>6, HeadTailProperties DEF BrokerTakesAck, TypeInv, BrokerOK
    <3> QED
      BY <3>1 DEF BrokerSends, BrokerRepeats
  <2> QED
    BY <1>1, <1>3, <1>6, <2>1 DEF Over2
<1>7. CASE status' = status
  BY <1>1, <1>2, <1>4, <1>7
<1> QED
  BY <1>5, <1>6, <1>7
     DEF Next, vars, broker, Reader, Drainer, HandlePublish, HandlePublishKnown, HandlePublishWaiting,
         HandlePublishDeliver, HandlePublishBlock, HandlePublishHold, HandlePublishOverflow, BrokerRepeats,
         HandlePubrel, HandlePubrelUnknown, HandleSuback, ReaderPut, ReaderCompletes, GetMessage,
         Ack, CallDrain, TimerFires, DrainBegins, DrainSkips, DrainDelivers, DrainEnds, ExpireEnds,
         DrainSent, DrainSentLate, DrainSendFails, CancelDrain,
         CancelCall, CancelGet, CancelWait,
         DrainRaises, LoseConnection, Subscribe, Teardown

LEMMA ClosedStays ==
    ASSUME TypeInv, [Next]_vars, ~Reconnect, NEW x \in Qos2, Closed(x)
    PROVE  Closed(x)'
<1>1. x \in Msgs
  BY DEF Qos2
<1>2. Over2(status'[x]) /\ ~BrokerSends(x) /\ ~BrokerRepeats(x)
  BY StatusStep DEF Closed, Over2
<1>3. ~Coming(x)'
  BY <1>1, <1>2, ComingStep DEF Closed
<1> QED
  BY <1>2, <1>3 DEF Closed, Over2

LEMMA QuietStays == ASSUME [Next]_vars, ~Reconnect, Quiet PROVE Quiet'
  BY DEF Quiet, Next, vars, link, Reader, Drainer, HandlePublish, BrokerSends, BrokerRepeats, BrokerTakesAck,
         HandlePublishKnown, HandlePublishWaiting, HandlePublishDeliver, HandlePublishBlock,
         HandlePublishHold, HandlePublishOverflow, HandlePubrel, HandlePubrelUnknown, Reading, DrainRaises,
         HandleSuback, ReaderPut, ReaderCompletes, Subscribe, GetMessage, Ack, CallDrain, TimerFires,
         DrainBegins, DrainSkips, DrainDelivers, DrainEnds, ExpireEnds, DrainSent, DrainSentLate,
         DrainSendFails, CancelDrain,
         CancelCall, CancelGet, CancelWait,
         LoseConnection, Teardown

\* What is left of a sequence without duplicates of QoS 1 and QoS 2 messages.
LEMMA UniqueRemove ==
    ASSUME NEW s \in Seq(Msgs), Unique(s), NEW k \in DOMAIN s
    PROVE  /\ Unique(RemoveAt(s, k))
           /\ \A i \in DOMAIN RemoveAt(s, k) : \E j \in DOMAIN s : RemoveAt(s, k)[i] = s[j]
           /\ Qos[s[k]] > 0 => \A i \in DOMAIN RemoveAt(s, k) : RemoveAt(s, k)[i] # s[k]
<1> DEFINE r == RemoveAt(s, k)
<1>1. /\ DOMAIN s = 1 .. Len(s) /\ Len(s) \in Nat
      /\ r \in Seq(Msgs) /\ Len(r) = Len(s) - 1 /\ DOMAIN r = 1 .. Len(s) - 1
      /\ \A i \in 1 .. Len(s) - 1 : r[i] = IF i < k THEN s[i] ELSE s[i + 1]
  BY RemoveAtAt
<1> HIDE DEF r
<1>2. k \in 1 .. Len(s)
  OBVIOUS
<1>3. \A i \in DOMAIN r : r[i] = s[IF i < k THEN i ELSE i + 1] /\ (IF i < k THEN i ELSE i + 1) \in DOMAIN s \ {k}
  BY <1>1, <1>2
<1>4. Unique(r)
  <2> SUFFICES ASSUME NEW i \in DOMAIN r, NEW j \in DOMAIN r, r[i] = r[j], Qos[r[i]] > 0 PROVE i = j
    BY DEF Unique
  <2>1. (IF i < k THEN i ELSE i + 1) = (IF j < k THEN j ELSE j + 1)
    BY <1>3 DEF Unique
  <2> QED
    BY <1>1, <1>2, <2>1
<1>5. Qos[s[k]] > 0 => \A i \in DOMAIN r : r[i] # s[k]
  BY <1>3 DEF Unique
<1> QED
  BY <1>3, <1>4, <1>5 DEF r

LEMMA NewNotOwned ==
    ASSUME TypeInv, BooksInv, conn # "dead", NEW m \in Msgs, Qos[m] > 0, New(m)
    PROVE  ~Owns(m)
<1>1. Books(Waiting, count, topicCount, ids) /\ ReplayState /\ Waiting \in Seq(Msgs)
  BY WaitingOwned DEF BooksInv
<1>2. CASE replay = "buffered"
  BY <1>1, <1>2 DEF New, ContainsPacketId, Books, Range, Owns
<1>3. CASE replay # "buffered"
  <2>1. Len(Waiting) = 0
    BY <1>1, <1>3 DEF ReplayState, Books
  <2> QED
    BY <1>1, <2>1 DEF Owns
<1> QED
  BY <1>2, <1>3

LEMMA WaitingSent ==
    ASSUME TypeInv, DrainSent \/ DrainSentLate
    PROVE  Waiting' = RemoveAt(Waiting, Place)
<1>1. [Next]_vars
  BY DEF Next, Drainer
<1>2. count' = count - 1 /\ count \in Int /\ drain.pc \in {"send", "discard"} /\ conn' = conn /\ lock # <<>>
  BY DEF DrainSent, DrainSentLate, Discard, link, TypeInv, BufferOK, DrainOK
<1>3. \A m \in Msgs : ~HandlePublishHold(m)
  BY <1>2 DEF HandlePublishHold
<1>4. ~ExpireEnds /\ ~Reconnect /\ ~Teardown
  BY <1>2 DEF ExpireEnds, Reconnect, Teardown
<1> QED
  BY <1>1, <1>2, <1>3, <1>4, WaitingStep

LEMMA UniqueKept ==
    ASSUME TypeInv, BooksInv, UniqueInv, [Next]_vars
    PROVE  /\ UniqueInv'
           /\ \A x \in Msgs : Owns(x)' => Owns(x) \/ HandlePublishHold(x)
           /\ \A x \in Msgs : (DrainSent \/ DrainSentLate) /\ Qos[x] > 0 /\ Owns(x)' => x # drain.msg
<1> USE DEF UniqueInv
<1>0. Waiting \in Seq(Msgs)
  BY WaitingOwned
<1>1. CASE DrainSent \/ DrainSentLate
  <2>1. drain.pc \in {"send", "discard"}
    BY <1>1 DEF DrainSent, DrainSentLate
  <2>2. Place \in DOMAIN Waiting /\ Waiting[Place] = drain.msg
    BY <2>1, PlaceOfMsg
  <2>3. Waiting' = RemoveAt(Waiting, Place)
    BY <1>1, WaitingSent
  <2> QED
    BY <1>0, <2>2, <2>3, UniqueRemove DEF Owns
<1>2. CASE ~DrainSent /\ ~DrainSentLate
  <2>1. CASE Waiting' = Waiting
    BY <1>2, <2>1 DEF Owns
  <2>2. ASSUME NEW m \in Msgs, HandlePublishHold(m), Waiting' = Append(Waiting, m)
        PROVE  UniqueInv' /\ \A x \in Msgs : Owns(x)' => Owns(x) \/ HandlePublishHold(x)
    <3>1. conn # "dead" /\ New(m)
      BY <2>2 DEF HandlePublishHold, Reading
    <3>2. /\ DOMAIN Waiting' = 1 .. Len(Waiting) + 1 /\ DOMAIN Waiting = 1 .. Len(Waiting) /\ Len(Waiting) \in Nat
          /\ \A n \in 1 .. Len(Waiting) : Waiting'[n] = Waiting[n]
          /\ Waiting'[Len(Waiting) + 1] = m
      BY <1>0, <2>2, AppendAt
    <3>3. Qos[m] > 0 => \A i \in DOMAIN Waiting : Waiting[i] # m
      BY <3>1, NewNotOwned DEF Owns
    <3>4. UniqueInv'
      BY <3>2, <3>3 DEF Unique
    <3>5. ASSUME NEW x \in Msgs, NEW i \in DOMAIN Waiting', Waiting'[i] = x PROVE Owns(x) \/ x = m
      BY <3>2, <3>5 DEF Owns
    <3> QED
      BY <2>2, <3>4, <3>5 DEF Owns
  <2>3. CASE Waiting' = <<>>
    BY <1>2, <2>3 DEF Owns, Unique
  <2>4. ASSUME NEW rest \in Seq(Msgs), Waiting = Waiting' \o rest
        PROVE  UniqueInv' /\ \A x \in Msgs : Owns(x)' => Owns(x)
    <3>1. Waiting' \in Seq(Msgs)
      BY NextTyped, WaitingTypedNext
    <3>2. PICK w \in Seq(Msgs) : w = Waiting'
      BY <3>1
    <3>3. DOMAIN w \subseteq DOMAIN (w \o rest) /\ \A i \in DOMAIN w : (w \o rest)[i] = w[i]
      BY ConcatProperties
    <3>4. w \o rest = Waiting
      BY <2>4, <3>2
    <3>5. DOMAIN Waiting' \subseteq DOMAIN Waiting /\ \A i \in DOMAIN Waiting' : Waiting[i] = Waiting'[i]
      BY <3>2, <3>3, <3>4
    <3> QED
      BY <3>5 DEF Owns, Unique
  <2> QED
    BY <1>2, <2>1, <2>2, <2>3, <2>4, WaitingStep
<1> QED
  BY <1>1, <1>2

LEMMA WireKept ==
    ASSUME TypeInv, WireInv, SeenInv, [Next]_vars
    PROVE  WireInv'
<1>0. wire \in Seq(Packets) /\ PacketIs /\ acks \in Seq(Acks)
  BY PacketIsLemma DEF TypeInv, BrokerOK
<1>1. ASSUME conn' = "dead" PROVE wire' = <<>> /\ acks' = <<>> /\ reader' = Idle
  <2>1. CASE Teardown
    BY <2>1 DEF Teardown
  <2>2. CASE ~Teardown
    <3>1. conn = "dead" /\ wire = <<>> /\ acks = <<>> /\ reader = Idle
      BY <1>1, <2>2, DeadByTeardown DEF WireInv
    <3>2. \A kind, m : Written(kind, m) = acks
      BY <3>1 DEF Written
    <3>3. \A m, r : Acknowledge(m, r) => acks' = acks
      BY <3>2 DEF Acknowledge
    <3> QED
      BY <1>1, <2>2, <3>1, <3>2, <3>3
         DEF Next, vars, broker, Reader, Drainer, HandlePublish, HandlePublishKnown, HandlePublishWaiting,
         HandlePublishDeliver, HandlePublishBlock, HandlePublishHold, HandlePublishOverflow, BrokerRepeats,
         HandlePubrel, HandlePubrelUnknown, HandleSuback, ReaderPut, ReaderCompletes, GetMessage, Reading,
         Ack, AckCallback, CallDrain, TimerFires, DrainBegins, DrainSkips, DrainDelivers, DrainEnds, ExpireEnds,
         DrainSent, DrainSentLate, DrainSendFails, CancelDrain,
         CancelCall, CancelGet, CancelWait,
         DrainRaises, LoseConnection, Subscribe,
         BrokerSends, BrokerTakesAck, Reconnect
  <2> QED
    BY <2>1, <2>2
<1> DEFINE Ordered(w, s, m) == \A i \in DOMAIN w : Is(w[i], "pubrel", m) =>
             /\ s[m] \in {"released", "done"}
             /\ \A j \in DOMAIN w : j > i => ~Is(w[j], "publish", m)
<1>2. ASSUME NEW m \in Qos2 PROVE Ordered(wire', status', m)
  <2>0. Ordered(wire, status, m) /\ m \in Msgs
    BY DEF WireInv, Qos2
  <2>1. CASE Teardown
    BY <2>1 DEF Teardown
  <2>2. CASE Reconnect
    <3>1. \A i \in DOMAIN wire' : /\ ~Is(wire'[i], "publish", m)
                                  /\ Is(wire'[i], "pubrel", m) => status'[m] = "released"
      BY <1>0, <2>2, WireAgain DEF PacketIs
    <3> QED
      BY <3>1
  <2>3. CASE ~Teardown /\ ~Reconnect
    <3>1. status[m] \in {"released", "done"} => status'[m] \in {"released", "done"}
      BY <2>3, StatusStep
    <3>2. CASE wire' = wire
      BY <2>0, <3>1, <3>2
    <3>3. CASE wire # <<>> /\ wire' = Tail(wire)
      <4>1. /\ DOMAIN wire = 1 .. Len(wire) /\ Len(wire) \in Nat
            /\ DOMAIN wire' = 1 .. Len(wire) - 1
            /\ \A n \in 1 .. Len(wire) - 1 : wire'[n] = wire[n + 1]
        BY <1>0, <3>3, TailAt
      <4>2. \A n \in DOMAIN wire' : n + 1 \in DOMAIN wire /\ wire'[n] = wire[n + 1]
        BY <4>1
      <4>3. \A i, j \in DOMAIN wire' : j > i => j + 1 > i + 1
        BY <4>1
      <4> QED
        BY <2>0, <3>1, <4>2, <4>3
    <3>4. ASSUME NEW p \in Packets, wire' = Append(wire, p),
                 Is(p, "publish", m) => status[m] \notin {"released", "done"},
                 Is(p, "pubrel", m) => status'[m] \in {"released", "done"}
          PROVE  Ordered(wire', status', m)
      <4>1. /\ DOMAIN wire' = 1 .. Len(wire) + 1 /\ DOMAIN wire = 1 .. Len(wire) /\ Len(wire) \in Nat
            /\ \A n \in 1 .. Len(wire) : wire'[n] = wire[n]
            /\ wire'[Len(wire) + 1] = p
        BY <1>0, <3>4, AppendAt
      <4>2. ASSUME NEW i \in DOMAIN wire', Is(wire'[i], "pubrel", m)
            PROVE  /\ status'[m] \in {"released", "done"}
                   /\ \A j \in DOMAIN wire' : j > i => ~Is(wire'[j], "publish", m)
        <5>1. CASE i = Len(wire) + 1
          BY <3>4, <4>1, <4>2, <5>1
        <5>2. CASE i # Len(wire) + 1
          <6>1. i \in DOMAIN wire /\ Is(wire[i], "pubrel", m)
            BY <4>1, <4>2, <5>2
          <6>2. status[m] \in {"released", "done"} /\ \A j \in DOMAIN wire : j > i => ~Is(wire[j], "publish", m)
            BY <2>0, <6>1
          <6> QED
            BY <3>1, <3>4, <4>1, <6>2
        <5> QED
          BY <5>1, <5>2
      <4> QED
        BY <4>2
    <3>5. ASSUME NEW p \in Packets, wire' = Append(wire, p), p.kind = "suback" PROVE Ordered(wire', status', m)
      BY <3>4, <3>5 DEF Is
    <3>6. ASSUME NEW x \in Msgs, BrokerSends(x) \/ BrokerRepeats(x), wire' = Append(wire, Packet("publish", x))
          PROVE  Ordered(wire', status', m)
      <4>1. Packet("publish", x) \in Packets
        BY DEF Packet, Packets
      <4>2. ~Is(Packet("publish", x), "pubrel", m) /\ (Is(Packet("publish", x), "publish", m) => x = m)
        BY <1>0 DEF PacketIs
      <4>3. status[x] \notin {"released", "done"}
        BY <3>6 DEF BrokerSends, BrokerRepeats
      <4> HIDE DEF Ordered
      <4> QED
        BY <3>4, <3>6, <4>1, <4>2, <4>3
    <3>7. ASSUME BrokerTakesAck, Head(acks).kind = "pubrec", wire' = Append(wire, Packet("pubrel", Head(acks).of))
          PROVE  Ordered(wire', status', m)
      <4>1. Head(acks) \in Acks /\ 1 \in DOMAIN acks /\ Head(acks) = acks[1] /\ conn # "dead"
        BY <1>0, <3>7, HeadTailProperties, TailAt DEF BrokerTakesAck
      <4>2. Packet("pubrel", Head(acks).of) \in Packets
        BY <4>1 DEF Packet, Packets, Acks
      <4>3. ~Is(Packet("pubrel", Head(acks).of), "publish", m)
            /\ (Is(Packet("pubrel", Head(acks).of), "pubrel", m) => m = Head(acks).of)
        BY <1>0 DEF PacketIs
      <4>4. ASSUME m = Head(acks).of PROVE status'[m] \in {"released", "done"}
        <5>1. status[m] \in {"sent", "released", "done"}
          BY <4>1, <4>4 DEF SeenInv
        <5>2. status' = [status EXCEPT ![m] = IF @ = "sent" THEN "released" ELSE @]
          BY <3>7, <4>4 DEF BrokerTakesAck
        <5> QED
          BY <2>0, <5>1, <5>2 DEF TypeInv, BrokerOK
      <4> HIDE DEF Ordered
      <4> QED
        BY <3>4, <3>7, <4>2, <4>3, <4>4
    <3> HIDE DEF Ordered
    <3> QED
      BY <2>3, <3>2, <3>3, <3>5, <3>6, <3>7, WireStep
  <2> QED
    BY <2>1, <2>2, <2>3
<1> QED
  BY <1>1, <1>2 DEF WireInv, Is

\* The step does not touch the delivery of x.
Same(x) ==
    /\ puts'[x] = puts[x] /\ inflight'[x] = inflight[x] /\ (x \in pendingAck' <=> x \in pendingAck)
    /\ (reader.pc # "idle" /\ reader.msg = x) \/ (reader'.pc # "idle" /\ reader'.msg = x) => reader' = reader

\* Accepting a QoS 2 message: by hand it is delivered now, else a flight begins.
LEMMA AcceptOn2 ==
    ASSUME TypeInv, NEW m \in Qos2, NEW r \in Rcpts, Accept(m, r)
    PROVE  /\ ~AutoAck(m, r) <=> r = "subscription" /\ Manual(m)
           /\ ~AutoAck(m, r) => /\ puts[m] = 0 => puts'[m] = 1
                                /\ inflight' = inflight /\ pendingAck' = pendingAck \cup {m}
           /\ AutoAck(m, r) => puts' = puts /\ inflight'[m] = r /\ pendingAck' = pendingAck
<1>1. m \in Msgs /\ Qos[m] = 2 /\ puts \in [Msgs -> 0 .. Many] /\ inflight \in [Msgs -> Rcpts \cup {"none", "delivered"}]
  BY DEF Qos2, TypeInv, DeliverOK
<1>2. ~AutoAck(m, r) <=> r = "subscription" /\ Manual(m)
  BY DEF AutoAck, Manual
<1>3. ASSUME ~AutoAck(m, r), puts[m] = 0 PROVE puts'[m] = 1
  <2>1. puts' = [puts EXCEPT ![m] = Min({@ + 1, Many})]
    BY <1>1, <1>2, <1>3 DEF Accept, PutsNow, Deliver
  <2>2. Min({puts[m] + 1, Many}) = 1
    BY <1>1, <1>3, OneMore
  <2> QED
    BY <1>1, <2>1, <2>2
<1>4. ~AutoAck(m, r) => inflight' = inflight /\ pendingAck' = pendingAck \cup {m}
  BY <1>1 DEF Accept
<1>5. AutoAck(m, r) => puts' = puts /\ inflight'[m] = r /\ pendingAck' = pendingAck
  BY <1>1 DEF Accept, PutsNow
<1> QED
  BY <1>2, <1>3, <1>4, <1>5

LEMMA DeliverOthers ==
    ASSUME TypeInv, NEW m, NEW r, Deliver(m, r), NEW x \in Msgs, x # m
    PROVE  puts'[x] = puts[x]
  BY DEF Deliver, TypeInv, DeliverOK

LEMMA AcceptOthers ==
    ASSUME TypeInv, NEW m, NEW r, Accept(m, r), NEW x \in Msgs, x # m
    PROVE  puts'[x] = puts[x] /\ inflight'[x] = inflight[x] /\ (x \in pendingAck' <=> x \in pendingAck)
  BY DeliverOthers DEF Accept, TypeInv, DeliverOK

\* The actions that touch the delivery of a message.
LEMMA Touched ==
    ASSUME TypeInv, [Next]_vars, NEW x \in Msgs
    PROVE  \/ Same(x)
           \/ HandlePublishDeliver(x) \/ HandlePublishBlock(x) \/ HandlePubrel(x)
           \/ (ReaderPut \/ ReaderCompletes) /\ reader.msg = x
           \/ \E e \in unacked : Ack(e) /\ e[1] = x /\ e[2] = session
           \/ DrainDelivers /\ Head(Batch) = x
           \/ Teardown \/ Reconnect
<1>1. ASSUME UNCHANGED <<puts, inflight, pendingAck, reader>> PROVE Same(x)
  BY <1>1 DEF Same
<1>2. ASSUME NEW m \in Msgs, m # x, HandlePublishDeliver(m) PROVE Same(x)
  BY <1>2, AcceptOthers DEF HandlePublishDeliver, Same
<1>3. ASSUME NEW m \in Msgs, m # x, HandlePublishBlock(m) PROVE Same(x)
  <2>1. reader.pc = "idle" /\ reader'.msg = m /\ UNCHANGED <<puts, inflight>>
        /\ (x \in pendingAck' <=> x \in pendingAck)
    BY <1>3 DEF HandlePublishBlock, Reading
  <2> QED
    BY <1>3, <2>1 DEF Same
<1>4. ASSUME NEW m \in Msgs, m # x, HandlePubrel(m) PROVE Same(x)
  <2>1. /\ reader.pc = "idle" /\ (reader'.pc = "idle" \/ reader'.msg = m) /\ UNCHANGED <<puts, pendingAck>>
        /\ inflight' = [inflight EXCEPT ![m] = "none"]
    BY <1>4 DEF HandlePubrel, Reading, Idle
  <2> QED
    BY <1>4, <2>1 DEF Same, TypeInv, DeliverOK
<1>5. ASSUME ReaderPut \/ ReaderCompletes, reader.msg # x PROVE Same(x)
  <2>1. UNCHANGED <<inflight, pendingAck>> /\ reader'.pc = "idle" /\ Deliver(reader.msg, reader.rcpt)
    BY <1>5 DEF ReaderPut, ReaderCompletes, Idle
  <2> QED
    BY <1>5, <2>1, DeliverOthers DEF Same
<1>6. ASSUME NEW e \in unacked, Ack(e), e[1] # x \/ e[2] # session PROVE Same(x)
  BY <1>6 DEF Ack, AckCallback, Same, TypeInv, DeliverOK
<1>7. ASSUME DrainDelivers, Head(Batch) # x PROVE Same(x)
  BY <1>7, AcceptOthers DEF DrainDelivers, Same
<1> QED
  BY <1>1, <1>2, <1>3, <1>4, <1>5, <1>6, <1>7
     DEF Next, vars, deliver, Reader, Drainer, HandlePublish, HandlePublishKnown, HandlePublishWaiting,
         HandlePublishHold, HandlePublishOverflow, BrokerSends, BrokerRepeats, BrokerTakesAck,
         HandlePubrelUnknown, HandleSuback, GetMessage, Subscribe, CallDrain, TimerFires, DrainBegins,
         DrainSkips, DrainEnds, ExpireEnds, DrainSent, DrainSentLate, DrainSendFails, CancelDrain,
         CancelCall, CancelGet, CancelWait,
         DrainRaises, LoseConnection

\* A message comes into a drain's hand when it is delivered, and leaves it when
\* the write has ended.
LEMMA HandStep ==
    ASSUME TypeInv, [Next]_vars, NEW x \in Msgs
    PROVE  /\ InHand(x)' => (InHand(x) /\ drain' = drain) \/ (DrainDelivers /\ Head(Batch) = x)
           /\ InHand(x) => InHand(x)' \/ DrainSent \/ DrainSentLate \/ DrainSendFails \/ CancelDrain
<1> USE DEF InHand
<1>0. drain \in DrainStates /\ (drain.pc = "off" <=> lock = <<>>)
  BY DEF TypeInv, DrainOK
<1>1. CASE UNCHANGED drain
  BY <1>1
<1>2. CASE (\E k \in Tasks : CallDrain(k)) \/ TimerFires
  BY <1>0, <1>1, <1>2 DEF CallDrain, TimerFires, NoDrain
<1>3. CASE DrainBegins \/ DrainSkips
  BY <1>0, <1>3 DEF DrainBegins, DrainSkips, DrainStates
<1>4. CASE DrainDelivers
  BY <1>0, <1>4 DEF DrainDelivers, DrainStates
<1>5. \A l : Woken(l).pc \in {"off", "woken"}
  BY DEF Woken, NoDrain
<1>6. CASE DrainEnds \/ ExpireEnds
  BY <1>5, <1>6 DEF DrainEnds, ExpireEnds, NoDrain
<1>7. CASE DrainSentLate \/ DrainSendFails \/ CancelDrain
  BY <1>5, <1>7 DEF DrainSentLate, DrainSendFails, CancelDrain, DrainRaises
<1>8. CASE DrainSent
  BY <1>0, <1>8 DEF DrainSent, DrainStates
<1>9. CASE Teardown
  BY <1>0, <1>1, <1>5, <1>9 DEF Teardown, FreeLoop, DrainStates
<1>10. CASE CancelCall
  BY <1>1, <1>5, <1>10, CallCancelled
<1> QED
  BY <1>1, <1>2, <1>3, <1>4, <1>6, <1>7, <1>8, <1>9, <1>10
     DEF Next, vars, Reader, Drainer, HandlePublish, BrokerSends, BrokerRepeats, BrokerTakesAck,
         HandlePublishKnown, HandlePublishWaiting, HandlePublishDeliver, HandlePublishBlock,
         HandlePublishHold, HandlePublishOverflow, HandlePubrel, HandlePubrelUnknown,
         HandleSuback, ReaderPut, ReaderCompletes, Subscribe, GetMessage, Ack, LoseConnection,
         Reconnect

\* The head of a drain's batch is one of the messages the buffer owns.
LEMMA BatchOwned ==
    ASSUME TypeInv, drain.pc = "run", Batch # <<>>
    PROVE  Head(Batch) \in Msgs /\ Owns(Head(Batch))
<1>1. Waiting = drain.unmatched \o drain.pending \o held
  BY WaitingOwned, OwnedIs DEF TypeInv, DrainOK, BufferOK
<1>2. drain.unmatched \in Seq(Msgs) /\ drain.pending \in Seq(Msgs) /\ held \in Seq(Msgs)
  BY WaitingOwned
<1>3. PICK u \in Seq(Msgs), p \in Seq(Msgs), h \in Seq(Msgs) :
        u = drain.unmatched /\ p = drain.pending /\ h = held
  BY <1>2
<1>4. /\ u \o p \in Seq(Msgs) /\ Len(u \o p) = Len(u) + Len(p) /\ Len(u) \in Nat /\ Len(p) \in Nat /\ Len(h) \in Nat
      /\ \A i \in 1 .. Len(u) + Len(p) : (u \o p)[i] = IF i <= Len(u) THEN u[i] ELSE p[i - Len(u)]
  BY ConcatProperties, LenProperties
<1>5. /\ u \o p \o h \in Seq(Msgs) /\ Len(u \o p \o h) = Len(u) + Len(p) + Len(h)
      /\ \A i \in 1 .. Len(u) + Len(p) + Len(h) :
           (u \o p \o h)[i] = IF i <= Len(u) + Len(p) THEN (u \o p)[i] ELSE h[i - (Len(u) + Len(p))]
  BY <1>4, ConcatProperties
<1>6. CASE p # <<>>
  <2>1. Batch = p /\ Head(p) = p[1] /\ Len(p) > 0
    BY <1>3, <1>6, TailAt DEF Batch
  <2>2. Len(u) + 1 \in 1 .. Len(u) + Len(p) /\ (u \o p \o h)[Len(u) + 1] = p[1]
    BY <1>4, <1>5, <2>1
  <2>3. Len(u) + 1 \in DOMAIN (u \o p \o h)
    BY <1>4, <1>5, <2>2
  <2> QED
    BY <1>1, <1>3, <2>1, <2>2, <2>3, BatchTyped DEF Owns
<1>7. CASE p = <<>>
  <2>1. Batch = h /\ h # <<>> /\ Len(p) = 0
    BY <1>3, <1>7 DEF Batch
  <2>2. Head(h) = h[1] /\ Len(h) > 0
    BY <2>1, TailAt
  <2>3. Len(u) + 1 \in 1 .. Len(u) + Len(p) + Len(h) /\ (u \o p \o h)[Len(u) + 1] = h[1]
    BY <1>4, <1>5, <2>1, <2>2
  <2>4. Len(u) + 1 \in DOMAIN (u \o p \o h)
    BY <1>4, <1>5, <2>3
  <2> QED
    BY <1>1, <1>3, <2>1, <2>2, <2>3, <2>4, BatchTyped DEF Owns
<1> QED
  BY <1>6, <1>7

AckOf(m) == \E i \in DOMAIN acks : acks[i].of = m

LEMMA WrittenOf ==
    ASSUME TypeInv, NEW x \in Msgs, NEW kind \in {"puback", "pubrec", "pubcomp"},
           acks' = Written(kind, x), NEW m \in Msgs, AckOf(m)'
    PROVE  AckOf(m) \/ m = x
<1>1. Packet(kind, x) \in Acks /\ Packet(kind, x).of = x /\ acks \in Seq(Acks)
  BY DEF Packet, Acks, TypeInv, BrokerOK
<1>2. CASE conn = "up"
  <2>1. acks' = Append(acks, Packet(kind, x))
    BY <1>2 DEF Written
  <2>2. /\ DOMAIN acks' = 1 .. Len(acks) + 1 /\ DOMAIN acks = 1 .. Len(acks) /\ Len(acks) \in Nat
        /\ \A n \in 1 .. Len(acks) : acks'[n] = acks[n]
        /\ acks'[Len(acks) + 1] = Packet(kind, x)
    BY <1>1, <2>1, AppendAt
  <2>3. ASSUME NEW i \in DOMAIN acks', acks'[i].of = m PROVE m = x \/ AckOf(m)
    <3>1. i \in 1 .. Len(acks) \/ i = Len(acks) + 1
      BY <2>2
    <3> QED
      BY <1>1, <2>2, <2>3, <3>1 DEF AckOf
  <2> QED
    BY <2>3 DEF AckOf
<1>3. CASE conn # "up"
  BY <1>3 DEF Written, AckOf
<1> QED
  BY <1>2, <1>3

LEMMA ReadingComes ==
    ASSUME TypeInv, NEW kind, NEW x, Reading(kind, x)
    PROVE  /\ 1 \in DOMAIN wire /\ Is(wire[1], kind, x) /\ wire' = Tail(wire)
           /\ conn # "dead" /\ failure = "none" /\ reader.pc = "idle"
<1>1. wire \in Seq(Packets) /\ wire # <<>> /\ Head(wire) = Packet(kind, x) /\ wire' = Tail(wire)
  BY DEF Reading, TypeInv, BrokerOK
<1>2. 1 \in DOMAIN wire /\ wire[1] = Packet(kind, x)
  BY <1>1, TailAt
<1> QED
  BY <1>1, <1>2 DEF Is, Packet, Reading

LEMMA PublishComes ==
    ASSUME TypeInv, NEW x, Reading("publish", x)
    PROVE  Coming(x)
  BY ReadingComes DEF Coming

LEMMA AcksOfStep ==
    ASSUME TypeInv, [Next]_vars, NEW x \in Msgs, AckOf(x)'
    PROVE  \/ AckOf(x)
           \/ HandlePublishKnown(x) \/ HandlePublishDeliver(x) \/ HandlePubrel(x)
           \/ ReaderPut /\ reader.msg = x
           \/ \E e \in unacked : Ack(e) /\ e[1] = x /\ e[2] = session
           \/ DrainDelivers /\ Head(Batch) = x
<1>0. acks \in Seq(Acks)
  BY DEF TypeInv, BrokerOK
<1>1. CASE acks' = acks
  BY <1>1 DEF AckOf
<1>2. ASSUME NEW m \in Msgs, NEW r, Acknowledge(m, r) PROVE AckOf(x) \/ x = m
  <2>1. Qos[m] \in 0 .. 2
    BY InboundAssumption
  <2>2. acks' = acks \/ \E kind \in {"puback", "pubrec", "pubcomp"} : acks' = Written(kind, m)
    BY <1>2, <2>1 DEF Acknowledge, AckKind
  <2>3. CASE acks' = acks
    BY <2>3 DEF AckOf
  <2>4. ASSUME NEW kind \in {"puback", "pubrec", "pubcomp"}, acks' = Written(kind, m) PROVE AckOf(x) \/ x = m
    BY <2>4, WrittenOf
  <2> QED
    BY <2>2, <2>3, <2>4
<1>3. CASE BrokerTakesAck
  <2>1. acks # <<>> /\ acks' = Tail(acks)
    BY <1>3 DEF BrokerTakesAck
  <2>2. \A i \in DOMAIN acks' : i + 1 \in DOMAIN acks /\ acks'[i] = acks[i + 1]
    BY <1>0, <2>1, TailAt
  <2> QED
    BY <2>2 DEF AckOf
<1>4. ASSUME NEW m \in Msgs, HandlePublishKnown(m) \/ HandlePubrel(m) PROVE AckOf(x) \/ x = m
  BY <1>4, WrittenOf DEF HandlePublishKnown, HandlePubrel
<1>5. ASSUME NEW m \in Msgs, HandlePublishDeliver(m) PROVE AckOf(x) \/ x = m
  BY <1>2, <1>5 DEF HandlePublishDeliver
<1>6. ASSUME ReaderPut PROVE AckOf(x) \/ x = reader.msg
  BY <1>2, <1>6 DEF ReaderPut, TypeInv, ReaderOK
<1>7. ASSUME DrainDelivers PROVE AckOf(x) \/ x = Head(Batch)
  BY <1>2, <1>7, BatchTyped DEF DrainDelivers
<1>8. ASSUME NEW e \in unacked, Ack(e) PROVE AckOf(x) \/ (x = e[1] /\ e[2] = session)
  <2>1. e[1] \in Msgs
    BY DEF TypeInv, AppOK, QueueEntries
  <2>2. acks' = acks \/ (e[2] = session /\ \E kind \in {"puback", "pubrec", "pubcomp"} : acks' = Written(kind, e[1]))
    BY <1>8 DEF Ack, AckCallback
  <2>3. CASE acks' = acks
    BY <2>3 DEF AckOf
  <2>4. ASSUME NEW kind \in {"puback", "pubrec", "pubcomp"}, acks' = Written(kind, e[1]) PROVE AckOf(x) \/ x = e[1]
    BY <2>1, <2>4, WrittenOf
  <2> QED
    BY <2>2, <2>3, <2>4
<1>9. ~Teardown
  BY DEF Teardown, AckOf
<1> QED
  BY <1>1, <1>3, <1>4, <1>5, <1>6, <1>7, <1>8, <1>9
     DEF Next, vars, broker, Reader, Drainer, HandlePublish, HandlePublishWaiting, HandlePublishBlock,
         HandlePublishHold, HandlePublishOverflow, BrokerSends, BrokerRepeats,
         HandlePubrelUnknown, HandleSuback, GetMessage, Subscribe, CallDrain, TimerFires, DrainBegins,
         DrainSkips, DrainEnds, ExpireEnds, DrainSent, DrainSentLate, DrainSendFails, CancelDrain,
         CancelCall, CancelGet, CancelWait,
         DrainRaises, LoseConnection, ReaderCompletes, Reconnect

\* A new connection begins with empty tables.
LEMMA FreshStart ==
    ASSUME TypeInv, WireInv, Reconnect, NEW x \in Msgs
    PROVE  Untouched(x)' /\ ~Owns(x)' /\ ~Coming(x)' /\ ~AckOf(x)' /\ reader' = Idle
<1>1. reader' = Idle /\ acks' = <<>>
  BY DEF WireInv, Reconnect
<1>2. Untouched(x)'
  BY <1>1 DEF Untouched, Busy, Reconnect, Idle
<1>3. ~Owns(x)'
  <2>1. drain' = drain /\ held' = <<>> /\ drain.pc = "off" /\ drain.unmatched = <<>> /\ drain.pending = <<>>
    BY DEF Reconnect, TypeInv, DrainOK
  <2>2. Waiting' = <<>> \o <<>> \o <<>> \o <<>>
    BY <2>1 DEF Waiting
  <2>3. Waiting' = <<>>
    BY <2>2
  <2> QED
    BY <2>3 DEF Owns
<1>4. ~Coming(x)'
  <2>1. \A i \in DOMAIN wire' : ~Is(wire'[i], "publish", x)
    BY WireAgain, PacketIsLemma DEF PacketIs
  <2> QED
    BY <2>1 DEF Coming, Is
<1>5. ~AckOf(x)'
  BY <1>1 DEF AckOf
<1> QED
  BY <1>1, <1>2, <1>3, <1>4, <1>5

LEMMA SeenKept ==
    ASSUME TypeInv, BooksInv, UniqueInv, EntriesOK, WireInv, SeenInv, [Next]_vars
    PROVE  SeenInv'
<1> SUFFICES ASSUME conn' # "dead", NEW m \in Qos2,
                    Coming(m)' \/ AckOf(m)' \/ Owns(m)' \/ ~Untouched(m)'
             PROVE  status'[m] \in {"sent", "released", "done"}
  BY DEF SeenInv, AckOf
<1>0. m \in Msgs /\ Qos[m] = 2
  BY DEF Qos2
<1>1. ~Reconnect
  BY <1>0, FreshStart
<1>2. conn # "dead" /\ ~Teardown
  BY <1>1, ConnStays DEF Teardown
<1>3. Coming(m) \/ AckOf(m) \/ Owns(m) \/ ~Untouched(m) => status[m] \in {"sent", "released", "done"}
  BY <1>2 DEF SeenInv, AckOf
<1>4. ASSUME Reading("publish", m) PROVE Coming(m)
  BY <1>4, PublishComes
<1>5. ASSUME NEW e \in unacked, Ack(e), e[1] = m, e[2] = session PROVE ~Untouched(m)
  <2>1. puts[m] > 0
    BY <1>5 DEF EntriesOK, EntryOK
  <2> QED
    BY <2>1 DEF Untouched
<1>6. ASSUME DrainDelivers, Head(Batch) = m PROVE Owns(m)
  BY <1>6, BatchOwned DEF DrainDelivers
<1>7. ASSUME ReaderPut \/ ReaderCompletes, reader.msg = m PROVE ~Untouched(m)
  BY <1>7 DEF Untouched, Busy, ReaderPut, ReaderCompletes
<1>8. ASSUME HandlePubrel(m) PROVE ~Untouched(m)
  BY <1>8 DEF Untouched, HandlePubrel
<1>9. Coming(m) \/ AckOf(m) \/ Owns(m) \/ ~Untouched(m) \/ BrokerSends(m) \/ BrokerRepeats(m)
  <2>1. CASE Coming(m)'
    BY <1>0, <2>1, ComingStep
  <2>2. CASE AckOf(m)'
    BY <1>0, <1>4, <1>5, <1>6, <1>7, <1>8, <2>2, AcksOfStep DEF HandlePublishKnown, HandlePublishDeliver
  <2>3. CASE Owns(m)'
    BY <1>0, <1>4, <2>3, UniqueKept DEF HandlePublishHold
  <2>4. CASE ~Untouched(m)'
    <3>1. CASE Same(m)
      BY <2>4, <3>1 DEF Same, Untouched, Busy
    <3> QED
      BY <1>0, <1>1, <1>2, <1>4, <1>5, <1>6, <1>7, <1>8, <3>1, Touched DEF HandlePublishDeliver, HandlePublishBlock
  <2> QED
    BY <2>1, <2>2, <2>3, <2>4
<1> QED
  BY <1>1, <1>3, <1>9, StatusStep

LEMMA RequestsStep ==
    ASSUME TypeInv, [Next]_vars, ~Reconnect, NEW x \in Responses, requests[x] # "waiting"
    PROVE  requests'[x] # "waiting"
<1>0. requests \in [Responses -> {"waiting", "claimed", "done"}]
  BY DEF TypeInv, DeliverOK
<1>1. ASSUME NEW m, NEW r, Deliver(m, r) PROVE requests'[x] # "waiting"
  BY <1>0, <1>1 DEF Deliver
<1>2. ASSUME NEW m, NEW r, Accept(m, r) PROVE requests'[x] # "waiting"
  BY <1>0, <1>1, <1>2 DEF Accept
<1> QED
  BY <1>1, <1>2
     DEF Next, vars, deliver, Reader, Drainer, HandlePublish, HandlePublishKnown, HandlePublishWaiting,
         HandlePublishDeliver, HandlePublishBlock, HandlePubrel, ReaderPut, ReaderCompletes, Ack, DrainDelivers,
         HandlePublishHold, HandlePublishOverflow, BrokerSends, BrokerRepeats, BrokerTakesAck,
         HandlePubrelUnknown, HandleSuback, GetMessage, Subscribe, CallDrain, TimerFires, DrainBegins,
         DrainSkips, DrainEnds, ExpireEnds, DrainSent, DrainSentLate, DrainSendFails, CancelDrain,
         CancelCall, CancelGet, CancelWait,
         DrainRaises, LoseConnection, Teardown

LEMMA ManualKept ==
    ASSUME TypeInv, BooksInv, UniqueInv, WireInv, ManualInv, [Next]_vars
    PROVE  ManualInv'
<1>1. ASSUME NEW m \in Qos2
      PROVE  /\ m \in pendingAck' \/ inflight'[m] = "delivered" => Manual(m)
             /\ inflight'[m] = "subscription" => ~Manual(m)
  <2>0. /\ m \in Msgs /\ Qos[m] = 2
        /\ m \in pendingAck \/ inflight[m] = "delivered" => Manual(m)
        /\ inflight[m] = "subscription" => ~Manual(m)
    BY DEF Qos2, ManualInv
  <2>1. ASSUME NEW r \in Rcpts, Accept(m, r)
        PROVE  /\ m \in pendingAck' \/ inflight'[m] = "delivered" => Manual(m)
               /\ inflight'[m] = "subscription" => ~Manual(m)
    <3>1. r # "delivered"
      BY DEF Rcpts
    <3> QED
      BY <2>0, <2>1, <3>1, AcceptOn2
  <2>2. CASE Same(m)
    BY <2>0, <2>2 DEF Same
  <2>3. CASE HandlePublishDeliver(m)
    BY <2>0, <2>1, <2>3, RecipientTyped DEF HandlePublishDeliver
  <2>4. CASE HandlePublishBlock(m)
    <3>1. Manual(m) /\ inflight' = inflight /\ New(m)
      BY <2>0, <2>4 DEF HandlePublishBlock, PutsNow, AutoAck, Manual
    <3> QED
      BY <3>1 DEF New
  <2>5. CASE HandlePubrel(m)
    BY <2>0, <2>5 DEF HandlePubrel, TypeInv, DeliverOK
  <2>6. CASE ReaderPut \/ ReaderCompletes \/ Teardown
    BY <2>0, <2>6 DEF ReaderPut, ReaderCompletes, Teardown, deliver
  <2>7. ASSUME NEW e \in unacked, Ack(e), e[1] = m, e[2] = session PROVE Manual(m) /\ inflight'[m] = "delivered"
    BY <2>0, <2>7 DEF ManualInv, Ack, AckCallback, TypeInv, DeliverOK
  <2>8. CASE DrainDelivers /\ Head(Batch) = m
    BY <2>0, <2>1, <2>8, RecipientTyped DEF DrainDelivers
  <2>9. CASE Reconnect
    BY <2>0, <2>9 DEF Reconnect
  <2> QED
    BY <2>0, <2>2, <2>3, <2>4, <2>5, <2>6, <2>7, <2>8, <2>9, Touched
<1>2. ASSUME NEW m \in Responses, Owns(m)' PROVE requests'[m] # "waiting"
  <2>0. m \in Msgs
    BY InboundAssumption
  <2>1. ~Reconnect
    BY <1>2, <2>0, FreshStart
  <2>2. CASE Owns(m)
    BY <2>1, <2>2, RequestsStep DEF ManualInv
  <2>3. CASE HandlePublishHold(m)
    BY <2>3 DEF HandlePublishHold, Passes, Recipient, deliver
  <2> QED
    BY <1>2, <2>0, <2>2, <2>3, UniqueKept
<1>3. ASSUME NEW e \in unacked' PROVE Manual(e[1])
  <2>1. CASE e \in unacked
    BY <2>1 DEF ManualInv
  <2>2. ASSUME NEW K, Return(K) PROVE e \in unacked \/ Manual(e[1])
    BY <2>2 DEF Return, NeedsAck, Manual
  <2> QED
    BY <2>1, <2>2
     DEF Next, vars, app, Reader, Drainer, HandlePublish, HandlePublishKnown, HandlePublishWaiting,
         HandlePublishDeliver, HandlePublishBlock, HandlePubrel, ReaderPut, ReaderCompletes, Ack, DrainDelivers,
         HandlePublishHold, HandlePublishOverflow, BrokerSends, BrokerRepeats, BrokerTakesAck,
         HandlePubrelUnknown, HandleSuback, GetMessage, Subscribe, CallDrain, TimerFires, DrainBegins,
         DrainSkips, DrainEnds, ExpireEnds, DrainSent, DrainSentLate, DrainSendFails, CancelDrain,
         CancelCall, CancelGet, CancelWait,
         DrainRaises, RaiseTo, LoseConnection, Teardown, Reconnect
<1> QED
  BY <1>1, <1>2, <1>3 DEF ManualInv, Manual

Qos2Inv == UniqueInv /\ WireInv /\ SeenInv /\ ManualInv /\ OnceInv

LEMMA HandOwned == ASSUME TypeInv, NEW m \in Msgs, InHand(m) PROVE Owns(m)
  BY PlaceOfMsg DEF InHand, Owns

\* A PUBLISH for a message of which nothing is known is its first: it has not
\* been delivered on this connection, nor on an earlier one.
LEMMA FirstPublish ==
    ASSUME TypeInv, BooksInv, NEW m \in Qos2, OnceFor(m), GoneFor(m), Reading("publish", m), New(m)
    PROVE  /\ puts[m] = 0 /\ inflight[m] = "none" /\ m \notin pendingAck /\ reader.pc = "idle"
           /\ ~Owns(m) /\ ~InHand(m) /\ ~(m \in before /\ ~Manual(m))
<1>1. m \in Msgs /\ Qos[m] = 2 /\ puts[m] \in 0 .. 2
  BY DEF Qos2, TypeInv, DeliverOK, Many
<1>2. Coming(m) /\ conn # "dead" /\ reader.pc = "idle"
  BY PublishComes, ReadingComes
<1>3. ~Closed(m)
  BY <1>2 DEF Closed
<1>4. ~Owns(m)
  BY <1>1, <1>2, NewNotOwned
<1>5. puts[m] = 0
  BY <1>1, <1>3 DEF OnceFor, New
<1> QED
  BY <1>1, <1>2, <1>3, <1>4, <1>5, HandOwned DEF New, GoneFor

\* The messages a drain hands out go to subscriptions.
LEMMA DrainRecipient ==
    ASSUME TypeInv, ManualInv, DrainDelivers
    PROVE  Recipient(Head(Batch)) = "subscription" /\ Owns(Head(Batch)) /\ Head(Batch) \in Msgs
<1>1. Owns(Head(Batch)) /\ Head(Batch) \in Msgs
  BY BatchOwned DEF DrainDelivers
<1>2. Recipient(Head(Batch)) # "nobody"
  BY DEF DrainDelivers
<1> QED
  BY <1>1, <1>2 DEF Recipient, ManualInv

LEMMA OnceDrained ==
    ASSUME TypeInv, ManualInv, NEW m \in Qos2, OnceFor(m), GoneFor(m), DrainDelivers, Head(Batch) = m,
           Quiet => Quiet', Closed(m) => Closed(m)'
    PROVE  OnceFor(m)' /\ GoneFor(m)'
<1> DEFINE r == Recipient(m)
<1>1. m \in Msgs /\ Qos[m] = 2 /\ r = "subscription" /\ Owns(m) /\ ~InHand(m) /\ r \in Rcpts
  BY DrainRecipient DEF Qos2, DrainDelivers, InHand, Rcpts
<1>2. /\ Accept(m, r) /\ reader' = reader /\ before' = before
      /\ drain' = [drain EXCEPT !.pc = IF AckKind(m, r) = "none" THEN "discard" ELSE "send",
                                !.msg = m, !.pending = Tail(Batch)]
  BY DEF DrainDelivers
<1>3. InHand(m)' /\ drain'.pc = (IF AckKind(m, r) = "none" THEN "discard" ELSE "send")
  BY <1>2 DEF InHand, TypeInv, DrainOK, DrainStates
<1>4. Busy(m)' <=> Busy(m)
  BY <1>2 DEF Busy
<1>5. ~(m \in before /\ ~Manual(m))
  BY <1>1 DEF GoneFor
<1>6. CASE Manual(m)
  <2>1. Untouched(m) /\ ~AutoAck(m, r)
    BY <1>1, <1>6 DEF OnceFor, AutoAck, Manual
  <2>2. puts'[m] = 1 /\ inflight'[m] = "none" /\ m \in pendingAck' /\ ~Busy(m)'
    BY <1>1, <1>2, <1>4, <2>1, AcceptOn2 DEF Untouched
  <2>3. drain'.pc = "discard"
    BY <1>3, <2>1 DEF AckKind
  <2>4. "none" \notin Rcpts
    BY DEF Rcpts
  <2> QED
    BY <1>2, <1>3, <1>5, <1>6, <2>2, <2>3, <2>4 DEF OnceFor, GoneFor, Manual
<1>7. CASE ~Manual(m)
  <2>1. puts' = puts /\ inflight'[m] = "subscription" /\ pendingAck' = pendingAck
    BY <1>1, <1>2, <1>7, AcceptOn2
  <2>2. m \notin pendingAck /\ inflight[m] # "delivered"
    BY <1>7 DEF ManualInv
  <2>3. puts[m] \in 0 .. 2
    BY <1>1 DEF TypeInv, DeliverOK, Many
  <2>4. puts[m] > 0 => Closed(m) /\ Quiet
    BY <1>1, <2>2, <2>3 DEF OnceFor, Untouched
  <2>5. Busy(m) => reader.pc = "completing" /\ Closed(m) /\ Quiet
    <3>1. Busy(m) => reader.pc \in {"put", "completing"}
      BY DEF Busy, TypeInv, ReaderOK
    <3> QED
      BY <1>1, <3>1 DEF OnceFor, Untouched
  <2> QED
    BY <1>2, <1>3, <1>4, <1>5, <1>7, <2>1, <2>4, <2>5 DEF OnceFor, GoneFor, Manual
<1> QED
  BY <1>6, <1>7

LEMMA OnceKept ==
    ASSUME TypeInv, BooksInv, EntriesOK, FlightsOK, Qos2Inv, [Next]_vars, ~Reconnect,
           cancels = 0, cancels' = 0, NEW m \in Qos2
    PROVE  OnceFor(m)' /\ GoneFor(m)'
<1> USE DEF Qos2Inv
<1>0. m \in Msgs /\ Qos[m] = 2 /\ puts[m] \in 0 .. 2 /\ OnceFor(m) /\ GoneFor(m)
  BY DEF Qos2, OnceInv, TypeInv, DeliverOK, Many
<1>1. (Quiet => Quiet') /\ (Closed(m) => Closed(m)')
  BY QuietStays, ClosedStays
<1>2. Owns(m)' => Owns(m) \/ HandlePublishHold(m)
  BY <1>0, UniqueKept
<1>3. before' = before
  BY DEF Next, vars, Reader, Drainer, HandlePublish, BrokerSends, BrokerRepeats, BrokerTakesAck,
         HandlePublishKnown, HandlePublishWaiting, HandlePublishDeliver, HandlePublishBlock,
         HandlePublishHold, HandlePublishOverflow, HandlePubrel, HandlePubrelUnknown, DrainRaises,
         HandleSuback, ReaderPut, ReaderCompletes, Subscribe, GetMessage, Ack, CallDrain, TimerFires,
         DrainBegins, DrainSkips, DrainDelivers, DrainEnds, ExpireEnds, DrainSent, DrainSentLate,
         DrainSendFails, CancelDrain,
         CancelCall, CancelGet, CancelWait,
         LoseConnection, Teardown
<1>4. "none" \notin Rcpts /\ "delivered" \notin Rcpts
  BY DEF Rcpts
<1>5. CASE DrainDelivers /\ Head(Batch) = m
  BY <1>0, <1>1, <1>5, OnceDrained
<1>6. ASSUME drain' = drain, Reading("pubrel", m) \/ reader.pc # "idle"
      PROVE  (Owns(m)' => Owns(m)) /\ (InHand(m)' <=> InHand(m))
  <2>1. ~HandlePublishHold(m)
    BY <1>6 DEF HandlePublishHold, Reading, Packet
  <2> QED
    BY <1>2, <1>6, <2>1 DEF InHand
<1>7. CASE HandlePublishDeliver(m)
  <2>1. /\ puts[m] = 0 /\ inflight[m] = "none" /\ m \notin pendingAck /\ reader.pc = "idle"
        /\ ~Owns(m) /\ ~InHand(m) /\ ~(m \in before /\ ~Manual(m))
    BY <1>0, <1>7, FirstPublish DEF HandlePublishDeliver
  <2>2. ~Owns(m)'
    BY <1>2, <1>7, <2>1 DEF HandlePublishDeliver, HandlePublishHold
  <2>3. ~Busy(m)' /\ ~InHand(m)' /\ Accept(m, Recipient(m))
    BY <1>7, <2>1 DEF HandlePublishDeliver, Busy, InHand
  <2>4. \/ puts'[m] = 1 /\ inflight'[m] = "none" /\ m \in pendingAck'
        \/ puts'[m] = 0
    BY <1>0, <2>1, <2>3, AcceptOn2, RecipientTyped
  <2> QED
    BY <1>3, <1>4, <2>1, <2>2, <2>3, <2>4 DEF OnceFor, GoneFor, Manual
<1>8. CASE HandlePublishBlock(m)
  <2>1. /\ puts[m] = 0 /\ inflight[m] = "none" /\ m \notin pendingAck /\ reader.pc = "idle"
        /\ ~Owns(m) /\ ~InHand(m) /\ ~(m \in before /\ ~Manual(m))
    BY <1>0, <1>8, FirstPublish DEF HandlePublishBlock
  <2>2. ~Owns(m)'
    BY <1>2, <1>8, <2>1 DEF HandlePublishBlock, HandlePublishHold
  <2>3. /\ ~InHand(m)' /\ reader'.pc = "put" /\ m \in pendingAck' /\ puts'[m] = 0 /\ inflight'[m] = "none"
    BY <1>0, <1>8, <2>1 DEF HandlePublishBlock, InHand
  <2> QED
    BY <1>3, <2>1, <2>2, <2>3 DEF OnceFor, GoneFor, Manual
<1>9. CASE HandlePubrel(m)
  <2>1. /\ inflight[m] # "none" /\ inflight'[m] = "none" /\ puts' = puts /\ pendingAck' = pendingAck
        /\ drain' = drain /\ status' = status /\ Reading("pubrel", m) /\ conn # "lost"
        /\ reader' = (IF inflight[m] = "delivered" THEN Idle ELSE [pc |-> "completing", msg |-> m, rcpt |-> inflight[m]])
    BY <1>0, <1>9 DEF HandlePubrel, TypeInv, DeliverOK
  <2>2. 1 \in DOMAIN wire /\ Is(wire[1], "pubrel", m) /\ wire' = Tail(wire) /\ ~Quiet /\ reader.pc = "idle"
    BY <2>1, ReadingComes DEF Quiet
  <2>3. Closed(m)'
    <3>1. status[m] \in {"released", "done"} /\ \A j \in DOMAIN wire : j > 1 => ~Is(wire[j], "publish", m)
      BY <2>2 DEF WireInv
    <3>2. wire \in Seq(Packets) /\ wire # <<>>
      BY <2>1 DEF Reading, TypeInv, BrokerOK
    <3>3. \A n \in DOMAIN wire' : n + 1 \in DOMAIN wire /\ n + 1 > 1 /\ wire'[n] = wire[n + 1]
      BY <2>2, <3>2, TailAt
    <3>4. \A n \in DOMAIN wire' : ~Is(wire'[n], "publish", m)
      BY <3>1, <3>3
    <3> QED
      BY <2>1, <3>1, <3>4 DEF Closed, Coming, Over2, Is
  <2>4. Busy(m)' => reader'.pc = "completing" /\ puts[m] = 0
    <3>1. inflight[m] \in Rcpts \cup {"delivered"}
      BY <1>0, <2>1 DEF TypeInv, DeliverOK
    <3>2. inflight[m] \in Rcpts => puts[m] = 0
      BY <1>0, <2>2 DEF OnceFor
    <3> QED
      BY <2>1, <3>1, <3>2 DEF Busy, Idle
  <2>5. (Owns(m)' => Owns(m)) /\ (InHand(m)' <=> InHand(m))
    BY <1>6, <2>1
  <2>6. ~Untouched(m)
    BY <2>1 DEF Untouched
  <2> QED
    BY <1>0, <1>3, <1>4, <2>1, <2>2, <2>3, <2>4, <2>5, <2>6 DEF OnceFor, GoneFor, Manual
<1>10. CASE (ReaderPut \/ ReaderCompletes) /\ reader.msg = m
  <2>1. /\ Busy(m) /\ reader' = Idle /\ Deliver(m, reader.rcpt) /\ drain' = drain
        /\ inflight' = inflight /\ pendingAck' = pendingAck /\ reader.pc \in {"put", "completing"}
    BY <1>10 DEF ReaderPut, ReaderCompletes, Busy
  <2>2. ~Busy(m)' /\ puts[m] = 0 /\ ~Untouched(m)
    BY <1>0, <2>1 DEF OnceFor, Busy, Idle, Untouched
  <2>3. puts'[m] \in {0, 1}
    <3>1. Min({puts[m] + 1, Many}) = 1 /\ puts \in [Msgs -> 0 .. Many]
      BY <2>2, OneMore DEF TypeInv, DeliverOK, Many
    <3> QED
      BY <1>0, <2>1, <2>2, <3>1 DEF Deliver
  <2>4. (Owns(m)' => Owns(m)) /\ (InHand(m)' <=> InHand(m))
    BY <1>6, <2>1
  <2>5. \/ m \in pendingAck /\ inflight[m] = "none" /\ ~Owns(m)
        \/ Closed(m) /\ (inflight[m] = "none" \/ Quiet)
    BY <1>0, <2>1 DEF OnceFor
  <2> QED
    BY <1>0, <1>1, <1>3, <1>4, <2>1, <2>2, <2>3, <2>4, <2>5, HandOwned DEF OnceFor, GoneFor, Manual
<1>11. ASSUME NEW e \in unacked, Ack(e), e[1] = m, e[2] = session PROVE OnceFor(m)' /\ GoneFor(m)'
  <2>1. puts[m] > 0
    BY <1>11 DEF EntriesOK, EntryOK
  <2>2. /\ inflight'[m] = "delivered" /\ puts' = puts /\ reader' = reader /\ drain' = drain /\ wire' = wire /\ FreeLoop
    BY <1>0, <1>11 DEF Ack, AckCallback, TypeInv, DeliverOK
  <2>3. ~Busy(m)' /\ ~Untouched(m)
    BY <1>0, <2>1, <2>2 DEF OnceFor, Busy, Untouched
  <2>4. ~HandlePublishHold(m)
    <3>1. ASSUME HandlePublishHold(m) PROVE FALSE
      <4>1. wire # <<>> /\ wire' = Tail(wire) /\ wire \in Seq(Packets)
        BY <3>1 DEF HandlePublishHold, Reading, TypeInv, BrokerOK
      <4> QED
        BY <2>2, <4>1, HeadTailProperties
    <3> QED
      BY <3>1
  <2>5. (Owns(m)' => Owns(m)) /\ (InHand(m)' <=> InHand(m))
    BY <1>2, <2>2, <2>4 DEF InHand
  <2> QED
    BY <1>0, <1>1, <1>3, <1>4, <2>1, <2>2, <2>3, <2>5 DEF OnceFor, GoneFor, Manual
<1>12. CASE Teardown
  <2>1. ~Busy(m)' /\ Quiet' /\ FreeLoop /\ puts' = puts /\ inflight' = inflight /\ pendingAck' = pendingAck
    BY <1>12 DEF Teardown, Busy, Idle, Quiet, deliver
  <2>2. Untouched(m) => Untouched(m)'
    BY <2>1 DEF Untouched
  <2>3. ~HandlePublishHold(m)
    BY <1>12 DEF Teardown, HandlePublishHold
  <2>4. InHand(m)' => InHand(m) /\ drain' = drain
    BY <1>0, <1>5, <1>12, HandStep DEF DrainDelivers, Teardown, FreeLoop
  <2>5. Manual(m) => ~InHand(m)
    BY <1>0, <2>1 DEF OnceFor, FreeLoop, InHand
  <2> QED
    BY <1>0, <1>1, <1>2, <1>3, <2>1, <2>2, <2>3, <2>4, <2>5 DEF OnceFor, GoneFor, Manual
<1>13. CASE Same(m) /\ ~(DrainDelivers /\ Head(Batch) = m)
  <2>1. /\ puts'[m] = puts[m] /\ inflight'[m] = inflight[m] /\ (m \in pendingAck' <=> m \in pendingAck)
        /\ (Busy(m)' <=> Busy(m)) /\ (Busy(m) => reader' = reader)
    BY <1>13 DEF Same, Busy
  <2>2. Untouched(m) => Untouched(m)'
    BY <2>1 DEF Untouched
  <2>3. InHand(m)' => InHand(m) /\ drain' = drain
    BY <1>0, <1>13, HandStep
  <2>4. ASSUME HandlePublishHold(m) PROVE Untouched(m)' /\ ~Busy(m) /\ ~(m \in before /\ ~Manual(m))
    <3>1. /\ puts[m] = 0 /\ inflight[m] = "none" /\ m \notin pendingAck /\ reader.pc = "idle"
          /\ ~(m \in before /\ ~Manual(m))
      BY <1>0, <2>4, FirstPublish DEF HandlePublishHold
    <3> QED
      BY <2>2, <3>1 DEF Untouched, Busy
  <2>5. ASSUME InHand(m), Owns(m)' PROVE InHand(m)' \/ (Quiet' /\ drain.pc = "send")
    <3>1. ~DrainSent /\ ~DrainSentLate
      BY <1>0, <2>5, UniqueKept DEF InHand
    <3>2. ~CancelDrain
      BY DEF CancelDrain
    <3>3. DrainSendFails => Quiet' /\ drain.pc = "send"
      BY DEF DrainSendFails, Quiet, TypeInv, LinkOK
    <3> QED
      BY <1>0, <2>5, <3>1, <3>2, <3>3, HandStep
  <2> QED
    BY <1>0, <1>1, <1>2, <1>3, <2>1, <2>2, <2>3, <2>4, <2>5 DEF OnceFor, GoneFor, Manual
<1> QED
  BY <1>0, <1>5, <1>7, <1>8, <1>9, <1>10, <1>11, <1>12, <1>13, Touched

LEMMA OnceAfresh ==
    ASSUME TypeInv, Qos2Inv, Reconnect, cancels = 0, NEW m \in Qos2
    PROVE  OnceFor(m)' /\ GoneFor(m)'
<1> USE DEF Qos2Inv
<1>0. m \in Msgs /\ puts[m] \in 0 .. 2 /\ OnceFor(m) /\ GoneFor(m)
  BY DEF Qos2, OnceInv, TypeInv, DeliverOK, Many
<1>1. Untouched(m)' /\ ~Owns(m)' /\ ~Coming(m)'
  BY <1>0, FreshStart
<1>2. ~InHand(m)'
  BY DEF Reconnect, InHand, TypeInv, DrainOK
<1>3. ASSUME m \in before', ~Manual(m) PROVE Closed(m)'
  <2>1. m \in before \/ puts[m] > 0
    BY <1>3 DEF Reconnect
  <2>2. Over2(status[m])
    BY <1>0, <1>3, <2>1 DEF OnceFor, GoneFor, ManualInv, Closed
  <2>3. Over2(status'[m])
    BY <1>0, <2>2 DEF Reconnect, Over2
  <2> QED
    BY <1>1, <2>3 DEF Closed, Over2
<1> QED
  BY <1>1, <1>2, <1>3 DEF OnceFor, GoneFor, Untouched, Manual

LEMMA CancelsGrow == ASSUME TypeInv, [Next]_vars PROVE cancels' = 0 => cancels = 0
<1>1. cancels \in Nat
  BY InboundAssumption DEF TypeInv, LinkOK
<1>2. cancels' = cancels \/ cancels' = cancels + 1
  BY DEF Next, vars, link, Reader, Drainer, HandlePublish, BrokerSends, BrokerRepeats, BrokerTakesAck,
         HandlePublishKnown, HandlePublishWaiting, HandlePublishDeliver, HandlePublishBlock,
         HandlePublishHold, HandlePublishOverflow, HandlePubrel, HandlePubrelUnknown,
         HandleSuback, ReaderPut, ReaderCompletes, Subscribe, GetMessage, Ack, CallDrain, TimerFires,
         DrainBegins, DrainSkips, DrainDelivers, DrainEnds, ExpireEnds, DrainSent, DrainSentLate,
         DrainSendFails, CancelDrain,
         CancelCall, CancelGet, CancelWait,
         LoseConnection, Teardown, Reconnect
<1> QED
  BY <1>1, <1>2

LEMMA NextQos2 == TypeInv /\ BooksInv /\ AckInv /\ Qos2Inv /\ [Next]_vars => Qos2Inv'
<1> SUFFICES ASSUME TypeInv, BooksInv, AckInv, Qos2Inv, [Next]_vars PROVE Qos2Inv'
  OBVIOUS
<1>1. UniqueInv' /\ WireInv' /\ SeenInv' /\ ManualInv'
  BY UniqueKept, WireKept, SeenKept, ManualKept DEF Qos2Inv, AckInv
<1>2. cancels' = 0 => cancels = 0
  BY CancelsGrow
<1>3. OnceInv'
  BY <1>2, OnceKept, OnceAfresh DEF OnceInv, AckInv, Qos2
<1> QED
  BY <1>1, <1>3 DEF Qos2Inv

LEMMA InitQos2 == Init => Qos2Inv
<1> SUFFICES ASSUME Init PROVE Qos2Inv
  OBVIOUS
<1>1. Waiting = <<>> \o <<>> \o <<>> \o <<>>
  BY DEF Init, Waiting, NoDrain
<1>2. Waiting = <<>>
  BY <1>1
<1>3. \A m \in Msgs : ~Owns(m) /\ Untouched(m) /\ ~Coming(m) /\ ~InHand(m)
  BY <1>2 DEF Init, Owns, Untouched, Busy, Idle, Coming, InHand, NoDrain
<1>4. UniqueInv
  BY <1>2 DEF UniqueInv, Unique
<1>5. WireInv /\ SeenInv
  BY <1>3 DEF Init, WireInv, SeenInv, Qos2
<1>6. ManualInv
  BY <1>3, InboundAssumption DEF Init, ManualInv, Qos2
<1>7. OnceInv
  BY <1>3 DEF OnceInv, OnceFor, GoneFor, Qos2, Untouched, Init
<1> QED
  BY <1>4, <1>5, <1>6, <1>7 DEF Qos2Inv

\* Exactly once, as far as the client goes: unless the application cancels a
\* drain, a QoS 2 message is delivered at most once on a connection, and with
\* automatic acknowledgement at most once over all connections of a session,
\* however often PUBLISH is repeated, whether the message was held or not, and
\* wherever a write fails (_accept_qos2_publish, handle_pubrel, _deliver_pending).
THEOREM Qos2DeliveredOnce == Spec => []Qos2AtMostOnce
<1> DEFINE I == TypeInv /\ BooksInv /\ AckInv /\ Qos2Inv
<1>1. Init => I
  BY InitTyped, InitBooks, InitAcks, InitQos2
<1>2. I /\ [Next]_vars => I'
  BY NextTyped, NextBooks, NextAcks, NextQos2
<1>3. I => Qos2AtMostOnce
  BY DEF Qos2Inv, OnceInv, OnceFor, GoneFor, Qos2, Untouched, Manual, Qos2AtMostOnce
<1> QED
  BY <1>1, <1>2, <1>3, PTL DEF Spec

-----------------------------------------------------------------------------
(***************************************************************************)
(* No drain is missed.  What the last drain has passed over is stuck: its  *)
(* topic has no subscription, or a full queue, or a call is on its way to  *)
(* drain again.  A drain that is running does not count for what it has    *)
(* already passed over.                                                    *)
(***************************************************************************)
Running(k) == drain.pc \in {"run", "send", "discard"} /\ k = Head(lock)
Asks(t) == \/ subs[t] = "asked"
           \/ subs[t] = "acked" /\ ~Running(<<"sub", t>>)
           \/ hand[t] # <<>> /\ ~Running(<<"app", t>>)
Stuck(t) == ~Registered(t) \/ Len(queue[t]) >= Cap \/ Asks(t)
Skipped == IF drain.pc \in {"off", "woken"} THEN held ELSE drain.unmatched

LockInv ==
    /\ \A i, j \in DOMAIN lock : i # j /\ lock[i] = lock[j] => lock[i] = Expiry
    /\ \A i \in DOMAIN lock : \A t \in Topics :
         /\ lock[i] = <<"sub", t>> => subs[t] = "acked"
         /\ lock[i] = <<"app", t>> => hand[t] # <<>>

StuckInv ==
    conn = "up" => /\ LockInv
                   /\ cancels = 0 => \A i \in DOMAIN Skipped : Stuck(TopicOf[Skipped[i]])

LEMMA TaskNames ==
    \A t, u : /\ <<"sub", t>> # Expiry /\ <<"app", t>> # Expiry /\ <<"sub", t>> # <<"app", u>>
              /\ (<<"sub", t>> = <<"sub", u>> => t = u) /\ (<<"app", t>> = <<"app", u>> => t = u)
  BY DEF Expiry

LEMMA UpBefore == ASSUME [Next]_vars, ~Reconnect, conn' = "up" PROVE conn = "up"
  BY DEF Next, vars, link, Reader, Drainer, HandlePublish, BrokerSends, BrokerRepeats, BrokerTakesAck,
         HandlePublishKnown, HandlePublishWaiting, HandlePublishDeliver, HandlePublishBlock,
         HandlePublishHold, HandlePublishOverflow, HandlePubrel, HandlePubrelUnknown,
         HandleSuback, ReaderPut, ReaderCompletes, Subscribe, GetMessage, Ack, CallDrain, TimerFires,
         DrainBegins, DrainSkips, DrainDelivers, DrainEnds, ExpireEnds, DrainSent, DrainSentLate,
         DrainSendFails, CancelDrain,
         CancelCall, CancelGet, CancelWait,
         LoseConnection, Teardown

\* The steps in which a drain is called, begins or ends.
Turns == \/ \E k \in Tasks : CallDrain(k)
         \/ TimerFires \/ DrainBegins \/ DrainEnds \/ ExpireEnds
         \/ DrainSentLate \/ DrainSendFails \/ CancelDrain \/ CancelCall \/ Teardown \/ Reconnect

\* What the application may do meanwhile.
AppStep ==
    \/ UNCHANGED <<subs, hand>>
    \/ \E t \in Topics : \/ Subscribe(t) \/ HandleSuback(t)
                         \/ GetMessage(t)

LEMMA CalmStep ==
    ASSUME TypeInv, [Next]_vars, ~Turns
    PROVE  /\ lock' = lock /\ cancels' = cancels
           /\ drain'.pc \in {"run", "send", "discard"} <=> drain.pc \in {"run", "send", "discard"}
           /\ AppStep
           /\ \/ held' = held /\ drain'.unmatched = drain.unmatched
              \/ DrainSent \/ DrainDelivers \/ DrainSkips
              \/ \E m \in Msgs : HandlePublishHold(m)
<1>1. drain \in DrainStates
  BY DEF TypeInv, DrainOK
<1>2. CASE DrainSkips
  BY <1>1, <1>2 DEF DrainSkips, DrainStates, AppStep, app, link
<1>3. CASE DrainDelivers
  BY <1>1, <1>3 DEF DrainDelivers, DrainStates, AppStep, app, link
<1>4. CASE DrainSent
  BY <1>1, <1>4 DEF DrainSent, DrainStates, AppStep, app, link
<1>5. CASE ~DrainSkips /\ ~DrainDelivers /\ ~DrainSent
  <2>1. /\ lock' = lock /\ cancels' = cancels /\ drain' = drain /\ AppStep
        /\ held' = held \/ \E m \in Msgs : HandlePublishHold(m)
    BY <1>5
       DEF Turns, AppStep, Next, vars, app, buffer, link, Reader, Drainer, HandlePublish, BrokerSends,
         BrokerRepeats, BrokerTakesAck, HandlePublishKnown, HandlePublishWaiting, HandlePublishDeliver,
         HandlePublishBlock, HandlePublishHold, HandlePublishOverflow, HandlePubrel, HandlePubrelUnknown,
         HandleSuback, ReaderPut, ReaderCompletes, Subscribe, GetMessage, Ack, LoseConnection
  <2> QED
    BY <2>1
<1> QED
  BY <1>2, <1>3, <1>4, <1>5

\* Only GetMessage shortens a queue.
LEMMA QueueGrows ==
    ASSUME TypeInv, [Next]_vars, NEW t \in Topics, ~GetMessage(t)
    PROVE  Len(queue[t]) \in Nat /\ Len(queue'[t]) \in Nat /\ Len(queue'[t]) >= Len(queue[t])
<1>0. queue \in [Topics -> Seq(QueueEntries)] /\ queue[t] \in Seq(QueueEntries) /\ Len(queue[t]) \in Nat
  BY DEF TypeInv, DeliverOK
<1> DEFINE P == Len(queue'[t]) \in Nat /\ Len(queue'[t]) >= Len(queue[t])
<1>1. ASSUME queue' = queue PROVE P
  BY <1>0, <1>1
<1>2. ASSUME NEW m \in Msgs, NEW r, Deliver(m, r) PROVE P
  <2>1. TopicOf[m] \in Topics /\ <<m, session>> \in QueueEntries
    BY InboundAssumption DEF TypeInv, LinkOK, QueueEntries
  <2>2. queue' = queue \/ queue' = [queue EXCEPT ![TopicOf[m]] = Append(queue[TopicOf[m]], <<m, session>>)]
    BY <1>2 DEF Deliver
  <2>3. PICK e \in QueueEntries : e = <<m, session>>
    BY <2>1
  <2>4. queue'[t] = queue[t] \/ queue'[t] = Append(queue[t], e)
    BY <1>0, <2>1, <2>2, <2>3
  <2>5. Len(Append(queue[t], e)) = Len(queue[t]) + 1
    BY <1>0, AppendProperties
  <2> QED
    BY <1>0, <2>4, <2>5
<1>3. ASSUME NEW m \in Msgs, NEW r, Accept(m, r) PROVE P
  BY <1>1, <1>2, <1>3 DEF Accept
<1>4. ASSUME NEW u \in Topics, GetMessage(u) PROVE P
  <2>1. u # t
    BY <1>4
  <2> QED
    BY <1>0, <1>4, <2>1 DEF GetMessage
<1> HIDE DEF P
<1>5. DrainDelivers => \E m \in Msgs, r \in Rcpts : Accept(m, r)
  BY BatchTyped, RecipientTyped DEF DrainDelivers
<1>6. ASSUME ReaderPut \/ ReaderCompletes PROVE \E m \in Msgs, r \in Rcpts : Deliver(m, r)
  BY <1>6 DEF ReaderPut, ReaderCompletes, TypeInv, ReaderOK
<1>7. \A m \in Msgs : HandlePublishDeliver(m) => \E r \in Rcpts : Accept(m, r)
  BY RecipientTyped DEF HandlePublishDeliver
<1>8. P
  BY <1>1, <1>2, <1>3, <1>4, <1>5, <1>6, <1>7
     DEF Next, vars, deliver, Reader, Drainer, HandlePublish, BrokerSends, BrokerRepeats, BrokerTakesAck,
         HandlePublishKnown, HandlePublishWaiting, HandlePublishBlock, HandlePublishHold,
         HandlePublishOverflow, HandlePubrel, HandlePubrelUnknown, HandleSuback, Subscribe, Ack,
         CallDrain, TimerFires, DrainBegins, DrainSkips, DrainEnds, ExpireEnds, DrainSent,
         DrainSentLate, DrainSendFails, CancelDrain,
         CancelCall, CancelGet, CancelWait,
         DrainRaises, LoseConnection, Teardown, Reconnect
<1> QED
  BY <1>0, <1>8 DEF P

\* A call in the lock's queue keeps its reason until it has returned.
LEMMA LockKept ==
    ASSUME TypeInv, BooksInv, LockInv, [Next]_vars, conn = "up", conn' = "up"
    PROVE  LockInv'
<1>0. /\ lock \in Seq(Tasks) /\ DOMAIN lock = 1 .. Len(lock) /\ Len(lock) \in Nat
      /\ subs \in [Topics -> SubStates] /\ hand \in [Topics -> {<<>>} \cup QueueEntries]
  BY DEF TypeInv, DrainOK, AppOK
<1>1. CASE ~Turns
  <2>1. lock' = lock /\ AppStep
    BY <1>1, CalmStep
  <2>2. \A t \in Topics : (subs[t] = "acked" => subs'[t] = "acked") /\ (hand[t] # <<>> => hand'[t] # <<>>)
    BY <1>0, <2>1 DEF AppStep, Subscribe, HandleSuback, GetMessage
  <2> QED
    BY <2>1, <2>2 DEF LockInv
<1>2. ASSUME NEW k \in Tasks, lock' = Append(lock, k), UNCHANGED <<subs, hand>>,
             \A i \in DOMAIN lock : lock[i] = k => k = Expiry,
             \A t \in Topics : /\ k = <<"sub", t>> => subs[t] = "acked"
                               /\ k = <<"app", t>> => hand[t] # <<>>
      PROVE  LockInv'
  <2>1. /\ DOMAIN lock' = 1 .. Len(lock) + 1 /\ \A n \in 1 .. Len(lock) : lock'[n] = lock[n]
        /\ lock'[Len(lock) + 1] = k
    BY <1>0, <1>2, AppendAt
  <2>2. \A i \in DOMAIN lock' : i \in DOMAIN lock \/ i = Len(lock) + 1
    BY <1>0, <2>1
  <2>3. \A i, j \in DOMAIN lock' : i # j /\ lock'[i] = lock'[j] => lock'[i] = Expiry
    BY <1>0, <1>2, <2>1, <2>2 DEF LockInv
  <2>4. ASSUME NEW i \in DOMAIN lock', NEW t \in Topics
        PROVE  /\ lock'[i] = <<"sub", t>> => subs'[t] = "acked"
               /\ lock'[i] = <<"app", t>> => hand'[t] # <<>>
    <3>1. CASE i \in DOMAIN lock
      <4>1. lock'[i] = lock[i] /\ subs' = subs /\ hand' = hand
        BY <1>0, <1>2, <2>1, <3>1
      <4> QED
        BY <3>1, <4>1 DEF LockInv
    <3>2. CASE i = Len(lock) + 1
      <4>1. lock'[i] = k /\ subs' = subs /\ hand' = hand
        BY <1>2, <2>1, <3>2
      <4> QED
        BY <1>2, <4>1
    <3> QED
      BY <2>2, <3>1, <3>2
  <2> QED
    BY <2>3, <2>4 DEF LockInv
<1>3. ASSUME lock # <<>>, lock' = Tail(lock),
             \A t \in Topics : /\ subs'[t] = (IF Head(lock) = <<"sub", t>> THEN "on" ELSE subs[t])
                               /\ hand'[t] = (IF Head(lock) = <<"app", t>> THEN <<>> ELSE hand[t])
      PROVE  LockInv'
  <2>1. /\ 1 \in DOMAIN lock /\ Head(lock) = lock[1] /\ DOMAIN lock' = 1 .. Len(lock) - 1
        /\ \A n \in DOMAIN lock' : n + 1 \in DOMAIN lock /\ lock'[n] = lock[n + 1]
    BY <1>0, <1>3, TailAt
  <2>2. \A n \in DOMAIN lock' : lock'[n] = Expiry \/ lock'[n] # Head(lock)
    BY <1>0, <2>1 DEF LockInv
  <2>3. \A t : <<"sub", t>> # Expiry /\ <<"app", t>> # Expiry
    BY TaskNames
  <2>4. \A i, j \in DOMAIN lock' : i # j /\ lock'[i] = lock'[j] => lock'[i] = Expiry
    BY <1>0, <2>1 DEF LockInv
  <2>5. ASSUME NEW i \in DOMAIN lock', NEW t \in Topics
        PROVE  /\ lock'[i] = <<"sub", t>> => subs'[t] = "acked"
               /\ lock'[i] = <<"app", t>> => hand'[t] # <<>>
    <3>1. i + 1 \in DOMAIN lock /\ lock'[i] = lock[i + 1]
      BY <2>1
    <3>2. ASSUME lock'[i] = <<"sub", t>> PROVE subs'[t] = "acked"
      <4>1. Head(lock) # <<"sub", t>>
        BY <2>2, <2>3, <3>2
      <4>2. subs[t] = "acked"
        BY <3>1, <3>2 DEF LockInv
      <4> QED
        BY <1>3, <4>1, <4>2
    <3>3. ASSUME lock'[i] = <<"app", t>> PROVE hand'[t] # <<>>
      <4>1. Head(lock) # <<"app", t>>
        BY <2>2, <2>3, <3>3
      <4>2. hand[t] # <<>>
        BY <3>1, <3>3 DEF LockInv
      <4> QED
        BY <1>3, <4>1, <4>2
    <3> QED
      BY <3>2, <3>3
  <2> QED
    BY <2>4, <2>5 DEF LockInv
<1>4. ASSUME lock' = <<>> PROVE LockInv'
  BY <1>4 DEF LockInv
<1>5. ASSUME NEW k \in Tasks, CallDrain(k) PROVE LockInv'
  <2>1. k \notin Range(lock) /\ WantsDrain(k)
    BY <1>5 DEF CallDrain
  <2>2. \A i \in DOMAIN lock : lock[i] # k
    BY <2>1 DEF Range
  <2>3. \A t \in Topics : /\ k = <<"sub", t>> => subs[t] = "acked"
                          /\ k = <<"app", t>> => hand[t] # <<>>
    BY <2>1, TaskNames DEF WantsDrain
  <2>4. CASE Drains(k)
    BY <1>2, <1>5, <2>2, <2>3, <2>4 DEF CallDrain, app
  <2>5. CASE ~Drains(k)
    <3>1. Return({k}) /\ lock' = lock
      BY <1>5, <2>5 DEF CallDrain
    <3>2. \A t \in Topics : /\ subs'[t] = (IF k = <<"sub", t>> THEN "on" ELSE subs[t])
                            /\ hand'[t] = (IF k = <<"app", t>> THEN <<>> ELSE hand[t])
      BY <3>1 DEF Return
    <3> QED
      BY <2>2, <3>1, <3>2 DEF LockInv
  <2> QED
    BY <2>4, <2>5
<1>6. CASE TimerFires
  <2>1. Expiry \in Tasks /\ \A t : <<"sub", t>> # Expiry /\ <<"app", t>> # Expiry
    BY TaskNames DEF Tasks
  <2> QED
    BY <1>2, <1>6, <2>1 DEF TimerFires, app
<1>7. ASSUME DrainBegins \/ DrainEnds \/ ExpireEnds \/ DrainSentLate \/ CancelDrain PROVE lock # <<>>
  BY <1>7 DEF DrainBegins, DrainEnds, ExpireEnds, DrainSentLate, CancelDrain, TypeInv, DrainOK
<1>8. CASE DrainBegins
  BY <1>8 DEF DrainBegins, app, LockInv
<1>9. CASE DrainEnds
  <2>1. lock' = <<>> \/ (lock' = Tail(lock) /\ Return({Head(lock)}))
    BY <1>9 DEF DrainEnds
  <2>2. ASSUME Return({Head(lock)})
        PROVE  \A t \in Topics : /\ subs'[t] = (IF Head(lock) = <<"sub", t>> THEN "on" ELSE subs[t])
                                 /\ hand'[t] = (IF Head(lock) = <<"app", t>> THEN <<>> ELSE hand[t])
    BY <2>2 DEF Return
  <2> QED
    BY <1>3, <1>4, <1>7, <1>9, <2>1, <2>2
<1>10. CASE ExpireEnds
  BY <1>4, <1>10 DEF ExpireEnds
<1>11. CASE DrainSentLate \/ CancelDrain
  <2>1. PICK back \in Seq(Msgs) : DrainRaises(back)
    BY <1>11, RaisesWith
  <2>2. /\ lock' = Tail(lock)
        /\ \A t \in Topics : /\ subs'[t] = (IF Head(lock) = <<"sub", t>> THEN "on" ELSE subs[t])
                             /\ hand'[t] = (IF Head(lock) = <<"app", t>> THEN <<>> ELSE hand[t])
    BY <2>1 DEF DrainRaises, RaiseTo
  <2> QED
    BY <1>3, <1>7, <1>11, <2>2
<1>12. ~DrainSendFails /\ ~Teardown /\ ~Reconnect
  BY DEF DrainSendFails, Teardown, Reconnect
<1>13. ASSUME NEW k, RaiseTo(k), \A n \in DOMAIN lock' : lock'[n] # k,
              \A n \in DOMAIN lock' : \E m \in DOMAIN lock : lock'[n] = lock[m],
              \A n, m \in DOMAIN lock' : n # m /\ lock'[n] = lock'[m] => lock'[n] = Expiry
       PROVE  LockInv'
  <2>1. \A t \in Topics : /\ subs'[t] = (IF k = <<"sub", t>> THEN "on" ELSE subs[t])
                          /\ hand'[t] = (IF k = <<"app", t>> THEN <<>> ELSE hand[t])
    BY <1>13 DEF RaiseTo
  <2>2. ASSUME NEW n \in DOMAIN lock', NEW t \in Topics
        PROVE  /\ lock'[n] = <<"sub", t>> => subs'[t] = "acked"
               /\ lock'[n] = <<"app", t>> => hand'[t] # <<>>
    <3>1. PICK m \in DOMAIN lock : lock'[n] = lock[m]
      BY <1>13
    <3>2. lock'[n] # k
      BY <1>13
    <3>3. /\ lock[m] = <<"sub", t>> => subs[t] = "acked"
          /\ lock[m] = <<"app", t>> => hand[t] # <<>>
      BY DEF LockInv
    <3> QED
      BY <2>1, <3>1, <3>2, <3>3
  <2> QED
    BY <1>13, <2>2 DEF LockInv
<1>14. CASE CancelCall
  <2>1. ASSUME lock' = lock, NEW t \in Topics, <<"app", t>> \notin Range(lock), RaiseTo(<<"app", t>>)
        PROVE  LockInv'
    <3>1. \A n \in DOMAIN lock : lock[n] # <<"app", t>>
      BY <2>1 DEF Range
    <3>2. \A n, m \in DOMAIN lock : n # m /\ lock[n] = lock[m] => lock[n] = Expiry
      BY DEF LockInv
    <3> QED
      BY <1>13, <2>1, <3>1, <3>2
  <2>2. ASSUME NEW i \in DOMAIN lock, lock' = RemoveAt(lock, i), RaiseTo(lock[i]), lock[i] # Expiry
        PROVE  LockInv'
    <3>1. /\ DOMAIN lock' = 1 .. Len(lock) - 1
          /\ \A n \in 1 .. Len(lock) - 1 : lock'[n] = IF n < i THEN lock[n] ELSE lock[n + 1]
      BY <1>0, <2>2, RemoveAtAt
    <3> DEFINE At(n) == IF n < i THEN n ELSE n + 1
    <3>2. \A n \in DOMAIN lock' : At(n) \in DOMAIN lock /\ At(n) # i /\ lock'[n] = lock[At(n)]
      BY <1>0, <3>1
    <3>3. \A n, m \in DOMAIN lock' : n # m => At(n) # At(m)
      BY <1>0, <3>1
    <3> HIDE DEF At
    <3>4. \A n, m \in DOMAIN lock : n # m /\ lock[n] = lock[m] => lock[n] = Expiry
      BY DEF LockInv
    <3> QED
      BY <1>13, <2>2, <3>2, <3>3, <3>4
  <2> QED
    BY <1>14, <2>1, <2>2, CallCancelled
<1> QED
  BY <1>1, <1>5, <1>6, <1>8, <1>9, <1>10, <1>11, <1>12, <1>14 DEF Turns

\* A stuck topic stays stuck until a drain takes its turn.
LEMMA StuckStays ==
    ASSUME TypeInv, LockInv, [Next]_vars, ~Turns, NEW t \in Topics, Stuck(t)
    PROVE  Stuck(t)'
<1>0. /\ subs \in [Topics -> SubStates] /\ hand \in [Topics -> {<<>>} \cup QueueEntries]
      /\ lock \in Seq(Tasks) /\ queue \in [Topics -> Seq(QueueEntries)]
      /\ (drain.pc = "off" <=> lock = <<>>) /\ Cap \in Nat
  BY InboundAssumption DEF TypeInv, AppOK, DrainOK, DeliverOK
<1>1. \A k : Running(k)' <=> Running(k)
  BY CalmStep DEF Running
<1>2. \A k : Running(k) => \E i \in DOMAIN lock : lock[i] = k
  <2>1. lock # <<>> => 1 \in DOMAIN lock /\ Head(lock) = lock[1]
    BY <1>0, TailAt
  <2> QED
    BY <1>0, <2>1 DEF Running
<1>3. AppStep
  BY CalmStep
<1>4. CASE GetMessage(t)
  <2>1. hand[t] = <<>> /\ queue[t] # <<>> /\ hand'[t] = Head(queue[t])
    BY <1>0, <1>4 DEF GetMessage
  <2>2. Head(queue[t]) \in QueueEntries
    BY <1>0, <2>1, HeadTailProperties
  <2>3. ASSUME NEW e \in QueueEntries PROVE e # <<>>
    <3>1. PICK m \in Msgs, n \in 1 .. MaxSessions : e = <<m, n>>
      BY DEF QueueEntries
    <3> QED
      BY <3>1
  <2>4. ~Running(<<"app", t>>)
    BY <1>2, <2>1 DEF LockInv
  <2> QED
    BY <1>1, <2>1, <2>2, <2>3, <2>4 DEF Stuck, Asks
<1>5. CASE ~GetMessage(t)
  <2>1. Len(queue[t]) \in Nat /\ Len(queue'[t]) \in Nat /\ Len(queue'[t]) >= Len(queue[t])
    BY <1>5, QueueGrows
  <2>2. Len(queue[t]) >= Cap => Len(queue'[t]) >= Cap
    BY <1>0, <2>1
  <2>3. subs[t] = "acked" => subs'[t] = "acked"
    BY <1>0, <1>3 DEF AppStep, Subscribe, HandleSuback, GetMessage
  <2>4. hand'[t] = hand[t]
    BY <1>0, <1>3, <1>5 DEF AppStep, Subscribe, HandleSuback, GetMessage
  <2>5. ~Registered(t) => ~Registered(t)' \/ subs'[t] = "asked"
    BY <1>0, <1>3 DEF AppStep, Subscribe, HandleSuback, GetMessage, Registered
  <2>6. ASSUME subs[t] = "asked" PROVE subs'[t] = "asked" \/ (subs'[t] = "acked" /\ ~Running(<<"sub", t>>))
    <3>1. subs'[t] \in {"asked", "acked"}
      BY <1>0, <1>3, <2>6 DEF AppStep, Subscribe, HandleSuback, GetMessage
    <3>2. ~Running(<<"sub", t>>)
      BY <1>2, <2>6 DEF LockInv
    <3> QED
      BY <3>1, <3>2
  <2> QED
    BY <1>1, <2>2, <2>3, <2>4, <2>5, <2>6 DEF Stuck, Asks
<1> QED
  BY <1>4, <1>5

\* What is not counted is not there.
LEMMA OneOnTopic ==
    ASSUME TypeInv, BooksInv, conn # "dead", NEW t \in Topics, topicCount[t] # 0
    PROVE  \E i \in DOMAIN Waiting : TopicOf[Waiting[i]] = t
<1>1. topicCount[t] = Cardinality(OnTopic(Waiting, t))
  BY DEF BooksInv, Books
<1>2. OnTopic(Waiting, t) # {}
  BY <1>1, FS_EmptySet
<1> QED
  BY <1>2 DEF OnTopic

\* The claim on the messages passed over.
AllStuck == \A i \in DOMAIN Skipped : Stuck(TopicOf[Skipped[i]])

LEMMA SkippedCalm ==
    ASSUME TypeInv, BooksInv, LockInv, AllStuck, [Next]_vars, conn = "up", ~Turns
    PROVE  AllStuck'
<1>0. /\ held \in Seq(Msgs) /\ drain.unmatched \in Seq(Msgs) /\ drain \in DrainStates
      /\ TopicOf \in [Msgs -> Topics]
  BY InboundAssumption DEF TypeInv, DrainOK, DrainStates, BufferOK
<1>1. Skipped \in Seq(Msgs)
  BY <1>0 DEF Skipped
<1>2. \A t \in Topics : Stuck(t) => Stuck(t)'
  BY StuckStays
<1>3. \A t : (\E i \in DOMAIN Skipped : TopicOf[Skipped[i]] = t) => t \in Topics /\ Stuck(t)'
  <2>1. \A i \in DOMAIN Skipped : Skipped[i] \in Msgs /\ TopicOf[Skipped[i]] \in Topics
    BY <1>0, <1>1, ElementOfSeq
  <2> QED
    BY <1>2, <2>1 DEF AllStuck
<1>4. ASSUME Skipped' = Skipped PROVE AllStuck'
  <2>1. \A i \in DOMAIN Skipped' : \A t : TopicOf[Skipped'[i]] = t => Stuck(t)'
    BY <1>3, <1>4
  <2> QED
    BY <2>1 DEF AllStuck
<1>5. ASSUME NEW m \in Msgs, Skipped' = Append(Skipped, m), Stuck(TopicOf[m])' PROVE AllStuck'
  <2>1. PICK s \in Seq(Msgs) : s = Skipped
    BY <1>1
  <2>2. /\ DOMAIN Append(s, m) = 1 .. Len(s) + 1 /\ DOMAIN s = 1 .. Len(s) /\ Len(s) \in Nat
        /\ \A n \in 1 .. Len(s) : Append(s, m)[n] = s[n]
        /\ Append(s, m)[Len(s) + 1] = m
    BY AppendAt
  <2>3. \A i \in DOMAIN Skipped' : i \in DOMAIN s \/ i = Len(s) + 1
    BY <1>5, <2>1, <2>2
  <2>4. \A i \in DOMAIN Skipped' : \A t : TopicOf[Skipped'[i]] = t => Stuck(t)'
    BY <1>3, <1>5, <2>1, <2>2, <2>3
  <2> QED
    BY <2>4 DEF AllStuck
<1>6. \/ held' = held /\ drain'.unmatched = drain.unmatched
      \/ DrainSent \/ DrainDelivers \/ DrainSkips
      \/ \E m \in Msgs : HandlePublishHold(m)
  BY CalmStep
<1>7. drain'.pc \in {"off", "woken"} <=> drain.pc \in {"off", "woken"}
  <2>1. drain' \in DrainStates
    BY NextTyped DEF TypeInv, DrainOK
  <2> QED
    BY <1>0, <2>1, CalmStep DEF DrainStates
<1>8. CASE held' = held /\ drain'.unmatched = drain.unmatched
  BY <1>4, <1>7, <1>8 DEF Skipped
<1>9. CASE DrainSent \/ DrainDelivers
  <2>1. drain.pc \notin {"off", "woken"} /\ drain'.unmatched = drain.unmatched
    BY <1>0, <1>9 DEF DrainSent, DrainDelivers, DrainStates
  <2> QED
    BY <1>4, <1>7, <2>1 DEF Skipped
<1>10. CASE DrainSkips
  <2>1. drain.pc \notin {"off", "woken"} /\ drain'.unmatched = Append(drain.unmatched, Head(Batch)) /\ Head(Batch) \in Msgs
    BY <1>0, <1>10, BatchTyped DEF DrainSkips, DrainStates
  <2>2. Stuck(TopicOf[Head(Batch)])
    BY <1>10 DEF DrainSkips, Recipient, Full, Stuck
  <2>3. PICK m \in Msgs : m = Head(Batch)
    BY <2>1
  <2>4. TopicOf[m] \in Topics /\ Stuck(TopicOf[m])'
    BY <1>0, <1>2, <2>2, <2>3
  <2> QED
    BY <1>5, <1>7, <2>1, <2>3, <2>4 DEF Skipped
<1>11. ASSUME NEW m \in Msgs, HandlePublishHold(m) PROVE AllStuck'
  <2>1. /\ held' = Append(held, m) /\ drain' = drain /\ ~Passes(m, Recipient(m))
    BY <1>11 DEF HandlePublishHold
  <2>2. CASE drain.pc \notin {"off", "woken"}
    BY <1>4, <2>1, <2>2 DEF Skipped
  <2>3. CASE drain.pc \in {"off", "woken"}
    <3>1. Skipped = Waiting /\ Skipped' = Append(Skipped, m) /\ TopicOf[m] \in Topics
      BY <1>0, <2>1, <2>3, WaitingOwned DEF Skipped
    <3>2. Recipient(m) = "nobody" \/ topicCount[TopicOf[m]] # 0
      BY <2>1 DEF Passes
    <3>3. CASE Recipient(m) = "nobody"
      <4>1. Stuck(TopicOf[m])
        BY <3>3 DEF Recipient, Stuck
      <4> QED
        BY <1>2, <1>5, <3>1, <4>1
    <3>4. CASE topicCount[TopicOf[m]] # 0
      <4>1. \E i \in DOMAIN Waiting : TopicOf[Waiting[i]] = TopicOf[m]
        BY <3>1, <3>4, OneOnTopic
      <4>2. Stuck(TopicOf[m])'
        BY <1>3, <3>1, <4>1
      <4> QED
        BY <1>5, <3>1, <4>2
    <3> QED
      BY <3>2, <3>3, <3>4
  <2> QED
    BY <2>2, <2>3
<1> QED
  BY <1>6, <1>8, <1>9, <1>10, <1>11

\* A drain that begins has passed over nothing; one that ends leaves what it has
\* passed over, and the calls that are still to come.
LEMMA SkippedTurns ==
    ASSUME TypeInv, BooksInv, LockInv, AllStuck, [Next]_vars, conn = "up", conn' = "up", cancels' = 0, Turns
    PROVE  AllStuck'
<1>0. /\ TypeInv' /\ BooksInv' /\ drain \in DrainStates /\ lock \in Seq(Tasks)
      /\ (drain.pc = "off" <=> lock = <<>>)
      /\ (drain.pc \in {"off", "woken"} => drain.unmatched = <<>>)
  BY NextTyped, NextBooks DEF TypeInv, DrainOK
<1>1. ASSUME Skipped' = <<>> PROVE AllStuck'
  BY <1>1 DEF AllStuck
<1>2. ASSUME Skipped' = Skipped, \A t \in Topics : Stuck(t) => Stuck(t)' PROVE AllStuck'
  <2>1. Skipped \in Seq(Msgs) /\ TopicOf \in [Msgs -> Topics]
    BY InboundAssumption DEF TypeInv, DrainOK, DrainStates, BufferOK, Skipped
  <2>2. \A i \in DOMAIN Skipped : TopicOf[Skipped[i]] \in Topics
    BY <2>1, ElementOfSeq
  <2>3. \A t : (\E i \in DOMAIN Skipped : TopicOf[Skipped[i]] = t) => Stuck(t)'
    BY <1>2, <2>2 DEF AllStuck
  <2>4. \A i \in DOMAIN Skipped' : \A t : TopicOf[Skipped'[i]] = t => Stuck(t)'
    BY <1>2, <2>3
  <2> QED
    BY <2>4 DEF AllStuck
<1>3. ASSUME NEW k \in Tasks, lock' = Append(lock, k), UNCHANGED <<subs, hand, queue, held>>,
             drain' = IF lock = <<>> THEN [NoDrain EXCEPT !.pc = "run"] ELSE drain
      PROVE  AllStuck'
  <2>1. CASE lock = <<>>
    BY <1>1, <1>3, <2>1 DEF Skipped, NoDrain
  <2>2. CASE lock # <<>>
    <3>1. Head(lock') = Head(lock) /\ drain' = drain
      BY <1>0, <1>3, <2>2
    <3>2. Skipped' = Skipped /\ \A t \in Topics : Stuck(t) => Stuck(t)'
      BY <1>3, <3>1 DEF Skipped, Stuck, Asks, Registered, Running
    <3> QED
      BY <1>2, <3>2
  <2> QED
    BY <2>1, <2>2
<1>4. ASSUME NEW k \in Tasks, CallDrain(k) PROVE AllStuck'
  <2>1. CASE Drains(k)
    BY <1>3, <1>4, <2>1 DEF CallDrain, app, deliver, buffer
  <2>2. CASE ~Drains(k)
    <3>1. replay # "buffered" /\ drain' = drain /\ held' = held
      BY <1>4, <2>2 DEF CallDrain, Drains, buffer
    <3>2. count = 0 /\ lock = <<>> /\ count = Len(Waiting)
      BY <3>1 DEF BooksInv, ReplayState, Books
    <3>3. Waiting = held /\ held \in Seq(Msgs)
      BY <1>0, <3>2, WaitingOwned
    <3>4. held = <<>>
      BY <3>2, <3>3, EmptySeq
    <3> QED
      BY <1>0, <1>1, <3>1, <3>2, <3>4 DEF Skipped
  <2> QED
    BY <2>1, <2>2
<1>5. CASE TimerFires
  <2>1. Expiry \in Tasks
    BY DEF Tasks
  <2> QED
    BY <1>3, <1>5, <2>1 DEF TimerFires, app, deliver
<1>6. CASE DrainBegins
  <2>1. drain'.pc = "run" /\ drain'.unmatched = <<>>
    BY <1>0, <1>6 DEF DrainBegins, DrainStates
  <2> QED
    BY <1>1, <2>1 DEF Skipped
<1>7. CASE ExpireEnds
  BY <1>1, <1>7 DEF ExpireEnds, Skipped, NoDrain
<1>8. CASE DrainEnds
  <2>1. drain.pc = "run" /\ held' = drain.unmatched /\ queue' = queue /\ Skipped = drain.unmatched
    BY <1>8 DEF DrainEnds, deliver, Skipped
  <2>2. CASE count = 0 /\ replay = "buffered"
    <3>1. drain' = NoDrain /\ count' = 0 /\ conn' # "dead"
      BY <1>8, <2>2 DEF DrainEnds
    <3>2. drain'.pc \in {"off", "woken"}
      BY <3>1 DEF NoDrain
    <3>3. Waiting' = held' /\ held' \in Seq(Msgs)
      <4>1. held' \in Seq(Msgs)
        BY <1>0 DEF TypeInv, BufferOK
      <4>2. Waiting' = <<>> \o <<>> \o <<>> \o held'
        BY <3>1 DEF Waiting, NoDrain
      <4> QED
        BY <4>1, <4>2
    <3>4. Len(Waiting') = 0
      BY <1>0, <3>1 DEF BooksInv, Books
    <3>5. held' = <<>>
      BY <3>3, <3>4, EmptySeq
    <3> QED
      BY <1>1, <3>2, <3>5 DEF Skipped
  <2>3. CASE ~(count = 0 /\ replay = "buffered")
    <3>1. Return({Head(lock)}) /\ drain' = Woken(Tail(lock))
      BY <1>8, <2>3 DEF DrainEnds
    <3>2. drain'.pc \in {"off", "woken"}
      BY <3>1 DEF Woken, NoDrain
    <3>3. \A k : ~Running(k)' /\ (Running(k) <=> k = Head(lock))
      BY <2>1, <3>2 DEF Running
    <3>4. \A t \in Topics : /\ subs'[t] = (IF Head(lock) = <<"sub", t>> THEN "on" ELSE subs[t])
                            /\ hand'[t] = (IF Head(lock) = <<"app", t>> THEN <<>> ELSE hand[t])
      BY <3>1 DEF Return
    <3>5. ASSUME NEW t \in Topics, Stuck(t) PROVE Stuck(t)'
      <4>1. 1 \in DOMAIN lock /\ Head(lock) = lock[1]
        BY <1>0, <2>1, TailAt
      <4>2. Head(lock) = <<"sub", t>> => subs[t] = "acked"
        BY <4>1 DEF LockInv
      <4>3. ~Registered(t) => ~Registered(t)'
        BY <3>4, <4>2 DEF Registered
      <4>4. Asks(t) => Asks(t)'
        BY <3>3, <3>4, <4>2 DEF Asks
      <4> QED
        BY <2>1, <3>5, <4>3, <4>4 DEF Stuck
    <3>6. Skipped' = Skipped
      BY <2>1, <3>2 DEF Skipped
    <3> QED
      BY <1>2, <3>5, <3>6
  <2> QED
    BY <2>2, <2>3
<1>9. ~DrainSentLate
  <2>1. ASSUME DrainSentLate PROVE FALSE
    <3>1. drain.pc \in {"send", "discard"} /\ topicCount[TopicOf[drain.msg]] = 0
      BY <2>1 DEF DrainSentLate
    <3>2. Place \in DOMAIN Waiting /\ Waiting[Place] = drain.msg
      BY <3>1, PlaceOfMsg
    <3>3. Books(Waiting, count, topicCount, ids) /\ Waiting \in Seq(Msgs) /\ topicCount \in [Topics -> Nat]
      BY WaitingOwned DEF BooksInv, TypeInv, BufferOK
    <3>4. topicCount[TopicOf[Waiting[Place]]] > 0
      BY <3>2, <3>3, BooksRemove
    <3> QED
      BY <3>1, <3>2, <3>4
  <2> QED
    BY <2>1
<1>10. ~DrainSendFails /\ ~Teardown /\ ~Reconnect
  BY DEF DrainSendFails, Teardown, Reconnect
<1>11. ~CancelDrain /\ ~CancelCall
  <2>1. cancels \in Nat
    BY InboundAssumption DEF TypeInv, LinkOK
  <2>2. CancelDrain \/ CancelCall => cancels' = cancels + 1
    BY CallCancelled DEF CancelDrain
  <2> QED
    BY <2>1, <2>2
<1> QED
  BY <1>4, <1>5, <1>6, <1>7, <1>8, <1>9, <1>10, <1>11 DEF Turns

LEMMA NextStuck ==
    TypeInv /\ BooksInv /\ StuckInv /\ [Next]_vars => StuckInv'
<1> SUFFICES ASSUME TypeInv, BooksInv, StuckInv, [Next]_vars, conn' = "up"
             PROVE  LockInv' /\ (cancels' = 0 => AllStuck')
  BY DEF StuckInv, AllStuck
<1>1. CASE Reconnect
  <2>1. lock' = <<>> /\ held' = <<>> /\ drain' = drain /\ lock = <<>>
    BY <1>1 DEF Reconnect
  <2>2. drain.pc = "off"
    BY <2>1 DEF TypeInv, DrainOK
  <2>3. Skipped' = <<>>
    BY <2>1, <2>2 DEF Skipped
  <2> QED
    BY <2>1, <2>3 DEF LockInv, AllStuck
<1>2. CASE ~Reconnect
  <2>1. conn = "up" /\ LockInv /\ (cancels = 0 => AllStuck)
    BY <1>2, UpBefore DEF StuckInv, AllStuck
  <2>2. cancels' = 0 => cancels = 0
    BY CancelsGrow
  <2> QED
    BY <2>1, <2>2, LockKept, SkippedCalm, SkippedTurns
<1> QED
  BY <1>1, <1>2

LEMMA InitStuck == Init => StuckInv
  BY DEF Init, StuckInv, LockInv, Skipped, NoDrain

\* No held message is forgotten: on a working connection, whenever no drain runs,
\* waits for the lock or is about to be called, what is still held has no
\* recipient or a full queue (start and get_message, which call drain; accept,
\* which holds a message behind others of its topic; _deliver_pending).
THEOREM DrainsAreNotMissed == Spec => []NoMissedDrain
<1> DEFINE I == TypeInv /\ BooksInv /\ AckInv /\ Qos2Inv /\ StuckInv
<1>1. Init => I
  BY InitTyped, InitBooks, InitAcks, InitQos2, InitStuck
<1>2. I /\ [Next]_vars => I'
  BY NextTyped, NextBooks, NextAcks, NextQos2, NextStuck
<1>3. I => NoMissedDrain
  <2> SUFFICES ASSUME I, conn = "up", cancels = 0, lock = <<>>, \A k \in Tasks : ~WantsDrain(k),
                      \A t \in Topics : subs[t] # "asked", NEW i \in DOMAIN held
               PROVE  Recipient(held[i]) = "nobody" \/ Full(held[i], Recipient(held[i]))
    BY DEF NoMissedDrain
  <2>1. drain.pc = "off" /\ Waiting = held /\ held \in Seq(Msgs)
    BY WaitingOwned DEF TypeInv, DrainOK
  <2>2. held[i] \in Msgs /\ Owns(held[i]) /\ TopicOf[held[i]] \in Topics
    BY <2>1, ElementOfSeq, InboundAssumption DEF Owns
  <2>3. Stuck(TopicOf[held[i]])
    BY <2>1 DEF StuckInv, Skipped
  <2>4. ~Asks(TopicOf[held[i]])
    <3>1. \A t \in Topics : <<"sub", t>> \in Tasks /\ <<"app", t>> \in Tasks
      BY DEF Tasks
    <3>2. \A t \in Topics : (subs[t] = "acked" => WantsDrain(<<"sub", t>>)) /\ (hand[t] # <<>> => WantsDrain(<<"app", t>>))
      BY DEF WantsDrain
    <3> QED
      BY <2>2, <3>1, <3>2 DEF Asks
  <2>5. ~(held[i] \in Responses /\ requests[held[i]] = "waiting")
    BY <2>2 DEF Qos2Inv, ManualInv
  <2> QED
    BY <2>2, <2>3, <2>4, <2>5 DEF Stuck, Recipient, Full
<1> QED
  BY <1>1, <1>2, <1>3, PTL DEF Spec

=============================================================================
