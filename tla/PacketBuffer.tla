---------------------------- MODULE PacketBuffer ----------------------------
(***************************************************************************)
(* From bytes to packets (packets/reader.py and its two readers in         *)
(* protocol.py).  The peer writes packets, each encoded as one frame; TCP  *)
(* cuts the stream anywhere; _await_connack() reads until it has a first   *)
(* packet and leaves the rest in the buffer; _read_loop() of run() yields  *)
(* what the buffer holds before it reads again.                            *)
(***************************************************************************)
EXTENDS PacketCodec

CONSTANTS Versions,     \* MQTT versions, "3.1.1" and "5.0"
          Greetings,    \* packets the peer may write first
          Packets,      \* packets it may write then
          Malformed,    \* by version: frames that are no packet of it
          Chunks,       \* sizes of the pieces TCP delivers
          MaxPackets    \* bound: frames written

VARIABLES version,  \* of the connection
          sent,     \* frames written: what each means (Bad: nothing), and its end in the stream
          wire,     \* bytes written and not read
          buffer,   \* _buf: bytes read and not decoded
          reader,   \* "handshake", "iterating", "reading", "failed"
          got       \* packets yielded, CONNACK the first

ASSUME ChunkAssumption == Chunks \subseteq Nat \ {0}

vars == <<version, sent, wire, buffer, reader, got>>

Init ==
    /\ version \in Versions
    /\ sent = <<>>
    /\ wire = <<>>
    /\ buffer = <<>>
    /\ reader = "handshake"
    /\ got = <<>>

(* The bytes of the stream up to the end of frame i.                       *)
End(frames, i) == IF i = 0 THEN 0 ELSE frames[i].end

(* The peer writes a frame (a failed reader reads none).                   *)
Write(bytes, means) ==
    /\ Len(sent) < MaxPackets
    /\ reader # "failed"
    /\ sent' = Append(sent, [means |-> means, end |-> End(sent, Len(sent)) + Len(bytes)])
    /\ wire' = wire \o bytes
    /\ UNCHANGED <<version, buffer, reader, got>>

(* transport.read(): a piece of the stream, or the bytes there are.        *)
Piece(n) == SubSeq(wire, 1, IF n < Len(wire) THEN n ELSE Len(wire))

(* CONNACK accepts the connection; a Maximum QoS it sets must be a QoS.    *)
Accepts(p) ==
    /\ p.type = "connack"
    /\ p.return_code = 0
    /\ p.properties # None =>
           ("maximum_qos" \in DOMAIN p.properties => p.properties["maximum_qos"] \in 0 .. 2)

(* A turn of _await_connack(): read, feed, and the first packet if it is   *)
(* whole.  Anything but an accepting CONNACK ends the connection.          *)
AwaitConnack(n) ==
    LET buf == buffer \o Piece(n)
        r == Decode(buf, version)
    IN  /\ reader = "handshake"
        /\ wire # <<>>
        /\ wire' = Drop(wire, n)
        /\ \/ /\ r = Missing
              /\ buffer' = buf
              /\ UNCHANGED <<reader, got>>
           \/ /\ r # Missing
              /\ IF r.ok THEN ~ Accepts(r.val) ELSE TRUE
              /\ reader' = "failed"
              /\ buffer' = IF r.ok THEN r.rest ELSE buf
              /\ UNCHANGED got
           \/ /\ IF r.ok THEN Accepts(r.val) ELSE FALSE
              /\ reader' = "iterating"
              /\ buffer' = r.rest
              /\ got' = <<r.val>>
        /\ UNCHANGED <<version, sent>>

\* Mutant: one packet for each read.
IterateOnce ==
    LET r == Decode(buffer, version)
    IN  /\ reader = "iterating"
        /\ IF r = Missing THEN reader' = "reading" /\ UNCHANGED <<buffer, got>>
           ELSE IF ~ r.ok THEN reader' = "failed" /\ UNCHANGED <<buffer, got>>
           ELSE reader' = "reading" /\ buffer' = r.rest /\ got' = Append(got, r.val)
        /\ UNCHANGED <<version, sent, wire>>

\* Mutant: a yielded packet stays in the buffer.
IterateKeeps ==
    LET r == Decode(buffer, version)
    IN  /\ reader = "iterating"
        /\ IF r.ok THEN got' = Append(got, r.val) /\ UNCHANGED reader
           ELSE reader' = (IF r = Missing THEN "reading" ELSE "failed") /\ UNCHANGED got
        /\ UNCHANGED <<version, sent, wire, buffer>>

(* A turn of PacketBuffer.__iter__ in _read_loop(): the next packet, the   *)
(* end of the loop, or the exception that ends run().                      *)
Iterate ==
    LET r == Decode(buffer, version)
    IN  /\ reader = "iterating"
        /\ \/ /\ r = Missing
              /\ reader' = "reading"
              /\ UNCHANGED <<buffer, got>>
           \/ /\ r = Bad
              /\ reader' = "failed"
              /\ UNCHANGED <<buffer, got>>
           \/ /\ r.ok
              /\ buffer' = r.rest
              /\ got' = Append(got, r.val)
              /\ UNCHANGED reader
        /\ UNCHANGED <<version, sent, wire>>

(* The read of _read_loop(), and feed().                                   *)
ReadMore(n) ==
    /\ reader = "reading"
    /\ wire # <<>>
    /\ buffer' = buffer \o Piece(n)
    /\ wire' = Drop(wire, n)
    /\ reader' = "iterating"
    /\ UNCHANGED <<version, sent, got>>

Next ==
    \/ \E p \in IF sent = <<>> THEN Greetings ELSE Packets : Write(Encode(p, version), Carried(p, version))
    \/ \E bytes \in Malformed[version] : Write(bytes, Bad)
    \/ \E n \in Chunks : AwaitConnack(n) \/ ReadMore(n)
    \/ Iterate

Spec == Init /\ [][Next]_vars

-----------------------------------------------------------------------------
(* What encode() writes for a packet, decode() reads back, in one piece.   *)
RoundTrip(v) ==
    /\ \A p \in Greetings \cup Packets :
          /\ Encode(p, v) \in Seq(Byte)
          /\ Decode(Encode(p, v), v) = Got(Carried(p, v), <<>>)
          /\ Carried(p, v) # Bad
    /\ \A bytes \in Malformed[v] : bytes \in Seq(Byte) /\ Decode(bytes, v) = Bad

SoundVersions == {v \in Versions : RoundTrip(v)}

(* Whatever the cuts, the packets yielded by the buffer are the packets    *)
(* written, whole, in their order and none twice, each with every field    *)
(* and property its version carries; nothing is yielded of a malformed     *)
(* frame or after it; and the reader fails only over such a frame or, in   *)
(* the handshake, over a packet that is no accepting CONNACK: never        *)
(* because TCP has cut a header, a length or a body, or over a packet      *)
(* whose encoding decode() does not accept.                                *)
InOrderAndWhole ==
    /\ Len(got) <= Len(sent)
    /\ \A i \in DOMAIN got : got[i] = sent[i].means
    /\ reader = "failed" =>
          /\ Len(got) < Len(sent)
          /\ LET next == sent[Len(got) + 1].means
             IN  next = Bad \/ (got = <<>> /\ ~ Accepts(next))

(* Whoever waits for bytes waits for a packet that has not arrived whole:  *)
(* no read is started while a complete packet is in the buffer, the ones   *)
(* that came in one piece with CONNACK included.                           *)
NothingHeldBack ==
    reader \in {"handshake", "reading"} /\ Len(got) < Len(sent) =>
        End(sent, Len(got) + 1) > End(sent, Len(sent)) - Len(wire)

(* The version of the connection is one for which the codec is sound: in   *)
(* one piece, every packet that the peer may write comes back from decode  *)
(* as that version carries it, each property that one table writes read by *)
(* the other, with nothing left over; and what is malformed raises.        *)
CodecSound == version \in SoundVersions
=============================================================================
