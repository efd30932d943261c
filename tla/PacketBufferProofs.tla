------------------------ MODULE PacketBufferProofs ------------------------
(***************************************************************************)
(* Framing, proved for any packets, any pieces and any number of them.     *)
(* What the body of a packet means stays out of the proof: it rests on     *)
(* CodecSound, that each frame decodes in one piece, for the versions      *)
(* there are.  The argument:                                               *)
(*                                                                         *)
(*  - the outcome of decode() on a buffer is final: more bytes behind it   *)
(*    change neither the packet nor the exception (CutsDoNotMatter);       *)
(*  - so the buffer, which starts the rest of the stream, decodes to the   *)
(*    first frame of that rest or to nothing yet (FirstFrame, Turn);       *)
(*  - the rest of the stream is what was sent after the packets yielded,   *)
(*    frame by frame (FramesOK), which each action keeps (StreamInv).      *)
(***************************************************************************)
EXTENDS PacketBuffer, SequenceTheorems, TLAPS

(* x is the beginning of y. *)
Starts(x, y) == Len(x) <= Len(y) /\ \A i \in 1 .. Len(x) : x[i] = y[i]

(* What Drop leaves. *)
LEMMA DropAt ==
    ASSUME NEW S, NEW s \in Seq(S), NEW n \in Nat, n <= Len(s)
    PROVE  /\ Drop(s, n) \in Seq(S)
           /\ Len(Drop(s, n)) = Len(s) - n
           /\ \A i \in 1 .. Len(s) - n : Drop(s, n)[i] = s[i + n]
  BY SMTT(30) DEF Drop

(* A piece of a sequence, from after a to b. *)
LEMMA CutAt ==
    ASSUME NEW S, NEW s \in Seq(S), NEW a \in Nat, NEW b \in Nat, a <= b, b <= Len(s)
    PROVE  /\ SubSeq(s, a + 1, b) \in Seq(S)
           /\ Len(SubSeq(s, a + 1, b)) = b - a
           /\ \A i \in 1 .. b - a : SubSeq(s, a + 1, b)[i] = s[i + a]
  BY SMTT(30)

(* Two sequences joined. *)
LEMMA JoinAt ==
    ASSUME NEW S, NEW s \in Seq(S), NEW t \in Seq(S)
    PROVE  /\ s \o t \in Seq(S)
           /\ Len(s \o t) = Len(s) + Len(t)
           /\ \A i \in 1 .. Len(s) : (s \o t)[i] = s[i]
           /\ \A i \in 1 .. Len(t) : (s \o t)[Len(s) + i] = t[i]
  BY SMTT(30)

(* Sequences that agree at every place are the same. *)
LEMMA SameAt ==
    ASSUME NEW S, NEW s \in Seq(S), NEW t \in Seq(S), Len(s) = Len(t),
           \A i \in 1 .. Len(s) : s[i] = t[i]
    PROVE  s = t
  BY SeqEqual

-----------------------------------------------------------------------------
(* Bytes are numbers. *)
LEMMA ByteNat == \A b \in Byte : b \in Nat
  BY SMT DEF Byte

(* VarintBytes is the first of the four places with a byte below 128. *)
LEMMA VarintBytesFacts ==
    ASSUME NEW u \in Seq(Byte)
    PROVE  /\ VarintBytes(u) \in 0 .. 4
           /\ VarintBytes(u) <= Len(u)
           /\ VarintBytes(u) # 0 => u[VarintBytes(u)] < 128
           /\ \A m \in 1 .. 4 : m <= Len(u) /\ u[m] < 128 => VarintBytes(u) # 0 /\ VarintBytes(u) <= m
  <1> DEFINE ends == {n \in 1 .. 4 : n <= Len(u) /\ u[n] < 128}
  <1>0. Len(u) \in Nat
    OBVIOUS
  <1>1. CASE ends = {}
    <2>1. VarintBytes(u) = 0
      BY <1>1 DEF VarintBytes
    <2> QED
      BY <1>0, <1>1, <2>1
  <1>2. CASE ends # {}
    <2>1. \E n \in ends : \A m \in ends : n <= m
      <3> HIDE DEF ends
      <3>0. ends \subseteq 1 .. 4
        BY DEF ends
      <3>1. CASE 1 \in ends
        BY <3>0, <3>1
      <3>2. CASE 1 \notin ends /\ 2 \in ends
        BY <3>0, <3>2
      <3>3. CASE 1 \notin ends /\ 2 \notin ends /\ 3 \in ends
        BY <3>0, <3>3
      <3>4. CASE 1 \notin ends /\ 2 \notin ends /\ 3 \notin ends
        <4>1. PICK e \in ends : TRUE
          BY <1>2
        <4>2. \A m \in ends : m = 4
          BY <3>0, <3>4
        <4>3. e = 4
          BY <4>1, <4>2
        <4> QED
          BY <4>1, <4>2, <4>3
      <3> QED
        BY <3>1, <3>2, <3>3, <3>4
    <2>2. VarintBytes(u) = CHOOSE n \in ends : \A m \in ends : n <= m
      BY <1>2 DEF VarintBytes
    <2>3. VarintBytes(u) \in ends /\ \A m \in ends : VarintBytes(u) <= m
      BY <2>1, <2>2
    <2> QED
      BY <1>0, <2>3
  <1> QED
    BY <1>1, <1>2

(* More bytes do not change where a variable byte integer ends. *)
LEMMA VarintBytesStable ==
    ASSUME NEW u \in Seq(Byte), NEW w \in Seq(Byte), Starts(u, w)
    PROVE  /\ VarintBytes(u) # 0 => VarintBytes(w) = VarintBytes(u)
           /\ VarintBytes(u) = 0 /\ Len(u) >= 4 => VarintBytes(w) = 0
  <1> DEFINE a == VarintBytes(u)
  <1> DEFINE b == VarintBytes(w)
  <1>0. Len(u) \in Nat /\ Len(w) \in Nat /\ Len(u) <= Len(w) /\ \A i \in 1 .. Len(u) : u[i] = w[i]
    BY DEF Starts
  <1>1. /\ a \in 0 .. 4 /\ a <= Len(u) /\ (a # 0 => u[a] < 128)
        /\ \A m \in 1 .. 4 : m <= Len(u) /\ u[m] < 128 => a # 0 /\ a <= m
    BY VarintBytesFacts
  <1>2. /\ b \in 0 .. 4 /\ b <= Len(w) /\ (b # 0 => w[b] < 128)
        /\ \A m \in 1 .. 4 : m <= Len(w) /\ w[m] < 128 => b # 0 /\ b <= m
    BY VarintBytesFacts
  <1> HIDE DEF a, b
  <1>3. a # 0 => b = a
    <2> SUFFICES ASSUME a # 0 PROVE b = a
      OBVIOUS
    <2>1. a \in 1 .. 4 /\ a \in 1 .. Len(u) /\ a <= Len(w) /\ w[a] < 128
      BY <1>0, <1>1
    <2>2. b # 0 /\ b <= a
      BY <1>2, <2>1
    <2>3. b \in 1 .. 4 /\ b \in 1 .. Len(u) /\ u[b] < 128
      BY <1>0, <1>1, <1>2, <2>1, <2>2
    <2> QED
      BY <1>1, <2>1, <2>2, <2>3
  <1>4. a = 0 /\ Len(u) >= 4 => b = 0
    <2> SUFFICES ASSUME a = 0, Len(u) >= 4, b # 0 PROVE FALSE
      OBVIOUS
    <2>1. b \in 1 .. 4 /\ b \in 1 .. Len(u) /\ u[b] < 128
      BY <1>0, <1>2
    <2> QED
      BY <1>1, <2>1
  <1> QED
    BY <1>3, <1>4 DEF a, b

(* Nor its value. *)
LEMMA VarintStable ==
    ASSUME NEW u \in Seq(Byte), NEW w \in Seq(Byte), Starts(u, w), NEW n \in 1 .. 4, n <= Len(u)
    PROVE  /\ Varint(u, n) = Varint(w, n)
           /\ Varint(u, n) \in Nat
  <1> DEFINE digit(s, i) == IF i <= n THEN s[i] % 128 ELSE 0
  <1>1. \A i \in 1 .. n : u[i] = w[i] /\ u[i] \in Nat
    <2> TAKE i \in 1 .. n
    <2>1. i \in 1 .. Len(u) /\ u[i] \in Byte
      OBVIOUS
    <2>2. u[i] = w[i]
      BY ONLY <2>1, Starts(u, w) DEF Starts
    <2>3. u[i] \in Nat
      BY <2>1, ByteNat
    <2> QED
      BY <2>2, <2>3
  <1>2. \A i \in 1 .. 4 : digit(u, i) = digit(w, i) /\ digit(u, i) \in Nat
    BY <1>1
  <1>3. /\ Varint(u, n) = digit(u, 1) + 128 * (digit(u, 2) + 128 * (digit(u, 3) + 128 * digit(u, 4)))
        /\ Varint(w, n) = digit(w, 1) + 128 * (digit(w, 2) + 128 * (digit(w, 3) + 128 * digit(w, 4)))
    BY Zenon DEF Varint
  <1> HIDE DEF digit
  <1> QED
    BY <1>2, <1>3


(* Behind their first byte, too, x starts y. *)
LEMMA TailStarts ==
    ASSUME NEW x \in Seq(Byte), NEW y \in Seq(Byte), Starts(x, y), Len(x) >= 1
    PROVE  /\ Tail(x) \in Seq(Byte) /\ Len(Tail(x)) = Len(x) - 1
           /\ Tail(y) \in Seq(Byte) /\ Len(Tail(y)) = Len(y) - 1
           /\ Starts(Tail(x), Tail(y))
  <1>1. Len(x) \in Nat /\ Len(y) \in Nat /\ Len(x) <= Len(y) /\ \A i \in 1 .. Len(x) : x[i] = y[i]
    BY DEF Starts
  <1>2. x # <<>> /\ y # <<>>
    BY <1>1
  <1>3. Tail(x) \in Seq(Byte) /\ Len(Tail(x)) = Len(x) - 1 /\ \A i \in 1 .. Len(x) - 1 : Tail(x)[i] = x[i + 1]
    BY <1>2
  <1>4. Tail(y) \in Seq(Byte) /\ Len(Tail(y)) = Len(y) - 1 /\ \A i \in 1 .. Len(y) - 1 : Tail(y)[i] = y[i + 1]
    BY <1>2
  <1>5. ASSUME NEW i \in 1 .. Len(x) - 1 PROVE Tail(x)[i] = Tail(y)[i]
    <2>1. i \in 1 .. Len(y) - 1 /\ i + 1 \in 1 .. Len(x)
      BY <1>1
    <2> QED
      BY <1>1, <1>3, <1>4, <2>1
  <1> QED
    BY <1>1, <1>3, <1>4, <1>5 DEF Starts

\* What the body of a packet decodes to, after its first byte.
Inside(byte, body, v) ==
    LET types == {t \in DOMAIN PacketType : PacketType[t] = byte \div 16}
    IN  IF types = {} THEN Bad ELSE DecodeBody(CHOOSE t \in types : TRUE, byte % 16, body, v)

(* The bytes of the length field, and of the packet as it says. *)
LengthBytes(buf) == VarintBytes(Tail(buf))
Total(buf) == 1 + LengthBytes(buf) + Varint(Tail(buf), LengthBytes(buf))

(* decode() by the length it reads and what is inside. *)
LEMMA DecodeCases ==
    ASSUME NEW buf, NEW v
    PROVE  Decode(buf, v) =
              IF Len(buf) < 2 \/ (LengthBytes(buf) = 0 /\ Len(buf) < 5) THEN Missing
              ELSE IF LengthBytes(buf) = 0 THEN Bad
              ELSE IF Len(buf) < Total(buf) THEN Missing
              ELSE IF Inside(buf[1], SubSeq(buf, LengthBytes(buf) + 2, Total(buf)), v).ok
                   THEN Got(Inside(buf[1], SubSeq(buf, LengthBytes(buf) + 2, Total(buf)), v).val,
                            Drop(buf, Total(buf)))
                   ELSE Bad
  <1> DEFINE types == {t \in DOMAIN PacketType : PacketType[t] = buf[1] \div 16}
  <1> DEFINE body == SubSeq(buf, LengthBytes(buf) + 2, Total(buf))
  <1> DEFINE in == DecodeBody(CHOOSE t \in types : TRUE, buf[1] % 16, body, v)
  <1>1. Decode(buf, v) =
            IF Len(buf) < 2 \/ (LengthBytes(buf) = 0 /\ Len(buf) < 5) THEN Missing
            ELSE IF LengthBytes(buf) = 0 THEN Bad
            ELSE IF Len(buf) < Total(buf) THEN Missing
            ELSE IF types = {} THEN Bad
            ELSE IF in.ok THEN Got(in.val, Drop(buf, Total(buf))) ELSE Bad
    BY Zenon DEF Decode, LengthBytes, Total, Then
  <1>2. Inside(buf[1], body, v) = IF types = {} THEN Bad ELSE in
    BY Zenon DEF Inside
  <1>3. Bad.ok = FALSE
    BY DEF Bad
  <1> HIDE DEF types, in, body
  <1> QED
    BY ONLY <1>1, <1>2, <1>3, Zenon DEF body

(* The fields of a result. *)
LEMMA GotFields ==
    ASSUME NEW value, NEW rest
    PROVE  Got(value, rest).ok /\ Got(value, rest).val = value /\ Got(value, rest).rest = rest
  BY DEF Got

(* The three outcomes of decode() differ. *)
LEMMA OutcomesDiffer ==
    /\ Bad # Missing
    /\ ~ Bad.ok
    /\ ~ Missing.ok
    /\ \A value, rest : Got(value, rest) # Missing /\ Got(value, rest) # Bad
  <1>1. ~ Bad.ok /\ ~ Missing.ok /\ Bad.why = "raised" /\ Missing.why = "bytes missing"
    BY DEF Bad, Missing
  <1>2. "raised" # "bytes missing"
    OBVIOUS
  <1>3. Bad # Missing
    BY <1>1, <1>2
  <1>4. ASSUME NEW value, NEW rest PROVE Got(value, rest) # Missing /\ Got(value, rest) # Bad
    <2>1. Got(value, rest).ok
      BY GotFields
    <2> QED
      BY ONLY <1>1, <2>1, Zenon
  <1> QED
    BY ONLY <1>1, <1>3, <1>4, Zenon

(* Equal results have equal parts. *)
LEMMA GotSame ==
    ASSUME NEW a, NEW b, NEW r, NEW s, Got(a, r) = Got(b, s)
    PROVE  a = b /\ r = s
  BY GotFields

(* The length of a packet, once it can be read, is final. *)
LEMMA LengthStable ==
    ASSUME NEW x \in Seq(Byte), NEW y \in Seq(Byte), Starts(x, y), Len(x) >= 2
    PROVE  /\ LengthBytes(x) \in 0 .. 4 /\ LengthBytes(x) <= Len(x) - 1
           /\ LengthBytes(x) # 0 =>
                 LengthBytes(y) = LengthBytes(x) /\ Total(y) = Total(x)
                 /\ Total(x) \in Nat /\ Total(x) >= 1 + LengthBytes(x)
           /\ LengthBytes(x) = 0 /\ Len(x) >= 5 => LengthBytes(y) = 0
  <1> DEFINE u == Tail(x)
  <1> DEFINE w == Tail(y)
  <1>0. Len(x) \in Nat
    OBVIOUS
  <1>1. u \in Seq(Byte) /\ Len(u) = Len(x) - 1 /\ w \in Seq(Byte) /\ Starts(u, w)
    BY <1>0, TailStarts
  <1> HIDE DEF u, w
  <1>2. VarintBytes(u) \in 0 .. 4 /\ VarintBytes(u) <= Len(u)
    BY <1>1, VarintBytesFacts
  <1>3. /\ VarintBytes(u) # 0 => VarintBytes(w) = VarintBytes(u)
        /\ VarintBytes(u) = 0 /\ Len(u) >= 4 => VarintBytes(w) = 0
    BY <1>1, VarintBytesStable
  <1>4. LengthBytes(x) = VarintBytes(u) /\ LengthBytes(y) = VarintBytes(w)
    BY DEF LengthBytes, u, w
  <1>5. ASSUME VarintBytes(u) # 0
        PROVE  Total(y) = Total(x) /\ Total(x) \in Nat /\ Total(x) >= 1 + VarintBytes(u)
    <2>1. VarintBytes(u) \in 1 .. 4
      BY <1>2, <1>5
    <2>2. /\ Varint(u, VarintBytes(u)) = Varint(w, VarintBytes(u))
          /\ Varint(u, VarintBytes(u)) \in Nat
      BY <1>1, <1>2, <2>1, VarintStable
    <2>3. /\ Total(x) = 1 + VarintBytes(u) + Varint(u, VarintBytes(u))
          /\ Total(y) = 1 + VarintBytes(w) + Varint(w, VarintBytes(w))
      BY DEF Total, LengthBytes, u, w
    <2> QED
      BY <1>3, <1>5, <2>1, <2>2, <2>3
  <1> QED
    BY <1>0, <1>1, <1>2, <1>3, <1>4, <1>5

(* Wherever TCP has cut: when decode() has an outcome for the bytes x that
   have arrived (a packet of its first m bytes, or an exception), it has the same
   outcome for x with more bytes y behind it.  No cut makes decode() raise, or
   take a packet for another. *)
THEOREM CutsDoNotMatter ==
    ASSUME NEW x \in Seq(Byte), NEW y \in Seq(Byte), Starts(x, y), NEW v, Decode(x, v) # Missing
    PROVE  \/ Decode(x, v) = Bad /\ Decode(y, v) = Bad
           \/ \E val : \E m \in 2 .. Len(x) :
                 Decode(x, v) = Got(val, Drop(x, m)) /\ Decode(y, v) = Got(val, Drop(y, m))
  <1> DEFINE n == LengthBytes(x)
  <1> DEFINE t == Total(x)
  <1>0. Len(x) \in Nat /\ Len(y) \in Nat /\ Len(x) <= Len(y)
    BY DEF Starts
  <1>1. Len(x) >= 2
    BY <1>0, DecodeCases
  <1>2. /\ n \in 0 .. 4 /\ n <= Len(x) - 1
        /\ n # 0 => LengthBytes(y) = n /\ Total(y) = t /\ t \in Nat /\ t >= 1 + n
        /\ n = 0 /\ Len(x) >= 5 => LengthBytes(y) = 0
    BY <1>1, LengthStable
  <1> HIDE DEF n, t
  <1>3. CASE n = 0
    <2>1. Len(x) >= 5
      BY <1>0, <1>1, <1>3, DecodeCases DEF n
    <2>2. Decode(x, v) = Bad
      BY <1>0, <1>3, <2>1, DecodeCases DEF n
    <2>3. LengthBytes(y) = 0 /\ Len(y) >= 5
      BY <1>0, <1>2, <1>3, <2>1
    <2>4. Decode(y, v) = Bad
      BY <1>0, <2>3, DecodeCases
    <2> QED
      BY <2>2, <2>4
  <1>4. CASE n # 0
    <2>1. LengthBytes(y) = n /\ Total(y) = t /\ t \in Nat /\ t >= 1 + n /\ n \in Nat
      BY <1>2, <1>4
    <2>2. Len(x) >= t
      BY <1>0, <1>1, <1>4, <2>1, DecodeCases DEF n, t
    <2> DEFINE a == SubSeq(x, n + 2, t)
    <2> DEFINE b == SubSeq(y, n + 2, t)
    <2>3. a = b
      <3>1. n + 1 \in Nat /\ n + 1 <= t /\ (n + 1) + 1 = n + 2
        BY <2>1
      <3>2. a \in Seq(Byte) /\ Len(a) = t - (n + 1) /\ \A i \in 1 .. t - (n + 1) : a[i] = x[i + (n + 1)]
        BY <1>0, <2>1, <2>2, <3>1, CutAt
      <3>3. b \in Seq(Byte) /\ Len(b) = t - (n + 1) /\ \A i \in 1 .. t - (n + 1) : b[i] = y[i + (n + 1)]
        BY <1>0, <2>1, <2>2, <3>1, CutAt
      <3> HIDE DEF a, b
      <3>4. ASSUME NEW i \in 1 .. Len(a) PROVE a[i] = b[i]
        <4>1. i \in 1 .. t - (n + 1) /\ i + (n + 1) \in 1 .. Len(x)
          BY <1>0, <2>1, <2>2, <3>2
        <4>2. x[i + (n + 1)] = y[i + (n + 1)]
          BY <4>1 DEF Starts
        <4> QED
          BY <3>2, <3>3, <4>1, <4>2
      <3> QED
        BY <3>2, <3>3, <3>4, SameAt
    <2>4. x[1] = y[1]
      BY <1>0, <1>1 DEF Starts
    <2> DEFINE in == Inside(x[1], a, v)
    <2>5. Decode(x, v) = IF in.ok THEN Got(in.val, Drop(x, t)) ELSE Bad
      <3>1. ~ (Len(x) < 2 \/ (LengthBytes(x) = 0 /\ Len(x) < 5)) /\ LengthBytes(x) # 0
            /\ ~ (Len(x) < Total(x))
        BY <1>0, <1>1, <1>4, <2>1, <2>2 DEF n, t
      <3> QED
        BY <3>1, DecodeCases, Zenon DEF n, t
    <2>6. Decode(y, v) = IF in.ok THEN Got(in.val, Drop(y, t)) ELSE Bad
      <3>1. ~ (Len(y) < 2 \/ (LengthBytes(y) = 0 /\ Len(y) < 5)) /\ LengthBytes(y) # 0
            /\ ~ (Len(y) < Total(y))
        BY <1>0, <1>1, <1>4, <2>1, <2>2
      <3>2. Inside(y[1], SubSeq(y, LengthBytes(y) + 2, Total(y)), v) = in /\ Total(y) = t
        BY <2>1, <2>3, <2>4, Zenon
      <3> HIDE DEF in
      <3> QED
        BY <3>1, <3>2, DecodeCases, Zenon
    <2> HIDE DEF in
    <2>7. t \in 2 .. Len(x)
      BY <1>0, <1>2, <1>4, <2>1, <2>2
    <2> QED
      BY <2>5, <2>6, <2>7
  <1> QED
    BY <1>3, <1>4

(* Of two starts of one stream the shorter starts the longer. *)
LEMMA StartsBoth ==
    ASSUME NEW x \in Seq(Byte), NEW y \in Seq(Byte), NEW s \in Seq(Byte),
           Starts(x, s), Starts(y, s), Len(x) <= Len(y)
    PROVE  Starts(x, y)
  <1>0. Len(x) \in Nat /\ Len(y) \in Nat
    OBVIOUS
  <1>1. ASSUME NEW i \in 1 .. Len(x) PROVE x[i] = y[i]
    <2>1. i \in 1 .. Len(y)
      BY <1>0
    <2> QED
      BY <2>1 DEF Starts
  <1> QED
    BY <1>1 DEF Starts

\* What a frame decodes to, by its meaning.
Decodes(frame, means, v) == Decode(frame, v) = IF means = Bad THEN Bad ELSE Got(means, <<>>)

(* A buffer that starts the stream is short of its first frame f, or decodes
   to what f means. *)
LEMMA FirstFrame ==
    ASSUME NEW s \in Seq(Byte), NEW f \in Seq(Byte), NEW b \in Seq(Byte), NEW v, NEW means,
           Starts(f, s), Starts(b, s), Decodes(f, means, v)
    PROVE  \/ Decode(b, v) = Missing /\ Len(b) < Len(f)
           \/ Decode(b, v) = Bad /\ means = Bad
           \/ means # Bad /\ Decode(b, v) = Got(means, Drop(b, Len(f))) /\ Len(f) <= Len(b)
  <1>0. Len(f) \in Nat /\ Len(b) \in Nat
    OBVIOUS
  <1>1. Decode(f, v) # Missing /\ (Decode(f, v) = Bad <=> means = Bad)
        /\ (means # Bad => Decode(f, v) = Got(means, <<>>))
    BY OutcomesDiffer DEF Decodes
  <1>2. ASSUME NEW m \in 2 .. Len(f), NEW val, Decode(f, v) = Got(val, Drop(f, m))
        PROVE  means # Bad /\ val = means /\ m = Len(f)
    <2>1. means # Bad
      BY <1>1, <1>2, OutcomesDiffer
    <2>2. Got(val, Drop(f, m)) = Got(means, <<>>)
      BY <1>1, <1>2, <2>1
    <2>3. val = means /\ Drop(f, m) = <<>>
      BY <2>2, GotSame
    <2>4. Len(Drop(f, m)) = Len(f) - m
      <3>1. m \in Nat /\ m <= Len(f)
        BY <1>0
      <3> QED
        BY <3>1, DropAt
    <2>5. Len(Drop(f, m)) = 0
      BY <2>3
    <2> QED
      BY <1>0, <2>1, <2>3, <2>4, <2>5
  <1>3. CASE Len(f) <= Len(b)
    <2>1. Starts(f, b)
      BY <1>3, StartsBoth
    <2>2. \/ Decode(f, v) = Bad /\ Decode(b, v) = Bad
          \/ \E val : \E m \in 2 .. Len(f) :
                 Decode(f, v) = Got(val, Drop(f, m)) /\ Decode(b, v) = Got(val, Drop(b, m))
      BY <1>1, <2>1, CutsDoNotMatter
    <2>3. CASE Decode(f, v) = Bad /\ Decode(b, v) = Bad
      BY <1>1, <2>3
    <2>4. ASSUME NEW val, NEW m \in 2 .. Len(f),
                 Decode(f, v) = Got(val, Drop(f, m)), Decode(b, v) = Got(val, Drop(b, m))
          PROVE  means # Bad /\ Decode(b, v) = Got(means, Drop(b, Len(f)))
      <3>1. means # Bad /\ val = means /\ m = Len(f)
        BY <1>2, <2>4
      <3> QED
        BY <2>4, <3>1
    <2> QED
      BY <1>3, <2>2, <2>3, <2>4
  <1>4. CASE Len(b) < Len(f) /\ Decode(b, v) # Missing
    <2>1. Starts(b, f)
      BY <1>0, <1>4, StartsBoth
    <2>2. \/ Decode(b, v) = Bad /\ Decode(f, v) = Bad
          \/ \E val : \E m \in 2 .. Len(b) :
                 Decode(b, v) = Got(val, Drop(b, m)) /\ Decode(f, v) = Got(val, Drop(f, m))
      BY <1>4, <2>1, CutsDoNotMatter
    <2>3. ASSUME NEW val, NEW m \in 2 .. Len(b), Decode(f, v) = Got(val, Drop(f, m))
          PROVE  FALSE
      <3>1. m \in 2 .. Len(f)
        BY <1>0, <1>4
      <3>2. m = Len(f)
        BY <1>2, <2>3, <3>1
      <3> QED
        BY <1>0, <1>4, <3>2
    <2> QED
      BY <1>1, <2>2, <2>3
  <1> QED
    BY <1>0, <1>3, <1>4

(* What frames may mean. *)
Meanings == {Bad} \cup {Carried(p, v) : p \in Greetings \cup Packets, v \in Versions}
Frame == [means : Meanings, end : Nat]

(* No frame ends before an earlier one. *)
Rising(frames) ==
    \A i, j \in 0 .. Len(frames) : i <= j => End(frames, i) <= End(frames, j)

(* The bytes of frame i in the stream without its first g frames. *)
Segment(stream, frames, g, i) ==
    SubSeq(stream, (End(frames, i - 1) - End(frames, g)) + 1, End(frames, i) - End(frames, g))

(* The stream is the frames after the first g, and nothing else. *)
FramesOK(stream, frames, g, v) ==
    /\ Len(stream) = End(frames, Len(frames)) - End(frames, g)
    /\ \A i \in g + 1 .. Len(frames) : Decodes(Segment(stream, frames, g, i), frames[i].means, v)

(* Ends are numbers. *)
LEMMA EndNat ==
    ASSUME NEW frames \in Seq(Frame), NEW i \in 0 .. Len(frames)
    PROVE  End(frames, i) \in Nat
  <1>1. CASE i = 0
    BY <1>1 DEF End
  <1>2. CASE i # 0
    <2>1. i \in 1 .. Len(frames)
      BY <1>2
    <2>2. frames[i] \in Frame
      BY <2>1
    <2> QED
      BY <1>2, <2>2 DEF End, Frame
  <1> QED
    BY <1>1, <1>2

(* A frame within the rest of the stream. *)
LEMMA SegmentAt ==
    ASSUME NEW s \in Seq(Byte), NEW frames \in Seq(Frame), Rising(frames), NEW g \in 0 .. Len(frames),
           Len(s) = End(frames, Len(frames)) - End(frames, g), NEW i \in g + 1 .. Len(frames)
    PROVE  LET a == End(frames, i - 1) - End(frames, g)
               b == End(frames, i) - End(frames, g)
           IN  /\ a \in Nat /\ b \in Nat /\ a <= b /\ b <= Len(s)
               /\ Segment(s, frames, g, i) \in Seq(Byte)
               /\ Len(Segment(s, frames, g, i)) = b - a
               /\ \A k \in 1 .. b - a : Segment(s, frames, g, i)[k] = s[k + a]
  <1> DEFINE a == End(frames, i - 1) - End(frames, g)
  <1> DEFINE b == End(frames, i) - End(frames, g)
  <1>0. Len(frames) \in Nat /\ Len(s) \in Nat
    OBVIOUS
  <1>1. /\ i - 1 \in 0 .. Len(frames) /\ i \in 0 .. Len(frames) /\ Len(frames) \in 0 .. Len(frames)
        /\ g <= i - 1 /\ i - 1 <= i /\ i <= Len(frames)
    BY <1>0
  <1>2. /\ End(frames, g) \in Nat /\ End(frames, i - 1) \in Nat /\ End(frames, i) \in Nat
        /\ End(frames, Len(frames)) \in Nat
    BY <1>1, EndNat
  <1>3. /\ End(frames, g) <= End(frames, i - 1) /\ End(frames, i - 1) <= End(frames, i)
        /\ End(frames, i) <= End(frames, Len(frames))
    BY <1>1 DEF Rising
  <1>4. a \in Nat /\ b \in Nat /\ a <= b /\ b <= Len(s)
    BY <1>0, <1>2, <1>3
  <1>5. Segment(s, frames, g, i) = SubSeq(s, a + 1, b)
    BY DEF Segment
  <1> HIDE DEF a, b
  <1>6. /\ SubSeq(s, a + 1, b) \in Seq(Byte)
        /\ Len(SubSeq(s, a + 1, b)) = b - a
        /\ \A k \in 1 .. b - a : SubSeq(s, a + 1, b)[k] = s[k + a]
    BY <1>4, CutAt
  <1> QED
    BY <1>4, <1>5, <1>6 DEF a, b

(* The first frame of the rest. *)
LEMMA HeadFrame ==
    ASSUME NEW s \in Seq(Byte), NEW frames \in Seq(Frame), Rising(frames), NEW g \in 0 .. Len(frames),
           NEW v, FramesOK(s, frames, g, v), g < Len(frames)
    PROVE  LET f == Segment(s, frames, g, g + 1)
           IN  /\ f \in Seq(Byte) /\ Starts(f, s)
               /\ Len(f) = End(frames, g + 1) - End(frames, g)
               /\ Decodes(f, frames[g + 1].means, v)
  <1> DEFINE f == Segment(s, frames, g, g + 1)
  <1>0. Len(frames) \in Nat /\ g + 1 \in g + 1 .. Len(frames) /\ (g + 1) - 1 = g /\ Len(s) \in Nat
        /\ g + 1 \in 0 .. Len(frames)
    OBVIOUS
  <1>1. Len(s) = End(frames, Len(frames)) - End(frames, g)
    BY DEF FramesOK
  <1>2. End(frames, g) \in Nat /\ End(frames, g + 1) \in Nat
    BY <1>0, EndNat
  <1> DEFINE a == End(frames, (g + 1) - 1) - End(frames, g)
  <1> DEFINE b == End(frames, g + 1) - End(frames, g)
  <1>3. /\ a \in Nat /\ b \in Nat /\ a <= b /\ b <= Len(s)
        /\ f \in Seq(Byte) /\ Len(f) = b - a /\ \A k \in 1 .. b - a : f[k] = s[k + a]
    BY <1>0, <1>1, SegmentAt
  <1>4. a = 0
    BY <1>0, <1>2
  <1> HIDE DEF a, b, f
  <1>5. Len(f) = b /\ \A k \in 1 .. b : f[k] = s[k]
    BY <1>3, <1>4
  <1>6. Starts(f, s)
    BY <1>3, <1>5 DEF Starts
  <1>7. Decodes(f, frames[g + 1].means, v)
    BY <1>0 DEF f, FramesOK
  <1> QED
    BY <1>3, <1>5, <1>6, <1>7 DEF b, f

(* Without its first frame the rest is the rest after one packet more. *)
LEMMA FramesDrop ==
    ASSUME NEW s \in Seq(Byte), NEW frames \in Seq(Frame), Rising(frames), NEW g \in 0 .. Len(frames),
           NEW v, FramesOK(s, frames, g, v), g < Len(frames),
           NEW m, m = End(frames, g + 1) - End(frames, g), NEW d, d = Drop(s, m)
    PROVE  d \in Seq(Byte) /\ FramesOK(d, frames, g + 1, v)
  <1>0. Len(frames) \in Nat /\ Len(s) \in Nat /\ g + 1 \in 0 .. Len(frames)
    OBVIOUS
  <1>1. Len(s) = End(frames, Len(frames)) - End(frames, g)
    BY DEF FramesOK
  <1>2. End(frames, g) \in Nat /\ End(frames, g + 1) \in Nat /\ End(frames, Len(frames)) \in Nat
        /\ End(frames, g) <= End(frames, g + 1) /\ End(frames, g + 1) <= End(frames, Len(frames))
    BY <1>0, EndNat DEF Rising
  <1>3. m \in Nat /\ m <= Len(s)
    BY <1>0, <1>1, <1>2
  <1>4. d \in Seq(Byte) /\ Len(d) = Len(s) - m /\ \A k \in 1 .. Len(s) - m : d[k] = s[k + m]
    BY <1>3, DropAt
  <1>5. Len(d) = End(frames, Len(frames)) - End(frames, g + 1)
    BY <1>0, <1>1, <1>2, <1>4
  <1>6. ASSUME NEW i \in (g + 1) + 1 .. Len(frames)
        PROVE  Segment(d, frames, g + 1, i) = Segment(s, frames, g, i)
    <2> DEFINE x == Segment(d, frames, g + 1, i)
    <2> DEFINE y == Segment(s, frames, g, i)
    <2> DEFINE a == End(frames, i - 1) - End(frames, g)
    <2> DEFINE b == End(frames, i) - End(frames, g)
    <2> DEFINE c == End(frames, i - 1) - End(frames, g + 1)
    <2> DEFINE e == End(frames, i) - End(frames, g + 1)
    <2>1. i \in g + 1 .. Len(frames) /\ i - 1 \in 0 .. Len(frames) /\ i \in 0 .. Len(frames)
      BY <1>0
    <2>2. End(frames, i - 1) \in Nat /\ End(frames, i) \in Nat
      BY <2>1, EndNat
    <2>3. /\ a \in Nat /\ b \in Nat /\ a <= b /\ b <= Len(s)
          /\ y \in Seq(Byte) /\ Len(y) = b - a /\ \A k \in 1 .. b - a : y[k] = s[k + a]
      BY <1>1, <2>1, SegmentAt
    <2>4. /\ c \in Nat /\ e \in Nat /\ c <= e /\ e <= Len(d)
          /\ x \in Seq(Byte) /\ Len(x) = e - c /\ \A k \in 1 .. e - c : x[k] = d[k + c]
      BY <1>0, <1>4, <1>5, SegmentAt
    <2>5. a = c + m /\ b = e + m
      BY <1>2, <2>2
    <2> HIDE DEF a, b, c, e, x, y
    <2>5a. /\ a \in Nat /\ c \in Nat /\ e \in Nat /\ e <= Len(s) - m /\ b - a = e - c
           /\ Len(x) = e - c
      <3>1. a \in Nat /\ c \in Nat /\ e \in Nat /\ Len(x) = e - c /\ e <= Len(d)
        BY <2>3, <2>4
      <3>2. e <= Len(s) - m
        BY <1>4, <3>1
      <3>3. b - a = e - c
        BY ONLY <1>3, <2>5, <3>1
      <3> QED
        BY <3>1, <3>2, <3>3
    <2>6. Len(x) = Len(y)
      BY <2>3, <2>5a
    <2>7. ASSUME NEW k \in 1 .. Len(x) PROVE x[k] = y[k]
      <3>1. k \in 1 .. e - c /\ k \in 1 .. b - a /\ k + c \in 1 .. Len(s) - m
        BY <1>0, <1>3, <2>5a
      <3>2. x[k] = d[k + c] /\ d[k + c] = s[(k + c) + m]
        BY <1>4, <2>4, <3>1
      <3>3. y[k] = s[k + a]
        BY <2>3, <3>1
      <3>4. k + a = (k + c) + m
        BY <1>3, <2>5, <2>5a, <3>1
      <3> QED
        BY <3>2, <3>3, <3>4
    <2>8. x = y
      BY <2>3, <2>4, <2>6, <2>7, SameAt
    <2> QED
      BY <2>8 DEF x, y
  <1>7. ASSUME NEW i \in (g + 1) + 1 .. Len(frames)
        PROVE  Decodes(Segment(d, frames, g + 1, i), frames[i].means, v)
    <2>1. i \in g + 1 .. Len(frames)
      BY <1>0
    <2>2. Decodes(Segment(s, frames, g, i), frames[i].means, v)
      BY <2>1 DEF FramesOK
    <2> QED
      BY <1>6, <2>2
  <1> QED
    BY <1>4, <1>5, <1>7 DEF FramesOK

(* A frame is written behind the others. *)
LEMMA FramesGrow ==
    ASSUME NEW s \in Seq(Byte), NEW bytes \in Seq(Byte), NEW frames \in Seq(Frame), Rising(frames),
           NEW g \in 0 .. Len(frames), NEW v, FramesOK(s, frames, g, v),
           NEW means, Decodes(bytes, means, v), NEW more \in Seq(Frame), Len(more) = Len(frames) + 1,
           \A i \in 1 .. Len(frames) : more[i] = frames[i],
           more[Len(frames) + 1].means = means,
           more[Len(frames) + 1].end = End(frames, Len(frames)) + Len(bytes)
    PROVE  Rising(more) /\ FramesOK(s \o bytes, more, g, v)
  <1> DEFINE n == Len(frames)
  <1>0. n \in Nat /\ Len(s) \in Nat /\ Len(bytes) \in Nat /\ n \in 0 .. n
    OBVIOUS
  <1>1. End(frames, n) \in Nat
    BY <1>0, EndNat
  <1>3. more[n + 1].means = means /\ more[n + 1].end = End(frames, n) + Len(bytes)
    OBVIOUS
  <1>5. more \in Seq(Frame) /\ Len(more) = n + 1 /\ \A i \in 1 .. n : more[i] = frames[i]
    OBVIOUS
  <1> HIDE DEF n
  <1>6. ASSUME NEW i \in 0 .. n PROVE End(more, i) = End(frames, i) /\ End(frames, i) \in Nat
    <2>1. End(frames, i) \in Nat
      BY EndNat DEF n
    <2>2. i # 0 => more[i] = frames[i]
      BY <1>0, <1>5
    <2> QED
      BY <2>1, <2>2 DEF End
  <1>7. End(more, n + 1) = End(frames, n) + Len(bytes)
    BY <1>0, <1>3, <1>5 DEF End
  <1>8. Rising(more)
    <2> SUFFICES ASSUME NEW i \in 0 .. n + 1, NEW j \in 0 .. n + 1, i <= j
                 PROVE  End(more, i) <= End(more, j)
      BY <1>5 DEF Rising
    <2>1. CASE j <= n
      <3>1. i \in 0 .. n /\ j \in 0 .. n
        BY <1>0, <2>1
      <3> QED
        BY <1>6, <3>1 DEF Rising, n
    <2>2. CASE i <= n /\ j = n + 1
      <3>1. i \in 0 .. n /\ i <= n
        BY <1>0, <2>2
      <3>2. End(frames, i) <= End(frames, n)
        BY <1>0, <3>1 DEF Rising, n
      <3>3. End(more, i) = End(frames, i) /\ End(frames, i) \in Nat
        BY <1>6, <3>1
      <3> QED
        BY <1>0, <1>1, <1>7, <2>2, <3>2, <3>3
    <2>3. CASE i = n + 1
      BY <1>0, <1>1, <1>7, <2>3
    <2> QED
      BY <1>0, <2>1, <2>2, <2>3
  <1> DEFINE t == s \o bytes
  <1>9. /\ t \in Seq(Byte) /\ Len(t) = Len(s) + Len(bytes)
        /\ \A i \in 1 .. Len(s) : t[i] = s[i]
        /\ \A i \in 1 .. Len(bytes) : t[Len(s) + i] = bytes[i]
    BY JoinAt
  <1> HIDE DEF t
  <1>9a. more \in Seq(Frame) /\ t \in Seq(Byte)
    BY <1>5, <1>9
  <1>10. g \in 0 .. n /\ End(more, g) = End(frames, g) /\ End(frames, g) \in Nat
    BY <1>6 DEF n
  <1>11. Len(s) = End(frames, n) - End(frames, g)
    BY DEF FramesOK, n
  <1>12. Len(t) = End(more, n + 1) - End(more, g)
    BY <1>0, <1>1, <1>7, <1>9, <1>10, <1>11
  <1>13. g \in 0 .. Len(more)
    BY <1>0, <1>5, <1>10
  <1>14. ASSUME NEW i \in g + 1 .. n PROVE Decodes(Segment(t, more, g, i), more[i].means, v)
    <2> DEFINE x == Segment(t, more, g, i)
    <2> DEFINE y == Segment(s, frames, g, i)
    <2> DEFINE a == End(frames, i - 1) - End(frames, g)
    <2> DEFINE b == End(frames, i) - End(frames, g)
    <2>1. /\ i \in g + 1 .. Len(more) /\ i \in 1 .. n /\ i \in 0 .. n /\ i - 1 \in 0 .. n
          /\ g \in 0 .. Len(frames) /\ i \in g + 1 .. Len(frames)
      BY <1>0, <1>5, <1>10 DEF n
    <2>2. /\ a \in Nat /\ b \in Nat /\ a <= b /\ b <= Len(s)
          /\ y \in Seq(Byte) /\ Len(y) = b - a /\ \A k \in 1 .. b - a : y[k] = s[k + a]
      BY <1>11, <2>1, SegmentAt DEF n
    <2>3. End(more, i - 1) = End(frames, i - 1) /\ End(more, i) = End(frames, i)
      BY <1>6, <2>1
    <2>4. /\ End(more, i - 1) - End(more, g) = a /\ End(more, i) - End(more, g) = b
      BY <1>10, <2>3
    <2>4a. Len(t) = End(more, Len(more)) - End(more, g)
      BY <1>5, <1>12
    <2> DEFINE p == End(more, i - 1) - End(more, g)
    <2> DEFINE q == End(more, i) - End(more, g)
    <2>5. x \in Seq(Byte) /\ Len(x) = q - p /\ \A k \in 1 .. q - p : x[k] = t[k + p]
      BY ONLY <1>8, <1>9a, <1>13, <2>1, <2>4a, SegmentAt
    <2> HIDE DEF a, b, x, y
    <2>5a. p = a /\ q = b
      BY <2>4
    <2> HIDE DEF p, q
    <2>6. Len(x) = b - a /\ \A k \in 1 .. b - a : x[k] = t[k + a]
      BY <2>5, <2>5a
    <2>7. ASSUME NEW k \in 1 .. Len(x) PROVE x[k] = y[k]
      <3>1. k \in 1 .. b - a /\ k + a \in 1 .. Len(s)
        BY <1>0, <2>2, <2>6
      <3> QED
        BY <1>9, <2>2, <2>6, <3>1
    <2>8. x = y
      BY <2>2, <2>5, <2>6, <2>7, SameAt
    <2>9. Decodes(y, frames[i].means, v)
      BY <2>1 DEF FramesOK, y
    <2>10. more[i] = frames[i]
      BY <1>5, <2>1
    <2> QED
      BY <2>8, <2>9, <2>10 DEF x
  <1>15. Decodes(Segment(t, more, g, n + 1), more[n + 1].means, v)
    <2> DEFINE x == Segment(t, more, g, n + 1)
    <2>1. (n + 1) - 1 = n /\ n + 1 \in g + 1 .. Len(more)
      BY <1>0, <1>5, <1>10
    <2>2. End(more, n) = End(frames, n)
      BY <1>0, <1>6
    <2> DEFINE p == End(more, (n + 1) - 1) - End(more, g)
    <2> DEFINE q == End(more, n + 1) - End(more, g)
    <2>3. p = Len(s)
      BY <1>10, <1>11, <2>1, <2>2
    <2>4. q = Len(s) + Len(bytes)
      BY <1>9, <1>12
    <2>4a. Len(t) = End(more, Len(more)) - End(more, g)
      BY <1>5, <1>12
    <2>5. x \in Seq(Byte) /\ Len(x) = q - p /\ \A k \in 1 .. q - p : x[k] = t[k + p]
      BY ONLY <1>8, <1>9a, <1>13, <2>1, <2>4a, SegmentAt
    <2> HIDE DEF x, p, q
    <2>5a. q - p = Len(bytes)
      BY <1>0, <2>3, <2>4
    <2>6. Len(x) = Len(bytes) /\ \A k \in 1 .. Len(bytes) : x[k] = t[k + Len(s)]
      BY <2>3, <2>5, <2>5a
    <2>7. ASSUME NEW k \in 1 .. Len(x) PROVE x[k] = bytes[k]
      <3>1. k \in 1 .. Len(bytes) /\ k + Len(s) = Len(s) + k
        BY <1>0, <2>6
      <3> QED
        BY <1>9, <2>6, <3>1
    <2>8. x = bytes
      BY <2>5, <2>6, <2>7, SameAt
    <2> QED
      BY <1>3, <1>5, <2>8 DEF x
  <1>16. ASSUME NEW i \in g + 1 .. n + 1 PROVE Decodes(Segment(t, more, g, i), more[i].means, v)
    <2>1. i \in g + 1 .. n \/ i = n + 1
      BY ONLY <1>0, <1>10, i \in g + 1 .. n + 1
    <2> QED
      BY <1>14, <1>15, <2>1
  <1>17. FramesOK(t, more, g, v)
    BY <1>5, <1>12, <1>16 DEF FramesOK
  <1> QED
    BY <1>8, <1>17 DEF t

(* Taking from the buffer takes from the stream. *)
LEMMA DropJoin ==
    ASSUME NEW b \in Seq(Byte), NEW w \in Seq(Byte), NEW m \in Nat, m <= Len(b)
    PROVE  Drop(b, m) \in Seq(Byte) /\ Drop(b, m) \o w = Drop(b \o w, m)
  <1> DEFINE d == Drop(b, m)
  <1> DEFINE s == b \o w
  <1> DEFINE x == d \o w
  <1> DEFINE y == Drop(s, m)
  <1>0. Len(b) \in Nat /\ Len(w) \in Nat
    OBVIOUS
  <1>1. d \in Seq(Byte) /\ Len(d) = Len(b) - m /\ \A i \in 1 .. Len(b) - m : d[i] = b[i + m]
    BY DropAt
  <1>2. /\ s \in Seq(Byte) /\ Len(s) = Len(b) + Len(w) /\ \A i \in 1 .. Len(b) : s[i] = b[i]
        /\ \A i \in 1 .. Len(w) : s[Len(b) + i] = w[i]
    BY JoinAt
  <1> HIDE DEF d, s
  <1>3. /\ x \in Seq(Byte) /\ Len(x) = Len(d) + Len(w) /\ \A i \in 1 .. Len(d) : x[i] = d[i]
        /\ \A i \in 1 .. Len(w) : x[Len(d) + i] = w[i]
    <2>1. d \in Seq(Byte)
      BY <1>1
    <2> QED
      BY ONLY <2>1, w \in Seq(Byte), JoinAt
  <1>4a. m <= Len(s)
    BY <1>0, <1>2
  <1>4. y \in Seq(Byte) /\ Len(y) = Len(s) - m /\ \A i \in 1 .. Len(s) - m : y[i] = s[i + m]
    BY <1>2, <1>4a, DropAt
  <1> HIDE DEF x, y
  <1>5. Len(x) = Len(y) /\ Len(x) = (Len(b) - m) + Len(w)
    BY <1>0, <1>1, <1>2, <1>3, <1>4
  <1>6. ASSUME NEW i \in 1 .. Len(x) PROVE x[i] = y[i]
    <2>0. y[i] = s[i + m]
      BY <1>4, <1>5
    <2>1. CASE i <= Len(b) - m
      <3>1. i \in 1 .. Len(d) /\ i \in 1 .. Len(b) - m /\ i + m \in 1 .. Len(b)
        BY <1>0, <1>1, <2>1
      <3> QED
        BY <1>1, <1>2, <1>3, <2>0, <3>1
    <2>2. CASE ~ (i <= Len(b) - m)
      <3> DEFINE k == i - (Len(b) - m)
      <3>1. k \in 1 .. Len(w) /\ Len(d) + k = i /\ Len(b) + k = i + m
        BY <1>0, <1>1, <1>5, <2>2
      <3> HIDE DEF k
      <3>2. x[i] = w[k]
        BY <1>3, <3>1
      <3>3. s[i + m] = w[k]
        BY <1>2, <3>1
      <3> QED
        BY <2>0, <3>2, <3>3
    <2> QED
      BY <2>1, <2>2
  <1>7. x = y
    BY <1>3, <1>4, <1>5, <1>6, SameAt
  <1> QED
    BY <1>1, <1>7 DEF d, s, x, y

(* The buffer starts the stream. *)
LEMMA JoinStarts ==
    ASSUME NEW b \in Seq(Byte), NEW w \in Seq(Byte)
    PROVE  Starts(b, b \o w)
  <1>1. /\ Len(b \o w) = Len(b) + Len(w) /\ \A i \in 1 .. Len(b) : (b \o w)[i] = b[i]
    BY JoinAt
  <1>2. Len(b) \in Nat /\ Len(w) \in Nat
    OBVIOUS
  <1> QED
    BY <1>1, <1>2 DEF Starts

(* What a turn of the loop over the buffer finds. *)
LEMMA Turn ==
    ASSUME NEW b \in Seq(Byte), NEW w \in Seq(Byte), NEW frames \in Seq(Frame), Rising(frames),
           NEW g \in 0 .. Len(frames), NEW v, FramesOK(b \o w, frames, g, v),
           NEW m, m = End(frames, g + 1) - End(frames, g)
    PROVE  \/ Decode(b, v) = Missing /\ (g < Len(frames) => Len(b) < m)
           \/ g < Len(frames) /\ Decode(b, v) = Bad /\ frames[g + 1].means = Bad
           \/ /\ g < Len(frames) /\ frames[g + 1].means # Bad
              /\ Decode(b, v) = Got(frames[g + 1].means, Drop(b, m))
              /\ Drop(b, m) \in Seq(Byte)
              /\ FramesOK(Drop(b, m) \o w, frames, g + 1, v)
  <1> DEFINE s == b \o w
  <1>0. Len(b) \in Nat /\ Len(w) \in Nat /\ Len(frames) \in Nat
    OBVIOUS
  <1>1. s \in Seq(Byte) /\ Len(s) = Len(b) + Len(w)
    BY JoinAt
  <1>2. Starts(b, s)
    BY JoinStarts
  <1>3. FramesOK(s, frames, g, v)
    OBVIOUS
  <1>3a. s = b \o w
    OBVIOUS
  <1> HIDE DEF s
  <1>4. CASE g = Len(frames)
    <2>1. Len(s) = End(frames, Len(frames)) - End(frames, Len(frames))
      BY <1>3, <1>4 DEF FramesOK
    <2>2. End(frames, Len(frames)) \in Nat
      BY <1>0, EndNat
    <2>3. Len(b) < 2
      BY <1>0, <1>1, <2>1, <2>2
    <2>4. Decode(b, v) = Missing
      BY <2>3, DecodeCases
    <2> QED
      BY <1>0, <1>4, <2>4
  <1>5. CASE g < Len(frames)
    <2> DEFINE f == Segment(s, frames, g, g + 1)
    <2> DEFINE means == frames[g + 1].means
    <2>1. f \in Seq(Byte) /\ Starts(f, s) /\ Len(f) = m /\ Decodes(f, means, v)
      BY <1>1, <1>3, <1>5, HeadFrame
    <2> HIDE DEF f, means
    <2>2. \/ Decode(b, v) = Missing /\ Len(b) < Len(f)
          \/ Decode(b, v) = Bad /\ means = Bad
          \/ means # Bad /\ Decode(b, v) = Got(means, Drop(b, Len(f))) /\ Len(f) <= Len(b)
      BY <1>1, <1>2, <2>1, FirstFrame
    <2>3. ASSUME Len(f) <= Len(b)
          PROVE  Drop(b, m) \in Seq(Byte) /\ FramesOK(Drop(b, m) \o w, frames, g + 1, v)
      <3>1. m \in Nat /\ m <= Len(b)
        BY <1>0, <2>1, <2>3
      <3>2. Drop(b, m) \in Seq(Byte) /\ Drop(b, m) \o w = Drop(s, m)
        BY <3>1, DropJoin, <1>3a
      <3>3. FramesOK(Drop(s, m), frames, g + 1, v)
        BY <1>1, <1>3, <1>5, FramesDrop
      <3> QED
        BY <3>2, <3>3
    <2> QED
      BY <1>5, <2>1, <2>2, <2>3 DEF means
  <1> QED
    BY <1>0, <1>4, <1>5

(* A read moves bytes from the wire to the buffer and leaves the stream as it is. *)
LEMMA SameStream ==
    ASSUME NEW b \in Seq(Byte), wire \in Seq(Byte), NEW n \in Nat \ {0}
    PROVE  /\ b \o Piece(n) \in Seq(Byte)
           /\ Drop(wire, n) \in Seq(Byte)
           /\ (b \o Piece(n)) \o Drop(wire, n) = b \o wire
  <1> DEFINE k == IF n < Len(wire) THEN n ELSE Len(wire)
  <1>0. Len(wire) \in Nat /\ Len(b) \in Nat
    OBVIOUS
  <1>1. k \in Nat /\ k <= Len(wire)
    BY <1>0
  <1>2. Drop(wire, n) = Drop(wire, k)
    <2>1. CASE n < Len(wire)
      BY <2>1
    <2>2. CASE ~ (n < Len(wire))
      <3>1. n + 1 > Len(wire) /\ k = Len(wire)
        BY <1>0, <2>2
      <3>2. SubSeq(wire, n + 1, Len(wire)) = <<>>
        BY <1>0, <3>1
      <3>3. SubSeq(wire, Len(wire) + 1, Len(wire)) = <<>>
        BY <1>0
      <3> QED
        BY <3>1, <3>2, <3>3, Zenon DEF Drop
    <2> QED
      BY <2>1, <2>2
  <1>3. Piece(n) = SubSeq(wire, 1, k)
    BY DEF Piece
  <1> HIDE DEF k
  <1> DEFINE p == SubSeq(wire, 1, k)
  <1> DEFINE d == Drop(wire, k)
  <1>4. p \in Seq(Byte) /\ Len(p) = k /\ \A i \in 1 .. k : p[i] = wire[i]
    BY <1>0, <1>1
  <1>5. d \in Seq(Byte) /\ Len(d) = Len(wire) - k /\ \A i \in 1 .. Len(wire) - k : d[i] = wire[i + k]
    BY <1>1, DropAt
  <1> HIDE DEF p, d
  <1>6. /\ p \o d \in Seq(Byte) /\ Len(p \o d) = Len(p) + Len(d) /\ \A i \in 1 .. Len(p) : (p \o d)[i] = p[i]
        /\ \A i \in 1 .. Len(d) : (p \o d)[Len(p) + i] = d[i]
    <2>1. p \in Seq(Byte) /\ d \in Seq(Byte)
      BY <1>4, <1>5
    <2> QED
      BY ONLY <2>1, JoinAt
  <1>7. Len(p \o d) = Len(wire)
    BY <1>0, <1>1, <1>4, <1>5, <1>6
  <1>8. ASSUME NEW i \in 1 .. Len(p \o d) PROVE (p \o d)[i] = wire[i]
    <2>1. CASE i <= k
      <3>1. i \in 1 .. k /\ i \in 1 .. Len(p)
        BY <1>0, <1>1, <1>4, <1>7, <2>1
      <3> QED
        BY <1>4, <1>6, <3>1
    <2>2. CASE ~ (i <= k)
      <3> DEFINE j == i - k
      <3>1. j \in 1 .. Len(wire) - k /\ j \in 1 .. Len(d) /\ Len(p) + j = i /\ j + k = i
        BY <1>0, <1>1, <1>4, <1>5, <1>7, <2>2
      <3> HIDE DEF j
      <3>2. (p \o d)[i] = d[j]
        BY <1>6, <3>1
      <3>3. d[j] = wire[i]
        BY <1>5, <3>1
      <3> QED
        BY <3>2, <3>3
    <2> QED
      BY <2>1, <2>2
  <1>9. p \o d = wire
    BY <1>6, <1>7, <1>8, SameAt
  <1>10. b \o p \in Seq(Byte) /\ (b \o p) \o d = b \o (p \o d)
    <2>1. p \in Seq(Byte) /\ d \in Seq(Byte)
      BY <1>4, <1>5
    <2>2. b \o p \in Seq(Byte)
      BY ONLY <2>1, b \in Seq(Byte)
    <2>3. (b \o p) \o d = b \o (p \o d)
      BY ONLY <2>1, b \in Seq(Byte), ConcatAssociative
    <2> QED
      BY <2>2, <2>3
  <1> QED
    BY <1>2, <1>3, <1>5, <1>9, <1>10 DEF p, d

TypeOK ==
    /\ version \in Versions
    /\ sent \in Seq(Frame)
    /\ wire \in Seq(Byte)
    /\ buffer \in Seq(Byte)
    /\ reader \in {"handshake", "iterating", "reading", "failed"}
    /\ got \in Seq(Meanings)

(* What is yielded was sent. *)
YieldedOK == Len(got) <= Len(sent) /\ \A i \in 1 .. Len(got) : got[i] = sent[i].means

(* What has ended a failed reader. *)
FailedOK ==
    reader = "failed" =>
        /\ Len(got) < Len(sent)
        /\ \/ sent[Len(got) + 1].means = Bad
           \/ got = <<>> /\ ~ Accepts(sent[Len(got) + 1].means)

(* The inductive invariant.  As long as the reader lives, its buffer and the
   wire are the frames that it has not yielded; whoever is about to read has
   found nothing in the buffer. *)
StreamInv ==
    /\ TypeOK
    /\ Rising(sent)
    /\ YieldedOK
    /\ reader # "failed" => FramesOK(buffer \o wire, sent, Len(got), version)
    /\ reader \in {"handshake", "reading"} => Decode(buffer, version) = Missing
    /\ reader = "handshake" => got = <<>>
    /\ FailedOK

(* The invariant holds at first. *)
LEMMA InvInit == Init => StreamInv
  <1> SUFFICES ASSUME Init PROVE StreamInv
    OBVIOUS
  <1> USE DEF Init
  <1>1. TypeOK
    BY DEF TypeOK
  <1>2. Rising(sent) /\ YieldedOK /\ FailedOK
    BY DEF Rising, YieldedOK, FailedOK, End
  <1>3. buffer \o wire = <<>> /\ Len(sent) = 0 /\ Len(got) = 0 /\ Len(buffer \o wire) = 0
    OBVIOUS
  <1>4. FramesOK(buffer \o wire, sent, Len(got), version)
    BY <1>3 DEF FramesOK, End
  <1>5. Len(buffer) < 2
    OBVIOUS
  <1>6. Decode(buffer, version) = Missing
    BY <1>5, DecodeCases
  <1> QED
    BY <1>1, <1>2, <1>4, <1>6 DEF StreamInv

(* The peer writes a frame. *)
LEMMA WriteStep ==
    ASSUME StreamInv, NEW bytes \in Seq(Byte), NEW means \in Meanings, Decodes(bytes, means, version),
           Write(bytes, means)
    PROVE  StreamInv'
  <1> DEFINE s == buffer \o wire
  <1> DEFINE g == Len(got)
  <1>0. /\ wire \in Seq(Byte) /\ buffer \in Seq(Byte) /\ sent \in Seq(Frame) /\ got \in Seq(Meanings)
        /\ Len(sent) \in Nat /\ Len(got) \in Nat
    BY DEF StreamInv, TypeOK
  <1>1. /\ Rising(sent) /\ YieldedOK /\ FramesOK(s, sent, g, version) /\ reader # "failed"
    BY DEF StreamInv, Write
  <1>2. s \in Seq(Byte) /\ g \in 0 .. Len(sent)
    BY <1>0, <1>1, JoinAt DEF YieldedOK
  <1>3. sent' = Append(sent, [means |-> means, end |-> End(sent, Len(sent)) + Len(bytes)])
    BY DEF Write
  <1> HIDE DEF s, g
  <1>4. /\ sent' \in Seq(Frame) /\ Len(sent') = Len(sent) + 1 /\ Rising(sent')
        /\ \A i \in 1 .. Len(sent) : sent'[i] = sent[i]
        /\ FramesOK(s \o bytes, sent', g, version)
    <2>1. sent \in Seq(Frame) /\ Rising(sent) /\ FramesOK(s, sent, g, version)
      BY <1>0, <1>1
    <2>2. Decodes(bytes, means, version) /\ bytes \in Seq(Byte) /\ means \in Meanings
      OBVIOUS
    <2> DEFINE new == [means |-> means, end |-> End(sent, Len(sent)) + Len(bytes)]
    <2>3. End(sent, Len(sent)) \in Nat /\ Len(bytes) \in Nat
      BY <1>0, <2>2, EndNat
    <2>4. new \in Frame /\ new.means = means /\ new.end = End(sent, Len(sent)) + Len(bytes)
      BY <2>2, <2>3 DEF Frame
    <2> HIDE DEF new
    <2>5. sent' = Append(sent, new)
      BY <1>3 DEF new
    <2>6. /\ sent' \in Seq(Frame) /\ Len(sent') = Len(sent) + 1
          /\ \A i \in 1 .. Len(sent) : sent'[i] = sent[i]
          /\ sent'[Len(sent) + 1] = new
      BY ONLY <2>1, <2>4, <2>5
    <2>7. Rising(sent') /\ FramesOK(s \o bytes, sent', g, version)
      BY ONLY <1>2, <2>1, <2>2, <2>4, <2>6, FramesGrow
    <2> QED
      BY <2>6, <2>7
  <1>5. wire' = wire \o bytes /\ UNCHANGED <<version, buffer, reader, got>>
    BY DEF Write
  <1>6. wire' \in Seq(Byte) /\ buffer' \o wire' = s \o bytes
    <2>1. wire \o bytes \in Seq(Byte) /\ (buffer \o wire) \o bytes = buffer \o (wire \o bytes)
      BY <1>0, ConcatAssociative, ConcatProperties
    <2> QED
      BY <1>5, <2>1 DEF s
  <1>7. TypeOK'
    BY <1>4, <1>5, <1>6 DEF StreamInv, TypeOK
  <1>8. YieldedOK'
    <2>1. Len(got') <= Len(sent')
      BY <1>0, <1>1, <1>4, <1>5 DEF YieldedOK
    <2>2. ASSUME NEW i \in 1 .. Len(got) PROVE got'[i] = sent'[i].means
      <3>1. i \in 1 .. Len(sent)
        BY <1>0, <1>1 DEF YieldedOK
      <3>2. sent'[i] = sent[i]
        BY <1>4, <3>1
      <3> QED
        BY <1>1, <1>5, <3>2 DEF YieldedOK
    <2> QED
      BY <1>5, <2>1, <2>2 DEF YieldedOK
  <1>9. FramesOK(buffer' \o wire', sent', Len(got'), version')
    BY <1>4, <1>5, <1>6 DEF g
  <1> QED
    BY <1>1, <1>4, <1>5, <1>7, <1>8, <1>9 DEF StreamInv, FailedOK

(* The next packet is yielded. *)
LEMMA YieldStep ==
    ASSUME StreamInv, reader # "failed", Len(got) < Len(sent), UNCHANGED <<version, sent>>,
           got' = Append(got, sent[Len(got) + 1].means), reader' = "iterating",
           wire' \in Seq(Byte), buffer' \in Seq(Byte),
           FramesOK(buffer' \o wire', sent, Len(got) + 1, version)
    PROVE  StreamInv'
  <1>0. /\ sent \in Seq(Frame) /\ got \in Seq(Meanings) /\ Len(sent) \in Nat /\ Len(got) \in Nat
        /\ version \in Versions
    BY DEF StreamInv, TypeOK
  <1>1. sent[Len(got) + 1] \in Frame
    BY <1>0
  <1>2. sent[Len(got) + 1].means \in Meanings
    BY <1>1 DEF Frame
  <1>3. /\ got' \in Seq(Meanings) /\ Len(got') = Len(got) + 1
        /\ \A i \in 1 .. Len(got) : got'[i] = got[i]
        /\ got'[Len(got) + 1] = sent[Len(got) + 1].means
    BY <1>0, <1>2
  <1>4. TypeOK'
    BY <1>0, <1>3 DEF TypeOK
  <1>5. YieldedOK'
    BY <1>0, <1>3 DEF YieldedOK, StreamInv
  <1>6. FramesOK(buffer' \o wire', sent', Len(got'), version')
    BY <1>3
  <1> QED
    BY <1>4, <1>5, <1>6 DEF StreamInv, FailedOK

(* A turn of _await_connack(). *)
LEMMA AwaitStep ==
    ASSUME StreamInv, NEW n \in Nat \ {0}, AwaitConnack(n)
    PROVE  StreamInv'
  <1> DEFINE buf == buffer \o Piece(n)
  <1> DEFINE r == Decode(buf, version)
  <1> DEFINE m == End(sent, Len(got) + 1) - End(sent, Len(got))
  <1> DEFINE next == sent[Len(got) + 1].means
  <1>0. /\ wire \in Seq(Byte) /\ buffer \in Seq(Byte) /\ sent \in Seq(Frame) /\ got \in Seq(Meanings)
        /\ Len(sent) \in Nat /\ Len(got) \in Nat /\ version \in Versions
    BY DEF StreamInv, TypeOK
  <1>1. /\ Rising(sent) /\ YieldedOK /\ FramesOK(buffer \o wire, sent, Len(got), version)
        /\ reader = "handshake" /\ got = <<>>
    BY DEF StreamInv, AwaitConnack
  <1>2. Len(got) \in 0 .. Len(sent)
    BY <1>0, <1>1 DEF YieldedOK
  <1>3. buf \in Seq(Byte) /\ Drop(wire, n) \in Seq(Byte) /\ buf \o Drop(wire, n) = buffer \o wire
    BY <1>0, SameStream
  <1>4. wire' = Drop(wire, n) /\ UNCHANGED <<version, sent>>
    BY DEF AwaitConnack
  <1>5. \/ r = Missing /\ buffer' = buf /\ UNCHANGED <<reader, got>>
        \/ /\ r # Missing /\ (IF r.ok THEN ~ Accepts(r.val) ELSE TRUE) /\ reader' = "failed"
           /\ buffer' = (IF r.ok THEN r.rest ELSE buf) /\ UNCHANGED got
        \/ /\ (IF r.ok THEN Accepts(r.val) ELSE FALSE)
           /\ reader' = "iterating" /\ buffer' = r.rest /\ got' = <<r.val>>
    BY Zenon DEF AwaitConnack
  <1> HIDE DEF buf
  <1>6. FramesOK(buf \o wire', sent, Len(got), version)
    BY <1>1, <1>3, <1>4
  <1>7. \/ r = Missing
        \/ Len(got) < Len(sent) /\ r = Bad /\ next = Bad
        \/ /\ Len(got) < Len(sent) /\ next # Bad /\ r = Got(next, Drop(buf, m)) /\ Drop(buf, m) \in Seq(Byte)
           /\ FramesOK(Drop(buf, m) \o wire', sent, Len(got) + 1, version)
    BY <1>0, <1>1, <1>2, <1>3, <1>4, <1>6, Turn
  <1> HIDE DEF r, m, next
  <1>8. CASE r = Missing
    <2>1. buffer' = buf /\ UNCHANGED <<reader, got>>
      BY <1>5, <1>8, OutcomesDiffer
    <2>2. TypeOK'
      BY <1>3, <1>4, <2>1 DEF TypeOK, StreamInv
    <2>3. FramesOK(buffer' \o wire', sent', Len(got'), version')
      BY <1>4, <1>6, <2>1
    <2>4. Decode(buffer', version') = Missing
      BY <1>4, <1>8, <2>1 DEF r
    <2>5. YieldedOK' /\ Rising(sent') /\ FailedOK' /\ got' = <<>>
      BY <1>1, <1>4, <2>1 DEF YieldedOK, FailedOK
    <2> QED
      BY <2>2, <2>3, <2>4, <2>5 DEF StreamInv
  <1>9. CASE Len(got) < Len(sent) /\ r = Bad /\ next = Bad
    <2>1. reader' = "failed" /\ buffer' = buf /\ UNCHANGED got
      BY <1>5, <1>9, OutcomesDiffer
    <2>2. TypeOK'
      BY <1>3, <1>4, <2>1 DEF TypeOK, StreamInv
    <2>3. YieldedOK' /\ Rising(sent')
      BY <1>1, <1>4, <2>1 DEF YieldedOK
    <2>4. FailedOK'
      BY <1>4, <1>9, <2>1 DEF FailedOK, next
    <2> QED
      BY <2>1, <2>2, <2>3, <2>4 DEF StreamInv
  <1>10. CASE /\ Len(got) < Len(sent) /\ next # Bad /\ r = Got(next, Drop(buf, m)) /\ Drop(buf, m) \in Seq(Byte)
              /\ FramesOK(Drop(buf, m) \o wire', sent, Len(got) + 1, version)
    <2>1. r.ok /\ r.val = next /\ r.rest = Drop(buf, m) /\ r # Missing
      BY <1>10, GotFields, OutcomesDiffer
    <2>2. CASE Accepts(next)
      <3>1. reader' = "iterating" /\ buffer' = Drop(buf, m) /\ got' = <<next>>
        BY <1>5, <2>1, <2>2
      <3>2. got' = Append(got, sent[Len(got) + 1].means)
        BY <1>1, <3>1 DEF next
      <3>3. wire' \in Seq(Byte) /\ buffer' \in Seq(Byte)
            /\ FramesOK(buffer' \o wire', sent, Len(got) + 1, version)
        BY <1>3, <1>4, <1>10, <3>1
      <3> QED
        BY <1>1, <1>4, <1>10, <3>1, <3>2, <3>3, YieldStep
    <2>3. CASE ~ Accepts(next)
      <3>1. reader' = "failed" /\ buffer' = Drop(buf, m) /\ UNCHANGED got
        BY <1>5, <2>1, <2>3
      <3>2. TypeOK'
        BY <1>3, <1>4, <1>10, <3>1 DEF TypeOK, StreamInv
      <3>3. YieldedOK' /\ Rising(sent')
        BY <1>1, <1>4, <3>1 DEF YieldedOK
      <3>4. FailedOK'
        BY <1>1, <1>4, <1>10, <2>3, <3>1 DEF FailedOK, next
      <3> QED
        BY <3>1, <3>2, <3>3, <3>4 DEF StreamInv
    <2> QED
      BY <2>2, <2>3
  <1> QED
    BY <1>7, <1>8, <1>9, <1>10

(* A turn of the loop of _read_loop() over the buffer. *)
LEMMA IterateStep ==
    ASSUME StreamInv, Iterate
    PROVE  StreamInv'
  <1> DEFINE r == Decode(buffer, version)
  <1> DEFINE m == End(sent, Len(got) + 1) - End(sent, Len(got))
  <1> DEFINE next == sent[Len(got) + 1].means
  <1>0. /\ wire \in Seq(Byte) /\ buffer \in Seq(Byte) /\ sent \in Seq(Frame) /\ got \in Seq(Meanings)
        /\ Len(sent) \in Nat /\ Len(got) \in Nat /\ version \in Versions
    BY DEF StreamInv, TypeOK
  <1>1. /\ Rising(sent) /\ YieldedOK /\ FramesOK(buffer \o wire, sent, Len(got), version)
        /\ reader = "iterating"
    BY DEF StreamInv, Iterate
  <1>2. Len(got) \in 0 .. Len(sent)
    BY <1>0, <1>1 DEF YieldedOK
  <1>3. UNCHANGED <<version, sent, wire>>
    BY DEF Iterate
  <1>4. \/ r = Missing /\ reader' = "reading" /\ UNCHANGED <<buffer, got>>
        \/ r = Bad /\ reader' = "failed" /\ UNCHANGED <<buffer, got>>
        \/ r.ok /\ buffer' = r.rest /\ got' = Append(got, r.val) /\ UNCHANGED reader
    BY Zenon DEF Iterate
  <1>5. \/ r = Missing
        \/ Len(got) < Len(sent) /\ r = Bad /\ next = Bad
        \/ /\ Len(got) < Len(sent) /\ next # Bad /\ r = Got(next, Drop(buffer, m))
           /\ Drop(buffer, m) \in Seq(Byte)
           /\ FramesOK(Drop(buffer, m) \o wire, sent, Len(got) + 1, version)
    BY <1>0, <1>1, <1>2, Turn
  <1> HIDE DEF r, m, next
  <1>6. CASE r = Missing
    <2>1. reader' = "reading" /\ UNCHANGED <<buffer, got>>
      BY <1>4, <1>6, OutcomesDiffer
    <2>2. TypeOK'
      BY <1>3, <2>1 DEF TypeOK, StreamInv
    <2>3. YieldedOK' /\ Rising(sent') /\ FailedOK'
      BY <1>1, <1>3, <2>1 DEF YieldedOK, FailedOK
    <2>4. FramesOK(buffer' \o wire', sent', Len(got'), version') /\ Decode(buffer', version') = Missing
      BY <1>1, <1>3, <1>6, <2>1 DEF r
    <2> QED
      BY <2>1, <2>2, <2>3, <2>4 DEF StreamInv
  <1>7. CASE Len(got) < Len(sent) /\ r = Bad /\ next = Bad
    <2>1. reader' = "failed" /\ UNCHANGED <<buffer, got>>
      BY <1>4, <1>7, OutcomesDiffer
    <2>2. TypeOK'
      BY <1>3, <2>1 DEF TypeOK, StreamInv
    <2>3. YieldedOK' /\ Rising(sent')
      BY <1>1, <1>3, <2>1 DEF YieldedOK
    <2>4. FailedOK'
      BY <1>3, <1>7, <2>1 DEF FailedOK, next
    <2> QED
      BY <2>1, <2>2, <2>3, <2>4 DEF StreamInv
  <1>8. CASE /\ Len(got) < Len(sent) /\ next # Bad /\ r = Got(next, Drop(buffer, m))
             /\ Drop(buffer, m) \in Seq(Byte)
             /\ FramesOK(Drop(buffer, m) \o wire, sent, Len(got) + 1, version)
    <2>1. r.ok /\ r.val = next /\ r.rest = Drop(buffer, m) /\ r # Missing /\ r # Bad
      BY <1>8, GotFields, OutcomesDiffer
    <2>2. buffer' = Drop(buffer, m) /\ got' = Append(got, next) /\ reader' = "iterating"
      BY <1>1, <1>4, <2>1
    <2>3. wire' \in Seq(Byte) /\ buffer' \in Seq(Byte)
          /\ FramesOK(buffer' \o wire', sent, Len(got) + 1, version)
      BY <1>0, <1>3, <1>8, <2>2
    <2> QED
      BY <1>1, <1>3, <1>8, <2>2, <2>3, YieldStep DEF next
  <1> QED
    BY <1>5, <1>6, <1>7, <1>8

(* A read of _read_loop(). *)
LEMMA ReadStep ==
    ASSUME StreamInv, NEW n \in Nat \ {0}, ReadMore(n)
    PROVE  StreamInv'
  <1>0. wire \in Seq(Byte) /\ buffer \in Seq(Byte)
    BY DEF StreamInv, TypeOK
  <1>1. /\ buffer \o Piece(n) \in Seq(Byte) /\ Drop(wire, n) \in Seq(Byte)
        /\ (buffer \o Piece(n)) \o Drop(wire, n) = buffer \o wire
    BY <1>0, SameStream
  <1>2. /\ buffer' = buffer \o Piece(n) /\ wire' = Drop(wire, n) /\ reader' = "iterating"
        /\ reader = "reading" /\ UNCHANGED <<version, sent, got>>
    BY DEF ReadMore
  <1>3. TypeOK'
    BY <1>1, <1>2 DEF TypeOK, StreamInv
  <1>4. FramesOK(buffer' \o wire', sent', Len(got'), version')
    BY <1>1, <1>2 DEF StreamInv
  <1>5. YieldedOK' /\ Rising(sent') /\ FailedOK'
    BY <1>2 DEF StreamInv, YieldedOK, FailedOK
  <1> QED
    BY <1>2, <1>3, <1>4, <1>5 DEF StreamInv

(* Every step keeps the invariant. *)
LEMMA InvNext ==
    ASSUME Versions \subseteq SoundVersions
    PROVE  StreamInv /\ [Next]_vars => StreamInv'
  <1> SUFFICES ASSUME StreamInv, [Next]_vars PROVE StreamInv'
    OBVIOUS
  <1>0. version \in Versions
    BY DEF StreamInv, TypeOK
  <1>1. ASSUME NEW p \in Greetings \cup Packets, Write(Encode(p, version), Carried(p, version))
        PROVE  StreamInv'
    <2>1. /\ Encode(p, version) \in Seq(Byte) /\ Carried(p, version) # Bad
          /\ Decode(Encode(p, version), version) = Got(Carried(p, version), <<>>)
      BY <1>0 DEF SoundVersions, RoundTrip
    <2>2. Carried(p, version) \in Meanings
      BY <1>0 DEF Meanings
    <2>3. Decodes(Encode(p, version), Carried(p, version), version)
      BY <2>1 DEF Decodes
    <2> QED
      BY <1>1, <2>1, <2>2, <2>3, WriteStep
  <1>2. ASSUME NEW bytes \in Malformed[version], Write(bytes, Bad)
        PROVE  StreamInv'
    <2>1. bytes \in Seq(Byte) /\ Decode(bytes, version) = Bad
      BY <1>0 DEF SoundVersions, RoundTrip
    <2>2. Bad \in Meanings /\ Decodes(bytes, Bad, version)
      BY <2>1 DEF Meanings, Decodes
    <2> QED
      BY <1>2, <2>1, <2>2, WriteStep
  <1>3. ASSUME NEW n \in Chunks, AwaitConnack(n) \/ ReadMore(n)
        PROVE  StreamInv'
    BY <1>3, ChunkAssumption, AwaitStep, ReadStep
  <1>4. CASE Iterate
    BY <1>4, IterateStep
  <1>5. CASE UNCHANGED vars
    BY <1>5 DEF vars, StreamInv, TypeOK, YieldedOK, FailedOK
  <1>6. Next => \/ \E p \in Greetings \cup Packets : Write(Encode(p, version), Carried(p, version))
                \/ \E bytes \in Malformed[version] : Write(bytes, Bad)
                \/ \E n \in Chunks : AwaitConnack(n) \/ ReadMore(n)
                \/ Iterate
    BY DEF Next
  <1> QED
    BY <1>1, <1>2, <1>3, <1>4, <1>5, <1>6

(* StreamInv is an invariant. *)
LEMMA StreamInvariant == ASSUME Versions \subseteq SoundVersions PROVE Spec => []StreamInv
  BY InvInit, InvNext, PTL DEF Spec

(* Spec implies that the packets yielded are the packets written, in order and
   whole, and that only a malformed frame or a refused handshake ends the reader:
   InOrderAndWhole, for every set of packets the codec is sound for. *)
THEOREM InOrder == ASSUME Versions \subseteq SoundVersions PROVE Spec => []InOrderAndWhole
  <1>1. StreamInv => InOrderAndWhole
    <2> SUFFICES ASSUME StreamInv PROVE InOrderAndWhole
      OBVIOUS
    <2>1. got \in Seq(Meanings) /\ DOMAIN got = 1 .. Len(got)
      BY DEF StreamInv, TypeOK
    <2> QED
      BY <2>1 DEF StreamInv, YieldedOK, FailedOK, InOrderAndWhole
  <1> QED
    BY <1>1, StreamInvariant, PTL

(* Spec implies that nobody waits for bytes while a complete packet is in the
   buffer (_await_connack() and _read_loop() share it): NothingHeldBack. *)
THEOREM NoneHeldBack == ASSUME Versions \subseteq SoundVersions PROVE Spec => []NothingHeldBack
  <1>1. StreamInv => NothingHeldBack
    <2> SUFFICES ASSUME StreamInv, reader \in {"handshake", "reading"}, Len(got) < Len(sent)
                 PROVE  End(sent, Len(got) + 1) > End(sent, Len(sent)) - Len(wire)
      BY DEF NothingHeldBack
    <2> DEFINE m == End(sent, Len(got) + 1) - End(sent, Len(got))
    <2>0. /\ wire \in Seq(Byte) /\ buffer \in Seq(Byte) /\ sent \in Seq(Frame)
          /\ Len(sent) \in Nat /\ Len(got) \in Nat /\ Len(buffer) \in Nat /\ Len(wire) \in Nat
      BY DEF StreamInv, TypeOK
    <2>1. /\ Rising(sent) /\ FramesOK(buffer \o wire, sent, Len(got), version)
          /\ Decode(buffer, version) = Missing
      BY DEF StreamInv
    <2>2. Len(got) \in 0 .. Len(sent) /\ Len(got) + 1 \in 0 .. Len(sent) /\ Len(sent) \in 0 .. Len(sent)
      BY <2>0
    <2>3. Len(buffer) < m
      BY <2>0, <2>1, <2>2, Turn, OutcomesDiffer
    <2>4. Len(buffer) + Len(wire) = End(sent, Len(sent)) - End(sent, Len(got))
      <3>1. Len(buffer \o wire) = Len(buffer) + Len(wire)
        BY <2>0, JoinAt
      <3> QED
        BY <2>1, <3>1 DEF FramesOK
    <2>5. /\ End(sent, Len(got)) \in Nat /\ End(sent, Len(got) + 1) \in Nat
          /\ End(sent, Len(sent)) \in Nat
      BY <2>0, <2>2, EndNat
    <2> QED
      BY <2>0, <2>3, <2>4, <2>5
  <1> QED
    BY <1>1, StreamInvariant, PTL
=============================================================================
