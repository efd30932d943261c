---------------------------- MODULE PacketCodec ----------------------------
(***************************************************************************)
(* Packets on the wire (packets/codec.py, _wire.py, properties.py): bytes  *)
(* are numbers below 256, a text is the sequence of its UTF-8 bytes, and   *)
(* lengths, flags and identifiers are encoded digit by digit.  Reading and *)
(* writing have tables of their own in the code, and so they have here.    *)
(*                                                                         *)
(* A packet is a record of its type and fields, its properties a function  *)
(* from property names to values, or None.  A decoder takes the bytes that *)
(* are left and returns a value and what is left then, or Bad: the         *)
(* exceptions it may raise (ValueError, IndexError, struct.error) all end  *)
(* the reader in the same way.  decode() may also find that bytes are      *)
(* missing.                                                                *)
(***************************************************************************)
EXTENDS Naturals, Sequences, FiniteSets, SequencesExt

CONSTANT None

Byte == 0 .. 255

Bad == [ok |-> FALSE, why |-> "raised"]
Missing == [ok |-> FALSE, why |-> "bytes missing"]
Got(value, rest) == [ok |-> TRUE, val |-> value, rest |-> rest]
Drop(s, n) == SubSeq(s, n + 1, Len(s))

(* What follows a decoder that may raise; what becomes of its value.       *)
Then(r, next(_)) == IF r.ok THEN next(r) ELSE Bad
Value(r, made(_)) == IF r.ok THEN Got(made(r.val), r.rest) ELSE Bad

(* A loop that a decoder makes until its turn changes nothing: each other  *)
(* turn takes a byte.                                                      *)
Loop(start, turn(_)) ==
    LET after[n \in 0 .. Len(start.rest) + 1] ==
            IF n = 0 THEN start ELSE Then(after[n - 1], turn)
    IN  after[Len(start.rest) + 1]

Bit(x) == IF x THEN 1 ELSE 0
Flag(byte, weight) == (byte \div weight) % 2 = 1

PacketType == [connect |-> 1, connack |-> 2, publish |-> 3, puback |-> 4, pubrec |-> 5,
               pubrel |-> 6, pubcomp |-> 7, subscribe |-> 8, suback |-> 9, unsubscribe |-> 10,
               unsuback |-> 11, pingreq |-> 12, pingresp |-> 13, disconnect |-> 14, auth |-> 15]

-----------------------------------------------------------------------------
(* _wire.py                                                                *)
EncodeVarint(value) ==
    LET from[v \in 0 .. value] ==
            IF v < 128 THEN <<v>> ELSE <<128 + (v % 128)>> \o from[v \div 128]
    IN  from[value]

(* The value of n bytes, at most four, the low one first.                  *)
Varint(buf, n) ==
    LET digit(i) == IF i <= n THEN buf[i] % 128 ELSE 0
    IN  digit(1) + 128 * (digit(2) + 128 * (digit(3) + 128 * digit(4)))

(* The number of bytes of the variable byte integer at the start of buf;   *)
(* 0 when it is cut short or has more than four.                           *)
VarintBytes(buf) ==
    LET ends == {n \in 1 .. 4 : n <= Len(buf) /\ buf[n] < 128}
    IN  IF ends = {} THEN 0 ELSE CHOOSE n \in ends : \A m \in ends : n <= m

DecodeVarint(buf) ==
    LET n == VarintBytes(buf) IN IF n = 0 THEN Bad ELSE Got(Varint(buf, n), Drop(buf, n))

EncodeStr(s) == <<Len(s) \div 256, Len(s) % 256>> \o s

DecodeBytes(buf) ==
    LET end == 2 + buf[1] * 256 + buf[2]
    IN  IF Len(buf) < 2 THEN Bad
        ELSE IF Len(buf) < end THEN Bad
        ELSE Got(SubSeq(buf, 3, end), Drop(buf, end))

(* bytes.decode("utf-8") accepts s: every byte begins a character or goes  *)
(* on with one; no overlong forms, surrogates or values past U+10FFFF.     *)
Utf8Width(byte) ==
    CASE byte < 128 -> 1 [] byte \in 194 .. 223 -> 2 [] byte \in 224 .. 239 -> 3
      [] byte \in 240 .. 244 -> 4 [] OTHER -> 0

Utf8Second(lead) ==
    CASE lead = 224 -> 160 .. 191 [] lead = 237 -> 128 .. 159
      [] lead = 240 -> 144 .. 191 [] lead = 244 -> 128 .. 143 [] OTHER -> 128 .. 191

IsUtf8(s) ==
    \A i \in DOMAIN s :
        LET ends == i + Utf8Width(s[i]) - 1
        IN  \/ /\ ends \in i .. Len(s) /\ \A j \in i + 1 .. ends : s[j] \in 128 .. 191
               /\ ends > i => s[i + 1] \in Utf8Second(s[i])
            \/ s[i] \in 128 .. 191 /\ \E j \in 1 .. i - 1 : j + Utf8Width(s[j]) > i

(* UnicodeDecodeError is a ValueError like the others.                     *)
DecodeStr(buf) ==
    LET field == DecodeBytes(buf) IN IF field.ok /\ ~ IsUtf8(field.val) THEN Bad ELSE field

(* struct.pack and unpack_from of n bytes, the high one first.             *)
Pack(value, n) == [i \in 1 .. n |-> (value \div 256 ^ (n - i)) % 256]

Unpack(buf, n) ==
    LET high[i \in 0 .. n] == IF i = 0 THEN 0 ELSE high[i - 1] * 256 + buf[i] IN high[n]

DecodeNumber(buf, n) == IF Len(buf) < n THEN Bad ELSE Got(Unpack(buf, n), Drop(buf, n))

-----------------------------------------------------------------------------
(* properties.py: identifiers and wire types.                              *)
PropertyID ==
    [payload_format_indicator |-> 1, message_expiry_interval |-> 2, content_type |-> 3,
     response_topic |-> 8, correlation_data |-> 9, subscription_identifier |-> 11,
     session_expiry_interval |-> 17, assigned_client_identifier |-> 18, server_keep_alive |-> 19,
     authentication_method |-> 21, authentication_data |-> 22, request_problem_information |-> 23,
     will_delay_interval |-> 24, request_response_information |-> 25, response_information |-> 26,
     server_reference |-> 28, reason_string |-> 31, receive_maximum |-> 33,
     topic_alias_maximum |-> 34, topic_alias |-> 35, maximum_qos |-> 36, retain_available |-> 37,
     user_property |-> 38, maximum_packet_size |-> 39, wildcard_subscription_available |-> 40,
     subscription_identifier_available |-> 41, shared_subscription_available |-> 42]

WireByte == {"payload_format_indicator", "request_problem_information",
             "request_response_information", "maximum_qos", "retain_available",
             "wildcard_subscription_available", "subscription_identifier_available",
             "shared_subscription_available"}
WireUint16 == {"server_keep_alive", "receive_maximum", "topic_alias_maximum", "topic_alias"}
WireUint32 == {"message_expiry_interval", "session_expiry_interval", "will_delay_interval",
               "maximum_packet_size"}
WireVarint == {"subscription_identifier"}
WireStr == {"content_type", "response_topic", "assigned_client_identifier",
            "authentication_method", "reason_string", "response_information", "server_reference"}
WireBytesData == {"correlation_data", "authentication_data"}

(* The byte properties that are Booleans in the dataclasses.               *)
Truths == {"request_response_information", "request_problem_information", "retain_available",
           "wildcard_subscription_available", "subscription_identifier_available",
           "shared_subscription_available"}

(* One property of encode_props: its identifier and value; the pairs of    *)
(* user properties follow each other, each with the identifier.            *)
EncodeProp(name, value) ==
    LET id == <<PropertyID[name]>>
    IN  CASE name \in WireByte -> id \o <<IF name \in Truths THEN Bit(value) ELSE value>>
          [] name \in WireUint16 -> id \o Pack(value, 2)
          [] name \in WireUint32 -> id \o Pack(value, 4)
          [] name \in WireVarint -> id \o EncodeVarint(value)
          [] name \in WireStr \cup WireBytesData -> id \o EncodeStr(value)
          [] OTHER -> FlattenSeq([i \in DOMAIN value |->
                                     id \o EncodeStr(value[i][1]) \o EncodeStr(value[i][2])])

(* One property of decode_props_block, after its identifier.  A repeated   *)
(* property replaces the earlier one, a pair of texts is added to it.      *)
DecodeProp(name, buf, d) ==
    LET put(value) == (name :> value) @@ d
        add(pair) == put(Append(IF name \in DOMAIN d THEN d[name] ELSE <<>>, pair))
    IN  CASE name \in WireByte -> Value(DecodeNumber(buf, 1), put)
          [] name \in WireUint16 -> Value(DecodeNumber(buf, 2), put)
          [] name \in WireUint32 -> Value(DecodeNumber(buf, 4), put)
          [] name \in WireVarint -> Value(DecodeVarint(buf), put)
          [] name \in WireStr -> Value(DecodeStr(buf), put)
          [] name \in WireBytesData -> Value(DecodeBytes(buf), put)
          [] OTHER -> Then(DecodeStr(buf), LAMBDA k :
                           Value(DecodeStr(k.rest), LAMBDA v : add(<<k.val, v>>)))

(* The encode_*_properties functions: what each packet may carry, in the   *)
(* order in which it is written.                                           *)
EncodedInSession ==
    [connect |-> <<"session_expiry_interval", "receive_maximum", "maximum_packet_size",
                   "topic_alias_maximum", "request_response_information",
                   "request_problem_information", "authentication_method", "authentication_data">>,
     will |-> <<"will_delay_interval", "payload_format_indicator", "message_expiry_interval",
                "content_type", "response_topic", "correlation_data">>,
     connack |-> <<"session_expiry_interval", "receive_maximum", "maximum_qos", "retain_available",
                   "maximum_packet_size", "assigned_client_identifier", "topic_alias_maximum",
                   "reason_string", "wildcard_subscription_available",
                   "subscription_identifier_available", "shared_subscription_available",
                   "server_keep_alive", "response_information", "server_reference",
                   "authentication_method", "authentication_data">>]
EncodedInFlight ==
    [publish |-> <<"payload_format_indicator", "message_expiry_interval", "topic_alias",
                   "response_topic", "correlation_data", "subscription_identifier",
                   "content_type">>,
     puback |-> <<"reason_string">>, subscribe |-> <<"subscription_identifier">>,
     suback |-> <<"reason_string">>, unsubscribe |-> <<>>, unsuback |-> <<"reason_string">>,
     disconnect |-> <<"session_expiry_interval", "reason_string", "server_reference">>,
     auth |-> <<"authentication_method", "authentication_data", "reason_string">>]
Encoded == EncodedInSession @@ EncodedInFlight

(* The decode_*_properties functions.                                      *)
DecodedInSession ==
    [connect |-> {"session_expiry_interval", "receive_maximum", "maximum_packet_size",
                  "topic_alias_maximum", "request_response_information",
                  "request_problem_information", "authentication_method", "authentication_data"},
     will |-> {"will_delay_interval", "payload_format_indicator", "message_expiry_interval",
               "content_type", "response_topic", "correlation_data"},
     connack |-> {"session_expiry_interval", "receive_maximum", "maximum_qos", "retain_available",
                  "maximum_packet_size", "assigned_client_identifier", "topic_alias_maximum",
                  "reason_string", "wildcard_subscription_available",
                  "subscription_identifier_available", "shared_subscription_available",
                  "server_keep_alive", "response_information", "server_reference",
                  "authentication_method", "authentication_data"}]
\* Mutant: decode_publish_properties forgets a property.
DecodedInFlightForgets ==
    [publish |-> {"payload_format_indicator", "message_expiry_interval", "topic_alias",
                  "response_topic", "correlation_data", "content_type"},
     puback |-> {"reason_string"}, subscribe |-> {"subscription_identifier"},
     suback |-> {"reason_string"}, unsubscribe |-> {}, unsuback |-> {"reason_string"},
     disconnect |-> {"session_expiry_interval", "reason_string", "server_reference"},
     auth |-> {"authentication_method", "authentication_data", "reason_string"}]
DecodedInFlight ==
    [publish |-> {"payload_format_indicator", "message_expiry_interval", "topic_alias",
                  "response_topic", "correlation_data", "subscription_identifier",
                  "content_type"},
     puback |-> {"reason_string"}, subscribe |-> {"subscription_identifier"},
     suback |-> {"reason_string"}, unsubscribe |-> {}, unsuback |-> {"reason_string"},
     disconnect |-> {"session_expiry_interval", "reason_string", "server_reference"},
     auth |-> {"authentication_method", "authentication_data", "reason_string"}]
Decoded == DecodedInSession @@ DecodedInFlight
(* encode_props_block of the properties a packet of the kind has.          *)
EncodeProps(kind, props) ==
    LET names == SelectSeq(Append(Encoded[kind], "user_property"), LAMBDA n : n \in DOMAIN props)
        raw == FlattenSeq([i \in DOMAIN names |-> EncodeProp(names[i], props[names[i]])])
    IN  IF props = None THEN EncodeVarint(0) ELSE EncodeVarint(Len(raw)) \o raw

(* The loop of decode_props_block over the bytes counted by its length.    *)
DecodeEach(buf, length) ==
    Loop(Got(<<>>, buf), LAMBDA r :
        LET names == {n \in DOMAIN PropertyID : r.rest # <<>> /\ PropertyID[n] = r.rest[1]}
        IN  IF Len(buf) - Len(r.rest) >= length THEN r
            ELSE IF names = {} THEN Bad
            ELSE DecodeProp(CHOOSE n \in names : TRUE, Tail(r.rest), r.val))

DecodeProps(kind, buf) ==
    LET known(d) == DOMAIN d \cap (Decoded[kind] \cup {"user_property"})
        typed(d) == [n \in known(d) |-> IF n \in Truths THEN d[n] # 0 ELSE d[n]]
    IN  Then(DecodeVarint(buf), LAMBDA length :
             Then(DecodeEach(length.rest, length.val), LAMBDA all :
                  Got(IF DOMAIN all.val = {} THEN None ELSE typed(all.val),
                      Drop(length.rest, length.val))))

(* MQTT 3.1.1 has no properties.                                           *)
EncodeIf5(v, kind, props) == IF v = "5.0" THEN EncodeProps(kind, props) ELSE <<>>
DecodeIf5(v, kind, buf) == IF v = "5.0" THEN DecodeProps(kind, buf) ELSE Got(None, buf)
(* Properties read only where bytes are left for them.                     *)
DecodeTail(kind, buf) == IF buf = <<>> THEN Got(None, buf) ELSE DecodeProps(kind, buf)

-----------------------------------------------------------------------------
(* codec.py, encode                                                        *)
BuildPacket(type, flags, body) ==
    <<PacketType[type] * 16 + flags>> \o EncodeVarint(Len(body)) \o body

ProtocolName == <<77, 81, 84, 84>>

EncodeConnect(p, v) ==
    LET opt(x, bytes(_)) == IF x = None THEN <<>> ELSE bytes(x)
        willFlags(w) == 4 + 8 * w.qos + 32 * Bit(w.retain)
        flags == 2 * Bit(p.clean_session) + (IF p.will = None THEN 0 ELSE willFlags(p.will))
                 + 128 * Bit(p.username # None) + 64 * Bit(p.password # None)
        will(w) == EncodeIf5(v, "will", w.properties) \o EncodeStr(w.topic) \o EncodeStr(w.payload)
    IN  BuildPacket("connect", 0,
            EncodeStr(ProtocolName) \o <<IF v = "5.0" THEN 5 ELSE 4, flags>> \o Pack(p.keepalive, 2)
            \o EncodeIf5(v, "connect", p.properties) \o EncodeStr(p.client_id)
            \o opt(p.will, will) \o opt(p.username, EncodeStr) \o opt(p.password, EncodeStr))

EncodeConnAck(p, v) ==
    BuildPacket("connack", 0, <<Bit(p.session_present), p.return_code>>
                              \o EncodeIf5(v, "connack", p.properties))

EncodePublish(p, v) ==
    BuildPacket("publish", 8 * Bit(p.dup) + 2 * p.qos + Bit(p.retain),
        EncodeStr(p.topic) \o (IF p.qos = 0 THEN <<>> ELSE Pack(p.packet_id, 2))
        \o EncodeIf5(v, "publish", p.properties) \o p.payload)

(* PUBACK, PUBREC, PUBREL and PUBCOMP; PUBREL has flag 2.                  *)
EncodePubAckVariant(p, v) ==
    BuildPacket(p.type, IF p.type = "pubrel" THEN 2 ELSE 0,
        Pack(p.packet_id, 2)
        \o (IF v = "5.0" /\ (p.reason_code # 0 \/ p.properties # None)
            THEN <<p.reason_code>> \o EncodeProps("puback", p.properties) ELSE <<>>))

EncodeSubscribe(p, v) ==
    LET options(s) == IF v = "5.0"
                      THEN s.qos + 4 * Bit(s.no_local) + 8 * Bit(s.retain_as_published)
                           + 16 * s.retain_handling
                      ELSE s.qos
        each(s) == EncodeStr(s.topic_filter) \o <<options(s)>>
    IN  BuildPacket("subscribe", 2,
            Pack(p.packet_id, 2) \o EncodeIf5(v, "subscribe", p.properties)
            \o FlattenSeq([i \in DOMAIN p.subscriptions |-> each(p.subscriptions[i])]))

EncodeSubAck(p, v) ==
    BuildPacket("suback", 0, Pack(p.packet_id, 2) \o EncodeIf5(v, "suback", p.properties)
                             \o p.return_codes)

EncodeUnsubscribe(p, v) ==
    BuildPacket("unsubscribe", 2,
        Pack(p.packet_id, 2) \o EncodeIf5(v, "unsubscribe", p.properties)
        \o FlattenSeq([i \in DOMAIN p.topic_filters |-> EncodeStr(p.topic_filters[i])]))

EncodeUnsubAck(p, v) ==
    BuildPacket("unsuback", 0, Pack(p.packet_id, 2) \o EncodeIf5(v, "unsuback", p.properties)
                               \o (IF v = "5.0" THEN p.reason_codes ELSE <<>>))

EncodeDisconnect(p, v) ==
    BuildPacket("disconnect", 0,
        IF v = "5.0" /\ (p.reason_code # 0 \/ p.properties # None)
        THEN <<p.reason_code>> \o EncodeProps("disconnect", p.properties) ELSE <<>>)

EncodeAuth(p) == BuildPacket("auth", 0, <<p.reason_code>> \o EncodeProps("auth", p.properties))

PubAckVariants == {"puback", "pubrec", "pubrel", "pubcomp"}

Encode(p, v) ==
    CASE p.type = "connect" -> EncodeConnect(p, v)
      [] p.type = "connack" -> EncodeConnAck(p, v)
      [] p.type = "publish" -> EncodePublish(p, v)
      [] p.type \in PubAckVariants -> EncodePubAckVariant(p, v)
      [] p.type = "subscribe" -> EncodeSubscribe(p, v)
      [] p.type = "suback" -> EncodeSubAck(p, v)
      [] p.type = "unsubscribe" -> EncodeUnsubscribe(p, v)
      [] p.type = "unsuback" -> EncodeUnsubAck(p, v)
      [] p.type \in {"pingreq", "pingresp"} -> BuildPacket(p.type, 0, <<>>)
      [] p.type = "disconnect" -> EncodeDisconnect(p, v)
      [] p.type = "auth" -> EncodeAuth(p)

-----------------------------------------------------------------------------
(* codec.py, decode: the body of each packet.                              *)
DecodeOpt(present, field, buf) == IF present THEN field ELSE Got(None, buf)

DecodeWill(flags, v, buf) ==
    IF ~ Flag(flags, 4) THEN Got(None, buf)
    ELSE Then(DecodeIf5(v, "will", buf), LAMBDA props :
         Then(DecodeStr(props.rest), LAMBDA topic :
         Value(DecodeBytes(topic.rest), LAMBDA payload :
             [topic |-> topic.val, payload |-> payload, qos |-> (flags \div 8) % 4,
              retain |-> Flag(flags, 32), properties |-> props.val])))

(* The protocol name and level, the flags, and then what the flags say.    *)
DecodeConnect(buf) ==
    LET name == DecodeStr(buf)
        level == name.rest[1]
        flags == name.rest[2]
        v == IF level = 5 THEN "5.0" ELSE "3.1.1"
    IN  IF ~ name.ok THEN Bad
        ELSE IF name.val # ProtocolName \/ Len(name.rest) < 2 THEN Bad
        ELSE IF level \notin {4, 5} \/ (flags \div 8) % 4 = 3 THEN Bad
        ELSE Then(DecodeNumber(Drop(name.rest, 2), 2), LAMBDA keepalive :
             Then(DecodeIf5(v, "connect", keepalive.rest), LAMBDA props :
             Then(DecodeStr(props.rest), LAMBDA client :
             Then(DecodeWill(flags, v, client.rest), LAMBDA will :
             Then(DecodeOpt(Flag(flags, 128), DecodeStr(will.rest), will.rest), LAMBDA user :
             Value(DecodeOpt(Flag(flags, 64), DecodeBytes(user.rest), user.rest), LAMBDA password :
                 [type |-> "connect", client_id |-> client.val, clean_session |-> Flag(flags, 2),
                  keepalive |-> keepalive.val, username |-> user.val, password |-> password,
                  will |-> will.val, properties |-> props.val]))))))

DecodeConnAck(buf, v) ==
    IF Len(buf) < 2 THEN Bad
    ELSE Value(IF v = "5.0" THEN DecodeTail("connack", Drop(buf, 2)) ELSE Got(None, <<>>),
               LAMBDA props : [type |-> "connack", session_present |-> Flag(buf[1], 1),
                               return_code |-> buf[2], properties |-> props])

DecodePublish(buf, flags, v) ==
    LET qos == (flags \div 2) % 4
    IN  IF qos = 3 THEN Bad
        ELSE Then(DecodeStr(buf), LAMBDA topic :
             Then(IF qos = 0 THEN Got(None, topic.rest) ELSE DecodeNumber(topic.rest, 2), LAMBDA id :
             Then(DecodeIf5(v, "publish", id.rest), LAMBDA props :
                 Got([type |-> "publish", topic |-> topic.val, payload |-> props.rest, qos |-> qos,
                      retain |-> Flag(flags, 1), dup |-> Flag(flags, 8), packet_id |-> id.val,
                      properties |-> props.val], <<>>))))

DecodePubAckVariant(type, buf, v) ==
    LET coded == v = "5.0" /\ Len(buf) > 2
    IN  Then(DecodeNumber(buf, 2), LAMBDA id :
        Value(IF coded THEN DecodeTail("puback", Drop(buf, 3)) ELSE Got(None, <<>>), LAMBDA props :
            [type |-> type, packet_id |-> id.val,
             reason_code |-> IF coded THEN buf[3] ELSE 0, properties |-> props]))

(* The loop over the filters and their options bytes.                      *)
DecodeSubscriptions(buf, v) ==
    LET five(n) == v = "5.0" /\ n
        request(filter, options) ==
            [topic_filter |-> filter, qos |-> options % 4, no_local |-> five(Flag(options, 4)),
             retain_as_published |-> five(Flag(options, 8)),
             retain_handling |-> IF v = "5.0" THEN (options \div 16) % 4 ELSE 0]
    IN  Loop(Got(<<>>, buf), LAMBDA subs :
            IF subs.rest = <<>> THEN subs
            ELSE Then(DecodeStr(subs.rest), LAMBDA filter :
                 IF filter.rest = <<>> THEN Bad
                 ELSE LET r == request(filter.val, filter.rest[1])
                      IN  IF r.qos = 3 \/ r.retain_handling = 3 THEN Bad
                          ELSE Got(Append(subs.val, r), Tail(filter.rest))))

DecodeSubscribe(buf, v) ==
    Then(DecodeNumber(buf, 2), LAMBDA id :
    Then(DecodeIf5(v, "subscribe", id.rest), LAMBDA props :
    Value(DecodeSubscriptions(props.rest, v), LAMBDA subs :
        [type |-> "subscribe", packet_id |-> id.val, subscriptions |-> subs,
         properties |-> props.val])))

DecodeSubAck(buf, v) ==
    Then(DecodeNumber(buf, 2), LAMBDA id :
    Then(DecodeIf5(v, "suback", id.rest), LAMBDA props :
        Got([type |-> "suback", packet_id |-> id.val, return_codes |-> props.rest,
             properties |-> props.val], <<>>)))

DecodeFilters(buf) ==
    Loop(Got(<<>>, buf), LAMBDA filters :
        IF filters.rest = <<>> THEN filters
        ELSE Value(DecodeStr(filters.rest), LAMBDA f : Append(filters.val, f)))

DecodeUnsubscribe(buf, v) ==
    Then(DecodeNumber(buf, 2), LAMBDA id :
    Then(DecodeIf5(v, "unsubscribe", id.rest), LAMBDA props :
    Value(DecodeFilters(props.rest), LAMBDA filters :
        [type |-> "unsubscribe", packet_id |-> id.val, topic_filters |-> filters,
         properties |-> props.val])))

DecodeUnsubAck(buf, v) ==
    Then(DecodeNumber(buf, 2), LAMBDA id :
    Then(DecodeIf5(v, "unsuback", id.rest), LAMBDA props :
        Got([type |-> "unsuback", packet_id |-> id.val, properties |-> props.val,
             reason_codes |-> IF v = "5.0" THEN props.rest ELSE <<>>], <<>>)))

DecodeDisconnect(buf, v) ==
    LET coded == v = "5.0" /\ buf # <<>>
    IN  Value(IF coded THEN DecodeTail("disconnect", Tail(buf)) ELSE Got(None, <<>>), LAMBDA props :
            [type |-> "disconnect", reason_code |-> IF coded THEN buf[1] ELSE 0,
             properties |-> props])

DecodeAuth(buf) ==
    IF buf = <<>> THEN Bad
    ELSE Value(DecodeTail("auth", Tail(buf)), LAMBDA props :
               [type |-> "auth", reason_code |-> buf[1], properties |-> props])

DecodeBody(type, flags, body, v) ==
    CASE type = "connect" -> DecodeConnect(body)
      [] type = "connack" -> DecodeConnAck(body, v)
      [] type = "publish" -> DecodePublish(body, flags, v)
      [] type \in PubAckVariants -> DecodePubAckVariant(type, body, v)
      [] type = "subscribe" -> DecodeSubscribe(body, v)
      [] type = "suback" -> DecodeSubAck(body, v)
      [] type = "unsubscribe" -> DecodeUnsubscribe(body, v)
      [] type = "unsuback" -> DecodeUnsubAck(body, v)
      [] type \in {"pingreq", "pingresp"} -> Got([type |-> type], <<>>)
      [] type = "disconnect" -> DecodeDisconnect(body, v)
      [] type = "auth" -> DecodeAuth(body)

(* decode() of one packet: it returns None while bytes are missing, or     *)
(* raises, or has the packet and what follows it in the buffer.  The type  *)
(* is looked at only once the whole packet is there.                       *)
Decode(buf, v) ==
    LET n == VarintBytes(Tail(buf))
        total == 1 + n + Varint(Tail(buf), n)
        types == {t \in DOMAIN PacketType : PacketType[t] = buf[1] \div 16}
    IN  IF Len(buf) < 2 \/ (n = 0 /\ Len(buf) < 5) THEN Missing
        ELSE IF n = 0 THEN Bad
        ELSE IF Len(buf) < total THEN Missing
        ELSE IF types = {} THEN Bad
        ELSE Then(DecodeBody(CHOOSE t \in types : TRUE, buf[1] % 16, SubSeq(buf, n + 2, total), v),
                  LAMBDA r : Got(r.val, Drop(buf, total)))

-----------------------------------------------------------------------------
(* Reference: what of a packet a connection of version v carries.  MQTT    *)
(* 3.1.1 has no properties, no reason codes but CONNACK's and SUBACK's,    *)
(* and no subscription options but the QoS; AUTH has its own version; no   *)
(* properties and none of them are one thing; QoS 0 needs no identifier.   *)
CarriedProps(props, v) ==
    IF props = None THEN None ELSE IF v # "5.0" \/ DOMAIN props = {} THEN None ELSE props

Carried(p, v) ==
    LET five == v = "5.0"
        option(s) == IF five THEN s ELSE [s EXCEPT !.no_local = FALSE, !.retain_handling = 0,
                                                   !.retain_as_published = FALSE]
        will(w) == IF w = None THEN None ELSE [w EXCEPT !.properties = CarriedProps(@, v)]
    IN  CASE p.type \in {"pingreq", "pingresp"} -> p
          [] p.type = "auth" -> [p EXCEPT !.properties = CarriedProps(@, "5.0")]
          [] p.type = "connect" -> [p EXCEPT !.properties = CarriedProps(@, v), !.will = will(@)]
          [] p.type = "publish" -> [p EXCEPT !.properties = CarriedProps(@, v),
                                             !.packet_id = IF p.qos = 0 THEN None ELSE @]
          [] p.type \in PubAckVariants \cup {"disconnect"} ->
                 [p EXCEPT !.properties = CarriedProps(@, v), !.reason_code = IF five THEN @ ELSE 0]
          [] p.type = "subscribe" ->
                 [p EXCEPT !.properties = CarriedProps(@, v),
                           !.subscriptions = [i \in DOMAIN @ |-> option(@[i])]]
          [] p.type = "unsuback" ->
                 [p EXCEPT !.properties = CarriedProps(@, v),
                           !.reason_codes = IF five THEN @ ELSE <<>>]
          [] OTHER -> [p EXCEPT !.properties = CarriedProps(@, v)]
=============================================================================
