-------------------------- MODULE MCPacketBuffer --------------------------
(* Packets of every type for PacketBuffer, with properties of every wire   *)
(* type, and one PUBLISH whose length needs two bytes.                     *)
EXTENDS PacketBuffer

a == <<97>>
bc == <<98, 195, 169>>
reason == [reason_string |-> bc, user_property |-> <<<<a, bc>>, <<a, a>>>>]

Ack(type, id, code, props) ==
    [type |-> type, packet_id |-> id, reason_code |-> code, properties |-> props]
Pub(qos, id, payload, props) ==
    [type |-> "publish", topic |-> bc, payload |-> payload, qos |-> qos, retain |-> qos = 0,
     dup |-> qos = 2, packet_id |-> id, properties |-> props]
Accept(props) ==
    [type |-> "connack", session_present |-> TRUE, return_code |-> 0, properties |-> props]
Sub(qos, flag, handling) ==
    [topic_filter |-> a, qos |-> qos, no_local |-> flag, retain_as_published |-> ~ flag,
     retain_handling |-> handling]
Will == [topic |-> a, payload |-> bc, qos |-> 2, retain |-> TRUE,
         properties |-> [will_delay_interval |-> 70000, content_type |-> a,
                          payload_format_indicator |-> 0, message_expiry_interval |-> 1,
                          response_topic |-> a, correlation_data |-> bc]]

MCGreetings ==
    {Accept(None),
     Accept([maximum_qos |-> 1, server_keep_alive |-> 60]),
     Accept([maximum_qos |-> 3]),
     [Accept(None) EXCEPT !.return_code = 5, !.session_present = FALSE],
     Pub(0, None, <<>>, None)}

MCPackets ==
    {Accept([maximum_qos |-> 1, receive_maximum |-> 300, retain_available |-> FALSE,
             assigned_client_identifier |-> bc, server_keep_alive |-> 60,
             session_expiry_interval |-> 2, maximum_packet_size |-> 65536,
             topic_alias_maximum |-> 9, reason_string |-> a,
             wildcard_subscription_available |-> TRUE,
             subscription_identifier_available |-> FALSE,
             shared_subscription_available |-> TRUE, response_information |-> a,
             server_reference |-> bc, authentication_method |-> a, authentication_data |-> <<>>]),
     Pub(0, None, <<>>, None), Pub(1, 258, <<0, 255>>, <<>>),
     Pub(2, 65535, bc, [payload_format_indicator |-> 1, message_expiry_interval |-> 66051,
                        topic_alias |-> 2, response_topic |-> a, correlation_data |-> <<0>>,
                        subscription_identifier |-> 16384, content_type |-> a,
                        user_property |-> <<<<a, a>>>>]),
     Pub(1, 1, [i \in 1 .. 125 |-> i], None),
     Ack("puback", 1, 0, None), Ack("pubrec", 2, 16, reason), Ack("pubrel", 3, 146, None),
     Ack("pubcomp", 4, 0, <<>>),
     [type |-> "suback", packet_id |-> 7, return_codes |-> <<0, 128>>, properties |-> reason],
     [type |-> "unsuback", packet_id |-> 7, reason_codes |-> <<17>>, properties |-> reason],
     [type |-> "pingresp"],
     [type |-> "disconnect", reason_code |-> 139, properties |-> [server_reference |-> bc,
                        session_expiry_interval |-> 8, reason_string |-> a]],
     [type |-> "auth", reason_code |-> 24, properties |-> [authentication_method |-> a,
                                                            authentication_data |-> <<1>>,
                                                            reason_string |-> a]]}

(* What a client writes, for the decoders a peer of it needs.              *)
MCClientPackets ==
    {[type |-> "connect", client_id |-> a, clean_session |-> TRUE, keepalive |-> 300,
      username |-> bc, password |-> None, will |-> Will,
      properties |-> [session_expiry_interval |-> 1, receive_maximum |-> 5,
                      maximum_packet_size |-> 3, topic_alias_maximum |-> 4,
                      request_response_information |-> FALSE,
                      request_problem_information |-> TRUE,
                      authentication_method |-> a, authentication_data |-> bc]],
     [type |-> "connect", client_id |-> <<>>, clean_session |-> FALSE, keepalive |-> 0,
      username |-> None, password |-> <<1>>, will |-> None, properties |-> None],
     [type |-> "subscribe", packet_id |-> 9, subscriptions |-> <<Sub(1, TRUE, 2), Sub(0, FALSE, 1)>>,
      properties |-> [subscription_identifier |-> 200]],
     [type |-> "unsubscribe", packet_id |-> 9, topic_filters |-> <<a, bc>>,
      properties |-> [user_property |-> <<<<a, a>>>>]],
     [type |-> "pingreq"]}

(* An endless length, an unknown type, a cut packet, QoS 3, a topic that   *)
(* is not UTF-8; for MQTT 5 also a property that is unknown and one that   *)
(* is cut.                                                                 *)
MCMalformed ==
    LET both == {<<48, 255, 255, 255, 255, 1>>, <<0, 0>>, <<64, 1, 0>>, <<54, 5, 0, 1, 97, 0, 1>>,
                 <<48, 5, 0, 2, 195, 97, 0>>}
    IN  ("3.1.1" :> both) @@
        ("5.0" :> both \cup {<<48, 6, 0, 1, 97, 2, 127, 0>>, <<144, 6, 0, 1, 3, 31, 0, 9>>})

All == MCPackets \cup MCClientPackets
=============================================================================
