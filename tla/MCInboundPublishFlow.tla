------------------------ MODULE MCInboundPublishFlow ------------------------
(* Instances of InboundPublishFlow.                                        *)
EXTENDS InboundPublishFlow

\* Replay on one connection: two topics, one of them acknowledged by hand; the
\* messages 1 and 3 compete for one place in a queue.
ReplayMsgs    == 1 .. 3
ReplayTopics  == <<"a", "b", "a">>
ReplayQos     == <<1, 2, 0>>

\* Three connections: a QoS 2 flight, and the response to a request, on one topic.
ResumeMsgs    == 1 .. 2
ResumeTopics  == <<"a", "a">>
ResumeQos     == <<2, 1>>

\* One QoS 2 message.
PubrelTopics  == <<"a">>
PubrelQos     == <<2>>
=============================================================================
