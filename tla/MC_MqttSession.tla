---------------------------- MODULE MC_MqttSession ----------------------------
(* Small instances of MqttSession for TLC, with the bytes its messages have. *)
EXTENDS MqttSession, MqttMsg

\* Data up to and beyond what makes the remaining length two bytes long.
MCText(n) == [i \in 1..n |-> 65 + (i % 20)]
MCData == {MCText(n) : n \in {0, 1, 2, 120, 121, 122, 123, 124}}
MCSizes == {4, 5, 10, 130, 131, 132}
MCTopic == MCText(3)
MCId == 257 * 2
MCInfos == [clientId : {<<>>, MCText(1), MCText(120)}, username : {<<>>, MCText(2)}, password : {<<>>, MCText(3)},
            willTopic : {<<>>, MCText(1)}, willMessage : {MCText(2)}, willQos : {0, 2},
            willRetain : BOOLEAN, clean : BOOLEAN, keepalive : {120, 300}]

PublishReadBack ==
    \A data \in MCData, size \in MCSizes, qos \in 0..2, retain \in 0..1 :
        PublishIsRead(size, MCTopic, data, qos, retain, MCId)

IdsReadBack ==
    \A size \in MCSizes :
        /\ \A type \in {"PUBACK", "PUBREC", "PUBREL", "PUBCOMP"} : AckIsRead(size, type, MCId)
        /\ \A topic \in MCData \ {<<>>}, qos \in 0..2 : SubscribeIsRead(size, topic, qos, MCId)
        /\ \A topic \in MCData : UnsubscribeFits(size, topic, MCId)
        /\ \A type \in {"PINGREQ", "PINGRESP", "DISCONNECT"} : EmptyFits(size, type)

ConnectReadBack ==
    \A info \in MCInfos, size \in {10, 40, 200} : ConnectIsRead(size, info)

\* One read, two or three, cut at any byte of the data.
MCEnds(head, n) ==
    {<<head + n>>} \cup {<<head + i, head + n>> : i \in 1..n - 1}
    \cup {<<head + c[1], head + c[2], head + n>> : c \in {c \in (1..n - 1) \X (1..n - 1) : c[1] < c[2]}}
MCBuffer == [k \in 1..140 |-> 0]
DeliveredInParts ==
    \A n \in {1, 4, 126}, qos \in 0..1 :
        \A ends \in MCEnds(Len(MsgPublish(200, MCTopic, MCText(n), qos, 0, MCId)) - n, n) :
            PublishIsDelivered(200, MCBuffer, MCTopic, MCText(n), qos, 0, MCId, ends)

\* Whatever the task built, its bytes say what was meant, and say it to the
\* client's own readers (mqtt_msg.c, deliver_publish in mqtt_client.c).
Encoded == outbound # NoMsg => PublishReadBack /\ IdsReadBack /\ ConnectReadBack /\ DeliveredInParts

=============================================================================
