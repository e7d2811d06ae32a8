------------------------------- MODULE MqttMsg -------------------------------
(***************************************************************************)
(* The bytes of MQTT messages: components/espmqtt/lib/mqtt_msg.c, and how  *)
(* deliver_publish (mqtt_client.c) hands on a PUBLISH that needs several   *)
(* reads.                                                                  *)
(*                                                                         *)
(* A message or buffer is a sequence of bytes, At(b, i) is b[i] of C.      *)
(* Every builder adds to the three bytes init_message leaves in front and  *)
(* fails when the buffer is full, which Finish looks at once at the end.   *)
(***************************************************************************)
EXTENDS Integers, Sequences, SequencesExt, FiniteSetsExt

At(b, i) == b[i + 1]
Two(n) == <<n \div 256, n % 256>>
Failed == <<>>

TypeCode == [CONNECT |-> 1, PUBLISH |-> 3, PUBACK |-> 4, PUBREC |-> 5, PUBREL |-> 6, PUBCOMP |-> 7,
             SUBSCRIBE |-> 8, SUBACK |-> 9, UNSUBSCRIBE |-> 10, UNSUBACK |-> 11, PINGREQ |-> 12,
             PINGRESP |-> 13, DISCONNECT |-> 14]

-----------------------------------------------------------------------------
(* The builders *)

\* append_string
Str(s) == Two(Len(s)) \o s

\* fault: a remaining length of 128 is written into one byte
FixedHeader_OffByOne(type, qos, retain, n) ==
    <<16 * TypeCode[type] + 2 * qos + retain>>
    \o IF n > 128 THEN <<128 + (n % 128), n \div 128>> ELSE <<n>>

\* fini_message; dup is 0 in every call.
FixedHeader(type, qos, retain, n) ==
    <<16 * TypeCode[type] + 2 * qos + retain>>
    \o IF n > 127 THEN <<128 + (n % 128), n \div 128>> ELSE <<n>>

\* In a buffer of that size; three bytes are kept for the header even if it has two.
Finish(size, type, qos, retain, body) ==
    IF 3 + Len(body) > size THEN Failed ELSE FixedHeader(type, qos, retain, Len(body)) \o body

\* CONNECT has the name of the protocol 3.1: no file of the repository defines
\* CONFIG_MQTT_PROTOCOL_311, mqtt_config.h only the name without CONFIG_.
Flag(on, value) == IF on THEN value ELSE 0
ConnectFlags(info) ==
    Flag(info.clean, 2) + Flag(info.willTopic # <<>>, 4 + 8 * info.willQos + Flag(info.willRetain, 32))
    + Flag(info.password # <<>>, 64) + Flag(info.username # <<>>, 128)

MsgConnect(size, info) ==
    IF info.clientId = <<>> THEN Failed
    ELSE Finish(size, "CONNECT", 0, 0,
            Str(<<77, 81, 73, 115, 100, 112>>) \o <<3, ConnectFlags(info)>> \o Two(info.keepalive)
            \o Str(info.clientId)
            \o (IF info.willTopic = <<>> THEN <<>> ELSE Str(info.willTopic) \o Str(info.willMessage))
            \o (IF info.username = <<>> THEN <<>> ELSE Str(info.username))
            \o (IF info.password = <<>> THEN <<>> ELSE Str(info.password)))

MsgPublish(size, topic, data, qos, retain, id) ==
    IF topic = <<>> THEN Failed
    ELSE Finish(size, "PUBLISH", qos, retain, Str(topic) \o (IF qos > 0 THEN Two(id) ELSE <<>>) \o data)

\* PUBACK, PUBREC, PUBREL and PUBCOMP
MsgAck(size, type, id) == Finish(size, type, IF type = "PUBREL" THEN 1 ELSE 0, 0, Two(id))

MsgSubscribe(size, topic, qos, id) ==
    IF topic = <<>> THEN Failed ELSE Finish(size, "SUBSCRIBE", 1, 0, Two(id) \o Str(topic) \o <<qos>>)

MsgUnsubscribe(size, topic, id) ==
    IF topic = <<>> THEN Failed ELSE Finish(size, "UNSUBSCRIBE", 1, 0, Two(id) \o Str(topic))

\* PINGREQ, PINGRESP and DISCONNECT
MsgEmpty(size, type) == Finish(size, type, 0, 0, <<>>)

-----------------------------------------------------------------------------
(* The readers, of the first n bytes of a buffer *)

GetType(b) == At(b, 0) \div 16
GetQos(b) == (At(b, 0) \div 2) % 4
GetRetain(b) == At(b, 0) % 2

\* The index behind the remaining length, n if it does not end.
LengthEnd(b, n) ==
    LET last == {i \in 1..n - 1 : At(b, i) < 128}
    IN  IF last = {} THEN Max({1, n}) ELSE Min(last) + 1

TotalLength(b, n) ==
    MapThenSumSet(LAMBDA i : (At(b, i) % 128) * 128 ^ (i - 1), 1..LengthEnd(b, n) - 1) + LengthEnd(b, n)

\* The index behind the topic, if its length was received.
HasTopic(b, n) == LengthEnd(b, n) + 2 < n
TopicEnd(b, n) ==
    LET i == LengthEnd(b, n) IN i + 2 + 256 * At(b, i) + At(b, i + 1)

\* mqtt_get_publish_topic, which leaves the length as it was with a null pointer.
Null == <<-1>>
PublishTopic(b, n) ==
    IF HasTopic(b, n) /\ TopicEnd(b, n) <= n
    THEN SubSeq(b, LengthEnd(b, n) + 3, TopicEnd(b, n)) ELSE Null

\* mqtt_get_publish_data: where it begins, unless something in front is missing.
DataBegin(b, n) == TopicEnd(b, n) + (IF GetQos(b) > 0 THEN 2 ELSE 0)
HasData(b, n) ==
    /\ HasTopic(b, n) /\ TopicEnd(b, n) < n
    /\ GetQos(b) > 0 => DataBegin(b, n) < n
    /\ DataBegin(b, n) <= TotalLength(b, n)

\* It ends with the message or with what was received.
PublishData(b, n) ==
    IF HasData(b, n) THEN SubSeq(b, DataBegin(b, n) + 1, Min({TotalLength(b, n), n})) ELSE Null
DataLength(b, n) == IF HasData(b, n) THEN Len(PublishData(b, n)) ELSE 0

\* mqtt_get_id
GetId(b, n) ==
    IF n < 1 THEN 0
    ELSE IF GetType(b) = TypeCode["PUBLISH"]
    THEN IF GetQos(b) > 0 /\ HasTopic(b, n) /\ TopicEnd(b, n) + 2 < n
         THEN 256 * At(b, TopicEnd(b, n)) + At(b, TopicEnd(b, n) + 1) ELSE 0
    ELSE IF GetType(b) \in {TypeCode[t] : t \in {"PUBACK", "PUBREC", "PUBREL", "PUBCOMP", "SUBACK",
                                                "UNSUBACK", "SUBSCRIBE"}}
         /\ n >= 4 /\ At(b, 1) < 128
    THEN 256 * At(b, 2) + At(b, 3)
    ELSE 0

-----------------------------------------------------------------------------
(* deliver_publish *)

\* A read overwrites the beginning of in_buffer.
ReadInto(b, chunk) == chunk \o SubSeq(b, Len(chunk) + 1, Len(b))

\* The first event sets the total, of what is still to be read and its own data.
Uint16(n) == n % 65536
EventTotal(s) ==
    IF s.total = 0 THEN Uint16(s.messageLength - s.read + DataLength(s.buffer, s.length)) ELSE s.total
EventPart(s, lenRead) == IF s.total = 0 THEN DataLength(s.buffer, s.length) ELSE lenRead

\* An event for what the buffer holds.  length stays that of the first read; from
\* the second read on the buffer holds no header, but topic and data are looked
\* for as if it did, and only the numbers are right.
Payload(s, lenRead) ==
    [topic |-> PublishTopic(s.buffer, s.length), data |-> PublishData(s.buffer, s.length),
     len |-> EventPart(s, lenRead), total |-> EventTotal(s), offset |-> s.offset]
Event(s, lenRead) ==
    [s EXCEPT !.total = EventTotal(s), !.offset = Uint16(@ + EventPart(s, lenRead)),
              !.events = Append(@, Payload(s, lenRead))]

NextRead(s, chunk) ==
    IF s.read >= s.messageLength THEN s
    ELSE Event([s EXCEPT !.buffer = ReadInto(@, chunk), !.read = @ + Len(chunk)], Len(chunk))

\* The events for a PUBLISH that comes with these reads, then nothing.
Deliver(buffer, reads) ==
    LET b == ReadInto(buffer, reads[1])
        n == Len(reads[1])
        begin == [buffer |-> b, length |-> n, messageLength |-> TotalLength(b, n), read |-> n,
                  total |-> 0, offset |-> 0, events |-> <<>>]
        after[k \in 1..Len(reads)] ==
            IF k = 1 THEN Event(begin, 0) ELSE NextRead(after[k - 1], reads[k])
    IN  after[Len(reads)].events

-----------------------------------------------------------------------------
(* Properties *)

\* A message was refused, or it fits, its length is the one it states, and it is right.
Fits(m, size, right) == m = Failed \/ (Len(m) <= size /\ TotalLength(m, Len(m)) = Len(m) /\ right)

\* A PUBLISH that fits in the buffer is read back as it was built.
PublishIsRead(size, topic, data, qos, retain, id) ==
    LET m == MsgPublish(size, topic, data, qos, retain, id)
    IN  Fits(m, size,
            /\ GetQos(m) = qos /\ GetRetain(m) = retain
            /\ data # <<>> =>
                /\ PublishTopic(m, Len(m)) = topic /\ PublishData(m, Len(m)) = data
                /\ GetId(m, Len(m)) = IF qos > 0 THEN id ELSE 0)

\* The reads a message comes in are told by where they end: the first one has more
\* than head bytes, the last one ends with the message, none has more than there is
\* room for.
Cuts(ends, head, n, room) ==
    /\ ends # <<>> /\ ends[1] \in (head + 1)..room /\ ends[Len(ends)] = n
    /\ \A k \in 2..Len(ends) : ends[k] - ends[k - 1] \in 1..room
Pieces(m, ends) ==
    [k \in 1..Len(ends) |-> SubSeq(m, (IF k = 1 THEN 0 ELSE ends[k - 1]) + 1, ends[k])]

\* A PUBLISH whose first read has a part of its data: each event numbers the bytes of
\* its read, and the first has the topic and the beginning of the data.
PublishIsDelivered(size, buffer, topic, data, qos, retain, id, ends) ==
    LET m == MsgPublish(size, topic, data, qos, retain, id)
        head == Len(m) - Len(data)
        from(k) == IF k = 1 THEN 0 ELSE ends[k - 1] - head
        es == Deliver(buffer, Pieces(m, ends))
    IN  m # Failed /\ Cuts(ends, head, Len(m), Len(buffer)) =>
            /\ es[1].topic = topic /\ es[1].data = SubSeq(data, 1, ends[1] - head)
            /\ Len(es) = Len(ends)
            /\ \A k \in 1..Len(ends) : /\ es[k].total = Len(data) /\ es[k].offset = from(k)
                                       /\ es[k].len = ends[k] - head - from(k)

\* Requests and acknowledgements carry the id the answer is looked for with, but in
\* a SUBSCRIBE whose remaining length needs two bytes it is not found.
AckIsRead(size, type, id) ==
    LET m == MsgAck(size, type, id) IN Fits(m, size, GetId(m, Len(m)) = id)
SubscribeIsRead(size, topic, qos, id) ==
    LET m == MsgSubscribe(size, topic, qos, id)
    IN  Fits(m, size, GetId(m, Len(m)) = IF Len(m) < 130 THEN id ELSE 0)
UnsubscribeFits(size, topic, id) ==
    LET m == MsgUnsubscribe(size, topic, id) IN Fits(m, size, TRUE)
EmptyFits(size, type) ==
    LET m == MsgEmpty(size, type) IN Fits(m, size, Len(m) = 2)

\* The string at a place of a message, and what is behind it.
Behind(m, k) == k + 2 + 256 * At(m, k) + At(m, k + 1)
StringAt(m, k) == SubSeq(m, k + 3, Behind(m, k))

\* Behind the name and the level of the protocol a CONNECT has its flags, the seconds
\* to keep it alive, and the strings the flags announce, the id of the client first.
FlagsAt(m) == LengthEnd(m, Len(m)) + 9
Has(m, bit) == (At(m, FlagsAt(m)) \div bit) % 2 = 1
IdAt(m) == FlagsAt(m) + 3
WillAt(m) == Behind(m, IdAt(m))
UserAt(m) == IF Has(m, 4) THEN Behind(m, Behind(m, WillAt(m))) ELSE WillAt(m)
PasswordAt(m) == IF Has(m, 128) THEN Behind(m, UserAt(m)) ELSE UserAt(m)
ConnectEnd(m) == IF Has(m, 64) THEN Behind(m, PasswordAt(m)) ELSE PasswordAt(m)

\* A broker finds there what the client was configured with, and no more.
WillIsRead(m, info) ==
    IF Has(m, 4) THEN /\ StringAt(m, WillAt(m)) = info.willTopic
                      /\ StringAt(m, Behind(m, WillAt(m))) = info.willMessage
                      /\ Has(m, 32) = info.willRetain
                      /\ (At(m, FlagsAt(m)) \div 8) % 4 = info.willQos
    ELSE info.willTopic = <<>>
ConnectIsRead(size, info) ==
    LET m == MsgConnect(size, info)
    IN  Fits(m, size,
            /\ 256 * At(m, FlagsAt(m) + 1) + At(m, FlagsAt(m) + 2) = info.keepalive
            /\ StringAt(m, IdAt(m)) = info.clientId
            /\ Has(m, 2) = info.clean
            /\ WillIsRead(m, info)
            /\ info.username = IF Has(m, 128) THEN StringAt(m, UserAt(m)) ELSE <<>>
            /\ info.password = IF Has(m, 64) THEN StringAt(m, PasswordAt(m)) ELSE <<>>
            /\ Len(m) = ConnectEnd(m))

=============================================================================
