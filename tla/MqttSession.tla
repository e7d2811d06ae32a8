------------------------------ MODULE MqttSession ------------------------------
(***************************************************************************)
(* The messages of an MQTT session: the requests of the client, the record *)
(* it keeps of the unanswered ones (pending_msg_type, _id, _count and the  *)
(* outbox) and the answers of the broker (components/espmqtt/mqtt_client.c,*)
(* lib/mqtt_outbox.c, lib/mqtt_msg.c).                                     *)
(*                                                                         *)
(* esp_mqtt_task makes all requests that expect an answer (its callbacks   *)
(* subscribe).  Application tasks (uart1_read) publish with QoS 0 through  *)
(* the same output buffer and without a lock.  The life cycle of the task  *)
(* itself is the subject of MqttClient.                                    *)
(***************************************************************************)
EXTENDS Integers, Sequences, SequencesExt

CONSTANTS
    MqttTask,   \* esp_mqtt_task
    AppTasks,   \* tasks that publish with QoS 0
    Ids,        \* message ids
    MaxOps      \* bound on requests, broker messages and connections

ASSUME SessionAssumption ==
    /\ MqttTask \notin AppTasks
    /\ Ids \subseteq Nat \ {0} /\ Ids # {}
    /\ MaxOps \in Nat

VARIABLES
    state,      \* client->state
    inBuffer,   \* type of the message at the start of in_buffer
    outbound,   \* outbound_message: what the shared out_buffer holds
    pendType,   \* pending_msg_type
    pendId,     \* pending_msg_id
    pendCount,  \* pending_msg_count
    outbox,     \* client->outbox
    pc,         \* where each task is in a publish, subscribe or reply
    req,        \* the message each task is about to build
    net,        \* messages on their way to the broker
    inbox,      \* messages on their way to the client
    ops,        \* requests, broker messages and connections so far
    accepted,   \* history: has the broker accepted a connection?
    unanswered, \* history: requests whose answer was not yet read
    used,       \* history: message ids used so far
    mixed       \* history: were two messages in the buffer, or an id, mixed up?

sessionVars == <<state, inBuffer, accepted>>
pendVars == <<pendType, pendId, pendCount, outbox>>
history == <<unanswered, used, mixed>>
vars == <<sessionVars, outbound, pendVars, pc, req, net, inbox, ops, history>>

Tasks == {MqttTask} \cup AppTasks

Msg(type, qos, id) == [type |-> type, qos |-> qos, id |-> id]

Types == {"none", "CONNECT", "CONNACK", "REFUSED", "PUBLISH", "PUBACK", "PUBREC",
          "PUBREL", "PUBCOMP", "SUBSCRIBE", "SUBACK", "UNSUBSCRIBE", "UNSUBACK",
          "PINGREQ", "PINGRESP"}

Messages == [type : Types, qos : 0..2, id : Ids \cup {0}]
NoMsg == Msg("none", 0, 0)

\* What a client may ask: the requests with an answer that is tracked.
Requests == {Msg("SUBSCRIBE", 0, 0), Msg("UNSUBSCRIBE", 0, 0),
             Msg("PUBLISH", 1, 0), Msg("PUBLISH", 2, 0)}
Tracked(m) == m.type \in {"SUBSCRIBE", "UNSUBSCRIBE"} \/ (m.type = "PUBLISH" /\ m.qos > 0)

Count == ops < MaxOps /\ ops' = ops + 1

-----------------------------------------------------------------------------
(* mqtt_outbox.c *)

outbox_enqueue(box, id, type) == Append(box, [id |-> id, type |-> type])

Matches(box, id, type) == {i \in DOMAIN box : box[i].id = id /\ box[i].type = type}

\* The first item with this id and type is removed.
outbox_delete(box, id, type) ==
    LET hits == Matches(box, id, type)
    IN  RemoveAt(box, CHOOSE i \in hits : \A j \in hits : i <= j)

-----------------------------------------------------------------------------
Init ==
    /\ state = "INIT"
    /\ inBuffer \in {"none", "CONNACK"}     \* malloc leaves what was there:
    /\ accepted = (inBuffer = "CONNACK")    \* the buffer of a client before
    /\ outbound = NoMsg
    /\ pendType = "none" /\ pendId = 0 /\ pendCount = 0
    /\ outbox = <<>>
    /\ pc = [t \in Tasks |-> "idle"]
    /\ req = [t \in Tasks |-> NoMsg]
    /\ net = <<>> /\ inbox = <<>>
    /\ ops = 0
    /\ unanswered = {} /\ used = {} /\ mixed = FALSE

-----------------------------------------------------------------------------
(* Connecting *)

\* fault: the return code is not looked at
ConnectResult_NoReturnCode(buf) ==
    IF buf \in {"CONNACK", "REFUSED"} THEN "CONNECTED" ELSE "WAIT_TIMEOUT"

\* esp_mqtt_connect looks at the buffer, whatever is in it.
ConnectResult(buf) == IF buf = "CONNACK" THEN "CONNECTED" ELSE "WAIT_TIMEOUT"

\* The state INIT: a transport connection, CONNECT, and a read that brings
\* CONNACK or a refusal, times out with the buffer as it was, or fails.  After a
\* timeout the answer may still come: it is read as a message of the session.
Connect ==
    /\ state = "INIT" /\ pc[MqttTask] = "idle"
    /\ Count
    /\ outbound' = Msg("CONNECT", 0, 0)
    /\ pendType' = "CONNECT" /\ pendId' = 0
    /\ \/ \E now \in {"CONNACK", "REFUSED"} :
            /\ inBuffer' = now
            /\ state' = ConnectResult(now)
            /\ accepted' = (accepted \/ now = "CONNACK")
            /\ inbox' = inbox
       \/ \E late \in {"none", "CONNACK", "REFUSED"} :
            /\ inBuffer' = inBuffer
            /\ state' = ConnectResult(inBuffer)
            /\ accepted' = (accepted \/ late = "CONNACK")
            /\ inbox' = IF state' = "CONNECTED" /\ late # "none"
                        THEN Append(inbox, Msg(late, 0, 0)) ELSE inbox
       \/ state' = "WAIT_TIMEOUT" /\ UNCHANGED <<inBuffer, accepted, inbox>>
    /\ mixed' = (mixed \/ \E t \in AppTasks : pc[t] # "idle")
    /\ UNCHANGED <<pendCount, outbox, pc, req, net, unanswered, used>>

\* esp_mqtt_abort_connection after a failed read; what was under way is lost.
Abort ==
    /\ state = "CONNECTED" /\ pc[MqttTask] = "idle"
    /\ state' = "WAIT_TIMEOUT"
    /\ net' = <<>> /\ inbox' = <<>> /\ unanswered' = {}
    /\ UNCHANGED <<inBuffer, accepted, outbound, pendVars, pc, req, ops, used, mixed>>

Reconnect ==
    /\ state = "WAIT_TIMEOUT"
    /\ state' = "INIT"
    /\ UNCHANGED <<inBuffer, accepted, outbound, pendVars, pc, req, net, inbox, ops, history>>

-----------------------------------------------------------------------------
(* esp_mqtt_client_subscribe, _unsubscribe, _publish and _ping *)

\* Entry: the test of client->state.
Ask(t, m) ==
    /\ pc[t] = "idle" /\ state = "CONNECTED"
    /\ Count
    /\ req' = [req EXCEPT ![t] = m]
    /\ pc' = [pc EXCEPT ![t] = IF Tracked(m) THEN "enqueue" ELSE "build"]
    /\ UNCHANGED <<sessionVars, outbound, pendVars, net, inbox, history>>

\* mqtt_enqueue
Enqueue ==
    /\ pc[MqttTask] = "enqueue"
    /\ outbox' = IF pendCount > 0 THEN outbox_enqueue(outbox, pendId, pendType) ELSE outbox
    /\ pc' = [pc EXCEPT ![MqttTask] = "build"]
    /\ UNCHANGED <<sessionVars, outbound, pendType, pendId, pendCount, req, net, inbox,
                   ops, history>>

\* mqtt_msg_*: the message is put together in the shared buffer.  A request gets
\* a random id, which _subscribe and _unsubscribe store at once.
Build(t, id) ==
    /\ pc[t] = "build"
    /\ id \in IF Tracked(req[t]) THEN Ids ELSE {req[t].id}
    /\ req' = [req EXCEPT ![t].id = id]
    /\ outbound' = [req[t] EXCEPT !.id = id]
    /\ pendId' = IF req[t].type \in {"SUBSCRIBE", "UNSUBSCRIBE"} THEN id ELSE pendId
    /\ pc' = [pc EXCEPT ![t] = IF Tracked(req[t]) THEN "note" ELSE "write"]
    /\ used' = IF Tracked(req[t]) THEN used \cup {id} ELSE used
    /\ mixed' = (\/ mixed
                 \/ Tracked(req[t]) /\ id \in used
                 \/ \E u \in Tasks \ {t} : pc[u] \in {"note", "write"})
    /\ UNCHANGED <<sessionVars, pendType, pendCount, outbox, net, inbox, ops, unanswered>>

\* fault: the counter is not incremented for a publish
Note_OnlySubscribe ==
    /\ pc[MqttTask] = "note"
    /\ pendType' = outbound.type
    /\ pendId' = IF req[MqttTask].type = "PUBLISH" THEN req[MqttTask].id ELSE pendId
    /\ pendCount' = IF req[MqttTask].type = "PUBLISH" THEN pendCount ELSE pendCount + 1
    /\ pc' = [pc EXCEPT ![MqttTask] = "write"]
    /\ UNCHANGED <<sessionVars, outbound, outbox, req, net, inbox, ops, history>>

\* The request is noted as pending; its type is read back from the buffer.
Note ==
    /\ pc[MqttTask] = "note"
    /\ pendType' = outbound.type
    /\ pendId' = IF req[MqttTask].type = "PUBLISH" THEN req[MqttTask].id ELSE pendId
    /\ pendCount' = pendCount + 1
    /\ pc' = [pc EXCEPT ![MqttTask] = "write"]
    /\ UNCHANGED <<sessionVars, outbound, outbox, req, net, inbox, ops, history>>

\* mqtt_write_data: what the buffer holds now is sent, or the write fails; the
\* pending type is overwritten in either case.
Write(t) ==
    /\ pc[t] = "write"
    /\ \/ /\ state = "CONNECTED"
          /\ net' = Append(net, outbound)
          /\ unanswered' = IF Tracked(outbound) THEN unanswered \cup {outbound.id}
                           ELSE unanswered
       \/ UNCHANGED <<net, unanswered>>
    /\ pendType' = outbound.type
    /\ req' = [req EXCEPT ![t] = NoMsg]
    /\ pc' = [pc EXCEPT ![t] = "idle"]
    /\ UNCHANGED <<sessionVars, outbound, pendId, pendCount, outbox, inbox, ops, used, mixed>>

-----------------------------------------------------------------------------
(* mqtt_process_receive *)

\* The request type an acknowledgement belongs to.
AckOf == [SUBACK |-> "SUBSCRIBE", UNSUBACK |-> "UNSUBSCRIBE",
          PUBACK |-> "PUBLISH", PUBCOMP |-> "PUBREL"]

\* The message sent back at once.
ReplyTo(m) ==
    CASE m.type = "PUBLISH" /\ m.qos = 1 -> Msg("PUBACK", 0, m.id)
      [] m.type = "PUBLISH" /\ m.qos = 2 -> Msg("PUBREC", 0, m.id)
      [] m.type = "PUBREC"               -> Msg("PUBREL", 0, m.id)
      [] m.type = "PUBREL"               -> Msg("PUBCOMP", 0, m.id)
      [] m.type = "PINGREQ"              -> Msg("PINGRESP", 0, 0)
      [] OTHER                           -> NoMsg

\* fault: the counter is not tested
Known_NoZeroTest(type, id) ==
    Matches(outbox, id, type) # {} \/ (pendType = type /\ pendId = id)

\* is_valid_mqtt_msg: is there a record of the request, in the outbox or in the
\* pending slot?
Known(type, id) ==
    /\ pendCount > 0
    /\ Matches(outbox, id, type) # {} \/ (pendType = type /\ pendId = id)

\* is_valid_mqtt_msg: the record is removed, the slot stays as it is.
Settle(type, id) ==
    /\ outbox' = IF Matches(outbox, id, type) = {} THEN outbox
                 ELSE outbox_delete(outbox, id, type)
    /\ pendCount' = pendCount - 1

\* A read returns n messages at once; the first is processed, the others are
\* lost with the buffer.  Reads are taken to end between two messages: the code
\* takes whatever a read begins with for one (mqtt_client.c:511).
Receive(n) ==
    /\ state = "CONNECTED" /\ pc[MqttTask] = "idle"
    /\ n \in 1..Len(inbox)
    /\ inbox' = SubSeq(inbox, n + 1, Len(inbox))
    /\ LET m == inbox[1]
           answered == {inbox[i].id : i \in {j \in 1..n : inbox[j].type \in DOMAIN AckOf}}
       IN  /\ inBuffer' = m.type
           /\ unanswered' = unanswered \ answered
           /\ IF m.type \in DOMAIN AckOf /\ Known(AckOf[m.type], m.id)
              THEN Settle(AckOf[m.type], m.id)
              ELSE UNCHANGED <<pendCount, outbox>>
           /\ IF ReplyTo(m) = NoMsg
              THEN UNCHANGED <<pc, req>>
              ELSE /\ pc' = [pc EXCEPT ![MqttTask] = "build"]
                   /\ req' = [req EXCEPT ![MqttTask] = ReplyTo(m)]
    /\ UNCHANGED <<state, accepted, outbound, pendType, pendId, net, ops, used, mixed>>

-----------------------------------------------------------------------------
(* The broker *)

\* It answers every message it gets once and in order.
BrokerAnswers ==
    /\ net # <<>>
    /\ LET m == Head(net)
           a == CASE m.type = "SUBSCRIBE"   -> Msg("SUBACK", 0, m.id)
                  [] m.type = "UNSUBSCRIBE" -> Msg("UNSUBACK", 0, m.id)
                  [] m.type = "PUBREC"      -> Msg("PUBREL", 0, m.id)
                  [] m.type = "PINGREQ"     -> Msg("PINGRESP", 0, 0)
                  [] OTHER                  -> ReplyTo(m)
       IN  inbox' = IF a = NoMsg THEN inbox ELSE Append(inbox, a)
    /\ net' = Tail(net)
    /\ UNCHANGED <<sessionVars, outbound, pendVars, pc, req, ops, history>>

\* It delivers a message of a subscribed topic, or pings.  Its ids are its own
\* and not looked at: one is enough.
BrokerSends(m) ==
    /\ state = "CONNECTED"
    /\ Count
    /\ inbox' = Append(inbox, m)
    /\ UNCHANGED <<sessionVars, outbound, pendVars, pc, req, net, history>>

-----------------------------------------------------------------------------
Next ==
    \/ Connect \/ Abort \/ Reconnect
    \/ \E m \in Requests \cup {Msg("PUBLISH", 0, 0), Msg("PINGREQ", 0, 0)} : Ask(MqttTask, m)
    \/ \E t \in AppTasks : Ask(t, Msg("PUBLISH", 0, 0))
    \/ Enqueue \/ Note
    \/ \E t \in Tasks, id \in Ids \cup {0} : Build(t, id)
    \/ \E t \in Tasks : Write(t)
    \/ \E n \in 1..Len(inbox) : Receive(n)
    \/ BrokerAnswers
    \/ \E m \in {Msg("PUBLISH", 0, 0), Msg("PINGREQ", 0, 0)} \cup
                {Msg("PUBLISH", q, CHOOSE id \in Ids : TRUE) : q \in 1..2} : BrokerSends(m)

Spec == Init /\ [][Next]_vars

-----------------------------------------------------------------------------
(* Properties *)

\* Every variable keeps its type; in particular the counter never goes below 0.
TypeOK ==
    /\ state \in {"INIT", "CONNECTED", "WAIT_TIMEOUT"}
    /\ inBuffer \in Types
    /\ accepted \in BOOLEAN
    /\ outbound \in Messages
    /\ pendType \in Types
    /\ pendId \in Ids \cup {0}
    /\ pendCount \in Nat
    /\ outbox \in Seq([id : Ids \cup {0}, type : Types])
    /\ pc \in [Tasks -> {"idle", "enqueue", "build", "note", "write"}]
    /\ req \in [Tasks -> Messages]
    /\ net \in Seq(Messages)
    /\ inbox \in Seq(Messages)
    /\ ops \in 0..MaxOps
    /\ unanswered \subseteq Ids \cup {0}
    /\ used \subseteq Ids
    /\ mixed \in BOOLEAN

\* pending_msg_count = 0 makes is_valid_mqtt_msg ignore every answer.  It never
\* does so while a request of the session is unanswered, whatever was clobbered,
\* coalesced or lost in earlier sessions, as long as no two messages met in the
\* shared buffer and no random id was drawn twice.
AnswersCounted == unanswered # {} /\ ~mixed => pendCount > 0

\* A refusal never passes for an acceptance: not in time, not late, and not left
\* in in_buffer, where the next connection whose answer is late takes it for its
\* own (mqtt_client.c:220).  So a client is CONNECTED only if the broker accepted
\* one of its connections; that it was this one does not hold.
ConnectedIsAccepted == state = "CONNECTED" => accepted

=============================================================================
