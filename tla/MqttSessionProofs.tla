--------------------------- MODULE MqttSessionProofs ---------------------------
(* Proofs about the messages of an MQTT session, for any tasks and message ids,
   and about their bytes, for any topics, data, ids and buffers. *)
EXTENDS MC_MqttSession, FiniteSets, FiniteSetTheorems, SequenceTheorems, WellFoundedInduction, TLAPS

\* What is sent, answered and asked is a message.
LEMMA ReplyTypes ==
    ASSUME NEW m \in Messages
    PROVE  ReplyTo(m) \in Messages
<1>1. m.id \in Ids \cup {0}
  BY DEF Messages
<1> QED
  BY <1>1 DEF ReplyTo, Msg, NoMsg, Messages, Types

\* Of the matching items of the outbox there is a first one.
LEMMA FirstMatch ==
    ASSUME NEW S, NEW box \in Seq(S), NEW id, NEW type, Matches(box, id, type) # {}
    PROVE  \E i \in Matches(box, id, type) : \A j \in Matches(box, id, type) : i <= j
<1>1. Matches(box, id, type) \subseteq Nat
  BY DEF Matches
<1>2. \E n \in Matches(box, id, type) : \A m \in Matches(box, id, type) : ~ (<<m, n>> \in OpToRel(<, Nat))
  BY <1>1, NatLessThanWellFounded, WFMin
<1> QED
  <2>1. ASSUME NEW n \in Matches(box, id, type), NEW m \in Matches(box, id, type),
               ~ (<<m, n>> \in OpToRel(<, Nat))
        PROVE  n <= m
    BY <1>1, <2>1 DEF OpToRel
  <2> QED
    BY <1>2, <2>1

\* Removing it leaves an outbox.
LEMMA DeleteTypes ==
    ASSUME NEW S, NEW box \in Seq(S), NEW id, NEW type, Matches(box, id, type) # {}
    PROVE  outbox_delete(box, id, type) \in Seq(S)
<1> DEFINE k == CHOOSE i \in Matches(box, id, type) : \A j \in Matches(box, id, type) : i <= j
<1>1. k \in 1..Len(box)
  <2>1. \E i \in Matches(box, id, type) : \A j \in Matches(box, id, type) : i <= j
    BY FirstMatch
  <2>2. k \in Matches(box, id, type)
    BY <2>1
  <2> QED
    BY <2>2 DEF Matches
<1> HIDE DEF k
<1>2. SubSeq(box, 1, k - 1) \in Seq(S) /\ SubSeq(box, k + 1, Len(box)) \in Seq(S)
  BY <1>1
<1>3. RemoveAt(box, k) \in Seq(S)
  BY <1>2 DEF RemoveAt
<1> QED
  BY <1>3 DEF outbox_delete, k

\* Whatever is asked or delivered is a message.
LEMMA NextCases ==
    ASSUME Next
    PROVE  \/ Connect \/ Abort \/ Reconnect \/ Enqueue \/ Note \/ BrokerAnswers
           \/ \E m \in Messages : Ask(MqttTask, m) /\ m.type # "PUBREL"
           \/ \E t \in AppTasks : Ask(t, Msg("PUBLISH", 0, 0))
           \/ \E t \in Tasks, id \in Ids \cup {0} : Build(t, id)
           \/ \E t \in Tasks : Write(t)
           \/ \E n \in 1..Len(inbox) : Receive(n)
           \/ \E m \in Messages : BrokerSends(m) /\ m.type \in {"PUBLISH", "PINGREQ"}
<1>1. Requests \cup {Msg("PUBLISH", 0, 0), Msg("PINGREQ", 0, 0)} \subseteq Messages
  BY DEF Requests, Msg, Messages, Types
<1> DEFINE some == CHOOSE id \in Ids : TRUE
<1>2. some \in Ids
  BY SessionAssumption
<1> HIDE DEF some
<1>3. \A q \in 1..2 : Msg("PUBLISH", q, some) \in Messages
  BY <1>2 DEF Msg, Messages, Types
<1>4. ASSUME NEW m \in {Msg("PUBLISH", 0, 0), Msg("PINGREQ", 0, 0)} \cup
                       {Msg("PUBLISH", q, some) : q \in 1..2}
      PROVE  m \in Messages /\ m.type \in {"PUBLISH", "PINGREQ"}
  <2>1. m \in Messages
    BY <1>1, <1>3
  <2>2. m.type \in {"PUBLISH", "PINGREQ"}
    BY DEF Msg
  <2> QED
    BY <2>1, <2>2
<1>5. ASSUME NEW m \in Requests \cup {Msg("PUBLISH", 0, 0), Msg("PINGREQ", 0, 0)}, Ask(MqttTask, m)
      PROVE  \E x \in Messages : Ask(MqttTask, x) /\ x.type # "PUBREL"
  <2>1. m.type # "PUBREL"
    BY DEF Requests, Msg
  <2> QED
    BY <1>1, <1>5, <2>1
<1>6. ASSUME NEW m \in {Msg("PUBLISH", 0, 0), Msg("PINGREQ", 0, 0)} \cup
                       {Msg("PUBLISH", q, some) : q \in 1..2}, BrokerSends(m)
      PROVE  \E x \in Messages : BrokerSends(x) /\ x.type \in {"PUBLISH", "PINGREQ"}
  BY <1>4, <1>6
<1> QED
  BY <1>5, <1>6 DEF Next, some

\* A late answer is read as a message of the session, and is none that counts.
LEMMA ConnectInbox ==
    ASSUME TypeOK, Connect
    PROVE  /\ inbox' \in Seq(Messages)
           /\ \/ inbox' = inbox
              \/ \E m \in Messages : m.type \in {"CONNACK", "REFUSED"} /\ inbox' = Append(inbox, m)
<1>1. inbox \in Seq(Messages)
  BY DEF TypeOK
<1>2. ASSUME NEW late \in {"CONNACK", "REFUSED"}
      PROVE  Msg(late, 0, 0) \in Messages /\ Msg(late, 0, 0).type = late
  BY <1>2 DEF Msg, Messages, Types
<1>3. inbox' = inbox \/ \E late \in {"CONNACK", "REFUSED"} : inbox' = Append(inbox, Msg(late, 0, 0))
  BY DEF Connect
<1>4. ASSUME NEW late \in {"CONNACK", "REFUSED"}, inbox' = Append(inbox, Msg(late, 0, 0))
      PROVE  \E m \in Messages : m.type \in {"CONNACK", "REFUSED"} /\ inbox' = Append(inbox, m)
  BY <1>2, <1>4
<1>5. \/ inbox' = inbox
      \/ \E m \in Messages : m.type \in {"CONNACK", "REFUSED"} /\ inbox' = Append(inbox, m)
  BY <1>3, <1>4
<1> QED
  BY <1>1, <1>5

-----------------------------------------------------------------------------
\* Every variable keeps its type, for any tasks and ids.
THEOREM TypeCorrect == Spec => []TypeOK
<1> USE SessionAssumption
<1>1. Init => TypeOK
  <2>1. Init => mixed \in BOOLEAN /\ accepted \in BOOLEAN
    BY Zenon DEF Init
  <2>2. Init => ops \in 0..MaxOps
    BY DEF Init
  <2> QED
    BY <2>1, <2>2 DEF Init, TypeOK, NoMsg, Msg, Messages, Types
<1>2. TypeOK /\ [Next]_vars => TypeOK'
  <2> SUFFICES ASSUME TypeOK, [Next]_vars PROVE TypeOK'
    OBVIOUS
  <2> USE DEF TypeOK
  <2>1. ASSUME Connect PROVE TypeOK'
    <3>1. mixed' \in BOOLEAN
      BY <2>1, Zenon DEF Connect
    <3>2. Msg("CONNECT", 0, 0) \in Messages
      BY DEF Msg, Messages, Types
    <3>3. ops' \in 0..MaxOps
      BY <2>1 DEF Connect, Count
    <3>4. /\ inBuffer' \in Types
          /\ state' \in {"INIT", "CONNECTED", "WAIT_TIMEOUT"}
      BY <2>1 DEF Connect, ConnectResult, Types
    <3>5. accepted' \in BOOLEAN
      BY <2>1, Zenon DEF Connect
    <3>6. inbox' \in Seq(Messages)
      BY <2>1, ConnectInbox
    <3> QED
      BY <2>1, <3>1, <3>2, <3>3, <3>4, <3>5, <3>6 DEF Connect, Types
  <2>2. ASSUME Abort \/ Reconnect PROVE TypeOK'
    <3>1. mixed' \in BOOLEAN /\ accepted' \in BOOLEAN
      BY <2>2, Zenon DEF Abort, Reconnect, history
    <3>2. CASE Abort
      BY <3>1, <3>2 DEF Abort, pendVars
    <3>3. CASE Reconnect
      BY <3>1, <3>3 DEF Reconnect, pendVars, history
    <3> QED
      BY <2>2, <3>2, <3>3
  <2>3. ASSUME NEW t \in Tasks, NEW m \in Messages, Ask(t, m) PROVE TypeOK'
    <3>1. ops' \in 0..MaxOps
      BY <2>3 DEF Ask, Count
    <3>2. mixed' \in BOOLEAN /\ accepted' \in BOOLEAN
      BY <2>3, Zenon DEF Ask, history, sessionVars
    <3> QED
      BY <2>3, <3>1, <3>2 DEF Ask, sessionVars, pendVars, history
  <2>4. ASSUME Enqueue PROVE TypeOK'
    <3>1. outbox' \in Seq([id : Ids \cup {0}, type : Types])
      <4>1. [id |-> pendId, type |-> pendType] \in [id : Ids \cup {0}, type : Types]
        OBVIOUS
      <4>2. outbox_enqueue(outbox, pendId, pendType) \in Seq([id : Ids \cup {0}, type : Types])
        BY <4>1 DEF outbox_enqueue
      <4> QED
        BY <2>4, <4>2 DEF Enqueue
    <3>2. mixed' \in BOOLEAN /\ accepted' \in BOOLEAN
      BY <2>4, Zenon DEF Enqueue, history, sessionVars
    <3> QED
      BY <2>4, <3>1, <3>2 DEF Enqueue, sessionVars, history
  <2>5. ASSUME NEW t \in Tasks, NEW id \in Ids \cup {0}, Build(t, id) PROVE TypeOK'
    <3>1. [req[t] EXCEPT !.id = id] \in Messages
      BY DEF Messages
    <3>2. mixed' \in BOOLEAN /\ accepted' \in BOOLEAN
      BY <2>5, Zenon DEF Build, sessionVars
    <3>3. used' \subseteq Ids
      BY <2>5 DEF Build
    <3>4. req' \in [Tasks -> Messages]
      BY <2>5, <3>1 DEF Build, Messages
    <3> QED
      BY <2>5, <3>1, <3>2, <3>3, <3>4 DEF Build, sessionVars
  <2>6. ASSUME Note PROVE TypeOK'
    <3>1. outbound.type \in Types /\ req[MqttTask].id \in Ids \cup {0}
      BY DEF Messages, Tasks
    <3>2. mixed' \in BOOLEAN /\ accepted' \in BOOLEAN
      BY <2>6, Zenon DEF Note, history, sessionVars
    <3>3. pendType' \in Types /\ pendId' \in Ids \cup {0} /\ pendCount' \in Nat
      BY <2>6, <3>1 DEF Note
    <3>4. pc' \in [Tasks -> {"idle", "enqueue", "build", "note", "write"}]
      BY <2>6 DEF Note
    <3> QED
      BY <2>6, <3>2, <3>3, <3>4 DEF Note, sessionVars, history
  <2>7. ASSUME NEW t \in Tasks, Write(t) PROVE TypeOK'
    <3>1. outbound.type \in Types /\ outbound.id \in Ids \cup {0}
      BY DEF Messages
    <3>2. mixed' \in BOOLEAN /\ accepted' \in BOOLEAN
      BY <2>7, Zenon DEF Write, sessionVars
    <3>3. NoMsg \in Messages
      BY DEF NoMsg, Msg, Messages, Types
    <3>4. net' \in Seq(Messages) /\ unanswered' \subseteq Ids \cup {0}
      <4>1. Append(net, outbound) \in Seq(Messages)
        OBVIOUS
      <4>2. net' \in {net, Append(net, outbound)}
        BY <2>7 DEF Write
      <4>3. unanswered' \in {unanswered, unanswered \cup {outbound.id}}
        BY <2>7 DEF Write
      <4> QED
        BY <3>1, <4>1, <4>2, <4>3
    <3>5. pendType' \in Types /\ req' \in [Tasks -> Messages]
          /\ pc' \in [Tasks -> {"idle", "enqueue", "build", "note", "write"}]
      BY <2>7, <3>1, <3>3 DEF Write
    <3> QED
      BY <2>7, <3>2, <3>4, <3>5 DEF Write, sessionVars
  <2>8. ASSUME NEW n \in 1..Len(inbox), Receive(n) PROVE TypeOK'
    <3> DEFINE m == inbox[1]
    <3>1. m \in Messages /\ m.type \in Types
      <4>1. 1 \in 1..Len(inbox)
        BY Z3
      <4>2. m \in Messages
        BY <4>1
      <4> QED
        BY <4>2 DEF Messages
    <3>2. inbox' \in Seq(Messages)
      BY <2>8 DEF Receive
    <3>3. outbox' \in Seq([id : Ids \cup {0}, type : Types]) /\ pendCount' \in Nat
      <4>1. CASE UNCHANGED <<pendCount, outbox>>
        BY <4>1
      <4>2. ASSUME NEW type, Known(type, m.id), Settle(type, m.id) PROVE outbox' \in Seq([id : Ids \cup {0}, type : Types]) /\ pendCount' \in Nat
        BY <4>2, DeleteTypes DEF Known, Settle
      <4> QED
        BY <2>8, <4>1, <4>2 DEF Receive
    <3>4. pc' \in [Tasks -> {"idle", "enqueue", "build", "note", "write"}] /\ req' \in [Tasks -> Messages]
      BY <2>8, <3>1, ReplyTypes DEF Receive
    <3>5. mixed' \in BOOLEAN /\ accepted' \in BOOLEAN
      BY <2>8, Zenon DEF Receive
    <3>6. unanswered' \subseteq Ids \cup {0} /\ inBuffer' \in Types
      BY <2>8, <3>1 DEF Receive
    <3> QED
      BY <2>8, <3>2, <3>3, <3>4, <3>5, <3>6 DEF Receive
  <2>9. ASSUME BrokerAnswers PROVE TypeOK'
    <3> DEFINE m == Head(net)
    <3>1. m \in Messages /\ m.id \in Ids \cup {0} /\ Tail(net) \in Seq(Messages)
      <4>1. net # <<>>
        BY <2>9 DEF BrokerAnswers
      <4>2. m \in Messages /\ Tail(net) \in Seq(Messages)
        BY <4>1
      <4> QED
        BY <4>2 DEF Messages
    <3>2. \A type \in {"SUBACK", "UNSUBACK", "PUBREL"} : Msg(type, 0, m.id) \in Messages
      BY <3>1 DEF Msg, Messages, Types
    <3>3. Msg("PINGRESP", 0, 0) \in Messages
      BY DEF Msg, Messages, Types
    <3>4. inbox' \in Seq(Messages)
      BY <2>9, <3>1, <3>2, <3>3, ReplyTypes DEF BrokerAnswers
    <3>5. mixed' \in BOOLEAN /\ accepted' \in BOOLEAN
      BY <2>9, Zenon DEF BrokerAnswers, history, sessionVars
    <3> QED
      BY <2>9, <3>1, <3>4, <3>5 DEF BrokerAnswers, sessionVars, pendVars, history
  <2>10. ASSUME NEW m \in Messages, BrokerSends(m) PROVE TypeOK'
    <3>1. ops' \in 0..MaxOps
      BY <2>10 DEF BrokerSends, Count
    <3>2. mixed' \in BOOLEAN /\ accepted' \in BOOLEAN
      BY <2>10, Zenon DEF BrokerSends, history, sessionVars
    <3> QED
      BY <2>10, <3>1, <3>2 DEF BrokerSends, sessionVars, pendVars, history
  <2>11. ASSUME NEW t \in AppTasks, Ask(t, Msg("PUBLISH", 0, 0)) PROVE TypeOK'
    <3>1. Msg("PUBLISH", 0, 0) \in Messages /\ t \in Tasks
      BY DEF Tasks, Msg, Messages, Types
    <3> HIDE DEF TypeOK
    <3> QED
      BY <2>3, <2>11, <3>1
  <2>12. ASSUME NEW m \in Messages, Ask(MqttTask, m) PROVE TypeOK'
    BY <2>3, <2>12 DEF Tasks
  <2>13. ASSUME UNCHANGED vars PROVE TypeOK'
    BY <2>13 DEF vars, sessionVars, pendVars, history
  <2> HIDE DEF TypeOK
  <2>14. CASE Next
    BY <2>1, <2>2, <2>4, <2>5, <2>6, <2>7, <2>8, <2>9, <2>10, <2>11, <2>12, <2>14, NextCases
  <2> QED
    BY <2>13, <2>14
<1> QED
  BY <1>1, <1>2, PTL DEF Spec

-----------------------------------------------------------------------------
\* Where an acceptance is seen, there was one.
AcceptedInv ==
    /\ state = "CONNECTED" => accepted
    /\ inBuffer = "CONNACK" => accepted
    /\ \A i \in 1..Len(inbox) : inbox[i].type = "CONNACK" => accepted

\* The broker's answers to what the client sends are no acceptance.
LEMMA AcceptedAppend ==
    ASSUME TypeOK, AcceptedInv, NEW m \in Messages, inbox' = Append(inbox, m),
           m.type = "CONNACK" => accepted', accepted => accepted'
    PROVE  \A i \in 1..Len(inbox)' : inbox'[i].type = "CONNACK" => accepted'
<1>1. inbox \in Seq(Messages)
  BY DEF TypeOK
<1>2. \A i \in 1..Len(inbox)' : (i \in 1..Len(inbox) /\ inbox'[i] = inbox[i]) \/ inbox'[i] = m
  BY <1>1
<1> QED
  BY <1>2 DEF AcceptedInv

LEMMA AcceptedConnect ==
    ASSUME TypeOK, AcceptedInv, Connect
    PROVE  AcceptedInv'
<1>1. ASSUME NEW now \in {"CONNACK", "REFUSED"}, inBuffer' = now, state' = ConnectResult(now),
             accepted' = (accepted \/ now = "CONNACK"), inbox' = inbox
      PROVE  AcceptedInv'
  BY <1>1 DEF AcceptedInv, ConnectResult
<1>2. ASSUME NEW late \in {"none", "CONNACK", "REFUSED"},
             inBuffer' = inBuffer, state' = ConnectResult(inBuffer),
             accepted' = (accepted \/ late = "CONNACK"),
             inbox' = IF state' = "CONNECTED" /\ late # "none"
                      THEN Append(inbox, Msg(late, 0, 0)) ELSE inbox
      PROVE  AcceptedInv'
  <2>1. /\ state' = "CONNECTED" => accepted'
        /\ inBuffer' = "CONNACK" => accepted'
    BY <1>2 DEF AcceptedInv, ConnectResult
  <2>2. CASE inbox' = inbox
    BY <1>2, <2>1, <2>2 DEF AcceptedInv
  <2>3. CASE late # "none" /\ inbox' = Append(inbox, Msg(late, 0, 0))
    <3>1. Msg(late, 0, 0) \in Messages /\ Msg(late, 0, 0).type = late
      BY <2>3 DEF Msg, Messages, Types
    <3>2. (late = "CONNACK" => accepted') /\ (accepted => accepted')
      BY <1>2
    <3> QED
      BY <2>1, <2>3, <3>1, <3>2, AcceptedAppend DEF AcceptedInv
  <2> QED
    BY <1>2, <2>2, <2>3
<1>3. CASE state' = "WAIT_TIMEOUT" /\ UNCHANGED <<inBuffer, accepted, inbox>>
  BY <1>3 DEF AcceptedInv
<1> QED
  BY <1>1, <1>2, <1>3 DEF Connect

\* A connected client was accepted, in time or late, by this connection or before.
THEOREM AcceptedCorrect == Spec => []ConnectedIsAccepted
<1>1. Init => AcceptedInv
  <2> SUFFICES ASSUME Init PROVE AcceptedInv
    OBVIOUS
  <2>1. inBuffer = "CONNACK" => accepted
    BY Zenon DEF Init
  <2>2. state # "CONNECTED" /\ Len(inbox) = 0
    BY DEF Init
  <2> QED
    BY <2>1, <2>2 DEF AcceptedInv
<1>2. TypeOK /\ AcceptedInv /\ [Next]_vars => AcceptedInv'
  <2> SUFFICES ASSUME TypeOK, AcceptedInv, [Next]_vars PROVE AcceptedInv'
    OBVIOUS
  <2>1. ASSUME Connect PROVE AcceptedInv'
    BY <2>1, AcceptedConnect
  <2>2. ASSUME Abort PROVE AcceptedInv'
    BY <2>2 DEF Abort, AcceptedInv
  <2>3. ASSUME Reconnect PROVE AcceptedInv'
    BY <2>3 DEF Reconnect, AcceptedInv
  <2>4. ASSUME UNCHANGED <<sessionVars, inbox>> PROVE AcceptedInv'
    BY <2>4 DEF AcceptedInv, sessionVars
  <2>5. ASSUME NEW n \in 1..Len(inbox), Receive(n) PROVE AcceptedInv'
    <3>1. inbox \in Seq(Messages) /\ n \in Nat /\ n <= Len(inbox) /\ 1 \in 1..Len(inbox)
      BY DEF TypeOK
    <3>2. /\ UNCHANGED <<state, accepted>> /\ inBuffer' = inbox[1].type
          /\ inbox' = SubSeq(inbox, n + 1, Len(inbox))
      BY <2>5 DEF Receive
    <3>3. \A i \in 1..Len(inbox)' : n + i \in 1..Len(inbox) /\ inbox'[i] = inbox[n + i]
      BY <3>1, <3>2
    <3> QED
      BY <3>1, <3>2, <3>3 DEF AcceptedInv
  <2>6. ASSUME NEW m \in Messages, m.type # "CONNACK", inbox' = Append(inbox, m), UNCHANGED sessionVars
        PROVE  AcceptedInv'
    <3>1. UNCHANGED <<state, inBuffer, accepted>>
      BY <2>6 DEF sessionVars
    <3>2. \A i \in 1..Len(inbox)' : inbox'[i].type = "CONNACK" => accepted'
      BY <2>6, <3>1, AcceptedAppend
    <3> QED
      BY <3>1, <3>2 DEF AcceptedInv
  <2>7. ASSUME BrokerAnswers PROVE AcceptedInv'
    <3> DEFINE m == Head(net)
               a == CASE m.type = "SUBSCRIBE"   -> Msg("SUBACK", 0, m.id)
                      [] m.type = "UNSUBSCRIBE" -> Msg("UNSUBACK", 0, m.id)
                      [] m.type = "PUBREC"      -> Msg("PUBREL", 0, m.id)
                      [] m.type = "PINGREQ"     -> Msg("PINGRESP", 0, 0)
                      [] OTHER                  -> ReplyTo(m)
    <3>1. net # <<>> /\ UNCHANGED sessionVars
          /\ inbox' = IF a = NoMsg THEN inbox ELSE Append(inbox, a)
      BY <2>7 DEF BrokerAnswers
    <3>2. m \in Messages
      BY <3>1 DEF TypeOK
    <3>3. m.id \in Ids \cup {0}
      BY <3>2 DEF Messages
    <3> HIDE DEF m
    <3>4. a \in Messages
      BY <3>2, <3>3, ReplyTypes DEF Msg, Messages, Types
    <3>5. a.type # "CONNACK"
      BY DEF ReplyTo, Msg, NoMsg
    <3> HIDE DEF a
    <3>6. CASE inbox' = inbox
      BY <2>4, <3>1, <3>6
    <3>7. CASE inbox' = Append(inbox, a)
      BY <2>6, <3>1, <3>4, <3>5, <3>7
    <3> QED
      BY <3>1, <3>6, <3>7
  <2>8. ASSUME NEW m \in Messages, BrokerSends(m), m.type \in {"PUBLISH", "PINGREQ"} PROVE AcceptedInv'
    BY <2>6, <2>8 DEF BrokerSends
  <2>9. CASE Next
    <3>1. ASSUME NEW t, NEW m, Ask(t, m) PROVE UNCHANGED <<sessionVars, inbox>>
      BY <3>1 DEF Ask
    <3>2. ASSUME NEW t, NEW id, Build(t, id) PROVE UNCHANGED <<sessionVars, inbox>>
      BY <3>2 DEF Build
    <3>3. ASSUME NEW t, Write(t) PROVE UNCHANGED <<sessionVars, inbox>>
      BY <3>3 DEF Write
    <3>4. ASSUME Enqueue \/ Note PROVE UNCHANGED <<sessionVars, inbox>>
      BY <3>4 DEF Enqueue, Note
    <3> QED
      BY <2>1, <2>2, <2>3, <2>4, <2>5, <2>7, <2>8, <2>9, <3>1, <3>2, <3>3, <3>4, NextCases
  <2>10. CASE UNCHANGED vars
    BY <2>4, <2>10 DEF vars
  <2> QED
    BY <2>9, <2>10
<1>3. AcceptedInv => ConnectedIsAccepted
  BY DEF AcceptedInv, ConnectedIsAccepted
<1> QED
  BY <1>1, <1>2, <1>3, TypeCorrect, PTL DEF Spec

-----------------------------------------------------------------------------
\* Who uses the output buffer: application tasks make no requests, and as long as
\* nothing is mixed up it holds the message of the one task that is to write it.
PlainApps ==
    \A t \in AppTasks : ~Tracked(req[t]) /\ req[t].type # "PUBREL" /\ pc[t] \notin {"enqueue", "note"}
OnlyTracked == pc[MqttTask] \in {"enqueue", "note"} => Tracked(req[MqttTask])
OwnBuffer ==
    ~mixed => \A t \in Tasks : pc[t] \in {"note", "write"} =>
        outbound = req[t] /\ \A u \in Tasks \ {t} : pc[u] \notin {"note", "write"}

BufferInv == PlainApps /\ OnlyTracked /\ OwnBuffer

LEMMA BufferInit == Init => BufferInv
BY DEF Init, BufferInv, PlainApps, OnlyTracked, OwnBuffer, Tracked, NoMsg, Msg, Tasks

LEMMA BufferStep == TypeOK /\ BufferInv /\ [Next]_vars => BufferInv'
<1> SUFFICES ASSUME TypeOK, BufferInv, [Next]_vars PROVE BufferInv'
  OBVIOUS
<1> USE SessionAssumption DEF BufferInv, PlainApps, OnlyTracked, OwnBuffer
<1>0. pc \in [Tasks -> {"idle", "enqueue", "build", "note", "write"}] /\ req \in [Tasks -> Messages]
      /\ MqttTask \in Tasks /\ AppTasks \subseteq Tasks /\ MqttTask \notin AppTasks
  BY DEF TypeOK, Tasks
<1>1. ASSUME Connect PROVE BufferInv'
  <2>1. UNCHANGED <<pc, req>> /\ pc[MqttTask] = "idle"
        /\ (~mixed' => ~mixed /\ \A t \in AppTasks : pc[t] = "idle")
    BY <1>1 DEF Connect
  <2> QED
    BY <1>0, <2>1 DEF Tasks
<1>2. ASSUME UNCHANGED <<pc, req, outbound, mixed>> PROVE BufferInv'
  BY <1>2
<1>3. ASSUME NEW t \in Tasks, NEW m \in Messages, Ask(t, m),
             t \in AppTasks => m = Msg("PUBLISH", 0, 0)
      PROVE  BufferInv'
  <2>1. /\ req' = [req EXCEPT ![t] = m]
        /\ pc' = [pc EXCEPT ![t] = IF Tracked(m) THEN "enqueue" ELSE "build"]
        /\ UNCHANGED <<outbound, mixed>>
    BY <1>3 DEF Ask, history
  <2>2. t \in AppTasks => ~Tracked(m) /\ m.type # "PUBREL"
    BY <1>3 DEF Tracked, Msg
  <2> QED
    BY <1>0, <2>1, <2>2
<1>4. ASSUME Enqueue PROVE BufferInv'
  <2>1. pc' = [pc EXCEPT ![MqttTask] = "build"] /\ UNCHANGED <<req, outbound, mixed>>
    BY <1>4 DEF Enqueue, history
  <2> QED
    BY <1>0, <2>1
<1>5. ASSUME NEW t \in Tasks, NEW id, Build(t, id) PROVE BufferInv'
  <2>1. /\ req' = [req EXCEPT ![t].id = id]
        /\ outbound' = [req[t] EXCEPT !.id = id]
        /\ pc' = [pc EXCEPT ![t] = IF Tracked(req[t]) THEN "note" ELSE "write"]
        /\ ~mixed' => ~mixed /\ \A u \in Tasks \ {t} : pc[u] \notin {"note", "write"}
    BY <1>5 DEF Build
  <2>2. \A u \in Tasks : req'[u].type = req[u].type /\ req'[u].qos = req[u].qos
    BY <1>0, <2>1 DEF Messages
  <2>3. \A u \in Tasks : Tracked(req'[u]) <=> Tracked(req[u])
    BY <2>2 DEF Tracked
  <2>4. outbound' = req'[t]
    BY <1>0, <2>1
  <2> QED
    BY <1>0, <2>1, <2>2, <2>3, <2>4
<1>6. ASSUME Note PROVE BufferInv'
  <2>1. pc[MqttTask] = "note" /\ pc' = [pc EXCEPT ![MqttTask] = "write"] /\ UNCHANGED <<req, outbound, mixed>>
    BY <1>6 DEF Note, history
  <2> QED
    BY <1>0, <2>1
<1>7. ASSUME NEW t \in Tasks, Write(t) PROVE BufferInv'
  <2>1. /\ req' = [req EXCEPT ![t] = NoMsg] /\ pc' = [pc EXCEPT ![t] = "idle"]
        /\ UNCHANGED <<outbound, mixed>>
    BY <1>7 DEF Write
  <2>2. ~Tracked(NoMsg) /\ NoMsg.type # "PUBREL"
    BY DEF Tracked, NoMsg, Msg
  <2> QED
    BY <1>0, <2>1, <2>2
<1>8. ASSUME NEW n, Receive(n) PROVE BufferInv'
  <2>1. /\ pc[MqttTask] = "idle" /\ UNCHANGED <<outbound, mixed>>
        /\ \/ UNCHANGED <<pc, req>>
           \/ /\ pc' = [pc EXCEPT ![MqttTask] = "build"]
              /\ req' = [req EXCEPT ![MqttTask] = ReplyTo(inbox[1])]
    BY <1>8 DEF Receive
  <2> QED
    BY <1>0, <2>1
<1>9. ASSUME Abort \/ Reconnect \/ BrokerAnswers PROVE BufferInv'
  BY <1>2, <1>9 DEF Abort, Reconnect, BrokerAnswers, history
<1>10. ASSUME NEW m, BrokerSends(m) PROVE BufferInv'
  BY <1>2, <1>10 DEF BrokerSends, history
<1>11. ASSUME UNCHANGED vars PROVE BufferInv'
  BY <1>2, <1>11 DEF vars, history
<1> HIDE DEF BufferInv
<1>12. Msg("PUBLISH", 0, 0) \in Messages
  BY DEF Msg, Messages, Types
<1>13. CASE Next
  BY <1>0, <1>1, <1>3, <1>4, <1>5, <1>6, <1>7, <1>8, <1>9, <1>10, <1>12, <1>13, NextCases
<1> QED
  BY <1>11, <1>13

-----------------------------------------------------------------------------
\* Messages that bring about the answer a request waits for: the request itself and
\* PUBREL on their way to the broker, the answer and PUBREC on their way back.
Asks(m) == Tracked(m) \/ m.type = "PUBREL"
Brings(m) == m.type \in {"SUBACK", "UNSUBACK", "PUBACK", "PUBCOMP", "PUBREC"}

\* As long as nothing is mixed up, an unanswered request has at most one of them
\* under way, and one that is still to be written is not counted as unanswered.
Used == ~mixed => unanswered \subseteq used
Fresh ==
    ~mixed /\ pc[MqttTask] \in {"note", "write"} /\ Tracked(req[MqttTask]) =>
        req[MqttTask].id \notin unanswered /\ req[MqttTask].id \in used
NetOwn ==
    ~mixed => \A i \in 1..Len(net) : Asks(net[i]) =>
        /\ net[i].id \in unanswered
        /\ \A j \in 1..Len(net) : j # i /\ Asks(net[j]) => net[j].id # net[i].id
InboxOwn ==
    ~mixed => \A i \in 1..Len(inbox) : Brings(inbox[i]) =>
        /\ inbox[i].id \in unanswered
        /\ \A j \in 1..Len(inbox) : j # i /\ Brings(inbox[j]) => inbox[j].id # inbox[i].id
Apart ==
    ~mixed => \A i \in 1..Len(net), j \in 1..Len(inbox) :
        Asks(net[i]) /\ Brings(inbox[j]) => net[i].id # inbox[j].id
Releases == pc[MqttTask] \in {"build", "write"} /\ req[MqttTask].type = "PUBREL"
ReleaseOwn ==
    ~mixed /\ Releases =>
        /\ req[MqttTask].id \in unanswered
        /\ \A i \in 1..Len(net) : Asks(net[i]) => net[i].id # req[MqttTask].id
        /\ \A i \in 1..Len(inbox) : Brings(inbox[i]) => inbox[i].id # req[MqttTask].id

WayInv == Used /\ Fresh /\ NetOwn /\ InboxOwn /\ Apart /\ ReleaseOwn

LEMMA WayInit == Init => WayInv
BY DEF Init, WayInv, Used, Fresh, NetOwn, InboxOwn, Apart, ReleaseOwn, Releases, Tasks

\* The messages under way stay, and the task does not get hold of one.
LEMMA WayQuiet ==
    ASSUME WayInv, UNCHANGED <<net, inbox, unanswered>>, used \subseteq used',
           ~mixed' => ~mixed, Fresh', ~mixed' => (Releases' => Releases /\ req'[MqttTask].id = req[MqttTask].id)
    PROVE  WayInv'
BY DEF WayInv, Used, NetOwn, InboxOwn, Apart, ReleaseOwn

\* A message that is not one of these makes no difference.
LEMMA WayAppend ==
    ASSUME TypeOK, WayInv, NEW m \in Messages, UNCHANGED <<unanswered, used>>, ~mixed' => ~mixed,
           \/ net' = Append(net, m) /\ inbox' = inbox /\ ~Asks(m)
           \/ net' = net /\ inbox' = Append(inbox, m) /\ ~Brings(m),
           pc'[MqttTask] = pc[MqttTask], req'[MqttTask] = req[MqttTask]
    PROVE  WayInv'
<1>1. net \in Seq(Messages) /\ inbox \in Seq(Messages)
  BY DEF TypeOK
<1>2. \A k \in 1..Len(net)' : Asks(net'[k]) => k \in 1..Len(net) /\ net'[k] = net[k]
  <2>1. CASE net' = net
    BY <2>1
  <2>2. CASE net' = Append(net, m) /\ ~Asks(m)
    <3>1. \A k \in 1..Len(net)' : (k \in 1..Len(net) /\ net'[k] = net[k]) \/ net'[k] = m
      BY <1>1, <2>2
    <3> QED
      BY <2>2, <3>1
  <2> QED
    BY <2>1, <2>2
<1>3. \A k \in 1..Len(inbox)' : Brings(inbox'[k]) => k \in 1..Len(inbox) /\ inbox'[k] = inbox[k]
  <2>1. CASE inbox' = inbox
    BY <2>1
  <2>2. CASE inbox' = Append(inbox, m) /\ ~Brings(m)
    <3>1. \A k \in 1..Len(inbox)' : (k \in 1..Len(inbox) /\ inbox'[k] = inbox[k]) \/ inbox'[k] = m
      BY <1>1, <2>2
    <3> QED
      BY <2>2, <3>1
  <2> QED
    BY <2>1, <2>2
<1>4. Used' /\ Fresh'
  BY DEF WayInv, Used, Fresh
<1>5. NetOwn' /\ InboxOwn' /\ Apart'
  <2>1. NetOwn'
    BY <1>2 DEF WayInv, NetOwn
  <2>2. InboxOwn'
    BY <1>3 DEF WayInv, InboxOwn
  <2>3. Apart'
    BY <1>2, <1>3 DEF WayInv, Apart
  <2> QED
    BY <2>1, <2>2, <2>3
<1>6. ReleaseOwn'
  BY <1>2, <1>3 DEF WayInv, ReleaseOwn, Releases
<1> QED
  BY <1>4, <1>5, <1>6 DEF WayInv

\* What the task writes: a request that is new, or PUBREL in place of PUBREC.
LEMMA WayWrite ==
    ASSUME TypeOK, BufferInv, WayInv, NEW t \in Tasks, Write(t)
    PROVE  WayInv'
<1> USE SessionAssumption
<1>0. /\ net \in Seq(Messages) /\ outbound \in Messages
      /\ pc \in [Tasks -> {"idle", "enqueue", "build", "note", "write"}] /\ req \in [Tasks -> Messages]
      /\ MqttTask \in Tasks
  BY DEF TypeOK, Tasks
<1>1. /\ pc[t] = "write" /\ UNCHANGED <<inbox, used, mixed>>
      /\ req' = [req EXCEPT ![t] = NoMsg] /\ pc' = [pc EXCEPT ![t] = "idle"]
  BY DEF Write
<1>2. ~mixed => outbound = req[t]
  BY <1>1 DEF BufferInv, OwnBuffer
<1>3. CASE mixed
  BY <1>1, <1>3 DEF WayInv, Used, Fresh, NetOwn, InboxOwn, Apart, ReleaseOwn
<1>4. CASE ~mixed /\ UNCHANGED <<net, unanswered>>
  <2>1. Fresh' /\ (Releases' => Releases /\ req'[MqttTask].id = req[MqttTask].id)
    BY <1>0, <1>1, <1>4 DEF WayInv, Fresh, Releases
  <2> QED
    BY <1>1, <1>4, <2>1, WayQuiet
<1>5. CASE /\ ~mixed /\ net' = Append(net, outbound)
           /\ unanswered' = IF Tracked(outbound) THEN unanswered \cup {outbound.id} ELSE unanswered
  <2>1. CASE t # MqttTask
    <3>1. ~Asks(outbound)
      BY <1>2, <1>5, <2>1 DEF Asks, BufferInv, PlainApps, Tasks
    <3>2. ~Tracked(outbound)
      BY <3>1 DEF Asks
    <3>3. pc'[MqttTask] = pc[MqttTask] /\ req'[MqttTask] = req[MqttTask]
      BY <1>0, <1>1, <2>1
    <3> QED
      BY <1>0, <1>1, <1>5, <3>1, <3>2, <3>3, WayAppend
  <2>2. CASE t = MqttTask
    <3> DEFINE new == outbound.id
    <3>1. outbound = req[MqttTask] /\ pc'[MqttTask] = "idle"
      BY <1>0, <1>1, <1>2, <1>5, <2>2
    <3>2. Used' /\ Fresh' /\ ReleaseOwn'
      BY <1>0, <1>1, <1>5, <2>2, <3>1 DEF WayInv, Used, Fresh, ReleaseOwn, Releases
    <3>3. unanswered \subseteq unanswered'
      BY <1>5
    <3>4. Asks(outbound) =>
            /\ new \in unanswered'
            /\ \A i \in 1..Len(net) : Asks(net[i]) => net[i].id # new
            /\ \A i \in 1..Len(inbox) : Brings(inbox[i]) => inbox[i].id # new
      <4>1. CASE Tracked(outbound)
        BY <1>1, <1>5, <2>2, <3>1, <4>1 DEF WayInv, Fresh, NetOwn, InboxOwn
      <4>2. CASE outbound.type = "PUBREL"
        BY <1>1, <1>5, <2>2, <3>1, <3>3, <4>2 DEF WayInv, ReleaseOwn, Releases
      <4> QED
        BY <4>1, <4>2 DEF Asks
    <3>5. \A k \in 1..Len(net)' : (k \in 1..Len(net) /\ net'[k] = net[k])
                                  \/ (k = Len(net) + 1 /\ net'[k] = outbound)
      BY <1>0, <1>5
    <3> HIDE DEF new
    <3>6. NetOwn'
      <4> SUFFICES ASSUME NEW i \in 1..Len(net)', Asks(net'[i])
                   PROVE  /\ net'[i].id \in unanswered'
                          /\ \A j \in 1..Len(net)' : j # i /\ Asks(net'[j]) => net'[j].id # net'[i].id
        BY DEF NetOwn
      <4>1. CASE i \in 1..Len(net) /\ net'[i] = net[i]
        BY <1>5, <3>3, <3>4, <3>5, <4>1 DEF WayInv, NetOwn, new
      <4>2. CASE i = Len(net) + 1 /\ net'[i] = outbound
        BY <3>4, <3>5, <4>2 DEF new
      <4> QED
        BY <3>5, <4>1, <4>2
    <3>7. InboxOwn'
      BY <1>1, <1>5, <3>3 DEF WayInv, InboxOwn
    <3>8. Apart'
      BY <1>1, <1>5, <3>4, <3>5 DEF WayInv, Apart, new
    <3> QED
      BY <3>2, <3>6, <3>7, <3>8 DEF WayInv
  <2> QED
    BY <2>1, <2>2
<1> QED
  BY <1>3, <1>4, <1>5 DEF Write


\* What a read brings is no longer under way.
LEMMA WayReceive ==
    ASSUME TypeOK, WayInv, NEW n \in 1..Len(inbox), Receive(n)
    PROVE  WayInv'
<1> DEFINE answered == {inbox[i].id : i \in {j \in 1..n : inbox[j].type \in DOMAIN AckOf}}
           m == inbox[1]
<1>0. /\ inbox \in Seq(Messages) /\ n \in Nat /\ n >= 1 /\ n <= Len(inbox) /\ 1 \in 1..Len(inbox)
      /\ pc \in [Tasks -> {"idle", "enqueue", "build", "note", "write"}] /\ req \in [Tasks -> Messages]
      /\ MqttTask \in Tasks
  BY DEF TypeOK, Tasks
<1>1. /\ pc[MqttTask] = "idle" /\ UNCHANGED <<net, used, mixed>>
      /\ inbox' = SubSeq(inbox, n + 1, Len(inbox))
      /\ unanswered' = unanswered \ answered
      /\ IF ReplyTo(m) = NoMsg THEN UNCHANGED <<pc, req>>
         ELSE /\ pc' = [pc EXCEPT ![MqttTask] = "build"]
              /\ req' = [req EXCEPT ![MqttTask] = ReplyTo(m)]
  BY DEF Receive
<1>2. CASE mixed
  BY <1>1, <1>2 DEF WayInv, Used, Fresh, NetOwn, InboxOwn, Apart, ReleaseOwn
<1>3. CASE ~mixed
  <2>1. \A k \in 1..Len(inbox)' : /\ n + k \in 1..Len(inbox) /\ n + k > n
                                  /\ inbox'[k] = inbox[n + k]
    BY <1>0, <1>1
  <2>2. \A x \in answered : \E i \in 1..n : inbox[i].id = x /\ Brings(inbox[i]) /\ inbox[i].type # "PUBREC"
    BY DEF AckOf, Brings
  <2>3. \A i \in 1..n : i \in 1..Len(inbox)
    BY <1>0
  <2> HIDE DEF answered
  <2>4. Used'
    BY <1>1, <1>3 DEF WayInv, Used
  <2>5. Fresh'
    BY <1>0, <1>1 DEF Fresh
  <2>6. NetOwn'
    <3>1. \A i \in 1..Len(net) : Asks(net[i]) => net[i].id \notin answered
      BY <1>3, <2>2, <2>3 DEF WayInv, Apart
    <3> QED
      BY <1>1, <1>3, <3>1 DEF WayInv, NetOwn
  <2>7. InboxOwn'
    <3>1. \A k \in 1..Len(inbox)' : Brings(inbox'[k]) => inbox'[k].id \notin answered
      <4> SUFFICES ASSUME NEW k \in 1..Len(inbox)', Brings(inbox'[k]), NEW i \in 1..n,
                          Brings(inbox[i])
                   PROVE  inbox[i].id # inbox'[k].id
        BY <2>2
      <4>1. n + k # i
        BY <1>0, <2>1
      <4> QED
        BY <1>3, <2>1, <2>3, <4>1 DEF WayInv, InboxOwn
    <3>2. \A k \in 1..Len(inbox)' : Brings(inbox'[k]) => inbox'[k].id \in unanswered
      BY <1>3, <2>1 DEF WayInv, InboxOwn
    <3>3. ASSUME NEW i \in 1..Len(inbox)', NEW j \in 1..Len(inbox)', i # j,
                 Brings(inbox'[i]), Brings(inbox'[j])
          PROVE  inbox'[i].id # inbox'[j].id
      <4>1. n + i # n + j
        BY <1>0, <3>3
      <4> QED
        BY <1>3, <2>1, <3>3, <4>1 DEF WayInv, InboxOwn
    <3> QED
      BY <1>1, <3>1, <3>2, <3>3 DEF InboxOwn
  <2>8. Apart'
    BY <1>1, <1>3, <2>1 DEF WayInv, Apart
  <2>9. ReleaseOwn'
    <3> SUFFICES ASSUME Releases'
                 PROVE  /\ req'[MqttTask].id \in unanswered'
                        /\ \A i \in 1..Len(net) : Asks(net[i]) => net[i].id # req'[MqttTask].id
                        /\ \A i \in 1..Len(inbox)' : Brings(inbox'[i]) => inbox'[i].id # req'[MqttTask].id
      BY <1>1 DEF ReleaseOwn
    <3>1. req'[MqttTask] = ReplyTo(m) /\ ReplyTo(m).type = "PUBREL"
      BY <1>0, <1>1 DEF Releases
    <3>2. m.type = "PUBREC" /\ req'[MqttTask].id = m.id
      BY <3>1 DEF ReplyTo, Msg, NoMsg
    <3>3. Brings(m)
      BY <3>2 DEF Brings
    <3>4. m.id \in unanswered
      BY <1>0, <1>3, <3>3 DEF WayInv, InboxOwn
    <3>5. m.id \notin answered
      <4> SUFFICES ASSUME NEW i \in 1..n, Brings(inbox[i]), inbox[i].type # "PUBREC"
                   PROVE  inbox[i].id # m.id
        BY <2>2
      <4>1. i # 1
        BY <3>2
      <4> QED
        BY <1>0, <1>3, <2>3, <3>3, <4>1 DEF WayInv, InboxOwn
    <3>6. \A i \in 1..Len(net) : Asks(net[i]) => net[i].id # m.id
      BY <1>0, <1>3, <3>3 DEF WayInv, Apart
    <3>7. \A i \in 1..Len(inbox)' : Brings(inbox'[i]) => inbox'[i].id # m.id
      <4> SUFFICES ASSUME NEW i \in 1..Len(inbox)', Brings(inbox'[i]) PROVE inbox'[i].id # m.id
        OBVIOUS
      <4>1. n + i # 1
        BY <1>0, <2>1
      <4> QED
        BY <1>0, <1>3, <2>1, <3>3, <4>1 DEF WayInv, InboxOwn
    <3> QED
      BY <1>1, <3>2, <3>4, <3>5, <3>6, <3>7
  <2> QED
    BY <2>4, <2>5, <2>6, <2>7, <2>8, <2>9 DEF WayInv
<1> QED
  BY <1>2, <1>3

\* The broker's answer takes the place of what it answers.
LEMMA WayAnswer ==
    ASSUME TypeOK, WayInv, BrokerAnswers
    PROVE  WayInv'
<1> DEFINE m == Head(net)
           a == CASE m.type = "SUBSCRIBE"   -> Msg("SUBACK", 0, m.id)
                  [] m.type = "UNSUBSCRIBE" -> Msg("UNSUBACK", 0, m.id)
                  [] m.type = "PUBREC"      -> Msg("PUBREL", 0, m.id)
                  [] m.type = "PINGREQ"     -> Msg("PINGRESP", 0, 0)
                  [] OTHER                  -> ReplyTo(m)
<1>0. /\ net # <<>> /\ net \in Seq(Messages) /\ inbox \in Seq(Messages)
      /\ m = net[1] /\ 1 \in 1..Len(net) /\ m \in Messages
  BY DEF BrokerAnswers, TypeOK
<1>1. /\ net' = Tail(net) /\ UNCHANGED <<unanswered, used, mixed, pc, req>>
      /\ inbox' = IF a = NoMsg THEN inbox ELSE Append(inbox, a)
  BY DEF BrokerAnswers, history
<1>2. Brings(a) => Asks(m) /\ a.id = m.id
  BY DEF Brings, Asks, Tracked, ReplyTo, Msg, NoMsg
<1> HIDE DEF m, a
<1>3. \A k \in 1..Len(net)' : k + 1 \in 1..Len(net) /\ k + 1 # 1 /\ net'[k] = net[k + 1]
  BY <1>0, <1>1
<1>4. \A k \in 1..Len(inbox)' : \/ k \in 1..Len(inbox) /\ inbox'[k] = inbox[k]
                                \/ k = Len(inbox) + 1 /\ inbox'[k] = a
  <2>1. CASE inbox' = inbox
    BY <2>1
  <2>2. CASE inbox' = Append(inbox, a)
    BY <1>0, <2>2
  <2> QED
    BY <1>1, <2>1, <2>2
<1>5. CASE mixed
  BY <1>1, <1>5 DEF WayInv, Used, Fresh, NetOwn, InboxOwn, Apart, ReleaseOwn
<1>6. CASE ~mixed
  <2>1. Brings(a) => /\ a.id \in unanswered
                     /\ \A j \in 1..Len(inbox) : Brings(inbox[j]) => inbox[j].id # a.id
                     /\ \A j \in 1..Len(net)' : Asks(net'[j]) => net'[j].id # a.id
    BY <1>0, <1>2, <1>3, <1>6 DEF WayInv, NetOwn, Apart
  <2>2. Used' /\ Fresh'
    BY <1>1 DEF WayInv, Used, Fresh
  <2>3. NetOwn'
    <3>1. \A i \in 1..Len(net)' : Asks(net'[i]) => net'[i].id \in unanswered
      BY <1>3, <1>6 DEF WayInv, NetOwn
    <3>2. ASSUME NEW i \in 1..Len(net)', NEW j \in 1..Len(net)', i # j, Asks(net'[i]), Asks(net'[j])
          PROVE  net'[i].id # net'[j].id
      <4>1. i + 1 # j + 1
        BY <1>0, <1>1, <3>2
      <4> QED
        BY <1>3, <1>6, <3>2, <4>1 DEF WayInv, NetOwn
    <3> QED
      BY <1>1, <3>1, <3>2 DEF NetOwn
  <2>4. InboxOwn'
    <3>1. \A i \in 1..Len(inbox)' : Brings(inbox'[i]) => inbox'[i].id \in unanswered
      BY <1>4, <1>6, <2>1 DEF WayInv, InboxOwn
    <3>2. ASSUME NEW i \in 1..Len(inbox)', NEW j \in 1..Len(inbox)', i # j,
                 Brings(inbox'[i]), Brings(inbox'[j])
          PROVE  inbox'[i].id # inbox'[j].id
      BY <1>4, <1>6, <2>1, <3>2 DEF WayInv, InboxOwn
    <3> QED
      BY <1>1, <3>1, <3>2 DEF InboxOwn
  <2>5. Apart'
    BY <1>3, <1>4, <1>6, <2>1 DEF WayInv, Apart
  <2>6. ReleaseOwn'
    <3> SUFFICES ASSUME Releases
                 PROVE  /\ req[MqttTask].id \in unanswered
                        /\ \A i \in 1..Len(net)' : Asks(net'[i]) => net'[i].id # req[MqttTask].id
                        /\ \A i \in 1..Len(inbox)' : Brings(inbox'[i]) => inbox'[i].id # req[MqttTask].id
      BY <1>1 DEF ReleaseOwn, Releases
    <3>1. Asks(m) => m.id # req[MqttTask].id
      BY <1>0, <1>6 DEF WayInv, ReleaseOwn
    <3> QED
      BY <1>2, <1>3, <1>4, <1>6, <3>1 DEF WayInv, ReleaseOwn
  <2> QED
    BY <2>2, <2>3, <2>4, <2>5, <2>6 DEF WayInv
<1> QED
  BY <1>5, <1>6


\* Every step of the task, the applications and the broker keeps it.
LEMMA WayStep == TypeOK /\ BufferInv /\ WayInv /\ [Next]_vars => WayInv'
<1> SUFFICES ASSUME TypeOK, BufferInv, WayInv, [Next]_vars PROVE WayInv'
  OBVIOUS
<1>0. /\ pc \in [Tasks -> {"idle", "enqueue", "build", "note", "write"}] /\ req \in [Tasks -> Messages]
      /\ MqttTask \in Tasks /\ AppTasks \subseteq Tasks /\ MqttTask \notin AppTasks
  BY SessionAssumption DEF TypeOK, Tasks
<1>1. ASSUME Connect PROVE WayInv'
  <2>1. UNCHANGED <<net, unanswered, used, pc, req>> /\ (~mixed' => ~mixed)
    BY <1>1 DEF Connect
  <2>2. Fresh' /\ (Releases' => Releases /\ req'[MqttTask].id = req[MqttTask].id)
    BY <2>1 DEF WayInv, Fresh, Releases
  <2>3. CASE inbox' = inbox
    BY <2>1, <2>2, <2>3, WayQuiet
  <2>4. CASE mixed'
    BY <2>1, <2>2, <2>4 DEF WayInv, Used, NetOwn, InboxOwn, Apart, ReleaseOwn
  <2>5. ASSUME ~mixed', NEW m \in Messages, m.type \in {"CONNACK", "REFUSED"}, inbox' = Append(inbox, m)
        PROVE  WayInv'
    <3>1. ~Brings(m)
      BY <2>5 DEF Brings
    <3> QED
      BY <2>1, <2>5, <3>1, WayAppend
  <2> QED
    BY <1>1, <2>3, <2>4, <2>5, ConnectInbox
<1>2. ASSUME Abort PROVE WayInv'
  <2>1. /\ pc[MqttTask] = "idle" /\ net' = <<>> /\ inbox' = <<>> /\ unanswered' = {}
        /\ UNCHANGED <<pc, req, used, mixed>>
    BY <1>2 DEF Abort
  <2> QED
    BY <2>1 DEF WayInv, Used, Fresh, NetOwn, InboxOwn, Apart, ReleaseOwn, Releases
<1>3. ASSUME UNCHANGED <<net, inbox, unanswered, used, mixed, pc, req>> PROVE WayInv'
  <2>1. Fresh' /\ (Releases' => Releases /\ req'[MqttTask].id = req[MqttTask].id)
    BY <1>3 DEF WayInv, Fresh, Releases
  <2> QED
    BY <1>3, <2>1, WayQuiet
<1>4. ASSUME NEW t \in Tasks, NEW m \in Messages, Ask(t, m),
             IF t = MqttTask THEN m.type # "PUBREL" ELSE TRUE
      PROVE  WayInv'
  <2>1. /\ req' = [req EXCEPT ![t] = m]
        /\ pc' = [pc EXCEPT ![t] = IF Tracked(m) THEN "enqueue" ELSE "build"]
        /\ UNCHANGED <<net, inbox, unanswered, used, mixed>>
    BY <1>4 DEF Ask, history
  <2>2. CASE t = MqttTask
    <3>1. Fresh' /\ ~Releases'
      BY <1>0, <1>4, <2>1, <2>2 DEF Fresh, Releases
    <3> QED
      BY <2>1, <3>1, WayQuiet
  <2>3. CASE t # MqttTask
    <3>1. pc'[MqttTask] = pc[MqttTask] /\ req'[MqttTask] = req[MqttTask]
      BY <1>0, <2>1, <2>3
    <3>2. Fresh' /\ (Releases' => Releases /\ req'[MqttTask].id = req[MqttTask].id)
      BY <2>1, <3>1 DEF WayInv, Fresh, Releases
    <3> QED
      BY <2>1, <3>2, WayQuiet
  <2> QED
    BY <2>2, <2>3
<1>5. ASSUME Enqueue PROVE WayInv'
  <2>1. /\ pc[MqttTask] = "enqueue" /\ pc' = [pc EXCEPT ![MqttTask] = "build"]
        /\ UNCHANGED <<net, inbox, unanswered, used, mixed, req>>
    BY <1>5 DEF Enqueue, history
  <2>2. req[MqttTask].type # "PUBREL"
    BY <2>1 DEF BufferInv, OnlyTracked, Tracked
  <2>3. Fresh' /\ ~Releases'
    BY <1>0, <2>1, <2>2 DEF Fresh, Releases
  <2> QED
    BY <2>1, <2>3, WayQuiet
<1>6. ASSUME NEW t \in Tasks, NEW id \in Ids \cup {0}, Build(t, id) PROVE WayInv'
  <2>1. /\ pc[t] = "build" /\ req' = [req EXCEPT ![t].id = id]
        /\ pc' = [pc EXCEPT ![t] = IF Tracked(req[t]) THEN "note" ELSE "write"]
        /\ used' = IF Tracked(req[t]) THEN used \cup {id} ELSE used
        /\ ~Tracked(req[t]) => id = req[t].id
        /\ ~mixed' => ~mixed /\ (Tracked(req[t]) => id \notin used)
        /\ UNCHANGED <<net, inbox, unanswered>>
    BY <1>6 DEF Build
  <2>2. CASE t # MqttTask
    <3>1. pc'[MqttTask] = pc[MqttTask] /\ req'[MqttTask] = req[MqttTask]
      BY <1>0, <2>1, <2>2
    <3>2. used \subseteq used'
      BY <2>1
    <3>3. Fresh'
      <4> SUFFICES ASSUME ~mixed', pc[MqttTask] \in {"note", "write"}, Tracked(req[MqttTask])
                   PROVE  req[MqttTask].id \notin unanswered /\ req[MqttTask].id \in used
        BY <2>1, <3>1, <3>2 DEF Fresh, Tracked
      <4> QED
        BY <2>1 DEF WayInv, Fresh
    <3>4. Releases' => Releases /\ req'[MqttTask].id = req[MqttTask].id
      BY <3>1 DEF Releases
    <3> QED
      BY <2>1, <3>2, <3>3, <3>4, WayQuiet
  <2>3. CASE t = MqttTask
    <3>1. /\ req'[MqttTask].type = req[MqttTask].type /\ req'[MqttTask].qos = req[MqttTask].qos
          /\ req'[MqttTask].id = id
      BY <1>0, <2>1, <2>3 DEF Messages
    <3>2. Tracked(req'[MqttTask]) <=> Tracked(req[MqttTask])
      BY <3>1 DEF Tracked
    <3>3. Fresh'
      BY <2>1, <2>3, <3>1, <3>2 DEF WayInv, Fresh, Used
    <3>4. Releases' => Releases /\ req'[MqttTask].id = req[MqttTask].id
      <4>1. req[MqttTask].type = "PUBREL" => ~Tracked(req[MqttTask])
        BY DEF Tracked
      <4> QED
        BY <2>1, <2>3, <3>1, <4>1 DEF Releases
    <3> QED
      BY <2>1, <3>3, <3>4, WayQuiet
  <2> QED
    BY <2>2, <2>3
<1>7. ASSUME Note PROVE WayInv'
  <2>1. /\ pc[MqttTask] = "note" /\ pc' = [pc EXCEPT ![MqttTask] = "write"]
        /\ UNCHANGED <<net, inbox, unanswered, used, mixed, req>>
    BY <1>7 DEF Note, history
  <2>2. req[MqttTask].type # "PUBREL"
    BY <2>1 DEF BufferInv, OnlyTracked, Tracked
  <2>3. Fresh' /\ ~Releases'
    BY <1>0, <2>1, <2>2 DEF WayInv, Fresh, Releases
  <2> QED
    BY <2>1, <2>3, WayQuiet
<1>8. ASSUME NEW m \in Messages, BrokerSends(m), m.type \in {"PUBLISH", "PINGREQ"} PROVE WayInv'
  <2>1. ~Brings(m)
    BY <1>8 DEF Brings
  <2>2. inbox' = Append(inbox, m) /\ UNCHANGED <<net, unanswered, used, mixed, pc, req>>
    BY <1>8 DEF BrokerSends, history
  <2> QED
    BY <2>1, <2>2, WayAppend
<1>9. ASSUME Reconnect \/ UNCHANGED vars PROVE WayInv'
  BY <1>3, <1>9 DEF Reconnect, vars, history
<1>10. Msg("PUBLISH", 0, 0) \in Messages
  BY DEF Msg, Messages, Types
<1>11. ASSUME NEW t \in AppTasks, Ask(t, Msg("PUBLISH", 0, 0)) PROVE WayInv'
  BY <1>0, <1>4, <1>10, <1>11
<1>12. ASSUME NEW m \in Messages, Ask(MqttTask, m), m.type # "PUBREL" PROVE WayInv'
  BY <1>0, <1>4, <1>12
<1>13. CASE Next
  BY <1>1, <1>2, <1>5, <1>6, <1>7, <1>8, <1>9, <1>11, <1>12, <1>13, NextCases, WayWrite, WayReceive, WayAnswer
<1> QED
  BY <1>9, <1>13

-----------------------------------------------------------------------------
\* The counter covers the unanswered requests and the one about to be written.
Written == pc[MqttTask] = "write" /\ Tracked(req[MqttTask])
Counted ==
    /\ IsFiniteSet(unanswered)
    /\ ~mixed => pendCount >= Cardinality(unanswered) + (IF Written THEN 1 ELSE 0)

LEMMA CountInit == Init => Counted
BY FS_EmptySet DEF Init, Counted, Written, Tasks

\* The counter and the unanswered requests stay as they are.
LEMMA CountQuiet ==
    ASSUME TypeOK, Counted, UNCHANGED <<pendCount, unanswered>>, ~mixed' => ~mixed, Written' => Written
    PROVE  Counted'
<1>1. Cardinality(unanswered) \in Nat
  BY FS_CardinalityType DEF Counted
<1> QED
  BY <1>1 DEF Counted, TypeOK

\* Some answers leave; if one is settled, it leaves too.
LEMMA CountReceive ==
    ASSUME TypeOK, WayInv, Counted, NEW n \in 1..Len(inbox), Receive(n)
    PROVE  Counted'
<1> DEFINE answered == {inbox[i].id : i \in {j \in 1..n : inbox[j].type \in DOMAIN AckOf}}
           m == inbox[1]
<1>0. /\ 1 \in 1..n /\ 1 \in 1..Len(inbox) /\ pendCount \in Nat /\ MqttTask \in Tasks
      /\ pc \in [Tasks -> {"idle", "enqueue", "build", "note", "write"}]
  BY DEF TypeOK, Tasks
<1>1. /\ pc[MqttTask] = "idle" /\ UNCHANGED mixed
      /\ unanswered' = unanswered \ answered
      /\ IF m.type \in DOMAIN AckOf /\ Known(AckOf[m.type], m.id)
         THEN Settle(AckOf[m.type], m.id) ELSE UNCHANGED <<pendCount, outbox>>
      /\ pc'[MqttTask] \in {"idle", "build"}
  BY <1>0 DEF Receive
<1>2. ~Written'
  BY <1>1 DEF Written
<1>3. IsFiniteSet(unanswered) /\ Cardinality(unanswered) \in Nat
  BY FS_CardinalityType DEF Counted
<1>4. /\ IsFiniteSet(unanswered') /\ Cardinality(unanswered') \in Nat
      /\ Cardinality(unanswered') <= Cardinality(unanswered)
  <2>1. unanswered' \subseteq unanswered
    BY <1>1
  <2> QED
    BY <1>3, <2>1, FS_Subset, FS_CardinalityType
<1>5. CASE m.type \in DOMAIN AckOf /\ Known(AckOf[m.type], m.id) /\ ~mixed
  <2>1. pendCount' = pendCount - 1
    BY <1>1, <1>5 DEF Settle
  <2>2. m.id \in unanswered
    BY <1>0, <1>5 DEF WayInv, InboxOwn, Brings, AckOf
  <2>3. m.id \in answered
    BY <1>0, <1>5
  <2>4. Cardinality(unanswered \ {m.id}) = Cardinality(unanswered) - 1 /\ IsFiniteSet(unanswered \ {m.id})
    BY <1>3, <2>2, FS_RemoveElement
  <2>5. Cardinality(unanswered') <= Cardinality(unanswered) - 1
    <3>1. unanswered' \subseteq unanswered \ {m.id}
      BY <1>1, <2>3
    <3> QED
      BY <2>4, <3>1, FS_Subset
  <2> QED
    BY <1>0, <1>2, <1>3, <1>4, <1>5, <2>1, <2>5 DEF Counted
<1>6. CASE UNCHANGED pendCount
  BY <1>0, <1>1, <1>2, <1>3, <1>4, <1>6 DEF Counted
<1>7. CASE mixed
  BY <1>1, <1>4, <1>7 DEF Counted
<1> QED
  BY <1>1, <1>5, <1>6, <1>7

LEMMA CountStep == TypeOK /\ BufferInv /\ WayInv /\ Counted /\ [Next]_vars => Counted'
<1> SUFFICES ASSUME TypeOK, BufferInv, WayInv, Counted, [Next]_vars PROVE Counted'
  OBVIOUS
<1>0. /\ pc \in [Tasks -> {"idle", "enqueue", "build", "note", "write"}] /\ req \in [Tasks -> Messages]
      /\ MqttTask \in Tasks /\ AppTasks \subseteq Tasks /\ MqttTask \notin AppTasks /\ pendCount \in Nat
  BY SessionAssumption DEF TypeOK, Tasks
<1>00. IsFiniteSet(unanswered) /\ Cardinality(unanswered) \in Nat
  BY FS_CardinalityType DEF Counted
<1>1. ASSUME Connect \/ Reconnect \/ BrokerAnswers \/ UNCHANGED vars PROVE Counted'
  <2>1. UNCHANGED <<pendCount, unanswered, pc, req>> /\ (~mixed' => ~mixed)
    <3>1. CASE Connect
      BY <3>1 DEF Connect
    <3>2. CASE Reconnect
      BY <3>2 DEF Reconnect, pendVars, history
    <3>3. CASE BrokerAnswers
      BY <3>3 DEF BrokerAnswers, pendVars, history
    <3>4. CASE UNCHANGED vars
      BY <3>4 DEF vars, pendVars, history
    <3> QED
      BY <1>1, <3>1, <3>2, <3>3, <3>4
  <2> QED
    BY <2>1, CountQuiet DEF Written
<1>2. ASSUME Abort PROVE Counted'
  <2>1. unanswered' = {} /\ pc'[MqttTask] = "idle" /\ UNCHANGED pendCount
    BY <1>2 DEF Abort, pendVars
  <2> QED
    BY <1>0, <2>1, FS_EmptySet DEF Counted, Written
<1>3. ASSUME NEW t \in Tasks, NEW m \in Messages, Ask(t, m) PROVE Counted'
  <2>1. /\ UNCHANGED <<pendCount, unanswered, mixed>>
        /\ pc' = [pc EXCEPT ![t] = IF Tracked(m) THEN "enqueue" ELSE "build"]
        /\ req' = [req EXCEPT ![t] = m]
    BY <1>3 DEF Ask, pendVars, history
  <2>2. Written' => Written
    BY <1>0, <2>1 DEF Written
  <2> QED
    BY <2>1, <2>2, CountQuiet
<1>4. ASSUME Enqueue PROVE Counted'
  <2>1. UNCHANGED <<pendCount, unanswered, mixed>> /\ pc' = [pc EXCEPT ![MqttTask] = "build"]
    BY <1>4 DEF Enqueue, history
  <2>2. ~Written'
    BY <1>0, <2>1 DEF Written
  <2> QED
    BY <2>1, <2>2, CountQuiet
<1>5. ASSUME NEW t \in Tasks, NEW id \in Ids \cup {0}, Build(t, id) PROVE Counted'
  <2>1. /\ UNCHANGED <<pendCount, unanswered>> /\ (~mixed' => ~mixed)
        /\ req' = [req EXCEPT ![t].id = id]
        /\ pc' = [pc EXCEPT ![t] = IF Tracked(req[t]) THEN "note" ELSE "write"]
    BY <1>5 DEF Build
  <2>2. Tracked(req'[MqttTask]) <=> Tracked(req[MqttTask])
    <3>1. /\ req'[MqttTask].type = req[MqttTask].type
          /\ req'[MqttTask].qos = req[MqttTask].qos
      BY <1>0, <2>1 DEF Messages
    <3> QED
      BY <3>1 DEF Tracked
  <2>3. Written' => Written
    BY <1>0, <2>1, <2>2 DEF Written
  <2> QED
    BY <2>1, <2>3, CountQuiet
<1>6. ASSUME Note PROVE Counted'
  <2>1. pc[MqttTask] = "note" /\ pendCount' = pendCount + 1 /\ UNCHANGED <<unanswered, mixed>>
    BY <1>6 DEF Note, history
  <2>2. ~Written
    BY <2>1 DEF Written
  <2> QED
    BY <1>0, <1>00, <2>1, <2>2 DEF Counted
<1>7. ASSUME NEW t \in Tasks, Write(t) PROVE Counted'
  <2>1. /\ pc[t] = "write" /\ UNCHANGED <<pendCount, mixed>>
        /\ pc' = [pc EXCEPT ![t] = "idle"] /\ req' = [req EXCEPT ![t] = NoMsg]
        /\ unanswered' \in {unanswered, IF Tracked(outbound) THEN unanswered \cup {outbound.id} ELSE unanswered}
    BY <1>7 DEF Write
  <2>2. Written' => Written
    BY <1>0, <2>1 DEF Written
  <2>3. CASE UNCHANGED unanswered
    BY <2>1, <2>2, <2>3, CountQuiet
  <2>4. CASE Tracked(outbound) /\ unanswered' = unanswered \cup {outbound.id}
    <3>1. /\ IsFiniteSet(unanswered') /\ Cardinality(unanswered') \in Nat
          /\ Cardinality(unanswered') <= Cardinality(unanswered) + 1
      <4> DEFINE S == unanswered \cup {outbound.id}
      <4>1. /\ IsFiniteSet(S)
            /\ Cardinality(S) = Cardinality(unanswered) \/ Cardinality(S) = Cardinality(unanswered) + 1
        BY <1>00, FS_AddElement
      <4>2. unanswered' = S
        BY <2>4
      <4> HIDE DEF S
      <4> QED
        BY <1>00, <4>1, <4>2
    <3>2. ~mixed => Written /\ ~Written'
      <4> SUFFICES ASSUME ~mixed PROVE Written /\ ~Written'
        OBVIOUS
      <4>1. outbound = req[t]
        BY <2>1 DEF BufferInv, OwnBuffer
      <4>2. t = MqttTask
        BY <2>4, <4>1 DEF BufferInv, PlainApps, Tasks
      <4> QED
        BY <1>0, <2>1, <2>4, <4>1, <4>2 DEF Written
    <3> QED
      BY <1>0, <1>00, <2>1, <3>1, <3>2 DEF Counted
  <2> QED
    BY <2>1, <2>3, <2>4
<1>8. ASSUME NEW m \in Messages, BrokerSends(m) PROVE Counted'
  <2>1. UNCHANGED <<pendCount, unanswered, pc, req, mixed>>
    BY <1>8 DEF BrokerSends, pendVars, history
  <2> QED
    BY <2>1, CountQuiet DEF Written
<1>9. Msg("PUBLISH", 0, 0) \in Messages
  BY DEF Msg, Messages, Types
<1>10. CASE Next
  BY <1>0, <1>1, <1>2, <1>3, <1>4, <1>5, <1>6, <1>7, <1>8, <1>9, <1>10, NextCases, CountReceive
<1> QED
  BY <1>1, <1>10

\* While a request is unanswered the counter lets its answer in.
THEOREM AnswersCorrect == Spec => []AnswersCounted
<1>1. TypeOK /\ Counted => AnswersCounted
  <2> SUFFICES ASSUME TypeOK, Counted, unanswered # {}, ~mixed PROVE pendCount > 0
    BY DEF AnswersCounted
  <2>1. Cardinality(unanswered) \in Nat /\ Cardinality(unanswered) # 0
    BY FS_EmptySet, FS_CardinalityType DEF Counted
  <2>2. pendCount >= Cardinality(unanswered)
    BY <2>1 DEF Counted, TypeOK
  <2> QED
    BY <2>1, <2>2 DEF TypeOK
<1> QED
  BY <1>1, BufferInit, BufferStep, WayInit, WayStep, CountInit, CountStep, TypeCorrect, PTL DEF Spec

-----------------------------------------------------------------------------
(* The bytes of the messages *)

\* Bytes, and words of two bytes.
Octet == {n \in Nat : n < 256}
Word == {n \in Nat : n < 65536}

\* A byte of a message, by the index the code uses.
LEMMA AtOctet ==
    ASSUME NEW b \in Seq(Octet), NEW i \in 0..(Len(b) - 1)
    PROVE  At(b, i) = b[i + 1] /\ At(b, i) \in Octet
BY DEF At

\* A remaining length of one byte is read (mqtt_get_total_length).
LEMMA LengthOne ==
    ASSUME NEW b \in Seq(Octet), NEW n \in Nat, Len(b) > 1, LengthEnd(b, n) = 2
    PROVE  TotalLength(b, n) = (At(b, 1) % 128) + 2
<1> DEFINE f(i) == (At(b, i) % 128) * 128 ^ (i - 1)
           S == 1..1
           next(g) == [s \in SUBSET S |-> IF s = {} THEN 0
                                          ELSE f(CHOOSE x \in s : TRUE) + g[s \ {CHOOSE x \in s : TRUE}]]
           g == CHOOSE h : h = next(h)
           w == [s \in SUBSET S |-> IF s = {} THEN 0 ELSE f(1)]
<1>1. MapThenSumSet(f, S) = g[S]
  BY Zenon DEF MapThenSumSet, MapThenFoldSet
<1>2. At(b, 1) \in Octet /\ f(1) \in Int /\ f(1) = At(b, 1) % 128
  <2>1. PICK x \in Octet : x = b[1 + 1]
    OBVIOUS
  <2>2. 1 - 1 = 0 /\ 128 ^ 0 = 1
    OBVIOUS
  <2>3. f(1) = (x % 128) * 128 ^ 0
    BY <2>1, <2>2, Zenon DEF At
  <2>4. f(1) = x % 128
    BY <2>2, <2>3 DEF Octet
  <2> QED
    BY <2>1, <2>4 DEF At, Octet
<1>3. \A s \in SUBSET S : s = {} \/ s = {1}
  <2>1. S = {1}
    OBVIOUS
  <2> QED
    BY <2>1
<1>4. (CHOOSE x \in {1} : TRUE) = 1
  OBVIOUS
<1> HIDE DEF f
<1>5. w = next(w)
  <2>1. ASSUME NEW s \in SUBSET S PROVE w[s] = next(w)[s]
    <3>1. CASE s = {}
      BY <3>1
    <3>2. CASE s = {1}
      <4>1. s \ {1} = {} /\ {} \in SUBSET S /\ w[{}] = 0
        BY <3>2
      <4>2. next(w)[s] = f(1) + w[{}]
        BY <1>4, <3>2, <4>1
      <4> QED
        BY <1>2, <3>2, <4>1, <4>2
    <3> QED
      BY <1>3, <3>1, <3>2
  <2> QED
    BY <2>1
<1>6. g = next(g)
  BY <1>5, Zenon
<1>7. g[S] = f(1)
  <2>1. S = {1} /\ S \ {1} = {} /\ {} \in SUBSET S /\ S \in SUBSET S
    OBVIOUS
  <2>2. next(g)[{}] = 0 /\ next(g)[S] = f(1) + g[{}]
    BY <1>4, <2>1
  <2>3. g[{}] = 0 /\ g[S] = f(1) + g[{}]
    BY <1>6, <2>2
  <2> QED
    BY <1>2, <2>3
<1>8. LengthEnd(b, n) - 1 = 1 /\ f(1) + 2 = (At(b, 1) % 128) + 2
  BY <1>2
<1>9. TotalLength(b, n) = MapThenSumSet(f, S) + 2
  BY <1>8, Zenon DEF TotalLength, f
<1> QED
  BY <1>1, <1>7, <1>8, <1>9

\* A remaining length of two bytes is read.
LEMMA LengthTwo ==
    ASSUME NEW b \in Seq(Octet), NEW n \in Nat, Len(b) > 2, LengthEnd(b, n) = 3
    PROVE  TotalLength(b, n) = (At(b, 1) % 128) + (At(b, 2) % 128) * 128 + 3
<1> DEFINE f(i) == (At(b, i) % 128) * 128 ^ (i - 1)
           S == 1..2
           pick(s) == CHOOSE x \in s : TRUE
           next(g) == [s \in SUBSET S |-> IF s = {} THEN 0 ELSE f(pick(s)) + g[s \ {pick(s)}]]
           g == CHOOSE h : h = next(h)
           w == [s \in SUBSET S |-> (IF 1 \in s THEN f(1) ELSE 0) + (IF 2 \in s THEN f(2) ELSE 0)]
<1>1. MapThenSumSet(f, S) = g[S]
  BY Zenon DEF MapThenSumSet, MapThenFoldSet
<1>2. /\ f(1) \in Int /\ f(1) = At(b, 1) % 128
      /\ f(2) \in Int /\ f(2) = (At(b, 2) % 128) * 128
  <2>1. PICK x \in Octet, y \in Octet : x = b[1 + 1] /\ y = b[2 + 1]
    OBVIOUS
  <2>2. 1 - 1 = 0 /\ 128 ^ 0 = 1 /\ 2 - 1 = 1 /\ 128 ^ 1 = 128
    OBVIOUS
  <2>3. f(1) = (x % 128) * 128 ^ 0 /\ f(2) = (y % 128) * 128 ^ 1
    BY <2>1, <2>2, Zenon DEF At
  <2>4. f(1) = x % 128 /\ f(2) = (y % 128) * 128
    BY <2>2, <2>3 DEF Octet
  <2>5. At(b, 1) = x /\ At(b, 2) = y
    BY <2>1, Zenon DEF At
  <2>6. x % 128 \in Int /\ (y % 128) * 128 \in Int
    BY DEF Octet
  <2> QED
    BY <2>4, <2>5, <2>6, Zenon
<1> HIDE DEF f
<1>3. ASSUME NEW s \in SUBSET S, s # {} PROVE pick(s) \in s
  BY <1>3
<1>5. w = next(w)
  <2>1. ASSUME NEW s \in SUBSET S PROVE w[s] = next(w)[s]
    <3>1. CASE s = {}
      BY <3>1
    <3>2. CASE s # {}
      <4>1. PICK p : p = pick(s)
        OBVIOUS
      <4>2. p \in s /\ (p = 1 \/ p = 2) /\ s \ {p} \in SUBSET S
        <5>1. p \in s
          BY <1>3, <3>2, <4>1, Zenon
        <5> QED
          BY <5>1
      <4>3. next(w)[s] = f(p) + w[s \ {p}]
        BY <3>2, <4>1
      <4> HIDE DEF pick
      <4>4. CASE p = 1
        BY <1>2, <4>2, <4>3, <4>4
      <4>5. CASE p = 2
        BY <1>2, <4>2, <4>3, <4>5
      <4> QED
        BY <4>2, <4>4, <4>5
    <3> QED
      BY <3>1, <3>2
  <2> QED
    BY <2>1
<1>6. g = next(g)
  BY <1>5, Zenon
<1>7. g[S] = f(1) + f(2)
  <2>1. g[{}] = 0
    BY <1>6
  <2>2. ASSUME NEW i \in S PROVE g[{i}] = f(i)
    <3>1. pick({i}) = i /\ {i} \in SUBSET S
      BY <1>3
    <3>2. next(g)[{i}] = f(i) + g[{}]
      <4>1. {i} \ {i} = {}
        OBVIOUS
      <4> QED
        BY <3>1, <4>1
    <3>3. f(i) \in Int
      BY <1>2
    <3>4. g[{i}] = f(i) + g[{}]
      BY <1>6, <3>2, Zenon
    <3> HIDE DEF next, g
    <3> QED
      BY <2>1, <3>3, <3>4
  <2>3. PICK p : p = pick(S)
    OBVIOUS
  <2>4. (p = 1 \/ p = 2) /\ S \in SUBSET S /\ S # {}
    BY <1>3, <2>3
  <2>5. next(g)[S] = f(p) + g[S \ {p}]
    BY <2>3, <2>4
  <2>6. g[S] = f(p) + g[S \ {p}]
    BY <1>6, <2>5
  <2> HIDE DEF pick, next, g
  <2>7. CASE p = 1
    <3>1. S \ {p} = {2} /\ g[{2}] = f(2)
      BY <2>2, <2>7
    <3> QED
      BY <2>6, <2>7, <3>1
  <2>8. CASE p = 2
    <3>1. S \ {p} = {1} /\ g[{1}] = f(1)
      BY <2>2, <2>8
    <3>2. g[S] = f(2) + f(1)
      BY <2>6, <2>8, <3>1
    <3> QED
      BY <1>2, <3>2
  <2> QED
    BY <2>4, <2>7, <2>8
<1>8. LengthEnd(b, n) - 1 = 2 /\ f(1) + f(2) + 3 = (At(b, 1) % 128) + (At(b, 2) % 128) * 128 + 3
  BY <1>2
<1>9. TotalLength(b, n) = MapThenSumSet(f, S) + 3
  BY <1>8, Zenon DEF TotalLength, f
<1> QED
  BY <1>1, <1>7, <1>8, <1>9

\* It ends behind its first byte if that is below 128,
LEMMA EndOne ==
    ASSUME NEW b \in Seq(Octet), NEW n \in 2..Len(b), At(b, 1) < 128
    PROVE  LengthEnd(b, n) = 2
<1> DEFINE last == {i \in 1..n - 1 : At(b, i) < 128}
<1>1. 1 \in last /\ \A i \in last : i >= 1 /\ i \in Int
  OBVIOUS
<1>2. Min(last) = 1
  BY <1>1 DEF Min
<1> QED
  BY <1>1, <1>2 DEF LengthEnd

\* and behind the second if only that is.
LEMMA EndTwo ==
    ASSUME NEW b \in Seq(Octet), NEW n \in 3..Len(b), At(b, 1) >= 128, At(b, 2) < 128
    PROVE  LengthEnd(b, n) = 3
<1> DEFINE last == {i \in 1..n - 1 : At(b, i) < 128}
<1>1. 2 \in last /\ \A i \in last : i >= 2 /\ i \in Int
  <2>1. At(b, 1) \in Int
    BY AtOctet DEF Octet
  <2> QED
    BY <2>1
<1>2. Min(last) = 2
  BY <1>1 DEF Min
<1> QED
  BY <1>1, <1>2 DEF LengthEnd

\* The bytes s lie in m behind its first k.
Shows(m, k, s) == k + Len(s) <= Len(m) /\ \A i \in 1..Len(s) : m[k + i] = s[i]

\* Bytes behind bytes are bytes.
LEMMA Cat ==
    ASSUME NEW s \in Seq(Octet), NEW t \in Seq(Octet)
    PROVE  s \o t \in Seq(Octet) /\ Len(s \o t) = Len(s) + Len(t)
OBVIOUS

\* Bytes that lie in a message can be cut out of it.
LEMMA ShowsPart ==
    ASSUME NEW m \in Seq(Octet), NEW s \in Seq(Octet), NEW k \in Nat, Shows(m, k, s)
    PROVE  SubSeq(m, k + 1, k + Len(s)) = s
<1>1. Len(s) \in Nat /\ Len(m) \in Nat /\ k + Len(s) <= Len(m)
  BY DEF Shows
<1>2. PICK p : p = SubSeq(m, k + 1, k + Len(s))
  OBVIOUS
<1>21. p \in Seq(Octet)
  BY <1>1, <1>2
<1>3. Len(p) = Len(s) /\ \A i \in 1..Len(s) : p[i] = m[k + i]
  BY <1>1, <1>2, <1>21
<1>4. \A i \in 1..Len(s) : p[i] = s[i]
  BY <1>3 DEF Shows
<1>5. p = s
  BY <1>21, <1>3, <1>4
<1> QED
  BY <1>2, <1>5

\* If two pieces lie in a message one behind the other, each lies there.
LEMMA ShowsBoth ==
    ASSUME NEW m \in Seq(Octet), NEW s \in Seq(Octet), NEW t \in Seq(Octet), NEW k \in Nat,
           Shows(m, k, s \o t)
    PROVE  Shows(m, k, s) /\ Shows(m, k + Len(s), t)
<1>1. Len(s) \in Nat /\ Len(t) \in Nat /\ Len(m) \in Nat
  OBVIOUS
<1>2. PICK c : c = s \o t
  OBVIOUS
<1>3. /\ Len(c) = Len(s) + Len(t) /\ \A i \in 1..Len(s) : c[i] = s[i]
      /\ \A i \in 1..Len(t) : c[Len(s) + i] = t[i]
  BY <1>2
<1>4. k + Len(c) <= Len(m) /\ \A i \in 1..Len(c) : m[k + i] = c[i]
  BY <1>2 DEF Shows
<1>5. Shows(m, k, s)
  BY <1>1, <1>3, <1>4 DEF Shows
<1>6. ASSUME NEW i \in 1..Len(t) PROVE m[k + Len(s) + i] = t[i]
  <2>1. PICK j \in 1..Len(c) : j = Len(s) + i
    BY <1>1, <1>3
  <2>2. k + j = k + Len(s) + i
    BY <1>1, <2>1
  <2> QED
    BY <1>3, <1>4, <2>1, <2>2
<1>7. Shows(m, k + Len(s), t)
  <2>1. k + Len(s) + Len(t) <= Len(m)
    BY <1>1, <1>3, <1>4
  <2> QED
    BY <1>6, <2>1, Zenon DEF Shows
<1> QED
  BY <1>5, <1>7

\* A word is written into two bytes.
LEMMA TwoBytes ==
    ASSUME NEW n \in Word
    PROVE  Two(n) \in Seq(Octet) /\ Len(Two(n)) = 2 /\ 256 * Two(n)[1] + Two(n)[2] = n
<1>1. n \div 256 \in Octet /\ n % 256 \in Octet /\ 256 * (n \div 256) + (n % 256) = n
  BY DEF Octet, Word
<1> QED
  BY <1>1 DEF Two

\* A word that lies in a message is read.
LEMMA ShowsTwo ==
    ASSUME NEW m \in Seq(Octet), NEW n \in Word, NEW k \in Nat, Shows(m, k, Two(n))
    PROVE  k + 2 <= Len(m) /\ 256 * At(m, k) + At(m, k + 1) = n
<1>1. PICK b : b = Two(n)
  OBVIOUS
<1>2. b \in Seq(Octet) /\ Len(b) = 2 /\ 256 * b[1] + b[2] = n
  BY <1>1, TwoBytes
<1>3. k + 2 <= Len(m) /\ m[k + 1] = b[1] /\ m[k + 2] = b[2]
  BY <1>1, <1>2 DEF Shows
<1>4. At(m, k) = m[k + 1] /\ At(m, k + 1) = m[k + 2]
  BY <1>3, AtOctet
<1> QED
  BY <1>2, <1>3, <1>4

\* A string is written with its length in front (append_string).
LEMMA StrBytes ==
    ASSUME NEW s \in Seq(Octet), Len(s) \in Word
    PROVE  Str(s) \in Seq(Octet) /\ Len(Str(s)) = Len(s) + 2
<1>1. Len(s) \in Nat
  OBVIOUS
<1>2. PICK b : b = Two(Len(s))
  OBVIOUS
<1>3. b \in Seq(Octet) /\ Len(b) = 2
  BY <1>1, <1>2, TwoBytes
<1>4. b \o s \in Seq(Octet) /\ Len(b \o s) = Len(b) + Len(s)
  BY <1>3, Cat, Zenon
<1>5. Len(b) + Len(s) = Len(s) + 2
  BY <1>1, <1>3
<1> QED
  BY <1>2, <1>4, <1>5, Zenon DEF Str

\* A string that lies in a message is read, and what is behind it is found.
LEMMA ShowsStr ==
    ASSUME NEW m \in Seq(Octet), NEW s \in Seq(Octet), NEW k \in Nat, Len(s) \in Word,
           Shows(m, k, Str(s))
    PROVE  /\ k + 2 + Len(s) <= Len(m) /\ 256 * At(m, k) + At(m, k + 1) = Len(s)
           /\ Behind(m, k) = k + 2 + Len(s) /\ StringAt(m, k) = s
<1>1. Len(s) \in Nat /\ Len(m) \in Nat
  OBVIOUS
<1>2. PICK b : b = Two(Len(s))
  OBVIOUS
<1>21. b \in Seq(Octet) /\ Len(b) = 2
  BY <1>1, <1>2, TwoBytes
<1>3. Shows(m, k, b) /\ Shows(m, k + 2, s)
  <2>1. Shows(m, k, b \o s)
    BY <1>2 DEF Str
  <2>2. Shows(m, k, b) /\ Shows(m, k + Len(b), s)
    BY <1>21, <2>1, ShowsBoth, Zenon
  <2> QED
    BY <1>21, <2>2
<1>4. 256 * At(m, k) + At(m, k + 1) = Len(s) /\ k + 2 <= Len(m)
  BY <1>1, <1>2, <1>3, ShowsTwo
<1>5. Behind(m, k) = k + 2 + Len(s)
  <2>1. At(m, k) \in Octet /\ At(m, k + 1) \in Octet
    BY <1>1, <1>4, AtOctet
  <2>2. PICK x \in Nat, y \in Nat : x = At(m, k) /\ y = At(m, k + 1)
    BY <2>1 DEF Octet
  <2>3. Behind(m, k) = k + 2 + 256 * x + y
    BY <2>2 DEF Behind
  <2>4. 256 * x + y = Len(s)
    BY <1>4, <2>2
  <2> QED
    BY <1>1, <2>3, <2>4
<1>6. PICK j \in Nat : j = k + 2
  OBVIOUS
<1>7. SubSeq(m, j + 1, j + Len(s)) = s
  BY <1>3, <1>6, ShowsPart
<1>8. k + 3 = j + 1 /\ k + 2 + Len(s) = j + Len(s)
  BY <1>1, <1>6
<1>9. StringAt(m, k) = s
  BY <1>5, <1>7, <1>8 DEF StringAt
<1>10. k + 2 + Len(s) <= Len(m)
  BY <1>1, <1>3 DEF Shows
<1> QED
  BY <1>4, <1>5, <1>9, <1>10

\* Lengths that two bytes of seven bits hold.
Sendable == {n \in Nat : n < 16384}

\* What the readers find in front of a message.
Framed(m, type, qos, retain, body) ==
    /\ m \in Seq(Octet)
    /\ LengthEnd(m, Len(m)) \in {2, 3}
    /\ At(m, 1) \in Int
    /\ LengthEnd(m, Len(m)) = 2 <=> At(m, 1) < 128
    /\ LengthEnd(m, Len(m)) = 3 => At(m, 2) < 128
    /\ LengthEnd(m, Len(m)) = 2 <=> Len(body) < 128
    /\ Len(m) = LengthEnd(m, Len(m)) + Len(body)
    /\ TotalLength(m, Len(m)) = Len(m)
    /\ GetType(m) = TypeCode[type] /\ GetQos(m) = qos /\ GetRetain(m) = retain
    /\ Shows(m, LengthEnd(m, Len(m)), body)

\* What the first byte is made of, and what it says.
First(t, q, r) == 16 * t + 2 * q + r
Says(x, t, q, r) == x \in Octet /\ x \div 16 = t /\ (x \div 2) % 4 = q /\ x % 2 = r

\* The first byte of a message says its type, its quality of service and whether to retain it.
LEMMA FirstByte ==
    ASSUME NEW t \in 1..14, NEW q \in 0..3, NEW r \in 0..1
    PROVE  Says(First(t, q, r), t, q, r)
<1> DEFINE x == 16 * t + 2 * q + r
<1>1. x \in Octet /\ x \div 16 = t /\ x % 2 = r
  BY DEF Octet
<1>2. x \div 2 = 8 * t + q
  OBVIOUS
<1>3. (8 * t + q) % 4 = q
  OBVIOUS
<1> QED
  BY <1>1, <1>2, <1>3 DEF First, Says

\* Where the elements of two joined sequences are.
LEMMA CatParts ==
    ASSUME NEW s \in Seq(Octet), NEW t \in Seq(Octet)
    PROVE  /\ \A i \in 1..Len(s) : (s \o t)[i] = s[i]
           /\ \A i \in 1..Len(t) : (s \o t)[Len(s) + i] = t[i]
OBVIOUS

\* The two bytes of a short header.
LEMMA Pair ==
    ASSUME NEW x \in Octet, NEW y \in Octet
    PROVE  /\ << x >> \o << y >> \in Seq(Octet) /\ Len(<< x >> \o << y >>) = 2
           /\ (<< x >> \o << y >>)[1] = x /\ (<< x >> \o << y >>)[2] = y
OBVIOUS

\* The three bytes of a long header.
LEMMA Triple ==
    ASSUME NEW x \in Octet, NEW y \in Octet, NEW z \in Octet
    PROVE  /\ << x >> \o << y, z >> \in Seq(Octet) /\ Len(<< x >> \o << y, z >>) = 3
           /\ (<< x >> \o << y, z >>)[1] = x /\ (<< x >> \o << y, z >>)[2] = y
           /\ (<< x >> \o << y, z >>)[3] = z
OBVIOUS

\* The two bytes of seven bits.
Low(n) == 128 + (n % 128)
High(n) == n \div 128

\* A length that is sendable is written into two bytes of seven bits.
LEMMA Halves ==
    ASSUME NEW n \in Sendable
    PROVE  /\ Low(n) \in Octet /\ High(n) \in Octet /\ Low(n) >= 128 /\ High(n) < 128
           /\ (Low(n) % 128) + (High(n) % 128) * 128 = n
<1> DEFINE lo == 128 + (n % 128)
           hi == n \div 128
<1>1. n \in Nat /\ n < 16384
  BY DEF Sendable
<1>2. PICK r \in Nat : r = n % 128
  BY <1>1
<1>3. r < 128 /\ hi \in Nat /\ n = 128 * hi + r
  BY <1>1, <1>2
<1>4. hi < 128
  BY <1>1, <1>3
<1>5. lo = 128 + r /\ lo % 128 = r /\ hi % 128 = hi
  BY <1>2, <1>3, <1>4
<1> QED
  BY <1>2, <1>3, <1>4, <1>5 DEF Octet, Low, High

\* What fini_message puts in front of a body is what the readers find there.
LEMMA HeaderBytes ==
    ASSUME NEW type, TypeCode[type] \in 1..14, NEW qos \in 0..3, NEW retain \in 0..1,
           NEW body \in Seq(Octet), Len(body) \in Sendable
    PROVE  Framed(FixedHeader(type, qos, retain, Len(body)) \o body, type, qos, retain, body)
<1>1. PICK n \in Nat : n = Len(body)
  OBVIOUS
<1>2. PICK x : x = 16 * TypeCode[type] + 2 * qos + retain
  OBVIOUS
<1>3. x \in Octet /\ x \div 16 = TypeCode[type] /\ (x \div 2) % 4 = qos /\ x % 2 = retain
  <2>1. First(TypeCode[type], qos, retain) = x
    BY <1>2 DEF First
  <2>2. Says(First(TypeCode[type], qos, retain), TypeCode[type], qos, retain)
    BY FirstByte
  <2> QED
    BY <2>1, <2>2 DEF Says
<1>4. PICK h : h = FixedHeader(type, qos, retain, Len(body))
  OBVIOUS
<1>5. PICK m : m = h \o body
  OBVIOUS
<1>6. CASE n < 128
  <2>1. h = << x >> \o << n >>
    BY <1>1, <1>2, <1>4, <1>6 DEF FixedHeader
  <2>2. h \in Seq(Octet) /\ Len(h) = 2 /\ h[1] = x /\ h[2] = n
    <3>1. n \in Octet
      BY <1>6 DEF Octet
    <3> QED
      BY <1>3, <2>1, <3>1, Pair
  <2>3. m \in Seq(Octet) /\ Len(m) = 2 + n /\ m[1] = x /\ m[2] = n /\ \A i \in 1..n : m[2 + i] = body[i]
    <3>1. m \in Seq(Octet) /\ Len(m) = Len(h) + Len(body)
      BY <1>5, <2>2, Cat
    <3>2. /\ \A i \in 1..Len(h) : m[i] = h[i]
          /\ \A i \in 1..Len(body) : m[Len(h) + i] = body[i]
      BY <1>5, <2>2, CatParts
    <3> QED
      BY <1>1, <2>2, <3>1, <3>2
  <2>4. At(m, 0) = x /\ At(m, 1) = n
    BY <1>1, <2>3, AtOctet
  <2>5. LengthEnd(m, Len(m)) = 2
    BY <1>1, <1>6, <2>3, <2>4, EndOne
  <2>6. TotalLength(m, Len(m)) = Len(m)
    <3>1. TotalLength(m, Len(m)) = (n % 128) + 2
      BY <1>1, <2>3, <2>4, <2>5, LengthOne
    <3>2. n % 128 = n
      BY <1>1, <1>6
    <3> QED
      BY <1>1, <2>3, <3>1, <3>2
  <2>7. Shows(m, 2, body)
    BY <1>1, <2>3 DEF Shows
  <2>8. GetType(m) = TypeCode[type] /\ GetQos(m) = qos /\ GetRetain(m) = retain
    BY <1>3, <2>4 DEF GetType, GetQos, GetRetain
  <2>9. Framed(m, type, qos, retain, body)
    BY <1>1, <1>6, <2>3, <2>4, <2>5, <2>6, <2>7, <2>8 DEF Framed
  <2> QED
    BY <1>4, <1>5, <2>9
<1>7. CASE ~(n < 128)
  <2>1. PICK lo, hi : lo = Low(n) /\ hi = High(n)
    OBVIOUS
  <2>2. /\ lo \in Octet /\ hi \in Octet /\ lo >= 128 /\ hi < 128
        /\ (lo % 128) + (hi % 128) * 128 = n
    <3>1. n \in Sendable
      BY <1>1
    <3> QED
      BY <2>1, <3>1, Halves
  <2>3. h = << x >> \o << lo, hi >>
    BY <1>1, <1>2, <1>4, <1>7, <2>1 DEF FixedHeader, Low, High
  <2>4. h \in Seq(Octet) /\ Len(h) = 3 /\ h[1] = x /\ h[2] = lo /\ h[3] = hi
    BY <1>3, <2>2, <2>3, Triple
  <2>5. /\ m \in Seq(Octet) /\ Len(m) = 3 + n /\ m[1] = x /\ m[2] = lo /\ m[3] = hi
        /\ \A i \in 1..n : m[3 + i] = body[i]
    <3>1. m \in Seq(Octet) /\ Len(m) = Len(h) + Len(body)
      BY <1>5, <2>4, Cat
    <3>2. /\ \A i \in 1..Len(h) : m[i] = h[i]
          /\ \A i \in 1..Len(body) : m[Len(h) + i] = body[i]
      BY <1>5, <2>4, CatParts
    <3> QED
      BY <1>1, <2>4, <3>1, <3>2
  <2>6. At(m, 0) = x /\ At(m, 1) = lo /\ At(m, 2) = hi
    BY <1>1, <2>5, AtOctet
  <2>7. LengthEnd(m, Len(m)) = 3
    BY <1>1, <2>2, <2>5, <2>6, EndTwo
  <2>8. TotalLength(m, Len(m)) = Len(m)
    <3>1. TotalLength(m, Len(m)) = (lo % 128) + (hi % 128) * 128 + 3
      BY <1>1, <2>5, <2>6, <2>7, LengthTwo
    <3> QED
      BY <1>1, <2>2, <2>5, <3>1
  <2>9. Shows(m, 3, body)
    BY <1>1, <2>5 DEF Shows
  <2>10. GetType(m) = TypeCode[type] /\ GetQos(m) = qos /\ GetRetain(m) = retain
    BY <1>3, <2>6 DEF GetType, GetQos, GetRetain
  <2>11. Framed(m, type, qos, retain, body)
    <3>1. lo \in Int /\ ~(lo < 128)
      BY <2>2 DEF Octet
    <3> QED
      BY <1>1, <1>7, <2>2, <2>5, <2>6, <2>7, <2>8, <2>9, <2>10, <3>1 DEF Framed
  <2> QED
    BY <1>4, <1>5, <2>11
<1> QED
  BY <1>6, <1>7

\* Buffers that hold no more than three bytes and a sendable length.
Buffers == {n \in Nat : n < 16387}

\* A message that was built is framed, and it is within the buffer.
LEMMA FinishFramed ==
    ASSUME NEW size \in Buffers, NEW type, TypeCode[type] \in 1..14, NEW qos \in 0..3,
           NEW retain \in 0..1, NEW body \in Seq(Octet), NEW m,
           m = Finish(size, type, qos, retain, body), m # Failed
    PROVE  Framed(m, type, qos, retain, body) /\ Len(m) <= size /\ Len(body) \in Sendable
<1>1. ~(3 + Len(body) > size) /\ m = FixedHeader(type, qos, retain, Len(body)) \o body
  BY DEF Finish
<1>2. Len(body) \in Sendable
  <2>1. Len(body) \in Nat
    OBVIOUS
  <2> QED
    BY <1>1, <2>1 DEF Buffers, Sendable
<1>3. Framed(m, type, qos, retain, body)
  BY <1>1, <1>2, HeaderBytes
<1>4. Len(m) <= size
  <2>1. PICK e \in {2, 3}, n \in Nat : n = Len(body) /\ Len(m) = e + n
    BY <1>3 DEF Framed
  <2> QED
    BY <1>1, <2>1 DEF Buffers
<1> QED
  BY <1>2, <1>3, <1>4

\* The same of numbers, before the length of anything is known to fit in two bytes.
LEMMA CatNat ==
    ASSUME NEW s \in Seq(Nat), NEW t \in Seq(Nat)
    PROVE  s \o t \in Seq(Nat) /\ Len(s \o t) = Len(s) + Len(t)
OBVIOUS

\* Bytes are numbers.
LEMMA OctetsNat == ASSUME NEW s \in Seq(Octet) PROVE s \in Seq(Nat) /\ Len(s) \in Nat
BY DEF Octet

\* Whatever number is written into two bytes, there are two.
LEMMA TwoNat == ASSUME NEW n \in Nat PROVE Two(n) \in Seq(Nat) /\ Len(Two(n)) = 2
<1>1. n \div 256 \in Nat /\ n % 256 \in Nat
  OBVIOUS
<1> QED
  BY <1>1 DEF Two

\* A string is longer by two, whatever its length.
LEMMA StrNat == ASSUME NEW s \in Seq(Nat) PROVE Str(s) \in Seq(Nat) /\ Len(Str(s)) = Len(s) + 2
<1>1. PICK b : b = Two(Len(s))
  OBVIOUS
<1>2. b \in Seq(Nat) /\ Len(b) = 2 /\ Len(s) \in Nat
  BY <1>1, TwoNat
<1>3. b \o s \in Seq(Nat) /\ Len(b \o s) = Len(b) + Len(s)
  BY <1>2, CatNat
<1> QED
  BY <1>1, <1>2, <1>3 DEF Str

\* A message that was not refused has a body whose parts have lengths that two bytes hold.
LEMMA FinishFits ==
    ASSUME NEW size \in Buffers, NEW type, NEW qos, NEW retain, NEW body \in Seq(Nat),
           Finish(size, type, qos, retain, body) # Failed
    PROVE  \A n \in Nat : n <= Len(body) => n \in Word
<1>1. 3 + Len(body) <= size /\ Len(body) \in Nat
  <2>1. Len(body) \in Nat
    OBVIOUS
  <2>2. ~(3 + Len(body) > size)
    BY DEF Finish
  <2> QED
    BY <2>1, <2>2 DEF Buffers
<1>2. Len(body) < 65536
  BY <1>1 DEF Buffers
<1> QED
  BY <1>1, <1>2 DEF Word

\* The same part of two sequences that begin alike, and a part of a part.
LEMMA SamePart ==
    ASSUME NEW b \in Seq(Octet), NEW m \in Seq(Octet), NEW n \in Nat, n <= Len(b), n <= Len(m),
           \A j \in 1..n : b[j] = m[j], NEW x \in Nat, x >= 1, NEW y \in Int, y <= n
    PROVE  SubSeq(b, x, y) = SubSeq(m, x, y)
<1>1. PICK p, q : p = SubSeq(b, x, y) /\ q = SubSeq(m, x, y)
  OBVIOUS
<1>2. CASE x <= y
  <2>0. p \in Seq(Octet) /\ q \in Seq(Octet)
    <3>1. p \in Seq(Octet)
      BY <1>1, <1>2
    <3>2. q \in Seq(Octet)
      BY <1>1, <1>2
    <3> QED
      BY <3>1, <3>2
  <2>1. /\ Len(p) = y - x + 1 /\ Len(q) = y - x + 1
        /\ \A j \in 1..(y - x + 1) : p[j] = b[x + j - 1] /\ q[j] = m[x + j - 1]
    BY <1>1, <1>2
  <2>2. \A j \in 1..(y - x + 1) : p[j] = q[j]
    <3> TAKE j \in 1..(y - x + 1)
    <3>1. x + j - 1 \in 1..n
      BY <1>2
    <3> QED
      BY <2>1, <3>1
  <2>3. p = q
    BY <2>0, <2>1, <2>2
  <2> QED
    BY <1>1, <2>3
<1>3. CASE ~(x <= y)
  BY <1>3
<1> QED
  BY <1>2, <1>3

LEMMA CutData ==
    ASSUME NEW m \in Seq(Octet), NEW data \in Seq(Octet), NEW head \in Nat, NEW n \in Nat,
           n <= Len(m), n - head \in 1..Len(data), \A j \in 1..Len(data) : m[head + j] = data[j]
    PROVE  SubSeq(m, head + 1, n) = SubSeq(data, 1, n - head) /\ Len(SubSeq(data, 1, n - head)) = n - head
<1>1. PICK c \in Nat : c = n - head /\ c >= 1 /\ c <= Len(data) /\ n = head + c
  OBVIOUS
<1>2. PICK p, q : p = SubSeq(m, head + 1, n) /\ q = SubSeq(data, 1, c)
  OBVIOUS
<1>21. p \in Seq(Octet)
  <2>1. head + 1 \in Int /\ n \in Int /\ \A k \in (head + 1)..n : k \in 1..Len(m)
    OBVIOUS
  <2>2. \A k \in (head + 1)..n : m[k] \in Octet
    BY <2>1, ElementOfSeq
  <2>3. SubSeq(m, head + 1, n) \in Seq(Octet)
    BY <2>1, <2>2, SubSeqProperties, Zenon
  <2> QED
    BY <1>2, <2>3, Zenon
<1>22. q \in Seq(Octet)
  BY <1>1, <1>2
<1>3. Len(p) = c /\ \A j \in 1..c : p[j] = m[head + j]
  BY <1>1, <1>2
<1>4. Len(q) = c /\ \A j \in 1..c : q[j] = data[j]
  BY <1>1, <1>2
<1>5. p = q
  BY <1>1, <1>21, <1>22, <1>3, <1>4
<1> QED
  BY <1>1, <1>2, <1>4, <1>5

\* What a PUBLISH that was built consists of: the strings and the data behind a
\* header of e bytes, with ids bytes for the id; head bytes are in front of the data.
PublishLies(m, size, topic, data, qos, retain, id, e, ids, head) ==
    /\ m \in Seq(Octet) /\ topic # <<>> /\ Len(topic) \in Word
    /\ ids = IF qos > 0 THEN 2 ELSE 0
    /\ head = e + Len(topic) + 2 + ids /\ Len(m) = head + Len(data) /\ Len(m) <= size
    /\ LengthEnd(m, Len(m)) = e /\ At(m, 1) \in Int
    /\ e = 2 <=> At(m, 1) < 128
    /\ e = 3 => At(m, 2) < 128
    /\ TotalLength(m, Len(m)) = Len(m)
    /\ GetType(m) = TypeCode["PUBLISH"] /\ GetQos(m) = qos /\ GetRetain(m) = retain
    /\ Shows(m, e, Str(topic)) /\ Shows(m, head, data)
    /\ qos > 0 => Shows(m, e + Len(topic) + 2, Two(id))

PublishMade(m, size, topic, data, qos, retain, id) ==
    \E e \in {2, 3}, i \in {0, 2}, head \in Nat :
        PublishLies(m, size, topic, data, qos, retain, id, e, i, head)

LEMMA PublishBytes ==
    ASSUME NEW size \in Buffers, NEW topic \in Seq(Octet), NEW data \in Seq(Octet),
           NEW qos \in 0..2, NEW retain \in 0..1, NEW id \in Word, NEW m,
           m = MsgPublish(size, topic, data, qos, retain, id), m # Failed
    PROVE  PublishMade(m, size, topic, data, qos, retain, id)
<1>1. PICK ids : ids = IF qos > 0 THEN Two(id) ELSE <<>>
  OBVIOUS
<1>2. ids \in Seq(Octet) /\ Len(ids) = IF qos > 0 THEN 2 ELSE 0
  <2>1. Two(id) \in Seq(Octet) /\ Len(Two(id)) = 2
    BY TwoBytes, Zenon
  <2>2. CASE qos > 0
    BY <1>1, <2>1, <2>2
  <2>3. CASE ~(qos > 0)
    BY <1>1, <2>3
  <2> QED
    BY <2>2, <2>3
<1>3. PICK string : string = Str(topic)
  OBVIOUS
<1>4. PICK front : front = string \o ids
  OBVIOUS
<1>5. PICK body : body = front \o data
  OBVIOUS
<1>6. topic # <<>> /\ m = Finish(size, "PUBLISH", qos, retain, body)
  BY <1>1, <1>3, <1>4, <1>5 DEF MsgPublish
<1>7. PICK t \in Nat, d \in Nat : t = Len(topic) /\ d = Len(data)
  OBVIOUS
<1>8. Len(topic) \in Word
  <2>1. topic \in Seq(Nat) /\ ids \in Seq(Nat) /\ data \in Seq(Nat)
    BY <1>2, OctetsNat
  <2>2. string \in Seq(Nat) /\ Len(string) = t + 2
    BY <1>3, <1>7, <2>1, StrNat
  <2>3. front \in Seq(Nat) /\ Len(front) = t + 2 + Len(ids)
    BY <1>4, <2>1, <2>2, CatNat
  <2>4. body \in Seq(Nat) /\ Len(body) = t + 2 + Len(ids) + d
    BY <1>5, <1>7, <2>1, <2>3, CatNat
  <2>5. t <= Len(body)
    BY <1>2, <2>4
  <2> QED
    BY <1>6, <1>7, <2>4, <2>5, FinishFits
<1>9. string \in Seq(Octet) /\ Len(string) = t + 2
  BY <1>3, <1>7, <1>8, StrBytes
<1>10. front \in Seq(Octet) /\ Len(front) = t + 2 + Len(ids)
  BY <1>2, <1>4, <1>9, Cat
<1>11. body \in Seq(Octet) /\ Len(body) = t + 2 + Len(ids) + d
  BY <1>5, <1>7, <1>10, Cat
<1>12. Framed(m, "PUBLISH", qos, retain, body) /\ Len(m) <= size
  <2>1. TypeCode["PUBLISH"] \in 1..14
    BY DEF TypeCode
  <2>2. qos \in 0..3
    OBVIOUS
  <2> QED
    BY <1>6, <1>11, <2>1, <2>2, FinishFramed
<1>13. PICK e \in {2, 3} : e = LengthEnd(m, Len(m))
  BY <1>12 DEF Framed
<1>14. PICK n \in Nat : n = Len(m) /\ n = e + t + 2 + Len(ids) + d
  <2>1. Len(m) = e + Len(body)
    BY <1>12, <1>13, Zenon DEF Framed
  <2>2. e + Len(body) = e + t + 2 + Len(ids) + d /\ e + Len(body) \in Nat
    BY <1>2, <1>11
  <2> QED
    BY <2>1, <2>2
<1>15. /\ m \in Seq(Octet) /\ TotalLength(m, n) = n /\ GetType(m) = TypeCode["PUBLISH"]
       /\ GetQos(m) = qos /\ GetRetain(m) = retain /\ Shows(m, e, body)
  BY <1>12, <1>13, <1>14 DEF Framed
<1>16. Shows(m, e, front) /\ Shows(m, e + Len(front), data)
  BY <1>5, <1>10, <1>15, ShowsBoth
<1>17. Shows(m, e, string) /\ Shows(m, e + Len(string), ids)
  BY <1>2, <1>4, <1>9, <1>15, <1>16, ShowsBoth
<1>18. PICK i \in {0, 2} : i = Len(ids) /\ i = IF qos > 0 THEN 2 ELSE 0
  BY <1>2
<1>19. PICK head \in Nat : head = e + Len(topic) + 2 + i /\ Len(m) = head + Len(data)
  BY <1>7, <1>14, <1>18
<1>20. Shows(m, e, Str(topic))
  BY <1>3, <1>17
<1>21. Shows(m, head, data)
  <2>1. e + Len(front) = head
    BY <1>7, <1>10, <1>18, <1>19
  <2> QED
    BY <1>16, <2>1, Zenon
<1>22. ASSUME qos > 0 PROVE Shows(m, e + Len(topic) + 2, Two(id))
  <2>1. e + Len(string) = e + Len(topic) + 2 /\ ids = Two(id)
    BY <1>1, <1>7, <1>9, <1>22
  <2> QED
    BY <1>17, <2>1, Zenon
<1>23. /\ LengthEnd(m, Len(m)) = e /\ At(m, 1) \in Int /\ (e = 2 <=> At(m, 1) < 128)
       /\ (e = 3 => At(m, 2) < 128) /\ TotalLength(m, Len(m)) = Len(m)
  BY <1>12, <1>13, Zenon DEF Framed
<1>24. PublishLies(m, size, topic, data, qos, retain, id, e, i, head)
  BY <1>6, <1>8, <1>12, <1>15, <1>18, <1>19, <1>20, <1>21, <1>22, <1>23, Zenon DEF PublishLies
<1> QED
  BY <1>24, Zenon DEF PublishMade

\* The beginning of a message tells as much as the whole of it.
LEMMA SameLength ==
    ASSUME NEW m \in Seq(Octet), NEW e \in {2, 3}, LengthEnd(m, Len(m)) = e, At(m, 1) \in Int,
           e = 2 <=> At(m, 1) < 128, e = 3 => At(m, 2) < 128,
           NEW b \in Seq(Octet), NEW n \in Nat, n <= Len(b), n <= Len(m), n > e,
           \A j \in 1..n : b[j] = m[j]
    PROVE  /\ LengthEnd(b, n) = e /\ TotalLength(b, n) = TotalLength(m, Len(m))
           /\ \A j \in 0..n - 1 : At(b, j) = At(m, j)
<1>1. PICK k \in Nat, l \in Nat : k = Len(m) /\ l = Len(b)
  OBVIOUS
<1>2. \A j \in 0..n - 1 : At(b, j) = At(m, j)
  <2> TAKE j \in 0..n - 1
  <2>1. j + 1 \in 1..n
    OBVIOUS
  <2> QED
    BY <2>1 DEF At
<1>3. 1 \in 0..n - 1 /\ 2 \in 0..n - 1
  OBVIOUS
<1>4. At(b, 1) = At(m, 1) /\ At(b, 2) = At(m, 2)
  BY <1>2, <1>3
<1>5. CASE e = 2
  <2>1. LengthEnd(b, n) = 2
    <3>1. n \in 2..Len(b) /\ At(b, 1) < 128
      BY <1>4, <1>5
    <3> QED
      BY <3>1, EndOne
  <2>2. TotalLength(b, n) = (At(b, 1) % 128) + 2
    <3>1. Len(b) > 1
      BY <1>5
    <3> QED
      BY <2>1, <3>1, LengthOne
  <2>3. TotalLength(m, k) = (At(m, 1) % 128) + 2
    <3>1. Len(m) > 1 /\ LengthEnd(m, k) = 2
      BY <1>1, <1>5
    <3> QED
      BY <3>1, LengthOne
  <2>4. TotalLength(b, n) = TotalLength(m, k)
    BY <1>4, <2>2, <2>3, Zenon
  <2> QED
    BY <1>1, <1>2, <1>5, <2>1, <2>4, Zenon
<1>6. CASE e = 3
  <2>0. At(m, 1) >= 128 /\ At(m, 2) < 128
    BY <1>6
  <2>1. LengthEnd(b, n) = 3
    <3>1. n \in 3..Len(b) /\ At(b, 1) >= 128 /\ At(b, 2) < 128
      BY <1>4, <1>6, <2>0
    <3> QED
      BY <3>1, EndTwo
  <2>2. TotalLength(b, n) = (At(b, 1) % 128) + (At(b, 2) % 128) * 128 + 3
    <3>1. Len(b) > 2
      BY <1>6
    <3> QED
      BY <2>1, <3>1, LengthTwo
  <2>3. TotalLength(m, k) = (At(m, 1) % 128) + (At(m, 2) % 128) * 128 + 3
    <3>1. Len(m) > 2 /\ LengthEnd(m, k) = 3
      BY <1>1, <1>6
    <3> QED
      BY <3>1, LengthTwo
  <2>4. TotalLength(b, n) = TotalLength(m, k)
    BY <1>4, <2>2, <2>3, Zenon
  <2> QED
    BY <1>1, <1>2, <1>6, <2>1, <2>4, Zenon
<1> QED
  BY <1>5, <1>6

LEMMA MinOf == ASSUME NEW a \in Int, NEW c \in Int, a <= c
               PROVE  Min({c, a}) = a /\ Min({a, a}) = a
BY DEF Min

\* The buffer b has the first n bytes of the message m.
Begins(b, n, m) ==
    /\ b \in Seq(Octet) /\ n \in Nat /\ n <= Len(b) /\ n <= Len(m)
    /\ \A j \in 1..n : b[j] = m[j]

\* What the readers find in the first n bytes of the PUBLISH m.
Told(b, n, m, topic, data, qos, head, i) ==
    /\ TotalLength(b, n) = Len(m) /\ GetType(b) = TypeCode["PUBLISH"]
    /\ GetQos(b) = qos /\ TopicEnd(b, n) = head - i /\ HasTopic(b, n) /\ HasData(b, n)
    /\ PublishTopic(b, n) = topic /\ PublishData(b, n) = SubSeq(data, 1, n - head)
    /\ Len(PublishData(b, n)) = n - head

\* What a first read that has a part of the data says of it.
LEMMA FirstRead ==
    ASSUME NEW topic \in Seq(Octet), NEW data \in Seq(Octet), NEW size, NEW qos \in 0..2, NEW retain,
           NEW id \in Word, NEW e \in {2, 3}, NEW i \in {0, 2}, NEW m,
           NEW head \in Nat, PublishLies(m, size, topic, data, qos, retain, id, e, i, head),
           NEW b, NEW n, Begins(b, n, m), n > head
    PROVE  Told(b, n, m, topic, data, qos, head, i)
<1>0. /\ b \in Seq(Octet) /\ n \in Nat /\ n <= Len(b) /\ n <= Len(m) /\ n > head
      /\ \A j \in 1..n : b[j] = m[j]
  BY DEF Begins
<1>01. n \in Nat /\ n > head /\ n <= Len(m)
  BY <1>0
<1>1. PICK t \in Nat, d \in Nat, k \in Nat : t = Len(topic) /\ d = Len(data) /\ k = Len(m)
  BY DEF PublishLies
<1>2. /\ m \in Seq(Octet) /\ t \in Word /\ topic # <<>> /\ i = (IF qos > 0 THEN 2 ELSE 0)
      /\ head = e + t + 2 + i /\ k = head + d /\ LengthEnd(m, k) = e /\ TotalLength(m, k) = k
      /\ GetType(m) = TypeCode["PUBLISH"] /\ GetQos(m) = qos
      /\ Shows(m, e, Str(topic)) /\ Shows(m, head, data)
  BY <1>1, Zenon DEF PublishLies
<1>21. m \in Seq(Octet)
  BY <1>2
<1>3. /\ LengthEnd(b, n) = e /\ TotalLength(b, n) = k
      /\ \A j \in 0..n - 1 : At(b, j) = At(m, j)
  <2>1. /\ LengthEnd(m, Len(m)) = e /\ At(m, 1) \in Int /\ (e = 2 <=> At(m, 1) < 128)
        /\ (e = 3 => At(m, 2) < 128)
    BY Zenon DEF PublishLies
  <2>2. n > e
    BY <1>0, <1>1, <1>2
  <2>3. /\ LengthEnd(b, n) = e /\ TotalLength(b, n) = TotalLength(m, Len(m))
        /\ \A j \in 0..n - 1 : At(b, j) = At(m, j)
    BY <1>0, <1>21, <2>1, <2>2, SameLength
  <2> QED
    BY <1>1, <1>2, <2>3, Zenon
<1>4. t > 0
  BY <1>1, <1>2
<1>5. head = e + t + 2 + i /\ e + t + 2 = head - i /\ head + d = k
  BY <1>1, <1>2
<1>6. At(b, 0) = At(m, 0) /\ At(b, e) = At(m, e) /\ At(b, e + 1) = At(m, e + 1)
  <2>1. 0 \in 0..n - 1 /\ e \in 0..n - 1 /\ e + 1 \in 0..n - 1
    <3>1. e \in Nat /\ e + 2 <= head
      BY <1>1, <1>5
    <3> QED
      BY <1>01, <3>1
  <2> QED
    BY <1>3, <2>1
<1>7. GetType(b) = TypeCode["PUBLISH"] /\ GetQos(b) = qos
  BY <1>2, <1>6, Zenon DEF GetType, GetQos
<1>8. Behind(m, e) = e + 2 + t /\ StringAt(m, e) = topic
  <2>1. e \in Nat /\ m \in Seq(Octet) /\ Len(topic) \in Word
    BY <1>1, <1>2
  <2>3. Shows(m, e, Str(topic)) /\ t = Len(topic)
    BY <1>1, <1>2
  <2> QED
    BY <2>1, <2>3, ShowsStr
<1>9. TopicEnd(b, n) = head - i
  <2>1. TopicEnd(b, n) = Behind(m, e)
    BY <1>3, <1>6, Zenon DEF TopicEnd, Behind
  <2>2. e + 2 + t = head - i
    BY <1>1, <1>5
  <2> QED
    BY <1>8, <2>1, <2>2, Zenon
<1>10. HasTopic(b, n)
  <2>1. e + 2 < n
    BY <1>01, <1>1, <1>4, <1>5
  <2> QED
    BY <1>3, <2>1, Zenon DEF HasTopic
<1>11. head - i <= n /\ head - i < n /\ head - i >= e + 2
  BY <1>01, <1>1, <1>4, <1>5
<1>12. PublishTopic(b, n) = topic
  <2>1. PublishTopic(b, n) = SubSeq(b, e + 3, head - i)
    BY <1>3, <1>9, <1>10, <1>11, Zenon DEF PublishTopic
  <2>2. SubSeq(m, e + 3, head - i) = topic
    <3>1. StringAt(m, e) = SubSeq(m, e + 3, e + 2 + t)
      BY <1>8, Zenon DEF StringAt
    <3>2. e + 2 + t = head - i
      BY <1>5
    <3> QED
      BY <1>8, <3>1, <3>2, Zenon
  <2>3. SubSeq(b, e + 3, head - i) = SubSeq(m, e + 3, head - i)
    <3>1. e + 3 \in Nat /\ e + 3 >= 1 /\ head - i \in Int
      OBVIOUS
    <3> QED
      BY <1>0, <1>21, <1>11, <3>1, SamePart
  <2> QED
    BY <2>1, <2>2, <2>3, Zenon
<1>13. DataBegin(b, n) = head
  <2>1. i = 2 <=> qos > 0
    BY <1>2
  <2> QED
    BY <1>7, <1>9, <2>1 DEF DataBegin
<1>14. HasData(b, n)
  <2>1. head <= k
    BY <1>5
  <2> QED
    BY <1>3, <1>9, <1>10, <1>11, <1>13, <2>1 DEF HasData
<1>15. PublishData(b, n) = SubSeq(b, head + 1, n)
  <2>1. Min({k, n}) = n
    <3>1. n \in Int /\ k \in Int /\ n <= k
      BY <1>01, <1>1
    <3> QED
      BY <3>1, MinOf, Zenon
  <2> QED
    BY <1>3, <1>13, <1>14, <2>1, Zenon DEF PublishData
<1>16. SubSeq(b, head + 1, n) = SubSeq(m, head + 1, n)
  <2>1. head + 1 \in Nat /\ head + 1 >= 1 /\ n \in Int /\ n <= n
    BY <1>01
  <2> QED
    BY <1>0, <1>21, <2>1, SamePart
<1>17. SubSeq(m, head + 1, n) = SubSeq(data, 1, n - head) /\ Len(SubSeq(data, 1, n - head)) = n - head
  <2>1. Shows(m, head, data)
    BY <1>2, <1>5, Zenon
  <2>2. \A j \in 1..d : m[head + j] = data[j]
    BY <1>1, <2>1, Zenon DEF Shows
  <2>3. n - head \in 1..d
    BY <1>01, <1>1, <1>5
  <2>4. n - head \in 1..Len(data) /\ \A j \in 1..Len(data) : m[head + j] = data[j]
    BY <1>1, <2>2, <2>3, Zenon
  <2>5. m \in Seq(Octet)
    BY <1>2
  <2> QED
    BY <1>01, <2>4, <2>5, CutData
<1> QED
  BY <1>1, <1>3, <1>7, <1>9, <1>10, <1>12, <1>14, <1>15, <1>16, <1>17, Zenon DEF Told

\* Every PUBLISH that fits in a buffer of less than 16387 bytes, of any topic, data and id, is read
\* back as it was built (mqtt_msg_publish and the mqtt_get_ functions).
THEOREM PublishRead ==
    ASSUME NEW size \in Buffers, NEW topic \in Seq(Octet), NEW data \in Seq(Octet),
           NEW qos \in 0..2, NEW retain \in 0..1, NEW id \in Word
    PROVE  PublishIsRead(size, topic, data, qos, retain, id)
<1>1. PICK m : m = MsgPublish(size, topic, data, qos, retain, id)
  OBVIOUS
<1>2. CASE m = Failed
  BY <1>1, <1>2 DEF PublishIsRead, Fits
<1>3. CASE m # Failed
  <2>1. PICK e \in {2, 3}, i \in {0, 2}, head \in Nat :
               PublishLies(m, size, topic, data, qos, retain, id, e, i, head)
    <3>1. PublishMade(m, size, topic, data, qos, retain, id)
      BY <1>1, <1>3, PublishBytes
    <3> QED
      BY <3>1, Zenon DEF PublishMade
  <2>2. PICK t \in Nat, d \in Nat, n \in Nat : t = Len(topic) /\ d = Len(data) /\ n = Len(m)
    BY <2>1 DEF PublishLies
  <2>3. i = (IF qos > 0 THEN 2 ELSE 0) /\ head = e + t + 2 + i /\ n = head + d
    BY <2>1, <2>2, Zenon DEF PublishLies
  <2>4. /\ m \in Seq(Octet) /\ n <= size /\ LengthEnd(m, n) = e /\ TotalLength(m, n) = n
        /\ GetType(m) = TypeCode["PUBLISH"] /\ GetQos(m) = qos /\ GetRetain(m) = retain
    BY <2>1, <2>2, Zenon DEF PublishLies
  <2>5. ASSUME data # <<>>
        PROVE  /\ PublishTopic(m, n) = topic /\ PublishData(m, n) = data
               /\ GetId(m, n) = IF qos > 0 THEN id ELSE 0
    <3>2. n > head /\ n - head = d /\ n <= n
      BY <2>2, <2>3, <2>5
    <3>3. /\ GetType(m) = TypeCode["PUBLISH"] /\ GetQos(m) = qos
          /\ TopicEnd(m, n) = head - i /\ HasTopic(m, n)
          /\ PublishTopic(m, n) = topic /\ PublishData(m, n) = SubSeq(data, 1, n - head)
      <4>2. Begins(m, n, m) /\ n > head
        BY <2>2, <2>4, <3>2 DEF Begins
      <4>3. Told(m, n, m, topic, data, qos, head, i)
        BY <2>1, <4>2, FirstRead, Zenon
      <4> QED
        BY <4>3, Zenon DEF Told
    <3>4. SubSeq(data, 1, d) = data
      BY <2>2
    <3>5. GetId(m, n) = IF qos > 0 THEN id ELSE 0
      <4>1. ~(n < 1)
        BY <3>2
      <4>2. CASE qos > 0
        <5>1. PICK end \in Nat : end = e + t + 2 /\ end = head - i /\ end + 2 < n
          BY <2>3, <3>2, <4>2
        <5>2. Shows(m, end, Two(id))
          BY <2>1, <2>2, <4>2, <5>1, Zenon DEF PublishLies
        <5>3. 256 * At(m, end) + At(m, end + 1) = id
          BY <2>4, <5>2, ShowsTwo
        <5> QED
          BY <3>3, <4>1, <4>2, <5>1, <5>3, Zenon DEF GetId
      <4>3. CASE ~(qos > 0)
        BY <3>3, <4>1, <4>3, Zenon DEF GetId
      <4> QED
        BY <4>2, <4>3
    <3> QED
      BY <3>2, <3>3, <3>4, <3>5, Zenon
  <2> QED
    BY <1>1, <2>2, <2>4, <2>5, Zenon DEF PublishIsRead, Fits
<1> QED
  BY <1>2, <1>3

\* Every acknowledgement carries the id the answer is looked for with.
LEMMA AckRead ==
    ASSUME NEW size \in Buffers, NEW type \in {"PUBACK", "PUBREC", "PUBREL", "PUBCOMP"}, NEW id \in Word
    PROVE  AckIsRead(size, type, id)
<1>1. PICK m : m = MsgAck(size, type, id)
  OBVIOUS
<1>2. CASE m = Failed
  BY <1>1, <1>2 DEF AckIsRead, Fits
<1>3. CASE m # Failed
  <2>1. PICK qos, body : qos \in 0..3 /\ m = Finish(size, type, qos, 0, body) /\ body = Two(id)
    BY <1>1 DEF MsgAck
  <2>2. body \in Seq(Octet) /\ Len(body) = 2
    BY <2>1, TwoBytes, Zenon
  <2>3. TypeCode[type] \in 4..7 /\ TypeCode["PUBLISH"] = 3
    BY DEF TypeCode
  <2>4. Framed(m, type, qos, 0, body) /\ Len(m) <= size
    <3>1. TypeCode[type] \in 1..14 /\ 0 \in 0..1
      BY <2>3
    <3> QED
      BY <1>3, <2>1, <2>2, <3>1, FinishFramed
  <2>5. /\ m \in Seq(Octet) /\ LengthEnd(m, Len(m)) = 2 /\ At(m, 1) < 128 /\ Len(m) = 4
        /\ TotalLength(m, Len(m)) = Len(m) /\ GetType(m) = TypeCode[type] /\ Shows(m, 2, body)
    BY <2>2, <2>4 DEF Framed
  <2>6. 256 * At(m, 2) + At(m, 3) = id
    BY <2>1, <2>5, ShowsTwo
  <2>7. GetId(m, Len(m)) = id
    BY <2>3, <2>5, <2>6 DEF GetId
  <2> QED
    BY <1>1, <2>4, <2>5, <2>7 DEF AckIsRead, Fits
<1> QED
  BY <1>2, <1>3

\* So does every SUBSCRIBE but one whose remaining length needs two bytes, of any topic.
LEMMA SubscribeRead ==
    ASSUME NEW size \in Buffers, NEW topic \in Seq(Octet), NEW qos \in 0..2, NEW id \in Word
    PROVE  SubscribeIsRead(size, topic, qos, id)
<1>1. PICK m : m = MsgSubscribe(size, topic, qos, id)
  OBVIOUS
<1>2. CASE m = Failed
  BY <1>1, <1>2 DEF SubscribeIsRead, Fits
<1>3. CASE m # Failed
  <2>1. PICK ids, string, front, last, body :
           /\ ids = Two(id) /\ string = Str(topic) /\ front = ids \o string /\ last = << qos >>
           /\ body = front \o last
    OBVIOUS
  <2>2. m = Finish(size, "SUBSCRIBE", 1, 0, body)
    BY <1>1, <1>3, <2>1 DEF MsgSubscribe
  <2>3. ids \in Seq(Octet) /\ Len(ids) = 2
    BY <2>1, TwoBytes, Zenon
  <2>4. last \in Seq(Octet) /\ Len(last) = 1
    BY <2>1 DEF Octet
  <2>5. PICK t \in Nat : t = Len(topic)
    OBVIOUS
  <2>6. t \in Word
    <3>1. topic \in Seq(Nat) /\ ids \in Seq(Nat) /\ last \in Seq(Nat)
      BY <2>3, <2>4, OctetsNat
    <3>2. string \in Seq(Nat) /\ Len(string) = t + 2
      BY <2>1, <2>5, <3>1, StrNat
    <3>3. front \in Seq(Nat) /\ Len(front) = t + 4
      <4>1. front \in Seq(Nat) /\ Len(front) = Len(ids) + Len(string)
        BY <2>1, <3>1, <3>2, CatNat, Zenon
      <4> QED
        BY <2>3, <3>2, <4>1
    <3>4. body \in Seq(Nat) /\ Len(body) = t + 5
      BY <2>1, <2>4, <3>1, <3>3, CatNat
    <3> QED
      BY <1>3, <2>2, <3>4, FinishFits
  <2>7. string \in Seq(Octet) /\ Len(string) = t + 2
    BY <2>1, <2>5, <2>6, StrBytes
  <2>8. front \in Seq(Octet) /\ Len(front) = t + 4
    <3>1. front \in Seq(Octet) /\ Len(front) = Len(ids) + Len(string)
      BY <2>1, <2>3, <2>7, Cat, Zenon
    <3> QED
      BY <2>3, <2>7, <3>1
  <2>9. body \in Seq(Octet) /\ Len(body) = t + 5
    BY <2>1, <2>4, <2>8, Cat
  <2>10. TypeCode["SUBSCRIBE"] = 8 /\ TypeCode["PUBLISH"] = 3
    BY DEF TypeCode
  <2>11. Framed(m, "SUBSCRIBE", 1, 0, body) /\ Len(m) <= size
    <3>1. TypeCode["SUBSCRIBE"] \in 1..14 /\ 0 \in 0..1 /\ 1 \in 0..3
      BY <2>10
    <3> QED
      BY <1>3, <2>2, <2>9, <3>1, FinishFramed
  <2>12. PICK e \in {2, 3} : e = LengthEnd(m, Len(m))
    BY <2>11 DEF Framed
  <2>13. /\ m \in Seq(Octet) /\ At(m, 1) \in Int /\ Len(m) = e + t + 5
         /\ e = 2 <=> At(m, 1) < 128
         /\ e = 2 <=> t + 5 < 128
         /\ TotalLength(m, Len(m)) = Len(m) /\ GetType(m) = 8 /\ Shows(m, e, body)
    BY <2>9, <2>10, <2>11, <2>12 DEF Framed
  <2>14. CASE e = 2
    <3>1. Shows(m, 2, front)
      BY <2>1, <2>4, <2>8, <2>13, <2>14, ShowsBoth
    <3>2. Shows(m, 2, ids)
      BY <2>1, <2>3, <2>7, <2>13, <3>1, ShowsBoth
    <3>3. 256 * At(m, 2) + At(m, 3) = id
      BY <2>1, <2>13, <3>2, ShowsTwo
    <3>4. GetId(m, Len(m)) = id
      BY <2>10, <2>13, <2>14, <3>3 DEF GetId
    <3>5. Len(m) < 130
      BY <2>13, <2>14
    <3> QED
      BY <1>1, <2>11, <2>13, <3>4, <3>5 DEF SubscribeIsRead, Fits
  <2>15. CASE e = 3
    <3>1. GetId(m, Len(m)) = 0
      BY <2>10, <2>13, <2>15 DEF GetId
    <3>2. ~(Len(m) < 130)
      BY <2>13, <2>15
    <3> QED
      BY <1>1, <2>11, <2>13, <3>1, <3>2 DEF SubscribeIsRead, Fits
  <2> QED
    BY <2>14, <2>15
<1> QED
  BY <1>2, <1>3

\* Every UNSUBSCRIBE has the length it states, within the buffer.
LEMMA UnsubscribeRead ==
    ASSUME NEW size \in Buffers, NEW topic \in Seq(Octet), NEW id \in Word
    PROVE  UnsubscribeFits(size, topic, id)
<1>1. PICK m : m = MsgUnsubscribe(size, topic, id)
  OBVIOUS
<1>2. CASE m = Failed
  BY <1>1, <1>2 DEF UnsubscribeFits, Fits
<1>3. CASE m # Failed
  <2>1. PICK ids, string, body : ids = Two(id) /\ string = Str(topic) /\ body = ids \o string
    OBVIOUS
  <2>2. m = Finish(size, "UNSUBSCRIBE", 1, 0, body)
    BY <1>1, <1>3, <2>1 DEF MsgUnsubscribe
  <2>3. ids \in Seq(Octet) /\ Len(ids) = 2
    BY <2>1, TwoBytes, Zenon
  <2>4. PICK t \in Nat : t = Len(topic)
    OBVIOUS
  <2>5. t \in Word
    <3>1. topic \in Seq(Nat) /\ ids \in Seq(Nat)
      BY <2>3, OctetsNat
    <3>2. string \in Seq(Nat) /\ Len(string) = t + 2
      BY <2>1, <2>4, <3>1, StrNat
    <3>3. body \in Seq(Nat) /\ Len(body) = t + 4
      <4>1. body \in Seq(Nat) /\ Len(body) = Len(ids) + Len(string)
        BY <2>1, <3>1, <3>2, CatNat, Zenon
      <4> QED
        BY <2>3, <3>2, <4>1
    <3> QED
      BY <1>3, <2>2, <3>3, FinishFits
  <2>6. string \in Seq(Octet)
    BY <2>1, <2>4, <2>5, StrBytes
  <2>7. body \in Seq(Octet)
    BY <2>1, <2>3, <2>6, Cat
  <2>8. Framed(m, "UNSUBSCRIBE", 1, 0, body) /\ Len(m) <= size
    <3>1. TypeCode["UNSUBSCRIBE"] \in 1..14 /\ 0 \in 0..1 /\ 1 \in 0..3
      BY DEF TypeCode
    <3> QED
      BY <1>3, <2>2, <2>7, <3>1, FinishFramed
  <2> QED
    BY <1>1, <2>8 DEF UnsubscribeFits, Fits, Framed
<1> QED
  BY <1>2, <1>3

\* PINGREQ, PINGRESP and DISCONNECT are two bytes.
LEMMA EmptyRead ==
    ASSUME NEW size \in Buffers, NEW type \in {"PINGREQ", "PINGRESP", "DISCONNECT"}
    PROVE  EmptyFits(size, type)
<1>1. PICK m : m = MsgEmpty(size, type)
  OBVIOUS
<1>2. CASE m = Failed
  BY <1>1, <1>2 DEF EmptyFits, Fits
<1>3. CASE m # Failed
  <2>1. PICK body : body = <<>>
    OBVIOUS
  <2>2. m = Finish(size, type, 0, 0, body)
    BY <1>1, <2>1 DEF MsgEmpty
  <2>3. body \in Seq(Octet) /\ Len(body) = 0
    BY <2>1
  <2>4. Framed(m, type, 0, 0, body) /\ Len(m) <= size
    <3>1. TypeCode[type] \in 1..14 /\ 0 \in 0..1 /\ 0 \in 0..3
      BY DEF TypeCode
    <3> QED
      BY <1>3, <2>2, <2>3, <3>1, FinishFramed
  <2>5. Len(m) = 2 /\ TotalLength(m, Len(m)) = Len(m)
    BY <2>3, <2>4 DEF Framed
  <2> QED
    BY <1>1, <2>4, <2>5 DEF EmptyFits, Fits
<1> QED
  BY <1>2, <1>3

\* What the requests and acknowledgements carry, together.
THEOREM IdsRead ==
    ASSUME NEW size \in Buffers, NEW id \in Word, NEW topic \in Seq(Octet), NEW qos \in 0..2
    PROVE  /\ \A type \in {"PUBACK", "PUBREC", "PUBREL", "PUBCOMP"} : AckIsRead(size, type, id)
           /\ SubscribeIsRead(size, topic, qos, id) /\ UnsubscribeFits(size, topic, id)
           /\ \A type \in {"PINGREQ", "PINGRESP", "DISCONNECT"} : EmptyFits(size, type)
BY AckRead, SubscribeRead, UnsubscribeRead, EmptyRead

\* The flags of a CONNECT as bits: q and r are 0 without a will.
Bits(c, w, q, r, p, u) == 2 * c + 4 * w + 8 * q + 32 * r + 64 * p + 128 * u
BitsRead(f, c, w, q, r, p, u) ==
    /\ f \in Octet
    /\ (f \div 2) % 2 = c /\ (f \div 4) % 2 = w /\ (f \div 8) % 4 = q /\ (f \div 32) % 2 = r
    /\ (f \div 64) % 2 = p /\ (f \div 128) % 2 = u

\* Six flags and their sum say the same.
LEMMA FlagBits ==
    ASSUME NEW c \in 0..1, NEW w \in 0..1, NEW q \in 0..3, NEW r \in 0..1, NEW p \in 0..1, NEW u \in 0..1
    PROVE  BitsRead(Bits(c, w, q, r, p, u), c, w, q, r, p, u)
<1>1. PICK f \in Nat : f = 2 * c + 4 * w + 8 * q + 32 * r + 64 * p + 128 * u
  OBVIOUS
<1>2. f < 256
  BY <1>1
<1>4. f \div 4 = w + 2 * q + 8 * r + 16 * p + 32 * u
  BY <1>1
<1>5. f \div 8 = q + 4 * r + 8 * p + 16 * u
  BY <1>1
<1>6. f \div 32 = r + 2 * p + 4 * u
  BY <1>1
<1>7. f \div 64 = p + 2 * u
  BY <1>1
<1>8. f \div 128 = u
  BY <1>1
<1>9. (f \div 2) % 2 = c
  BY <1>1
<1>10. (f \div 4) % 2 = w
  BY <1>4
<1>11. (f \div 8) % 4 = q
  BY <1>5
<1>12. (f \div 32) % 2 = r /\ (f \div 64) % 2 = p /\ (f \div 128) % 2 = u
  BY <1>6, <1>7, <1>8
<1> QED
  BY <1>1, <1>2, <1>9, <1>10, <1>11, <1>12 DEF Bits, BitsRead, Octet

\* What a configuration may hold.
Infos == [clean : BOOLEAN, willTopic : Seq(Octet), willMessage : Seq(Octet), willQos : 0..3,
          willRetain : BOOLEAN, username : Seq(Octet), password : Seq(Octet), clientId : Seq(Octet),
          keepalive : Word]

\* The flags of it.
Bit(on) == IF on THEN 1 ELSE 0
WillBit(info) == Bit(info.willTopic # <<>>)
WillQos(info) == IF info.willTopic # <<>> THEN info.willQos ELSE 0
WillRetain(info) == IF info.willTopic # <<>> THEN Bit(info.willRetain) ELSE 0

\* The flags of a CONNECT say what is configured.
LEMMA ConnectFlagBits ==
    ASSUME NEW info \in Infos
    PROVE  /\ WillBit(info) \in 0..1 /\ WillQos(info) \in 0..3 /\ WillRetain(info) \in 0..1
           /\ BitsRead(ConnectFlags(info), Bit(info.clean), WillBit(info), WillQos(info), WillRetain(info),
                       Bit(info.password # <<>>), Bit(info.username # <<>>))
<1>1. PICK c \in 0..1, w \in 0..1, q \in 0..3, r \in 0..1, p \in 0..1, u \in 0..1 :
         /\ c = Bit(info.clean) /\ w = WillBit(info) /\ q = WillQos(info) /\ r = WillRetain(info)
         /\ p = Bit(info.password # <<>>) /\ u = Bit(info.username # <<>>)
  <2>1. info.willQos \in 0..3
    BY DEF Infos
  <2> QED
    BY <2>1 DEF Bit, WillBit, WillQos, WillRetain
<1>2. Flag(info.clean, 2) = 2 * c
  BY <1>1 DEF Flag, Bit
<1>3. Flag(info.password # <<>>, 64) = 64 * p /\ Flag(info.username # <<>>, 128) = 128 * u
  BY <1>1 DEF Flag, Bit
<1>4. Flag(info.willTopic # <<>>, 4 + 8 * info.willQos + Flag(info.willRetain, 32)) = 4 * w + 8 * q + 32 * r
  <2>1. CASE info.willTopic # <<>>
    <3>1. w = 1 /\ q = info.willQos /\ r = Bit(info.willRetain)
      BY <1>1, <2>1 DEF Bit, WillBit, WillQos, WillRetain
    <3>2. Flag(info.willRetain, 32) = 32 * r
      BY <3>1 DEF Flag, Bit
    <3>3. Flag(info.willTopic # <<>>, 4 + 8 * info.willQos + Flag(info.willRetain, 32))
            = 4 + 8 * info.willQos + Flag(info.willRetain, 32)
      BY <2>1 DEF Flag
    <3> QED
      BY <3>1, <3>2, <3>3
  <2>2. CASE info.willTopic = <<>>
    BY <1>1, <2>2 DEF Bit, WillBit, WillQos, WillRetain, Flag
  <2> QED
    BY <2>1, <2>2
<1>5. ConnectFlags(info) = Bits(c, w, q, r, p, u)
  BY <1>2, <1>3, <1>4 DEF ConnectFlags, Bits
<1>6. BitsRead(Bits(c, w, q, r, p, u), c, w, q, r, p, u)
  BY FlagBits
<1> QED
  BY <1>1, <1>5, <1>6

\* The parts of a CONNECT, and what they are joined to.
ProtocolName == Str(<<77, 81, 73, 115, 100, 112>>)
Optional(s) == IF s = <<>> THEN <<>> ELSE Str(s)
WillPart(info) == IF info.willTopic = <<>> THEN <<>> ELSE Str(info.willTopic) \o Str(info.willMessage)
FixedPart(info) == ProtocolName \o << 3, ConnectFlags(info) >> \o Two(info.keepalive)
UpToId(info) == FixedPart(info) \o Str(info.clientId)
UpToWill(info) == UpToId(info) \o WillPart(info)
UpToUser(info) == UpToWill(info) \o Optional(info.username)
ConnectBody(info) == UpToUser(info) \o Optional(info.password)

\* A string that is left out if it is empty is not shorter than without its length.
LEMMA OptNat ==
    ASSUME NEW s \in Seq(Nat)
    PROVE  /\ Optional(s) \in Seq(Nat) /\ Len(Optional(s)) = (IF s = <<>> THEN 0 ELSE Len(s) + 2)
           /\ Len(s) <= Len(Optional(s))
<1>1. CASE s = <<>>
  BY <1>1 DEF Optional
<1>2. CASE s # <<>>
  <2>1. PICK b : b = Str(s)
    OBVIOUS
  <2>2. b \in Seq(Nat) /\ Len(b) = Len(s) + 2 /\ Len(s) \in Nat
    BY <2>1, StrNat
  <2>3. Optional(s) = b
    BY <1>2, <2>1 DEF Optional
  <2> QED
    BY <1>2, <2>2, <2>3
<1> QED
  BY <1>1, <1>2

\* It is bytes if its length fits.
LEMMA OptBytes ==
    ASSUME NEW s \in Seq(Octet), Len(s) \in Word
    PROVE  Optional(s) \in Seq(Octet) /\ Len(Optional(s)) = IF s = <<>> THEN 0 ELSE Len(s) + 2
<1>1. CASE s = <<>>
  BY <1>1 DEF Optional
<1>2. CASE s # <<>>
  BY <1>2, StrBytes DEF Optional
<1> QED
  BY <1>1, <1>2

\* The name of the protocol with its length.
LEMMA NameBytes == ProtocolName \in Seq(Octet) /\ Len(ProtocolName) = 8
<1>1. PICK s : s = <<77, 81, 73, 115, 100, 112>>
  OBVIOUS
<1>2. s \in Seq(Octet) /\ Len(s) = 6
  BY <1>1 DEF Octet
<1>3. Len(s) \in Word
  BY <1>2 DEF Word
<1>4. Str(s) \in Seq(Octet) /\ Len(Str(s)) = Len(s) + 2
  BY <1>2, <1>3, StrBytes
<1> QED
  BY <1>1, <1>2, <1>4 DEF ProtocolName

\* The name, the level, the flags and the seconds to keep the client alive are 12 bytes.
LEMMA FixedBytes ==
    ASSUME NEW info \in Infos
    PROVE  FixedPart(info) \in Seq(Octet) /\ Len(FixedPart(info)) = 12
<1>1. PICK levels, alive, names : levels = << 3, ConnectFlags(info) >> /\ alive = Two(info.keepalive)
                                  /\ names = ProtocolName \o levels
  OBVIOUS
<1>2. levels \in Seq(Octet) /\ Len(levels) = 2
  <2>1. ConnectFlags(info) \in Octet
    BY ConnectFlagBits DEF BitsRead
  <2>2. 3 \in Octet
    BY DEF Octet
  <2> QED
    BY <1>1, <2>1, <2>2
<1>3. alive \in Seq(Octet) /\ Len(alive) = 2
  <2>1. info.keepalive \in Word
    BY DEF Infos
  <2> QED
    BY <1>1, <2>1, TwoBytes
<1>4. names \in Seq(Octet) /\ Len(names) = 10
  <2>1. names \in Seq(Octet) /\ Len(names) = Len(ProtocolName) + Len(levels)
    BY <1>1, <1>2, NameBytes, Cat, Zenon
  <2> QED
    BY <1>2, <2>1, NameBytes
<1>5. names \o alive \in Seq(Octet) /\ Len(names \o alive) = Len(names) + Len(alive)
  BY <1>3, <1>4, Cat, Zenon
<1>6. FixedPart(info) = names \o alive
  BY <1>1 DEF FixedPart
<1> QED
  BY <1>3, <1>4, <1>5, <1>6

\* What is behind the fixed part of a CONNECT that was not refused has lengths two bytes hold.
LEMMA ConnectWords ==
    ASSUME NEW size \in Buffers, NEW info \in Infos, Finish(size, "CONNECT", 0, 0, ConnectBody(info)) # Failed
    PROVE  /\ Len(info.clientId) \in Word /\ Len(info.username) \in Word /\ Len(info.password) \in Word
           /\ info.willTopic # <<>> => Len(info.willTopic) \in Word /\ Len(info.willMessage) \in Word
<1>1. /\ info.clientId \in Seq(Nat) /\ info.willTopic \in Seq(Nat) /\ info.willMessage \in Seq(Nat)
      /\ info.username \in Seq(Nat) /\ info.password \in Seq(Nat)
  BY OctetsNat DEF Infos
<1>2. PICK c, w, u, p : /\ c = Str(info.clientId) /\ w = WillPart(info)
                        /\ u = Optional(info.username) /\ p = Optional(info.password)
  OBVIOUS
<1>3. PICK lc \in Nat, lt \in Nat, lm \in Nat, lu \in Nat, lp \in Nat :
        /\ lc = Len(info.clientId) /\ lt = Len(info.willTopic) /\ lm = Len(info.willMessage)
        /\ lu = Len(info.username) /\ lp = Len(info.password)
  <2>1. \A s \in Seq(Nat) : Len(s) \in Nat
    OBVIOUS
  <2> QED
    BY <1>1, <2>1
<1>4. c \in Seq(Nat) /\ Len(c) = lc + 2
  BY <1>1, <1>2, <1>3, StrNat
<1>5. u \in Seq(Nat) /\ lu <= Len(u) /\ p \in Seq(Nat) /\ lp <= Len(p)
  BY <1>1, <1>2, <1>3, OptNat
<1>6. w \in Seq(Nat) /\ (info.willTopic # <<>> => lt <= Len(w) /\ lm <= Len(w))
  <2>1. CASE info.willTopic = <<>>
    BY <1>2, <2>1 DEF WillPart
  <2>2. CASE info.willTopic # <<>>
    <3>1. PICK s, t : s = Str(info.willTopic) /\ t = Str(info.willMessage)
      OBVIOUS
    <3>2. s \in Seq(Nat) /\ Len(s) = lt + 2 /\ t \in Seq(Nat) /\ Len(t) = lm + 2
      BY <1>1, <1>3, <3>1, StrNat
    <3>3. s \o t \in Seq(Nat) /\ Len(s \o t) = Len(s) + Len(t)
      BY <3>2, CatNat, Zenon
    <3>4. w = s \o t
      BY <1>2, <2>2, <3>1 DEF WillPart
    <3> QED
      BY <3>2, <3>3, <3>4
  <2> QED
    BY <2>1, <2>2
<1>7. PICK f, i, o, e, b : f = FixedPart(info) /\ i = f \o c /\ o = i \o w /\ e = o \o u /\ b = e \o p
  OBVIOUS
<1>8. f \in Seq(Nat) /\ Len(f) = 12
  BY <1>7, FixedBytes, OctetsNat
<1>9. i \in Seq(Nat) /\ Len(i) = Len(f) + Len(c)
  BY <1>4, <1>7, <1>8, CatNat, Zenon
<1>10. o \in Seq(Nat) /\ Len(o) = Len(i) + Len(w)
  BY <1>6, <1>7, <1>9, CatNat, Zenon
<1>11. e \in Seq(Nat) /\ Len(e) = Len(o) + Len(u)
  BY <1>5, <1>7, <1>10, CatNat, Zenon
<1>12. b \in Seq(Nat) /\ Len(b) = Len(e) + Len(p)
  BY <1>5, <1>7, <1>11, CatNat, Zenon
<1>13. b = ConnectBody(info)
  BY <1>2, <1>7, Zenon DEF ConnectBody, UpToUser, UpToWill, UpToId
<1>14. \A n \in Nat : n <= Len(b) => n \in Word
  BY <1>12, <1>13, FinishFits
<1>15. lc <= Len(b) /\ lu <= Len(b) /\ lp <= Len(b) /\ (info.willTopic # <<>> => lt <= Len(b) /\ lm <= Len(b))
  <2>1. PICK nw \in Nat, nu \in Nat, np \in Nat : nw = Len(w) /\ nu = Len(u) /\ np = Len(p)
    BY <1>5, <1>6
  <2>2. Len(b) = lc + nw + nu + np + 14
    BY <1>4, <1>8, <1>9, <1>10, <1>11, <1>12, <2>1
  <2>3. lu <= nu /\ lp <= np /\ (info.willTopic # <<>> => lt <= nw /\ lm <= nw)
    BY <1>5, <1>6, <2>1
  <2> QED
    BY <2>2, <2>3
<1> QED
  BY <1>3, <1>14, <1>15, Zenon

\* Where the parts of a CONNECT lie in a message.
Lies(m, k, info) ==
    /\ Shows(m, k, FixedPart(info)) /\ Shows(m, k + 12, Str(info.clientId))
    /\ Shows(m, k + Len(UpToId(info)), WillPart(info))
    /\ Shows(m, k + Len(UpToWill(info)), Optional(info.username))
    /\ Shows(m, k + Len(UpToUser(info)), Optional(info.password))

\* The two strings of a will.
LEMMA WillBytes ==
    ASSUME NEW info \in Infos,
           info.willTopic # <<>> => Len(info.willTopic) \in Word /\ Len(info.willMessage) \in Word
    PROVE  /\ WillPart(info) \in Seq(Octet)
           /\ Len(WillPart(info)) = IF info.willTopic = <<>> THEN 0
                                ELSE Len(info.willTopic) + Len(info.willMessage) + 4
<1>1. CASE info.willTopic = <<>>
  BY <1>1 DEF WillPart
<1>2. CASE info.willTopic # <<>>
  <2>1. PICK s, t : s = Str(info.willTopic) /\ t = Str(info.willMessage)
    OBVIOUS
  <2>2. info.willTopic \in Seq(Octet) /\ info.willMessage \in Seq(Octet)
    BY DEF Infos
  <2>3. /\ s \in Seq(Octet) /\ Len(s) = Len(info.willTopic) + 2
        /\ t \in Seq(Octet) /\ Len(t) = Len(info.willMessage) + 2
    BY <1>2, <2>1, <2>2, StrBytes
  <2>4. s \o t \in Seq(Octet) /\ Len(s \o t) = Len(s) + Len(t)
    BY <2>3, Cat, Zenon
  <2>5. WillPart(info) = s \o t
    BY <1>2, <2>1 DEF WillPart
  <2>6. Len(info.willTopic) \in Nat /\ Len(info.willMessage) \in Nat
    BY <2>2
  <2>7. PICK a \in Nat, b \in Nat : a = Len(info.willTopic) /\ b = Len(info.willMessage)
    BY <2>6
  <2>8. Len(s \o t) = a + b + 4
    <3>1. Len(s) = a + 2 /\ Len(t) = b + 2
      BY <2>3, <2>7
    <3> QED
      BY <2>4, <3>1
  <2> QED
    BY <1>2, <2>4, <2>5, <2>7, <2>8
<1> QED
  BY <1>1, <1>2

\* The lengths the strings of a configuration have.
Short(info) ==
    /\ Len(info.clientId) \in Word /\ Len(info.username) \in Word /\ Len(info.password) \in Word
    /\ info.willTopic # <<>> => Len(info.willTopic) \in Word /\ Len(info.willMessage) \in Word

\* The body of a CONNECT up to each of its strings.
LEMMA BodyBytes ==
    ASSUME NEW info \in Infos, Short(info)
    PROVE  /\ UpToId(info) \in Seq(Octet) /\ Len(UpToId(info)) = Len(info.clientId) + 14
           /\ UpToWill(info) \in Seq(Octet) /\ Len(UpToWill(info)) = Len(UpToId(info)) + Len(WillPart(info))
           /\ UpToUser(info) \in Seq(Octet)
           /\ Len(UpToUser(info)) = Len(UpToWill(info)) + Len(Optional(info.username))
           /\ ConnectBody(info) \in Seq(Octet)
           /\ Len(ConnectBody(info)) = Len(UpToUser(info)) + Len(Optional(info.password))
<1>1. /\ info.clientId \in Seq(Octet) /\ info.username \in Seq(Octet) /\ info.password \in Seq(Octet)
      /\ Len(info.clientId) \in Nat
  <2>1. info.clientId \in Seq(Octet) /\ info.username \in Seq(Octet) /\ info.password \in Seq(Octet)
    BY DEF Infos
  <2> QED
    BY <2>1
<1>2. /\ Len(info.clientId) \in Word /\ Len(info.username) \in Word /\ Len(info.password) \in Word
      /\ info.willTopic # <<>> => Len(info.willTopic) \in Word /\ Len(info.willMessage) \in Word
  BY Zenon DEF Short
<1>3. PICK c, f : c = Str(info.clientId) /\ f = FixedPart(info)
  OBVIOUS
<1>4. c \in Seq(Octet) /\ Len(c) = Len(info.clientId) + 2
  BY <1>1, <1>2, <1>3, StrBytes
<1>5. f \in Seq(Octet) /\ Len(f) = 12
  BY <1>3, FixedBytes
<1>6. UpToId(info) \in Seq(Octet) /\ Len(UpToId(info)) = Len(info.clientId) + 14
  <2>1. f \o c \in Seq(Octet) /\ Len(f \o c) = Len(f) + Len(c)
    BY <1>4, <1>5, Cat, Zenon
  <2>2. UpToId(info) = f \o c
    BY <1>3 DEF UpToId
  <2> QED
    BY <1>1, <1>4, <1>5, <2>1, <2>2
<1>7. WillPart(info) \in Seq(Octet)
  BY <1>2, WillBytes
<1>8. UpToWill(info) \in Seq(Octet) /\ Len(UpToWill(info)) = Len(UpToId(info)) + Len(WillPart(info))
  BY <1>6, <1>7, Cat, Zenon DEF UpToWill
<1>9. Optional(info.username) \in Seq(Octet) /\ Optional(info.password) \in Seq(Octet)
  BY <1>1, <1>2, OptBytes
<1>10. UpToUser(info) \in Seq(Octet) /\ Len(UpToUser(info)) = Len(UpToWill(info)) + Len(Optional(info.username))
  BY <1>8, <1>9, Cat, Zenon DEF UpToUser
<1>11. /\ ConnectBody(info) \in Seq(Octet)
       /\ Len(ConnectBody(info)) = Len(UpToUser(info)) + Len(Optional(info.password))
  BY <1>9, <1>10, Cat, Zenon DEF ConnectBody
<1> QED
  BY <1>6, <1>8, <1>10, <1>11

\* If the body of a CONNECT lies in a message, each part of it does.
LEMMA BodyLies ==
    ASSUME NEW info \in Infos, Short(info), NEW m \in Seq(Octet), NEW k \in Nat, Shows(m, k, ConnectBody(info))
    PROVE  Lies(m, k, info)
<1>1. /\ UpToId(info) \in Seq(Octet) /\ UpToWill(info) \in Seq(Octet) /\ UpToUser(info) \in Seq(Octet)
  BY BodyBytes
<1>2. Optional(info.username) \in Seq(Octet) /\ Optional(info.password) \in Seq(Octet)
  <2>1. /\ info.username \in Seq(Octet) /\ info.password \in Seq(Octet)
        /\ Len(info.username) \in Word /\ Len(info.password) \in Word
    BY DEF Infos, Short
  <2> QED
    BY <2>1, OptBytes
<1>3. WillPart(info) \in Seq(Octet)
  BY WillBytes DEF Short
<1>4. Str(info.clientId) \in Seq(Octet)
  <2>1. info.clientId \in Seq(Octet) /\ Len(info.clientId) \in Word
    BY DEF Infos, Short
  <2> QED
    BY <2>1, StrBytes
<1>5. Shows(m, k, UpToUser(info)) /\ Shows(m, k + Len(UpToUser(info)), Optional(info.password))
  BY <1>1, <1>2, ShowsBoth DEF ConnectBody
<1>6. Shows(m, k, UpToWill(info)) /\ Shows(m, k + Len(UpToWill(info)), Optional(info.username))
  BY <1>1, <1>2, <1>5, ShowsBoth DEF UpToUser
<1>7. Shows(m, k, UpToId(info)) /\ Shows(m, k + Len(UpToId(info)), WillPart(info))
  BY <1>1, <1>3, <1>6, ShowsBoth DEF UpToWill
<1>8. Shows(m, k, FixedPart(info)) /\ Shows(m, k + 12, Str(info.clientId))
  BY <1>4, <1>7, FixedBytes, ShowsBoth DEF UpToId
<1> QED
  BY <1>5, <1>6, <1>7, <1>8 DEF Lies

\* The fixed part is read.
LEMMA FixedRead ==
    ASSUME NEW info \in Infos, NEW m \in Seq(Octet), NEW k \in Nat, Shows(m, k, FixedPart(info))
    PROVE  /\ At(m, k + 9) = ConnectFlags(info)
           /\ 256 * At(m, k + 10) + At(m, k + 11) = info.keepalive
<1>1. PICK levels, alive, names : levels = << 3, ConnectFlags(info) >> /\ alive = Two(info.keepalive)
                                  /\ names = ProtocolName \o levels
  OBVIOUS
<1>2. levels \in Seq(Octet) /\ Len(levels) = 2 /\ levels[2] = ConnectFlags(info)
  <2>1. ConnectFlags(info) \in Octet
    BY ConnectFlagBits DEF BitsRead
  <2>2. 3 \in Octet
    BY DEF Octet
  <2> QED
    BY <1>1, <2>1, <2>2
<1>3. info.keepalive \in Word /\ alive \in Seq(Octet) /\ Len(alive) = 2
  <2>1. info.keepalive \in Word
    BY DEF Infos
  <2> QED
    BY <1>1, <2>1, TwoBytes
<1>4. names \in Seq(Octet) /\ Len(names) = 10
  <2>1. names \in Seq(Octet) /\ Len(names) = Len(ProtocolName) + Len(levels)
    BY <1>1, <1>2, NameBytes, Cat, Zenon
  <2> QED
    BY <1>2, <2>1, NameBytes
<1>5. Shows(m, k, names) /\ Shows(m, k + 10, alive)
  <2>1. Shows(m, k, names \o alive)
    BY <1>1 DEF FixedPart
  <2> QED
    BY <1>3, <1>4, <2>1, ShowsBoth
<1>6. Shows(m, k + 8, levels)
  BY <1>1, <1>2, <1>5, NameBytes, ShowsBoth
<1>7. At(m, k + 9) = ConnectFlags(info)
  <2>1. m[k + 8 + 2] = levels[2]
    BY <1>2, <1>6 DEF Shows
  <2> QED
    BY <1>2, <2>1 DEF At
<1>8. 256 * At(m, k + 10) + At(m, k + 11) = info.keepalive
  <2>1. PICK j \in Nat : j = k + 10
    OBVIOUS
  <2>2. 256 * At(m, j) + At(m, j + 1) = info.keepalive
    BY <1>1, <1>3, <1>5, <2>1, ShowsTwo
  <2> QED
    BY <2>1, <2>2
<1> QED
  BY <1>7, <1>8

\* An optional string is read, if it is there.
LEMMA OptRead ==
    ASSUME NEW m \in Seq(Octet), NEW s \in Seq(Octet), NEW k \in Nat, Len(s) \in Word, Shows(m, k, Optional(s))
    PROVE  /\ s # <<>> => StringAt(m, k) = s /\ Behind(m, k) = k + Len(Optional(s))
           /\ s = <<>> => Len(Optional(s)) = 0
<1>1. CASE s = <<>>
  BY <1>1 DEF Optional
<1>2. CASE s # <<>>
  <2>1. Shows(m, k, Str(s)) /\ Len(Optional(s)) = Len(s) + 2
    BY <1>2, OptBytes DEF Optional
  <2>2. Behind(m, k) = k + 2 + Len(s) /\ StringAt(m, k) = s
    BY <2>1, ShowsStr
  <2>3. Len(s) \in Nat
    OBVIOUS
  <2> QED
    BY <1>2, <2>1, <2>2, <2>3
<1> QED
  BY <1>1, <1>2

\* The two strings of a will are read, if it has one.
LEMMA WillRead ==
    ASSUME NEW info \in Infos, Short(info), NEW m \in Seq(Octet), NEW k \in Nat, Shows(m, k, WillPart(info))
    PROVE  /\ info.willTopic # <<>> => /\ StringAt(m, k) = info.willTopic
                                       /\ StringAt(m, Behind(m, k)) = info.willMessage
                                       /\ Behind(m, Behind(m, k)) = k + Len(WillPart(info))
           /\ info.willTopic = <<>> => Len(WillPart(info)) = 0
<1>1. CASE info.willTopic = <<>>
  BY <1>1 DEF WillPart
<1>2. CASE info.willTopic # <<>>
  <2>1. PICK s, t : s = Str(info.willTopic) /\ t = Str(info.willMessage)
    OBVIOUS
  <2>2. /\ info.willTopic \in Seq(Octet) /\ info.willMessage \in Seq(Octet)
        /\ Len(info.willTopic) \in Word /\ Len(info.willMessage) \in Word
    BY <1>2 DEF Infos, Short
  <2>3. PICK a \in Nat, b \in Nat : a = Len(info.willTopic) /\ b = Len(info.willMessage)
    BY <2>2
  <2>4. s \in Seq(Octet) /\ Len(s) = a + 2 /\ t \in Seq(Octet)
    BY <2>1, <2>2, <2>3, StrBytes
  <2>5. WillPart(info) = s \o t
    BY <1>2, <2>1 DEF WillPart
  <2>6. Shows(m, k, s) /\ Shows(m, k + Len(s), t)
    BY <2>4, <2>5, ShowsBoth
  <2>7. Behind(m, k) = k + 2 + a /\ StringAt(m, k) = info.willTopic
    <3>1. Shows(m, k, Str(info.willTopic))
      BY <2>1, <2>6
    <3>2. PICK x \in Seq(Octet) : x = info.willTopic
      BY <2>2
    <3>3. Len(x) \in Word /\ Shows(m, k, Str(x))
      BY <2>2, <3>1, <3>2
    <3>4. Behind(m, k) = k + 2 + Len(x) /\ StringAt(m, k) = x
      BY <3>3, ShowsStr
    <3> QED
      BY <2>3, <3>2, <3>4
  <2>8. PICK j \in Nat : j = k + 2 + a
    OBVIOUS
  <2>9. Shows(m, j, t)
    <3>1. k + Len(s) = j
      BY <2>4, <2>8
    <3> QED
      BY <2>6, <3>1
  <2>10. Behind(m, j) = j + 2 + b /\ StringAt(m, j) = info.willMessage
    <3>1. Shows(m, j, Str(info.willMessage))
      BY <2>1, <2>9
    <3>2. PICK x \in Seq(Octet) : x = info.willMessage
      BY <2>2
    <3>3. Len(x) \in Word /\ Shows(m, j, Str(x))
      BY <2>2, <3>1, <3>2
    <3>4. Behind(m, j) = j + 2 + Len(x) /\ StringAt(m, j) = x
      BY <3>3, ShowsStr
    <3> QED
      BY <2>3, <3>2, <3>4
  <2>11. Len(WillPart(info)) = a + b + 4
    BY <1>2, <2>2, <2>3, WillBytes
  <2>12. j + 2 + b = k + Len(WillPart(info))
    BY <2>8, <2>11
  <2> QED
    BY <1>2, <2>7, <2>8, <2>10, <2>12
<1> QED
  BY <1>1, <1>2

\* A broker finds in every CONNECT that fits in a buffer of less than 16387 bytes what the client
\* was configured with, whatever that is, and no more (mqtt_msg_connect).
THEOREM ConnectRead ==
    ASSUME NEW size \in Buffers, NEW info \in Infos
    PROVE  ConnectIsRead(size, info)
<1>1. PICK m : m = MsgConnect(size, info)
  OBVIOUS
<1>2. CASE m = Failed
  BY <1>1, <1>2 DEF ConnectIsRead, Fits
<1>3. CASE m # Failed
  <2>1. info.clientId # <<>> /\ m = Finish(size, "CONNECT", 0, 0, ConnectBody(info))
    BY <1>1, <1>3, Zenon DEF MsgConnect, ConnectBody, UpToUser, UpToWill, UpToId,
        FixedPart, ProtocolName, WillPart, Optional
  <2>2. Short(info)
    BY <1>3, <2>1, ConnectWords DEF Short
  <2>3. ConnectBody(info) \in Seq(Octet)
    BY <2>2, BodyBytes
  <2>4. Framed(m, "CONNECT", 0, 0, ConnectBody(info)) /\ Len(m) <= size
    <3>1. TypeCode["CONNECT"] \in 1..14 /\ 0 \in 0..1 /\ 0 \in 0..3
      BY DEF TypeCode
    <3> QED
      BY <1>3, <2>1, <2>3, <3>1, FinishFramed
  <2>5. PICK e \in {2, 3} : e = LengthEnd(m, Len(m))
    BY <2>4 DEF Framed
  <2>6. /\ m \in Seq(Octet) /\ TotalLength(m, Len(m)) = Len(m)
        /\ Shows(m, e, ConnectBody(info)) /\ Len(m) = e + Len(ConnectBody(info))
    BY <2>4, <2>5, Zenon DEF Framed
  <2>7. Lies(m, e, info)
    BY <2>2, <2>5, <2>6, BodyLies
  <2>8. PICK c \in Nat, w \in Nat, u \in Nat, p \in Nat :
          /\ c = Len(info.clientId) /\ w = Len(WillPart(info))
          /\ u = Len(Optional(info.username)) /\ p = Len(Optional(info.password))
    <3>1. info.clientId \in Seq(Octet) /\ WillPart(info) \in Seq(Octet)
      BY <2>2, WillBytes DEF Infos, Short
    <3>2. Optional(info.username) \in Seq(Octet) /\ Optional(info.password) \in Seq(Octet)
      BY <2>2, OptBytes DEF Infos, Short
    <3>3. \A s \in Seq(Octet) : Len(s) \in Nat
      OBVIOUS
    <3> QED
      BY <3>1, <3>2, <3>3
  <2>9. PICK id \in Nat, will \in Nat, user \in Nat, password \in Nat :
          id = e + 12 /\ will = id + 2 + c /\ user = will + w /\ password = user + u
    OBVIOUS
  <2>10. /\ e + Len(UpToId(info)) = will /\ e + Len(UpToWill(info)) = user /\ e + Len(UpToUser(info)) = password
         /\ Len(m) = password + p
    <3>1. Len(UpToId(info)) = c + 14
      BY <2>2, <2>8, BodyBytes
    <3>2. Len(UpToWill(info)) = c + 14 + w
      BY <2>2, <2>8, <3>1, BodyBytes
    <3>3. Len(UpToUser(info)) = c + 14 + w + u
      BY <2>2, <2>8, <3>2, BodyBytes
    <3>4. Len(ConnectBody(info)) = c + 14 + w + u + p
      BY <2>2, <2>8, <3>3, BodyBytes
    <3> QED
      BY <2>6, <2>9, <3>1, <3>2, <3>3, <3>4
  <2>11. FlagsAt(m) = e + 9 /\ IdAt(m) = id
    BY <2>5, <2>9 DEF FlagsAt, IdAt
  <2>12. /\ At(m, FlagsAt(m)) = ConnectFlags(info)
         /\ 256 * At(m, FlagsAt(m) + 1) + At(m, FlagsAt(m) + 2) = info.keepalive
    <3>1. Shows(m, e, FixedPart(info))
      BY <2>7 DEF Lies
    <3>2. /\ At(m, e + 9) = ConnectFlags(info)
          /\ 256 * At(m, e + 10) + At(m, e + 11) = info.keepalive
      BY <2>5, <2>6, <3>1, FixedRead
    <3>3. e + 9 + 1 = e + 10 /\ e + 9 + 2 = e + 11
      OBVIOUS
    <3> QED
      BY <2>11, <3>2, <3>3
  <2>13. StringAt(m, id) = info.clientId /\ WillAt(m) = will
    <3>1. Shows(m, id, Str(info.clientId))
      BY <2>7, <2>9 DEF Lies
    <3>2. info.clientId \in Seq(Octet) /\ Len(info.clientId) \in Word
      BY <2>2 DEF Infos, Short
    <3>3. PICK string \in Seq(Octet) : string = info.clientId
      BY <3>2
    <3>4. m \in Seq(Octet) /\ Len(string) \in Word /\ Shows(m, id, Str(string))
      BY <2>6, <3>1, <3>2, <3>3, Zenon
    <3>5. Behind(m, id) = id + 2 + Len(string) /\ StringAt(m, id) = string
      BY <3>4, ShowsStr
    <3> QED
      BY <2>8, <2>9, <2>11, <3>3, <3>5 DEF WillAt
  <2>14. /\ Has(m, 2) = info.clean /\ (Has(m, 4) <=> info.willTopic # <<>>)
         /\ (Has(m, 64) <=> info.password # <<>>) /\ (Has(m, 128) <=> info.username # <<>>)
         /\ info.willTopic # <<>> => /\ Has(m, 32) = info.willRetain
                                     /\ (At(m, FlagsAt(m)) \div 8) % 4 = info.willQos
    <3>1. BitsRead(At(m, FlagsAt(m)), Bit(info.clean), WillBit(info), WillQos(info), WillRetain(info),
                   Bit(info.password # <<>>), Bit(info.username # <<>>))
      BY <2>12, ConnectFlagBits, Zenon
    <3>2. info.clean \in BOOLEAN /\ info.willRetain \in BOOLEAN
      BY DEF Infos
    <3>3. /\ (At(m, FlagsAt(m)) \div 2) % 2 = Bit(info.clean) /\ (At(m, FlagsAt(m)) \div 4) % 2 = WillBit(info)
          /\ (At(m, FlagsAt(m)) \div 8) % 4 = WillQos(info) /\ (At(m, FlagsAt(m)) \div 32) % 2 = WillRetain(info)
          /\ (At(m, FlagsAt(m)) \div 64) % 2 = Bit(info.password # <<>>)
          /\ (At(m, FlagsAt(m)) \div 128) % 2 = Bit(info.username # <<>>)
      BY <3>1, Zenon DEF BitsRead
    <3>4. Has(m, 2) = info.clean
      BY <3>2, <3>3 DEF Has, Bit
    <3>5. (Has(m, 4) <=> info.willTopic # <<>>)
      BY <3>3 DEF Has, Bit, WillBit
    <3>6. (Has(m, 64) <=> info.password # <<>>)
      BY <3>3 DEF Has, Bit
    <3>7. (Has(m, 128) <=> info.username # <<>>)
      BY <3>3 DEF Has, Bit
    <3>8. info.willTopic # <<>> => Has(m, 32) = info.willRetain
      BY <3>2, <3>3 DEF Has, Bit, WillRetain
    <3>9. info.willTopic # <<>> => (At(m, FlagsAt(m)) \div 8) % 4 = info.willQos
      BY <3>3 DEF WillQos
    <3> QED
      BY <3>4, <3>5, <3>6, <3>7, <3>8, <3>9
  <2>15. WillIsRead(m, info) /\ UserAt(m) = user
    <3>1. Shows(m, will, WillPart(info))
      BY <2>7, <2>10 DEF Lies
    <3>2. /\ info.willTopic # <<>> => /\ StringAt(m, will) = info.willTopic
                                      /\ StringAt(m, Behind(m, will)) = info.willMessage
                                      /\ Behind(m, Behind(m, will)) = will + w
          /\ info.willTopic = <<>> => w = 0
      BY <2>2, <2>6, <2>8, <3>1, WillRead
    <3>3. CASE info.willTopic # <<>>
      <4>1. Has(m, 4)
        BY <2>14, <3>3, Zenon
      <4>2. will + w = user
        BY <2>9
      <4> QED
        BY <2>13, <2>14, <3>2, <3>3, <4>1, <4>2, Zenon DEF WillIsRead, UserAt
    <3>4. CASE info.willTopic = <<>>
      <4>1. ~Has(m, 4)
        BY <2>14, <3>4, Zenon
      <4>2. user = will
        BY <2>9, <3>2, <3>4
      <4> QED
        BY <2>13, <3>4, <4>1, <4>2, Zenon DEF WillIsRead, UserAt
    <3> QED
      BY <3>3, <3>4
  <2>16. info.username = (IF Has(m, 128) THEN StringAt(m, UserAt(m)) ELSE <<>>) /\ PasswordAt(m) = password
    <3>1. Shows(m, user, Optional(info.username))
      BY <2>7, <2>10 DEF Lies
    <3>2. info.username \in Seq(Octet) /\ Len(info.username) \in Word
      BY <2>2 DEF Infos, Short
    <3>3. /\ info.username # <<>> => StringAt(m, user) = info.username /\ Behind(m, user) = user + u
          /\ info.username = <<>> => u = 0
      BY <2>6, <2>8, <3>1, <3>2, OptRead
    <3>4. CASE info.username # <<>>
      <4>1. Has(m, 128)
        BY <2>14, <3>4, Zenon
      <4>2. user + u = password
        BY <2>9
      <4> QED
        BY <2>15, <3>3, <3>4, <4>1, <4>2, Zenon DEF PasswordAt
    <3>5. CASE info.username = <<>>
      <4>1. ~Has(m, 128)
        BY <2>14, <3>5, Zenon
      <4>2. password = user
        BY <2>9, <3>3, <3>5
      <4> QED
        BY <2>15, <3>5, <4>1, <4>2, Zenon DEF PasswordAt
    <3> QED
      BY <3>4, <3>5
  <2>17. info.password = (IF Has(m, 64) THEN StringAt(m, PasswordAt(m)) ELSE <<>>) /\ Len(m) = ConnectEnd(m)
    <3>1. Shows(m, password, Optional(info.password))
      BY <2>7, <2>10 DEF Lies
    <3>2. info.password \in Seq(Octet) /\ Len(info.password) \in Word
      BY <2>2 DEF Infos, Short
    <3>3. /\ info.password # <<>> => StringAt(m, password) = info.password /\ Behind(m, password) = password + p
          /\ info.password = <<>> => p = 0
      BY <2>6, <2>8, <3>1, <3>2, OptRead
    <3>4. CASE info.password # <<>>
      <4>1. Has(m, 64)
        BY <2>14, <3>4, Zenon
      <4> QED
        BY <2>10, <2>16, <3>3, <3>4, <4>1, Zenon DEF ConnectEnd
    <3>5. CASE info.password = <<>>
      <4>1. ~Has(m, 64)
        BY <2>14, <3>5, Zenon
      <4>2. Len(m) = password
        BY <2>9, <2>10, <3>3, <3>5
      <4> QED
        BY <2>16, <3>5, <4>1, <4>2, Zenon DEF ConnectEnd
    <3> QED
      BY <3>4, <3>5
  <2> QED
    BY <1>1, <2>4, <2>6, <2>11, <2>12, <2>13, <2>14, <2>15, <2>16, <2>17, ZenonT(40) DEF ConnectIsRead, Fits
<1> QED
  BY <1>2, <1>3

-----------------------------------------------------------------------------
(* A PUBLISH in several reads *)

\* The least element of a set of numbers.
LEMMA Least == ASSUME NEW S \in SUBSET Nat, S # {}
               PROVE  Min(S) \in S /\ \A m \in S : Min(S) <= m
<1>1. \E n \in S : \A m \in S : ~ (<<m, n>> \in OpToRel(<, Nat))
  BY NatLessThanWellFounded, WFMin
<1>2. \E n \in S : \A m \in S : n <= m
  <2>1. ASSUME NEW n \in S, NEW m \in S, ~ (<<m, n>> \in OpToRel(<, Nat))
        PROVE  n <= m
    BY <2>1 DEF OpToRel
  <2> QED
    BY <1>1, <2>1
<1> QED
  BY <1>2, Zenon DEF Min

\* Induction, upwards and downwards.
LEMMA UpTo ==
    ASSUME NEW n \in Nat, NEW T, 0 \in T, \A k \in 0..(n - 1) : k \in T => k + 1 \in T
    PROVE  \A k \in 0..n : k \in T
<1> DEFINE R == {j \in 0..n : j \notin T}
<1> SUFFICES ASSUME R # {} PROVE FALSE
  OBVIOUS
<1>1. R \in SUBSET Nat
  OBVIOUS
<1>2. PICK j \in R : \A m \in R : j <= m
  <2> HIDE DEF R
  <2> QED
    BY <1>1, Least
<1>3. j \in 0..n /\ j \notin T /\ j # 0
  OBVIOUS
<1>4. PICK k : k = j - 1
  OBVIOUS
<1>5. k \in 0..(n - 1) /\ k + 1 = j /\ ~(j <= k)
  BY <1>3, <1>4
<1>6. k \in T
  <2>1. k \in 0..n
    BY <1>5
  <2> QED
    BY <1>2, <1>5, <2>1
<1> QED
  BY <1>3, <1>5, <1>6

LEMMA DownTo ==
    ASSUME NEW n \in Nat, NEW T, n \in T, \A k \in 0..(n - 1) : k + 1 \in T => k \in T
    PROVE  \A k \in 0..n : k \in T
<1> DEFINE U == {j \in 0..n : n - j \in T}
<1>1. 0 \in U
  OBVIOUS
<1>2. ASSUME NEW j \in 0..(n - 1), j \in U PROVE j + 1 \in U
  <2>1. PICK k : k = n - (j + 1)
    OBVIOUS
  <2>2. k \in 0..(n - 1) /\ k + 1 = n - j
    BY <2>1
  <2>3. k \in T
    BY <1>2, <2>2
  <2> QED
    BY <2>1, <2>3
<1> HIDE DEF U
<1>3. \A j \in 0..n : j \in U
  BY <1>1, <1>2, UpTo
<1> USE DEF U
<1>4. ASSUME NEW k \in 0..n PROVE k \in T
  <2>1. n - k \in 0..n /\ n - (n - k) = k
    OBVIOUS
  <2> QED
    BY <1>3, <2>1
<1> QED
  BY <1>4

\* The state of deliver_publish, and the event for what its buffer holds.
IsState(s, b, n, whole, read, total, offset, events) ==
    s = [buffer |-> b, length |-> n, messageLength |-> whole, read |-> read,
         total |-> total, offset |-> offset, events |-> events]
PayloadOf(b, n, len, total, offset) ==
    [topic |-> PublishTopic(b, n), data |-> PublishData(b, n),
     len |-> len, total |-> total, offset |-> offset]

\* Before the first event.
Initial(s, b, n) == IsState(s, b, n, TotalLength(b, n), n, 0, 0, <<>>)

LEMMA StateFields ==
    ASSUME NEW b, NEW n, NEW whole, NEW read, NEW total, NEW offset, NEW events, NEW s,
           IsState(s, b, n, whole, read, total, offset, events)
    PROVE  /\ s.buffer = b /\ s.length = n /\ s.messageLength = whole /\ s.read = read
           /\ s.total = total /\ s.offset = offset /\ s.events = events
BY DEF IsState

LEMMA StateCounted ==
    ASSUME NEW b, NEW n, NEW whole, NEW read, NEW total, NEW offset, NEW events, NEW s,
           IsState(s, b, n, whole, read, total, offset, events), NEW x, NEW y, NEW z
    PROVE  IsState([s EXCEPT !.total = x, !.offset = y, !.events = z], b, n, whole, read, x, y, z)
<1>1. PICK p : p = [s EXCEPT !.total = x]
  OBVIOUS
<1>2. IsState(p, b, n, whole, read, x, offset, events)
  BY <1>1 DEF IsState
<1>3. PICK q : q = [p EXCEPT !.offset = y]
  OBVIOUS
<1>4. IsState(q, b, n, whole, read, x, y, events)
  BY <1>2, <1>3 DEF IsState
<1>5. PICK o : o = [q EXCEPT !.events = z]
  OBVIOUS
<1>6. IsState(o, b, n, whole, read, x, y, z)
  BY <1>4, <1>5 DEF IsState
<1>7. o = [s EXCEPT !.total = x, !.offset = y, !.events = z]
  BY <1>1, <1>3, <1>5, Zenon
<1> QED
  BY <1>6, <1>7, Zenon

LEMMA StateRead ==
    ASSUME NEW b, NEW n, NEW whole, NEW read, NEW total, NEW offset, NEW events, NEW s,
           IsState(s, b, n, whole, read, total, offset, events), NEW x, NEW y
    PROVE  IsState([s EXCEPT !.buffer = x, !.read = y], x, n, whole, y, total, offset, events)
<1>1. PICK p : p = [s EXCEPT !.buffer = x]
  OBVIOUS
<1>2. IsState(p, x, n, whole, read, total, offset, events)
  BY <1>1 DEF IsState
<1>3. PICK q : q = [p EXCEPT !.read = y]
  OBVIOUS
<1>4. IsState(q, x, n, whole, y, total, offset, events)
  BY <1>2, <1>3 DEF IsState
<1>5. q = [s EXCEPT !.buffer = x, !.read = y]
  BY <1>1, <1>3, Zenon
<1> QED
  BY <1>4, <1>5, Zenon

LEMMA EventStep ==
    ASSUME NEW b, NEW n, NEW whole, NEW read, NEW old, NEW offset, NEW events, NEW s, NEW len,
           IsState(s, b, n, whole, read, old, offset, events),
           NEW total, total = EventTotal(s), NEW part, part = EventPart(s, len), NEW r, r = Event(s, len)
    PROVE  IsState(r, b, n, whole, read, total, Uint16(offset + part),
                   Append(events, PayloadOf(b, n, part, total, offset)))
<1>1. IsState(Event(s, len), b, n, whole, read, EventTotal(s), Uint16(s.offset + EventPart(s, len)),
              Append(s.events, Payload(s, len)))
  <2>1. ASSUME NEW x, NEW y, NEW z
        PROVE  IsState([s EXCEPT !.total = x, !.offset = y, !.events = z], b, n, whole, read, x, y, z)
    BY StateCounted, Zenon
  <2>2. PICK x, y : x = EventTotal(s) /\ y = Uint16(s.offset + EventPart(s, len))
    OBVIOUS
  <2>3. PICK z : z = Append(s.events, Payload(s, len))
    OBVIOUS
  <2>4. PICK p : p = [s EXCEPT !.total = x, !.offset = y, !.events = z]
    OBVIOUS
  <2>5. p = Event(s, len)
    BY <2>2, <2>3, <2>4, Zenon DEF Event
  <2>6. IsState(p, b, n, whole, read, x, y, z)
    BY <2>1, <2>4, Zenon
  <2> QED
    BY <2>2, <2>3, <2>5, <2>6, Zenon
<1>2. s.buffer = b /\ s.length = n /\ s.offset = offset /\ s.events = events
  BY StateFields
<1>3. Payload(s, len) = PayloadOf(s.buffer, s.length, EventPart(s, len), EventTotal(s), s.offset)
  BY Zenon DEF Payload, PayloadOf
<1>4. Payload(s, len) = PayloadOf(b, n, part, total, offset)
  BY <1>2, <1>3
<1> QED
  BY <1>1, <1>2, <1>4

LEMMA EventFirst ==
    ASSUME NEW b, NEW n, NEW whole, NEW read, NEW s, NEW events, events = <<>>, NEW zero, zero = 0,
           IsState(s, b, n, whole, read, zero, zero, events),
           NEW part, part = DataLength(b, n), NEW total, total = Uint16(whole - read + part),
           NEW r, r = Event(s, zero)
    PROVE  IsState(r, b, n, whole, read, total, Uint16(zero + part),
                   Append(events, PayloadOf(b, n, part, total, zero)))
<1>1. s.buffer = b /\ s.length = n /\ s.messageLength = whole /\ s.read = read /\ s.total = zero
  BY StateFields
<1>2. EventTotal(s) = Uint16(whole - read + part) /\ EventPart(s, zero) = part
  BY <1>1 DEF EventTotal, EventPart
<1>3. total = EventTotal(s) /\ part = EventPart(s, zero)
  BY <1>2
<1> QED
  BY <1>3, EventStep

LEMMA ReadNext ==
    ASSUME NEW b, NEW n, NEW whole \in Nat, NEW read \in Nat, read < whole, NEW total \in Nat, total # 0,
           NEW offset, NEW events, NEW s, IsState(s, b, n, whole, read, total, offset, events),
           NEW chunk, NEW after, after = ReadInto(b, chunk),
           NEW len, len = Len(chunk), NEW x, x = read + len, NEW r, r = NextRead(s, chunk)
    PROVE  IsState(r, after, n, whole, x, total, Uint16(offset + len),
                   Append(events, PayloadOf(after, n, len, total, offset)))
<1>1. s.buffer = b /\ s.messageLength = whole /\ s.read = read
  BY StateFields
<1>2. ~(read >= whole)
  OBVIOUS
<1>3. r = Event([s EXCEPT !.buffer = ReadInto(s.buffer, chunk), !.read = s.read + Len(chunk)], Len(chunk))
  BY <1>1, <1>2, Zenon DEF NextRead
<1>4. PICK p : p = [s EXCEPT !.buffer = after, !.read = x]
  OBVIOUS
<1>5. r = Event(p, len)
  BY <1>1, <1>3, <1>4, Zenon
<1>6. IsState(p, after, n, whole, x, total, offset, events)
  <2>1. IsState([s EXCEPT !.buffer = after, !.read = x], after, n, whole, x, total, offset, events)
    <3>1. ASSUME NEW u, NEW v
          PROVE  IsState([s EXCEPT !.buffer = u, !.read = v], u, n, whole, v, total, offset, events)
      BY StateRead, Zenon
    <3> QED
      BY <3>1, Zenon
  <2> QED
    BY <1>4, <2>1, Zenon
<1>7. p.total = total
  BY <1>6, StateFields
<1>8. EventTotal(p) = total /\ EventPart(p, len) = len
  BY <1>7 DEF EventTotal, EventPart
<1>9. total = EventTotal(p) /\ len = EventPart(p, len)
  BY <1>8, Zenon
<1> QED
  BY <1>5, <1>6, <1>9, EventStep

\* The states after each read.
After(reads, s, g) == [k \in 1..Len(reads) |-> IF k = 1 THEN s ELSE NextRead(g[k - 1], reads[k])]

LEMMA DeliverDef ==
    ASSUME NEW buffer, NEW reads, NEW b, b = ReadInto(buffer, reads[1]), NEW n, n = Len(reads[1]), NEW s,
           Initial(s, b, n), NEW r, r = Event(s, 0)
    PROVE  Deliver(buffer, reads) = (CHOOSE g : g = After(reads, r, g))[Len(reads)].events
BY DEF Deliver, After, Initial, IsState

\* The states f[1], .., f[k] are those after the first k reads, of which r is the first.
Reached(f, reads, r, k) == \A i \in 1..k : f[i] = IF i = 1 THEN r ELSE NextRead(f[i - 1], reads[i])

LEMMA AfterMore ==
    ASSUME NEW reads, NEW s, NEW k \in Nat \ {0}, NEW g, Reached(g, reads, s, k)
    PROVE  \E h : Reached(h, reads, s, k + 1)
<1> USE DEF Reached
<1>1. PICK h : h = [i \in 1..(k + 1) |-> IF i = k + 1 THEN NextRead(g[k], reads[k + 1]) ELSE g[i]]
  OBVIOUS
<1>2. h[k + 1] = NextRead(g[k], reads[k + 1]) /\ \A i \in 1..k : h[i] = g[i]
  BY <1>1
<1>3. ASSUME NEW i \in 1..(k + 1) PROVE h[i] = IF i = 1 THEN s ELSE NextRead(h[i - 1], reads[i])
  <2>1. CASE i = k + 1
    <3>1. i # 1 /\ i - 1 = k /\ k \in 1..k
      BY <2>1
    <3> QED
      BY <1>2, <2>1, <3>1, Zenon
  <2>2. CASE i # k + 1 /\ i = 1
    <3>1. i \in 1..k
      BY <2>2
    <3> QED
      BY <1>2, <2>2, <3>1, Zenon
  <2>3. CASE i # k + 1 /\ i # 1
    <3>1. i \in 1..k /\ i - 1 \in 1..k
      BY <2>3
    <3> QED
      BY <1>2, <2>3, <3>1, Zenon
  <2> QED
    BY <2>1, <2>2, <2>3
<1> QED
  BY <1>3

LEMMA AfterBuilt ==
    ASSUME NEW reads, NEW n \in Nat \ {0}, n = Len(reads), NEW s
    PROVE  \E g : g = After(reads, s, g)
<1> DEFINE T == {k \in 0..(n - 1) : \E g : Reached(g, reads, s, k + 1)}
<1>1. 0 \in T
  <2>1. PICK g : g = [i \in 1..1 |-> s]
    OBVIOUS
  <2>2. \A i \in 1..(0 + 1) : i = 1 /\ g[i] = s
    BY <2>1
  <2>3. 0 \in 0..(n - 1)
    OBVIOUS
  <2>4. Reached(g, reads, s, 0 + 1)
    BY <2>2, Zenon DEF Reached
  <2> QED
    BY <2>3, <2>4
<1>2. ASSUME NEW k \in 0..((n - 1) - 1), k \in T PROVE k + 1 \in T
  <2>1. PICK m : m = k + 1
    OBVIOUS
  <2>2. m \in Nat \ {0} /\ m \in 0..(n - 1)
    BY <2>1
  <2>3. PICK g : Reached(g, reads, s, m)
    BY <1>2, <2>1
  <2>4. \E h : Reached(h, reads, s, m + 1)
    BY <2>2, <2>3, AfterMore, Zenon
  <2> QED
    BY <2>1, <2>2, <2>4
<1>3. n - 1 \in Nat /\ n - 1 \in 0..(n - 1) /\ (n - 1) + 1 = n
  OBVIOUS
<1>4. n - 1 \in T
  <2> HIDE DEF T
  <2>1. \A k \in 0..(n - 1) : k \in T
    BY <1>1, <1>2, <1>3, UpTo
  <2> QED
    BY <1>3, <2>1
<1>5. PICK g : Reached(g, reads, s, (n - 1) + 1)
  BY <1>4
<1>51. Reached(g, reads, s, n)
  BY <1>3, <1>5
<1>6. \A i \in 1..n : g[i] = IF i = 1 THEN s ELSE NextRead(g[i - 1], reads[i])
  BY <1>51, Zenon DEF Reached
<1>7. PICK h : h = [i \in 1..n |-> g[i]]
  OBVIOUS
<1>8. ASSUME NEW i \in 1..n PROVE h[i] = IF i = 1 THEN s ELSE NextRead(h[i - 1], reads[i])
  <2>1. CASE i = 1
    BY <1>6, <1>7, <2>1, Zenon
  <2>2. CASE i # 1
    <3>1. i - 1 \in 1..n
      BY <2>2
    <3> QED
      BY <1>6, <1>7, <2>2, <3>1, Zenon
  <2> QED
    BY <2>1, <2>2
<1>9. PICK f : f = [i \in 1..n |-> IF i = 1 THEN s ELSE NextRead(h[i - 1], reads[i])]
  OBVIOUS
<1>10. \A i \in 1..n : h[i] = f[i]
  BY <1>8, <1>9, Zenon
<1>11. h = f
  BY <1>7, <1>9, <1>10
<1>12. f = After(reads, s, h)
  BY <1>9, Zenon DEF After
<1> QED
  BY <1>11, <1>12

\* The events are those of the last of the states after each read, of which r is the first.
Delivers(buffer, reads, r) ==
    \E f : /\ Deliver(buffer, reads) = f[Len(reads)].events /\ f[1] = r
           /\ \A i \in 2..Len(reads) : f[i] = NextRead(f[i - 1], reads[i])

LEMMA DeliverSteps ==
    ASSUME NEW buffer, NEW reads, Len(reads) \in Nat \ {0}, NEW s,
           Initial(s, ReadInto(buffer, reads[1]), Len(reads[1]))
    PROVE  Delivers(buffer, reads, Event(s, 0))
<1>01. PICK b, n : b = ReadInto(buffer, reads[1]) /\ n = Len(reads[1])
  OBVIOUS
<1>02. PICK k \in Nat \ {0} : k = Len(reads)
  OBVIOUS
<1>03. PICK r : r = Event(s, 0)
  OBVIOUS
<1>04. Initial(s, b, n)
  BY <1>01, Zenon
<1>1. PICK f : f = CHOOSE g : g = After(reads, r, g)
  OBVIOUS
<1>2. f = After(reads, r, f)
  BY <1>1, <1>02, AfterBuilt
<1>3. Deliver(buffer, reads) = f[k].events
  BY <1>1, <1>01, <1>02, <1>03, <1>04, DeliverDef
<1>4. \A i \in 1..k : f[i] = IF i = 1 THEN r ELSE NextRead(f[i - 1], reads[i])
  BY <1>02, <1>2, Zenon DEF After
<1>5. 1 \in 1..k /\ \A i \in 2..k : i \in 1..k /\ i # 1
  OBVIOUS
<1>6. f[1] = r /\ \A i \in 2..k : f[i] = NextRead(f[i - 1], reads[i])
  BY <1>4, <1>5, Zenon
<1> QED
  BY <1>02, <1>03, <1>3, <1>6, Zenon DEF Delivers

\* What the reads are.
AreReads(reads, m, ends) ==
    /\ Len(reads) = Len(ends) /\ reads[1] = SubSeq(m, 1, ends[1])
    /\ \A k \in 2..Len(ends) : reads[k] = SubSeq(m, ends[k - 1] + 1, ends[k])

LEMMA PiecesDef == ASSUME NEW m, NEW ends \in Seq(Nat), ends # <<>> PROVE AreReads(Pieces(m, ends), m, ends)
<1>1. PICK count \in Nat \ {0} : count = Len(ends)
  OBVIOUS
<1>2. PICK reads : reads = [k \in 1..count |-> SubSeq(m, (IF k = 1 THEN 0 ELSE ends[k - 1]) + 1, ends[k])]
  OBVIOUS
<1>3. 1 \in 1..count /\ \A k \in 2..count : k \in 1..count /\ k # 1
  OBVIOUS
<1>4. reads[1] = SubSeq(m, 0 + 1, ends[1])
  BY <1>2, <1>3, Zenon
<1>5. 0 + 1 = 1 /\ Len(reads) = count
  BY <1>2
<1>6. \A k \in 2..count : reads[k] = SubSeq(m, ends[k - 1] + 1, ends[k])
  BY <1>2, <1>3, Zenon
<1>7. AreReads(reads, m, ends)
  BY <1>1, <1>4, <1>5, <1>6, Zenon DEF AreReads
<1>8. Pieces(m, ends) = reads
  BY <1>1, <1>2 DEF Pieces
<1> QED
  BY <1>7, <1>8, Zenon

\* They end one behind the other, the first one behind the header.
LEMMA CutsOrder ==
    ASSUME NEW ends \in Seq(Nat), NEW count \in Nat \ {0}, count = Len(ends), NEW head \in Nat,
           NEW n \in Nat, NEW room \in Nat, Cuts(ends, head, n, room)
    PROVE  \A k \in 1..count : head < ends[k] /\ ends[k] <= n
<1>1. /\ ends[1] \in (head + 1)..room /\ ends[count] = n
      /\ \A k \in 2..count : ends[k] - ends[k - 1] \in 1..room
  BY DEF Cuts
<1>2. \A k \in 1..count : ends[k] \in Nat
  OBVIOUS
<1>3. \A k \in 1..(count - 1) : ends[k] < ends[k + 1]
  <2> TAKE k \in 1..(count - 1)
  <2>1. PICK j : j = k + 1
    OBVIOUS
  <2>2. j \in 2..count /\ k = j - 1 /\ j \in 1..count /\ k \in 1..count
    BY <2>1
  <2>3. ends[j] - ends[k] \in 1..room
    BY <1>1, <2>2
  <2>4. ends[j] \in Nat /\ ends[k] \in Nat
    BY <1>2, <2>2
  <2> QED
    BY <2>1, <2>3, <2>4
<1> DEFINE T == {k \in 0..(count - 1) : head < ends[k + 1]}
<1> DEFINE U == {k \in 0..(count - 1) : ends[k + 1] <= n}
<1>4. \A k \in 0..(count - 1) : k \in T
  <2>1. 0 \in T
    BY <1>1, <1>2
  <2>2. ASSUME NEW k \in 0..((count - 1) - 1), k \in T PROVE k + 1 \in T
    <3>1. k + 1 \in 1..(count - 1) /\ k + 1 \in 1..count /\ (k + 1) + 1 \in 1..count
      OBVIOUS
    <3>2. ends[k + 1] < ends[(k + 1) + 1] /\ ends[k + 1] \in Nat /\ ends[(k + 1) + 1] \in Nat
      BY <1>2, <1>3, <3>1
    <3>3. head < ends[k + 1]
      BY <2>2
    <3>4. head < ends[(k + 1) + 1]
      BY <3>2, <3>3
    <3> QED
      BY <3>1, <3>4
  <2>3. count - 1 \in Nat
    OBVIOUS
  <2> HIDE DEF T
  <2> QED
    BY <2>1, <2>2, <2>3, UpTo
<1>5. \A k \in 0..(count - 1) : k \in U
  <2>1. count - 1 \in U
    BY <1>1, <1>2
  <2>2. ASSUME NEW k \in 0..((count - 1) - 1), k + 1 \in U PROVE k \in U
    <3>1. k + 1 \in 1..(count - 1) /\ k + 1 \in 1..count /\ (k + 1) + 1 \in 1..count
      OBVIOUS
    <3>2. ends[k + 1] < ends[(k + 1) + 1] /\ ends[k + 1] \in Nat /\ ends[(k + 1) + 1] \in Nat
      BY <1>2, <1>3, <3>1
    <3>3. ends[(k + 1) + 1] <= n
      BY <2>2
    <3>4. ends[k + 1] <= n
      BY <3>2, <3>3
    <3> QED
      BY <3>1, <3>4
  <2>3. count - 1 \in Nat
    OBVIOUS
  <2> HIDE DEF U
  <2> QED
    BY <2>1, <2>2, <2>3, DownTo
<1>6. ASSUME NEW k \in 1..count PROVE head < ends[k] /\ ends[k] <= n
  <2>1. PICK j : j = k - 1
    OBVIOUS
  <2>2. j \in 0..(count - 1) /\ j + 1 = k
    BY <2>1
  <2>3. j \in T /\ j \in U
    BY <1>4, <1>5, <2>2
  <2>4. head < ends[j + 1] /\ ends[j + 1] <= n
    BY <2>3
  <2> QED
    BY <2>2, <2>4, Zenon
<1> QED
  BY <1>6

\* The first read leaves the beginning of the message in the buffer.
LEMMA ReadBegins ==
    ASSUME NEW buffer \in Seq(Octet), NEW m \in Seq(Octet), NEW n \in Nat, n <= Len(buffer), n <= Len(m)
    PROVE  Begins(ReadInto(buffer, SubSeq(m, 1, n)), n, m) /\ Len(SubSeq(m, 1, n)) = n
<1>01. PICK chunk : chunk = SubSeq(m, 1, n)
  OBVIOUS
<1>02. PICK b : b = ReadInto(buffer, chunk)
  OBVIOUS
<1>1. chunk \in Seq(Octet) /\ Len(chunk) = n /\ \A j \in 1..n : chunk[j] = m[j]
  BY <1>01
<1>2. PICK rest : rest = SubSeq(buffer, n + 1, Len(buffer))
  OBVIOUS
<1>3. rest \in Seq(Octet)
  <2>1. PICK l \in Nat : l = Len(buffer)
    OBVIOUS
  <2>2. n + 1 \in 1..(l + 1)
    BY <2>1
  <2> QED
    BY <1>2, <2>1, <2>2
<1>4. b = chunk \o rest
  BY <1>02, <1>1, <1>2, Zenon DEF ReadInto
<1>5. b \in Seq(Octet) /\ Len(b) = n + Len(rest) /\ \A j \in 1..n : b[j] = chunk[j]
  <2>1. chunk \in Seq(Octet) /\ Len(chunk) = n
    BY <1>1
  <2>2. b \in Seq(Octet) /\ Len(b) = n + Len(rest)
    BY <1>3, <1>4, <2>1, Cat
  <2>3. \A j \in 1..(n + Len(rest)) : (chunk \o rest)[j] = IF j <= n THEN chunk[j] ELSE rest[j - n]
    BY <1>3, <2>1, ConcatProperties
  <2>4. Len(rest) \in Nat
    BY <1>3
  <2>5. \A j \in 1..n : b[j] = chunk[j]
    <3> TAKE j \in 1..n
    <3>1. j \in 1..(n + Len(rest)) /\ j <= n
      BY <2>4
    <3> QED
      BY <1>4, <2>3, <3>1, Zenon
  <2> QED
    BY <2>2, <2>5
<1>6. \A j \in 1..n : b[j] = m[j]
  BY <1>1, <1>5
<1>7. n <= Len(b)
  BY <1>3, <1>5
<1> QED
  <2>1. Begins(b, n, m)
    BY <1>5, <1>6, <1>7 DEF Begins
  <2> QED
    BY <1>01, <1>02, <1>1, <2>1, Zenon

\* A longer sequence of events.
LEMMA OneMore ==
    ASSUME NEW S, NEW events \in Seq(S), NEW k \in Nat, k = Len(events), NEW p,
           NEW more, more = Append(events, p)
    PROVE  /\ more \in Seq(S \cup {p}) /\ Len(more) = k + 1 /\ more[k + 1] = p
           /\ \A j \in 1..k : more[j] = events[j]
<1>1. PICK T : T = S \cup {p}
  OBVIOUS
<1>2. S \subseteq T /\ p \in T
  BY <1>1
<1>3. events \in Seq(T)
  BY <1>2, SeqMonotonic
<1>4. more \in Seq(T) /\ Len(more) = k + 1 /\ more[k + 1] = p /\ \A j \in 1..k : more[j] = events[j]
  BY <1>2, <1>3
<1> QED
  BY <1>1, <1>4, Zenon

\* The event p numbers the bytes of the read that ends at end, of data of total
\* bytes of which from were read before.
Counts(p, total, from, end) == p.total = total /\ p.offset = from /\ p.len = end - from

\* After k reads: the numbers are right, and the first event has the topic and the
\* beginning of the data.
Numbered(s, k, n, whole, ends, head, total, topic, part) ==
    \E b, S, events :
        /\ IsState(s, b, n, whole, ends[k], total, ends[k] - head, events)
        /\ events \in Seq(S) /\ Len(events) = k
        /\ \A j \in 1..k : Counts(events[j], total, IF j = 1 THEN 0 ELSE ends[j - 1] - head, ends[j] - head)
        /\ events[1].topic = topic /\ events[1].data = part

\* Numbers of less than 16 bits are kept.
LEMMA Uint16Same == ASSUME NEW n \in Word PROVE Uint16(n) = n
BY DEF Uint16, Word

\* The same of the first read, which has n bytes.
FirstNumbered(s, n, whole, head, total, topic, part) ==
    \E b, S, events :
        /\ IsState(s, b, n, whole, n, total, n - head, events)
        /\ events \in Seq(S) /\ Len(events) = 1 /\ Counts(events[1], total, 0, n - head)
        /\ events[1].topic = topic /\ events[1].data = part

LEMMA RestAndPart ==
    ASSUME NEW whole \in Nat, NEW head \in Nat, NEW total \in Nat, whole = head + total, NEW n \in Nat,
           NEW part \in Nat, part = n - head
    PROVE  whole - n + part = total /\ 0 + part = part
OBVIOUS

\* The state before the first event, of a buffer that has more than the header of m.
FirstState(s, b, n, m, head) == n \in Nat /\ n > head /\ Begins(b, n, m) /\ Initial(s, b, n)

\* A PUBLISH that was built, with what it was built from.
IsPublish(m, size, topic, data, qos, retain, id, e, i, head) ==
    /\ size \in Buffers /\ topic \in Seq(Octet) /\ data \in Seq(Octet) /\ qos \in 0..2 /\ id \in Word
    /\ e \in {2, 3} /\ i \in {0, 2} /\ head \in Nat
    /\ PublishLies(m, size, topic, data, qos, retain, id, e, i, head)

LEMMA NumberedFirst ==
    ASSUME NEW m, NEW size, NEW topic, NEW data, NEW qos, NEW retain, NEW id, NEW e, NEW i, NEW head,
           IsPublish(m, size, topic, data, qos, retain, id, e, i, head),
           NEW b, NEW n, NEW s, FirstState(s, b, n, m, head)
    PROVE  FirstNumbered(Event(s, 0), n, Len(m), head, Len(data), topic, SubSeq(data, 1, n - head))
<1>0. n \in Nat /\ n > head /\ Begins(b, n, m) /\ Initial(s, b, n)
  BY DEF FirstState
<1>01. /\ size \in Buffers /\ topic \in Seq(Octet) /\ data \in Seq(Octet) /\ qos \in 0..2 /\ id \in Word
       /\ e \in {2, 3} /\ i \in {0, 2} /\ head \in Nat
       /\ PublishLies(m, size, topic, data, qos, retain, id, e, i, head)
  BY Zenon DEF IsPublish
<1>1. Told(b, n, m, topic, data, qos, head, i)
  BY <1>0, <1>01, FirstRead, ZenonT(30)
<1>2. PICK part : part = n - head
  OBVIOUS
<1>3. PICK d \in Nat, whole \in Nat : d = Len(data) /\ whole = Len(m) /\ whole = head + d /\ whole <= size
  BY <1>01 DEF PublishLies
<1>4. part \in Nat /\ part > 0 /\ part <= d /\ n <= whole
  <2>1. n <= Len(m)
    BY <1>0 DEF Begins
  <2> QED
    BY <1>0, <1>01, <1>2, <1>3, <2>1
<1>5. /\ TotalLength(b, n) = whole /\ HasData(b, n) /\ PublishTopic(b, n) = topic
      /\ PublishData(b, n) = SubSeq(data, 1, part) /\ Len(PublishData(b, n)) = part
  BY <1>1, <1>2, <1>3, Zenon DEF Told
<1>6. DataLength(b, n) = part
  BY <1>5, Zenon DEF DataLength
<1>7. Uint16(whole - n + part) = d /\ Uint16(0 + part) = part
  <2>1. size \in Nat /\ size < 16387
    BY <1>01 DEF Buffers
  <2>2. d \in Word /\ part \in Word
    <3>1. head \in Nat
      BY <1>01
    <3> QED
      BY <1>3, <1>4, <2>1, <3>1 DEF Word
  <2>3. whole - n + part = d /\ 0 + part = part
    <3>1. whole = head + d /\ part = n - head
      BY <1>2, <1>3
    <3> QED
      BY <1>0, <1>01, <1>4, <3>1, RestAndPart
  <2> QED
    BY <2>2, <2>3, Uint16Same
<1>07. PICK r : r = Event(s, 0)
  OBVIOUS
<1>8. PICK zero : zero = 0
  OBVIOUS
<1>9. PICK none : none = <<>>
  OBVIOUS
<1>10. PICK p : p = PayloadOf(b, n, part, d, zero)
  OBVIOUS
<1>11. PICK events : events = Append(none, p)
  OBVIOUS
<1>12. IsState(r, b, n, whole, n, d, part, events)
  <2>1. IsState(s, b, n, whole, n, zero, zero, none)
    <3>1. IsState(s, b, n, TotalLength(b, n), n, 0, 0, <<>>)
      BY <1>0, Zenon DEF Initial
    <3> QED
      BY <1>5, <1>8, <1>9, <3>1, Zenon
  <2>2. r = Event(s, zero) /\ part = DataLength(b, n) /\ d = Uint16(whole - n + part)
    BY <1>07, <1>6, <1>7, <1>8
  <2>3. IsState(r, b, n, whole, n, d, Uint16(zero + part), Append(none, PayloadOf(b, n, part, d, zero)))
    BY <1>8, <1>9, <2>1, <2>2, EventFirst
  <2> QED
    BY <1>7, <1>8, <1>10, <1>11, <2>3, Zenon
<1>13. events \in Seq({p}) /\ Len(events) = 1 /\ events[1] = p
  BY <1>9, <1>11
<1>14. Counts(p, d, 0, part) /\ p.topic = topic /\ p.data = SubSeq(data, 1, part)
  <2>1. p.total = d /\ p.offset = zero /\ p.len = part /\ p.topic = PublishTopic(b, n) /\ p.data = PublishData(b, n)
    BY <1>10 DEF PayloadOf
  <2>2. part - 0 = part
    BY <1>4
  <2> QED
    BY <1>5, <1>8, <2>1, <2>2, Zenon DEF Counts
<1>15. n - head = part
  BY <1>2
<1>16. FirstNumbered(r, n, whole, head, d, topic, SubSeq(data, 1, part))
  BY <1>12, <1>13, <1>14, <1>15, Zenon DEF FirstNumbered
<1> QED
  BY <1>07, <1>3, <1>15, <1>16, Zenon

LEMMA NumberedOne ==
    ASSUME NEW s, NEW n, NEW whole, NEW head, NEW total, NEW topic, NEW part, NEW ends, ends[1] = n,
           FirstNumbered(s, n, whole, head, total, topic, part)
    PROVE  Numbered(s, 1, n, whole, ends, head, total, topic, part)
<1>1. PICK b, S, events :
        /\ IsState(s, b, n, whole, n, total, n - head, events)
        /\ events \in Seq(S) /\ Len(events) = 1 /\ Counts(events[1], total, 0, n - head)
        /\ events[1].topic = topic /\ events[1].data = part
  BY Zenon DEF FirstNumbered
<1>2. \A j \in 1..1 : Counts(events[j], total, IF j = 1 THEN 0 ELSE ends[j - 1] - head, ends[j] - head)
  <2> TAKE j \in 1..1
  <2>1. j = 1
    OBVIOUS
  <2> QED
    BY <1>1, <2>1, Zenon
<1> QED
  BY <1>1, <1>2, Zenon DEF Numbered

LEMMA NumberedNext ==
    ASSUME NEW k \in Nat, k > 0, NEW n, NEW whole \in Nat, NEW ends \in Seq(Nat), k + 1 \in 1..Len(ends),
           NEW head \in Nat, head < ends[k], ends[k] < ends[k + 1], ends[k + 1] <= whole,
           NEW total \in Nat, total # 0, whole = head + total, total \in Word, NEW topic, NEW part,
           NEW s, Numbered(s, k, n, whole, ends, head, total, topic, part),
           NEW chunk, Len(chunk) = ends[k + 1] - ends[k], NEW r, r = NextRead(s, chunk)
    PROVE  Numbered(r, k + 1, n, whole, ends, head, total, topic, part)
<1>1. PICK b, S, events :
        /\ IsState(s, b, n, whole, ends[k], total, ends[k] - head, events)
        /\ events \in Seq(S) /\ Len(events) = k
        /\ \A j \in 1..k : Counts(events[j], total, IF j = 1 THEN 0 ELSE ends[j - 1] - head, ends[j] - head)
        /\ events[1].topic = topic /\ events[1].data = part
  BY Zenon DEF Numbered
<1>2. PICK x \in Nat, y \in Nat : x = ends[k] /\ y = ends[k + 1]
  OBVIOUS
<1>3. head < x /\ x < y /\ y <= whole
  BY <1>2
<1>4. PICK offset \in Nat, len \in Nat : offset = x - head /\ len = y - x
  BY <1>3
<1>5. Len(chunk) = len /\ x + len = y /\ Uint16(offset + len) = y - head /\ offset + len = y - head
  <2>1. offset + len = y - head /\ y - head \in Nat /\ y - head <= total
    BY <1>3, <1>4
  <2>2. Uint16(offset + len) = y - head
    <3>1. y - head \in Word
      BY <2>1 DEF Word
    <3> QED
      BY <2>1, <3>1, Uint16Same
  <2>3. Len(chunk) = y - x
    BY <1>2, Zenon
  <2>4. x + len = y
    BY <1>3, <1>4
  <2> QED
    BY <1>4, <2>1, <2>2, <2>3, <2>4, Zenon
<1>6. PICK after : after = ReadInto(b, chunk)
  OBVIOUS
<1>7. PICK p : p = PayloadOf(after, n, len, total, offset)
  OBVIOUS
<1>8. PICK more : more = Append(events, p)
  OBVIOUS
<1>9. IsState(r, after, n, whole, y, total, y - head, more)
  <2>1. IsState(s, b, n, whole, x, total, offset, events)
    BY <1>1, <1>2, <1>4, Zenon
  <2>2. x < whole /\ len = Len(chunk) /\ y = x + len
    BY <1>3, <1>5
  <2>3. IsState(r, after, n, whole, y, total, Uint16(offset + len),
                Append(events, PayloadOf(after, n, len, total, offset)))
    BY <1>6, <2>1, <2>2, ReadNext
  <2> QED
    BY <1>5, <1>7, <1>8, <2>3, Zenon
<1>10. /\ more \in Seq(S \cup {p}) /\ Len(more) = k + 1 /\ more[k + 1] = p
       /\ \A j \in 1..k : more[j] = events[j]
  BY <1>1, <1>8, OneMore
<1>11. Counts(p, total, offset, y - head)
  <2>1. p.total = total /\ p.offset = offset /\ p.len = len
    BY <1>7 DEF PayloadOf
  <2>2. len = (y - head) - offset
    BY <1>3, <1>4
  <2> QED
    BY <2>1, <2>2, Zenon DEF Counts
<1>12. \A j \in 1..(k + 1) : Counts(more[j], total, IF j = 1 THEN 0 ELSE ends[j - 1] - head, ends[j] - head)
  <2> TAKE j \in 1..(k + 1)
  <2>1. CASE j \in 1..k
    BY <1>1, <1>10, <2>1, Zenon
  <2>2. CASE j = k + 1
    <3>1. j # 1 /\ j - 1 = k
      BY <2>2
    <3>2. more[j] = p /\ ends[j - 1] - head = offset /\ ends[j] - head = y - head
      BY <1>2, <1>4, <1>10, <2>2, <3>1
    <3> QED
      BY <1>11, <3>1, <3>2, Zenon
  <2> QED
    BY <2>1, <2>2
<1>13. more[1].topic = topic /\ more[1].data = part
  <2>1. 1 \in 1..k
    OBVIOUS
  <2> QED
    BY <1>1, <1>10, <2>1, Zenon
<1>14. IsState(r, after, n, whole, ends[k + 1], total, ends[k + 1] - head, more)
  BY <1>2, <1>9, Zenon
<1> QED
  BY <1>10, <1>12, <1>13, <1>14, Zenon DEF Numbered

\* A PUBLISH that was built and is read in one or more reads, of which the first has
\* a part of its data, is handed on in as many events; each numbers the bytes of its read, and
\* the first has the topic and the beginning of the data (deliver_publish), for every cut.
THEOREM PublishDelivered ==
    ASSUME NEW size \in Buffers, NEW buffer \in Seq(Octet), NEW topic \in Seq(Octet), NEW data \in Seq(Octet),
           NEW qos \in 0..2, NEW retain \in 0..1, NEW id \in Word, NEW ends \in Seq(Nat)
    PROVE  PublishIsDelivered(size, buffer, topic, data, qos, retain, id, ends)
<1>1. PICK m : m = MsgPublish(size, topic, data, qos, retain, id)
  OBVIOUS
<1>2. PICK head : head = Len(m) - Len(data)
  OBVIOUS
<1>3. PICK reads : reads = Pieces(m, ends)
  OBVIOUS
<1>4. PICK es : es = Deliver(buffer, reads)
  OBVIOUS
<1>5. ASSUME m # Failed, Cuts(ends, head, Len(m), Len(buffer))
      PROVE  /\ es[1].topic = topic /\ es[1].data = SubSeq(data, 1, ends[1] - head)
             /\ Len(es) = Len(ends)
             /\ \A k \in 1..Len(ends) :
                    Counts(es[k], Len(data), IF k = 1 THEN 0 ELSE ends[k - 1] - head, ends[k] - head)
  <2>1. PICK e \in {2, 3}, i \in {0, 2}, h \in Nat :
               PublishLies(m, size, topic, data, qos, retain, id, e, i, h)
    <3>1. PublishMade(m, size, topic, data, qos, retain, id)
      BY <1>1, <1>5, PublishBytes
    <3> QED
      BY <3>1, Zenon DEF PublishMade
  <2>2. PICK d \in Nat, whole \in Nat :
               d = Len(data) /\ whole = Len(m) /\ whole = h + d /\ whole <= size
    BY <2>1 DEF PublishLies
  <2>3. h = head /\ head \in Nat /\ whole = head + d
    BY <1>2, <2>2
  <2>4. PublishLies(m, size, topic, data, qos, retain, id, e, i, head) /\ m \in Seq(Octet)
    BY <2>1, <2>3, Zenon DEF PublishLies
  <2>5. PICK count \in Nat \ {0} : count = Len(ends)
    BY <1>5 DEF Cuts
  <2>6. PICK room \in Nat : room = Len(buffer)
    OBVIOUS
  <2>7. Cuts(ends, head, whole, room)
    BY <1>5, <2>2, <2>6, Zenon
  <2>8. \A k \in 1..count : head < ends[k] /\ ends[k] <= whole
    BY <2>3, <2>5, <2>7, CutsOrder
  <2>9. /\ Len(reads) = count /\ reads[1] = SubSeq(m, 1, ends[1])
        /\ \A k \in 2..count : reads[k] = SubSeq(m, ends[k - 1] + 1, ends[k])
    <3>1. ends # <<>>
      BY <2>5
    <3>2. AreReads(Pieces(m, ends), m, ends)
      BY <3>1, PiecesDef
    <3>3. AreReads(reads, m, ends)
      BY <1>3, <3>2, Zenon
    <3> QED
      BY <2>5, <3>3, Zenon DEF AreReads
  <2>10. ends[1] <= room /\ \A k \in 2..count : ends[k] - ends[k - 1] \in 1..room
    BY <2>5, <2>7 DEF Cuts
  <2>11. PICK n \in Nat : n = ends[1] /\ n > head /\ n <= whole /\ n <= room
    BY <2>5, <2>8, <2>10
  <2>12. PICK b : b = ReadInto(buffer, reads[1])
    OBVIOUS
  <2>13. Begins(b, n, m) /\ Len(reads[1]) = n
    <3>1. n <= Len(buffer) /\ n <= Len(m) /\ reads[1] = SubSeq(m, 1, n)
      BY <2>2, <2>6, <2>9, <2>11
    <3> QED
      <4>1. Begins(ReadInto(buffer, SubSeq(m, 1, n)), n, m) /\ Len(SubSeq(m, 1, n)) = n
        BY <2>4, <3>1, ReadBegins
      <4> QED
        BY <2>12, <3>1, <4>1, Zenon
  <2>14. PICK s : Initial(s, b, n)
    BY DEF Initial, IsState
  <2>15. PICK r : r = Event(s, 0)
    OBVIOUS
  <2>16. PICK part : part = SubSeq(data, 1, n - head)
    OBVIOUS
  <2>17. Numbered(r, 1, n, whole, ends, head, d, topic, part)
    <3>1. FirstNumbered(Event(s, 0), n, Len(m), head, Len(data), topic, SubSeq(data, 1, n - head))
      <4>1. FirstState(s, b, n, m, head)
        BY <2>11, <2>13, <2>14 DEF FirstState
      <4>2. IsPublish(m, size, topic, data, qos, retain, id, e, i, head)
        BY <2>3, <2>4, Zenon DEF IsPublish
      <4> QED
        BY <4>1, <4>2, NumberedFirst, Zenon
    <3>2. FirstNumbered(r, n, whole, head, d, topic, part)
      BY <2>2, <2>15, <2>16, <3>1, Zenon
    <3>3. ends[1] = n
      BY <2>11
    <3> QED
      BY <3>2, <3>3, NumberedOne
  <2>18. PICK f : /\ Deliver(buffer, reads) = f[count].events /\ f[1] = r
                  /\ \A k \in 2..count : f[k] = NextRead(f[k - 1], reads[k])
    <3>1. Len(reads) \in Nat \ {0}
      BY <2>9
    <3>2. Initial(s, ReadInto(buffer, reads[1]), Len(reads[1]))
      BY <2>12, <2>13, <2>14, Zenon
    <3>3. Delivers(buffer, reads, r)
      BY <2>15, <3>1, <3>2, DeliverSteps, Zenon
    <3> QED
      BY <2>9, <3>3, Zenon DEF Delivers
  <2>19. d \in Word /\ d # 0
    <3>1. size \in Nat /\ size < 16387
      BY DEF Buffers
    <3> QED
      BY <2>2, <2>3, <2>11, <3>1 DEF Word
  <2> DEFINE T == {k \in 0..(count - 1) : Numbered(f[k + 1], k + 1, n, whole, ends, head, d, topic, part)}
  <2>20. 0 \in T
    <3>1. 0 \in 0..(count - 1) /\ 0 + 1 = 1
      OBVIOUS
    <3> QED
      BY <2>17, <2>18, <3>1, Zenon
  <2>21. ASSUME NEW k \in 0..((count - 1) - 1), k \in T PROVE k + 1 \in T
    <3>1. PICK j \in Nat : j = k + 1
      OBVIOUS
    <3>2. /\ j > 0 /\ j + 1 \in 2..count /\ (j + 1) - 1 = j /\ j \in 1..count /\ j + 1 \in 1..count
          /\ j \in 0..(count - 1)
      BY <3>1
    <3>3. Numbered(f[j], j, n, whole, ends, head, d, topic, part)
      BY <2>21, <3>1, Zenon
    <3>4. f[j + 1] = NextRead(f[j], reads[j + 1])
      BY <2>18, <3>2, Zenon
    <3>5. reads[j + 1] = SubSeq(m, ends[j] + 1, ends[j + 1])
      BY <2>9, <3>2, Zenon
    <3>6. PICK x \in Nat, y \in Nat : x = ends[j] /\ y = ends[j + 1]
      BY <2>5, <3>2
    <3>7. head < x /\ x < y /\ y <= whole
      <4>1. y - x \in 1..room
        BY <2>10, <3>2, <3>6, Zenon
      <4>2. head < x /\ y <= whole
        BY <2>8, <3>2, <3>6, Zenon
      <4> QED
        BY <4>1, <4>2
    <3>8. Len(reads[j + 1]) = y - x
      <4>1. reads[j + 1] = SubSeq(m, x + 1, y)
        BY <3>5, <3>6, Zenon
      <4>2. Len(SubSeq(m, x + 1, y)) = y - x
        BY <2>2, <2>4, <3>7
      <4> QED
        BY <4>1, <4>2, Zenon
    <3>9. Numbered(f[j + 1], j + 1, n, whole, ends, head, d, topic, part)
      <4>1. /\ j + 1 \in 1..Len(ends) /\ head < ends[j] /\ ends[j] < ends[j + 1] /\ ends[j + 1] <= whole
            /\ Len(reads[j + 1]) = ends[j + 1] - ends[j]
        BY <2>5, <3>2, <3>6, <3>7, <3>8, Zenon
      <4> HIDE DEF T
      <4> QED
        BY <2>3, <2>19, <3>2, <3>3, <3>4, <4>1, NumberedNext
    <3> QED
      BY <3>1, <3>2, <3>9, Zenon
  <2>22. count - 1 \in Nat /\ count - 1 \in 0..(count - 1) /\ (count - 1) + 1 = count
    OBVIOUS
  <2>23. count - 1 \in T
    <3> HIDE DEF T
    <3>1. \A k \in 0..(count - 1) : k \in T
      BY <2>20, <2>21, <2>22, UpTo
    <3> QED
      BY <2>22, <3>1
  <2>24. Numbered(f[count], count, n, whole, ends, head, d, topic, part)
    BY <2>22, <2>23, Zenon
  <2>25. PICK c, S, events :
        /\ IsState(f[count], c, n, whole, ends[count], d, ends[count] - head, events)
        /\ events \in Seq(S) /\ Len(events) = count
        /\ \A j \in 1..count : Counts(events[j], d, IF j = 1 THEN 0 ELSE ends[j - 1] - head, ends[j] - head)
        /\ events[1].topic = topic /\ events[1].data = part
    BY <2>24, Zenon DEF Numbered
  <2>26. es = events
    BY <1>4, <2>18, <2>25, StateFields
  <2> QED
    BY <2>2, <2>5, <2>11, <2>16, <2>25, <2>26, Zenon
<1>6. ASSUME m # Failed, Cuts(ends, head, Len(m), Len(buffer))
      PROVE  /\ es[1].topic = topic /\ es[1].data = SubSeq(data, 1, ends[1] - head)
             /\ Len(es) = Len(ends)
             /\ \A k \in 1..Len(ends) :
                   /\ es[k].total = Len(data) /\ es[k].offset = IF k = 1 THEN 0 ELSE ends[k - 1] - head
                   /\ es[k].len = ends[k] - head - (IF k = 1 THEN 0 ELSE ends[k - 1] - head)
  BY <1>5, <1>6, Zenon DEF Counts
<1> QED
  BY <1>1, <1>2, <1>3, <1>4, <1>6, Zenon DEF PublishIsDelivered

\* The values of the run are among those the theorems above are about.
LEMMA MCTextBytes == ASSUME NEW n \in Nat PROVE MCText(n) \in Seq(Octet) /\ Len(MCText(n)) = n
<1>1. \A i \in 1..n : 65 + (i % 20) \in Octet
  BY DEF Octet
<1> QED
  BY <1>1 DEF MCText

LEMMA MCSmall ==
    /\ MCSizes \subseteq Buffers /\ {10, 40, 200} \subseteq Buffers /\ MCId \in Word
    /\ MCTopic \in Seq(Octet) /\ MCData \subseteq Seq(Octet) /\ MCBuffer \in Seq(Octet)
<1>1. MCSizes \subseteq Buffers /\ {10, 40, 200} \subseteq Buffers
  BY DEF MCSizes, Buffers
<1>2. MCId \in Word
  BY DEF MCId, Word
<1>3. MCTopic \in Seq(Octet)
  BY MCTextBytes DEF MCTopic
<1>4. MCData \subseteq Seq(Octet)
  <2>1. \A n \in {0, 1, 2, 120, 121, 122, 123, 124} : n \in Nat
    OBVIOUS
  <2>2. \A n \in {0, 1, 2, 120, 121, 122, 123, 124} : MCText(n) \in Seq(Octet)
    BY <2>1, MCTextBytes
  <2>3. ASSUME NEW t \in MCData PROVE t \in Seq(Octet)
    <3>1. PICK n \in {0, 1, 2, 120, 121, 122, 123, 124} : t = MCText(n)
      BY Zenon DEF MCData
    <3> QED
      BY <2>2, <3>1, Zenon
  <2> QED
    BY <2>3
<1>5. MCBuffer \in Seq(Octet)
  <2>1. 0 \in Octet
    BY DEF Octet
  <2> QED
    BY <2>1 DEF MCBuffer
<1> QED
  BY <1>1, <1>2, <1>3, <1>4, <1>5

LEMMA MCInfosTyped == MCInfos \subseteq Infos
<1> SUFFICES ASSUME NEW info \in MCInfos PROVE info \in Infos
  OBVIOUS
<1>1. /\ <<>> \in Seq(Octet) /\ MCText(1) \in Seq(Octet) /\ MCText(2) \in Seq(Octet)
      /\ MCText(3) \in Seq(Octet) /\ MCText(120) \in Seq(Octet)
  BY MCTextBytes
<1>2. 120 \in Word /\ 300 \in Word
  BY DEF Word
<1>3. {0, 2} \subseteq 0..3
  OBVIOUS
<1>4. PICK texts : texts = Seq(Octet)
  OBVIOUS
<1>5. \A t \in {<<>>, MCText(1), MCText(2), MCText(3), MCText(120)} : t \in texts
  BY <1>1, <1>4
<1>6. PICK clients, names, words, topics, messages :
        /\ clients = {<<>>, MCText(1), MCText(120)} /\ names = {<<>>, MCText(2)}
        /\ words = {<<>>, MCText(3)} /\ topics = {<<>>, MCText(1)} /\ messages = {MCText(2)}
  OBVIOUS
<1>7. /\ clients \subseteq texts /\ names \subseteq texts /\ words \subseteq texts
      /\ topics \subseteq texts /\ messages \subseteq texts
  BY <1>5, <1>6
<1>8. info \in [clientId : clients, username : names, password : words,
                willTopic : topics, willMessage : messages, willQos : {0, 2},
                willRetain : BOOLEAN, clean : BOOLEAN, keepalive : {120, 300}]
  BY <1>6 DEF MCInfos
<1>9. info \in [clean : BOOLEAN, willTopic : texts, willMessage : texts, willQos : 0..3,
                willRetain : BOOLEAN, username : texts, password : texts, clientId : texts, keepalive : Word]
  BY <1>2, <1>7, <1>8
<1> QED
  BY <1>4, <1>9, Zenon DEF Infos

LEMMA MCEndsTyped == ASSUME NEW head \in Nat, NEW n \in Nat PROVE MCEnds(head, n) \subseteq Seq(Nat)
<1>1. <<head + n>> \in Seq(Nat)
  OBVIOUS
<1>2. ASSUME NEW i \in 1..(n - 1) PROVE <<head + i, head + n>> \in Seq(Nat)
  OBVIOUS
<1>3. ASSUME NEW c \in (1..(n - 1)) \X (1..(n - 1)) PROVE <<head + c[1], head + c[2], head + n>> \in Seq(Nat)
  <2>1. head + c[1] \in Nat /\ head + c[2] \in Nat /\ head + n \in Nat
    OBVIOUS
  <2> QED
    BY <2>1
<1> QED
  BY <1>1, <1>2, <1>3 DEF MCEnds

LEMMA PublishesCorrect == PublishReadBack
BY MCSmall, PublishRead DEF PublishReadBack

LEMMA IdsCorrect == IdsReadBack
<1>1. ASSUME NEW size \in MCSizes
      PROVE  /\ \A type \in {"PUBACK", "PUBREC", "PUBREL", "PUBCOMP"} : AckIsRead(size, type, MCId)
             /\ \A type \in {"PINGREQ", "PINGRESP", "DISCONNECT"} : EmptyFits(size, type)
  BY MCSmall, AckRead, EmptyRead
<1>2. ASSUME NEW size \in MCSizes, NEW topic \in MCData, NEW qos \in 0..2
      PROVE  SubscribeIsRead(size, topic, qos, MCId) /\ UnsubscribeFits(size, topic, MCId)
  BY MCSmall, SubscribeRead, UnsubscribeRead
<1>3. 0 \in 0..2
  OBVIOUS
<1> QED
  BY <1>1, <1>2, <1>3 DEF IdsReadBack

LEMMA ConnectsCorrect == ConnectReadBack
BY MCSmall, MCInfosTyped, ConnectRead DEF ConnectReadBack

LEMMA DeliveriesCorrect == DeliveredInParts
<1> SUFFICES ASSUME NEW n \in {1, 4, 126}, NEW qos \in 0..1,
                    NEW ends \in MCEnds(Len(MsgPublish(200, MCTopic, MCText(n), qos, 0, MCId)) - n, n)
             PROVE  PublishIsDelivered(200, MCBuffer, MCTopic, MCText(n), qos, 0, MCId, ends)
  BY DEF DeliveredInParts
<1>1. PICK data : data = MCText(n)
  OBVIOUS
<1>2. data \in Seq(Octet) /\ Len(data) = n
  BY <1>1, MCTextBytes
<1>3. PICK size, retain : size = 200 /\ retain = 0
  OBVIOUS
<1>4. size \in Buffers /\ retain \in 0..1 /\ qos \in 0..2
  BY <1>3 DEF Buffers
<1>5. PICK m : m = MsgPublish(size, MCTopic, data, qos, retain, MCId)
  OBVIOUS
<1>6. CASE m = Failed
  <2>1. PublishIsDelivered(size, MCBuffer, MCTopic, data, qos, retain, MCId, ends)
    BY <1>5, <1>6, Zenon DEF PublishIsDelivered
  <2> QED
    BY <1>1, <1>3, <2>1
<1>7. CASE m # Failed
  <2>1. Len(m) - n \in Nat
    <3>1. PublishMade(m, size, MCTopic, data, qos, retain, MCId)
      BY <1>2, <1>4, <1>5, <1>7, MCSmall, PublishBytes
    <3>2. PICK e \in {2, 3}, i \in {0, 2}, head \in Nat :
                 PublishLies(m, size, MCTopic, data, qos, retain, MCId, e, i, head)
      BY <3>1, Zenon DEF PublishMade
    <3>3. Len(m) = head + Len(data)
      BY <3>2, Zenon DEF PublishLies
    <3> QED
      BY <1>2, <3>3
  <2>2. ends \in MCEnds(Len(m) - n, n)
    BY <1>1, <1>3, <1>5
  <2>3. ends \in Seq(Nat)
    BY <2>1, <2>2, MCEndsTyped
  <2>4. PublishIsDelivered(size, MCBuffer, MCTopic, data, qos, retain, MCId, ends)
    BY <1>2, <1>4, <2>3, MCSmall, PublishDelivered
  <2> QED
    BY <1>1, <1>3, <2>4
<1> QED
  BY <1>6, <1>7

\* Whatever the task has sent or put in its outbox, the bytes of messages say what was meant,
\* to a broker and to the client's own readers (mqtt_msg.c, deliver_publish).
THEOREM EncodedCorrect == Spec => []Encoded
<1>1. Encoded
  BY PublishesCorrect, IdsCorrect, ConnectsCorrect, DeliveriesCorrect, Zenon DEF Encoded
<1> QED
  BY <1>1, PTL

=============================================================================
