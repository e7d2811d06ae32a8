-------------------------- MODULE MqttClientProofs --------------------------
(***************************************************************************)
(* Proofs about MqttClient for any number of callers, clients and sockets: *)
(* types, what the return of esp_mqtt_client_stop means, and that without  *)
(* overlapping calls of mqtt_app_start at most one client runs.            *)
(***************************************************************************)
EXTENDS MqttClient, TLAPS

\* The state after power-up has the right types.
LEMMA InitType == Init => TypeOK
<1> SUFFICES ASSUME Init PROVE TypeOK
  OBVIOUS
<1>1. /\ run \in [Clients -> BOOLEAN] /\ stoppedBit \in [Clients -> BOOLEAN]
      /\ sock \in [Clients -> BOOLEAN]
  BY Zenon DEF Init
<1>2. /\ state \in [Clients -> States] /\ task \in [Clients -> TaskPlaces]
      /\ pc \in [Callers -> CallerPlaces] /\ handle \in [Callers -> Clients \cup {NULL}]
      /\ \A c \in Callers : pc[c] \notin Holding
  BY DEF Init, States, TaskPlaces, CallerPlaces, Holding
<1>3. leaked \in Nat
  BY ClientAssumption DEF Init
<1>4. /\ g_mqttClient \in Clients \cup {NULL} /\ allocated \subseteq Clients
      /\ led \in BOOLEAN /\ overlapped \in BOOLEAN
      /\ ledReset \in {"due", "done", "dark"}
  BY Zenon DEF Init
<1>5. QED
  BY <1>1, <1>2, <1>3, <1>4 DEF TypeOK

\* So has the state after esp_restart.
LEMMA RebootType == Reboot => TypeOK'
<1> SUFFICES ASSUME Reboot PROVE TypeOK'
  OBVIOUS
<1>1. /\ run' \in [Clients -> BOOLEAN] /\ stoppedBit' \in [Clients -> BOOLEAN]
      /\ sock' \in [Clients -> BOOLEAN]
  BY Zenon DEF Reboot
<1>2. /\ state' \in [Clients -> States] /\ task' \in [Clients -> TaskPlaces]
      /\ pc' \in [Callers -> CallerPlaces] /\ handle' \in [Callers -> Clients \cup {NULL}]
      /\ \A c \in Callers : pc'[c] \notin Holding
  BY DEF Reboot, States, TaskPlaces, CallerPlaces, Holding
<1>3. leaked' \in Nat
  BY ClientAssumption DEF Reboot
<1>4. /\ g_mqttClient' \in Clients \cup {NULL} /\ allocated' \subseteq Clients
      /\ led' \in BOOLEAN /\ overlapped' \in BOOLEAN
      /\ ledReset' \in {"due", "done", "dark"}
  BY Zenon DEF Reboot
<1>5. QED
  BY <1>1, <1>2, <1>3, <1>4 DEF TypeOK

\* A new socket keeps the types of the transport and of the count of lost ones.
LEMMA SocketType ==
  ASSUME TypeOK, NEW k \in Clients, NEW keep \in BOOLEAN, NewSocket(k, keep)
  PROVE  sock' \in [Clients -> BOOLEAN] /\ leaked' \in Nat
<1>1. sock' \in [Clients -> BOOLEAN]
  BY DEF TypeOK, NewSocket
<1>2. leaked' \in Nat
  BY DEF TypeOK, NewSocket
<1> QED BY <1>1, <1>2

\* Every step of the life cycle keeps the types of the state of mqtt_client.c
\* and of mqtt_app_start.
LEMMA TypeStep == TypeOK /\ [Next]_vars => TypeOK'
<1> SUFFICES ASSUME TypeOK, [Next]_vars PROVE TypeOK'
  OBVIOUS
<1> USE ClientAssumption DEF TypeOK, Callers, States, TaskPlaces, CallerPlaces, Holding
<1>1. CASE GotIp
  BY <1>1 DEF GotIp, Enter, clientVars, appVars, callerVars
<1>2. CASE CfgInit
  BY <1>2 DEF CfgInit, clientVars, appVars, callerVars
<1>3. ASSUME NEW c \in CmdTasks, Command(c) PROVE TypeOK'
  BY <1>3 DEF Command, Enter, clientVars, appVars, callerVars
<1>4. ASSUME NEW c \in Callers, StopRequest(c) PROVE TypeOK'
  BY <1>4 DEF StopRequest, clientVars, appVars, callerVars
<1>5. ASSUME NEW c \in Callers, StopWait(c) PROVE TypeOK'
  BY <1>5 DEF StopWait, clientVars, appVars, callerVars
<1>6. ASSUME NEW c \in Callers, SetNull(c) PROVE TypeOK'
  BY <1>6 DEF SetNull, clientVars, appVars, callerVars
<1>7. ASSUME NEW c \in Callers, ReadCfg(c) PROVE TypeOK'
  <2>1. CASE Reboot
    BY <2>1, RebootType
  <2>2. CASE ~Reboot
    BY <1>7, <2>2 DEF ReadCfg, Return, clientVars, appVars, callerVars
  <2>3. QED
    BY <2>1, <2>2
<1>8. ASSUME NEW c \in Callers, InitClient(c) PROVE TypeOK'
  <2>1. CASE Reboot
    BY <2>1, RebootType
  <2>2. CASE ~Reboot
    BY <1>8, <2>2 DEF InitClient, clientVars, appVars, callerVars
  <2>3. QED
    BY <2>1, <2>2
<1>9. ASSUME NEW c \in Callers, StartCreate(c) PROVE TypeOK'
  BY <1>9 DEF StartCreate, Return, clientVars, appVars, callerVars
<1>10. ASSUME NEW c \in Callers, StartClear(c) PROVE TypeOK'
  BY <1>10 DEF StartClear, Return, clientVars, appVars, callerVars
<1>11. ASSUME NEW k \in Clients, TaskBegin(k) PROVE TypeOK'
  BY <1>11 DEF TaskBegin, clientVars, appVars, callerVars
<1>12. ASSUME NEW k \in Clients, TaskInit(k) PROVE TypeOK'
  BY <1>12 DEF TaskInit, clientVars, appVars, callerVars
<1>13. ASSUME NEW k \in Clients, TaskClear(k) PROVE TypeOK'
  BY <1>13 DEF TaskClear, clientVars, appVars, callerVars
<1>14. ASSUME NEW k \in Clients, LoopHead(k) PROVE TypeOK'
  BY <1>14 DEF LoopHead, clientVars, appVars, callerVars
<1>15. ASSUME NEW k \in Clients, WaitTimeout(k) PROVE TypeOK'
  BY <1>15 DEF WaitTimeout, clientVars, appVars, callerVars
<1>16. ASSUME NEW k \in Clients, ConnectNoHost(k) PROVE TypeOK'
  BY <1>16 DEF ConnectNoHost, Abort, clientVars, appVars, callerVars
<1>17. ASSUME NEW k \in Clients, ConnectNoSocket(k) PROVE TypeOK'
  BY <1>17, RebootType DEF ConnectNoSocket
<1>18. ASSUME NEW k \in Clients, ConnectRefused(k) PROVE TypeOK'
  <2>1. sock' \in [Clients -> BOOLEAN] /\ leaked' \in Nat
    BY <1>18, SocketType DEF ConnectRefused
  <2>2. QED
    BY <1>18, <2>1 DEF ConnectRefused, Abort, clientVars, appVars, callerVars
<1>19. ASSUME NEW k \in Clients, ConnectNoAck(k) PROVE TypeOK'
  <2>1. sock' \in [Clients -> BOOLEAN] /\ leaked' \in Nat
    BY <1>19, SocketType DEF ConnectNoAck
  <2>2. QED
    BY <1>19, <2>1 DEF ConnectNoAck, Abort, clientVars, appVars, callerVars
<1>20. ASSUME NEW k \in Clients, Connected(k) PROVE TypeOK'
  <2>1. sock' \in [Clients -> BOOLEAN] /\ leaked' \in Nat
    BY <1>20, SocketType DEF Connected
  <2>2. QED
    BY <1>20, <2>1 DEF Connected, clientVars, appVars, callerVars
<1>21. ASSUME NEW k \in Clients, Receive(k) PROVE TypeOK'
  <2>1. CASE Abort(k)
    BY <1>21, <2>1 DEF Receive, Abort, clientVars, appVars, callerVars
  <2>2. CASE ~Abort(k)
    <3>1. task' = [task EXCEPT ![k] = "loop"] /\ UNCHANGED <<state, led>>
      BY <1>21, <2>2 DEF Receive
    <3>2. QED
      BY <1>21, <3>1 DEF Receive, clientVars, appVars, callerVars
  <2>3. QED
    BY <2>1, <2>2
<1>22. ASSUME NEW k \in Clients, TaskClose(k) PROVE TypeOK'
  BY <1>22 DEF TaskClose, clientVars, appVars, callerVars
<1>23. ASSUME NEW k \in Clients, TaskSetBit(k) PROVE TypeOK'
  BY <1>23 DEF TaskSetBit, clientVars, appVars, callerVars
<1>24. CASE UNCHANGED vars
  BY <1>24 DEF vars, clientVars, appVars, callerVars
<1>25. QED
  BY <1>1, <1>2, <1>3, <1>4, <1>5, <1>6, <1>7, <1>8, <1>9, <1>10,
     <1>11, <1>12, <1>13, <1>14, <1>15, <1>16, <1>17, <1>18, <1>19, <1>20, <1>21, <1>22, <1>23, <1>24
     DEF Next, AppStep, TaskStep, ConnectStep

\* TypeOK holds in every state of the life cycle.
THEOREM TypeCorrect == Spec => []TypeOK
  BY InitType, TypeStep, PTL DEF Spec

-----------------------------------------------------------------------------
\* The state after power-up satisfies the invariant of stop.
LEMMA InitStop == Init => StopInv
<1> SUFFICES ASSUME Init PROVE StopInv
  OBVIOUS
<1>1. TypeOK
  BY InitType
<1>2. HandlesAllocated /\ StartOnce /\ EndOfTask /\ StopMeansStopped
  BY DEF Init, HandlesAllocated, StartOnce, EndOfTask, StopMeansStopped, Holding
<1>3. QED
  BY <1>1, <1>2 DEF StopInv

\* So does the state after esp_restart.
LEMMA RebootStop == Reboot => StopInv'
<1> SUFFICES ASSUME Reboot PROVE StopInv'
  OBVIOUS
<1>1. TypeOK'
  BY RebootType
<1>2. (HandlesAllocated /\ StartOnce /\ EndOfTask /\ StopMeansStopped)'
  BY DEF Reboot, HandlesAllocated, StartOnce, EndOfTask, StopMeansStopped, Holding
<1>3. QED
  BY <1>1, <1>2 DEF StopInv

\* Every step keeps what the return of esp_mqtt_client_stop rests on: fresh
\* handles, one starter per client, and the meaning of STOPPED_BIT.
LEMMA StopStep == StopInv /\ [Next]_vars => StopInv'
<1> SUFFICES ASSUME StopInv, [Next]_vars PROVE StopInv'
  OBVIOUS
<1>0. TypeOK'
  BY TypeStep DEF StopInv
<1> USE <1>0, ClientAssumption DEF StopInv, HandlesAllocated, StartOnce, EndOfTask,
        StopMeansStopped, Holding
<1>1. CASE GotIp
  BY <1>1 DEF GotIp, Enter, TypeOK, clientVars, appVars, callerVars
<1>2. CASE CfgInit
  BY <1>2 DEF CfgInit, TypeOK, clientVars, appVars, callerVars
<1>3. ASSUME NEW c \in CmdTasks, Command(c) PROVE StopInv'
  BY <1>3 DEF Command, Enter, TypeOK, clientVars, appVars, callerVars
<1>4. ASSUME NEW c \in Callers, StopRequest(c) PROVE StopInv'
  BY <1>4 DEF StopRequest, TypeOK, clientVars, appVars, callerVars
<1>5. ASSUME NEW c \in Callers, StopWait(c) PROVE StopInv'
  BY <1>5 DEF StopWait, TypeOK, clientVars, appVars, callerVars
<1>6. ASSUME NEW c \in Callers, SetNull(c) PROVE StopInv'
  BY <1>6 DEF SetNull, TypeOK, clientVars, appVars, callerVars
<1>7. ASSUME NEW c \in Callers, ReadCfg(c) PROVE StopInv'
  <2>1. CASE Reboot
    BY <2>1, RebootStop
  <2>2. CASE ~Reboot
    BY <1>7, <2>2 DEF ReadCfg, Return, TypeOK, clientVars, appVars, callerVars
  <2>3. QED
    BY <2>1, <2>2
<1>8. ASSUME NEW c \in Callers, InitClient(c) PROVE StopInv'
  <2>1. CASE Reboot
    BY <2>1, RebootStop
  <2>2. CASE ~Reboot
    BY <1>8, <2>2 DEF InitClient, TypeOK, clientVars, appVars, callerVars
  <2>3. QED
    BY <2>1, <2>2
<1>9. ASSUME NEW c \in Callers, StartCreate(c) PROVE StopInv'
  BY <1>9 DEF StartCreate, Return, TypeOK, clientVars, appVars, callerVars
<1>10. ASSUME NEW c \in Callers, StartClear(c) PROVE StopInv'
  BY <1>10 DEF StartClear, Return, TypeOK, clientVars, appVars, callerVars
<1>11. ASSUME NEW k \in Clients, TaskBegin(k) PROVE StopInv'
  BY <1>11 DEF TaskBegin, TypeOK, clientVars, appVars, callerVars
<1>12. ASSUME NEW k \in Clients, TaskInit(k) PROVE StopInv'
  BY <1>12 DEF TaskInit, TypeOK, clientVars, appVars, callerVars
<1>13. ASSUME NEW k \in Clients, TaskClear(k) PROVE StopInv'
  BY <1>13 DEF TaskClear, TypeOK, clientVars, appVars, callerVars
<1>14. ASSUME NEW k \in Clients, LoopHead(k) PROVE StopInv'
  BY <1>14 DEF LoopHead, TypeOK, clientVars, appVars, callerVars
<1>15. ASSUME NEW k \in Clients, WaitTimeout(k) PROVE StopInv'
  BY <1>15 DEF WaitTimeout, TypeOK, clientVars, appVars, callerVars
<1>16. ASSUME NEW k \in Clients, ConnectNoHost(k) PROVE StopInv'
  BY <1>16 DEF ConnectNoHost, Abort, TypeOK, clientVars, appVars, callerVars
<1>17. ASSUME NEW k \in Clients, ConnectNoSocket(k) PROVE StopInv'
  BY <1>17, RebootStop DEF ConnectNoSocket
<1>18. ASSUME NEW k \in Clients, ConnectRefused(k) PROVE StopInv'
  BY <1>18 DEF ConnectRefused, Abort, NewSocket, TypeOK, clientVars, appVars, callerVars
<1>19. ASSUME NEW k \in Clients, ConnectNoAck(k) PROVE StopInv'
  BY <1>19 DEF ConnectNoAck, Abort, NewSocket, TypeOK, clientVars, appVars, callerVars
<1>20. ASSUME NEW k \in Clients, Connected(k) PROVE StopInv'
  BY <1>20 DEF Connected, NewSocket, TypeOK, clientVars, appVars, callerVars
<1>21. ASSUME NEW k \in Clients, Receive(k) PROVE StopInv'
  BY <1>21 DEF Receive, Abort, TypeOK, clientVars, appVars, callerVars
<1>22. ASSUME NEW k \in Clients, TaskClose(k) PROVE StopInv'
  BY <1>22 DEF TaskClose, TypeOK, clientVars, appVars, callerVars
<1>23. ASSUME NEW k \in Clients, TaskSetBit(k) PROVE StopInv'
  BY <1>23 DEF TaskSetBit, TypeOK, clientVars, appVars, callerVars
<1>24. CASE UNCHANGED vars
  BY <1>24 DEF vars, TypeOK, clientVars, appVars, callerVars
<1>25. QED
  BY <1>1, <1>2, <1>3, <1>4, <1>5, <1>6, <1>7, <1>8, <1>9, <1>10,
     <1>11, <1>12, <1>13, <1>14, <1>15, <1>16, <1>17, <1>18, <1>19, <1>20, <1>21, <1>22, <1>23, <1>24
     DEF Next, AppStep, TaskStep, ConnectStep

\* In every state of the life cycle: when esp_mqtt_client_stop has returned to
\* a caller, the task of that client is over and its socket closed, for any
\* number of concurrent callers and clients.
THEOREM StopCorrect == Spec => []StopMeansStopped
<1>1. StopInv => StopMeansStopped
  BY DEF StopInv
<1>2. QED
  BY <1>1, InitStop, StopStep, PTL DEF Spec

-----------------------------------------------------------------------------
\* The state after power-up has no running client.
LEMMA InitSingle == Init => SingleInv
  BY InitStop DEF Init, SingleInv, SingleClient, Alone, Running, InApp, Holding

\* Nor has the state after esp_restart.
LEMMA RebootSingle == Reboot => SingleInv'
  BY RebootStop DEF Reboot, SingleInv, SingleClient, Alone, Running, InApp, Holding

\* Entering mqtt_app_start keeps the invariant: if nobody else was inside, the
\* value read from g_mqttClient is the only running client or there is none.
LEMMA EnterSingle ==
  ASSUME SingleInv, StopInv', NEW c \in Callers, Enter(c),
         UNCHANGED <<clientVars, appVars>>
  PROVE  SingleInv'
<1> USE ClientAssumption DEF clientVars, appVars
<1>1. SingleClient'
  BY DEF SingleInv, SingleClient, Enter, Running
<1>2. ASSUME ~overlapped' PROVE \A d \in Callers : ~InApp(d) /\ (d # c => ~InApp(d)')
  BY <1>2 DEF Enter, InApp, SingleInv, StopInv, TypeOK
<1>3. ASSUME ~overlapped', NEW d \in Callers
      PROVE  /\ pc'[d] \in Holding => handle'[d] = g_mqttClient'
             /\ pc'[d] \in {"cfg", "init"} => g_mqttClient' = NULL
             /\ pc'[d] \in {"setnull", "cfg", "init", "create"} =>
                   \A k \in Clients : ~Running(k)'
  <2>1. CASE d = c
    BY <1>3, <2>1 DEF Enter, Holding, SingleInv, SingleClient, StopInv, TypeOK, Running
  <2>2. CASE d # c
    BY <1>2, <1>3, <2>2 DEF InApp, Holding
  <2>3. QED
    BY <2>1, <2>2
<1>4. Alone'
  BY <1>2, <1>3 DEF Alone, InApp
<1>5. QED
  BY <1>1, <1>4 DEF SingleInv

\* Every step keeps the caller inside mqtt_app_start alone, and the running
\* client the published one, unless it makes two calls overlap.
LEMMA SingleStep == SingleInv /\ [Next]_vars => SingleInv'
<1> SUFFICES ASSUME SingleInv, [Next]_vars PROVE SingleInv'
  OBVIOUS
<1>0. StopInv'
  BY StopStep DEF SingleInv
<1> USE <1>0, ClientAssumption DEF SingleInv, SingleClient, Alone, Running, InApp,
        Holding
<1>1. CASE GotIp
  BY <1>1, EnterSingle DEF GotIp, Callers
<1>2. CASE CfgInit
  BY <1>2 DEF CfgInit, StopInv, StopMeansStopped, TypeOK, Callers, clientVars, appVars, callerVars
<1>3. ASSUME NEW c \in CmdTasks, Command(c) PROVE SingleInv'
  BY <1>3, EnterSingle DEF Command, Callers
<1>4. ASSUME NEW c \in Callers, StopRequest(c) PROVE SingleInv'
  BY <1>4 DEF StopRequest, StopInv, StopMeansStopped, TypeOK, Callers, clientVars, appVars, callerVars
<1>5. ASSUME NEW c \in Callers, StopWait(c) PROVE SingleInv'
  BY <1>5 DEF StopWait, StopInv, StopMeansStopped, TypeOK, Callers, clientVars, appVars, callerVars
<1>6. ASSUME NEW c \in Callers, SetNull(c) PROVE SingleInv'
  BY <1>6 DEF SetNull, StopInv, StopMeansStopped, TypeOK, Callers, clientVars, appVars, callerVars
<1>7. ASSUME NEW c \in Callers, ReadCfg(c) PROVE SingleInv'
  <2>1. CASE Reboot
    BY <2>1, RebootSingle
  <2>2. CASE ~Reboot
    BY <1>7, <2>2 DEF ReadCfg, Return, StopInv, StopMeansStopped, TypeOK, Callers, clientVars, appVars, callerVars
  <2>3. QED
    BY <2>1, <2>2
<1>8. ASSUME NEW c \in Callers, InitClient(c) PROVE SingleInv'
  <2>1. CASE Reboot
    BY <2>1, RebootSingle
  <2>2. CASE ~Reboot
    BY <1>8, <2>2 DEF InitClient, StopInv, StopMeansStopped, TypeOK, Callers, clientVars, appVars, callerVars
  <2>3. QED
    BY <2>1, <2>2
<1>9. ASSUME NEW c \in Callers, StartCreate(c) PROVE SingleInv'
  BY <1>9 DEF StartCreate, Return, StopInv, StopMeansStopped, TypeOK, Callers, clientVars, appVars, callerVars
<1>10. ASSUME NEW c \in Callers, StartClear(c) PROVE SingleInv'
  BY <1>10 DEF StartClear, Return, StopInv, StopMeansStopped, TypeOK, Callers, clientVars, appVars, callerVars
<1>11. ASSUME NEW k \in Clients, TaskBegin(k) PROVE SingleInv'
  BY <1>11 DEF TaskBegin, StopInv, StopMeansStopped, TypeOK, Callers, clientVars, appVars, callerVars
<1>12. ASSUME NEW k \in Clients, TaskInit(k) PROVE SingleInv'
  BY <1>12 DEF TaskInit, StopInv, StopMeansStopped, TypeOK, Callers, clientVars, appVars, callerVars
<1>13. ASSUME NEW k \in Clients, TaskClear(k) PROVE SingleInv'
  BY <1>13 DEF TaskClear, StopInv, StopMeansStopped, TypeOK, Callers, clientVars, appVars, callerVars
<1>14. ASSUME NEW k \in Clients, LoopHead(k) PROVE SingleInv'
  BY <1>14 DEF LoopHead, StopInv, StopMeansStopped, TypeOK, Callers, clientVars, appVars, callerVars
<1>15. ASSUME NEW k \in Clients, WaitTimeout(k) PROVE SingleInv'
  BY <1>15 DEF WaitTimeout, StopInv, StopMeansStopped, TypeOK, Callers, clientVars, appVars, callerVars
<1>16. ASSUME NEW k \in Clients, ConnectNoHost(k) PROVE SingleInv'
  BY <1>16 DEF ConnectNoHost, Abort, StopInv, StopMeansStopped, TypeOK, Callers, clientVars, appVars, callerVars
<1>17. ASSUME NEW k \in Clients, ConnectNoSocket(k) PROVE SingleInv'
  BY <1>17, RebootSingle DEF ConnectNoSocket
<1>18. ASSUME NEW k \in Clients, ConnectRefused(k) PROVE SingleInv'
  BY <1>18 DEF ConnectRefused, Abort, NewSocket, StopInv, StopMeansStopped, TypeOK, Callers, clientVars, appVars, callerVars
<1>19. ASSUME NEW k \in Clients, ConnectNoAck(k) PROVE SingleInv'
  BY <1>19 DEF ConnectNoAck, Abort, NewSocket, StopInv, StopMeansStopped, TypeOK, Callers, clientVars, appVars, callerVars
<1>20. ASSUME NEW k \in Clients, Connected(k) PROVE SingleInv'
  BY <1>20 DEF Connected, NewSocket, StopInv, StopMeansStopped, TypeOK, Callers, clientVars, appVars, callerVars
<1>21. ASSUME NEW k \in Clients, Receive(k) PROVE SingleInv'
  BY <1>21 DEF Receive, Abort, StopInv, StopMeansStopped, TypeOK, Callers, clientVars, appVars, callerVars
<1>22. ASSUME NEW k \in Clients, TaskClose(k) PROVE SingleInv'
  BY <1>22 DEF TaskClose, StopInv, StopMeansStopped, TypeOK, Callers, clientVars, appVars, callerVars
<1>23. ASSUME NEW k \in Clients, TaskSetBit(k) PROVE SingleInv'
  BY <1>23 DEF TaskSetBit, StopInv, StopMeansStopped, TypeOK, Callers, clientVars, appVars, callerVars
<1>24. CASE UNCHANGED vars
  BY <1>24 DEF vars, StopInv, StopMeansStopped, TypeOK, Callers, clientVars, appVars, callerVars
<1>25. QED
  BY <1>1, <1>2, <1>3, <1>4, <1>5, <1>6, <1>7, <1>8, <1>9, <1>10,
     <1>11, <1>12, <1>13, <1>14, <1>15, <1>16, <1>17, <1>18, <1>19, <1>20, <1>21, <1>22, <1>23, <1>24
     DEF Next, AppStep, TaskStep, ConnectStep

\* As long as no two calls of mqtt_app_start overlapped, every running
\* esp_mqtt_task belongs to the client g_mqttClient names.
THEOREM SingleCorrect == Spec => []SingleClient
<1>1. SingleInv => SingleClient
  BY DEF SingleInv
<1>2. QED
  BY <1>1, InitSingle, SingleStep, PTL DEF Spec

-----------------------------------------------------------------------------
\* Every step but cfgInit's under a live session keeps the LED lit while the
\* only session is up.
LEMMA LedStep == SingleInv /\ LitWhileUp /\ [Next]_vars => LitWhileUp'
<1> SUFFICES ASSUME SingleInv, LitWhileUp, [Next]_vars PROVE LitWhileUp'
  OBVIOUS
<1>r. Reboot => LitWhileUp'
  BY DEF Reboot, LitWhileUp, SessionUp, Running
<1> USE ClientAssumption DEF LitWhileUp, SessionUp, Running
<1>1. CASE GotIp
  BY <1>1 DEF GotIp, Enter, SingleInv, SingleClient, StopInv, TypeOK, Callers, clientVars, appVars, callerVars
<1>2. CASE CfgInit
  BY <1>2 DEF CfgInit, SingleInv, SingleClient, StopInv, TypeOK, Callers, clientVars, appVars, callerVars
<1>3. ASSUME NEW c \in CmdTasks, Command(c) PROVE LitWhileUp'
  BY <1>3 DEF Command, Enter, SingleInv, SingleClient, StopInv, TypeOK, Callers, clientVars, appVars, callerVars
<1>4. ASSUME NEW c \in Callers, StopRequest(c) PROVE LitWhileUp'
  BY <1>4 DEF StopRequest, SingleInv, SingleClient, StopInv, TypeOK, Callers, clientVars, appVars, callerVars
<1>5. ASSUME NEW c \in Callers, StopWait(c) PROVE LitWhileUp'
  BY <1>5 DEF StopWait, SingleInv, SingleClient, StopInv, TypeOK, Callers, clientVars, appVars, callerVars
<1>6. ASSUME NEW c \in Callers, SetNull(c) PROVE LitWhileUp'
  BY <1>6 DEF SetNull, SingleInv, SingleClient, StopInv, TypeOK, Callers, clientVars, appVars, callerVars
<1>7. ASSUME NEW c \in Callers, ReadCfg(c) PROVE LitWhileUp'
  <2>1. CASE Reboot
    BY <2>1, <1>r
  <2>2. CASE ~Reboot
    BY <1>7, <2>2 DEF ReadCfg, Return, SingleInv, SingleClient, StopInv, TypeOK, Callers, clientVars, appVars, callerVars
  <2>3. QED
    BY <2>1, <2>2
<1>8. ASSUME NEW c \in Callers, InitClient(c) PROVE LitWhileUp'
  <2>1. CASE Reboot
    BY <2>1, <1>r
  <2>2. CASE ~Reboot
    BY <1>8, <2>2 DEF InitClient, SingleInv, SingleClient, StopInv, TypeOK, Callers, clientVars, appVars, callerVars
  <2>3. QED
    BY <2>1, <2>2
<1>9. ASSUME NEW c \in Callers, StartCreate(c) PROVE LitWhileUp'
  BY <1>9 DEF StartCreate, Return, SingleInv, SingleClient, StopInv, TypeOK, Callers, clientVars, appVars, callerVars
<1>10. ASSUME NEW c \in Callers, StartClear(c) PROVE LitWhileUp'
  BY <1>10 DEF StartClear, Return, SingleInv, SingleClient, StopInv, TypeOK, Callers, clientVars, appVars, callerVars
<1>11. ASSUME NEW k \in Clients, TaskBegin(k) PROVE LitWhileUp'
  BY <1>11 DEF TaskBegin, SingleInv, SingleClient, StopInv, TypeOK, Callers, clientVars, appVars, callerVars
<1>12. ASSUME NEW k \in Clients, TaskInit(k) PROVE LitWhileUp'
  BY <1>12 DEF TaskInit, SingleInv, SingleClient, StopInv, TypeOK, Callers, clientVars, appVars, callerVars
<1>13. ASSUME NEW k \in Clients, TaskClear(k) PROVE LitWhileUp'
  BY <1>13 DEF TaskClear, SingleInv, SingleClient, StopInv, TypeOK, Callers, clientVars, appVars, callerVars
<1>14. ASSUME NEW k \in Clients, LoopHead(k) PROVE LitWhileUp'
  BY <1>14 DEF LoopHead, SingleInv, SingleClient, StopInv, TypeOK, Callers, clientVars, appVars, callerVars
<1>15. ASSUME NEW k \in Clients, WaitTimeout(k) PROVE LitWhileUp'
  BY <1>15 DEF WaitTimeout, SingleInv, SingleClient, StopInv, TypeOK, Callers, clientVars, appVars, callerVars
<1>16. ASSUME NEW k \in Clients, ConnectNoHost(k) PROVE LitWhileUp'
  BY <1>16 DEF ConnectNoHost, Abort, SingleInv, SingleClient, StopInv, TypeOK, Callers, clientVars, appVars, callerVars
<1>17. ASSUME NEW k \in Clients, ConnectNoSocket(k) PROVE LitWhileUp'
  BY <1>17, <1>r DEF ConnectNoSocket
<1>18. ASSUME NEW k \in Clients, ConnectRefused(k) PROVE LitWhileUp'
  BY <1>18 DEF ConnectRefused, Abort, NewSocket, SingleInv, SingleClient, StopInv, TypeOK, Callers, clientVars, appVars, callerVars
<1>19. ASSUME NEW k \in Clients, ConnectNoAck(k) PROVE LitWhileUp'
  BY <1>19 DEF ConnectNoAck, Abort, NewSocket, SingleInv, SingleClient, StopInv, TypeOK, Callers, clientVars, appVars, callerVars
<1>20. ASSUME NEW k \in Clients, Connected(k) PROVE LitWhileUp'
  BY <1>20 DEF Connected, NewSocket, SingleInv, SingleClient, StopInv, TypeOK, Callers, clientVars, appVars, callerVars
<1>21. ASSUME NEW k \in Clients, Receive(k) PROVE LitWhileUp'
  BY <1>21 DEF Receive, Abort, SingleInv, SingleClient, StopInv, TypeOK, Callers, clientVars, appVars, callerVars
<1>22. ASSUME NEW k \in Clients, TaskClose(k) PROVE LitWhileUp'
  BY <1>22 DEF TaskClose, SingleInv, SingleClient, StopInv, TypeOK, Callers, clientVars, appVars, callerVars
<1>23. ASSUME NEW k \in Clients, TaskSetBit(k) PROVE LitWhileUp'
  BY <1>23 DEF TaskSetBit, SingleInv, SingleClient, StopInv, TypeOK, Callers, clientVars, appVars, callerVars
<1>24. CASE UNCHANGED vars
  BY <1>24 DEF vars, SingleInv, SingleClient, StopInv, TypeOK, Callers, clientVars, appVars, callerVars
<1>25. QED
  BY <1>1, <1>2, <1>3, <1>4, <1>5, <1>6, <1>7, <1>8, <1>9, <1>10,
     <1>11, <1>12, <1>13, <1>14, <1>15, <1>16, <1>17, <1>18, <1>19, <1>20, <1>21, <1>22, <1>23, <1>24
     DEF Next, AppStep, TaskStep, ConnectStep

\* As long as no two calls of mqtt_app_start overlapped, the MQTT LED is lit
\* during every session but one that cfgInit darkened, whatever the clients
\* stopped before it did.  (The LED may be lit without a session.)
THEOREM LedCorrect == Spec => []LitWhileUp
<1>1. Init => LitWhileUp
  BY DEF Init, LitWhileUp, SessionUp, Running
<1>2. QED
  BY <1>1, InitSingle, SingleStep, LedStep, PTL DEF Spec

=============================================================================
