------------------------------ MODULE MqttClient ------------------------------
(***************************************************************************)
(* Life cycle of the MQTT client of the firmware: mqtt_app_start           *)
(* (main/trans_data.c), the esp_mqtt_client_init / _start / _stop          *)
(* handshake and the main loop of esp_mqtt_task                            *)
(* (components/espmqtt/mqtt_client.c), and the TCP transport under it      *)
(* (components/espmqtt/lib/transport_tcp.c).                               *)
(*                                                                         *)
(* mqtt_app_start is called by the system event loop (an interface came up *)
(* or went down) and by the tasks that run do_command (debug UART, web     *)
(* server).  The build is dual core (CONFIG_FREERTOS_UNICORE is off) and   *)
(* nothing is locked, so every access to shared memory is a step.          *)
(***************************************************************************)
EXTENDS Integers, FiniteSets

CONSTANTS
    EvLoop,         \* the system event loop task
    CmdTasks,       \* the tasks that run do_command
    Clients,        \* the esp_mqtt_client objects that fit into the heap
    NULL,           \* the null handle
    MaxSockets,     \* sockets of the lwIP pool left to MQTT
    AutoReconnect   \* client->config->auto_reconnect

ASSUME ClientAssumption ==
    /\ NULL \notin Clients
    /\ EvLoop \notin CmdTasks
    /\ MaxSockets \in Nat
    /\ AutoReconnect \in BOOLEAN

VARIABLES
    g_mqttClient,   \* the handle the application publishes
    allocated,      \* handles returned by esp_mqtt_client_init since boot
    run,            \* client->run
    state,          \* client->state
    stoppedBit,     \* STOPPED_BIT of client->status_bits
    task,           \* where esp_mqtt_task of the client is
    sock,           \* does the transport of the client own a socket?
    leaked,         \* open sockets no transport knows any more
    led,            \* the MQTT LED
    pc,             \* where each caller is
    handle,         \* the handle each caller holds in a register
    ledReset,       \* cfgInit's switch-off of the LED: due, done, or done under a
                    \* session that was up and has had a dark LED since
    overlapped      \* history: did two calls of mqtt_app_start overlap since boot?

clientVars == <<run, state, stoppedBit, task, sock>>
appVars == <<g_mqttClient, allocated, leaked, led>>
callerVars == <<pc, handle, overlapped>>
vars == <<clientVars, appVars, callerVars, ledReset>>

Callers == {EvLoop} \cup CmdTasks

States == {"UNKNOW", "INIT", "CONNECTED", "WAIT_TIMEOUT"}

\* esp_mqtt_task: not created; before line 592, 606, 607; at the loop head;
\* inside transport_connect / mqtt_process_receive; at 664, 665; deleted.
TaskPlaces == {"none", "begin", "init", "clear", "loop", "connect", "receive",
               "close", "setbit", "done"}

\* A caller: outside; before 687, 688; blocked in xEventGroupWaitBits; before
\* 115, 118, 141; in esp_mqtt_client_start before 676 and before 680.
CallerPlaces == {"idle", "stop", "wait", "blocked", "setnull", "cfg", "init",
                 "create", "clear"}

InApp(c) == pc[c] # "idle"

Running(k) == task[k] \notin {"none", "done"}

SessionUp(k) == Running(k) /\ state[k] = "CONNECTED"

SocketsInUse == Cardinality({k \in Clients : sock[k]}) + leaked

-----------------------------------------------------------------------------
(* Boot and restart *)

Init ==
    /\ g_mqttClient = NULL
    /\ allocated = {}
    /\ run = [k \in Clients |-> FALSE]
    /\ state = [k \in Clients |-> "UNKNOW"]
    /\ stoppedBit = [k \in Clients |-> FALSE]
    /\ task = [k \in Clients |-> "none"]
    /\ sock = [k \in Clients |-> FALSE]
    /\ leaked = 0
    /\ led = FALSE
    /\ ledReset = "due"
    /\ pc = [c \in Callers |-> "idle"]
    /\ handle = [c \in Callers |-> NULL]
    /\ overlapped = FALSE

\* esp_restart, a failed mem_assert or a panic: RAM is lost, app_main starts over.
Reboot ==
    /\ g_mqttClient' = NULL
    /\ allocated' = {}
    /\ run' = [k \in Clients |-> FALSE]
    /\ state' = [k \in Clients |-> "UNKNOW"]
    /\ stoppedBit' = [k \in Clients |-> FALSE]
    /\ task' = [k \in Clients |-> "none"]
    /\ sock' = [k \in Clients |-> FALSE]
    /\ leaked' = 0
    /\ led' = FALSE
    /\ ledReset' = "due"
    /\ pc' = [c \in Callers |-> "idle"]
    /\ handle' = [c \in Callers |-> NULL]
    /\ overlapped' = FALSE

\* app_main calls cfgInit long after app_eth and after the tasks that run
\* do_command exist: a session may be up when it switches the LED off.
CfgInit ==
    /\ ledReset = "due"
    /\ led' = FALSE
    /\ ledReset' = IF \E k \in Clients : SessionUp(k) THEN "dark" ELSE "done"
    /\ UNCHANGED <<clientVars, g_mqttClient, allocated, leaked, callerVars>>

-----------------------------------------------------------------------------
(* mqtt_app_start, step by step *)

\* Fault variant of Enter: an existing client is forgotten instead of stopped.
Enter_ForgetsClient(c) ==
    /\ pc[c] = "idle"
    /\ handle' = [handle EXCEPT ![c] = NULL]
    /\ pc' = [pc EXCEPT ![c] = "cfg"]
    /\ overlapped' = (overlapped \/ \E d \in Callers : InApp(d))

\* Fault variant of Enter: esp_mqtt_client_stop is called without the test.
Enter_NoTest(c) ==
    /\ pc[c] = "idle"
    /\ handle' = [handle EXCEPT ![c] = g_mqttClient]
    /\ pc' = [pc EXCEPT ![c] = "stop"]
    /\ overlapped' = (overlapped \/ \E d \in Callers : InApp(d))

\* Entry: the test of g_mqttClient; its value stays in a register for the call
\* of esp_mqtt_client_stop.
Enter(c) ==
    /\ pc[c] = "idle"
    /\ handle' = [handle EXCEPT ![c] = g_mqttClient]
    /\ pc' = [pc EXCEPT ![c] = IF g_mqttClient # NULL THEN "stop" ELSE "cfg"]
    /\ overlapped' = (overlapped \/ \E d \in Callers : InApp(d))

\* do_command in the debug UART task or in the web server's receive task
\* reaches mqtt_app_start (setmqtt, setmqttinfo).
Command(c) ==
    /\ c \in CmdTasks
    /\ Enter(c)
    /\ UNCHANGED <<clientVars, appVars, ledReset>>

\* event_handler: STA_GOT_IP and ETH_GOT_IP, and ETH_DISCONNECTED, which has no
\* break and falls into ETH_GOT_IP.  STA_DISCONNECTED only calls esp_wifi_connect.
GotIp ==
    /\ Enter(EvLoop)
    /\ UNCHANGED <<clientVars, appVars, ledReset>>

\* Fault variant of StopRequest: the request to stop is not written.
StopRequest_NoFlag(c) ==
    /\ pc[c] = "stop"
    /\ pc' = [pc EXCEPT ![c] = "wait"]
    /\ UNCHANGED <<clientVars, appVars, handle, overlapped, ledReset>>

\* esp_mqtt_client_stop: client->run = false.
StopRequest(c) ==
    /\ pc[c] = "stop"
    /\ run' = [run EXCEPT ![handle[c]] = FALSE]
    /\ pc' = [pc EXCEPT ![c] = "wait"]
    /\ UNCHANGED <<state, stoppedBit, task, sock, appVars, handle, overlapped,
                   ledReset>>

\* Fault variant of StopWait: the wait has a timeout and its result is ignored.
StopWait_Timeout(c) ==
    /\ pc[c] = "wait"
    /\ pc' = [pc EXCEPT ![c] = "setnull"]
    /\ UNCHANGED <<clientVars, appVars, handle, overlapped, ledReset>>

\* esp_mqtt_client_stop: xEventGroupWaitBits returns at once or blocks without
\* a timeout.
StopWait(c) ==
    /\ pc[c] = "wait"
    /\ pc' = [pc EXCEPT ![c] = IF stoppedBit[handle[c]] THEN "setnull" ELSE "blocked"]
    /\ UNCHANGED <<clientVars, appVars, handle, overlapped, ledReset>>

SetNull(c) ==
    /\ pc[c] = "setnull"
    /\ g_mqttClient' = NULL
    /\ handle' = [handle EXCEPT ![c] = NULL]
    /\ pc' = [pc EXCEPT ![c] = "cfg"]
    /\ UNCHANGED <<clientVars, allocated, leaked, led, overlapped, ledReset>>

\* A return from mqtt_app_start.  The event handler goes on with yun_app_start,
\* which touches nothing of this component.
Return(c) ==
    /\ pc' = [pc EXCEPT ![c] = "idle"]
    /\ handle' = [handle EXCEPT ![c] = NULL]

\* The configuration is read from flash: the read fails (restart), the service
\* is off or its port is 0, or it is to be started.
ReadCfg(c) ==
    /\ pc[c] = "cfg"
    /\ \/ Reboot
       \/ /\ Return(c)
          /\ UNCHANGED <<clientVars, appVars, overlapped, ledReset>>
       \/ /\ pc' = [pc EXCEPT ![c] = "init"]
          /\ UNCHANGED <<clientVars, appVars, handle, overlapped, ledReset>>

\* g_mqttClient = esp_mqtt_client_init(&mqtt_cfg).  Out of memory trips
\* mem_assert; a URI that does not parse yields NULL, which
\* esp_mqtt_client_start dereferences; clients are never freed.
InitClient(c) ==
    /\ pc[c] = "init"
    /\ \/ Reboot
       \/ \E k \in Clients \ allocated :
            /\ g_mqttClient' = k
            /\ allocated' = allocated \cup {k}
            /\ handle' = [handle EXCEPT ![c] = k]
            /\ pc' = [pc EXCEPT ![c] = "create"]
            /\ UNCHANGED <<clientVars, leaked, led, overlapped, ledReset>>

\* esp_mqtt_client_start: a started client or a failing xTaskCreate makes it
\* return, else the task exists from here on.
StartCreate(c) ==
    /\ pc[c] = "create"
    /\ \/ /\ Return(c)
          /\ UNCHANGED task
       \/ /\ state[handle[c]] = "UNKNOW"
          /\ task' = [task EXCEPT ![handle[c]] = "begin"]
          /\ pc' = [pc EXCEPT ![c] = "clear"]
          /\ UNCHANGED handle
    /\ UNCHANGED <<run, state, stoppedBit, sock, appVars, overlapped, ledReset>>

\* esp_mqtt_client_start: the starter clears STOPPED_BIT after creating the task.
StartClear(c) ==
    /\ pc[c] = "clear"
    /\ stoppedBit' = [stoppedBit EXCEPT ![handle[c]] = FALSE]
    /\ Return(c)
    /\ UNCHANGED <<run, state, task, sock, appVars, overlapped, ledReset>>

-----------------------------------------------------------------------------
(* esp_mqtt_task of client k *)

\* client->run = true; the transport "mqtt" is always registered.
TaskBegin(k) ==
    /\ task[k] = "begin"
    /\ run' = [run EXCEPT ![k] = TRUE]
    /\ task' = [task EXCEPT ![k] = "init"]
    /\ UNCHANGED <<state, stoppedBit, sock, appVars, callerVars, ledReset>>

TaskInit(k) ==
    /\ task[k] = "init"
    /\ state' = [state EXCEPT ![k] = "INIT"]
    /\ task' = [task EXCEPT ![k] = "clear"]
    /\ UNCHANGED <<run, stoppedBit, sock, appVars, callerVars, ledReset>>

TaskClear(k) ==
    /\ task[k] = "clear"
    /\ stoppedBit' = [stoppedBit EXCEPT ![k] = FALSE]
    /\ task' = [task EXCEPT ![k] = "loop"]
    /\ UNCHANGED <<run, state, sock, appVars, callerVars, ledReset>>

\* The loop head: while (client->run), then the switch on client->state.
LoopHead(k) ==
    /\ task[k] = "loop"
    /\ \/ /\ ~run[k]
          /\ task' = [task EXCEPT ![k] = "close"]
          /\ UNCHANGED <<run, state>>
       \/ /\ run[k] /\ state[k] = "INIT"
          /\ task' = [task EXCEPT ![k] = "connect"]
          /\ UNCHANGED <<run, state>>
       \/ /\ run[k] /\ state[k] = "CONNECTED"
          /\ task' = [task EXCEPT ![k] = "receive"]
          /\ UNCHANGED <<run, state>>
    /\ UNCHANGED <<stoppedBit, sock, appVars, callerVars, ledReset>>

\* Fault variant of WaitTimeout: only reconnect_tick is refreshed.
WaitTimeout_KeepsState(k) ==
    /\ task[k] = "loop" /\ run[k] /\ state[k] = "WAIT_TIMEOUT"
    /\ UNCHANGED vars

\* The loop head in MQTT_STATE_WAIT_TIMEOUT: give up, or go back to
\* MQTT_STATE_INIT once wait_timeout_ms has passed.
WaitTimeout(k) ==
    /\ task[k] = "loop" /\ run[k] /\ state[k] = "WAIT_TIMEOUT"
    /\ IF AutoReconnect
       THEN /\ state' = [state EXCEPT ![k] = "INIT"]
            /\ UNCHANGED run
       ELSE /\ run' = [run EXCEPT ![k] = FALSE]
            /\ UNCHANGED state
    /\ UNCHANGED <<stoppedBit, task, sock, appVars, callerVars, ledReset>>

\* esp_mqtt_abort_connection: wait, and tell the application, whose handler
\* switches the LED off.  The transport is not closed.
Abort(k) ==
    /\ state' = [state EXCEPT ![k] = "WAIT_TIMEOUT"]
    /\ task' = [task EXCEPT ![k] = "loop"]
    /\ led' = FALSE

\* tcp_connect, the host name does not resolve: tcp->sock keeps its value.
ConnectNoHost(k) ==
    /\ task[k] = "connect"
    /\ Abort(k)
    /\ UNCHANGED <<run, stoppedBit, sock, g_mqttClient, allocated, leaked,
                   callerVars, ledReset>>

\* tcp_connect, socket() finds the pool empty: restart.
ConnectNoSocket(k) ==
    /\ task[k] = "connect"
    /\ SocketsInUse >= MaxSockets
    /\ Reboot

\* tcp->sock is overwritten by the new socket: one it still owned is lost.
NewSocket(k, keep) ==
    /\ SocketsInUse < MaxSockets
    /\ leaked' = IF sock[k] THEN leaked + 1 ELSE leaked
    /\ sock' = [sock EXCEPT ![k] = keep]

\* tcp_connect, connect() fails and the new socket is closed.
ConnectRefused(k) ==
    /\ task[k] = "connect"
    /\ NewSocket(k, FALSE)
    /\ Abort(k)
    /\ UNCHANGED <<run, stoppedBit, g_mqttClient, allocated, callerVars, ledReset>>

\* The TCP connection is made, esp_mqtt_connect gets no CONNACK or a refusal.
ConnectNoAck(k) ==
    /\ task[k] = "connect"
    /\ NewSocket(k, TRUE)
    /\ Abort(k)
    /\ UNCHANGED <<run, stoppedBit, g_mqttClient, allocated, callerVars, ledReset>>

\* The session is up: MQTT_EVENT_CONNECTED switches the LED on.
Connected(k) ==
    /\ task[k] = "connect"
    /\ NewSocket(k, TRUE)
    /\ state' = [state EXCEPT ![k] = "CONNECTED"]
    /\ led' = TRUE
    /\ ledReset' = IF ledReset = "dark" THEN "done" ELSE ledReset
    /\ task' = [task EXCEPT ![k] = "loop"]
    /\ UNCHANGED <<run, stoppedBit, g_mqttClient, allocated, callerVars>>

\* mqtt_process_receive and the keep-alive: the session goes on, or it broke.
Receive(k) ==
    /\ task[k] = "receive"
    /\ \/ /\ task' = [task EXCEPT ![k] = "loop"]
          /\ UNCHANGED <<state, led>>
       \/ Abort(k)
    /\ UNCHANGED <<run, stoppedBit, sock, g_mqttClient, allocated, leaked,
                   callerVars, ledReset>>

\* transport_close at the end of the task.
TaskClose(k) ==
    /\ task[k] = "close"
    /\ sock' = [sock EXCEPT ![k] = FALSE]
    /\ task' = [task EXCEPT ![k] = "setbit"]
    /\ UNCHANGED <<run, state, stoppedBit, appVars, callerVars, ledReset>>

\* xEventGroupSetBits releases every task blocked on the bit; the task deletes
\* itself.
TaskSetBit(k) ==
    /\ task[k] = "setbit"
    /\ stoppedBit' = [stoppedBit EXCEPT ![k] = TRUE]
    /\ pc' = [c \in Callers |-> IF pc[c] = "blocked" /\ handle[c] = k
                                THEN "setnull" ELSE pc[c]]
    /\ task' = [task EXCEPT ![k] = "done"]
    /\ UNCHANGED <<run, state, sock, appVars, handle, overlapped, ledReset>>

-----------------------------------------------------------------------------
AppStep(c) ==
    \/ StopRequest(c) \/ StopWait(c) \/ SetNull(c) \/ ReadCfg(c)
    \/ InitClient(c) \/ StartCreate(c) \/ StartClear(c)

\* The connection attempt; which outcome happens is the network's choice.
ConnectStep(k) ==
    \/ ConnectNoHost(k) \/ ConnectNoSocket(k) \/ ConnectRefused(k)
    \/ ConnectNoAck(k) \/ Connected(k)

TaskStep(k) ==
    \/ TaskBegin(k) \/ TaskInit(k) \/ TaskClear(k) \/ LoopHead(k)
    \/ WaitTimeout(k) \/ ConnectStep(k) \/ Receive(k) \/ TaskClose(k)
    \/ TaskSetBit(k)

Next ==
    \/ CfgInit \/ GotIp
    \/ \E c \in CmdTasks : Command(c)
    \/ \E c \in Callers : AppStep(c)
    \/ \E k \in Clients : TaskStep(k)

Spec == Init /\ [][Next]_vars

\* FreeRTOS schedules every ready task, and each blocking call of esp_mqtt_task
\* (connect, select with a timeout, vTaskDelay) returns in bounded time.
\* Commands and interface events owe nobody anything.
Fairness ==
    /\ \A c \in Callers : WF_vars(AppStep(c))
    /\ \A k \in Clients : WF_vars(TaskStep(k))

FairSpec == Spec /\ Fairness

-----------------------------------------------------------------------------
(* Properties *)

\* Where a caller is in the middle of an operation on its handle.
Holding == {"stop", "wait", "blocked", "setnull", "create", "clear"}

\* Every variable keeps its type, and no caller works on the null handle, which
\* esp_mqtt_client_stop and _start would dereference.
TypeOK ==
    /\ g_mqttClient \in Clients \cup {NULL}
    /\ allocated \subseteq Clients
    /\ run \in [Clients -> BOOLEAN]
    /\ state \in [Clients -> States]
    /\ stoppedBit \in [Clients -> BOOLEAN]
    /\ task \in [Clients -> TaskPlaces]
    /\ sock \in [Clients -> BOOLEAN]
    /\ leaked \in Nat
    /\ led \in BOOLEAN
    /\ pc \in [Callers -> CallerPlaces]
    /\ handle \in [Callers -> Clients \cup {NULL}]
    /\ \A c \in Callers : pc[c] \in Holding => handle[c] # NULL
    /\ ledReset \in {"due", "done", "dark"}
    /\ overlapped \in BOOLEAN

\* When esp_mqtt_client_stop returns, the task of that client has finished and
\* its transport owns no socket, whatever other callers did meanwhile and
\* however start's and the task's own clearing of STOPPED_BIT were ordered.
StopMeansStopped ==
    \A c \in Callers :
        pc[c] = "setnull" => task[handle[c]] = "done" /\ ~sock[handle[c]]

\* As long as no two calls of mqtt_app_start have overlapped, a running
\* esp_mqtt_task belongs to the client g_mqttClient names: at most one session
\* is alive and the application can still stop it.
SingleClient ==
    ~overlapped => \A k \in Clients : Running(k) => g_mqttClient = k

\* Every client switches the one MQTT LED.  As long as no two calls of
\* mqtt_app_start have overlapped, a session that is up has it lit: no client
\* that was stopped before can switch it off any more.  The exception is the
\* session cfgInit finds up; the LED may well be lit without a session (a stop
\* does not switch it off).
LitWhileUp ==
    ~overlapped /\ ledReset # "dark" => \A k \in Clients : SessionUp(k) => led

\* Is the start of client k over?  The starter has returned, and the task is in
\* its loop or has announced its end.
Started(k) ==
    /\ \/ task[k] \in {"loop", "connect", "receive", "close", "setbit"}
       \/ task[k] = "done" /\ stoppedBit[k]
    /\ \A c \in Callers : ~(pc[c] = "clear" /\ handle[c] = k)

\* esp_mqtt_client_stop waits without a timeout.  Called once the start of the
\* client is over, it returns (or the device restarts), in whatever phase of
\* its session the task is and however many callers stop it.
StopReturns ==
    \A c \in Callers, k \in Clients :
        (pc[c] = "stop" /\ handle[c] = k /\ Started(k)) ~> (pc[c] \in {"setnull", "idle"})

\* A session that broke is tried again after the wait, unless the client is
\* stopped or the device restarts.
Reconnects ==
    \A k \in Clients :
        (Running(k) /\ state[k] = "WAIT_TIMEOUT")
            ~> (task[k] \in {"connect", "done", "none"})

-----------------------------------------------------------------------------
(* Strengthening of the safety properties to inductive invariants *)

\* A caller in the middle of a client operation holds an allocated client.
HandlesAllocated ==
    /\ \A c \in Callers : pc[c] \in Holding => handle[c] \in allocated
    /\ g_mqttClient # NULL => g_mqttClient \in allocated

\* A client about to be started is fresh and has one starter; a client with a
\* task is allocated.
StartOnce ==
    /\ \A k \in Clients : task[k] # "none" => k \in allocated
    /\ \A c \in Callers : pc[c] = "create" => task[handle[c]] = "none"
    /\ \A c, d \in Callers :
          pc[c] = "create" /\ pc[d] = "create" /\ handle[c] = handle[d] => c = d

\* What STOPPED_BIT and the last steps of the task say of the socket.
EndOfTask ==
    \A k \in Clients :
        /\ stoppedBit[k] => task[k] = "done"
        /\ task[k] \in {"none", "begin", "init", "clear", "setbit", "done"} => ~sock[k]

StopInv == TypeOK /\ HandlesAllocated /\ StartOnce /\ EndOfTask /\ StopMeansStopped

\* Without overlap one caller at a time is in mqtt_app_start, and what it knows
\* of g_mqttClient is still true.
Alone ==
    ~overlapped =>
        /\ \A c, d \in Callers : InApp(c) /\ InApp(d) => c = d
        /\ \A c \in Callers :
              /\ pc[c] \in Holding => handle[c] = g_mqttClient
              /\ pc[c] \in {"cfg", "init"} => g_mqttClient = NULL
              /\ pc[c] \in {"setnull", "cfg", "init", "create"} =>
                    \A k \in Clients : ~Running(k)

SingleInv == StopInv /\ SingleClient /\ Alone

=============================================================================
