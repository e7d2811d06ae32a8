------------------------------- MODULE CfgStore -------------------------------
(***************************************************************************)
(* The configuration sector in SPI flash: app_main's check at boot,        *)
(* initFactoryCfgFlash, the commands of do_command that change a setting   *)
(* and write_spi_flash_data under them (main/main.c, main/cfg.c,           *)
(* main/trans_data.c, main/trans_data_a.c, components/spi_data).           *)
(*                                                                         *)
(* Every command reads the whole TagCfgData, changes some fields, erases   *)
(* the sector and writes it back.  do_command runs in the debug UART task  *)
(* and in the web task with no lock between them, esp_restart ends all     *)
(* tasks wherever they are, and power may fail at any time.                *)
(***************************************************************************)
EXTENDS Integers, Sequences

CONSTANTS
    Main,       \* app_main
    CmdTasks,   \* the tasks that run do_command
    Commands,   \* the commands they are given
    EraseCuts,  \* sets of items an erase may be at when it is cut off
    MaxFaults   \* bound on failing flash operations and power failures

AllCommands == {"factory", "restart", "openwifi", "connectwifi", "closewifi",
                "setuart1", "mqttstart", "mqttstop", "setmqtt", "setmqttinfo"}

\* The items of TagCfgData in the order they lie in flash, related fields
\* together: devInitFlag; WiFi mode; AP and station SSID and password; baud
\* rate; TCP port and device names; is_mqtt_start; MQTT host and port; MQTT
\* client id, user and password.
Layout == <<"flag", "mode", "ap", "sta", "uart1", "dev", "start", "mqtt", "info">>
Items == {"flag", "mode", "ap", "sta", "uart1", "dev", "start", "mqtt", "info"}

ASSUME CfgAssumption ==
    /\ Main \notin CmdTasks
    /\ Commands \subseteq AllCommands
    /\ EraseCuts \subseteq SUBSET Items
    /\ MaxFaults \in Nat

VARIABLES
    flash,      \* the configuration sector
    jsonOk,     \* does the JSON sector parse and name every default?
    pc,         \* where each task is
    op,         \* the command each task executes
    buf,        \* the copy of TagCfgData each task works on
    faults,     \* failures so far
    acked,      \* history: the settings as last acknowledged
    disturbed,  \* history: did anything happen that may lose a setting?
    damaged     \* history: was the sector erased partly, written partly or twice?

ghosts == <<acked, disturbed, damaged>>
vars == <<flash, jsonOk, pc, op, buf, faults, ghosts>>

Tasks == {Main} \cup CmdTasks

\* What an item holds: erased bits; bits half erased, half programmed or
\* programmed over others; INIT_HARDWARE_FLAG; the factory default, nothing, a
\* mode or switch, the parameter as typed, or the command word followed by the
\* parameter.
Values == {"ff", "mix", "set", "factory", "", "AP", "STA", "undo", "on", "off",
           "arg", "word arg"}

\* A copy of the sector.
Images == [Items -> Values]

Erased == [i \in Items |-> "ff"]
Factory == [i \in Items |-> CASE i = "flag" -> "set"
                              [] i \in {"sta", "info"} -> ""
                              [] OTHER -> "factory"]

\* app_main's test of devInitFlag.
Valid(img) == img["flag"] = "set"

\* Has every item a value?
Complete(img) == \A i \in Items : img[i] \notin {"ff", "mix"}

\* A sector that passes app_main's test and lacks something: its strings have no
\* end, and copying them (sprintf, strcpy) is undefined.
FalselyValid(img) == Valid(img) /\ ~Complete(img)

Places == {"off", "boot", "idle", "json", "read", "erase", "write", "ok", "fail",
           "mqtt"}

\* Is the task between its read of the sector and the end of its write?
Busy(t) == pc[t] \in {"read", "erase", "write"}

-----------------------------------------------------------------------------
(* What the commands store *)

\* do_command hands these commands the whole line, not the rest after the
\* command word: their first parameter starts with the word.
WholeLine == {"setmqtt", "setmqttinfo", "openwifi", "connectwifi"}

\* fault: the line ending stays in the parameter
Param_Untrimmed(cmd) == "arg\n"

Param(cmd) == IF cmd \in WholeLine THEN "word arg" ELSE "arg"

Assign(val, cmd) ==
    CASE cmd = "openwifi"    -> [val EXCEPT !["mode"] = "AP", !["ap"] = Param(cmd)]
      [] cmd = "connectwifi" -> [val EXCEPT !["mode"] = "STA", !["sta"] = Param(cmd)]
      [] cmd = "closewifi"   -> [val EXCEPT !["mode"] = "undo", !["ap"] = "", !["sta"] = ""]
      [] cmd = "setuart1"    -> [val EXCEPT !["uart1"] = Param(cmd)]
      [] cmd = "mqttstart"   -> [val EXCEPT !["start"] = "on"]
      [] cmd = "mqttstop"    -> [val EXCEPT !["start"] = "off"]
      [] cmd = "setmqtt"     -> [val EXCEPT !["mqtt"] = Param(cmd)]
      [] cmd = "setmqttinfo" -> [val EXCEPT !["info"] = Param(cmd)]
      [] OTHER               -> val

\* Commands after which the device restarts only if the write succeeded, or
\* never; all others restart whatever write_spi_flash_data returned.
RestartIfOk == {"setuart1"}
NoRestart == {"setmqtt", "setmqttinfo"}

\* NOR flash only clears bits: erased bits take what is programmed, programming
\* ones leaves what is there, anything else mixes both.
Over(old, new) ==
    IF old = "ff" \/ old = new THEN new ELSE IF new = "ff" THEN old ELSE "mix"

Program(old, new) == [i \in Items |-> Over(old[i], new[i])]

\* What is programmed of img when the write is cut off after n items, or within
\* the item behind them (m = n + 1).
Torn(img, n, m) ==
    [i \in Items |-> IF \E k \in 1..n : Layout[k] = i THEN img[i]
                     ELSE IF \E k \in n + 1..m : Layout[k] = i THEN "mix"
                     ELSE "ff"]

\* What an erase that is cut off leaves of img: some items are erased, some
\* half erased.
PartErased(img, gone, half) ==
    [i \in Items |-> IF i \in gone THEN "ff" ELSE IF i \in half THEN "mix" ELSE img[i]]

-----------------------------------------------------------------------------
Init ==
    /\ \/ flash = Erased /\ disturbed = TRUE
       \/ flash = Factory /\ disturbed = FALSE
    /\ jsonOk \in BOOLEAN
    /\ pc = [t \in Tasks |-> IF t = Main THEN "boot" ELSE "off"]
    /\ op = [t \in Tasks |-> "restart"]
    /\ buf = [t \in Tasks |-> Erased]
    /\ faults = 0
    /\ acked = Factory
    /\ damaged = FALSE

\* A restart: all tasks are gone, app_main runs again.
Tasks0 ==
    /\ pc' = [t \in Tasks |-> IF t = Main THEN "boot" ELSE "off"]
    /\ op' = [t \in Tasks |-> "restart"]
    /\ buf' = [t \in Tasks |-> Erased]

\* esp_restart or a panic: a sector that was erased and not yet written back
\* stays erased.
Restart ==
    /\ Tasks0
    /\ disturbed' = (disturbed \/ \E t \in Tasks : pc[t] = "write")
    /\ UNCHANGED <<flash, jsonOk, acked, damaged>>

Fault == faults < MaxFaults /\ faults' = faults + 1

-----------------------------------------------------------------------------
(* app_main *)

\* The check of devInitFlag: services start, or the defaults are restored.
BootCheck ==
    /\ pc[Main] = "boot"
    /\ pc' = IF Valid(flash) THEN [t \in Tasks |-> "idle"]
             ELSE [pc EXCEPT ![Main] = "json"]
    /\ op' = [op EXCEPT ![Main] = "factory"]
    /\ UNCHANGED <<flash, jsonOk, buf, faults, ghosts>>

\* The sector cannot be read: esp_restart.
BootReadFails ==
    /\ pc[Main] = "boot"
    /\ Fault
    /\ Restart

\* The sector passes the test and lacks something: copying its endless strings
\* over the 128 bytes of their destinations ends in a panic or goes unnoticed
\* (BootCheck).
BootPanics ==
    /\ pc[Main] = "boot"
    /\ FalselyValid(flash)
    /\ Restart
    /\ UNCHANGED faults

-----------------------------------------------------------------------------
(* do_command *)

\* A command with well-formed parameters is dispatched; without them, and for
\* help, showuart, showmqtt and unknown words, do_command changes nothing.
\* "factory" goes on in initFactoryCfgFlash, the others read the configuration.
Dispatch(t, cmd) ==
    /\ pc[t] = "idle" /\ t # Main
    /\ cmd # "restart"
    /\ op' = [op EXCEPT ![t] = cmd]
    /\ pc' = [pc EXCEPT ![t] = IF cmd = "factory" THEN "json" ELSE "read"]
    /\ disturbed' = (disturbed \/ \E u \in Tasks : Busy(u) \/ pc[u] = "json")
    /\ UNCHANGED <<flash, jsonOk, buf, faults, acked, damaged>>

CmdRestart(t) ==
    /\ pc[t] = "idle" /\ t # Main
    /\ Restart
    /\ UNCHANGED faults

\* fault: the copy starts blank, only the command's own fields are set
ReadCfg_Blank(t) ==
    /\ pc[t] = "read"
    /\ buf' = [buf EXCEPT ![t] = Assign(Factory, op[t])]
    /\ pc' = [pc EXCEPT ![t] = "erase"]
    /\ UNCHANGED <<flash, jsonOk, op, faults, ghosts>>

\* get_spi_flash_binary_data, then the assignments to the copy.
ReadCfg(t) ==
    /\ pc[t] = "read"
    /\ buf' = [buf EXCEPT ![t] = Assign(flash, op[t])]
    /\ pc' = [pc EXCEPT ![t] = "erase"]
    /\ UNCHANGED <<flash, jsonOk, op, faults, ghosts>>

\* The read fails: setuart1 gives up, the others dereference NULL.
ReadFails(t) ==
    /\ pc[t] = "read"
    /\ Fault
    /\ IF op[t] = "setuart1"
       THEN /\ pc' = [pc EXCEPT ![t] = "idle"]
            /\ UNCHANGED <<flash, jsonOk, op, buf, ghosts>>
       ELSE Restart

\* fault: the flag is set although the JSON text did not parse
ReadJson_FlagAnyway(t) ==
    /\ pc[t] = "json"
    /\ buf' = [buf EXCEPT ![t] = IF jsonOk THEN Factory ELSE [Erased EXCEPT !["flag"] = "set"]]
    /\ pc' = [pc EXCEPT ![t] = "erase"]
    /\ UNCHANGED <<flash, jsonOk, op, faults, ghosts>>

\* fault: devInitFlag is not part of the defaults
ReadJson_NoFlag(t) ==
    /\ pc[t] = "json"
    /\ buf' = [buf EXCEPT ![t] = [Factory EXCEPT !["flag"] = "ff"]]
    /\ pc' = [pc EXCEPT ![t] = "erase"]
    /\ UNCHANGED <<flash, jsonOk, op, faults, ghosts>>

\* initFactoryCfgFlash: the defaults are built if the JSON text parses, else
\* nothing is written.
ReadJson(t) ==
    /\ pc[t] = "json"
    /\ IF jsonOk
       THEN /\ buf' = [buf EXCEPT ![t] = Factory]
            /\ pc' = [pc EXCEPT ![t] = "erase"]
       ELSE /\ pc' = [pc EXCEPT ![t] = "ok"]
            /\ UNCHANGED buf
    /\ UNCHANGED <<flash, jsonOk, op, faults, ghosts>>

\* initFactoryCfgFlash does not test for NULL.
ReadJsonFails(t) ==
    /\ pc[t] = "json"
    /\ Fault
    /\ Restart

-----------------------------------------------------------------------------
(* write_spi_flash_data *)

Erase(t) ==
    /\ pc[t] = "erase"
    /\ flash' = Erased
    /\ pc' = [pc EXCEPT ![t] = "write"]
    /\ UNCHANGED <<jsonOk, op, buf, faults, ghosts>>

\* spi_flash_erase_sector gives up, at once or half way.
EraseFails(t, gone, half) ==
    /\ pc[t] = "erase"
    /\ Fault
    /\ flash' = PartErased(flash, gone, half)
    /\ pc' = [pc EXCEPT ![t] = "fail"]
    /\ disturbed' = (disturbed \/ flash' # flash)
    /\ damaged' = (damaged \/ flash' # flash)
    /\ UNCHANGED <<jsonOk, op, buf, acked>>

\* The write succeeds.  app_main restoring the defaults is alone and starts a
\* new history.
Write(t) ==
    /\ pc[t] = "write"
    /\ flash' = Program(flash, buf[t])
    /\ pc' = [pc EXCEPT ![t] = "ok"]
    /\ acked' = IF op[t] = "factory" THEN Factory ELSE Assign(acked, op[t])
    /\ disturbed' = (disturbed /\ t # Main)
    /\ damaged' = (t # Main /\ (damaged \/ flash # Erased))
    /\ UNCHANGED <<jsonOk, op, buf, faults>>

\* spi_flash_write gives up half way.
WriteFails(t, n, m) ==
    /\ pc[t] = "write"
    /\ Fault
    /\ flash' = Program(flash, Torn(buf[t], n, m))
    /\ pc' = [pc EXCEPT ![t] = "fail"]
    /\ disturbed' = TRUE
    /\ damaged' = TRUE
    /\ UNCHANGED <<jsonOk, op, buf, acked>>

\* After write_spi_flash_data: restart; setmqtt and setmqttinfo call
\* mqtt_app_start if the write succeeded; they and setuart1 are over if it
\* failed.
Finish(t) ==
    /\ pc[t] \in {"ok", "fail"}
    /\ IF op[t] \in NoRestart \/ (op[t] \in RestartIfOk /\ pc[t] = "fail")
       THEN /\ pc' = [pc EXCEPT ![t] = IF pc[t] = "ok" THEN "mqtt" ELSE "idle"]
            /\ buf' = [buf EXCEPT ![t] = Erased]
            /\ UNCHANGED <<flash, jsonOk, op, ghosts>>
       ELSE Restart
    /\ UNCHANGED faults

\* mqtt_app_start returns to the command, once the running client has stopped
\* (MqttClient!StopReturns says when that is).
MqttStarted(t) ==
    /\ pc[t] = "mqtt"
    /\ pc' = [pc EXCEPT ![t] = "idle"]
    /\ UNCHANGED <<flash, jsonOk, op, buf, faults, ghosts>>

\* mqtt_app_start cannot read the sector: esp_restart.
MqttReadFails(t) ==
    /\ pc[t] = "mqtt"
    /\ Fault
    /\ Restart

-----------------------------------------------------------------------------
(* Power *)

\* Power fails outside a flash operation.
PowerFails ==
    /\ Fault
    /\ Restart

\* Power fails while the sector is being erased.  (No task can restart the
\* device meanwhile: flash operations hold up both cores.)
PowerFailsInErase(t, gone, half) ==
    /\ pc[t] = "erase"
    /\ Fault
    /\ Tasks0
    /\ flash' = PartErased(flash, gone, half)
    /\ disturbed' = (disturbed \/ flash' # flash)
    /\ damaged' = (damaged \/ flash' # flash)
    /\ UNCHANGED <<jsonOk, acked>>

\* Power fails while the sector is being programmed.
PowerFailsInWrite(t, n, m) ==
    /\ pc[t] = "write"
    /\ Fault
    /\ Tasks0
    /\ flash' = Program(flash, Torn(buf[t], n, m))
    /\ disturbed' = TRUE
    /\ damaged' = TRUE
    /\ UNCHANGED <<jsonOk, acked>>

-----------------------------------------------------------------------------
Step(t) ==
    \/ ReadCfg(t) \/ ReadJson(t) \/ Erase(t) \/ Write(t) \/ Finish(t)

Failure ==
    \/ BootReadFails \/ BootPanics \/ PowerFails
    \/ \E t \in Tasks : ReadFails(t) \/ ReadJsonFails(t) \/ MqttReadFails(t)
    \/ \E t \in Tasks, gone, half \in EraseCuts :
          EraseFails(t, gone, half) \/ PowerFailsInErase(t, gone, half)
    \/ \E t \in Tasks, n \in 0..Len(Layout), m \in 0..Len(Layout) :
          m \in n..n + 1 /\ (WriteFails(t, n, m) \/ PowerFailsInWrite(t, n, m))

Next ==
    \/ BootCheck
    \/ \E t \in CmdTasks, cmd \in Commands : Dispatch(t, cmd)
    \/ \E t \in CmdTasks : "restart" \in Commands /\ CmdRestart(t)
    \/ \E t \in Tasks : Step(t) \/ MqttStarted(t)
    \/ Failure

Spec == Init /\ [][Next]_vars

\* app_main and a command once begun run on; failures and commands owe nothing,
\* nor does mqtt_app_start, which may wait for ever.
FairSpec == Spec /\ WF_vars(BootCheck) /\ \A t \in Tasks : WF_vars(Step(t))

-----------------------------------------------------------------------------
(* Properties *)

\* Every variable keeps its type.
TypeOK ==
    /\ flash \in Images
    /\ jsonOk \in BOOLEAN
    /\ pc \in [Tasks -> Places]
    /\ op \in [Tasks -> AllCommands]
    /\ buf \in [Tasks -> Images]
    /\ faults \in 0..MaxFaults
    /\ acked \in Images
    /\ disturbed \in BOOLEAN
    /\ damaged \in BOOLEAN

\* An acknowledged setting stays in flash across restarts, power failures and
\* failed reads, unless two commands overlapped, or an erase or a write was cut
\* off or the device stopped between the two: then and only then may a setting
\* be lost (main/trans_data_a.c, spi_data.c:23-24).
Durable ==
    ~disturbed /\ (\A t \in Tasks : pc[t] # "write") => flash = acked

\* A sector with a valid devInitFlag is complete, although the flag is the only
\* thing app_main checks, whatever restarts and interleavings of commands
\* happened, unless an erase or a write was cut off or a write went over
\* another one.
ValidIsComplete == ~damaged => ~FalselyValid(flash)

\* While app_main checks or restores the sector no other task runs, it works
\* on the defaults, and what it erased stays erased.
BootAlone ==
    /\ pc[Main] # "idle" => \A t \in CmdTasks : pc[t] = "off"
    /\ pc[Main] = "idle" => \A t \in CmdTasks : pc[t] \notin {"off", "boot"}
    /\ pc[Main] \in {"boot", "idle", "json", "erase", "write", "ok", "fail"}
    /\ pc[Main] \notin {"idle", "boot"} => op[Main] = "factory"
    /\ pc[Main] \in {"erase", "write"} => buf[Main] = Factory
    /\ pc[Main] = "write" => flash = Erased

\* The inductive invariant behind ValidIsComplete: the copies that tasks are
\* about to write are as complete as the sector they were read from.
CompleteInv ==
    /\ BootAlone
    /\ ValidIsComplete
    /\ \A t \in Tasks : pc[t] \in {"erase", "write"} /\ ~damaged
                        => ~FalselyValid(buf[t])

\* The inductive invariant behind Durable: undisturbed, one task at a time is
\* at work and its copy is the acknowledged settings with its change applied.
Active(t) == Busy(t) \/ pc[t] = "json"
Target(t) == IF op[t] = "factory" THEN Factory ELSE Assign(acked, op[t])
DurableInv ==
    /\ BootAlone
    /\ ~disturbed =>
        /\ \A t, u \in Tasks : Active(t) /\ Active(u) => t = u
        /\ (\A t \in Tasks : pc[t] # "write") => flash = acked
        /\ \A t \in Tasks : pc[t] \in {"erase", "write"}
                            => buf[t] = Target(t)
        /\ \A t \in Tasks : pc[t] = "write" => flash = Erased
        /\ \A t \in Tasks : pc[t] = "read" => op[t] # "factory"
        /\ \A t \in Tasks : pc[t] = "json" => op[t] = "factory"

\* With defaults that parse, every boot ends with the services running, and
\* every command once begun returns, goes on to mqtt_app_start or ends in such a
\* boot: the restart after initFactoryCfgFlash is not repeated for ever,
\* whatever state a failure left the sector in.  Excepted is a sector that
\* passes app_main's test without being complete.
ServicesReturn ==
    \A t \in Tasks :
        (jsonOk /\ pc[t] # "idle") ~> (pc[t] \in {"idle", "mqtt"} \/ FalselyValid(flash))

=============================================================================
