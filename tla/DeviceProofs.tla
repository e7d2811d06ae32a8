----------------------------- MODULE DeviceProofs -----------------------------
(***************************************************************************)
(* Proofs about two parts of the device that no connection reaches.        *)
(* The configuration sector: types, completeness of a sector with a valid  *)
(* flag, and durability of acknowledged settings, for any number of        *)
(* command tasks, any set of commands and any number of faults.  The keys: *)
(* what is promised of their events, for any number of them.               *)
(***************************************************************************)
EXTENDS CfgStore, KeyScan, TLAPS

-----------------------------------------------------------------------------
(* The operators on images *)

LEMMA AssignType ==
    ASSUME NEW v \in Images, NEW cmd \in AllCommands
    PROVE  Assign(v, cmd) \in Images
  BY DEF Assign, Param, WholeLine, Images, Items, Values, AllCommands

LEMMA ProgramType ==
    ASSUME NEW a \in Images, NEW b \in Images
    PROVE  Program(a, b) \in Images
<1>1. \A i \in Items : Over(a[i], b[i]) \in Values
  BY DEF Over, Images, Values
<1> QED BY <1>1 DEF Program, Images

LEMMA TornType ==
    ASSUME NEW b \in Images, NEW n, NEW m
    PROVE  Torn(b, n, m) \in Images
  BY DEF Torn, Images, Values

LEMMA PartErasedType ==
    ASSUME NEW b \in Images, NEW gone, NEW half
    PROVE  PartErased(b, gone, half) \in Images
  BY DEF PartErased, Images, Values

LEMMA ConstantImages == Erased \in Images /\ Factory \in Images
  BY DEF Erased, Factory, Images, Values

\* A program into an erased sector stores exactly the image.
LEMMA ProgramErased ==
    ASSUME NEW b \in Images
    PROVE  Program(Erased, b) = b
<1>1. \A i \in Items : Over(Erased[i], b[i]) = b[i]
  BY DEF Erased, Over
<1> QED BY <1>1 DEF Program, Images

-----------------------------------------------------------------------------
(* Types *)

LEMMA InitType == Init => TypeOK
<1> SUFFICES ASSUME Init PROVE TypeOK OBVIOUS
<1> USE CfgAssumption DEF Init
<1>1. flash \in Images BY ConstantImages
<1>2. disturbed \in BOOLEAN /\ jsonOk \in BOOLEAN /\ damaged \in BOOLEAN BY Zenon
<1>3. pc \in [Tasks -> Places] BY DEF Places
<1>4. op \in [Tasks -> AllCommands] BY DEF AllCommands
<1>5. buf \in [Tasks -> Images] BY ConstantImages
<1>6. faults \in 0..MaxFaults OBVIOUS
<1>7. acked \in Images BY ConstantImages
<1> QED BY <1>1, <1>2, <1>3, <1>4, <1>5, <1>6, <1>7 DEF TypeOK

LEMMA Tasks0Type ==
    Tasks0 => /\ pc' \in [Tasks -> Places]
              /\ op' \in [Tasks -> AllCommands]
              /\ buf' \in [Tasks -> Images]
  BY ConstantImages DEF Tasks0, Places, AllCommands

LEMMA RestartType ==
    ASSUME TypeOK, Restart, faults' \in 0..MaxFaults
    PROVE  TypeOK'
<1>1. disturbed' \in BOOLEAN BY Zenon DEF Restart
<1> QED BY <1>1, Tasks0Type DEF Restart, TypeOK

LEMMA FaultType == TypeOK /\ Fault => faults' \in 0..MaxFaults
  BY CfgAssumption DEF TypeOK, Fault

LEMMA NextType == TypeOK /\ [Next]_vars => TypeOK'
<1> SUFFICES ASSUME TypeOK, [Next]_vars PROVE TypeOK' OBVIOUS
<1> USE CfgAssumption
<1>0. Main \in Tasks /\ CmdTasks \subseteq Tasks BY DEF Tasks
<1>1. CASE BootCheck
  BY <1>0, <1>1 DEF BootCheck, TypeOK, Places, AllCommands, ghosts
<1>2. ASSUME NEW t \in CmdTasks, NEW cmd \in Commands, Dispatch(t, cmd) PROVE TypeOK'
  <2>1. disturbed' \in BOOLEAN BY <1>2, Zenon DEF Dispatch
  <2> QED BY <1>0, <1>2, <2>1 DEF Dispatch, TypeOK, Places, AllCommands, ghosts
<1>3. CASE BootPanics \/ \E t \in CmdTasks : CmdRestart(t)
  BY <1>3, RestartType DEF BootPanics, CmdRestart, TypeOK
<1>4. ASSUME NEW t \in Tasks, ReadCfg(t) PROVE TypeOK'
  <2>1. Assign(flash, op[t]) \in Images
    BY AssignType DEF TypeOK
  <2> QED BY <1>4, <2>1 DEF ReadCfg, TypeOK, Places, ghosts
<1>5. ASSUME NEW t \in Tasks, ReadJson(t) PROVE TypeOK'
  BY <1>5, ConstantImages DEF ReadJson, TypeOK, Places, ghosts
<1>6. ASSUME NEW t \in Tasks, Erase(t) PROVE TypeOK'
  BY <1>6, ConstantImages DEF Erase, TypeOK, Places, ghosts
<1>7. ASSUME NEW t \in Tasks, Write(t) PROVE TypeOK'
  <2>1. flash' \in Images BY <1>7, ProgramType DEF Write, TypeOK
  <2>2. acked' \in Images
    BY <1>7, AssignType, ConstantImages DEF Write, TypeOK
  <2>3. disturbed' \in BOOLEAN /\ damaged' \in BOOLEAN BY <1>7, Zenon DEF Write
  <2> QED BY <1>7, <2>1, <2>2, <2>3 DEF Write, TypeOK, Places
<1>8. ASSUME NEW t \in Tasks, Finish(t) PROVE TypeOK'
  <2>1. CASE Restart BY <1>8, <2>1, RestartType DEF Finish, TypeOK
  <2>2. CASE ~Restart
    BY <1>8, <2>2, ConstantImages DEF Finish, TypeOK, Places, ghosts
  <2> QED BY <2>1, <2>2
<1>9. CASE BootReadFails \/ PowerFails
  BY <1>9, RestartType, FaultType DEF BootReadFails, PowerFails
<1>10. ASSUME NEW t \in Tasks, ReadFails(t) PROVE TypeOK'
  <2>1. CASE Restart BY <1>10, <2>1, RestartType, FaultType DEF ReadFails
  <2>2. CASE ~Restart
    BY <1>10, <2>2, FaultType DEF ReadFails, TypeOK, Places, ghosts
  <2> QED BY <2>1, <2>2
<1>11. ASSUME NEW t \in Tasks, ReadJsonFails(t) \/ MqttReadFails(t) PROVE TypeOK'
  BY <1>11, RestartType, FaultType DEF ReadJsonFails, MqttReadFails
<1>12. ASSUME NEW t \in Tasks, MqttStarted(t) PROVE TypeOK'
  BY <1>12 DEF MqttStarted, TypeOK, Places, ghosts
<1>13. ASSUME NEW t \in Tasks, NEW gone \in EraseCuts, NEW half \in EraseCuts,
              EraseFails(t, gone, half) \/ PowerFailsInErase(t, gone, half)
       PROVE  TypeOK'
  <2>1. flash' \in Images
    BY <1>13, PartErasedType DEF EraseFails, PowerFailsInErase, TypeOK
  <2>2. disturbed' \in BOOLEAN /\ damaged' \in BOOLEAN
    BY <1>13, Zenon DEF EraseFails, PowerFailsInErase
  <2>3. CASE EraseFails(t, gone, half)
    BY <2>1, <2>2, <2>3, FaultType DEF EraseFails, TypeOK, Places
  <2>4. CASE PowerFailsInErase(t, gone, half)
    BY <2>1, <2>2, <2>4, FaultType, Tasks0Type DEF PowerFailsInErase, TypeOK
  <2> QED BY <1>13, <2>3, <2>4
<1>14. ASSUME NEW t \in Tasks, NEW n, NEW m,
              WriteFails(t, n, m) \/ PowerFailsInWrite(t, n, m)
       PROVE  TypeOK'
  <2>1. flash' \in Images
    BY <1>14, ProgramType, TornType DEF WriteFails, PowerFailsInWrite, TypeOK
  <2>2. CASE WriteFails(t, n, m)
    BY <2>1, <2>2, FaultType DEF WriteFails, TypeOK, Places
  <2>3. CASE PowerFailsInWrite(t, n, m)
    BY <2>1, <2>3, FaultType, Tasks0Type DEF PowerFailsInWrite, TypeOK
  <2> QED BY <1>14, <2>2, <2>3
<1>15. CASE UNCHANGED vars BY <1>15 DEF vars, ghosts, TypeOK
<1> QED BY <1>1, <1>2, <1>3, <1>4, <1>5, <1>6, <1>7, <1>8, <1>9, <1>10, <1>11, <1>12,
           <1>13, <1>14, <1>15 DEF Next, Step, Failure

\* Every variable keeps its type, whatever the commands and failures.
THEOREM TypeCorrect == Spec => []TypeOK
  BY InitType, NextType, PTL DEF Spec

-----------------------------------------------------------------------------
(* app_main is alone *)

LEMMA MainTask == Main \in Tasks /\ Main \notin CmdTasks /\ CmdTasks \subseteq Tasks
  BY CfgAssumption DEF Tasks

LEMMA InitAlone == Init => BootAlone
  BY MainTask DEF Init, BootAlone

LEMMA RestartAlone == Tasks0 => BootAlone'
  BY MainTask DEF Tasks0, BootAlone

LEMMA NextAlone == TypeOK /\ BootAlone /\ [Next]_vars => BootAlone'
<1> SUFFICES ASSUME TypeOK, BootAlone, [Next]_vars PROVE BootAlone' OBVIOUS
<1> USE MainTask
<1>0. \A t \in Tasks : t = Main \/ t \in CmdTasks BY DEF Tasks
<1>1. CASE BootCheck
  BY <1>1 DEF BootCheck, TypeOK, BootAlone
<1>2. ASSUME NEW t \in CmdTasks, NEW cmd \in Commands, Dispatch(t, cmd) PROVE BootAlone'
  BY <1>2 DEF Dispatch, TypeOK, BootAlone
<1>3. CASE Tasks0
  BY <1>3, RestartAlone
<1>4. ASSUME NEW t \in Tasks, ReadCfg(t) PROVE BootAlone'
  BY <1>0, <1>4 DEF ReadCfg, TypeOK, BootAlone
<1>5. ASSUME NEW t \in Tasks, ReadJson(t) PROVE BootAlone'
  BY <1>0, <1>5 DEF ReadJson, TypeOK, BootAlone
<1>6. ASSUME NEW t \in Tasks, Erase(t) PROVE BootAlone'
  BY <1>0, <1>6 DEF Erase, TypeOK, BootAlone
<1>7. ASSUME NEW t \in Tasks, Write(t) PROVE BootAlone'
  BY <1>0, <1>7 DEF Write, TypeOK, BootAlone
<1>8. ASSUME NEW t \in Tasks, Finish(t), ~Tasks0 PROVE BootAlone'
  BY <1>0, <1>8 DEF Finish, Restart, NoRestart, RestartIfOk, TypeOK, BootAlone
<1>9. ASSUME NEW t \in Tasks, ReadFails(t), ~Tasks0 PROVE BootAlone'
  BY <1>0, <1>9 DEF ReadFails, Restart, TypeOK, BootAlone
<1>10. ASSUME NEW t \in Tasks, NEW gone, NEW half, EraseFails(t, gone, half)
       PROVE  BootAlone'
  BY <1>0, <1>10 DEF EraseFails, TypeOK, BootAlone
<1>11. ASSUME NEW t \in Tasks, NEW n, NEW m, WriteFails(t, n, m) PROVE BootAlone'
  BY <1>0, <1>11 DEF WriteFails, TypeOK, BootAlone
<1>12. ASSUME NEW t \in Tasks, MqttStarted(t) PROVE BootAlone'
  BY <1>0, <1>12 DEF MqttStarted, TypeOK, BootAlone
<1>13. CASE UNCHANGED vars BY <1>13 DEF vars, BootAlone
<1> QED BY <1>1, <1>2, <1>3, <1>4, <1>5, <1>6, <1>7, <1>8, <1>9, <1>10, <1>11, <1>12, <1>13
        DEF Next, Step, Failure, Restart, CmdRestart, BootReadFails, BootPanics,
            PowerFails, ReadJsonFails, MqttReadFails, PowerFailsInErase, PowerFailsInWrite

-----------------------------------------------------------------------------
(* A valid flag means a complete sector *)

LEMMA FactoryComplete == Complete(Factory)
  BY DEF Complete, Factory

\* A command's assignments never make a sector falsely valid.
LEMMA AssignValid ==
    ASSUME NEW img \in Images, NEW cmd \in AllCommands, ~FalselyValid(img)
    PROVE  ~FalselyValid(Assign(img, cmd))
<1>1. \A i \in Items : Assign(img, cmd)[i]
                         \in {img[i], "AP", "STA", "undo", "", "on", "off", "arg", "word arg"}
  BY DEF Assign, Param, AllCommands, Images, Items
<1>2. Assign(img, cmd)["flag"] = img["flag"]
  BY DEF Assign, AllCommands, Images, Items
<1> QED BY <1>1, <1>2 DEF FalselyValid, Valid, Complete

\* Nor does a restart, if what came before it either left the sector alone or is
\* counted as damage.
LEMMA RestartComplete ==
    ASSUME CompleteInv, Tasks0, BootAlone', (flash' = flash /\ damaged' = damaged) \/ damaged'
    PROVE  CompleteInv'
<1>1. \A t \in Tasks : pc'[t] \notin {"erase", "write"}
  BY DEF Tasks0
<1> QED BY <1>1 DEF CompleteInv, ValidIsComplete, FalselyValid, Valid, Complete

LEMMA NextComplete == TypeOK /\ CompleteInv /\ [Next]_vars => CompleteInv'
<1> SUFFICES ASSUME TypeOK, CompleteInv, [Next]_vars PROVE CompleteInv' OBVIOUS
<1> USE MainTask DEF ValidIsComplete
<1>0. BootAlone' BY NextAlone DEF CompleteInv
<1>a. \A t \in Tasks : t = Main \/ t \in CmdTasks BY DEF Tasks
<1>1. CASE BootCheck
  BY <1>0, <1>1 DEF BootCheck, TypeOK, CompleteInv, ghosts
<1>2. ASSUME NEW t \in CmdTasks, NEW cmd \in Commands, Dispatch(t, cmd) PROVE CompleteInv'
  BY <1>0, <1>2 DEF Dispatch, TypeOK, CompleteInv
<1>3. CASE Restart BY <1>0, <1>3, RestartComplete DEF Restart
<1>4. ASSUME NEW t \in Tasks, ReadCfg(t) PROVE CompleteInv'
  <2>1. ~FalselyValid(flash) => ~FalselyValid(Assign(flash, op[t]))
    BY AssignValid DEF TypeOK
  <2> QED BY <1>0, <1>4, <2>1 DEF ReadCfg, TypeOK, CompleteInv, ghosts
<1>5. ASSUME NEW t \in Tasks, ReadJson(t) PROVE CompleteInv'
  <2>1. ~FalselyValid(Factory) BY FactoryComplete DEF FalselyValid
  <2> QED BY <1>0, <1>5, <2>1 DEF ReadJson, TypeOK, CompleteInv, ghosts
<1>6. ASSUME NEW t \in Tasks, Erase(t) PROVE CompleteInv'
  <2>1. ~FalselyValid(Erased) BY DEF FalselyValid, Valid, Erased, Items
  <2> QED BY <1>0, <1>6, <2>1 DEF Erase, TypeOK, CompleteInv, ghosts
<1>7. ASSUME NEW t \in Tasks, Write(t) PROVE CompleteInv'
  <2>1. CASE t = Main
    <3>1. flash' = Factory
      BY <1>7, <2>1, ProgramErased, ConstantImages DEF Write, CompleteInv, BootAlone
    <3>2. \A u \in Tasks : pc'[u] \notin {"erase", "write"}
      BY <1>7, <1>a, <2>1 DEF Write, TypeOK, CompleteInv, BootAlone
    <3>3. ~FalselyValid(flash')
      BY <3>1, FactoryComplete DEF FalselyValid
    <3> QED BY <1>0, <3>2, <3>3 DEF CompleteInv
  <2>2. CASE t # Main /\ (damaged \/ flash # Erased)
    BY <1>0, <1>7, <2>2 DEF Write, CompleteInv
  <2>3. CASE t # Main /\ ~damaged /\ flash = Erased
    <3>1. flash' = buf[t] BY <1>7, <2>3, ProgramErased DEF Write, TypeOK
    <3> QED BY <1>0, <1>7, <2>3, <3>1 DEF Write, TypeOK, CompleteInv
  <2> QED BY <2>1, <2>2, <2>3
<1>8. ASSUME NEW t \in Tasks, Finish(t), ~Restart PROVE CompleteInv'
  BY <1>0, <1>8 DEF Finish, TypeOK, CompleteInv, ghosts
<1>9. ASSUME NEW t \in Tasks, ReadFails(t), ~Restart PROVE CompleteInv'
  BY <1>0, <1>9 DEF ReadFails, TypeOK, CompleteInv, ghosts
<1>10. ASSUME NEW t \in Tasks, NEW gone, NEW half, EraseFails(t, gone, half)
       PROVE  CompleteInv'
  <2>1. CASE flash' = flash
    BY <1>0, <1>10, <2>1 DEF EraseFails, TypeOK, CompleteInv
  <2>2. CASE flash' # flash
    BY <1>0, <1>10, <2>2 DEF EraseFails, CompleteInv
  <2> QED BY <2>1, <2>2
<1>11. ASSUME NEW t \in Tasks, NEW gone, NEW half, PowerFailsInErase(t, gone, half)
       PROVE  CompleteInv'
  <2>1. (flash' = flash /\ damaged' = damaged) \/ damaged'
    BY <1>11 DEF PowerFailsInErase, TypeOK
  <2> QED BY <1>0, <1>11, <2>1, RestartComplete DEF PowerFailsInErase
<1>12. ASSUME NEW t \in Tasks, NEW n, NEW m,
              WriteFails(t, n, m) \/ PowerFailsInWrite(t, n, m)
       PROVE  CompleteInv'
  BY <1>0, <1>12 DEF WriteFails, PowerFailsInWrite, CompleteInv
<1>13. ASSUME NEW t \in Tasks, MqttStarted(t) PROVE CompleteInv'
  BY <1>0, <1>13 DEF MqttStarted, TypeOK, CompleteInv, ghosts
<1>14. CASE UNCHANGED vars
  BY <1>0, <1>14 DEF vars, ghosts, CompleteInv, FalselyValid, Valid, Complete
<1> QED BY <1>1, <1>2, <1>3, <1>4, <1>5, <1>6, <1>7, <1>8, <1>9, <1>10, <1>11, <1>12,
           <1>13, <1>14
        DEF Next, Step, Failure, CmdRestart, BootReadFails, BootPanics, PowerFails,
            ReadJsonFails, MqttReadFails

\* app_main trusts devInitFlag alone, and may: unless an erase or a write was cut
\* off or a write went over another one, a sector with the flag has every item.
THEOREM CompleteCorrect == Spec => []ValidIsComplete
<1>1. Init => CompleteInv
  <2>1. ~FalselyValid(Erased) /\ ~FalselyValid(Factory)
    BY FactoryComplete DEF FalselyValid, Valid, Erased, Items
  <2> QED BY <2>1, InitAlone, MainTask DEF Init, CompleteInv, ValidIsComplete
<1>2. CompleteInv => ValidIsComplete BY DEF CompleteInv
<1> QED BY <1>1, <1>2, TypeCorrect, NextComplete, PTL DEF Spec

-----------------------------------------------------------------------------
(* Durability *)

\* A restart keeps what is acknowledged, if what came before it is counted as a
\* disturbance or left the sector alone.
LEMMA RestartDurable ==
    ASSUME DurableInv, Tasks0, BootAlone',
           ~disturbed' => /\ ~disturbed /\ flash' = flash /\ acked' = acked
                          /\ \A t \in Tasks : pc[t] # "write"
    PROVE  DurableInv'
<1>1. \A t \in Tasks : pc'[t] \in {"boot", "off"}
  BY DEF Tasks0
<1>2. \A t \in Tasks : ~Active(t)'
  BY <1>1 DEF Active, Busy
<1> SUFFICES ASSUME ~disturbed' PROVE DurableInv'
  BY DEF DurableInv
<1> QED BY <1>1, <1>2 DEF DurableInv

LEMMA NextDurable == TypeOK /\ DurableInv /\ [Next]_vars => DurableInv'
<1> SUFFICES ASSUME TypeOK, DurableInv, [Next]_vars PROVE DurableInv' OBVIOUS
<1> USE MainTask
<1>0. BootAlone' BY NextAlone DEF DurableInv
<1>a. \A t \in Tasks : t = Main \/ t \in CmdTasks BY DEF Tasks
<1>1. CASE BootCheck
  BY <1>0, <1>1, <1>a DEF BootCheck, TypeOK, DurableInv, BootAlone, Active, Busy, Target, ghosts
<1>2. ASSUME NEW t \in CmdTasks, NEW cmd \in Commands, Dispatch(t, cmd) PROVE DurableInv'
  BY <1>0, <1>2 DEF Dispatch, TypeOK, DurableInv, Active, Busy, Target
<1>3. CASE Restart BY <1>0, <1>3, RestartDurable DEF Restart, TypeOK
<1>4. ASSUME NEW t \in Tasks, ReadCfg(t) PROVE DurableInv'
  BY <1>0, <1>4 DEF ReadCfg, TypeOK, DurableInv, Active, Busy, Target, ghosts
<1>5. ASSUME NEW t \in Tasks, ReadJson(t) PROVE DurableInv'
  BY <1>0, <1>5 DEF ReadJson, TypeOK, DurableInv, Active, Busy, Target, ghosts
<1>6. ASSUME NEW t \in Tasks, Erase(t) PROVE DurableInv'
  BY <1>0, <1>6 DEF Erase, TypeOK, DurableInv, Active, Busy, Target, ghosts
<1>7. ASSUME NEW t \in Tasks, Write(t) PROVE DurableInv'
  <2>1. CASE t = Main
    <3>1. flash' = Factory /\ acked' = Factory
      BY <1>7, <2>1, ProgramErased, ConstantImages DEF Write, DurableInv, BootAlone
    <3>2. \A u \in Tasks : pc'[u] \notin {"erase", "write", "read", "json"}
      BY <1>7, <1>a, <2>1 DEF Write, TypeOK, DurableInv, BootAlone
    <3> QED BY <1>0, <3>1, <3>2 DEF DurableInv, Active, Busy
  <2>2. CASE t # Main
    <3>1. SUFFICES ASSUME ~disturbed PROVE DurableInv'
      BY <1>0, <1>7, <2>2 DEF Write, DurableInv
    <3>2. flash' = buf[t]
      BY <1>7, <3>1, ProgramErased DEF Write, TypeOK, DurableInv
    <3>3. \A u \in Tasks : pc'[u] \notin {"erase", "write", "read", "json"}
      BY <1>7, <3>1 DEF Write, TypeOK, DurableInv, Active, Busy
    <3>4. flash' = acked'
      BY <1>7, <3>1, <3>2 DEF Write, DurableInv, Target
    <3> QED BY <1>0, <3>3, <3>4 DEF DurableInv, Active, Busy
  <2> QED BY <2>1, <2>2
<1>8. ASSUME NEW t \in Tasks, Finish(t), ~Restart PROVE DurableInv'
  BY <1>0, <1>8 DEF Finish, TypeOK, DurableInv, Active, Busy, Target, ghosts
<1>9. ASSUME NEW t \in Tasks, ReadFails(t), ~Restart PROVE DurableInv'
  BY <1>0, <1>9 DEF ReadFails, TypeOK, DurableInv, Active, Busy, Target, ghosts
<1>10. ASSUME NEW t \in Tasks, NEW gone, NEW half, EraseFails(t, gone, half)
       PROVE  DurableInv'
  <2>1. CASE flash' = flash
    BY <1>0, <1>10, <2>1 DEF EraseFails, TypeOK, DurableInv, Active, Busy, Target
  <2>2. CASE flash' # flash
    BY <1>0, <1>10, <2>2 DEF EraseFails, DurableInv
  <2> QED BY <2>1, <2>2
<1>11. ASSUME NEW t \in Tasks, NEW gone, NEW half, PowerFailsInErase(t, gone, half)
       PROVE  DurableInv'
  <2>1. ~disturbed' => ~disturbed /\ flash' = flash /\ acked' = acked
    BY <1>11 DEF PowerFailsInErase
  <2>2. ~disturbed => \A u \in Tasks : pc[u] # "write"
    BY <1>11 DEF PowerFailsInErase, DurableInv, Active, Busy
  <2> QED BY <1>0, <1>11, <2>1, <2>2, RestartDurable DEF PowerFailsInErase
<1>12. ASSUME NEW t \in Tasks, NEW n, NEW m,
              WriteFails(t, n, m) \/ PowerFailsInWrite(t, n, m)
       PROVE  DurableInv'
  BY <1>0, <1>12 DEF WriteFails, PowerFailsInWrite, DurableInv
<1>13. ASSUME NEW t \in Tasks, MqttStarted(t) PROVE DurableInv'
  BY <1>0, <1>13 DEF MqttStarted, TypeOK, DurableInv, Active, Busy, Target, ghosts
<1>14. CASE UNCHANGED vars
  BY <1>0, <1>14 DEF vars, ghosts, DurableInv, Active, Busy, Target
<1> QED BY <1>1, <1>2, <1>3, <1>4, <1>5, <1>6, <1>7, <1>8, <1>9, <1>10, <1>11, <1>12,
           <1>13, <1>14
        DEF Next, Step, Failure, CmdRestart, BootReadFails, BootPanics, PowerFails,
            ReadJsonFails, MqttReadFails

\* An acknowledged setting is lost only if commands overlapped, an erase or a
\* write was cut off, or the device stopped between the two.
THEOREM DurableCorrect == Spec => []Durable
<1>1. Init => DurableInv
  <2> SUFFICES ASSUME Init PROVE DurableInv OBVIOUS
  <2>1. \A t \in Tasks : pc[t] \in {"boot", "off"} BY DEF Init
  <2>2. \A t \in Tasks : ~Active(t) BY <2>1 DEF Active, Busy
  <2>3. ~disturbed => flash = acked BY DEF Init
  <2> QED BY InitAlone, <2>1, <2>2, <2>3 DEF DurableInv
<1>2. DurableInv => Durable BY DEF DurableInv, Durable
<1> QED BY <1>1, <1>2, TypeCorrect, NextDurable, PTL DEF Spec

-----------------------------------------------------------------------------
(* The keys *)

\* Every variable keeps its type, for every number of keys.
THEOREM KeyTypeCorrect == KeySpec => []KeyTypeOK
<1> USE KeyAssumption DEF Keys, Events
<1>1. KeyInit => KeyTypeOK
  BY DEF KeyInit, KeyTypeOK
<1>2. KeyTypeOK /\ [KeyNext]_keyVars => KeyTypeOK'
  <2> SUFFICES ASSUME KeyTypeOK, [KeyNext]_keyVars PROVE KeyTypeOK'
    OBVIOUS
  <2>1. CASE Sample
    <3>1. Event(status[key], key \in pressed) \in Events
      BY DEF KeyTypeOK, Event
    <3>2. NextStatus(status[key], key \in pressed) \in 0..3
      BY <2>1 DEF KeyTypeOK, NextStatus
    <3>3. After(key) \in Keys
      BY DEF KeyTypeOK, After
    <3> QED
      BY <2>1, <3>1, <3>2, <3>3 DEF Sample, KeyTypeOK
  <2>2. CASE \E k \in Keys : Moves(k)
    BY <2>2 DEF Moves, KeyTypeOK
  <2>3. CASE UNCHANGED keyVars
    BY <2>3 DEF keyVars, KeyTypeOK
  <2> QED
    BY <2>1, <2>2, <2>3 DEF KeyNext
<1> QED
  BY <1>1, <1>2, PTL DEF KeySpec

\* A key in state 1 was down when it was last sampled; a key that is held too.
SampledDown == \A k \in Keys : status[k] > 0 => last[k]

\* So it is always, for every number of keys.
LEMMA SampledDownCorrect == KeySpec => []SampledDown
<1>1. KeyInit => SampledDown
  BY DEF KeyInit, SampledDown
<1>2. KeyTypeOK /\ SampledDown /\ [KeyNext]_keyVars => SampledDown'
  <2> SUFFICES ASSUME KeyTypeOK, SampledDown, [KeyNext]_keyVars PROVE SampledDown'
    OBVIOUS
  <2>1. CASE Sample
    <3> SUFFICES ASSUME NEW k \in Keys, status'[k] > 0 PROVE last'[k]
      BY DEF SampledDown
    <3>1. /\ status \in [Keys -> 0..3] /\ last \in [Keys -> BOOLEAN] /\ key \in Keys
          /\ status' = [status EXCEPT ![key] = NextStatus(@, key \in pressed)]
          /\ last' = [last EXCEPT ![key] = (key \in pressed)]
      BY <2>1 DEF Sample, KeyTypeOK
    <3>2. CASE k = key
      <4>1. key \in pressed
        BY <3>1, <3>2 DEF NextStatus
      <4>2. last'[key] = (key \in pressed)
        BY <3>1, Zenon
      <4> QED
        BY <3>2, <4>1, <4>2
    <3>3. CASE k # key
      <4>1. status'[k] = status[k] /\ last'[k] = last[k]
        BY <3>1, <3>3, Zenon
      <4> QED
        BY <4>1 DEF SampledDown
    <3> QED
      BY <3>2, <3>3
  <2>2. CASE \E k \in Keys : Moves(k)
    BY <2>2 DEF Moves, SampledDown
  <2>3. CASE UNCHANGED keyVars
    BY <2>3 DEF keyVars, SampledDown
  <2> QED
    BY <2>1, <2>2, <2>3 DEF KeyNext
<1> QED
  BY <1>1, <1>2, KeyTypeCorrect, PTL DEF KeySpec

\* No press begins before two samples in a row have found the key down.
THEOREM DownIsSureCorrect == KeySpec => DownIsSure
<1>1. KeyTypeOK /\ SampledDown /\ [KeyNext]_keyVars
        => [\A k \in Keys : status[k] = 1 /\ status'[k] = 2 => last[k] /\ last'[k]]_keyVars
  <2> SUFFICES ASSUME KeyTypeOK, SampledDown, [KeyNext]_keyVars,
                      NEW k \in Keys, status[k] = 1, status'[k] = 2
               PROVE  last[k] /\ last'[k]
    OBVIOUS
  <2>1. Sample /\ k = key
    BY DEF KeyNext, Sample, Moves, keyVars, KeyTypeOK
  <2>2. last[k]
    BY DEF SampledDown
  <2>3. key \in pressed
    BY <2>1 DEF Sample, NextStatus, KeyTypeOK
  <2> QED
    BY <2>1, <2>2, <2>3 DEF Sample, KeyTypeOK
<1> QED
  BY <1>1, KeyTypeCorrect, SampledDownCorrect, PTL DEF KeySpec, DownIsSure

\* The events of every key form presses that do not overlap: the driver
\* implements KeyEvents.
THEOREM PromiseKept == KeySpec => Promised
<1> USE KeyAssumption DEF Keys, Events
<1>1. KeyInit => Promise!Init
  BY DEF KeyInit, Promise!Init, Held
<1>2. KeyTypeOK /\ [KeyNext]_keyVars => [Promise!Next]_<<Held, out>>
  <2> SUFFICES ASSUME KeyTypeOK, [KeyNext]_keyVars PROVE [Promise!Next]_<<Held, out>>
    OBVIOUS
  <2>1. CASE Sample
    <3> DEFINE down == key \in pressed
    <3>0. /\ key \in Keys /\ status[key] \in 0..3
          /\ out' = [key |-> key, event |-> Event(status[key], down)]
          /\ status' = [status EXCEPT ![key] = NextStatus(@, down)]
          /\ status \in [Keys -> 0..3]
      BY <2>1 DEF Sample, KeyTypeOK
    <3>1. CASE status[key] = 0
      <4>1. Held' = Held /\ key \notin Held
        BY <3>0, <3>1 DEF Held, NextStatus
      <4> QED
        BY <3>0, <3>1, <4>1 DEF Event, Promise!Next, Promise!Nothing
    <3>2. CASE status[key] = 1 /\ down
      <4>1. Held' = Held \cup {key} /\ key \notin Held
        BY <3>0, <3>2 DEF Held, NextStatus
      <4> QED
        BY <3>0, <3>2, <4>1 DEF Event, Promise!Next, Promise!Down
    <3>3. CASE status[key] = 1 /\ ~down
      <4>1. Held' = Held /\ key \notin Held
        BY <3>0, <3>3 DEF Held, NextStatus
      <4> QED
        BY <3>0, <3>3, <4>1 DEF Event, Promise!Next, Promise!Nothing
    <3>4. CASE status[key] \in {2, 3} /\ down
      <4>1. Held' = Held /\ key \in Held
        BY <3>0, <3>4 DEF Held, NextStatus
      <4> QED
        BY <3>0, <3>4, <4>1 DEF Event, Promise!Next, Promise!Press
    <3>5. CASE status[key] \in {2, 3} /\ ~down
      <4>1. Held' = Held \ {key} /\ key \in Held
        BY <3>0, <3>5 DEF Held, NextStatus
      <4> QED
        BY <3>0, <3>5, <4>1 DEF Event, Promise!Next, Promise!Up
    <3> QED
      BY <3>0, <3>1, <3>2, <3>3, <3>4, <3>5
  <2>2. CASE \E k \in Keys : Moves(k)
    BY <2>2 DEF Moves, Held
  <2>3. CASE UNCHANGED keyVars
    BY <2>3 DEF keyVars, Held
  <2> QED
    BY <2>1, <2>2, <2>3 DEF KeyNext
<1> QED
  BY <1>1, <1>2, KeyTypeCorrect, PTL DEF KeySpec, Promised, Promise!Spec

=============================================================================
