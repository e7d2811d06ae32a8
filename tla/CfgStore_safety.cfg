SPECIFICATION Spec
CONSTANTS
    Main = main
    CmdTasks = {uart, web}
    Commands = {"factory", "restart", "setuart1", "setmqtt"}
    EraseCuts = {{}, {"mode", "dev"}, {"flag", "ap", "mqtt"}}
    MaxFaults = 1
INVARIANTS
    TypeOK
    ValidIsComplete
    Durable
