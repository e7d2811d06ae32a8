SPECIFICATION FairSpec
CONSTANTS
    Main = main
    CmdTasks = {uart}
    Commands = {"factory", "restart", "openwifi", "closewifi", "setuart1",
                "mqttstop", "setmqtt", "setmqttinfo"}
    EraseCuts = {{}, {"mode", "dev"}}
    MaxFaults = 1
PROPERTIES
    ServicesReturn
