SPECIFICATION Spec
CONSTANTS
    MqttTask = mqtt
    AppTasks = {uart1}
    Ids = {1, 2}
    MaxOps = 4
CHECK_DEADLOCK FALSE
INVARIANTS
    TypeOK
    
    AnswersCounted
    Encoded
