SPECIFICATION LiveSpec
CONSTANTS
    Config = {1, 2, 3}
    Port = {11, 12, 13}
    NoPort = 0
    Parallel = 2
    Passes = 1
    Busy = {13}
    Intruded = {11}
INVARIANTS OwnPortOwnConfig StraysOnlyToIntruders
    SuccessPassedAll  EveryConfigReported
PROPERTIES ImplementsRound Terminates
CHECK_DEADLOCK FALSE
