SPECIFICATION Spec
CONSTANTS
    Ports = {1, 2}
    Modes = {"command", "checkpoint"}
    Kicks = {FALSE, TRUE}
    MayCrash = TRUE
    MaxHistory = 1
INVARIANTS
    BootStreamUntouched
    SuccessIsOwn
PROPERTIES
    GateSpec
    MainReturns
CHECK_DEADLOCK FALSE
