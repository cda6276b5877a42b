SPECIFICATION PipelineSpec
CONSTANTS
    r1 = r1
    r2 = r2
    hello = hello
    bye = bye
    Requests = {r1, r2}
    TextOf <- MCTexts
    Versions = {"V1"}
    MaxSlots = 1
    Faulty = {}
    MaxFaults = 0
    MaxRestarts = 1
INVARIANT RecoveredAfterRestart
\* Every message is sent once: the system stops when they are handled.
CHECK_DEADLOCK FALSE
