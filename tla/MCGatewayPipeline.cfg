SPECIFICATION PipelineSpec
CONSTANTS
    r1 = r1
    r2 = r2
    hello = hello
    bye = bye
    Requests = {r1, r2}
    TextOf <- MCTexts
    Versions = {"V1", "V2"}
    MaxSlots = 1
    Faulty = {"reply", "save", "context", "agent"}
    MaxFaults = 1
    MaxRestarts = 1
INVARIANTS SlotsTrue OneReply
PROPERTY AllFinish
\* Every message is sent once: the system stops when they are handled.
CHECK_DEADLOCK FALSE
