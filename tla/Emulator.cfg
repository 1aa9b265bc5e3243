\* Fill is the opcode of nop.
CONSTANTS
    Ops <- OpsTable
    Fill = 234
    TickStep = 8
    StepNs = 3
    Second = 20
    RedrawNs = 8
    Columns = {0, 39}
    Lines = {0, 8}
    Sizes <- MCSizes
    Keys = {17, 255}
    Jobs <- MCJobs
SPECIFICATION Spec
INVARIANTS ClockExact ScreenFresh PictureKept
PROPERTIES FlagsTell ReturnsToCaller RedrawShowsMemory
CHECK_DEADLOCK FALSE
