SPECIFICATION Spec
CONSTANTS
    AddressWidth = 2
    DataWidth = 2
    LastWritten = 3
    ReadJobs <- MCReadJobs
    MaxCalls = 2
    MaxRuns = 1
    Images <- MCImages
    Width = 4
    CtlWrite = 10
    page_size = 2
    Polls = 2
    Size = 8
    DevicePage = 4
    CartJobs <- MCCartJobs
    CartImages <- MCCartImages
    MaxCartRuns = 1
INVARIANTS
    StoreAsAsked
    NoFight
    DumpTrue
    Programmed
    DumpExact
\* A program ends, or is killed, and no further one need be started.
CHECK_DEADLOCK FALSE
