\* A save of a block of B bytes on a device with pages of B bytes.
CONSTANTS
    B = 8
    Select = 1
    Blocks = 1
    Size = 24
    PageSize = 8
    SlowWrites = TRUE
    Reserved <- MCReserved
    Jobs <- BlockJobs
    MaxCalls = 1
    BlockSizes = {8}
    Tries = 6
    Images <- MCImages
    RamImages <- MCRamImages
    Checked = 17
    Top = 56
    Pattern = 5
    VideoRam <- MCVideoRam
    MarkAt = 23
    HeaderAt = 24
    HeaderLoad = 16
    Magic <- MCMagic
    DeadCells <- MCDeadCells
    Sessions <- BlockSessions
SPECIFICATION RomSpec
INVARIANT SaveExact
CHECK_DEADLOCK FALSE
