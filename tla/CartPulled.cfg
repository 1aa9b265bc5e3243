\* A save during which the cartridge may be pulled out; CARTBSZ 2.
CONSTANTS
    B = 8
    Select = 1
    Blocks = 1
    Size = 24
    PageSize = 4
    SlowWrites = TRUE
    Reserved <- MCReserved
    Jobs <- PullJobs
    MaxCalls = 1
    BlockSizes = {2}
    Tries = 6
    Images <- MCImages
    RamImages <- MCRamImages
    Checked = 17
    Top = 56
    Pattern = 5
    VideoRam <- MCVideoRam
    MarkAt = 23
    HeaderAt = 24
    HeaderLoad = 16
    Magic <- MCMagic
    DeadCells <- MCDeadCells
    Sessions <- PullSessions
SPECIFICATION RomSpec
PROPERTY SaveReturns
CHECK_DEADLOCK FALSE
