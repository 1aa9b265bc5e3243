\* A program that scrolls by two lines, and one that shows a number.
CONSTANTS
    B = 8
    Select = 1
    Blocks = 1
    Size = 24
    PageSize = 4
    SlowWrites = TRUE
    Reserved <- MCReserved
    Jobs <- MCJobs
    MaxCalls = 2
    BlockSizes = {2, 4}
    Tries = 6
    Images <- MCImages
    RamImages <- MCRamImages
    Checked = 17
    Top = 56
    Pattern = 5
    VideoRam <- MCVideoRam
    MarkAt = 23
    HeaderAt = 24
    HeaderLoad = 16
    Magic <- MCMagic
    DeadCells <- MCDeadCells
    Sessions <- ScreenSessions
SPECIFICATION RomSpec
PROPERTY RoutinesAsDocumented
CHECK_DEADLOCK FALSE
