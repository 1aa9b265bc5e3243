\* A device with pages of 4 that programs slowly; CARTBSZ 2 or 4.
CONSTANTS
    B = 8
    Select = 1
    Blocks = 1
    Size = 24
    PageSize = 4
    SlowWrites = TRUE
    Reserved <- MCReserved
    Jobs <- MCJobs
    MaxCalls = 2
    BlockSizes = {2, 4}
    Tries = 6
    Images <- MCImages
    RamImages <- MCRamImages
    Checked = 17
    Top = 56
    Pattern = 5
    VideoRam <- MCVideoRam
    MarkAt = 23
    HeaderAt = 24
    HeaderLoad = 16
    Magic <- MCMagic
    DeadCells <- MCDeadCells
    Sessions <- MCSessions
SPECIFICATION RomSpec
INVARIANTS XferTypeOK LoadExact SaveExact SavesPrefix InProtocol RamTopExact BootTells
PROPERTIES CallsReturn BootDecides ImplementsConsole
CHECK_DEADLOCK FALSE
