\* The unlock addresses are in the second sector and in the third.
CONSTANTS
    Size = 6
    SectorSize = 2
    Bits = {1, 2, 3}
    Unlock1 = 5
    Unlock2 = 2
    Key1 <- MCKey1
    Key2 <- MCKey2
    Program <- MCProgram
    Erase <- MCErase
    Sector <- MCSector
    Jobs <- MCJobs
    Images <- MCImages
    Attempts = 3
SPECIFICATION Spec
INVARIANTS WriteRomTypeOK SuccessExact VerifiedStays OthersKept CommandsComplete
PROPERTIES GivesUpOnBadChip Ends
CHECK_DEADLOCK FALSE
