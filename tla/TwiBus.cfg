\* A two-byte image, up to two transfers a transaction.  $a6 selects the
\* cartridge (block 3), $a1 reads, $50 is some other device.  A register left at $50
\* turns into $a0 or $a1 when the boot clocks one bit into it.
CONSTANTS
    CartSize = 2
    InitBytes = {90}
    Garbage = {80}
    CtlBytes = {166, 80, 161}
    AddrBytes = {0, 3}
    DataBytes = {165}
    MaxTransfers = 2
SPECIFICATION BusSpec
INVARIANTS FrameCounter InStep
PROPERTIES ImplementsEeprom
