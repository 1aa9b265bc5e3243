\* Shift and a letter in the lower row, the quit key in the upper.
CONSTANTS
    NRows = 2
    NCols = 2
    h1 = h1
    h2 = h2
    h3 = h3
    h4 = h4
    h5 = h5
    HostKeys = {h1, h2, h3, h4, h5}
    None = None
    keymap <- MCKeymap
    ShiftKey <- MCShift
    QuitKey <- MCQuit
    Blank <- MCBlank
    MaxEvents = 4
SPECIFICATION KbSpec
INVARIANTS NoStuckKey
PROPERTIES OnePressOneReport ScanComplete ShiftFollows PressFound
CHECK_DEADLOCK FALSE
