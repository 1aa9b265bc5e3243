\* The same controller, and what the computer sees of it at any moment.
CONSTANTS
    Codes <- MCCodes
    Release = 240
    Extended = 224
    scantable <- MCScantable
    NoKey = NoKey
    Rows = {2, 5}
    Garbage = {{0, 1}}
SPECIFICATION Ps2Spec
INVARIANTS ColumnsShown
