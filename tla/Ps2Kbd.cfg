\* Two keys in row 2, a code without a key, and row 5 to look away to.
CONSTANTS
    Codes <- MCCodes
    Release = 240
    Extended = 224
    scantable <- MCScantable
    NoKey = NoKey
    Rows = {2, 5}
    Garbage = {{0, 1}}
SPECIFICATION Ps2Spec
INVARIANTS Ps2TypeOK
PROPERTIES ImplementsLink KeyShown CodesTaken
