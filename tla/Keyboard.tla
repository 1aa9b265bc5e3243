------------------------------ MODULE Keyboard ------------------------------
(***************************************************************************)
(* From a key of the host to a character of a program: the key events of   *)
(* the emulator's main loop (emulator/main.c), the matrix they set in      *)
(* s->keyboard (emulator/hm1000.c), and the ROM's pollkey and pollchr,     *)
(* which scan it (rom/rom.s).                                              *)
(*                                                                         *)
(* main.c takes at most one event after each instruction, and the only     *)
(* instruction of a scan that looks at the matrix is lda KBDCOL, once for  *)
(* each row.  A step of pollkey is therefore one row.                      *)
(*                                                                         *)
(* Both the matrix and KBDSTATE have a 0 bit for a key that is down; here  *)
(* they are the sets of keys whose bit is 0.                               *)
(***************************************************************************)
EXTENDS Integers

CONSTANTS
    NRows, NCols,   \* 8 and 8
    HostKeys,       \* keys of the host's keyboard
    keymap,         \* gui->keymap: the position of each, or None (0xff)
    None,
    ShiftKey,       \* row 2, column 7
    QuitKey,        \* KEY_Q: with mod1 it leaves the emulator
    Blank,          \* positions with no character in kbmap
    MaxEvents       \* key events, to bound the runs

Rows == 0..(NRows - 1)
Cols == 0..(NCols - 1)
Keys == Rows \X Cols

ASSUME KeyboardAssumption ==
    /\ NRows \in Nat \ {0} /\ NCols \in Nat \ {0}
    /\ None \notin Keys
    /\ keymap \in [HostKeys -> Keys \cup {None}]
    /\ ShiftKey \in Keys /\ QuitKey \in Keys
    /\ Blank \subseteq Keys /\ ShiftKey \in Blank
    /\ MaxEvents \in Nat

VARIABLES
    running,    \* the emulator has not left its loop
    held,       \* host keys that are down
    keyboard,   \* s->keyboard
    kbdstate,   \* KBDSTATE
    polling,    \* a program is in pollkey
    y,          \* the row to be scanned next
    found,      \* POLLKEYX: the key chosen by this scan
    char,       \* what the last call of pollchr returned
    events,
    \* history
    wasDown,    \* keys down in the matrix at some time during the call
    wasUp,      \* keys up in the matrix at some time during the call
    fresh,      \* keys up at some time since they were last found
    before      \* KBDSTATE when the scan began

hostVars == <<running, held, keyboard, events>>
romVars == <<kbdstate, polling, y, found, char>>
history == <<wasDown, wasUp, fresh, before>>
kbVars == <<hostVars, romVars, history>>

Chars == [key : Keys, shifted : BOOLEAN] \cup {None}

KbTypeOK ==
    /\ running \in BOOLEAN
    /\ held \subseteq HostKeys
    /\ keyboard \subseteq Keys
    /\ kbdstate \subseteq Keys
    /\ polling \in BOOLEAN
    /\ y \in Rows
    /\ found \in Keys \cup {None}
    /\ char \in Chars
    /\ events \in 0..MaxEvents
    /\ wasDown \subseteq Keys /\ wasUp \subseteq Keys
    /\ fresh \subseteq Keys /\ before \subseteq Keys

(* KBDSTATE is whatever the memory check left there: no line of the ROM    *)
(* initialises it.                                                         *)
KbInit ==
    /\ running = TRUE
    /\ held = {}
    /\ keyboard = {}
    /\ kbdstate \in SUBSET Keys
    /\ polling = FALSE
    /\ y = 0
    /\ found = None
    /\ char = None
    /\ events = 0
    /\ wasDown = {} /\ wasUp = Keys
    /\ fresh = Keys /\ before = kbdstate

-----------------------------------------------------------------------------
(* The matrix after an event, and what it adds to the history.             *)
SetMatrix(keys) ==
    /\ keyboard' = keys
    /\ wasDown' = wasDown \cup keys
    /\ wasUp' = wasUp \cup (Keys \ keys)
    /\ fresh' = fresh \cup (Keys \ keys)
    /\ UNCHANGED before

Event == running /\ events < MaxEvents /\ events' = events + 1

(* XCB_KEY_PRESS, with mod1 down or not.                                   *)
KeyPress(h, mod1) ==
    LET pos == keymap[h]
    IN  /\ Event
        /\ h \notin held
        /\ held' = held \cup {h}
        /\ running' = ~(mod1 /\ pos = QuitKey)
        /\ SetMatrix(IF pos = None \/ mod1 THEN keyboard ELSE keyboard \cup {pos})
        /\ UNCHANGED romVars

(* XCB_KEY_RELEASE: mod1 makes no difference.                              *)
(* A mutant: it does.                                                      *)
Released_Mod1(pos, mod1) == IF mod1 THEN keyboard ELSE keyboard \ {pos}
Released(pos, mod1) == keyboard \ {pos}

KeyRelease(h, mod1) ==
    /\ Event
    /\ h \in held
    /\ held' = held \ {h}
    /\ SetMatrix(Released(keymap[h], mod1))
    /\ UNCHANGED <<running, romVars>>

-----------------------------------------------------------------------------
(* A program calls pollkey.                                                *)
CallPoll ==
    /\ running
    /\ ~polling
    /\ polling' = TRUE
    /\ y' = NRows - 1
    /\ found' = None
    /\ wasDown' = keyboard
    /\ wasUp' = Keys \ keyboard
    /\ before' = kbdstate
    /\ UNCHANGED <<hostVars, kbdstate, char, fresh>>

(* The row as read from KBDCOL: the keys of row y that are down.           *)
RowKeys == {y} \X Cols
Pressed == keyboard \cap RowKeys

(* The highest bit of those that are new.                                  *)
Highest(keys) == CHOOSE k \in keys : \A j \in keys : j[2] <= k[2]

(* ora KBDSTATE, y: a key that is up is no longer recorded.                *)
StillDown == kbdstate \ (RowKeys \ Pressed)

(* At most one key is chosen in a scan; others stay unrecorded, and so new *)
(* for the next.                                                           *)
(* A mutant: they are all recorded.                                        *)
Recorded_All == StillDown \cup Pressed
(* A mutant: eor goes to the row, not to the bit, and records nothing.     *)
Recorded_None == StillDown
Recorded ==
    IF found = None /\ Pressed \ kbdstate # {}
    THEN StillDown \cup {Highest(Pressed \ kbdstate)} ELSE StillDown

Chosen ==
    IF found = None /\ Pressed \ kbdstate # {}
    THEN Highest(Pressed \ kbdstate) ELSE found

(* pollchr: the character, shifted if the shift key is recorded as down.   *)
(* A mutant: it looks at the state before the scan.                        *)
ShiftDown_Old(state) == ShiftKey \in before
ShiftDown(state) == ShiftKey \in state

Character(key, state) ==
    IF key = None \/ key \in Blank THEN None
    ELSE [key |-> key, shifted |-> ShiftDown(state)]

PollRow ==
    /\ running
    /\ polling
    /\ kbdstate' = Recorded
    /\ found' = Chosen
    /\ fresh' = IF found = None /\ Chosen # None
                THEN fresh \ {Chosen} ELSE fresh
    /\ IF y = 0
         THEN /\ polling' = FALSE
              /\ char' = Character(Chosen, Recorded)
              /\ UNCHANGED y
         ELSE /\ y' = y - 1
              /\ UNCHANGED <<polling, char>>
    /\ UNCHANGED <<hostVars, wasDown, wasUp, before>>

KbNext ==
    \/ \E h \in HostKeys, mod1 \in BOOLEAN : KeyPress(h, mod1) \/ KeyRelease(h, mod1)
    \/ CallPoll
    \/ PollRow

(* The program waits for a character (waitchr), and the processor runs.    *)
KbSpec == KbInit /\ [][KbNext]_kbVars /\ WF_kbVars(CallPoll) /\ WF_kbVars(PollRow)

-----------------------------------------------------------------------------
(* A key is down in the matrix only while some key of the host that maps   *)
(* to it is: none gets stuck, whatever is pressed together with mod1.      *)
NoStuckKey == keyboard \subseteq {keymap[h] : h \in held}

(* A scan finds a key only when the key was down while the scan ran, and   *)
(* has been up since it was found the last time: one press, one report.    *)
OnePressOneReport ==
    [][ (found = None /\ found' # None) => found' \in wasDown \cap fresh ]_kbVars

(* No press is lost: a key is recorded only by being found, and when a     *)
(* scan finds nothing, every key that was down all through it has been     *)
(* recorded (in this boot, or by what the memory check left in KBDSTATE).  *)
(* No release is lost: a key that was up all through a scan is no longer   *)
(* recorded.                                                               *)
ScanComplete ==
    [][ /\ kbdstate' \ kbdstate \subseteq {found'}
        /\ polling /\ ~polling' =>
             /\ found' = None => Keys \ wasUp \subseteq kbdstate'
             /\ kbdstate' \subseteq wasDown ]_kbVars

(* A character is shifted only if the shift key was down while the scan    *)
(* ran, and always if it was recorded before and stayed down.              *)
ShiftFollows ==
    [][ (polling /\ ~polling' /\ char' # None) =>
          /\ char'.shifted => ShiftKey \in wasDown
          /\ ShiftKey \in before \ wasUp => char'.shifted ]_kbVars

(* A key that stays down is found once the other keys rest (a run has      *)
(* finitely many events).                                                  *)
PressFound ==
    \A k \in Keys : k \in keyboard ~> (k \in kbdstate \/ k \notin keyboard \/ ~running)
=============================================================================
