--------------------------- MODULE KeyboardProofs ---------------------------
(***************************************************************************)
(* For every size of the matrix, every keymap and any number of keys that  *)
(* go up and down while it is scanned: no key gets stuck, each press is    *)
(* reported once, no press and no release is lost.                         *)
(***************************************************************************)
EXTENDS Keyboard, WellFoundedInduction, TLAPS

-----------------------------------------------------------------------------
(* A set of keys that is not empty has one in the highest column.          *)

LEMMA NatHasMin ==
  ASSUME NEW T, T \subseteq Nat, T # {}
  PROVE  \E m \in T : \A n \in T : m <= n
<1> DEFINE R == OpToRel(<, Nat)
<1>1. IsWellFoundedOn(R, Nat)
  BY NatLessThanWellFounded
<1>2. PICK m \in T : \A n \in T : ~(<<n, m>> \in R)
  <2> HIDE DEF R
  <2> QED BY <1>1, WFMin
<1>3. ASSUME NEW n \in T PROVE m <= n
  <2>1. ~(n < m)
    BY <1>2 DEF OpToRel
  <2> QED BY <2>1
<1> QED BY <1>3

LEMMA HighestKey ==
  ASSUME NEW keys, keys \subseteq Keys, keys # {}
  PROVE  Highest(keys) \in keys
<1> DEFINE T == {NCols - k[2] : k \in keys}
<1>1. T \subseteq Nat
  BY KeyboardAssumption DEF Keys, Cols
<1>2. T # {}
  OBVIOUS
<1>3. PICK m \in T : \A n \in T : m <= n
  <2> HIDE DEF T
  <2> QED BY <1>1, <1>2, NatHasMin
<1>4. PICK k \in keys : m = NCols - k[2]
  OBVIOUS
<1>5. ASSUME NEW j \in keys PROVE j[2] <= k[2]
  <2>1. NCols - k[2] <= NCols - j[2]
    BY <1>3, <1>4
  <2>2. j[2] \in Int /\ k[2] \in Int /\ NCols \in Int
    BY KeyboardAssumption DEF Keys, Cols
  <2> QED BY <2>1, <2>2
<1> QED BY <1>5 DEF Highest

-----------------------------------------------------------------------------
(* The inductive invariant.  A key that is not fresh is down and recorded, *)
(* so a key that is down and new has been up since it was found.  The      *)
(* history of the call brackets the matrix, and the rows above y have been *)
(* scanned: what is recorded there was down, and as long as nothing was    *)
(* found nothing that stayed down is missing.  A key recorded before stays *)
(* so while it stays down.                                                 *)
FreshInv == Keys \ (keyboard \cap kbdstate) \subseteq fresh
BracketInv == keyboard \subseteq wasDown /\ Keys \ keyboard \subseteq wasUp
ScannedInv ==
    polling => \A k \in Keys : k[1] > y =>
        /\ k \in kbdstate => k \in wasDown
        /\ found = None /\ k \notin wasUp => k \in kbdstate
KeptInv == before \ wasUp \subseteq kbdstate
KbInv == KbTypeOK /\ NoStuckKey /\ FreshInv /\ BracketInv /\ ScannedInv /\ KeptInv

LEMMA ChosenNew ==
  ASSUME KbTypeOK, found = None, Pressed \ kbdstate # {}
  PROVE  /\ Chosen = Highest(Pressed \ kbdstate)
         /\ Chosen \in Keys /\ Chosen # None
         /\ Chosen \in keyboard /\ Chosen \notin kbdstate
         /\ Chosen[1] = y
         /\ Recorded = StillDown \cup {Chosen}
<1>1. Chosen = Highest(Pressed \ kbdstate) /\ Recorded = StillDown \cup {Chosen}
  BY DEF Chosen, Recorded
<1>2. Pressed \ kbdstate \subseteq Keys
  BY DEF KbTypeOK, Pressed
<1>3. Chosen \in Pressed \ kbdstate
  BY <1>1, <1>2, HighestKey
<1>4. Chosen[1] = y
  BY <1>3 DEF Pressed, RowKeys
<1> QED BY <1>1, <1>2, <1>3, <1>4, KeyboardAssumption DEF Pressed

LEMMA ChosenOld ==
  ASSUME ~(found = None /\ Pressed \ kbdstate # {})
  PROVE  Chosen = found /\ Recorded = StillDown
  BY DEF Chosen, Recorded

(* After row y has been read, ScannedInv holds of it too.                  *)
LEMMA RowDone ==
  ASSUME KbTypeOK, BracketInv, ScannedInv, polling,
         NEW k \in Keys, k[1] >= y
  PROVE  /\ k \in Recorded => k \in wasDown
         /\ Chosen = None /\ k \notin wasUp => k \in Recorded
<1>1. k[1] \in Int /\ y \in Int /\ k \in {k[1]} \X Cols
  BY KeyboardAssumption DEF KbTypeOK, Keys, Rows
<1>2. CASE k[1] = y
  <2>1. k \in RowKeys
    BY <1>1, <1>2 DEF RowKeys
  <2>2. k \in StillDown => k \in keyboard
    BY <2>1 DEF StillDown, Pressed
  <2>3. k \in Recorded => k \in keyboard
    BY <2>2, ChosenNew, ChosenOld
  <2>4. ASSUME Chosen = None, k \notin wasUp PROVE k \in Recorded
    <3>1. k \in Pressed
      BY <2>1, <2>4 DEF BracketInv, Pressed
    <3>2. ~(found = None /\ Pressed \ kbdstate # {})
      BY <2>4, ChosenNew
    <3>3. found = None /\ Recorded = StillDown
      BY <2>4, <3>2, ChosenOld
    <3> QED BY <3>1, <3>2, <3>3 DEF StillDown
  <2> QED BY <2>3, <2>4 DEF BracketInv
<1>3. CASE k[1] > y
  <2>1. k \notin RowKeys
    BY <1>3, <1>1 DEF RowKeys
  <2>2. k \in StillDown <=> k \in kbdstate
    BY <2>1 DEF StillDown
  <2>3. /\ k \in kbdstate => k \in wasDown
        /\ found = None /\ k \notin wasUp => k \in kbdstate
    BY <1>3 DEF ScannedInv
  <2>4. CASE found = None /\ Pressed \ kbdstate # {}
    <3>1. Chosen # None /\ Chosen \in keyboard /\ Recorded = StillDown \cup {Chosen}
      BY <2>4, ChosenNew
    <3> QED BY <2>2, <2>3, <3>1 DEF BracketInv
  <2>5. CASE ~(found = None /\ Pressed \ kbdstate # {})
    BY <2>2, <2>3, <2>5, ChosenOld
  <2> QED BY <2>4, <2>5
<1> QED BY <1>1, <1>2, <1>3

LEMMA InitKbInv == ASSUME KbInit PROVE KbInv
<1>1. 0 \in Rows
  BY KeyboardAssumption DEF Rows
<1> USE DEF KbInit
<1>2. KbTypeOK
  <2>1. running \in BOOLEAN /\ polling \in BOOLEAN /\ char \in Chars
    BY DEF Chars
  <2>2. events \in 0..MaxEvents
    BY KeyboardAssumption
  <2> QED BY <1>1, <2>1, <2>2 DEF KbTypeOK
<1>3. NoStuckKey /\ FreshInv /\ BracketInv /\ ScannedInv /\ KeptInv
  BY DEF NoStuckKey, FreshInv, BracketInv, ScannedInv, KeptInv
<1> QED BY <1>2, <1>3 DEF KbInv

(* Any change of the matrix leaves the history in order.                   *)
LEMMA MatrixStep ==
  ASSUME KbInv, NEW keys, keys \subseteq Keys, SetMatrix(keys), UNCHANGED romVars
  PROVE  FreshInv' /\ BracketInv' /\ ScannedInv' /\ KeptInv'
<1> USE DEF KbInv, SetMatrix, romVars
<1>1. FreshInv'
  BY DEF FreshInv
<1>2. BracketInv'
  BY DEF BracketInv
<1>3. ScannedInv'
  BY DEF ScannedInv
<1>4. KeptInv'
  BY DEF KeptInv
<1> QED BY <1>1, <1>2, <1>3, <1>4

LEMMA MatrixTypes ==
  ASSUME KbTypeOK, NEW keys, keys \subseteq Keys, SetMatrix(keys), Event,
         UNCHANGED romVars
  PROVE  /\ keyboard' \subseteq Keys /\ kbdstate' \subseteq Keys
         /\ polling' \in BOOLEAN /\ y' \in Rows
         /\ found' \in Keys \cup {None} /\ char' \in Chars
         /\ events' \in 0..MaxEvents
         /\ wasDown' \subseteq Keys /\ wasUp' \subseteq Keys
         /\ fresh' \subseteq Keys /\ before' \subseteq Keys
  BY KeyboardAssumption DEF KbTypeOK, SetMatrix, Event, romVars

LEMMA PressInv ==
  ASSUME KbInv, NEW h \in HostKeys, NEW mod1 \in BOOLEAN, KeyPress(h, mod1)
  PROVE  KbInv'
<1> DEFINE pos == keymap[h]
           keys == IF pos = None \/ mod1 THEN keyboard ELSE keyboard \cup {pos}
<1>1. pos \in Keys \cup {None}
  BY KeyboardAssumption
<1>2. keys \subseteq Keys /\ KbTypeOK
  BY <1>1 DEF KbInv, KbTypeOK
<1>3. SetMatrix(keys) /\ Event /\ UNCHANGED romVars
  BY DEF KeyPress
<1>4. KbTypeOK'
  <2>1. held' \subseteq HostKeys /\ running' \in BOOLEAN
    BY <1>2 DEF KeyPress, KbTypeOK
  <2> HIDE DEF keys
  <2> QED BY <2>1, <1>2, <1>3, MatrixTypes DEF KbTypeOK
<1>5. NoStuckKey'
  <2>1. held' = held \cup {h} /\ keyboard' \subseteq keyboard \cup {pos}
    BY DEF KeyPress, SetMatrix
  <2> QED BY <2>1 DEF KbInv, NoStuckKey
<1>6. FreshInv' /\ BracketInv' /\ ScannedInv' /\ KeptInv'
  <2> HIDE DEF keys
  <2> QED BY <1>2, <1>3, MatrixStep
<1> QED BY <1>4, <1>5, <1>6 DEF KbInv

LEMMA ReleaseInv ==
  ASSUME KbInv, NEW h \in HostKeys, NEW mod1 \in BOOLEAN, KeyRelease(h, mod1)
  PROVE  KbInv'
<1> DEFINE keys == keyboard \ {keymap[h]}
<1>1. keys \subseteq Keys /\ KbTypeOK
  BY DEF KbInv, KbTypeOK
<1>2. SetMatrix(keys) /\ Event /\ UNCHANGED romVars
  BY DEF KeyRelease, Released
<1>3. KbTypeOK'
  <2>1. held' \subseteq HostKeys /\ running' \in BOOLEAN
    BY <1>1 DEF KeyRelease, KbTypeOK
  <2> HIDE DEF keys
  <2> QED BY <2>1, <1>1, <1>2, MatrixTypes DEF KbTypeOK
<1>4. NoStuckKey'
  <2>1. held' = held \ {h} /\ keyboard' = keys
    BY <1>2 DEF KeyRelease, SetMatrix
  <2> QED BY <2>1 DEF KbInv, NoStuckKey
<1>5. FreshInv' /\ BracketInv' /\ ScannedInv' /\ KeptInv'
  <2> HIDE DEF keys
  <2> QED BY <1>1, <1>2, MatrixStep
<1> QED BY <1>3, <1>4, <1>5 DEF KbInv

LEMMA CallInv == ASSUME KbInv, CallPoll PROVE KbInv'
<1> USE DEF KbInv, CallPoll, hostVars
<1>1. NRows - 1 \in Rows
  BY KeyboardAssumption DEF Rows
<1>2. KbTypeOK'
  BY <1>1 DEF KbTypeOK
<1>3. NoStuckKey' /\ FreshInv' /\ BracketInv' /\ KeptInv'
  BY DEF NoStuckKey, FreshInv, BracketInv, KeptInv
<1>4. ScannedInv'
  <2>1. \A k \in Keys : ~(k[1] > NRows - 1)
    BY KeyboardAssumption DEF Keys, Rows
  <2> QED BY <2>1 DEF ScannedInv
<1> QED BY <1>2, <1>3, <1>4

LEMMA ScanInv == ASSUME KbInv, PollRow PROVE KbInv'
<1>1. KbTypeOK /\ FreshInv /\ BracketInv /\ ScannedInv /\ KeptInv /\ NoStuckKey
  BY DEF KbInv
<1>2. Chosen \in Keys \cup {None} /\ Recorded \subseteq Keys
  <2>1. StillDown \subseteq Keys
    BY <1>1 DEF StillDown, KbTypeOK
  <2> QED BY <1>1, <2>1, ChosenNew, ChosenOld DEF KbTypeOK
<1>3. KbTypeOK'
  <2>1. Character(Chosen, Recorded) \in Chars
    BY <1>2 DEF Character, Chars, ShiftDown
  <2>2. y' \in Rows
    <3>1. y \in 0..(NRows - 1)
      BY <1>1 DEF KbTypeOK, Rows
    <3>2. y' = IF y = 0 THEN y ELSE y - 1
      BY DEF PollRow
    <3> QED BY <3>1, <3>2, KeyboardAssumption DEF Rows
  <2> QED BY <1>1, <1>2, <2>1, <2>2 DEF PollRow, KbTypeOK, hostVars
<1>4. NoStuckKey' /\ BracketInv'
  BY <1>1 DEF PollRow, hostVars, NoStuckKey, BracketInv
<1>5. FreshInv'
  <2>1. keyboard' = keyboard /\ kbdstate' = Recorded
    BY DEF PollRow, hostVars
  <2>2. keyboard \cap kbdstate \subseteq StillDown
    BY DEF StillDown, Pressed
  <2>3. CASE found = None /\ Pressed \ kbdstate # {}
    <3>1. fresh' = fresh \ {Chosen} /\ Chosen \in keyboard /\ Recorded = StillDown \cup {Chosen}
      BY <1>1, <2>3, ChosenNew DEF PollRow
    <3> QED BY <1>1, <2>1, <2>2, <3>1 DEF FreshInv
  <2>4. CASE ~(found = None /\ Pressed \ kbdstate # {})
    <3>1. fresh' = fresh /\ Recorded = StillDown
      BY <2>4, ChosenOld DEF PollRow
    <3> QED BY <1>1, <2>1, <2>2, <3>1 DEF FreshInv
  <2> QED BY <2>3, <2>4
<1>6. ScannedInv'
  <2> SUFFICES ASSUME polling', NEW k \in Keys, k[1] > y'
               PROVE  /\ k \in Recorded => k \in wasDown
                      /\ Chosen = None /\ k \notin wasUp => k \in Recorded
    BY DEF ScannedInv, PollRow
  <2>1. polling /\ y' = y - 1
    BY DEF PollRow
  <2>2. k[1] \in Int /\ y \in Int
    BY <1>1, KeyboardAssumption DEF KbTypeOK, Keys, Rows
  <2> QED BY <1>1, <2>1, <2>2, RowDone
<1>7. KeptInv'
  <2>1. before' = before /\ wasUp' = wasUp /\ kbdstate' = Recorded
    BY DEF PollRow
  <2>2. StillDown \subseteq Recorded
    BY <1>1, ChosenNew, ChosenOld
  <2>3. kbdstate \ wasUp \subseteq StillDown
    BY <1>1 DEF StillDown, Pressed, BracketInv, KbTypeOK
  <2> QED BY <1>1, <2>1, <2>2, <2>3 DEF KeptInv
<1> QED BY <1>3, <1>4, <1>5, <1>6, <1>7 DEF KbInv

LEMMA KbStep == KbInv /\ [KbNext]_kbVars => KbInv'
<1> SUFFICES ASSUME KbInv, [KbNext]_kbVars PROVE KbInv'
  OBVIOUS
<1>1. CASE UNCHANGED kbVars
  BY <1>1 DEF kbVars, hostVars, romVars, history, KbInv, KbTypeOK, NoStuckKey,
              FreshInv, BracketInv, ScannedInv, KeptInv
<1>2. ASSUME NEW h \in HostKeys, NEW mod1 \in BOOLEAN, KeyPress(h, mod1) PROVE KbInv'
  BY <1>2, PressInv
<1>3. ASSUME NEW h \in HostKeys, NEW mod1 \in BOOLEAN, KeyRelease(h, mod1) PROVE KbInv'
  BY <1>3, ReleaseInv
<1>4. CASE CallPoll
  BY <1>4, CallInv
<1>5. CASE PollRow
  BY <1>5, ScanInv
<1> QED BY <1>1, <1>2, <1>3, <1>4, <1>5 DEF KbNext

(* No key of the matrix gets stuck, and every variable keeps its type.     *)
THEOREM KeyboardCorrect == KbSpec => [](KbTypeOK /\ NoStuckKey)
<1>1. KbInit => KbInv
  BY InitKbInv
<1>2. KbInv => KbTypeOK /\ NoStuckKey
  BY DEF KbInv
<1> QED BY <1>1, <1>2, KbStep, PTL DEF KbSpec

-----------------------------------------------------------------------------
(* The two action properties follow from the invariant in one step.        *)

LEMMA FoundFresh ==
  ASSUME KbInv, [KbNext]_kbVars, found = None, found' # None
  PROVE  found' \in wasDown \cap fresh
<1>1. CASE PollRow
  <2>1. found' = Chosen /\ Chosen # None
    BY <1>1 DEF PollRow
  <2>2. found = None /\ Pressed \ kbdstate # {}
    BY <2>1, ChosenOld
  <2>3. Chosen \in Keys /\ Chosen \in keyboard /\ Chosen \notin kbdstate
    BY <2>2, ChosenNew DEF KbInv
  <2> QED BY <2>1, <2>3 DEF KbInv, FreshInv, BracketInv
<1>2. CASE ~PollRow
  BY <1>2 DEF KbNext, KeyPress, KeyRelease, CallPoll, kbVars, romVars
<1> QED BY <1>1, <1>2

(* A scan finds a key only if it was down while the scan ran and has been  *)
(* up since it was found the last time.                                    *)
THEOREM OneReport == KbSpec => OnePressOneReport
<1>1. KbInit => KbInv
  BY InitKbInv
<1>2. KbInv /\ [KbNext]_kbVars
        => [(found = None /\ found' # None) => found' \in wasDown \cap fresh]_kbVars
  BY FoundFresh
<1> QED BY <1>1, <1>2, KbStep, PTL DEF KbSpec, OnePressOneReport

LEMMA ScanDone ==
  ASSUME KbInv, [KbNext]_kbVars
  PROVE  /\ kbdstate' \ kbdstate \subseteq {found'}
         /\ polling /\ ~polling' =>
              /\ found' = None => Keys \ wasUp \subseteq kbdstate'
              /\ kbdstate' \subseteq wasDown
<1>1. CASE PollRow
  <2>1. KbTypeOK /\ BracketInv /\ ScannedInv
    BY DEF KbInv
  <2>2. kbdstate' = Recorded /\ found' = Chosen
    BY <1>1 DEF PollRow
  <2>3. Recorded \ kbdstate \subseteq {Chosen}
    BY <2>1, ChosenNew, ChosenOld DEF StillDown
  <2>4. ASSUME polling, ~polling', NEW k \in Keys
        PROVE  /\ k \in Recorded => k \in wasDown
               /\ Chosen = None /\ k \notin wasUp => k \in Recorded
    <3>1. y = 0
      BY <1>1, <2>4 DEF PollRow
    <3>2. k[1] >= y
      BY <3>1, KeyboardAssumption DEF Keys, Rows
    <3> QED BY <2>1, <2>4, <3>2, RowDone
  <2>5. Recorded \subseteq Keys
    BY <2>1, ChosenNew, ChosenOld DEF StillDown, KbTypeOK
  <2> QED BY <2>2, <2>3, <2>4, <2>5
<1>2. CASE ~PollRow
  <2>1. kbdstate' = kbdstate
    BY <1>2 DEF KbNext, KeyPress, KeyRelease, CallPoll, kbVars, romVars
  <2>2. ~(polling /\ ~polling')
    BY <1>2 DEF KbNext, KeyPress, KeyRelease, CallPoll, kbVars, romVars
  <2> QED BY <2>1, <2>2
<1> QED BY <1>1, <1>2

(* No press and no release is lost.                                        *)
THEOREM NothingLost == KbSpec => ScanComplete
<1>1. KbInit => KbInv
  BY InitKbInv
<1>2. KbInv /\ [KbNext]_kbVars
        => [ /\ kbdstate' \ kbdstate \subseteq {found'}
             /\ polling /\ ~polling' =>
                  /\ found' = None => Keys \ wasUp \subseteq kbdstate'
                  /\ kbdstate' \subseteq wasDown ]_kbVars
  BY ScanDone
<1> QED BY <1>1, <1>2, KbStep, PTL DEF KbSpec, ScanComplete

LEMMA ShiftDone ==
  ASSUME KbInv, [KbNext]_kbVars, polling, ~polling', char' # None
  PROVE  /\ char'.shifted => ShiftKey \in wasDown
         /\ ShiftKey \in before \ wasUp => char'.shifted
<1>1. PollRow
  BY DEF KbNext, KeyPress, KeyRelease, CallPoll, kbVars, romVars
<1>2. KbInv'
  BY KbStep
<1>3. kbdstate' = Recorded /\ char' = Character(Chosen, Recorded)
  BY <1>1 DEF PollRow
<1>4. char'.shifted = (ShiftKey \in Recorded)
  BY <1>3 DEF Character, ShiftDown
<1>5. Recorded \subseteq wasDown
  BY <1>3, ScanDone
<1>6. before \ wasUp \subseteq Recorded
  <2>1. before' = before /\ wasUp' = wasUp
    BY <1>1 DEF PollRow
  <2> QED BY <1>2, <1>3, <2>1 DEF KbInv, KeptInv
<1> QED BY <1>4, <1>5, <1>6

(* The shift of a character agrees with the shift key while the scan ran.  *)
THEOREM ShiftCorrect == KbSpec => ShiftFollows
<1>1. KbInit => KbInv
  BY InitKbInv
<1>2. KbInv /\ [KbNext]_kbVars
        => [ (polling /\ ~polling' /\ char' # None) =>
               /\ char'.shifted => ShiftKey \in wasDown
               /\ ShiftKey \in before \ wasUp => char'.shifted ]_kbVars
  BY ShiftDone
<1> QED BY <1>1, <1>2, KbStep, PTL DEF KbSpec, ShiftFollows
=============================================================================
