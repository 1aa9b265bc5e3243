----------------------------- MODULE MCWriteRom -----------------------------
(* Three sectors of two bytes of three bits.                               *)
EXTENDS WriteRom

MCKey1 == {1, 3}
MCKey2 == {2}
MCProgram == {1}
MCErase == {3}
MCSector == {2, 3}

MCFile == <<{1}, {2, 3}, {}, {1, 2}, {3}>>

MCJobs ==
    {[start |-> 0, length |-> 6, input |-> MCFile],
     [start |-> 0, length |-> 3, input |-> MCFile],
     [start |-> 2, length |-> 4, input |-> SubSeq(MCFile, 2, 4)],
     [start |-> 4, length |-> 1, input |-> SubSeq(MCFile, 3, 5)],
     [start |-> 1, length |-> 2, input |-> MCFile]}

\* Blank, all zeros, bits to clear, bits to set, the file itself.
MCImages ==
    {[a \in Addr |-> Bits], [a \in Addr |-> {}],
     [a \in Addr |-> IF a % 2 = 0 THEN {1, 3} ELSE {2, 3}],
     [a \in Addr |-> IF a < 3 THEN {2} ELSE {1, 2}],
     [a \in Addr |-> IF a < 5 THEN MCFile[a + 1] ELSE {2}]}
=============================================================================
