------------------------------- MODULE MCRom --------------------------------
(* Rom with three-bit bytes for memory and cartridge (as in CartXfer), and *)
(* the screen in its own size.                                             *)
EXTENDS Rom

\* A header: entry, bytes per page, position, length, address; then bytes.
Header(version, entry0, page, position, length, address) ==
    <<5, 6, 0, version, entry0 % 8, entry0 \div 8, page, 0,
      position, 0, length % 8, length \div 8, address % 8, address \div 8, 0, 0>>

Image(header) == [c \in 0..23 |-> IF c < 16 THEN header[c + 1] ELSE (3 * c) % 8]

MCMagic == <<5, 6, 0, 1>>

\* A program above the header, one that is loaded over it and over the boot's
\* mark, an older version, and no header at all.
MCImages ==
    {Image(Header(1, 49, 4, 7, 9, 47)), Image(Header(1, 26, 2, 7, 11, 20)),
     Image(Header(0, 49, 4, 7, 9, 47)),
     [c \in 0..23 |-> (3 * c + (c \div 8)) % 8]}

MCVideoRam == 18..48
MCReserved == 2..17 \cup 56..63

\* Memory with a header left in it, and the pattern of the memory check.
MCRamImages ==
    {[c \in Ram |-> IF c \in 24..39 THEN Header(1, 49, 4, 7, 9, 47)[c - 23]
                    ELSE IF c \in {17, 53, 54} THEN 5
                    ELSE (5 * c + (c \div 8) + 1) % 8]}

MCDeadCells == {{}, {19, 40}, {17}, {23}, {54, 61}, {55}}

Job(op, loc0, n, addr0) == [op |-> op, loc |-> loc0, n |-> n, addr |-> addr0]

\* Loads below, between and above one carry of the count; saves that start
\* and end inside a page, at its edges, and one byte across.
MCJobs ==
    {Job("load", 3, n, 20) : n \in {1, 2, 7, 9, 17}} \cup
    {Job("save", p, n, 30) : p \in {0, 3, 6}, n \in {1, 2, 4, 9}}

\* These calls keep to the routines' limits (MCJobs is a run's Jobs unless it
\* is about a call that does not).
ASSUME MCJobsFit == Jobs = MCJobs => CallsFit

-----------------------------------------------------------------------------
\* A screen with something in its corners, at its middle and along its left
\* edge, and what the memory check has left behind it.
Filled(cell) ==
    [cells |-> [c \in {40 * r : r \in 0..24} \cup {39, 500, 519, 991, 992, 999}
                     \cup 1000..1023 |->
                  IF c < 1000 THEN 65 + (c \div 40) ELSE Junk],
     at |-> cell]

OneImage == {CHOOSE image \in MCImages : TRUE}

Session(n, screens, menu) ==
    [reset |-> FALSE, transfers |-> 0, left |-> n, calls |-> menu,
     screens |-> screens, images |-> OneImage, blocks |-> {2}, plugged |-> {FALSE}]

NumberEdges ==
    {10 ^ k + d : k \in 0..4, d \in {-1, 0, 1}}
    \cup {32767, 32768, 39999, 40000, 49152, 60014, 65535, 1010, 20304}

\* A program that uses the whole screen, one that shows a number, one that
\* works with the cartridge; and a reset.
MCSessions ==
    {Session(3, {Filled(p) : p \in {0, 38, 960, 998, 999, 1000}},
             {<<"cls">>, <<"clshome">>, <<"setcur", 23, 39>>, <<"setcur", 24, 0>>,
              <<"col0">>, <<"newline">>, <<"showchr", 33>>, <<"showspc">>,
              <<"show", <<35, 36, 37>>>>}
             \cup {<<"scrollup", n>> : n \in {1, 4, 5, 24, 25}}),
     Session(1, {Filled(997)},
             {<<"showuint", v>> : v \in NumberEdges} \cup {<<"showint", 7>>}),
     [Session(0, {Filled(0)}, {}) EXCEPT
        !.transfers = 2, !.blocks = {2, 4}, !.plugged = BOOLEAN],
     [Session(0, {}, {}) EXCEPT
        !.reset = TRUE, !.images = MCImages, !.plugged = BOOLEAN]}

-----------------------------------------------------------------------------
\* A cartridge with a program of B bytes, in pages larger than CARTBSZ.
HeaderImages == {Image(Header(1, 36, 4, 7, 8, 36))}
HeaderSessions ==
    {[Session(0, {}, {}) EXCEPT
        !.reset = TRUE, !.images = HeaderImages, !.plugged = {TRUE}]}

\* A program that saves B bytes, a block and a page of the cartridge; and one
\* that saves two and whose cartridge may be pulled out meanwhile.
SaveOf(block) ==
    {[Session(0, {Filled(0)}, {}) EXCEPT
        !.transfers = 1, !.blocks = {block}, !.plugged = {TRUE}]}
BlockJobs == {Job("save", 0, 8, 30)}
BlockSessions == SaveOf(8)
PullJobs == {Job("save", 0, 2, 30)}
PullSessions == SaveOf(2)

\* What the documents say of scrollup and showint.
ScreenSessions ==
    {Session(1, {Filled(999)}, {<<"scrollup", 2>>, <<"showint", 7>>})}
=============================================================================
