-------------------------------- MODULE Rom ---------------------------------
(***************************************************************************)
(* The ROM with the program it runs: a reset and the boot, or a program    *)
(* that calls the cartridge's and the screen's routines.  Nothing runs     *)
(* beside them but the cartridge.                                          *)
(***************************************************************************)
EXTENDS Boot

romVars == <<xferVars, screenVars, bootVars>>

InProgram == boot \in {"run", "program"}

(* The program calls a routine when the one before has returned.           *)
Transfer ==
    /\ InProgram /\ text = <<>> /\ calls < session.transfers
    /\ Call
    /\ UNCHANGED <<screenVars, bootVars>>

ShowOnScreen ==
    /\ InProgram /\ pc = "ready"
    /\ ScreenCall
    /\ UNCHANGED <<xferVars, bootVars>>

Showing == ShowNext /\ UNCHANGED <<xferVars, bootVars>>

Routine == Cpu /\ UNCHANGED <<screenVars, bootVars>>

Device == Environment /\ UNCHANGED <<screenVars, bootVars>>

RomInit ==
    /\ XferInit
    /\ session \in Sessions /\ left = session.left /\ last = <<>>
    /\ mem \in session.images /\ bsz \in session.blocks /\ present \in session.plugged
    /\ text = <<>> /\ ramtop = 0 /\ tries = 0 /\ entry = 0
    /\ IF session.reset THEN BootInit
       ELSE /\ boot = "program" /\ spot = 0 /\ dead = {}
            /\ screen \in session.screens

RomNext == BootStep \/ Transfer \/ ShowOnScreen \/ Showing \/ Routine \/ Device

(* The processor runs, and the device finishes what it programs.           *)
RomSpec ==
    /\ RomInit /\ [][RomNext]_romVars
    /\ WF_romVars(BootStep \/ Showing \/ Routine)
    /\ WF_romVars(Ready /\ Device)

-----------------------------------------------------------------------------
(* The routines are a console of 25 lines of 40 characters: characters     *)
(* appear at the cursor and wrap, the text scrolls by whole lines at its   *)
(* end and only there, nothing from beyond the screen shows up, and        *)
(* numbers appear in decimal.                                              *)
Called(op) == {c \in UNION {s.calls : s \in Sessions} : c[1] = op}

C == INSTANCE Console WITH
    Texts <- {c[2] : c \in Called("show")} \cup {BytesText, FailText},
    Numbers <- {c[2] : c \in Called("showuint")} \cup Ram,
    Chars <- {c[2] : c \in Called("showchr")} \cup {Space},
    Marks <- {<<0, 0>>, <<24, 39>>},
    lines <- [p \in {<<c \div Columns, c % Columns>> :
                        c \in DOMAIN screen.cells \cap OnScreen} |->
                 screen.cells[Columns * p[1] + p[2]]],
    row <- screen.at \div Columns,
    column <- screen.at % Columns,
    pending <- text

ImplementsConsole == C!ConsoleSpec

(* docs/design/memory-map.txt:175 and 168 say that scrollup scrolls the    *)
(* screen up a number of lines, and that showint displays a signed         *)
(* integer.                                                                *)
RoutinesAsDocumented ==
    [][left' < left =>
         /\ last'[1] = "scrollup" => C!ScrollUp(last'[2])
         /\ last'[1] = "showint" => C!Say(C!SignedDecimal(last'[2]))
      ]_romVars
=============================================================================
