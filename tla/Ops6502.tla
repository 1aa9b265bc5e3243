------------------------------ MODULE Ops6502 ------------------------------
(***************************************************************************)
(* The table of the emulator's instructions, src/emulator/ops.inc: opcode, *)
(* routine and cycles.  Its column of addressing modes is what the author  *)
(* says an instruction does; no code reads it.                             *)
(***************************************************************************)
EXTENDS Integers

Rows == {
    <<0, "brk", 7>>, <<1, "ora", 6>>, <<5, "ora", 3>>, <<6, "asl", 5>>,
    <<8, "php", 3>>, <<9, "ora", 2>>, <<10, "asla", 2>>, <<13, "ora", 4>>,
    <<14, "asl", 6>>, <<16, "bpl", 2>>, <<17, "ora", 5>>, <<21, "ora", 4>>,
    <<22, "asl", 6>>, <<24, "clc", 2>>, <<25, "ora", 4>>, <<29, "ora", 4>>,
    <<30, "asl", 7>>, <<32, "jsr", 6>>, <<33, "and", 6>>, <<36, "bit", 3>>,
    <<37, "and", 3>>, <<38, "rol", 5>>, <<40, "plp", 4>>, <<41, "and", 2>>,
    <<42, "rola", 2>>, <<44, "bit", 4>>, <<45, "and", 4>>, <<46, "rol", 6>>,
    <<48, "bmi", 2>>, <<49, "and", 5>>, <<53, "and", 4>>, <<54, "rol", 6>>,
    <<56, "sec", 2>>, <<57, "and", 4>>, <<61, "and", 4>>, <<62, "rol", 7>>,
    <<64, "rti", 6>>, <<65, "eor", 6>>, <<69, "eor", 3>>, <<70, "lsr", 5>>,
    <<72, "pha", 3>>, <<73, "eor", 2>>, <<74, "lsra", 2>>, <<76, "jmp", 3>>,
    <<77, "eor", 4>>, <<78, "lsr", 6>>, <<80, "bvc", 2>>, <<81, "eor", 5>>,
    <<85, "eor", 4>>, <<86, "lsr", 6>>, <<88, "cli", 2>>, <<89, "eor", 4>>,
    <<93, "eor", 4>>, <<94, "lsr", 7>>, <<96, "rts", 6>>, <<97, "adc", 6>>,
    <<101, "adc", 3>>, <<102, "ror", 5>>, <<104, "pla", 4>>, <<105, "adc", 2>>,
    <<106, "rora", 2>>, <<108, "jmp", 5>>, <<109, "adc", 4>>, <<110, "ror", 6>>,
    <<112, "bvs", 2>>, <<113, "adc", 5>>, <<117, "adc", 4>>, <<118, "ror", 6>>,
    <<120, "sei", 2>>, <<121, "adc", 4>>, <<125, "adc", 4>>, <<126, "ror", 7>>,
    <<129, "sta", 6>>, <<132, "sty", 3>>, <<133, "sta", 3>>, <<134, "stx", 3>>,
    <<136, "dey", 2>>, <<138, "txa", 2>>, <<140, "sty", 4>>, <<141, "sta", 4>>,
    <<142, "stx", 4>>, <<144, "bcc", 2>>, <<145, "sta", 6>>, <<148, "sty", 4>>,
    <<149, "sta", 4>>, <<150, "stx", 4>>, <<152, "tya", 2>>, <<153, "sta", 5>>,
    <<154, "txs", 2>>, <<157, "sta", 5>>, <<160, "ldy", 2>>, <<161, "lda", 6>>,
    <<162, "ldx", 2>>, <<164, "ldy", 3>>, <<165, "lda", 3>>, <<166, "ldx", 3>>,
    <<168, "tay", 2>>, <<169, "lda", 2>>, <<170, "tax", 2>>, <<172, "ldy", 4>>,
    <<173, "lda", 4>>, <<174, "ldx", 4>>, <<176, "bcs", 2>>, <<177, "lda", 5>>,
    <<180, "ldy", 4>>, <<181, "lda", 4>>, <<182, "ldx", 4>>, <<184, "clv", 2>>,
    <<185, "lda", 4>>, <<186, "tsx", 2>>, <<188, "ldy", 4>>, <<189, "lda", 4>>,
    <<190, "ldx", 4>>, <<192, "cpy", 2>>, <<193, "cmp", 5>>, <<196, "cpy", 3>>,
    <<197, "cmp", 3>>, <<198, "dec", 5>>, <<200, "iny", 2>>, <<201, "cmp", 2>>,
    <<202, "dex", 2>>, <<204, "cpy", 4>>, <<205, "cmp", 4>>, <<206, "dec", 6>>,
    <<208, "bne", 2>>, <<209, "cmp", 5>>, <<213, "cmp", 4>>, <<214, "dec", 6>>,
    <<216, "cld", 2>>, <<217, "cmp", 4>>, <<221, "cmp", 4>>, <<222, "dec", 7>>,
    <<224, "cpx", 2>>, <<225, "sbc", 6>>, <<228, "cpx", 3>>, <<229, "sbc", 3>>,
    <<230, "inc", 5>>, <<232, "inx", 2>>, <<233, "sbc", 2>>, <<234, "nop", 2>>,
    <<236, "cpx", 4>>, <<237, "sbc", 4>>, <<238, "inc", 6>>, <<240, "beq", 2>>,
    <<241, "sbc", 5>>, <<245, "sbc", 4>>, <<246, "inc", 6>>, <<248, "sed", 2>>,
    <<249, "sbc", 4>>, <<253, "sbc", 4>>, <<254, "inc", 7>>}

(* Every opcode the table does not list is ni, which ends the emulator.    *)
OpsTable ==
    [op \in 0..255 |->
        IF \E r \in Rows : r[1] = op
        THEN LET r == CHOOSE r \in Rows : r[1] = op
             IN [name |-> r[2], cycles |-> r[3]]
        ELSE [name |-> "ni", cycles |-> 1]]
=============================================================================
