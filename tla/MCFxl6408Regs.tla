--------------------------- MODULE MCFxl6408Regs ---------------------------
(* Two tasks, two pins and two registers, one of them with the inverted    *)
(* sense of badge_fxl6408_set_interrupt_enable().                          *)
EXTENDS Fxl6408Regs, TLC

CONSTANTS t1, t2, p1, p2

MCTasks == {t1, t2}
MCPins == {p1, p2}
MCUsedRegs == {"output_state", "interrupt_mask"}

Symmetry == Permutations(MCTasks)
=============================================================================
