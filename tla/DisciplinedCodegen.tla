------------------------- MODULE DisciplinedCodegen -------------------------
(***************************************************************************)
(* What the arms of m68k_compile_block have to see to, each by itself, for *)
(* every block made of them to be correct.  The masks of jit/codegen.c are *)
(* written by hand in each arm; the comments at g_helper_touched_mask and  *)
(* g_helper_sr_mask state the first two rules.                             *)
(***************************************************************************)
EXTENDS BlockCodegen

Disciplined(a) ==
    \* Slots the helper may change are reloaded, but for a bridge after which
    \* the block ends.
    /\ Bridged(a) \/ a.via = "default" => a.terminal \/ a.writes \subseteq a.touched
    \* A helper called without SR neither reads nor writes it.
    /\ ~ a.srmask => a.uses = {} /\ a.sets = {}
    \* R_SR is loaded in blocks with an instruction that needs it.
    /\ a.uses \cup a.sets # {} => a.needsSr
    \* Where the dirty state of R_SR is not restored, the flags are set.
    /\ a.via = "custom" => a.check /\ a.sets # {} /\ a.writes = {}
    \* Only the last instruction jumps, and nothing follows a terminal bridge.
    /\ a.jump # "trap" /\ (a.jump = "yes" => a.ends)
    /\ a.terminal => /\ a.via = "fast" /\ a.srmask /\ ~ a.check
                    /\ a.jump = "yes" /\ a.ends

ASSUME ArmDiscipline == \A a \in Arm : Disciplined(a)

=============================================================================
