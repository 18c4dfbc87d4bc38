--------------------------- MODULE MCBlockCodegen ---------------------------
(***************************************************************************)
(* Model checking of BlockCodegen with every arm of Arms that keeps the    *)
(* discipline.                                                             *)
(***************************************************************************)
EXTENDS DisciplinedCodegen

MCArm == Regular

MCTarget == {-2, 4}

=============================================================================
