--------------------------- MODULE MCBlockFaults ---------------------------
(***************************************************************************)
(* Model checking of BlockCodegen where the code departs from what its     *)
(* comments say of the sign-extension memo.                                *)
(***************************************************************************)
EXTENDS BlockCodegen

\* Arms with the memo, with a flag emit, and with writes to its source.
MCMemoArm == LEA \cup ADDA_W_R \cup ADDQ_L_D \cup MOVEA_L_R

MCTarget == {-2, 4}

=============================================================================
