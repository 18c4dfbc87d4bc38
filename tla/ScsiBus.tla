------------------------------ MODULE ScsiBus -------------------------------
(***************************************************************************)
(* What an initiator may rely on when it talks to a SCSI target: the order *)
(* of the bus phases, and that a data phase lasts for exactly the bytes    *)
(* that the command announced, whatever else happens on the bus.           *)
(***************************************************************************)
EXTENDS Integers

CONSTANTS Ids, MaxBytes

VARIABLES
    phase,      \* the bus phase
    target,     \* the selected target, or -1
    left,       \* bytes that the data phase still has to move
    failed      \* the command ended in CHECK CONDITION

busvars == <<phase, target, left, failed>>

Init == phase = "free" /\ target = -1 /\ left = 0 /\ failed = FALSE

\* A selection, possible at any moment, by a target that is there or by none.
Select ==
    /\ \/ phase' = "command" /\ target' \in Ids
       \/ phase' = "free" /\ target' = -1
    /\ left' = 0 /\ failed' = FALSE

Command ==
    /\ phase = "command" /\ UNCHANGED target
    /\ \/ phase' \in {"data_in", "data_out"} /\ left' \in 1 .. MaxBytes /\ failed' = FALSE
       \/ phase' = "status" /\ left' = 0 /\ failed' \in BOOLEAN

Transfer ==
    /\ phase \in {"data_in", "data_out"} /\ left > 0
    /\ left' = left - 1
    /\ phase' = IF left = 1 THEN "status" ELSE phase
    /\ UNCHANGED <<target, failed>>

Status == phase = "status" /\ phase' = "message" /\ UNCHANGED <<target, left, failed>>

Message == phase = "message" /\ phase' = "free" /\ target' = -1 /\ left' = 0 /\ failed' = FALSE

Reset == phase' = "free" /\ target' = -1 /\ left' = 0 /\ failed' = FALSE

Next == Select \/ Command \/ Transfer \/ Status \/ Message \/ Reset

Spec == Init /\ [][Next]_busvars
=============================================================================
