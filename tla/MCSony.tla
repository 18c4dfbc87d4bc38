------------------------------- MODULE MCSony -------------------------------
EXTENDS Sony

\* A disk whose size is not a multiple of the sector, one of one sector, an empty drive.
MCSize == [d \in 0 .. 2 |-> CASE d = 0 -> 3 [] d = 1 -> 2 [] d = 2 -> 0]
=============================================================================
