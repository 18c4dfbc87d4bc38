------------------------------- MODULE MCScsi -------------------------------
EXTENDS Scsi

\* A disk of two blocks, a write-protected one of one block, and an empty id.
MCBlocks == [id \in {0, 1, 3} |-> CASE id = 0 -> 2 [] id = 1 -> 0 [] id = 3 -> 1]
=============================================================================
