--------------------------- MODULE MCArchiveLeases --------------------------
EXTENDS ArchiveLeases, TLC

Symmetry ==
    Permutations(Worker) \cup Permutations(Session) \cup Permutations(Job)

=============================================================================
