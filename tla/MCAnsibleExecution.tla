------------------------- MODULE MCAnsibleExecution -------------------------
\* Symmetry for the runs of AnsibleExecution.
EXTENDS AnsibleExecution, TLC

Symmetry == Permutations(Exec) \cup Permutations(Request)
=============================================================================
