--------------------------- MODULE MCRemediation ---------------------------
EXTENDS Remediation, TLC

Symmetry == Permutations(Reqs) \cup Permutations(Workers)

=============================================================================
