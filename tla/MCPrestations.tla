--------------------------- MODULE MCPrestations ---------------------------
EXTENDS Prestations, TLC

CONSTANTS i1, r1, r2, r3, r4

MCInstallation == {i1}
MCRequest == {r1, r2, r3, r4}
MCSymmetry == Permutations(MCRequest)

=============================================================================
