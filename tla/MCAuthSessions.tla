--------------------------- MODULE MCAuthSessions ---------------------------
(* A demo account and one other, four requests.                            *)
EXTENDS AuthSessions, TLC

CONSTANTS u1, demo, r1, r2, r3, r4

MCUser == {u1, demo}
MCDemo == {demo}
MCRequest == {r1, r2, r3, r4}

Symmetry == Permutations(MCRequest)

=============================================================================
