----------------------------- MODULE MCMembers -----------------------------
(* Three addresses, two companies, two requests at a time, an invitation.*)
EXTENDS Members, TLC

CONSTANTS u1, u2, u3, c1, c2, r1, r2, t1

MCUser == {u1, u2, u3}
MCCompany == {c1, c2}
MCRequest == {r1, r2}
MCToken == {t1}

Symmetry == Permutations(MCUser) \cup Permutations(MCCompany) \cup Permutations(MCRequest)

=============================================================================
