---------------------------- MODULE MCCampaigns ----------------------------
(* One broadcast, two requests at a time, two audio proofs.                *)
EXTENDS Campaigns, TLC

CONSTANTS b1, r1, r2, a1, a2

MCBroadcast == {b1}
MCRequest == {r1, r2}
MCAudio == {a1, a2}

Symmetry == Permutations(MCRequest) \cup Permutations(MCAudio)

=============================================================================
