----------------------------- MODULE MCBilling -----------------------------
(* Two sales, three deliveries, two workers, two plans.                    *)
EXTENDS Billing, TLC

CONSTANTS s1, s2, d1, d2, d3, w1, w2

MCSale == {s1, s2}
MCDelivery == {d1, d2, d3}
MCWorker == {w1, w2}
MCProduct == {"PRO_MONTHLY", "PRO_YEARLY", "BUSINESS_MONTHLY"}

Symmetry == Permutations(MCSale) \cup Permutations(MCDelivery)
            \cup Permutations(MCWorker)

=============================================================================
