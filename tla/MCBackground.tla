---------------------------- MODULE MCBackground ----------------------------
(* One task and one user beside the jobs; two campaigns of Meta and one    *)
(* request beside the morning job.                                         *)
EXTENDS Background

CONSTANTS t1, u1, m1, m2, r1, b1

MCTask == {t1}
MCUser == {u1}
MCMeta == {m1, m2}
MCAdRequest == {r1}
MCAlertType == {b1}

=============================================================================
