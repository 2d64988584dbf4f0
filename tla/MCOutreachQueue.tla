---------------------------- MODULE MCOutreachQueue ----------------------------
(***************************************************************************)
(* A small instance of the outreach queue for TLC.                         *)
(***************************************************************************)
EXTENDS OutreachQueueProperties, TLC

CONSTANTS u1, w1, w2, v1, p1

OneUser == {u1}
TwoWorkers == {w1, w2}
OneVoice == {v1}
OneProse == {p1}

Workers == Permutations(TwoWorkers)
=============================================================================
