------------------------- MODULE MCRTPSourcePairs -------------------------
(* Instances of RTPSourcePairs for TLC. *)
EXTENDS RTPSourcePairs

OneStream == {[id |-> 1, ch |-> 2]}

\* Bound: one call removes streams, one of them or all; streams are added before
\* and after it.  (The run rtp_sources takes any number of removals.)
OneRemoval == PairNext /\ (removed /\ op.pc = "idle" => op'.pc # "release")

OneRemovalSpec == PairInit /\ [][OneRemoval]_pairVars /\ Fairness
===========================================================================
