----------------------------- MODULE MCPTPClock -----------------------------
(* Instances of PTPClock for TLC. *)
EXTENDS PTPClock, TLC

CONSTANTS c1, c2, m1, m2

OneCpu     == {c1}
TwoCpus    == {c1, c2}
OneMaster  == {m1}
TwoMasters == {m1, m2}

\* Every master announces every domain.
AllAnnounced == Masters \X Domains
\* All masters are in domain 0, also when the configuration asks for another.
OneDomain    == Masters \X {0}

\* Masters and CPUs are interchangeable where no liveness is checked.
Symmetry == Permutations({m1, m2}) \cup Permutations({c1, c2})
=============================================================================
