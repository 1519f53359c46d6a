----------------------------- MODULE MCMeanErrors -----------------------------
(* MeanErrors on small instances: either there are no errors or no bits    *)
(* are canceled.                                                           *)
EXTENDS MeanErrors, TLC

Symmetry == Permutations(Code) \cup Permutations(Slots)

Every(P(_)) == \A k \in Code : \A i \in DOMAIN samples[k] : P(samples[k][i])

Accurate == Every(LAMBDA s : s.error = 0)
NoCancellation == Every(LAMBDA s : s.canceled = 0)

MCNext == Next /\ (Accurate \/ NoCancellation)'

MCSpec == Init /\ [][MCNext]_vars

=============================================================================
