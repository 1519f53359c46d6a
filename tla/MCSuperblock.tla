----------------------------- MODULE MCSuperblock -----------------------------
(* Superblock on small instances: the sets are given by the cfg files.     *)
EXTENDS Superblock, TLC

(* Temporaries are interchangeable, and so are threads. *)
Symmetry == Permutations(Temps) \cup Permutations(Threads)

=============================================================================
