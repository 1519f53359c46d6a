----------------------------- MODULE MCGuestData ------------------------------
(* GuestData on two small instances in one run.  Each takes the steps that *)
(* stay in its part of the state.                                          *)
EXTENDS GuestData, TLC

CONSTANTS a1, a2, r1, c1

VARIABLE instance

Instances == {"memory", "registers"}

Symmetry == Permutations(Temps) \cup Permutations(Threads)

Separate == {}
Shared == {<<a1, a2>>, <<a2, a1>>}

(* One thread, two operations: overlapping addresses, a computed register   *)
(* offset, requests and system calls.                                      *)
InMemory ==
    /\ tid' = tid
    /\ fpOps' <= 2
    /\ frame' = frame
    /\ \A th \in Threads : gReg'[th][r1] = Plain /\ (th = tid \/ gReg'[th] = gReg[th])

(* Two threads, two operations: registers, new threads and signals. *)
InRegisters ==
    /\ gMem' = gMem
    /\ \A th \in Threads : gReg'[th][c1].id = 0

Step == IF instance = "memory" THEN InMemory ELSE InRegisters

MCInit == GuestInit /\ instance \in Instances

MCNext == GuestNext /\ Step /\ UNCHANGED instance

MCSpec == MCInit /\ [][MCNext]_<<guestVars, instance>>

=============================================================================
