---------------------------- MODULE CircularIndex -----------------------------
(***************************************************************************)
(* How processPutI and processGetI of src/valgrind/fpdebug/fd_main.c find  *)
(* the shadow value of an element of a register array of the guest, for    *)
(* example a register of the x87 stack: by the key                         *)
(*                                                                         *)
(*     base + ((ix + bias) % nElems)                                       *)
(*                                                                         *)
(* in C.  VEX pushes by subtracting 1 from the top of the stack without    *)
(* masking, so ix + bias is often negative, and the remainder is then      *)
(* negative as well.  The register arrays of the guests have 8 elements.   *)
(***************************************************************************)
EXTENDS Integers

nElems == 8

(* The remainder of C has the sign of x. *)
Remainder(x) == IF x >= 0 THEN x % nElems ELSE -((-x) % nElems)

(* The key in threadRegisters for the sum of ix and bias. *)
Key(base, sum) == base + Remainder(sum)

(* The element that the guest accesses. *)
Element(sum) == sum % nElems
=============================================================================
