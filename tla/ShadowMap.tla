------------------------------- MODULE ShadowMap -------------------------------
(***************************************************************************)
(* What FpDebug promises about shadow values, with none of its machinery.  *)
(*                                                                         *)
(* Every temporary of the running superblock, every register of every      *)
(* thread and every memory address has a shadow value or none.  Shadow     *)
(* values are computed by the floating-point operations of the guest and   *)
(* follow the guest's data flow while the analysis is on; whatever is      *)
(* written into a location without a shadow value removes the one that was *)
(* there.  There are no cells that are reused, no version numbers, no      *)
(* active flags and no aliases here: the module Superblock has those and   *)
(* is shown to implement this one.                                         *)
(***************************************************************************)
EXTENDS Naturals

CONSTANTS
    Temps,      \* temporaries of a superblock
    Registers,  \* offsets into a thread's guest state
    Addrs,      \* memory addresses
    Threads,    \* guest threads
    IgnoreEnd   \* the option --ignore-end

VARIABLES
    analyze,    \* the analysis is on
    tid,        \* the thread that is running
    tmp,        \* tmp[t]: shadow value of a temporary
    reg,        \* reg[th][r]: shadow value of a register
    mem,        \* mem[a]: shadow value of an address
    fpOps       \* number of operations shadowed so far

vars == <<analyze, tid, tmp, reg, mem, fpOps>>

(* A shadow value is named by the serial number of the operation that      *)
(* computed it: the number stands for the MPFR value.  NoShadow (id 0) is  *)
(* the absence of one; an operand without a shadow counts 0 operations.    *)
Shadow == [id: Nat, opCount: Nat]
NoShadow == [id |-> 0, opCount |-> 0]

MaxCount(m, n) == IF m > n THEN m ELSE n

Result(n, s1, s2) ==
    [id |-> n, opCount |-> 1 + MaxCount(s1.opCount, s2.opCount)]

-----------------------------------------------------------------------------
Init ==
    /\ analyze \in BOOLEAN
    /\ tid \in Threads
    /\ tmp = [t \in Temps |-> NoShadow]
    /\ reg = [th \in Threads |-> [r \in Registers |-> NoShadow]]
    /\ mem = [a \in Addrs |-> NoShadow]
    /\ fpOps = 0

(* The shadow values an operand or a stored value can have. *)
Operands == {NoShadow} \cup {tmp[t] : t \in Temps}

(* Temporaries live for one superblock. *)
EnterSB(th) ==
    /\ tid' = th
    /\ tmp' = [t \in Temps |-> NoShadow]
    /\ UNCHANGED <<analyze, reg, mem, fpOps>>

Compute(w, s1, s2) ==
    /\ analyze
    /\ fpOps' = fpOps + 1
    /\ tmp' = [tmp EXCEPT ![w] = Result(fpOps', s1, s2)]
    /\ UNCHANGED <<analyze, tid, reg, mem>>

Receive(w, s) ==
    /\ tmp' = [tmp EXCEPT ![w] = s]
    /\ UNCHANGED <<analyze, tid, reg, mem, fpOps>>

CopyTemp(w, t) == Receive(w, tmp[t])
Get(w, r) == analyze /\ Receive(w, reg[tid][r])
Load(w, a) == analyze /\ Receive(w, mem[a])

(* While the analysis is off a write still removes the old shadow value. *)
Written(s) == IF analyze THEN s ELSE NoShadow

Put(r, s) ==
    /\ reg' = [reg EXCEPT ![tid][r] = Written(s)]
    /\ UNCHANGED <<analyze, tid, tmp, mem, fpOps>>

Store(a, s) ==
    /\ mem' = [mem EXCEPT ![a] = Written(s)]
    /\ UNCHANGED <<analyze, tid, tmp, reg, fpOps>>

Reset ==
    /\ tmp' = [t \in Temps |-> NoShadow]
    /\ reg' = [th \in Threads |-> [r \in Registers |-> NoShadow]]
    /\ mem' = [a \in Addrs |-> NoShadow]
    /\ UNCHANGED <<analyze, tid, fpOps>>

Begin ==
    /\ analyze' = TRUE
    /\ UNCHANGED <<tid, tmp, reg, mem, fpOps>>

End ==
    /\ analyze' = (analyze /\ IgnoreEnd)
    /\ UNCHANGED <<tid, tmp, reg, mem, fpOps>>

Next ==
    \/ \E th \in Threads : EnterSB(th)
    \/ \E w \in Temps, s1, s2 \in Operands : Compute(w, s1, s2)
    \/ \E w, t \in Temps : CopyTemp(w, t)
    \/ \E w \in Temps, r \in Registers : Get(w, r)
    \/ \E w \in Temps, a \in Addrs : Load(w, a)
    \/ \E r \in Registers, s \in Operands : Put(r, s)
    \/ \E a \in Addrs, s \in Operands : Store(a, s)
    \/ Reset
    \/ Begin
    \/ End

Spec == Init /\ [][Next]_vars

=============================================================================
