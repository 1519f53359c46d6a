------------------------------ MODULE Superblock ------------------------------
(***************************************************************************)
(* The shadow machine of src/valgrind/fpdebug/fd_main.c: how shadow values *)
(* are kept for the temporaries of a superblock (localTemps), for the      *)
(* registers of the threads (threadRegisters) and for memory               *)
(* (globalMemory), and what the calls that fd_instrument inserts into a    *)
(* superblock (processLoad, processStore, processPut, ...) do to them.     *)
(*                                                                         *)
(* Cells are never freed: a temporary's cell is current when its version   *)
(* is the number of the running superblock, a register's or an address's   *)
(* when it is active.  The forward pass of fd_instrument decides which     *)
(* temporaries are aliases of others and are not instrumented at all; the  *)
(* module takes its decisions statement by statement, which is the same    *)
(* thing because a superblock is straight-line code in which every         *)
(* temporary is assigned once.                                             *)
(*                                                                         *)
(* Valgrind runs one guest thread at a time and changes threads, or runs a *)
(* client request, only between two superblocks.                           *)
(***************************************************************************)
EXTENDS Naturals, FiniteSets

CONSTANTS
    Temps,       \* temporaries of a superblock
    NoTmp,       \* -1 in the code: no temporary (a constant, no alias)
    Regs,        \* register offsets that Put and Get name
    IPReg,       \* offset 168, the instruction pointer
    CircRegs,    \* register offsets that PutI and GetI compute
    Addrs,       \* memory addresses
    Threads,     \* guest threads
    IgnoreEnd,   \* --ignore-end
    VersionMod,  \* number of values of ShadowValue.version, a UInt
    MaxOps,      \* bound on fpOps
    MaxSB        \* bound on sbExecuted

ASSUME NoTmpAssumption == NoTmp \notin Temps
ASSUME RegsAssumption == IPReg \in Regs /\ Regs \cap CircRegs = {}
ASSUME BoundsAssumption == MaxOps \in Nat /\ MaxSB \in Nat
ASSUME VersionAssumption == VersionMod \in Nat \ {0}
ASSUME IgnoreEndAssumption == IgnoreEnd \in BOOLEAN

VARIABLES
    analyze,          \* clo_analyze
    tid,              \* the running thread
    sbExecuted,       \* number of the running superblock
    inSB,             \* a superblock is running
    defined,          \* the temporaries it has assigned so far
    tmpInstead,       \* tmpInstead[t]: the temporary t is an alias of, or NoTmp
    tmpInReg,         \* tmpInReg[r]: the temporary last put into r, or NoTmp
    localTemps,       \* shadow cells of the temporaries
    threadRegisters,  \* shadow cells of the registers, per thread
    globalMemory,     \* shadow cells of the addresses
    fpOps             \* number of operations shadowed so far

block == <<sbExecuted, inSB, tid>>
shadows == <<localTemps, threadRegisters, globalMemory>>
vars == <<analyze, block, defined, tmpInstead, tmpInReg, shadows, fpOps>>

RegFile == Regs \cup CircRegs
Args == Temps \cup {NoTmp}

(* ShadowValue: the serial number of the operation that computed it (it    *)
(* stands for the MPFR value) and the opCount.  NoShadow is NULL.          *)
Shadow == [id: Nat, opCount: Nat]
NoShadow == [id |-> 0, opCount |-> 0]

TempCell == [version: 0 .. VersionMod - 1, sv: Shadow]
Cell == [active: BOOLEAN, sv: Shadow]
NoCell == [active |-> FALSE, sv |-> NoShadow]

TypeOK ==
    /\ analyze \in BOOLEAN
    /\ tid \in Threads
    /\ sbExecuted \in 0 .. MaxSB
    /\ inSB \in BOOLEAN
    /\ defined \in SUBSET Temps
    /\ tmpInstead \in [Temps -> Args]
    /\ tmpInReg \in [Regs -> Args]
    /\ localTemps \in [Temps -> TempCell]
    /\ threadRegisters \in [Threads -> [RegFile -> Cell]]
    /\ globalMemory \in [Addrs -> Cell]
    /\ fpOps \in 0 .. MaxOps

-----------------------------------------------------------------------------
(* Shadow values of temporaries. *)

IsCurrent(t) == localTemps[t].version = sbExecuted

getTemp(t) == IF IsCurrent(t) THEN localTemps[t].sv ELSE NoShadow

(* setTemp followed by copyShadowValue or by the result of an operation.   *)
(* The number of the superblock is truncated to the width of version.      *)
setTemp(w, sv) ==
    localTemps' = [localTemps EXCEPT
        ![w] = [version |-> sbExecuted % VersionMod, sv |-> sv]]

(* What the instrumentation passes to a call instead of t, and the shadow  *)
(* value the call then finds; a constant has none.                         *)
Rep(t) == IF tmpInstead[t] # NoTmp THEN tmpInstead[t] ELSE t

ArgShadow(a) == IF a = NoTmp THEN NoShadow ELSE getTemp(Rep(a))

(* (variant) While the analysis is off a write does not reach the cell. *)
OverwrittenUnlessOff(cell, a) ==
    IF ~analyze THEN cell
    ELSE IF ArgShadow(a) # NoShadow
    THEN [active |-> TRUE, sv |-> ArgShadow(a)]
    ELSE [cell EXCEPT !.active = FALSE]

(* A register or memory cell after a write of what a holds: processPut,    *)
(* processPutI and processStore.  A cell without a new value keeps the old *)
(* one and becomes inactive.                                               *)
Overwritten(cell, a) ==
    IF analyze /\ ArgShadow(a) # NoShadow
    THEN [active |-> TRUE, sv |-> ArgShadow(a)]
    ELSE [cell EXCEPT !.active = FALSE]

Contents(cell) == IF cell.active THEN cell.sv ELSE NoShadow

-----------------------------------------------------------------------------
Init ==
    /\ analyze \in BOOLEAN                \* --analyze-all
    /\ tid \in Threads
    /\ sbExecuted = 0
    /\ inSB = FALSE
    /\ defined = {}
    /\ tmpInstead = [t \in Temps |-> NoTmp]
    /\ tmpInReg = [r \in Regs |-> NoTmp]
    /\ localTemps = [t \in Temps |-> [version |-> 0, sv |-> NoShadow]]
    /\ threadRegisters = [th \in Threads |-> [r \in RegFile |-> NoCell]]
    /\ globalMemory = [a \in Addrs |-> NoCell]
    /\ fpOps = 0

(* (variant) The registers put by the last superblock are remembered. *)
EnterSBKeepsRegisters(th) ==
    /\ sbExecuted < MaxSB
    /\ sbExecuted' = sbExecuted + 1
    /\ inSB' = TRUE
    /\ tid' = th
    /\ defined' = {}
    /\ tmpInstead' = [t \in Temps |-> NoTmp]
    /\ UNCHANGED <<analyze, tmpInReg, shadows, fpOps>>

(* A superblock starts, in any thread: the running one may end early at    *)
(* any side exit.  The forward pass starts from empty aliases.             *)
EnterSB(th) ==
    /\ sbExecuted < MaxSB
    /\ sbExecuted' = sbExecuted + 1
    /\ inSB' = TRUE
    /\ tid' = th
    /\ defined' = {}
    /\ tmpInstead' = [t \in Temps |-> NoTmp]
    /\ tmpInReg' = [r \in Regs |-> NoTmp]
    /\ UNCHANGED <<analyze, shadows, fpOps>>

(* A statement of the running superblock assigns w, for the only time. *)
Assigns(w) ==
    /\ inSB
    /\ w \notin defined
    /\ defined' = defined \cup {w}
    /\ UNCHANGED <<analyze, block, tmpInReg, threadRegisters, globalMemory>>

Known(a) == a \in defined \cup {NoTmp}

NoAlias == UNCHANGED tmpInstead
NoShadowChange == UNCHANGED <<localTemps, fpOps>>

(* w becomes an alias of t, or of what t is an alias of. *)
Alias(w, t) == tmpInstead' = [tmpInstead EXCEPT ![w] = Rep(t)]

(* A statement without a call and without an alias: integer and vector     *)
(* operations, an operation of an ignored library.                         *)
Opaque(w) == Assigns(w) /\ NoAlias /\ NoShadowChange

(* An assignment of one temporary to another is an alias only when the     *)
(* source already is one.                                                  *)
RdTmp(w, t) ==
    /\ Assigns(w)
    /\ t \in defined
    /\ tmpInstead' = [tmpInstead EXCEPT ![w] = tmpInstead[t]]
    /\ NoShadowChange

(* The conversions and the packing of vectors that only move a value. *)
Copy(w, t) ==
    /\ Assigns(w)
    /\ t \in defined
    /\ Alias(w, t)
    /\ NoShadowChange

(* (variant) The active flag is not looked at. *)
FetchInactive(w, cell) ==
    /\ NoAlias
    /\ UNCHANGED fpOps
    /\ IF analyze /\ cell.sv # NoShadow
       THEN setTemp(w, cell.sv)
       ELSE UNCHANGED localTemps

(* The shadow value of a cell, if it has one, becomes the shadow of w:     *)
(* processLoad, processGet, processGetI.                                   *)
Fetch(w, cell) ==
    /\ NoAlias
    /\ UNCHANGED fpOps
    /\ IF analyze /\ cell.active
       THEN setTemp(w, cell.sv)
       ELSE UNCHANGED localTemps

Load(w, a) == Assigns(w) /\ Fetch(w, globalMemory[a])

(* A load from a constant address is not instrumented. *)
LoadConst(w, a) == Assigns(w) /\ a \in Addrs /\ NoAlias /\ NoShadowChange

(* A register put earlier in the superblock is read from its temporary. *)
GetAliased(w, r) ==
    /\ Assigns(w)
    /\ tmpInReg[r] # NoTmp
    /\ Alias(w, tmpInReg[r])
    /\ NoShadowChange

Get(w, r) ==
    /\ Assigns(w)
    /\ tmpInReg[r] = NoTmp
    /\ Fetch(w, threadRegisters[tid][r])

GetI(w, r) == Assigns(w) /\ Fetch(w, threadRegisters[tid][r])

(* An operation on two operands, each a temporary or a constant; without   *)
(* a shadow value the guest's own value is used and counts 0 operations.   *)
MaxCount(m, n) == IF m > n THEN m ELSE n

(* (variant) Operations are counted over all paths. *)
ResultSum(s1, s2) ==
    [id |-> fpOps + 1, opCount |-> 1 + s1.opCount + s2.opCount]

Result(s1, s2) ==
    [id |-> fpOps + 1, opCount |-> 1 + MaxCount(s1.opCount, s2.opCount)]

Operation(w, s1, s2) ==
    /\ NoAlias
    /\ IF analyze
       THEN /\ fpOps < MaxOps
            /\ fpOps' = fpOps + 1
            /\ setTemp(w, Result(s1, s2))
       ELSE NoShadowChange

UnOp(w, a) ==
    /\ Assigns(w)
    /\ Known(a)
    /\ Operation(w, ArgShadow(a), NoShadow)

BinOp(w, a1, a2) ==
    /\ Assigns(w)
    /\ Known(a1) /\ Known(a2)
    /\ Operation(w, ArgShadow(a1), ArgShadow(a2))

(* The first of the three operands is the rounding mode. *)
TriOp(w, a2, a3) ==
    /\ Assigns(w)
    /\ Known(a2) /\ Known(a3)
    /\ Operation(w, ArgShadow(a2), ArgShadow(a3))

(* chosen is the arm that the condition selects. *)
Mux0X(w, chosen) ==
    /\ Assigns(w)
    /\ Known(chosen)
    /\ NoAlias
    /\ UNCHANGED fpOps
    /\ IF analyze /\ ArgShadow(chosen) # NoShadow
       THEN setTemp(w, ArgShadow(chosen))
       ELSE UNCHANGED localTemps

-----------------------------------------------------------------------------
(* Writes.  The instruction pointer is tracked by the forward pass only. *)

Put(r, a) ==
    /\ inSB
    /\ Known(a)
    /\ tmpInReg' = [tmpInReg EXCEPT ![r] = a]
    /\ threadRegisters' =
        IF r = IPReg
        THEN threadRegisters
        ELSE [threadRegisters EXCEPT ![tid][r] = Overwritten(@, a)]
    /\ UNCHANGED <<analyze, block, defined, tmpInstead, localTemps,
                   globalMemory, fpOps>>

PutI(r, a) ==
    /\ inSB
    /\ Known(a)
    /\ threadRegisters' = [threadRegisters EXCEPT ![tid][r] = Overwritten(@, a)]
    /\ UNCHANGED <<analyze, block, defined, tmpInstead, tmpInReg, localTemps,
                   globalMemory, fpOps>>

Store(addr, a) ==
    /\ inSB
    /\ Known(a)
    /\ globalMemory' = [globalMemory EXCEPT ![addr] = Overwritten(@, a)]
    /\ UNCHANGED <<analyze, block, defined, tmpInstead, tmpInReg, localTemps,
                   threadRegisters, fpOps>>

-----------------------------------------------------------------------------
(* Client requests end the superblock that makes them. *)

Request ==
    /\ inSB
    /\ inSB' = FALSE
    /\ UNCHANGED <<sbExecuted, tid, defined, tmpInstead, tmpInReg, fpOps>>

resetShadowValues ==
    /\ Request
    /\ localTemps' = [t \in Temps |-> [localTemps[t] EXCEPT !.version = 0]]
    /\ threadRegisters' = [th \in Threads |-> [r \in RegFile |->
            [threadRegisters[th][r] EXCEPT !.active = FALSE]]]
    /\ globalMemory' = [a \in Addrs |-> [globalMemory[a] EXCEPT !.active = FALSE]]
    /\ UNCHANGED analyze

beginAnalyzing == Request /\ analyze' = TRUE /\ UNCHANGED shadows

endAnalyzing == Request /\ analyze' = (analyze /\ IgnoreEnd) /\ UNCHANGED shadows

-----------------------------------------------------------------------------
Assignment(w) ==
    \/ Opaque(w)
    \/ \E t \in Temps : RdTmp(w, t) \/ Copy(w, t)
    \/ \E a \in Addrs : Load(w, a) \/ LoadConst(w, a)
    \/ \E r \in Regs : GetAliased(w, r) \/ Get(w, r)
    \/ \E r \in CircRegs : GetI(w, r)
    \/ \E a \in Args : UnOp(w, a) \/ Mux0X(w, a)
    \/ \E a1, a2 \in Args : BinOp(w, a1, a2) \/ TriOp(w, a1, a2)

Write(a) ==
    \/ \E r \in Regs : Put(r, a)
    \/ \E r \in CircRegs : PutI(r, a)
    \/ \E addr \in Addrs : Store(addr, a)

Next ==
    \/ \E th \in Threads : EnterSB(th)
    \/ \E w \in Temps : Assignment(w)
    \/ \E a \in Args : Write(a)
    \/ resetShadowValues
    \/ beginAnalyzing
    \/ endAnalyzing

Spec == Init /\ [][Next]_vars

-----------------------------------------------------------------------------
(* The inductive invariant. *)

ShadowOf(t) == getTemp(Rep(t))

(* Version numbers are never ahead of the superblock counter. *)
VersionsBehind == \A t \in Temps : localTemps[t].version <= sbExecuted

(* Superblocks are numbered from 1, so 0 is the version of no current cell. *)
NumberedFromOne == inSB => sbExecuted > 0

(* A temporary that the superblock has not assigned has no current cell    *)
(* and is no alias, so a cell left over from an earlier superblock is      *)
(* never read.                                                             *)
UnassignedIsFresh ==
    inSB => \A t \in Temps \ defined :
        /\ tmpInstead[t] = NoTmp
        /\ getTemp(t) = NoShadow

(* Aliases are resolved when they are made: they name assigned             *)
(* temporaries that are not aliases themselves.                            *)
AliasesAreRoots ==
    \A t \in Temps : tmpInstead[t] # NoTmp =>
        /\ tmpInstead[t] \in defined
        /\ tmpInstead[tmpInstead[t]] = NoTmp

(* When the forward pass reads a register from a temporary it skips a call *)
(* that would have found the same shadow value: the register's cell and    *)
(* the temporary agree as long as the superblock runs.                     *)
RegisterAliasAgrees ==
    inSB => \A r \in Regs : tmpInReg[r] # NoTmp =>
        /\ tmpInReg[r] \in defined
        /\ r # IPReg =>
            Contents(threadRegisters[tid][r]) = ShadowOf(tmpInReg[r])

(* While the analysis is off no temporary has a shadow value, so that the  *)
(* aliases, which never look at clo_analyze, cannot carry one.             *)
OffMeansNone ==
    inSB /\ ~analyze => \A t \in Temps : getTemp(t) = NoShadow

(* The instruction pointer never has a shadow value. *)
NoShadowInIP == \A th \in Threads : ~threadRegisters[th][IPReg].active

(* The operation count of a shadow value, current or not, is the length of *)
(* one path of operations: it never exceeds the number of operations up to *)
(* the one that computed the value.                                        *)
Counted(sv) == sv.opCount <= sv.id /\ sv.id <= fpOps

CountsArePaths ==
    /\ \A t \in Temps : Counted(localTemps[t].sv)
    /\ \A th \in Threads, r \in RegFile : Counted(threadRegisters[th][r].sv)
    /\ \A a \in Addrs : Counted(globalMemory[a].sv)

IInv ==
    /\ TypeOK
    /\ VersionsBehind
    /\ NumberedFromOne
    /\ UnassignedIsFresh
    /\ AliasesAreRoots
    /\ RegisterAliasAgrees
    /\ OffMeansNone
    /\ NoShadowInIP

-----------------------------------------------------------------------------
(* The machine implements the shadow map: a temporary has the shadow value *)
(* that is found through its alias, a register or an address the one of    *)
(* its cell if the cell is active.                                         *)
tmpShadows == [t \in Temps |-> ShadowOf(t)]
regShadows ==
    [th \in Threads |-> [r \in RegFile |-> Contents(threadRegisters[th][r])]]
memShadows == [a \in Addrs |-> Contents(globalMemory[a])]

Map == INSTANCE ShadowMap WITH
    Registers <- RegFile,
    tmp <- tmpShadows,
    reg <- regShadows,
    mem <- memShadows

MapSpec == Map!Spec

=============================================================================
