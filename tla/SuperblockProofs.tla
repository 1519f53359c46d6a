--------------------------- MODULE SuperblockProofs ---------------------------
(***************************************************************************)
(* Proofs about the shadow machine, for every set of temporaries,          *)
(* registers, addresses and threads and every bound: its inductive         *)
(* invariant, and that it implements the shadow map; and about the keys of *)
(* threadRegisters that computed accesses use.                             *)
(***************************************************************************)
EXTENDS Superblock, CircularIndex, TLAPS

USE DEF RegFile, Args

(* The number of the superblock as setTemp stores it fits the field, is    *)
(* never ahead of the counter, and is exact until it wraps.                *)
LEMMA Truncation ==
    ASSUME NEW n \in Nat
    PROVE  /\ n % VersionMod \in 0 .. VersionMod - 1
           /\ n % VersionMod <= n
           /\ n < VersionMod => n % VersionMod = n
  BY VersionAssumption, SMT

(* Looking up a temporary or an operand finds a shadow value or NoShadow.  *)
LEMMA LookupTypes ==
    ASSUME TypeOK
    PROVE  /\ NoShadow \in Shadow
           /\ \A t \in Temps : Rep(t) \in Temps /\ getTemp(t) \in Shadow
           /\ \A a \in Args : ArgShadow(a) \in Shadow
  BY NoTmpAssumption, SMT
     DEF TypeOK, TempCell, Shadow, NoShadow, Rep, getTemp, IsCurrent, ArgShadow

(* A cell is still a cell after a write. *)
LEMMA OverwrittenType ==
    ASSUME TypeOK, NEW cell \in Cell, NEW a \in Args
    PROVE  Overwritten(cell, a) \in Cell
  BY LookupTypes DEF Overwritten, Cell

-----------------------------------------------------------------------------
(* The two things an assignment of w can do. *)

(* It makes w an alias of a temporary that is none itself, or leaves it    *)
(* without a shadow value.                                                 *)
AliasStep(w, x) ==
    /\ Assigns(w)
    /\ x \in Args
    /\ x # NoTmp => x \in defined /\ tmpInstead[x] = NoTmp
    /\ tmpInstead' = [tmpInstead EXCEPT ![w] = x]
    /\ UNCHANGED <<localTemps, fpOps>>

(* It gives w a shadow value of its own. *)
ShadowStep(w, s) ==
    /\ Assigns(w)
    /\ analyze
    /\ s \in Shadow
    /\ NoAlias
    /\ setTemp(w, s)
    /\ fpOps' \in 0 .. MaxOps

LEMMA AliasPreserves ==
    ASSUME IInv, NEW w \in Temps, NEW x, AliasStep(w, x)
    PROVE  IInv'
  <1> USE DEF IInv, AliasStep, Assigns, block
  <1>1. TypeOK'
    BY DEF TypeOK
  <1>2. VersionsBehind'
    BY DEF VersionsBehind, TypeOK
  <1>3. \A t \in Temps : getTemp(t)' = getTemp(t)
    BY DEF getTemp, IsCurrent
  <1>4. UnassignedIsFresh'
    BY <1>3 DEF UnassignedIsFresh, TypeOK
  <1>5. AliasesAreRoots'
    BY NoTmpAssumption DEF AliasesAreRoots, UnassignedIsFresh, TypeOK
  <1>6. \A t \in defined : ShadowOf(t)' = ShadowOf(t)
    BY <1>3 DEF ShadowOf, Rep, getTemp, IsCurrent, TypeOK
  <1>7. RegisterAliasAgrees'
    BY <1>6 DEF RegisterAliasAgrees, Contents
  <1>8. OffMeansNone'
    BY <1>3 DEF OffMeansNone
  <1>9. NoShadowInIP' /\ NumberedFromOne'
    BY DEF NoShadowInIP, NumberedFromOne
  <1> QED
    BY <1>1, <1>2, <1>4, <1>5, <1>7, <1>8, <1>9

LEMMA ShadowPreserves ==
    ASSUME IInv, NEW w \in Temps, NEW s, ShadowStep(w, s)
    PROVE  IInv'
  <1> USE DEF IInv, ShadowStep, Assigns, block, NoAlias, setTemp
  <1>0. /\ sbExecuted % VersionMod \in 0 .. VersionMod - 1
        /\ sbExecuted % VersionMod <= sbExecuted
    BY Truncation, BoundsAssumption DEF TypeOK
  <1>1. TypeOK'
    BY <1>0 DEF TypeOK, TempCell
  <1>2. VersionsBehind'
    BY <1>0 DEF VersionsBehind, TypeOK
  <1>3. \A t \in Temps \ {w} : getTemp(t)' = getTemp(t)
    BY DEF getTemp, IsCurrent, TypeOK
  <1>4. UnassignedIsFresh'
    BY <1>3 DEF UnassignedIsFresh, TypeOK
  <1>5. AliasesAreRoots'
    BY DEF AliasesAreRoots, TypeOK
  <1>6. \A t \in defined : Rep(t) \in defined /\ ShadowOf(t)' = ShadowOf(t)
    <2> TAKE t \in defined
    <2>1. Rep(t) \in defined /\ Rep(t) \in Temps
      BY DEF AliasesAreRoots, Rep, TypeOK
    <2>2. Rep(t)' = Rep(t)
      BY DEF Rep
    <2>3. getTemp(Rep(t))' = getTemp(Rep(t))
      BY <2>1, <2>2 DEF getTemp, IsCurrent, TypeOK
    <2> QED
      BY <2>1, <2>3 DEF ShadowOf
  <1>7. RegisterAliasAgrees'
    BY <1>6 DEF RegisterAliasAgrees, Contents
  <1>8. OffMeansNone'
    BY DEF OffMeansNone
  <1>9. NoShadowInIP' /\ NumberedFromOne'
    BY DEF NoShadowInIP, NumberedFromOne
  <1> QED
    BY <1>1, <1>2, <1>4, <1>5, <1>7, <1>8, <1>9

-----------------------------------------------------------------------------
(* Every assignment is one of the two. *)

(* The shadow value is one that w receives from a register of the running  *)
(* thread, from memory or from another temporary, ...                      *)
Sources ==
    {regShadows[tid][r] : r \in RegFile} \cup {memShadows[a] : a \in Addrs}
        \cup {ShadowOf(t) : t \in Temps}

ReceiveStep(w) ==
    \E s \in Sources : ShadowStep(w, s) /\ UNCHANGED fpOps

(* ... or the result of an operation. *)
OperandShadows == {NoShadow} \cup {ShadowOf(t) : t \in Temps}

ComputeStep(w) ==
    \E s1, s2 \in OperandShadows :
        ShadowStep(w, Result(s1, s2)) /\ fpOps' = fpOps + 1

LEMMA OperandsAreShadows ==
    ASSUME TypeOK
    PROVE  /\ OperandShadows \subseteq Shadow
           /\ \A a \in Args : ArgShadow(a) \in OperandShadows
  BY LookupTypes DEF OperandShadows, ShadowOf, ArgShadow

LEMMA AssignmentEffect ==
    ASSUME IInv, NEW w \in Temps, Assignment(w)
    PROVE  (\E x : AliasStep(w, x)) \/ ReceiveStep(w) \/ ComputeStep(w)
  <1> USE DEF IInv
  <1>1. ASSUME Assigns(w), NoAlias, NoShadowChange
        PROVE  AliasStep(w, NoTmp)
    BY <1>1 DEF AliasStep, Assigns, NoAlias, NoShadowChange,
                UnassignedIsFresh, TypeOK
  <1>2. ASSUME Assigns(w), NEW t \in defined, Alias(w, t), NoShadowChange
        PROVE  AliasStep(w, Rep(t))
    BY <1>2, NoTmpAssumption
       DEF AliasStep, Alias, Rep, NoShadowChange, AliasesAreRoots, TypeOK
  <1>3. ASSUME NEW cell \in Cell, Assigns(w), Fetch(w, cell),
               cell.active => cell.sv \in Sources
        PROVE  AliasStep(w, NoTmp) \/ ReceiveStep(w)
    <2>1. CASE analyze /\ cell.active
      <3>1. ShadowStep(w, cell.sv) /\ UNCHANGED fpOps
        BY <1>3, <2>1 DEF ShadowStep, Fetch, Cell, TypeOK
      <3> QED
        BY <1>3, <2>1, <3>1 DEF ReceiveStep
    <2>2. CASE ~(analyze /\ cell.active)
      BY <1>1, <1>3, <2>2 DEF Fetch, NoShadowChange
    <2> QED
      BY <2>1, <2>2
  <1>4. ASSUME NEW s1 \in OperandShadows, NEW s2 \in OperandShadows,
               Assigns(w), Operation(w, s1, s2)
        PROVE  AliasStep(w, NoTmp) \/ ComputeStep(w)
    <2>1. CASE analyze
      <3>1. s1 \in Shadow /\ s2 \in Shadow
        BY OperandsAreShadows
      <3>2. Result(s1, s2) \in Shadow
        BY <3>1 DEF Result, MaxCount, Shadow, TypeOK
      <3>3. fpOps' = fpOps + 1 /\ fpOps' \in 0 .. MaxOps
        BY <1>4, <2>1, BoundsAssumption DEF Operation, TypeOK
      <3>4. ShadowStep(w, Result(s1, s2))
        BY <1>4, <2>1, <3>2, <3>3 DEF ShadowStep, Operation
      <3> QED
        BY <3>3, <3>4 DEF ComputeStep
    <2>2. CASE ~analyze
      BY <1>1, <1>4, <2>2 DEF Operation
    <2> QED
      BY <2>1, <2>2
  <1>5. CASE Opaque(w)
    BY <1>1, <1>5 DEF Opaque
  <1>6. CASE \E t \in Temps : RdTmp(w, t)
    <2> PICK t \in Temps : RdTmp(w, t)
      BY <1>6
    <2>1. CASE tmpInstead[t] = NoTmp
      BY <2>1, NoTmpAssumption DEF RdTmp, AliasStep, NoShadowChange, TypeOK
    <2>2. CASE tmpInstead[t] # NoTmp
      BY <1>2, <2>2 DEF RdTmp, Alias, Rep
    <2> QED
      BY <2>1, <2>2
  <1>7. CASE \E t \in Temps : Copy(w, t)
    BY <1>2, <1>7 DEF Copy
  <1>8. CASE \E a \in Addrs : Load(w, a)
    <2> PICK a \in Addrs : Load(w, a)
      BY <1>8
    <2>1. globalMemory[a] \in Cell
      BY DEF TypeOK
    <2>2. globalMemory[a].active => globalMemory[a].sv \in Sources
      BY DEF Sources, memShadows, Contents
    <2> QED
      BY <1>3, <2>1, <2>2 DEF Load
  <1>9. CASE \E a \in Addrs : LoadConst(w, a)
    BY <1>1, <1>9 DEF LoadConst
  <1>10. CASE \E r \in Regs : GetAliased(w, r)
    <2> PICK r \in Regs : GetAliased(w, r)
      BY <1>10
    <2>1. tmpInReg[r] \in defined
      BY DEF GetAliased, Assigns, RegisterAliasAgrees
    <2> QED
      BY <1>2, <2>1 DEF GetAliased
  <1>11. ASSUME NEW r \in RegFile, Assigns(w), Fetch(w, threadRegisters[tid][r])
         PROVE  AliasStep(w, NoTmp) \/ ReceiveStep(w)
    <2>1. threadRegisters[tid][r] \in Cell
      BY DEF TypeOK
    <2>2. threadRegisters[tid][r].active => threadRegisters[tid][r].sv \in Sources
      BY DEF Sources, regShadows, Contents, TypeOK
    <2> QED
      BY <1>3, <1>11, <2>1, <2>2
  <1>12. CASE \E r \in Regs : Get(w, r)
    BY <1>11, <1>12 DEF Get
  <1>13. CASE \E r \in CircRegs : GetI(w, r)
    BY <1>11, <1>13 DEF GetI
  <1>14. CASE \E a \in Args : UnOp(w, a)
    <2>1. NoShadow \in OperandShadows
      BY DEF OperandShadows
    <2> QED
      BY <1>4, <1>14, <2>1, OperandsAreShadows DEF UnOp
  <1>15. CASE \E a \in Args : Mux0X(w, a)
    <2> PICK a \in Args : Mux0X(w, a)
      BY <1>15
    <2>1. CASE analyze /\ ArgShadow(a) # NoShadow
      <3>1. ShadowStep(w, ArgShadow(a)) /\ UNCHANGED fpOps
        BY <2>1, LookupTypes DEF ShadowStep, Mux0X, TypeOK
      <3>2. ArgShadow(a) \in Sources
        BY <2>1 DEF Sources, ArgShadow, ShadowOf
      <3> QED
        BY <3>1, <3>2 DEF ReceiveStep
    <2>2. CASE ~(analyze /\ ArgShadow(a) # NoShadow)
      BY <1>1, <2>2 DEF Mux0X, NoShadowChange
    <2> QED
      BY <2>1, <2>2
  <1>16. CASE \E a1, a2 \in Args : BinOp(w, a1, a2)
    BY <1>4, <1>16, OperandsAreShadows DEF BinOp
  <1>17. CASE \E a1, a2 \in Args : TriOp(w, a1, a2)
    BY <1>4, <1>17, OperandsAreShadows DEF TriOp
  <1> QED
    BY <1>5, <1>6, <1>7, <1>8, <1>9, <1>10, <1>12, <1>13, <1>14, <1>15,
       <1>16, <1>17 DEF Assignment

-----------------------------------------------------------------------------
(* What a write leaves in a cell is the shadow value of what was written,  *)
(* if the analysis is on.                                                  *)
LEMMA OverwrittenContents ==
    ASSUME TypeOK, NEW cell \in Cell, NEW a \in Args
    PROVE  Contents(Overwritten(cell, a)) = IF analyze THEN ArgShadow(a) ELSE NoShadow
  BY DEF Overwritten, Contents, Cell

(* The shadow value of an assigned temporary and that of an operand. *)
LEMMA OperandShadow ==
    ASSUME IInv, NEW a \in Args
    PROVE  /\ a # NoTmp => ArgShadow(a) = ShadowOf(a)
           /\ a = NoTmp => ArgShadow(a) = NoShadow
           /\ inSB /\ ~analyze => ArgShadow(a) = NoShadow
  BY LookupTypes DEF IInv, ArgShadow, ShadowOf, OffMeansNone

LEMMA PutPreserves ==
    ASSUME IInv, NEW r \in Regs, NEW a \in Args, Put(r, a)
    PROVE  IInv'
  <1> USE DEF IInv, Put, block
  <1>1. TypeOK'
    BY OverwrittenType DEF TypeOK
  <1>2. \A t \in Temps : getTemp(t)' = getTemp(t) /\ ShadowOf(t)' = ShadowOf(t)
    BY DEF getTemp, IsCurrent, ShadowOf, Rep
  <1>3. VersionsBehind' /\ UnassignedIsFresh' /\ AliasesAreRoots'
            /\ OffMeansNone' /\ NumberedFromOne'
    BY <1>2 DEF NumberedFromOne, VersionsBehind, UnassignedIsFresh, AliasesAreRoots, OffMeansNone
  <1>4. RegisterAliasAgrees'
    <2> SUFFICES ASSUME NEW q \in Regs, tmpInReg'[q] # NoTmp
                 PROVE  /\ tmpInReg'[q] \in defined
                        /\ q # IPReg =>
                            Contents(threadRegisters'[tid][q]) = ShadowOf(tmpInReg'[q])
      BY <1>1, <1>2 DEF RegisterAliasAgrees, TypeOK, Contents
    <2>1. CASE q = r
      <3>1. tmpInReg'[q] = a /\ a \in defined
        BY <2>1 DEF Known, TypeOK
      <3>2. ASSUME q # IPReg
            PROVE  threadRegisters'[tid][q] = Overwritten(threadRegisters[tid][q], a)
        BY <2>1, <3>2 DEF TypeOK
      <3>3. Contents(Overwritten(threadRegisters[tid][q], a)) = ShadowOf(a)
        <4>1. threadRegisters[tid][q] \in Cell
          BY DEF TypeOK
        <4>2. a # NoTmp
          BY <3>1
        <4> QED
          BY <4>1, <4>2, OverwrittenContents, OperandShadow
      <3> QED
        BY <3>1, <3>2, <3>3
    <2>2. CASE q # r
      <3>1. tmpInReg'[q] = tmpInReg[q] /\ threadRegisters'[tid][q] = threadRegisters[tid][q]
        BY <2>2 DEF TypeOK
      <3> QED
        BY <3>1 DEF RegisterAliasAgrees
    <2> QED
      BY <2>1, <2>2
  <1>5. NoShadowInIP'
    BY RegsAssumption DEF NoShadowInIP, TypeOK
  <1> QED
    BY <1>1, <1>3, <1>4, <1>5

LEMMA PutIPreserves ==
    ASSUME IInv, NEW r \in CircRegs, NEW a \in Args, PutI(r, a)
    PROVE  IInv'
  <1> USE DEF IInv, PutI, block
  <1>1. TypeOK'
    BY OverwrittenType DEF TypeOK
  <1>2. \A t \in Temps : getTemp(t)' = getTemp(t) /\ ShadowOf(t)' = ShadowOf(t)
    BY DEF getTemp, IsCurrent, ShadowOf, Rep
  <1>3. VersionsBehind' /\ UnassignedIsFresh' /\ AliasesAreRoots'
            /\ OffMeansNone' /\ NumberedFromOne'
    BY <1>2 DEF NumberedFromOne, VersionsBehind, UnassignedIsFresh, AliasesAreRoots, OffMeansNone
  <1>4. \A th \in Threads, q \in Regs : threadRegisters'[th][q] = threadRegisters[th][q]
    BY RegsAssumption DEF TypeOK
  <1>5. RegisterAliasAgrees' /\ NoShadowInIP'
    BY <1>2, <1>4, RegsAssumption
       DEF RegisterAliasAgrees, NoShadowInIP, Contents, TypeOK
  <1> QED
    BY <1>1, <1>3, <1>5

LEMMA StorePreserves ==
    ASSUME IInv, NEW addr \in Addrs, NEW a \in Args, Store(addr, a)
    PROVE  IInv'
  <1> USE DEF IInv, Store, block
  <1>1. TypeOK'
    BY OverwrittenType DEF TypeOK
  <1>2. \A t \in Temps : getTemp(t)' = getTemp(t) /\ ShadowOf(t)' = ShadowOf(t)
    BY DEF getTemp, IsCurrent, ShadowOf, Rep
  <1>3. VersionsBehind' /\ UnassignedIsFresh' /\ AliasesAreRoots'
            /\ OffMeansNone' /\ NumberedFromOne'
    BY <1>2 DEF NumberedFromOne, VersionsBehind, UnassignedIsFresh, AliasesAreRoots, OffMeansNone
  <1>4. RegisterAliasAgrees' /\ NoShadowInIP'
    BY <1>2 DEF RegisterAliasAgrees, NoShadowInIP, Contents, TypeOK
  <1> QED
    BY <1>1, <1>3, <1>4

(* No cell is current when a superblock has just started. *)
LEMMA EnterPreserves ==
    ASSUME IInv, NEW th \in Threads, EnterSB(th)
    PROVE  IInv' /\ \A t \in Temps : getTemp(t)' = NoShadow
  <1> USE DEF IInv, EnterSB, block, shadows
  <1>1. TypeOK'
    <2>1. tmpInstead' \in [Temps -> Args] /\ tmpInReg' \in [Regs -> Args]
      OBVIOUS
    <2>2. sbExecuted' \in 0 .. MaxSB
      BY BoundsAssumption DEF TypeOK
    <2> QED
      BY <2>1, <2>2 DEF TypeOK
  <1>2. \A t \in Temps : localTemps[t].version \in Nat /\ localTemps[t].version < sbExecuted'
    BY VersionAssumption DEF VersionsBehind, TypeOK, TempCell
  <1>3. \A t \in Temps : getTemp(t)' = NoShadow
    BY <1>2 DEF getTemp, IsCurrent, TypeOK
  <1>4. VersionsBehind'
    BY <1>2 DEF VersionsBehind, TypeOK
  <1>5. NumberedFromOne'
    BY DEF NumberedFromOne, TypeOK
  <1>6. UnassignedIsFresh' /\ AliasesAreRoots' /\ OffMeansNone'
    BY <1>3 DEF UnassignedIsFresh, AliasesAreRoots, OffMeansNone
  <1>7. RegisterAliasAgrees' /\ NoShadowInIP'
    BY DEF RegisterAliasAgrees, NoShadowInIP
  <1> QED
    BY <1>1, <1>3, <1>4, <1>5, <1>6, <1>7

LEMMA RequestPreserves ==
    ASSUME IInv, resetShadowValues \/ beginAnalyzing \/ endAnalyzing
    PROVE  IInv'
  <1> USE DEF IInv, Request, shadows
  <1>1. CASE resetShadowValues
    <2>1. localTemps' \in [Temps -> TempCell]
      <3>1. \A c \in TempCell : [c EXCEPT !.version = 0] \in TempCell
        BY VersionAssumption DEF TempCell
      <3> QED
        BY <1>1, <3>1 DEF resetShadowValues, TypeOK
    <2>2. \A c \in Cell : [c EXCEPT !.active = FALSE] \in Cell
      BY DEF Cell
    <2>3. threadRegisters' \in [Threads -> [RegFile -> Cell]]
      BY <1>1, <2>2 DEF resetShadowValues, TypeOK
    <2>4. globalMemory' \in [Addrs -> Cell]
      BY <1>1, <2>2 DEF resetShadowValues, TypeOK
    <2>5. TypeOK'
      BY <1>1, <2>1, <2>3, <2>4 DEF resetShadowValues, TypeOK
    <2>6. VersionsBehind'
      BY <1>1 DEF resetShadowValues, TypeOK, TempCell, VersionsBehind
    <2>7. NoShadowInIP'
      <3>1. \A th \in Threads : threadRegisters'[th][IPReg].active = FALSE
        BY <1>1, RegsAssumption DEF resetShadowValues, TypeOK, Cell
      <3> QED
        BY <3>1 DEF NoShadowInIP
    <2> QED
      BY <1>1, <2>5, <2>6, <2>7
         DEF resetShadowValues, UnassignedIsFresh, AliasesAreRoots,
             OffMeansNone, RegisterAliasAgrees, NumberedFromOne
  <1>2. CASE beginAnalyzing \/ endAnalyzing
    BY <1>2, IgnoreEndAssumption
       DEF beginAnalyzing, endAnalyzing, TypeOK, VersionsBehind,
           UnassignedIsFresh, AliasesAreRoots, OffMeansNone,
           RegisterAliasAgrees, NoShadowInIP, NumberedFromOne
  <1> QED
    BY <1>1, <1>2

-----------------------------------------------------------------------------
LEMMA InitEstablishes == Init => IInv
  <1> SUFFICES ASSUME Init PROVE IInv
    OBVIOUS
  <1>1. TypeOK
    <2>1. NoShadow \in Shadow
      BY DEF NoShadow, Shadow
    <2>2. NoCell \in Cell /\ [version |-> 0, sv |-> NoShadow] \in TempCell
      BY <2>1, VersionAssumption DEF NoCell, Cell, TempCell
    <2>3. tmpInstead \in [Temps -> Args] /\ tmpInReg \in [Regs -> Args]
      BY DEF Init
    <2>4. /\ localTemps \in [Temps -> TempCell]
          /\ threadRegisters \in [Threads -> [RegFile -> Cell]]
          /\ globalMemory \in [Addrs -> Cell]
      BY <2>2 DEF Init
    <2>5. sbExecuted \in 0 .. MaxSB /\ fpOps \in 0 .. MaxOps
      BY BoundsAssumption DEF Init
    <2> QED
      BY <2>3, <2>4, <2>5 DEF Init, TypeOK
  <1>2. NoShadowInIP
    BY RegsAssumption DEF Init, NoShadowInIP, NoCell
  <1> QED
    BY <1>1, <1>2 DEF Init, IInv, VersionsBehind, UnassignedIsFresh,
       AliasesAreRoots, OffMeansNone, RegisterAliasAgrees, NumberedFromOne

LEMMA StepPreserves == IInv /\ [Next]_vars => IInv'
  <1> SUFFICES ASSUME IInv, [Next]_vars PROVE IInv'
    OBVIOUS
  <1>1. CASE \E th \in Threads : EnterSB(th)
    BY <1>1, EnterPreserves
  <1>2. CASE \E w \in Temps : Assignment(w)
    BY <1>2, AssignmentEffect, AliasPreserves, ShadowPreserves
       DEF ReceiveStep, ComputeStep
  <1>3. CASE \E a \in Args : Write(a)
    BY <1>3, PutPreserves, PutIPreserves, StorePreserves DEF Write
  <1>4. CASE resetShadowValues \/ beginAnalyzing \/ endAnalyzing
    BY <1>4, RequestPreserves
  <1>5. CASE UNCHANGED vars
    BY <1>5 DEF vars, block, shadows, IInv, TypeOK, VersionsBehind,
       UnassignedIsFresh, AliasesAreRoots, OffMeansNone, RegisterAliasAgrees,
       NoShadowInIP, NumberedFromOne, ShadowOf, Rep, getTemp, IsCurrent, Contents
  <1> QED
    BY <1>1, <1>2, <1>3, <1>4, <1>5 DEF Next

(* The invariant of the shadow machine: shadow cells left over from an     *)
(* earlier superblock are never read, and an alias that the forward pass   *)
(* uses instead of a call finds what the call would have found.            *)
THEOREM MachineInvariant == Spec => []IInv
  BY InitEstablishes, StepPreserves, PTL DEF Spec

-----------------------------------------------------------------------------
(* Refinement: each step of the machine is a step of the shadow map or     *)
(* leaves it alone.                                                        *)

LEMMA InitMaps == Init => Map!Init
  <1> SUFFICES ASSUME Init PROVE Map!Init
    OBVIOUS
  <1>1. \A t \in Temps : ShadowOf(t) = NoShadow
    BY NoTmpAssumption DEF Init, ShadowOf, Rep, getTemp, IsCurrent
  <1> QED
    BY <1>1 DEF Init, Map!Init, tmpShadows, regShadows, memShadows, Contents,
       NoCell, NoShadow, Map!NoShadow

LEMMA EnterMaps ==
    ASSUME IInv, NEW th \in Threads, EnterSB(th)
    PROVE  Map!EnterSB(th)
  <1>1. \A t \in Temps : ShadowOf(t)' = NoShadow
    BY EnterPreserves DEF EnterSB, ShadowOf, Rep
  <1>2. tmpShadows' = [t \in Temps |-> NoShadow]
    BY <1>1 DEF tmpShadows
  <1> QED
    BY <1>2 DEF EnterSB, Map!EnterSB, regShadows, memShadows, Contents,
       shadows, NoShadow, Map!NoShadow

(* An alias hands w the shadow value of the temporary it stands for. *)
LEMMA AliasMaps ==
    ASSUME IInv, NEW w \in Temps, NEW x, AliasStep(w, x)
    PROVE  Map!Next \/ UNCHANGED Map!vars
  <1> USE DEF IInv, AliasStep, Assigns, block
  <1>1. \A t \in Temps : getTemp(t)' = getTemp(t)
    BY DEF getTemp, IsCurrent
  <1>2. \A t \in Temps \ {w} : ShadowOf(t)' = ShadowOf(t)
    BY <1>1 DEF ShadowOf, Rep, getTemp, IsCurrent, TypeOK
  <1>3. UNCHANGED <<analyze, tid, regShadows, memShadows, fpOps>>
    BY DEF regShadows, memShadows, Contents
  <1>4. CASE x = NoTmp
    <2>1. ShadowOf(w) = NoShadow /\ ShadowOf(w)' = NoShadow
      BY <1>1, <1>4 DEF UnassignedIsFresh, ShadowOf, Rep, TypeOK, getTemp, IsCurrent
    <2>2. tmpShadows' = tmpShadows
      BY <1>2, <2>1 DEF tmpShadows
    <2> QED
      BY <1>3, <2>2 DEF Map!vars
  <1>5. CASE x # NoTmp
    <2>1. x \in Temps /\ ShadowOf(x) = getTemp(x)
      BY <1>5 DEF ShadowOf, Rep
    <2>2. ShadowOf(w)' = getTemp(x)
      <3>1. Rep(w)' = x
        BY <1>5 DEF Rep, TypeOK
      <3> QED
        BY <1>1, <2>1, <3>1 DEF ShadowOf, getTemp, IsCurrent
    <2>3. tmpShadows' = [tmpShadows EXCEPT ![w] = tmpShadows[x]]
      BY <1>2, <2>1, <2>2 DEF tmpShadows
    <2>4. Map!CopyTemp(w, x)
      BY <1>3, <2>3 DEF Map!CopyTemp, Map!Receive
    <2> QED
      BY <2>1, <2>4 DEF Map!Next
  <1> QED
    BY <1>4, <1>5

(* A shadow value that w is given is found in w, unless the number of the  *)
(* superblock does not fit the version.                                    *)
LEMMA ShadowMaps ==
    ASSUME MaxSB < VersionMod, IInv, NEW w \in Temps, NEW s, ShadowStep(w, s)
    PROVE  /\ tmpShadows' = [tmpShadows EXCEPT ![w] = s]
           /\ UNCHANGED <<tid, analyze, regShadows, memShadows>>
  <1> USE DEF IInv, ShadowStep, Assigns, block, NoAlias, setTemp
  <1>1. sbExecuted % VersionMod = sbExecuted
    BY Truncation, BoundsAssumption, VersionAssumption DEF TypeOK
  <1>2. getTemp(w)' = s
    BY <1>1 DEF getTemp, IsCurrent, TypeOK
  <1>3. \A t \in Temps \ {w} : getTemp(t)' = getTemp(t)
    BY DEF getTemp, IsCurrent, TypeOK
  <1>4. ShadowOf(w)' = s
    BY <1>2 DEF ShadowOf, Rep, UnassignedIsFresh, getTemp, IsCurrent
  <1>5. \A t \in Temps \ {w} : ShadowOf(t)' = ShadowOf(t)
    <2> TAKE t \in Temps \ {w}
    <2>1. Rep(t) \in Temps \ {w} /\ Rep(t)' = Rep(t)
      BY DEF Rep, AliasesAreRoots, TypeOK
    <2>2. getTemp(Rep(t))' = getTemp(Rep(t))
      BY <1>3, <2>1 DEF getTemp, IsCurrent
    <2> QED
      BY <2>2 DEF ShadowOf
  <1> QED
    BY <1>4, <1>5 DEF tmpShadows, regShadows, memShadows, Contents

LEMMA AssignmentMaps ==
    ASSUME MaxSB < VersionMod, IInv, NEW w \in Temps, Assignment(w)
    PROVE  Map!Next \/ UNCHANGED Map!vars
  <1>1. CASE \E x : AliasStep(w, x)
    BY <1>1, AliasMaps
  <1>2. CASE ReceiveStep(w)
    <2> PICK s \in Sources : ShadowStep(w, s) /\ UNCHANGED fpOps
      BY <1>2 DEF ReceiveStep
    <2>1. analyze
      BY DEF ShadowStep
    <2>2. Map!Receive(w, s)
      BY ShadowMaps DEF Map!Receive
    <2>3. CASE \E r \in RegFile : s = regShadows[tid][r]
      BY <2>1, <2>2, <2>3 DEF Map!Next, Map!Get
    <2>4. CASE \E a \in Addrs : s = memShadows[a]
      BY <2>1, <2>2, <2>4 DEF Map!Next, Map!Load
    <2>5. CASE \E t \in Temps : s = ShadowOf(t)
      <3>1. PICK t \in Temps : s = ShadowOf(t)
        BY <2>5
      <3>2. Map!CopyTemp(w, t)
        BY <2>2, <3>1 DEF Map!CopyTemp, tmpShadows
      <3> QED
        BY <3>2 DEF Map!Next
    <2> QED
      BY <2>3, <2>4, <2>5 DEF Sources
  <1>3. CASE ComputeStep(w)
    <2> PICK s1 \in OperandShadows, s2 \in OperandShadows :
            ShadowStep(w, Result(s1, s2)) /\ fpOps' = fpOps + 1
      BY <1>3 DEF ComputeStep
    <2>1. OperandShadows = Map!Operands
      BY DEF OperandShadows, Map!Operands, NoShadow, Map!NoShadow, tmpShadows
    <2>2. Result(s1, s2) = Map!Result(fpOps', s1, s2)
      BY DEF Result, Map!Result, MaxCount, Map!MaxCount
    <2>3. Map!Compute(w, s1, s2)
      BY <2>2, ShadowMaps DEF Map!Compute, ShadowStep
    <2> QED
      BY <2>1, <2>3 DEF Map!Next
  <1> QED
    BY <1>1, <1>2, <1>3, AssignmentEffect

LEMMA WriteMaps ==
    ASSUME IInv, NEW a \in Args, Write(a)
    PROVE  Map!Next \/ UNCHANGED Map!vars
  <1> USE DEF IInv, block
  <1>0. tmpShadows' = tmpShadows
    BY DEF Write, Put, PutI, Store, tmpShadows, ShadowOf, Rep, getTemp, IsCurrent
  <1>1. ArgShadow(a) \in Map!Operands
    BY OperandsAreShadows
       DEF OperandShadows, Map!Operands, NoShadow, Map!NoShadow, tmpShadows
  <1>2. \A cell \in Cell :
            Contents(Overwritten(cell, a)) = Map!Written(ArgShadow(a))
    BY OverwrittenContents DEF Map!Written, NoShadow, Map!NoShadow
  <1>3. ASSUME NEW r \in RegFile,
               threadRegisters' = [threadRegisters EXCEPT ![tid][r] = Overwritten(@, a)],
               UNCHANGED <<analyze, tid, globalMemory, fpOps>>
        PROVE  Map!Put(r, ArgShadow(a))
    <2>1. /\ threadRegisters[tid][r] \in Cell
          /\ threadRegisters'[tid][r] = Overwritten(threadRegisters[tid][r], a)
          /\ \A th \in Threads, q \in RegFile : th # tid \/ q # r =>
                threadRegisters'[th][q] = threadRegisters[th][q]
      BY <1>3 DEF TypeOK
    <2>2. regShadows' = [regShadows EXCEPT ![tid][r] = Map!Written(ArgShadow(a))]
      <3>1. Contents(threadRegisters'[tid][r]) = Map!Written(ArgShadow(a))
        BY <1>2, <2>1
      <3>2. \A th \in Threads, q \in RegFile : th # tid \/ q # r =>
                Contents(threadRegisters'[th][q]) = Contents(threadRegisters[th][q])
        BY <2>1 DEF Contents
      <3>3. tid \in Threads
        BY DEF TypeOK
      <3>4. regShadows' = [th \in Threads |-> [q \in RegFile |->
                                Contents(threadRegisters'[th][q])]]
        BY DEF regShadows, Contents
      <3> QED
        BY <3>1, <3>2, <3>3, <3>4 DEF regShadows
    <2> QED
      BY <1>0, <1>3, <2>2 DEF Map!Put, memShadows, Contents
  <1>4. CASE \E r \in Regs : Put(r, a)
    <2> PICK r \in Regs : Put(r, a)
      BY <1>4
    <2>1. CASE r = IPReg
      BY <1>0, <2>1 DEF Put, Map!vars, regShadows, memShadows, Contents
    <2>2. CASE r # IPReg
      BY <1>1, <1>3, <2>2 DEF Put, Map!Next
    <2> QED
      BY <2>1, <2>2
  <1>5. CASE \E r \in CircRegs : PutI(r, a)
    BY <1>1, <1>3, <1>5 DEF PutI, Map!Next
  <1>6. CASE \E addr \in Addrs : Store(addr, a)
    <2> PICK addr \in Addrs : Store(addr, a)
      BY <1>6
    <2>1. memShadows' = [memShadows EXCEPT ![addr] = Map!Written(ArgShadow(a))]
      BY <1>2 DEF Store, memShadows, Contents, TypeOK
    <2>2. Map!Store(addr, ArgShadow(a))
      BY <1>0, <2>1 DEF Store, Map!Store, regShadows, Contents
    <2> QED
      BY <1>1, <2>2 DEF Map!Next
  <1> QED
    BY <1>4, <1>5, <1>6 DEF Write

LEMMA RequestMaps ==
    ASSUME IInv, resetShadowValues \/ beginAnalyzing \/ endAnalyzing
    PROVE  Map!Next
  <1> USE DEF IInv, Request, shadows
  <1>1. CASE resetShadowValues
    <2>1. \A t \in Temps : ShadowOf(t)' = NoShadow
      <3>1. \A t \in Temps : localTemps'[t].version = 0 /\ sbExecuted' # 0
        BY <1>1 DEF resetShadowValues, NumberedFromOne, TypeOK, TempCell
      <3>2. \A t \in Temps : getTemp(t)' = NoShadow
        BY <3>1 DEF getTemp, IsCurrent
      <3> QED
        BY <1>1, <3>2 DEF resetShadowValues, ShadowOf, Rep, TypeOK, getTemp, IsCurrent
    <2>2. \A th \in Threads, r \in RegFile : threadRegisters'[th][r].active = FALSE
      BY <1>1 DEF resetShadowValues, TypeOK, Cell
    <2>3. \A a \in Addrs : globalMemory'[a].active = FALSE
      BY <1>1 DEF resetShadowValues, TypeOK, Cell
    <2>4. Map!Reset
      BY <1>1, <2>1, <2>2, <2>3
         DEF resetShadowValues, Map!Reset, tmpShadows, regShadows, memShadows,
             Contents, NoShadow, Map!NoShadow
    <2> QED
      BY <2>4 DEF Map!Next
  <1>2. CASE beginAnalyzing
    BY <1>2 DEF beginAnalyzing, Map!Begin, Map!Next, tmpShadows, regShadows,
       memShadows, Contents, ShadowOf, Rep, getTemp, IsCurrent
  <1>3. CASE endAnalyzing
    BY <1>3 DEF endAnalyzing, Map!End, Map!Next, tmpShadows, regShadows,
       memShadows, Contents, ShadowOf, Rep, getTemp, IsCurrent
  <1> QED
    BY <1>1, <1>2, <1>3

(* The shadow machine implements the shadow map as long as the number of a *)
(* superblock fits the version of a shadow value: what the tool attaches   *)
(* to temporaries, registers and addresses is what the data flow of the    *)
(* guest calls for.                                                        *)
THEOREM Refinement ==
    ASSUME MaxSB < VersionMod
    PROVE  Spec => MapSpec
  <1>1. IInv /\ [Next]_vars => [Map!Next]_Map!vars
    <2> SUFFICES ASSUME IInv, [Next]_vars
                 PROVE  Map!Next \/ UNCHANGED Map!vars
      OBVIOUS
    <2>1. CASE \E th \in Threads : EnterSB(th)
      BY <2>1, EnterMaps DEF Map!Next
    <2>2. CASE \E w \in Temps : Assignment(w)
      BY <2>2, AssignmentMaps
    <2>3. CASE \E a \in Args : Write(a)
      BY <2>3, WriteMaps
    <2>4. CASE resetShadowValues \/ beginAnalyzing \/ endAnalyzing
      BY <2>4, RequestMaps
    <2>5. CASE UNCHANGED vars
      BY <2>5 DEF vars, block, shadows, Map!vars, tmpShadows, regShadows,
         memShadows, Contents, ShadowOf, Rep, getTemp, IsCurrent
    <2> QED
      BY <2>1, <2>2, <2>3, <2>4, <2>5 DEF Next
  <1> QED
    BY <1>1, InitMaps, MachineInvariant, PTL DEF Spec, MapSpec, Map!Spec

-----------------------------------------------------------------------------
(* Operation counts. *)

(* Every shadow value that an operand can have is counted. *)
LEMMA SourcesCounted ==
    ASSUME IInv, CountsArePaths
    PROVE  /\ \A s \in Sources \cup OperandShadows : Counted(s)
           /\ \A a \in Args : Counted(ArgShadow(a))
  <1> USE DEF IInv
  <1>1. Counted(NoShadow)
    BY DEF Counted, NoShadow, TypeOK
  <1>2. \A t \in Temps : Counted(ShadowOf(t)) /\ Counted(getTemp(t))
    BY <1>1, LookupTypes DEF CountsArePaths, ShadowOf, getTemp
  <1>3. \A a \in Args : Counted(ArgShadow(a))
    BY <1>1, <1>2, LookupTypes DEF ArgShadow
  <1>4. \A th \in Threads, r \in RegFile : Counted(regShadows[th][r])
    BY <1>1 DEF CountsArePaths, regShadows, Contents
  <1>5. \A a \in Addrs : Counted(memShadows[a])
    BY <1>1 DEF CountsArePaths, memShadows, Contents
  <1> QED
    BY <1>1, <1>2, <1>3, <1>4, <1>5 DEF Sources, OperandShadows, TypeOK

LEMMA CountsPreserved == IInv /\ CountsArePaths /\ [Next]_vars => CountsArePaths'
  <1> SUFFICES ASSUME IInv, CountsArePaths, [Next]_vars
               PROVE  CountsArePaths'
    OBVIOUS
  <1> USE DEF IInv, block, shadows
  <1>1. CASE \E th \in Threads : EnterSB(th)
    BY <1>1 DEF EnterSB, CountsArePaths, Counted
  <1>2. ASSUME NEW w \in Temps, NEW s, ShadowStep(w, s),
               fpOps <= fpOps', s.opCount <= s.id, s.id <= fpOps'
        PROVE  CountsArePaths'
    BY <1>2 DEF ShadowStep, Assigns, setTemp, CountsArePaths, Counted, TypeOK,
       TempCell, Cell, Shadow
  <1>3. CASE \E w \in Temps : Assignment(w)
    <2> PICK w \in Temps : Assignment(w)
      BY <1>3
    <2>1. CASE \E x : AliasStep(w, x)
      BY <2>1 DEF AliasStep, Assigns, CountsArePaths, Counted
    <2>2. CASE ReceiveStep(w)
      <3> PICK s \in Sources : ShadowStep(w, s) /\ UNCHANGED fpOps
        BY <2>2 DEF ReceiveStep
      <3>1. s.opCount <= s.id /\ s.id <= fpOps' /\ fpOps <= fpOps'
        <4>1. Counted(s)
          BY SourcesCounted
        <4>2. fpOps \in Nat
          BY BoundsAssumption DEF TypeOK
        <4> QED
          BY <4>1, <4>2 DEF Counted
      <3> QED
        BY <1>2, <3>1
    <2>3. CASE ComputeStep(w)
      <3> PICK s1 \in OperandShadows, s2 \in OperandShadows :
              ShadowStep(w, Result(s1, s2)) /\ fpOps' = fpOps + 1
        BY <2>3 DEF ComputeStep
      <3>1. s1 \in Shadow /\ s2 \in Shadow /\ Counted(s1) /\ Counted(s2)
        BY SourcesCounted, OperandsAreShadows
      <3>2. /\ Result(s1, s2).opCount <= Result(s1, s2).id
            /\ Result(s1, s2).id = fpOps + 1
        BY <3>1 DEF Result, MaxCount, Counted, Shadow, TypeOK
      <3>3. fpOps \in Nat
        BY BoundsAssumption DEF TypeOK
      <3> QED
        BY <1>2, <3>2, <3>3
    <2> QED
      BY <2>1, <2>2, <2>3, AssignmentEffect
  <1>4. CASE \E a \in Args : Write(a)
    <2> PICK a \in Args : Write(a)
      BY <1>4
    <2>1. \A cell \in Cell : Counted(cell.sv) => Counted(Overwritten(cell, a).sv)
      BY SourcesCounted DEF Overwritten, Cell
    <2>2. UNCHANGED <<localTemps, fpOps>>
      BY DEF Write, Put, PutI, Store
    <2>3. \A th \in Threads, q \in RegFile : Counted(threadRegisters'[th][q].sv)
      BY <2>1 DEF Write, Put, PutI, Store, CountsArePaths, TypeOK
    <2>4. \A addr \in Addrs : Counted(globalMemory'[addr].sv)
      BY <2>1 DEF Write, Put, PutI, Store, CountsArePaths, TypeOK
    <2> QED
      BY <2>2, <2>3, <2>4 DEF CountsArePaths, Counted
  <1>5. CASE resetShadowValues
    <2>1. /\ \A t \in Temps : localTemps'[t].sv = localTemps[t].sv
          /\ \A a \in Addrs : globalMemory'[a].sv = globalMemory[a].sv
      BY <1>5 DEF resetShadowValues, TypeOK, TempCell, Cell
    <2>2. \A th \in Threads, r \in RegFile :
              threadRegisters'[th][r].sv = threadRegisters[th][r].sv
      <3> TAKE th \in Threads, r \in RegFile
      <3>1. threadRegisters'[th][r] = [threadRegisters[th][r] EXCEPT !.active = FALSE]
        BY <1>5 DEF resetShadowValues
      <3>2. threadRegisters[th][r] \in Cell
        BY DEF IInv, TypeOK
      <3> QED BY <3>1, <3>2 DEF Cell
    <2>3. fpOps' = fpOps
      BY <1>5 DEF resetShadowValues, Request
    <2> QED
      BY <2>1, <2>2, <2>3 DEF CountsArePaths, Counted
  <1>6. CASE beginAnalyzing \/ endAnalyzing
    BY <1>6 DEF beginAnalyzing, endAnalyzing, Request, shadows, CountsArePaths, Counted
  <1>7. CASE UNCHANGED vars
    BY <1>7 DEF vars, CountsArePaths, Counted
  <1> QED
    BY <1>1, <1>3, <1>4, <1>5, <1>6, <1>7 DEF Next

(* No shadow value counts more operations than were executed up to the one *)
(* that computed it, in cells that are current and in cells that are not.  *)
THEOREM CountsBounded == Spec => []CountsArePaths
  <1>1. Init => CountsArePaths
    BY DEF Init, CountsArePaths, Counted, NoCell, NoShadow
  <1> QED
    BY <1>1, CountsPreserved, MachineInvariant, PTL DEF Spec

-----------------------------------------------------------------------------
(* The keys of the registers that computed accesses reach (CircularIndex). *)

(* Every key is less than nElems away from base, below it for a negative   *)
(* sum: tl_assert(offset >= 0) holds for an array that does not start      *)
(* among the first bytes of the register file.                             *)
THEOREM KeyNearBase ==
    ASSUME NEW base \in Int, NEW sum \in Int
    PROVE  /\ Key(base, sum) \in base - nElems + 1 .. base + nElems - 1
           /\ sum < 0 => Key(base, sum) <= base
  BY DEF Key, Remainder, nElems

(* The registers of a stack are at nElems consecutive sums, from its top   *)
(* on, and a register keeps its sum while others are pushed and popped: no *)
(* two of them share a key, also where the sums change their sign.         *)
THEOREM StackRegistersApart ==
    ASSUME NEW base \in Int, NEW top \in Int,
           NEW s1 \in top .. top + nElems - 1, NEW s2 \in top .. top + nElems - 1,
           Key(base, s1) = Key(base, s2)
    PROVE  s1 = s2
  <1>1. s1 \in Int /\ s2 \in Int /\ s1 - s2 < 8 /\ s2 - s1 < 8
    BY DEF nElems
  <1>2. Remainder(s1) = Remainder(s2)
    BY <1>1 DEF Key, Remainder, nElems
  <1>3. CASE s1 >= 0 /\ s2 >= 0
    BY <1>1, <1>2, <1>3 DEF Remainder, nElems
  <1>4. CASE s1 < 0 /\ s2 < 0
    BY <1>1, <1>2, <1>4 DEF Remainder, nElems
  <1>5. CASE s1 < 0 /\ s2 >= 0
    BY <1>1, <1>2, <1>5 DEF Remainder, nElems
  <1>6. CASE s1 >= 0 /\ s2 < 0
    BY <1>1, <1>2, <1>6 DEF Remainder, nElems
  <1> QED BY <1>1, <1>3, <1>4, <1>5, <1>6

(* An element that is reached once by a negative and once by another sum   *)
(* has two keys, unless it is the first of the array: its shadow value is  *)
(* not found, and an overwritten one is not made inactive.                 *)
THEOREM SignsSeparate ==
    ASSUME NEW base \in Int, NEW s1 \in Int, NEW s2 \in Int, s1 < 0, s2 >= 0,
           Element(s1) = Element(s2), Element(s1) # 0
    PROVE  Key(base, s1) # Key(base, s2)
  <1>1. Remainder(s2) > 0
    BY DEF Remainder, Element, nElems
  <1>2. Remainder(s1) <= 0
    BY DEF Remainder, nElems
  <1>3. Remainder(s1) \in Int /\ Remainder(s2) \in Int
    BY DEF Remainder, nElems
  <1> QED BY <1>1, <1>2, <1>3 DEF Key

=============================================================================
