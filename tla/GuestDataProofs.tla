---------------------------- MODULE GuestDataProofs ----------------------------
(***************************************************************************)
(* Proof that the shadow values follow the guest's data: the shadow value  *)
(* found is that of the operation that computed the data, or there is      *)
(* none, as the history of the data says, for every set of temporaries,    *)
(* registers, addresses, threads, overlaps and events.                     *)
(***************************************************************************)
EXTENDS GuestData, SuperblockProofs

USE DEF RegFile, Args

(* Faithful says nothing of the instruction pointer, which an alias can be *)
(* read from: its data is followed too, and no temporary that was put      *)
(* there has a shadow value.                                               *)
TempsFollow == inSB => \A t \in defined : Follows(ShadowOf(t), gTmp[t])
RegsFollow ==
    \A th \in Threads, r \in RegFile :
        Follows(Contents(threadRegisters[th][r]), gReg[th][r])
MemoryFollows == \A a \in Addrs : Follows(Contents(globalMemory[a]), gMem[a])
NoAliasInIP ==
    inSB => \A t \in Temps : tmpInReg[IPReg] = t => ShadowOf(t).id = 0

GuestTypes ==
    /\ gTmp \in [Temps -> Datum]
    /\ gReg \in [Threads -> [RegFile -> Datum]]
    /\ gMem \in [Addrs -> Datum]
    /\ frame \in [Threads -> [RegFile -> Nat] \cup {NoFrame}]

FollowInv ==
    /\ GuestTypes
    /\ TempsFollow
    /\ RegsFollow
    /\ MemoryFollows
    /\ NoAliasInIP

LEMMA FollowImpliesGuestInv == IInv /\ FollowInv => GuestInv
  BY DEF IInv, FollowInv, GuestInv, GuestTypeOK, GuestTypes, Faithful, ForAllLocations,
     TempsFollow, RegsFollow, MemoryFollows

-----------------------------------------------------------------------------
(* What can become of data. *)
LEMMA DataTypes ==
    /\ Plain \in Datum
    /\ \A d \in Datum : d.id \in Nat /\ Lost(d) \in Datum /\ Moved(d) \in Datum
    /\ \A d \in Datum, id \in Nat : Unnoticed(d, id) \in Datum
    /\ GuestTypes => \A a \in Args : Data(a) \in Datum
  BY DEF Plain, Datum, Lost, Unnoticed, Moved, Data, GuestTypes

LEMMA DataFollowed ==
    /\ Follows(NoShadow, Plain)
    /\ \A d \in Datum : Follows(NoShadow, Lost(d))
    /\ \A sv \in Shadow, d \in Datum, id \in Nat :
            Follows(sv, d) => Follows(sv, Unnoticed(d, id))
    /\ \A sv \in Shadow, d \in Datum : Follows(sv, d) =>
            Follows(IF analyze THEN sv ELSE NoShadow, Moved(d))
  BY DEF Follows, Plain, Datum, Lost, Unnoticed, Moved, NoShadow

-----------------------------------------------------------------------------
(* Assignments: w gets the shadow value s. *)
Gets(w, s) ==
    /\ Assigns(w)
    /\ tmpShadows' = [tmpShadows EXCEPT ![w] = s]

LEMMA AliasGets ==
    ASSUME IInv, NEW w \in Temps, NEW x, AliasStep(w, x)
    PROVE  Gets(w, IF x = NoTmp THEN NoShadow ELSE ShadowOf(x))
  <1> USE DEF IInv, AliasStep, Assigns, block
  <1>1. \A t \in Temps : getTemp(t)' = getTemp(t)
    BY DEF getTemp, IsCurrent
  <1>2. \A t \in Temps \ {w} : ShadowOf(t)' = ShadowOf(t)
    BY <1>1 DEF ShadowOf, Rep, getTemp, IsCurrent, TypeOK
  <1>3. ShadowOf(w)' = IF x = NoTmp THEN NoShadow ELSE ShadowOf(x)
    <2>1. CASE x = NoTmp
      BY <1>1, <2>1 DEF UnassignedIsFresh, ShadowOf, Rep, TypeOK, getTemp, IsCurrent
    <2>2. CASE x # NoTmp
      <3>1. Rep(w)' = x /\ Rep(x) = x /\ x \in Temps
        BY <2>2 DEF Rep, TypeOK
      <3> QED
        BY <1>1, <2>2, <3>1 DEF ShadowOf, getTemp, IsCurrent
    <2> QED
      BY <2>1, <2>2
  <1> QED
    BY <1>2, <1>3 DEF Gets, tmpShadows

LEMMA NothingGets ==
    ASSUME IInv, NEW w \in Temps, Assigns(w), NoAlias, NoShadowChange
    PROVE  Gets(w, NoShadow)
  <1>1. AliasStep(w, NoTmp)
    BY DEF IInv, AliasStep, Assigns, NoAlias, NoShadowChange, UnassignedIsFresh, TypeOK
  <1> QED
    BY <1>1, AliasGets

LEMMA CopyGets ==
    ASSUME IInv, NEW w \in Temps, NEW t \in defined, Assigns(w), Alias(w, t), NoShadowChange
    PROVE  Gets(w, ShadowOf(t))
  <1>1. AliasStep(w, Rep(t)) /\ Rep(t) # NoTmp
    BY NoTmpAssumption
       DEF IInv, AliasStep, Alias, Rep, NoShadowChange, AliasesAreRoots, TypeOK
  <1>2. ShadowOf(Rep(t)) = ShadowOf(t)
    BY DEF IInv, ShadowOf, Rep, AliasesAreRoots, TypeOK
  <1> QED
    BY <1>1, <1>2, AliasGets

LEMMA FetchGets ==
    ASSUME MaxSB < VersionMod, IInv, NEW w \in Temps, NEW cell \in Cell,
           Assigns(w), Fetch(w, cell)
    PROVE  Gets(w, IF analyze THEN Contents(cell) ELSE NoShadow)
  <1>1. CASE analyze /\ cell.active
    <2>1. ShadowStep(w, cell.sv)
      BY <1>1 DEF IInv, ShadowStep, Fetch, Cell, TypeOK
    <2> QED
      BY <1>1, <2>1, ShadowMaps DEF Gets, Contents
  <1>2. CASE ~(analyze /\ cell.active)
    BY <1>2, NothingGets DEF Fetch, NoShadowChange, Contents
  <1> QED
    BY <1>1, <1>2

LEMMA OperationGets ==
    ASSUME MaxSB < VersionMod, IInv, NEW w \in Temps, NEW a1 \in Args, NEW a2 \in Args,
           NEW s2 \in {NoShadow, ArgShadow(a2)},
           Assigns(w), Operation(w, ArgShadow(a1), s2)
    PROVE  Gets(w, IF analyze THEN Result(ArgShadow(a1), s2) ELSE NoShadow)
  <1>1. CASE analyze
    <2>1. ArgShadow(a1) \in Shadow /\ s2 \in Shadow
      BY LookupTypes DEF IInv
    <2>2. Result(ArgShadow(a1), s2) \in Shadow
      BY <2>1 DEF IInv, Result, MaxCount, Shadow, TypeOK
    <2>3. fpOps' \in 0 .. MaxOps
      BY <1>1, BoundsAssumption DEF IInv, Operation, TypeOK
    <2>4. ShadowStep(w, Result(ArgShadow(a1), s2))
      BY <1>1, <2>2, <2>3 DEF ShadowStep, Operation
    <2> QED
      BY <1>1, <2>4, ShadowMaps DEF Gets
  <1>2. CASE ~analyze
    BY <1>2, NothingGets DEF Operation
  <1> QED
    BY <1>1, <1>2

LEMMA Mux0XGets ==
    ASSUME MaxSB < VersionMod, IInv, NEW w \in Temps, NEW a \in Args, Mux0X(w, a)
    PROVE  Gets(w, IF analyze THEN ArgShadow(a) ELSE NoShadow)
  <1>1. CASE analyze /\ ArgShadow(a) # NoShadow
    <2>1. ShadowStep(w, ArgShadow(a))
      BY <1>1, LookupTypes DEF IInv, ShadowStep, Mux0X, TypeOK
    <2> QED
      BY <1>1, <2>1, ShadowMaps DEF Gets, Mux0X
  <1>2. CASE ~(analyze /\ ArgShadow(a) # NoShadow)
    BY <1>2, NothingGets DEF Mux0X, NoShadowChange
  <1> QED
    BY <1>1, <1>2

(* If w gets data that its shadow value follows, everything is followed.   *)
LEMMA AssignedFollows ==
    ASSUME IInv, FollowInv, NEW w \in Temps, NEW s, NEW d \in Datum,
           Gets(w, s), Holds(w, d), Follows(s, d)
    PROVE  FollowInv'
  <1> USE DEF IInv, FollowInv, Gets, Assigns, Holds, block
  <1>1. GuestTypes'
    BY DEF GuestTypes
  <1>2. ShadowOf(w)' = s /\ \A t \in Temps \ {w} : ShadowOf(t)' = ShadowOf(t)
    BY DEF tmpShadows
  <1>3. TempsFollow'
    <2> SUFFICES ASSUME NEW t \in defined'
                 PROVE  Follows(ShadowOf(t)', gTmp'[t])
      BY DEF TempsFollow
    <2>1. CASE t = w
      BY <1>2, <2>1 DEF GuestTypes
    <2>2. CASE t # w
      <3>1. t \in defined /\ t \in Temps \ {w} /\ gTmp'[t] = gTmp[t]
        BY <2>2 DEF GuestTypes, TypeOK
      <3> QED
        BY <1>2, <3>1 DEF TempsFollow
    <2> QED
      BY <2>1, <2>2
  <1>4. RegsFollow' /\ MemoryFollows'
    BY DEF RegsFollow, MemoryFollows, Contents
  <1>5. NoAliasInIP'
    <2> SUFFICES ASSUME inSB, NEW t \in Temps, tmpInReg[IPReg] = t
                 PROVE  ShadowOf(t)'.id = 0
      BY DEF NoAliasInIP
    <2>1. t \in defined /\ t # w
      BY RegsAssumption, NoTmpAssumption DEF RegisterAliasAgrees
    <2> QED
      BY <2>1, <1>2 DEF NoAliasInIP
  <1> QED
    BY <1>1, <1>3, <1>4, <1>5

(* An operand that is known finds the shadow value of its data; with the   *)
(* analysis off there is none.                                             *)
LEMMA OperandFollows ==
    ASSUME IInv, FollowInv, NEW a \in Args, inSB, Known(a)
    PROVE  /\ Data(a) \in Datum
           /\ Follows(ArgShadow(a), Data(a))
           /\ ~analyze => ArgShadow(a) = NoShadow
           /\ Follows(IF analyze THEN ArgShadow(a) ELSE NoShadow, Data(a))
  <1>1. Data(a) \in Datum
    BY DataTypes DEF FollowInv
  <1>2. Follows(ArgShadow(a), Data(a))
    <2>1. CASE a = NoTmp
      BY <2>1, DataFollowed, OperandShadow DEF Data
    <2>2. CASE a # NoTmp
      BY <2>2, OperandShadow DEF FollowInv, TempsFollow, Data, Known
    <2> QED
      BY <2>1, <2>2
  <1>3. ~analyze => ArgShadow(a) = NoShadow
    BY OperandShadow
  <1> QED
    BY <1>1, <1>2, <1>3

LEMMA AssignmentFollows ==
    ASSUME MaxSB < VersionMod, IInv, FollowInv, NEW w \in Temps, gAssignment(w)
    PROVE  Assignment(w) /\ FollowInv'
  <1> USE DEF IInv
  <1>1. GuestTypes /\ TypeOK
    BY DEF FollowInv
  <1>2. ASSUME Assigns(w), NoAlias, NoShadowChange, NEW d \in Datum, Holds(w, d), Follows(NoShadow, d)
        PROVE  FollowInv'
    BY <1>2, NothingGets, AssignedFollows
  <1>3. ASSUME NEW cell \in Cell, NEW d \in Datum, Follows(Contents(cell), d),
               Assigns(w), Fetch(w, cell), Holds(w, Moved(d))
        PROVE  FollowInv'
    <2>1. Gets(w, IF analyze THEN Contents(cell) ELSE NoShadow)
      BY <1>3, FetchGets
    <2>2. Contents(cell) \in Shadow
      BY LookupTypes DEF Contents, Cell
    <2>3. Follows(IF analyze THEN Contents(cell) ELSE NoShadow, Moved(d)) /\ Moved(d) \in Datum
      BY <1>3, <2>2, DataFollowed, DataTypes
    <2> QED
      BY <1>3, <2>1, <2>3, AssignedFollows
  <1>4. ASSUME NEW t \in defined, Assigns(w), Alias(w, t), NoShadowChange,
               NEW d \in Datum, Holds(w, d), Follows(ShadowOf(t), d)
        PROVE  FollowInv'
    BY <1>4, CopyGets, AssignedFollows
  <1>5. \A t \in defined : inSB => gTmp[t] \in Datum /\ Follows(ShadowOf(t), gTmp[t])
    BY <1>1 DEF FollowInv, TempsFollow, GuestTypes, TypeOK
  <1>6. CASE Opaque(w) /\ Holds(w, Plain)
    BY <1>2, <1>6, DataTypes, DataFollowed DEF Opaque, Assignment
  <1>7. CASE \E t \in Temps : Copy(w, t) /\ Holds(w, gTmp[t])
    BY <1>4, <1>5, <1>7 DEF Copy, Assigns, Assignment
  <1>8. CASE Halves(w)
    <2>1. PICK t \in Temps :
            /\ Copy(w, t)
            /\ \/ Holds(w, Unnoticed(gTmp[t], 0))
               \/ \E lo \in Args :
                    Known(lo) /\ Holds(w, Unnoticed(gTmp[t], Data(lo).id))
      BY <1>8 DEF Halves
    <2>2. t \in defined /\ gTmp[t] \in Datum /\ Follows(ShadowOf(t), gTmp[t])
      BY <1>5, <2>1 DEF Copy, Assigns
    <2>3. ShadowOf(t) \in Shadow
      BY LookupTypes DEF ShadowOf
    <2>4. PICK id \in Nat : Holds(w, Unnoticed(gTmp[t], id))
      BY <1>1, <2>1, DataTypes
    <2>5. Unnoticed(gTmp[t], id) \in Datum /\ Follows(ShadowOf(t), Unnoticed(gTmp[t], id))
      BY <2>2, <2>3, DataTypes, DataFollowed
    <2> QED
      BY <1>4, <2>1, <2>2, <2>4, <2>5 DEF Copy, Assignment
  <1>9. CASE \E t \in Temps :
                /\ RdTmp(w, t)
                /\ Holds(w, IF tmpInstead[t] = NoTmp THEN Lost(gTmp[t]) ELSE gTmp[t])
    <2> PICK t \in Temps :
            /\ RdTmp(w, t)
            /\ Holds(w, IF tmpInstead[t] = NoTmp THEN Lost(gTmp[t]) ELSE gTmp[t])
      BY <1>9
    <2>1. t \in defined /\ gTmp[t] \in Datum /\ Follows(ShadowOf(t), gTmp[t])
      BY <1>5 DEF RdTmp, Assigns
    <2>2. CASE tmpInstead[t] = NoTmp
      <3>1. NoAlias
        <4>1. tmpInstead[w] = NoTmp /\ tmpInstead \in [Temps -> Args]
          BY DEF RdTmp, Assigns, UnassignedIsFresh, TypeOK
        <4> QED
          BY <2>2, <4>1 DEF RdTmp, NoAlias
      <3> QED
        BY <1>2, <2>1, <2>2, <3>1, DataTypes, DataFollowed DEF RdTmp, Assignment
    <2>3. CASE tmpInstead[t] # NoTmp
      BY <1>4, <2>1, <2>3 DEF RdTmp, Alias, Rep, Assignment
    <2> QED
      BY <2>2, <2>3
  <1>10. CASE \E a \in Addrs : Load(w, a) /\ Holds(w, Moved(gMem[a]))
    BY <1>1, <1>3, <1>10 DEF Load, FollowInv, MemoryFollows, GuestTypes, TypeOK, Assignment
  <1>11. CASE \E a \in Addrs : LoadConst(w, a) /\ Holds(w, Lost(gMem[a]))
    <2> PICK a \in Addrs : LoadConst(w, a) /\ Holds(w, Lost(gMem[a]))
      BY <1>11
    <2>1. gMem[a] \in Datum
      BY <1>1 DEF GuestTypes
    <2> QED
      BY <1>2, <2>1, DataTypes, DataFollowed DEF LoadConst, Assignment
  <1>12. CASE \E r \in Regs : GetAliased(w, r) /\ Holds(w, gReg[tid][r])
    <2> PICK r \in Regs : GetAliased(w, r) /\ Holds(w, gReg[tid][r])
      BY <1>12
    <2>1. inSB /\ tmpInReg[r] \in defined /\ tmpInReg[r] \in Temps
      BY DEF GetAliased, Assigns, RegisterAliasAgrees, TypeOK
    <2>2. gReg[tid][r] \in Datum /\ Follows(Contents(threadRegisters[tid][r]), gReg[tid][r])
      BY <1>1 DEF FollowInv, RegsFollow, GuestTypes, TypeOK
    <2>3. Follows(ShadowOf(tmpInReg[r]), gReg[tid][r])
      <3>1. CASE r = IPReg
        <4>1. Contents(threadRegisters[tid][r]) = NoShadow
          BY <3>1 DEF NoShadowInIP, Contents, TypeOK
        <4>2. ShadowOf(tmpInReg[r]).id = 0
          BY <2>1, <3>1 DEF FollowInv, NoAliasInIP
        <4> QED
          BY <2>2, <4>1, <4>2 DEF Follows, NoShadow
      <3>2. CASE r # IPReg
        BY <2>1, <2>2, <3>2, NoTmpAssumption DEF RegisterAliasAgrees
      <3> QED
        BY <3>1, <3>2
    <2> QED
      BY <1>4, <2>1, <2>2, <2>3 DEF GetAliased, Assignment
  <1>13. ASSUME NEW r \in RegFile, Assigns(w), Fetch(w, threadRegisters[tid][r]),
                Holds(w, Moved(gReg[tid][r]))
         PROVE  FollowInv'
    BY <1>1, <1>3, <1>13 DEF FollowInv, RegsFollow, GuestTypes, TypeOK
  <1>14. CASE \E r \in Regs : Get(w, r) /\ Holds(w, Moved(gReg[tid][r]))
    BY <1>13, <1>14 DEF Get, Assignment
  <1>15. CASE \E r \in CircRegs : GetI(w, r) /\ Holds(w, Moved(gReg[tid][r]))
    BY <1>13, <1>15 DEF GetI, Assignment
  <1>16. ASSUME NEW a1 \in Args, NEW a2 \in Args, NEW s2 \in {NoShadow, ArgShadow(a2)},
                Assigns(w), Operation(w, ArgShadow(a1), s2), Holds(w, OpData)
         PROVE  FollowInv'
    <2>1. Gets(w, IF analyze THEN Result(ArgShadow(a1), s2) ELSE NoShadow)
      BY <1>16, OperationGets
    <2>2. OpData \in Datum
      BY DataTypes DEF OpData, Datum, TypeOK
    <2>3. Follows(IF analyze THEN Result(ArgShadow(a1), s2) ELSE NoShadow, OpData)
      BY DataFollowed DEF Follows, Result, OpData
    <2> QED
      BY <1>16, <2>1, <2>2, <2>3, AssignedFollows
  <1>17. CASE \E a \in Args : UnOp(w, a) /\ Holds(w, OpData)
    BY <1>16, <1>17 DEF UnOp, Assignment
  <1>18. CASE \E a1, a2 \in Args : BinOp(w, a1, a2) /\ Holds(w, OpData)
    BY <1>16, <1>18 DEF BinOp, Assignment
  <1>19. CASE \E a \in Args : Mux0X(w, a) /\ Holds(w, Data(a))
    <2> PICK a \in Args : Mux0X(w, a) /\ Holds(w, Data(a))
      BY <1>19
    <2>1. Data(a) \in Datum /\ Follows(IF analyze THEN ArgShadow(a) ELSE NoShadow, Data(a))
      BY <1>1, OperandFollows DEF Mux0X, Assigns
    <2>2. Gets(w, IF analyze THEN ArgShadow(a) ELSE NoShadow)
      BY Mux0XGets
    <2> QED
      BY <2>1, <2>2, AssignedFollows DEF Assignment
  <1> QED
    BY <1>6, <1>7, <1>8, <1>9, <1>10, <1>11, <1>12, <1>14, <1>15, <1>17, <1>18, <1>19 DEF gAssignment

-----------------------------------------------------------------------------
(* Writes: the shadow value goes where the data goes, and what overlaps    *)
(* holds data that came there unnoticed.                                   *)

LEMMA WrittenFollows ==
    ASSUME IInv, FollowInv, NEW cell \in Cell, NEW a \in Args, inSB, Known(a)
    PROVE  /\ Moved(Data(a)) \in Datum
           /\ Follows(Contents(Overwritten(cell, a)), Moved(Data(a)))
  <1>1. ArgShadow(a) \in Shadow /\ Data(a) \in Datum /\ Follows(ArgShadow(a), Data(a))
    BY LookupTypes, OperandFollows DEF IInv
  <1>2. Contents(Overwritten(cell, a)) = IF analyze THEN ArgShadow(a) ELSE NoShadow
    BY OverwrittenContents DEF IInv
  <1> QED
    BY <1>1, <1>2, DataTypes, DataFollowed

LEMMA OverwriteType ==
    ASSUME NEW S, NEW store \in [S -> Datum], NEW x \in S, NEW d \in Datum
    PROVE  /\ Overwrite(store, x, d) \in [S -> Datum]
           /\ Overwrite(store, x, d)[x] = d
           /\ \A y \in S \ {x} : 
            Overwrite(store, x, d)[y] \in {store[y], Unnoticed(store[y], 0)}
  BY DataTypes DEF Overwrite

(* No temporary changes with a write. *)
LEMMA WriteKeepsTemps ==
    ASSUME IInv, FollowInv, UNCHANGED <<inSB, defined, sbExecuted, tmpInstead, localTemps, gTmp>>
    PROVE  /\ TempsFollow'
           /\ \A t \in Temps : ShadowOf(t)' = ShadowOf(t)
  <1>1. \A t \in Temps : ShadowOf(t)' = ShadowOf(t)
    BY DEF ShadowOf, Rep, getTemp, IsCurrent
  <1> QED
    BY <1>1 DEF IInv, TypeOK, FollowInv, TempsFollow

LEMMA RegisterWriteFollows ==
    ASSUME IInv, FollowInv, NEW r \in RegFile, NEW a \in Args, inSB, Known(a),
           RegisterHolds(r, Moved(Data(a))),
           \/ threadRegisters' = [threadRegisters EXCEPT ![tid][r] = Overwritten(@, a)]
           \/ r = IPReg /\ Data(a) = Plain /\ UNCHANGED threadRegisters,
           UNCHANGED <<tid, globalMemory>>
    PROVE  GuestTypes' /\ RegsFollow' /\ MemoryFollows'
  <1> USE DEF IInv, FollowInv, RegisterHolds
  <1> DEFINE d == Moved(Data(a))
  <1>1. tid \in Threads /\ gReg \in [Threads -> [RegFile -> Datum]]
    BY DEF TypeOK, GuestTypes
  <1>2. d \in Datum
    BY DataTypes
  <1>3. /\ gReg' \in [Threads -> [RegFile -> Datum]]
        /\ gReg'[tid][r] = d
        /\ \A th \in Threads, q \in RegFile : th # tid \/ q # r =>
                gReg'[th][q] \in {gReg[th][q], Unnoticed(gReg[th][q], 0)}
    <2>1. gReg' = [gReg EXCEPT ![tid] = Overwrite(gReg[tid], r, d)]
      OBVIOUS
    <2>2. /\ Overwrite(gReg[tid], r, d) \in [RegFile -> Datum]
          /\ Overwrite(gReg[tid], r, d)[r] = d
          /\ \A q \in RegFile \ {r} :
                Overwrite(gReg[tid], r, d)[q] \in {gReg[tid][q], Unnoticed(gReg[tid][q], 0)}
      <3>1. gReg[tid] \in [RegFile -> Datum]
        BY <1>1
      <3> HIDE DEF d
      <3> QED
        BY <1>2, <3>1, OverwriteType
    <2> HIDE DEF d
    <2> QED
      BY <1>1, <2>1, <2>2
  <1>4. GuestTypes'
    BY <1>3 DEF GuestTypes
  <1>5. MemoryFollows'
    BY DEF MemoryFollows, Contents
  <1>6. ASSUME NEW th \in Threads, NEW q \in RegFile
        PROVE  Follows(Contents(threadRegisters'[th][q]), gReg'[th][q])
    <2>1. CASE th = tid /\ q = r
      <3>1. CASE threadRegisters' = [threadRegisters EXCEPT ![tid][r] = Overwritten(@, a)]
        <4>1. threadRegisters[tid][r] \in Cell
          BY DEF TypeOK
        <4>2. threadRegisters'[tid][r] = Overwritten(threadRegisters[tid][r], a)
          BY <3>1 DEF TypeOK
        <4> QED
          BY <1>3, <2>1, <4>1, <4>2, WrittenFollows
      <3>2. CASE r = IPReg /\ Data(a) = Plain /\ UNCHANGED threadRegisters
        <4>1. Contents(threadRegisters'[tid][r]) = NoShadow
          BY <3>2 DEF NoShadowInIP, Contents, TypeOK
        <4>2. Follows(NoShadow, Moved(Plain))
          BY DEF Follows, Moved, Lost, Plain, NoShadow
        <4> QED
          BY <1>3, <2>1, <3>2, <4>1, <4>2
      <3> QED
        BY <3>1, <3>2
    <2>2. CASE ~(th = tid /\ q = r)
      <3>1. threadRegisters'[th][q] = threadRegisters[th][q]
        BY <2>2 DEF TypeOK
      <3>2. Contents(threadRegisters[th][q]) \in Shadow
        BY LookupTypes DEF TypeOK, Cell, Contents
      <3>3. Follows(Contents(threadRegisters[th][q]), gReg[th][q])
        BY DEF RegsFollow
      <3>4. gReg'[th][q] \in {gReg[th][q], Unnoticed(gReg[th][q], 0)} /\ gReg[th][q] \in Datum
        BY <1>1, <1>3, <2>2
      <3> QED
        BY <3>1, <3>2, <3>3, <3>4, DataFollowed
    <2> QED
      BY <2>1, <2>2
  <1>7. RegsFollow'
    BY <1>6 DEF RegsFollow, Contents
  <1> QED
    BY <1>4, <1>5, <1>7

(* Data in memory, after the write of d to an address whose cell then has  *)
(* a shadow value that d follows.                                          *)
LEMMA MemoryWriteFollows ==
    ASSUME IInv, FollowInv, NEW addr \in Addrs, NEW d \in Datum, MemoryHolds(addr, d),
           \A b \in Addrs \ {addr} : globalMemory'[b] = globalMemory[b],
           Follows(Contents(globalMemory'[addr]), d),
           UNCHANGED threadRegisters
    PROVE  GuestTypes' /\ RegsFollow' /\ MemoryFollows'
  <1> USE DEF IInv, FollowInv, MemoryHolds
  <1>1. gMem \in [Addrs -> Datum]
    BY DEF GuestTypes
  <1>2. /\ gMem' \in [Addrs -> Datum]
        /\ gMem'[addr] = d
        /\ \A b \in Addrs \ {addr} : gMem'[b] \in {gMem[b], Unnoticed(gMem[b], 0)}
    BY <1>1, OverwriteType
  <1>3. GuestTypes'
    BY <1>2 DEF GuestTypes
  <1>4. RegsFollow'
    BY DEF RegsFollow, Contents
  <1>5. ASSUME NEW b \in Addrs \ {addr}
        PROVE  Follows(Contents(globalMemory'[b]), gMem'[b])
    <2>1. Contents(globalMemory[b]) \in Shadow
      BY LookupTypes DEF TypeOK, Cell, Contents
    <2>2. Follows(Contents(globalMemory[b]), gMem[b]) /\ gMem[b] \in Datum
      BY <1>1 DEF MemoryFollows
    <2> QED
      BY <1>2, <2>1, <2>2, DataFollowed
  <1>6. MemoryFollows'
    BY <1>2, <1>5 DEF MemoryFollows, Contents
  <1> QED
    BY <1>3, <1>4, <1>6

LEMMA WriteFollows ==
    ASSUME IInv, FollowInv, NEW a \in Args, gWrite(a)
    PROVE  Write(a) /\ FollowInv'
  <1> USE DEF IInv, block
  <1>1. CASE \E r \in Regs :
                /\ r = IPReg => Data(a) = Plain
                /\ Put(r, a)
                /\ RegisterHolds(r, Moved(Data(a)))
    <2> PICK r \in Regs :
            /\ r = IPReg => Data(a) = Plain
            /\ Put(r, a)
            /\ RegisterHolds(r, Moved(Data(a)))
      BY <1>1
    <2>1. TempsFollow' /\ \A t \in Temps : ShadowOf(t)' = ShadowOf(t)
      BY WriteKeepsTemps DEF Put, RegisterHolds
    <2>2. GuestTypes' /\ RegsFollow' /\ MemoryFollows'
      <3>1. \/ threadRegisters' = [threadRegisters EXCEPT ![tid][r] = Overwritten(@, a)]
            \/ r = IPReg /\ Data(a) = Plain /\ UNCHANGED threadRegisters
        BY DEF Put
      <3> QED
        BY <3>1, RegisterWriteFollows DEF Put
    <2>3. NoAliasInIP'
      <3> SUFFICES ASSUME NEW t \in Temps, tmpInReg'[IPReg] = t
                   PROVE  ShadowOf(t)'.id = 0
        BY DEF NoAliasInIP
      <3>1. CASE r = IPReg
        <4>1. a = t /\ Data(a) = Plain
          BY <3>1, RegsAssumption DEF Put, TypeOK
        <4>2. Follows(ShadowOf(t), Plain)
          BY <4>1, NoTmpAssumption, OperandFollows, OperandShadow DEF Put
        <4> QED
          BY <2>1, <4>2 DEF Follows, Plain
      <3>2. CASE r # IPReg
        BY <2>1, <3>2, RegsAssumption DEF Put, FollowInv, NoAliasInIP, TypeOK
      <3> QED
        BY <3>1, <3>2
    <2> QED
      BY <2>1, <2>2, <2>3 DEF FollowInv, Write
  <1>2. CASE \E r \in CircRegs : PutI(r, a) /\ RegisterHolds(r, Moved(Data(a)))
    <2> PICK r \in CircRegs : PutI(r, a) /\ RegisterHolds(r, Moved(Data(a)))
      BY <1>2
    <2>1. TempsFollow' /\ \A t \in Temps : ShadowOf(t)' = ShadowOf(t)
      BY WriteKeepsTemps DEF PutI, RegisterHolds
    <2>2. GuestTypes' /\ RegsFollow' /\ MemoryFollows'
      BY RegisterWriteFollows DEF PutI
    <2>3. NoAliasInIP'
      BY <2>1 DEF PutI, FollowInv, NoAliasInIP
    <2> QED
      BY <2>1, <2>2, <2>3 DEF FollowInv, Write
  <1>3. CASE \E addr \in Addrs : Store(addr, a) /\ MemoryHolds(addr, Moved(Data(a)))
    <2> PICK addr \in Addrs : Store(addr, a) /\ MemoryHolds(addr, Moved(Data(a)))
      BY <1>3
    <2>1. TempsFollow' /\ \A t \in Temps : ShadowOf(t)' = ShadowOf(t)
      BY WriteKeepsTemps DEF Store, MemoryHolds
    <2>2. GuestTypes' /\ RegsFollow' /\ MemoryFollows'
      <3>1. globalMemory[addr] \in Cell
        BY DEF TypeOK
      <3>2. /\ globalMemory'[addr] = Overwritten(globalMemory[addr], a)
            /\ \A b \in Addrs \ {addr} : globalMemory'[b] = globalMemory[b]
        BY DEF Store, TypeOK
      <3>3. /\ Moved(Data(a)) \in Datum
            /\ Follows(Contents(globalMemory'[addr]), Moved(Data(a)))
        BY <3>1, <3>2, WrittenFollows DEF Store
      <3> QED
        BY <3>2, <3>3, MemoryWriteFollows DEF Store
    <2>3. NoAliasInIP'
      BY <2>1 DEF Store, FollowInv, NoAliasInIP
    <2> QED
      BY <2>1, <2>2, <2>3 DEF FollowInv, Write
  <1> QED
    BY <1>1, <1>2, <1>3 DEF gWrite

-----------------------------------------------------------------------------
(* What happens between the statements. *)

LEMMA EnterFollows ==
    ASSUME IInv, FollowInv, NEW th \in Threads, gEnterSB(th)
    PROVE  FollowInv'
  <1>1. GuestTypes'
    BY DataTypes DEF gEnterSB, FollowInv, GuestTypes
  <1>2. TempsFollow' /\ RegsFollow' /\ MemoryFollows'
    BY DEF gEnterSB, EnterSB, shadows, FollowInv, TempsFollow, RegsFollow, MemoryFollows,
       Contents
  <1>3. NoAliasInIP'
    BY RegsAssumption, NoTmpAssumption DEF gEnterSB, EnterSB, NoAliasInIP
  <1> QED
    BY <1>1, <1>2, <1>3 DEF FollowInv

(* A superblock that ends without anything else is no matter for the       *)
(* shadow machine.                                                         *)
LEMMA QuietPreserves ==
    ASSUME IInv, inSB' = FALSE,
           UNCHANGED <<analyze, sbExecuted, tid, defined, tmpInstead, tmpInReg, shadows, fpOps>>
    PROVE  IInv'
  BY DEF shadows, IInv, TypeOK, VersionsBehind, NumberedFromOne, UnassignedIsFresh,
     AliasesAreRoots, RegisterAliasAgrees, OffMeansNone, NoShadowInIP

LEMMA RequestFollows ==
    ASSUME IInv, FollowInv, gReset \/ gSwitch \/ \E addr \in Addrs : insertShadow(addr)
    PROVE  IInv' /\ FollowInv'
  <1> USE DEF IInv, FollowInv
  <1>1. TempsFollow' /\ NoAliasInIP'
    BY DEF TempsFollow, NoAliasInIP, gReset, resetShadowValues, gSwitch, beginAnalyzing,
       endAnalyzing, insertShadow, Request
  <1>2. CASE gReset
    <2>1. GuestTypes'
      BY <1>2, DataTypes DEF gReset, GuestTypes
    <2>2. RegsFollow'
      <3> SUFFICES ASSUME NEW th \in Threads, NEW r \in RegFile
                   PROVE  Follows(Contents(threadRegisters'[th][r]), gReg'[th][r])
        BY DEF RegsFollow, Contents
      <3>1. threadRegisters'[th][r].active = FALSE
        BY <1>2 DEF gReset, resetShadowValues, TypeOK, Cell
      <3>2. gReg'[th][r] = Lost(gReg[th][r]) /\ gReg[th][r] \in Datum
        BY <1>2 DEF gReset, GuestTypes
      <3> QED
        BY <3>1, <3>2, DataFollowed DEF Contents
    <2>3. MemoryFollows'
      <3> SUFFICES ASSUME NEW a \in Addrs
                   PROVE  Follows(Contents(globalMemory'[a]), gMem'[a])
        BY DEF MemoryFollows, Contents
      <3>1. globalMemory'[a].active = FALSE
        BY <1>2 DEF gReset, resetShadowValues, TypeOK, Cell
      <3>2. gMem'[a] = Lost(gMem[a]) /\ gMem[a] \in Datum
        BY <1>2 DEF gReset, GuestTypes
      <3> QED
        BY <3>1, <3>2, DataFollowed DEF Contents
    <2>4. IInv'
      BY <1>2, RequestPreserves DEF gReset
    <2> QED
      BY <1>1, <2>1, <2>2, <2>3, <2>4
  <1>3. CASE gSwitch
    <2>1. IInv'
      BY <1>3, RequestPreserves DEF gSwitch
    <2>2. GuestTypes' /\ RegsFollow' /\ MemoryFollows'
      BY <1>3 DEF gSwitch, beginAnalyzing, endAnalyzing, shadows, guest, GuestTypes,
         RegsFollow, MemoryFollows, Contents
    <2> QED
      BY <1>1, <2>1, <2>2
  <1>4. CASE \E addr \in Addrs : insertShadow(addr)
    <2> PICK addr \in Addrs : insertShadow(addr)
      BY <1>4
    <2>1. IInv'
      BY QuietPreserves DEF insertShadow, Request
    <2>2. CASE globalMemory[addr].sv = NoShadow
      BY <1>1, <2>1, <2>2 DEF insertShadow, shadows, guest, GuestTypes, RegsFollow,
         MemoryFollows, Contents
    <2>3. CASE globalMemory[addr].sv # NoShadow
      <3> DEFINE d == [id |-> globalMemory[addr].sv.id,
                       follow |-> IF globalMemory[addr].active THEN "own" ELSE "none"]
      <3>1. globalMemory[addr] \in Cell
        BY DEF TypeOK
      <3>2. d \in Datum
        BY <3>1 DEF Cell, Shadow, Datum
      <3>3. MemoryHolds(addr, d) /\ UNCHANGED <<threadRegisters, globalMemory>>
        BY <2>3 DEF insertShadow, shadows
      <3>4. Follows(Contents(globalMemory'[addr]), d)
        BY <3>3 DEF Follows, Contents, NoShadow
      <3> HIDE DEF d
      <3>5. GuestTypes' /\ RegsFollow' /\ MemoryFollows'
        BY <3>2, <3>3, <3>4, MemoryWriteFollows
      <3> QED
        BY <1>1, <2>1, <3>5
    <2> QED
      BY <2>2, <2>3
  <1> QED
    BY <1>2, <1>3, <1>4

LEMMA EventFollows ==
    ASSUME IInv, FollowInv,
           \/ DeliverSignal \/ SignalReturn
           \/ \E th \in Threads : CloneThread(th)
           \/ \E addr \in Addrs : SystemCall(addr)
    PROVE  IInv' /\ FollowInv'
  <1> USE DEF IInv, FollowInv
  <1>1. inSB' = FALSE /\ UNCHANGED <<analyze, sbExecuted, tid, defined, tmpInstead, tmpInReg,
                                     shadows, fpOps>>
    BY DEF DeliverSignal, SignalReturn, CloneThread, SystemCall, Event
  <1>2. IInv'
    BY <1>1, QuietPreserves
  <1>3. TempsFollow' /\ NoAliasInIP'
    BY <1>1 DEF TempsFollow, NoAliasInIP
  <1>4. \A th \in Threads, r \in RegFile :
            /\ Contents(threadRegisters[th][r]) \in Shadow
            /\ Follows(Contents(threadRegisters[th][r]), gReg[th][r])
            /\ gReg[th][r] \in Datum
    BY LookupTypes DEF TypeOK, Cell, Contents, RegsFollow, GuestTypes
  <1>5. ASSUME gReg' \in [Threads -> [RegFile -> Datum]],
               frame' \in [Threads -> [RegFile -> Nat] \cup {NoFrame}],
               UNCHANGED <<gTmp, gMem>>,
               \A th \in Threads, r \in RegFile :
                    \/ gReg'[th][r] = gReg[th][r]
                    \/ \E id \in Nat : gReg'[th][r] = Unnoticed(gReg[th][r], id)
        PROVE  GuestTypes' /\ RegsFollow' /\ MemoryFollows'
    <2>1. GuestTypes'
      BY <1>5 DEF GuestTypes
    <2>2. \A th \in Threads, r \in RegFile :
                Follows(Contents(threadRegisters[th][r]), gReg'[th][r])
      BY <1>4, <1>5, DataFollowed
    <2>3. RegsFollow' /\ MemoryFollows'
      BY <1>1, <1>5, <2>2 DEF RegsFollow, MemoryFollows, Contents, shadows
    <2> QED
      BY <2>1, <2>3
  <1>6. tid \in Threads /\ gReg \in [Threads -> [RegFile -> Datum]]
            /\ frame \in [Threads -> [RegFile -> Nat] \cup {NoFrame}]
    BY DEF TypeOK, GuestTypes
  <1>7. CASE DeliverSignal
    <2>1. [r \in RegFile |-> gReg[tid][r].id] \in [RegFile -> Nat]
      BY <1>6, DataTypes
    <2>2. frame' \in [Threads -> [RegFile -> Nat] \cup {NoFrame}]
      BY <1>6, <1>7, <2>1 DEF DeliverSignal
    <2> QED
      BY <1>2, <1>3, <1>5, <1>6, <1>7, <2>2 DEF DeliverSignal
  <1>8. CASE SignalReturn
    <2>1. frame[tid] \in [RegFile -> Nat]
      BY <1>6, <1>8 DEF SignalReturn
    <2>2. \A r \in RegFile : gReg'[tid][r] = Unnoticed(gReg[tid][r], frame[tid][r])
      BY <1>6, <1>8 DEF SignalReturn
    <2>3. \A th \in Threads \ {tid} : gReg'[th] = gReg[th]
      BY <1>6, <1>8 DEF SignalReturn
    <2>4. gReg' \in [Threads -> [RegFile -> Datum]]
      BY <1>6, <1>8, <2>1, DataTypes DEF SignalReturn
    <2>5. frame' \in [Threads -> [RegFile -> Nat] \cup {NoFrame}]
      BY <1>6, <1>8 DEF SignalReturn
    <2> QED
      BY <1>2, <1>3, <1>5, <1>6, <1>8, <2>1, <2>2, <2>3, <2>4, <2>5 DEF SignalReturn
  <1>9. CASE \E th \in Threads : CloneThread(th)
    <2> PICK th \in Threads : CloneThread(th)
      BY <1>9
    <2>1. gReg' = [gReg EXCEPT ![th] =
                    [r \in RegFile |-> Unnoticed(gReg[th][r], gReg[tid][r].id)]]
      BY DEF CloneThread
    <2>2. \A r \in RegFile :
            gReg'[th][r] = Unnoticed(gReg[th][r], gReg[tid][r].id) /\ gReg[tid][r].id \in Nat
      BY <1>6, <2>1, DataTypes
    <2>3. \A h \in Threads \ {th} : gReg'[h] = gReg[h]
      BY <1>6, <2>1
    <2>4. gReg' \in [Threads -> [RegFile -> Datum]]
      BY <1>6, <2>1, DataTypes
    <2>5. frame' \in [Threads -> [RegFile -> Nat] \cup {NoFrame}]
      BY <1>6 DEF CloneThread
    <2> QED
      BY <1>2, <1>3, <1>5, <2>2, <2>3, <2>4, <2>5 DEF CloneThread
  <1>10. CASE \E addr \in Addrs : SystemCall(addr)
    <2> PICK addr \in Addrs : SystemCall(addr)
      BY <1>10
    <2>1. Contents(globalMemory[addr]) \in Shadow /\ gMem[addr] \in Datum
      BY LookupTypes DEF TypeOK, Cell, Contents, GuestTypes
    <2>2. Unnoticed(gMem[addr], 0) \in Datum
      BY <2>1, DataTypes
    <2>3. Follows(Contents(globalMemory[addr]), Unnoticed(gMem[addr], 0))
      BY <2>1, DataFollowed DEF MemoryFollows
    <2>4. GuestTypes' /\ RegsFollow' /\ MemoryFollows'
      BY <1>1, <2>2, <2>3, MemoryWriteFollows DEF SystemCall, shadows
    <2> QED
      BY <1>2, <1>3, <2>4
  <1> QED
    BY <1>7, <1>8, <1>9, <1>10

-----------------------------------------------------------------------------
LEMMA GuestInitFollows == GuestInit => IInv /\ FollowInv
  <1> SUFFICES ASSUME GuestInit PROVE FollowInv
    BY InitEstablishes DEF GuestInit
  <1>1. GuestTypes
    BY DataTypes DEF GuestInit, GuestTypes
  <1>2. TempsFollow /\ NoAliasInIP
    BY DEF GuestInit, Init, TempsFollow, NoAliasInIP
  <1>3. RegsFollow /\ MemoryFollows
    BY DataFollowed DEF GuestInit, Init, RegsFollow, MemoryFollows, NoCell, Contents
  <1> QED
    BY <1>1, <1>2, <1>3 DEF FollowInv

LEMMA GuestStepFollows ==
    ASSUME MaxSB < VersionMod
    PROVE  IInv /\ FollowInv /\ [GuestNext]_guestVars => IInv' /\ FollowInv'
  <1> SUFFICES ASSUME IInv, FollowInv, [GuestNext]_guestVars
               PROVE  IInv' /\ FollowInv'
    OBVIOUS
  <1>1. CASE \E th \in Threads : gEnterSB(th)
    BY <1>1, EnterFollows, EnterPreserves DEF gEnterSB
  <1>2. CASE \E w \in Temps : gAssignment(w)
    BY <1>2, AssignmentFollows, StepPreserves DEF Next
  <1>3. CASE \E a \in Args : gWrite(a)
    BY <1>3, WriteFollows, StepPreserves DEF Next
  <1>4. CASE gReset \/ gSwitch \/ \E addr \in Addrs : insertShadow(addr)
    BY <1>4, RequestFollows
  <1>5. CASE \/ DeliverSignal \/ SignalReturn
             \/ \E th \in Threads : CloneThread(th)
             \/ \E addr \in Addrs : SystemCall(addr)
    BY <1>5, EventFollows
  <1>6. CASE UNCHANGED guestVars
    <2>1. UNCHANGED vars /\ UNCHANGED guest
      BY <1>6 DEF guestVars
    <2>2. IInv'
      BY <2>1, StepPreserves
    <2>3. \A t \in Temps : ShadowOf(t)' = ShadowOf(t)
      BY <2>1 DEF vars, block, shadows, ShadowOf, Rep, getTemp, IsCurrent
    <2>4. FollowInv'
      BY <2>1, <2>3 DEF vars, block, shadows, guest, IInv, TypeOK, FollowInv, GuestTypes,
         TempsFollow, RegsFollow, MemoryFollows, NoAliasInIP, Contents
    <2> QED
      BY <2>2, <2>4
  <1> QED
    BY <1>1, <1>2, <1>3, <1>4, <1>5, <1>6 DEF GuestNext

(* The shadow value found is that of the operation that computed the data, *)
(* or there is none, as the history of the data says, except for data that *)
(* came unnoticed to where a shadow value is: for any overlaps and any of  *)
(* the events, as long as the number of a superblock fits the version of a *)
(* shadow value.                                                           *)
THEOREM ShadowsFollowData ==
    ASSUME MaxSB < VersionMod
    PROVE  GuestSpec => []GuestInv
  <1>1. IInv /\ FollowInv /\ [GuestNext]_guestVars => IInv' /\ FollowInv'
    BY GuestStepFollows
  <1> QED
    BY <1>1, GuestInitFollows, FollowImpliesGuestInv, PTL DEF GuestSpec
=============================================================================
