---------------------------- MODULE PrecisionProofs ----------------------------
(***************************************************************************)
(* Proof about Precision: what --sim-original can be relied on for, with   *)
(* any number of places for shadow values.                                 *)
(***************************************************************************)
EXTENDS Precision, TLAPS

Kept == {prec[p] : p \in Places} \ {None}

(* The width found in binOpArgs is one of the program's own as soon as its *)
(* first operation has been a binary one, and before the first operation   *)
(* there is no shadow value.                                               *)
PrecisionInv ==
    /\ clo_simulateOriginal \in BOOLEAN
    /\ prec = [p \in Places |-> prec[p]]
    /\ binOp \in Widths
    /\ first \in Kinds \cup {"none"}
    /\ widths \subseteq Widths
    /\ computed.kind = "binary" /\ clo_simulateOriginal => computed.res = computed.width
    /\ IF clo_simulateOriginal THEN Kept \subseteq Widths ELSE Kept \subseteq {Default}
    /\ first = "none" => Kept = {}
    /\ first = "binary" => binOp \in widths
    /\ clo_simulateOriginal /\ first = "binary" => Kept \subseteq widths

(* An operation whose width for rounding is set leaves shadow values of    *)
(* that precision and of those there were.                                 *)
LEMMA OperationKeeps ==
    ASSUME PrecisionInv,
           NEW kind \in Kinds, NEW width \in Widths, NEW set \in Widths, NEW operands,
           NEW dst \in Places, Operation(kind, width, set, operands, dst),
           binOp' \in {binOp, width},
           kind = "binary" => binOp' = width /\ set = width,
           set = binOp'
    PROVE  PrecisionInv'
<1> DEFINE res == ResultPrecision(set, prec[dst])
<1>1. /\ widths' = widths \cup {width}
      /\ first' = IF first = "none" THEN kind ELSE first
      /\ clo_simulateOriginal' = clo_simulateOriginal
      /\ \/ computed' = computed
         \/ /\ computed'.kind = kind
            /\ computed'.width = width
            /\ computed'.res = res
      /\ \/ prec' = [prec EXCEPT ![dst] = res]
         \/ prec' = [prec EXCEPT ![dst] = None]
  BY DEF Operation
<1>2. res = IF clo_simulateOriginal THEN set ELSE Default
  BY DEF ResultPrecision
<1> HIDE DEF res
<1>3. /\ prec' = [p \in Places |-> prec'[p]]
      /\ \A p \in Places : prec'[p] \in {prec[p], res, None}
  BY <1>1 DEF PrecisionInv
<1>4. Kept' \subseteq Kept \cup {res}
  BY <1>3 DEF Kept
<1>5. first' \in Kinds /\ widths' \subseteq Widths /\ binOp' \in Widths
  BY <1>1 DEF PrecisionInv, Kinds
<1>6. first' # "none"
  BY <1>5 DEF Kinds
<1>7. IF clo_simulateOriginal THEN Kept' \subseteq Widths ELSE Kept' \subseteq {Default}
  BY <1>2, <1>4 DEF PrecisionInv
<1>8. first' = "binary" => set \in widths'
  <2>1. CASE first = "none"
    BY <1>1, <2>1
  <2>2. CASE first # "none"
    BY <1>1, <2>2 DEF PrecisionInv
  <2> QED BY <2>1, <2>2
<1>9. clo_simulateOriginal /\ first' = "binary" => Kept' \subseteq widths'
  <2>1. CASE first = "none"
    BY <1>1, <1>2, <1>4, <1>8, <2>1 DEF PrecisionInv
  <2>2. CASE first # "none"
    BY <1>1, <1>2, <1>4, <1>8, <2>2 DEF PrecisionInv
  <2> QED BY <2>1, <2>2
<1>10. computed'.kind = "binary" /\ clo_simulateOriginal => computed'.res = computed'.width
  BY <1>1, <1>2 DEF PrecisionInv
<1> QED BY <1>1, <1>3, <1>5, <1>6, <1>7, <1>8, <1>9, <1>10 DEF PrecisionInv

LEMMA PrecisionInit == Init => PrecisionInv
<1> SUFFICES ASSUME Init PROVE PrecisionInv
  OBVIOUS
<1>1. Kept = {}
  BY DEF Init, Kept
<1> QED BY <1>1 DEF Init, PrecisionInv, NoOperation

LEMMA PrecisionStep == PrecisionInv /\ [Next]_vars => PrecisionInv'
<1> SUFFICES ASSUME PrecisionInv, [Next]_vars PROVE PrecisionInv'
  OBVIOUS
<1>1. binOp \in Widths
  BY DEF PrecisionInv
<1>2. ASSUME NEW width \in Widths, NEW left \in Operands, NEW right \in Operands,
             NEW dst \in Places, processBinOp(width, left, right, dst)
      PROVE  PrecisionInv'
  BY <1>2, OperationKeeps DEF processBinOp, Kinds
<1>3. ASSUME NEW width \in Widths, NEW arg \in Operands, NEW dst \in Places,
             processUnOp(width, arg, dst)
      PROVE  PrecisionInv'
  BY <1>1, <1>3, OperationKeeps DEF processUnOp, Kinds
<1>4. ASSUME NEW left \in Operands, NEW right \in Operands, NEW dst \in Places,
             processTriOp(left, right, dst)
      PROVE  PrecisionInv'
  BY <1>1, <1>4, OperationKeeps DEF processTriOp, Kinds, Widths
<1>5. ASSUME NEW src \in Places, NEW dst \in Places, copyShadowValue(src, dst)
      PROVE  PrecisionInv'
  <2>1. /\ prec' = [p \in Places |-> prec'[p]]
        /\ \A p \in Places \ {dst} : prec'[p] = prec[p]
        /\ prec'[dst] = IF prec[src] # None /\ ~clo_simulateOriginal THEN Default ELSE prec[src]
        /\ UNCHANGED <<clo_simulateOriginal, binOp, computed, widths, first>>
    BY <1>5 DEF copyShadowValue, PrecisionInv
  <2>2. Kept' \subseteq Kept
    <3>1. prec[src] # None => prec[src] \in Kept
      BY DEF Kept
    <3>2. ~clo_simulateOriginal /\ prec[src] # None => prec[src] = Default
      BY <3>1 DEF PrecisionInv
    <3>3. \A p \in Places : prec'[p] # None => prec'[p] \in Kept
      BY <2>1, <3>1, <3>2 DEF Kept
    <3> QED BY <3>3 DEF Kept
  <2> QED BY <2>1, <2>2 DEF PrecisionInv
<1>6. CASE SwitchAnalysis \/ UNCHANGED vars
  BY <1>6 DEF SwitchAnalysis, vars, PrecisionInv, Kept
<1> QED BY <1>2, <1>3, <1>4, <1>5, <1>6 DEF Next

(* A program that starts with a binary operation and computes in one width *)
(* is simulated, although unary and ternary operations take their          *)
(* precision from whatever binary operation has been instrumented last.    *)
THEOREM OneWidthSimulated == Spec => []OneWidthIsSimulated
<1>1. PrecisionInv => OneWidthIsSimulated
  BY DEF PrecisionInv, OneWidthIsSimulated, Kept
<1> QED BY <1>1, PrecisionInit, PrecisionStep, PTL DEF Spec

=============================================================================
