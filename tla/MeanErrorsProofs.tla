--------------------------- MODULE MeanErrorsProofs ---------------------------
(***************************************************************************)
(* Proofs about MeanErrors: the links from shadow values and records lead  *)
(* to records, canceled bits are blamed on an operation that canceled at   *)
(* least as many, the largest error of an operation is kept with the       *)
(* operands that led to it, and the error it is said to introduce is fair. *)
(***************************************************************************)
EXTENDS MeanErrors, WellFoundedInduction, TLAPS

(* What is known of a shadow value by the records there are. *)
Accounted(v) ==
    /\ {v.origin, v.cancelOrigin} \subseteq Recorded \cup {NoCode}
    /\ v.canceled > 0 =>
        /\ v.cancelOrigin \in Recorded
        /\ meanValues[v.cancelOrigin].canceledMax >= v.canceled

MeanInv == OriginsKnown /\ BlameIsJust

(* None is a shadow value, and an operand is accounted for. *)
LEMMA OperandAccounted ==
    ASSUME MeanInv, NEW a \in Arguments
    PROVE  Operand(a) \in Value /\ Accounted(Operand(a))
<1>1. CASE a = NoSlot
  BY <1>1 DEF Operand, None, Value, Link, Accounted
<1>2. CASE a \in Slots
  BY <1>2, CodeAssumption
     DEF MeanInv, OriginsKnown, BlameIsJust, TypeOK, Operand, Accounted, Value
<1> QED BY <1>1, <1>2 DEF Arguments

(* A record only grows, and has room for the sample. *)
LEMMA RecordGrows ==
    ASSUME NEW mv \in MeanValue \cup {NULL}, NEW s \in Sample
    PROVE  LET new == updateMeanValue(mv, s) IN
           /\ new \in MeanValue
           /\ new.canceledMax >= s.canceled
           /\ mv # NULL => new.canceledMax >= mv.canceledMax
           /\ new.arg1 = s.arg1 \/ (mv # NULL /\ new.arg1 = mv.arg1)
           /\ new.arg2 = s.arg2 \/ (mv # NULL /\ new.arg2 = mv.arg2)
<1>1. \A x \in Int : x % Word \in Nat
  BY WordAssumption
<1>2. CASE mv = NULL
  <2>1. FirstMean(s) \in MeanValue
    BY <1>1 DEF FirstMean, MeanValue, Sample
  <2> QED BY <1>2, <2>1 DEF updateMeanValue, FirstMean, Sample
<1>3. CASE mv # NULL
  <2>1. mv \in MeanValue
    BY <1>3
  <2>2. PICK worst \in BOOLEAN : updateMeanValue(mv, s) = NextMean(mv, s, worst)
    BY <1>3 DEF updateMeanValue, Exceeds
  <2>3. Plus(mv.sum, s.error) \in Number
    BY <2>1 DEF Plus, Number, MeanValue, Sample
  <2>4. NextMean(mv, s, worst) \in MeanValue
    BY <1>1, <2>1, <2>3 DEF NextMean, MeanValue, Sample, Larger
  <2>5. /\ NextMean(mv, s, worst).canceledMax >= s.canceled
        /\ NextMean(mv, s, worst).canceledMax >= mv.canceledMax
    BY <2>1 DEF NextMean, Larger, MeanValue, Sample
  <2>6. /\ NextMean(mv, s, worst).arg1 \in {s.arg1, mv.arg1}
        /\ NextMean(mv, s, worst).arg2 \in {s.arg2, mv.arg2}
    BY DEF NextMean
  <2> QED BY <1>3, <2>2, <2>4, <2>5, <2>6
<1> QED BY <1>2, <1>3

(* An execution whose result is accounted for preserves the invariant. *)
LEMMA ExecutesPreserves ==
    ASSUME MeanInv,
           NEW code \in Code, NEW w \in Slots, NEW result \in Value, NEW s \in Sample,
           Executes(code, w, result, s),
           result.origin = code,
           {s.arg1, s.arg2} \subseteq Recorded \cup {NoCode},
           result.cancelOrigin \in Recorded \cup {NoCode, code},
           result.canceled > 0 =>
               \/ result.cancelOrigin = code /\ result.canceled <= s.canceled
               \/ /\ result.cancelOrigin \in Recorded
                  /\ meanValues[result.cancelOrigin].canceledMax >= result.canceled
    PROVE  MeanInv'
<1> DEFINE new == updateMeanValue(meanValues[code], s)
<1>1. TypeOK
  BY DEF MeanInv, OriginsKnown
<1>2. /\ values' = [values EXCEPT ![w] = result]
      /\ meanValues' = [meanValues EXCEPT ![code] = new]
      /\ samples' = [samples EXCEPT ![code] = Append(@, s)]
  BY DEF Executes
<1>3. meanValues[code] \in MeanValue \cup {NULL}
  BY <1>1 DEF TypeOK
<1>4. /\ new \in MeanValue
      /\ new.canceledMax >= s.canceled
      /\ meanValues[code] # NULL => new.canceledMax >= meanValues[code].canceledMax
      /\ new.arg1 = s.arg1 \/ (meanValues[code] # NULL /\ new.arg1 = meanValues[code].arg1)
      /\ new.arg2 = s.arg2 \/ (meanValues[code] # NULL /\ new.arg2 = meanValues[code].arg2)
  BY <1>3, RecordGrows
<1> HIDE DEF new
<1>5. TypeOK'
  <2>1. values' \in [Slots -> Value]
    BY <1>1, <1>2 DEF TypeOK
  <2>2. meanValues' \in [Code -> MeanValue \cup {NULL}]
    BY <1>1, <1>2, <1>4 DEF TypeOK
  <2>3. Append(samples[code], s) \in Seq(Sample)
    BY <1>1 DEF TypeOK
  <2>4. samples' \in [Code -> Seq(Sample)]
    BY <1>1, <1>2, <2>3 DEF TypeOK
  <2> QED BY <2>1, <2>2, <2>4 DEF TypeOK
<1>6. Recorded' = Recorded \cup {code}
  BY <1>1, <1>2, <1>4, NullAssumption DEF Recorded, TypeOK
<1>7. \A k \in Recorded : meanValues'[k].canceledMax >= meanValues[k].canceledMax
  <2> SUFFICES ASSUME NEW k \in Recorded
               PROVE  meanValues'[k].canceledMax >= meanValues[k].canceledMax
    OBVIOUS
  <2>1. meanValues[k] \in MeanValue /\ k \in Code
    BY <1>1 DEF Recorded, TypeOK
  <2>2. CASE k = code
    BY <1>1, <1>2, <1>4, <2>2 DEF Recorded, TypeOK
  <2>3. CASE k # code
    BY <1>1, <1>2, <2>1, <2>3 DEF TypeOK, MeanValue
  <2> QED BY <2>2, <2>3
<1>8. meanValues'[code] = new
  BY <1>1, <1>2 DEF TypeOK
<1>9. \A t \in Slots : Accounted(values[t])
  BY DEF MeanInv, OriginsKnown, BlameIsJust, Accounted
<1>10. \A t \in Slots : Accounted(values[t])'
  <2> SUFFICES ASSUME NEW t \in Slots PROVE Accounted(values[t])'
    OBVIOUS
  <2>1. CASE t = w
    <3>1. values'[t] = result
      BY <1>1, <1>2, <2>1 DEF TypeOK
    <3>2. {result.origin, result.cancelOrigin} \subseteq Recorded' \cup {NoCode}
      BY <1>6
    <3>3. ASSUME result.canceled > 0
          PROVE  /\ result.cancelOrigin \in Recorded'
                 /\ meanValues'[result.cancelOrigin].canceledMax >= result.canceled
      <4>1. CASE result.cancelOrigin = code /\ result.canceled <= s.canceled
        BY <1>4, <1>6, <1>8, <4>1 DEF MeanValue, Sample, Value
      <4>2. CASE /\ result.cancelOrigin \in Recorded
                 /\ meanValues[result.cancelOrigin].canceledMax >= result.canceled
        <5>1. /\ meanValues[result.cancelOrigin] \in MeanValue
              /\ meanValues'[result.cancelOrigin] \in MeanValue
          BY <1>1, <1>2, <1>4, <1>8, <4>2 DEF TypeOK, Recorded
        <5> QED BY <1>6, <1>7, <4>2, <5>1 DEF MeanValue, Value
      <4> QED BY <3>3, <4>1, <4>2
    <3> QED BY <3>1, <3>2, <3>3 DEF Accounted
  <2>2. CASE t # w
    <3>1. values'[t] = values[t] /\ values[t] \in Value
      BY <1>1, <1>2, <2>2 DEF TypeOK
    <3>2. ASSUME values[t].canceled > 0
          PROVE  meanValues'[values[t].cancelOrigin].canceledMax >= values[t].canceled
      <4>1. /\ values[t].cancelOrigin \in Recorded
            /\ meanValues[values[t].cancelOrigin].canceledMax >= values[t].canceled
        BY <1>9, <3>2 DEF Accounted
      <4>2. /\ meanValues[values[t].cancelOrigin] \in MeanValue
            /\ meanValues'[values[t].cancelOrigin] \in MeanValue
        BY <1>1, <1>2, <1>4, <1>8, <4>1 DEF TypeOK, Recorded
      <4> QED BY <1>7, <3>1, <4>1, <4>2 DEF MeanValue, Value
    <3> QED BY <1>6, <1>9, <3>1, <3>2 DEF Accounted
  <2> QED BY <2>1, <2>2
<1>11. \A k \in Recorded' :
        {meanValues'[k].arg1, meanValues'[k].arg2} \subseteq Recorded' \cup {NoCode}
  <2> SUFFICES ASSUME NEW k \in Recorded'
               PROVE  {meanValues'[k].arg1, meanValues'[k].arg2} \subseteq Recorded' \cup {NoCode}
    OBVIOUS
  <2>1. CASE k = code
    BY <1>3, <1>4, <1>6, <1>8, <2>1 DEF MeanInv, OriginsKnown, Recorded
  <2>2. CASE k # code
    BY <1>1, <1>2, <1>6, <2>2 DEF MeanInv, OriginsKnown, Recorded, TypeOK
  <2> QED BY <2>1, <2>2
<1> QED BY <1>5, <1>10, <1>11 DEF MeanInv, OriginsKnown, BlameIsJust, Accounted

(* A change of the shadow values that only moves or drops them. *)
LEMMA MovingPreserves ==
    ASSUME MeanInv, UNCHANGED <<meanValues, samples>>,
           values' \in [Slots -> Value],
           \A s \in Slots : values'[s] = None \/ \E t \in Slots : values'[s] = values[t]
    PROVE  MeanInv'
<1>1. Recorded' = Recorded
  BY DEF Recorded
<1>2. \A s \in Slots : Accounted(values[s])'
  <2> SUFFICES ASSUME NEW s \in Slots PROVE Accounted(values[s])'
    OBVIOUS
  <2>1. CASE values'[s] = None
    BY <1>1, <2>1 DEF Accounted, None
  <2>2. ASSUME NEW t \in Slots, values'[s] = values[t] PROVE Accounted(values[s])'
    BY <1>1, <2>2 DEF MeanInv, OriginsKnown, BlameIsJust, Accounted
  <2> QED BY <2>1, <2>2
<1> QED BY <1>1, <1>2 DEF MeanInv, OriginsKnown, BlameIsJust, TypeOK, Accounted

LEMMA NextPreserves == MeanInv /\ [Next]_vars => MeanInv'
<1> SUFFICES ASSUME MeanInv, [Next]_vars PROVE MeanInv'
  OBVIOUS
<1>1. /\ TypeOK
      /\ None \in Value
  BY DEF MeanInv, OriginsKnown, None, Value, Link
<1>2. ASSUME NEW code \in Code, NEW w \in Slots, NEW a1 \in Arguments, NEW a2 \in Arguments,
             NEW e \in Errors \cup Special, NEW bits \in Bits, NEW exact \in ExactBits,
             BinOp(code, w, a1, a2, e, bits, exact)
      PROVE  MeanInv'
  <2> DEFINE v1 == Operand(a1)
             v2 == Operand(a2)
             result == Blamed(code, bits, v1, v2)
             s == [error |-> e, canceled |-> bits, badness |-> Badness(bits, exact),
                   arg1 |-> v1.origin, arg2 |-> v2.origin]
  <2>1. v1 \in Value /\ Accounted(v1) /\ v2 \in Value /\ Accounted(v2)
    BY OperandAccounted
  <2>2. bits \in Nat /\ exact \in Int /\ e \in Number
    BY BitsAssumption, ErrorsAssumption DEF Number
  <2>3. Executes(code, w, result, s)
    BY <1>2 DEF BinOp
  <2> HIDE DEF v1, v2
  <2>4. s \in Sample
    BY <2>1, <2>2 DEF Sample, Badness, Value
  <2>5. result \in Value
    BY <2>1, <2>2 DEF Value, Blamed, Larger, Link
  <2>6. result.origin = code
    BY DEF Blamed
  <2>7. /\ {s.arg1, s.arg2} \subseteq Recorded \cup {NoCode}
        /\ result.cancelOrigin \in Recorded \cup {NoCode, code}
    BY <2>1 DEF Accounted, Blamed
  <2>8. result.canceled > 0 =>
            \/ result.cancelOrigin = code /\ result.canceled <= s.canceled
            \/ /\ result.cancelOrigin \in Recorded
               /\ meanValues[result.cancelOrigin].canceledMax >= result.canceled
    <3>1. CASE v2.canceled > Larger(bits, v1.canceled)
      BY <2>1, <2>2, <3>1 DEF Accounted, Blamed, Larger, Value
    <3>2. CASE ~(v2.canceled > Larger(bits, v1.canceled)) /\ v1.canceled > bits
      BY <2>1, <2>2, <3>2 DEF Accounted, Blamed, Larger, Value
    <3>3. CASE ~(v2.canceled > Larger(bits, v1.canceled)) /\ ~(v1.canceled > bits)
      BY <2>1, <2>2, <3>3 DEF Accounted, Blamed, Larger, Value
    <3> QED BY <3>1, <3>2, <3>3
  <2> HIDE DEF result, s
  <2> QED BY <2>3, <2>4, <2>5, <2>6, <2>7, <2>8, ExecutesPreserves
<1>3. ASSUME NEW code \in Code, NEW w \in Slots, NEW a \in Arguments,
             NEW e \in Errors \cup Special, UnOp(code, w, a, e)
      PROVE  MeanInv'
  <2> DEFINE v == Operand(a)
             result == [v EXCEPT !.origin = code]
             s == [error |-> e, canceled |-> 0, badness |-> 0,
                   arg1 |-> v.origin, arg2 |-> NoCode]
  <2>1. v \in Value /\ Accounted(v)
    BY OperandAccounted
  <2>2. e \in Number
    BY ErrorsAssumption DEF Number
  <2>3. Executes(code, w, result, s)
    BY <1>3 DEF UnOp
  <2> HIDE DEF v
  <2>4. s \in Sample
    BY <2>1, <2>2 DEF Sample, Value, Link
  <2>5. /\ result \in Value
        /\ result.origin = code
        /\ result.canceled = v.canceled
        /\ result.cancelOrigin = v.cancelOrigin
    BY <2>1 DEF Value, Link
  <2>6. /\ {s.arg1, s.arg2} \subseteq Recorded \cup {NoCode}
        /\ result.cancelOrigin \in Recorded \cup {NoCode, code}
        /\ result.canceled > 0 =>
               /\ result.cancelOrigin \in Recorded
               /\ meanValues[result.cancelOrigin].canceledMax >= result.canceled
    BY <2>1, <2>5 DEF Accounted
  <2> HIDE DEF result, s
  <2> QED BY <2>3, <2>4, <2>5, <2>6, ExecutesPreserves
<1>4. ASSUME NEW from \in Slots, NEW to \in Slots, Move(from, to) PROVE MeanInv'
  <2>1. /\ values' \in [Slots -> Value]
        /\ \A s \in Slots : \E t \in Slots : values'[s] = values[t]
    BY <1>1, <1>4 DEF Move, TypeOK
  <2> QED BY <1>4, <2>1, MovingPreserves DEF Move
<1>5. ASSUME NEW d \in Slots, Drop(d) PROVE MeanInv'
  <2>1. /\ values' \in [Slots -> Value]
        /\ \A s \in Slots : values'[s] = None \/ values'[s] = values[s]
    BY <1>1, <1>5 DEF Drop, TypeOK
  <2> QED BY <1>5, <2>1, MovingPreserves DEF Drop
<1>6. CASE Reset
  <2>1. /\ values' \in [Slots -> Value]
        /\ \A s \in Slots : values'[s] = None
    BY <1>1, <1>6 DEF Reset
  <2> QED BY <1>6, <2>1, MovingPreserves DEF Reset
<1>7. CASE UNCHANGED vars
  <2>1. /\ values' \in [Slots -> Value]
        /\ \A s \in Slots : values'[s] = values[s]
    BY <1>1, <1>7 DEF vars, TypeOK
  <2> QED BY <1>7, <2>1, MovingPreserves DEF vars
<1> QED BY <1>2, <1>3, <1>4, <1>5, <1>6, <1>7 DEF Next

LEMMA InitEstablishes == Init => MeanInv
<1> SUFFICES ASSUME Init PROVE MeanInv
  OBVIOUS
<1>1. TypeOK
  BY DEF Init, TypeOK, None, Value, Link
<1>2. Recorded = {}
  BY DEF Init, Recorded
<1> QED BY <1>1, <1>2 DEF Init, MeanInv, OriginsKnown, BlameIsJust, None

(* Every link from a shadow value or a record leads to a record, so that   *)
(* the lookups of getIntroducedError and writeOriginGraph never fail.      *)
THEOREM LinksLeadToRecords == Spec => []OriginsKnown
<1>1. MeanInv => OriginsKnown
  BY DEF MeanInv
<1> QED BY <1>1, InitEstablishes, NextPreserves, PTL DEF Spec

(* The cancellation origin that printError names has canceled at least the *)
(* bits it is blamed for.                                                  *)
THEOREM BlamedRightly == Spec => []BlameIsJust
<1>1. MeanInv => BlameIsJust
  BY DEF MeanInv
<1> QED BY <1>1, InitEstablishes, NextPreserves, PTL DEF Spec

-----------------------------------------------------------------------------
(* What a record knows of the errors of the executions ss it was made of.  *)
Worst(mv, ss) ==
    IF mv = NULL THEN ss = <<>>
    ELSE /\ ss # <<>>
         /\ mv.max = NaN <=> ss[1].error = NaN
         /\ \A i \in DOMAIN ss : ~Exceeds(ss[i].error, mv.max)
         /\ \E i \in DOMAIN ss :
             ss[i].error = mv.max /\ ss[i].arg1 = mv.arg1 /\ ss[i].arg2 = mv.arg2

(* mpfr_cmp orders the errors that are not NaN, an infinite one above all. *)
LEMMA ErrorsAreOrdered ==
    /\ \A x : ~Exceeds(x, x)
    /\ \A x, y, z \in Number : Exceeds(x, y) /\ Exceeds(y, z) => Exceeds(x, z)
BY ErrorsAssumption DEF Exceeds, Number

WorstInv == MeanInv /\ \A k \in Code : Worst(meanValues[k], samples[k])

(* One more execution: the comparison that decides whether it is the worst *)
(* is never true when one of the two is NaN, so that NaN stays.            *)
LEMMA WorstKept ==
    ASSUME NEW mv \in MeanValue \cup {NULL}, NEW ss \in Seq(Sample), NEW s \in Sample,
           Worst(mv, ss)
    PROVE  Worst(updateMeanValue(mv, s), Append(ss, s))
<1> DEFINE new == updateMeanValue(mv, s)
           tt == Append(ss, s)
           worst == Exceeds(s.error, mv.max)
<1>1. new \in MeanValue /\ new # NULL
  BY RecordGrows, NullAssumption
<1>2. /\ tt \in Seq(Sample)
      /\ Len(tt) = Len(ss) + 1
      /\ tt[Len(tt)] = s
      /\ \A i \in DOMAIN ss : tt[i] = ss[i]
      /\ DOMAIN tt = DOMAIN ss \cup {Len(tt)}
      /\ DOMAIN ss = 1..Len(ss)
  OBVIOUS
<1>3. CASE mv = NULL
  <2>1. new.max = s.error /\ new.arg1 = s.arg1 /\ new.arg2 = s.arg2
    BY <1>3 DEF updateMeanValue, FirstMean
  <2>2. ss = <<>>
    BY <1>3 DEF Worst
  <2>3. tt = <<s>> /\ DOMAIN tt = {1} /\ tt[1] = s
    BY <2>2
  <2> HIDE DEF new, tt
  <2>4. Worst(new, tt)
    BY <1>1, <2>1, <2>3, ErrorsAreOrdered DEF Worst
  <2> QED BY <2>4 DEF new, tt
<1>4. CASE mv # NULL
  <2>1. mv \in MeanValue
    BY <1>4
  <2>2. /\ mv.max \in Number /\ s.error \in Number
        /\ \A i \in DOMAIN ss : ss[i].error \in Number
    <3>1. \A i \in DOMAIN ss : ss[i] \in Sample
      OBVIOUS
    <3> QED BY <2>1, <3>1 DEF MeanValue, Sample
  <2>3. /\ ss # <<>>
        /\ mv.max = NaN <=> ss[1].error = NaN
        /\ \A i \in DOMAIN ss : ~Exceeds(ss[i].error, mv.max)
    BY <1>4 DEF Worst
  <2>4. PICK j \in DOMAIN ss :
            ss[j].error = mv.max /\ ss[j].arg1 = mv.arg1 /\ ss[j].arg2 = mv.arg2
    BY <1>4 DEF Worst
  <2>5. /\ new.max = IF worst THEN s.error ELSE mv.max
        /\ new.arg1 = IF worst THEN s.arg1 ELSE mv.arg1
        /\ new.arg2 = IF worst THEN s.arg2 ELSE mv.arg2
    BY <1>4 DEF updateMeanValue, NextMean
  <2>6. 1 \in DOMAIN ss
    BY <1>2, <2>3
  <2> HIDE DEF new, tt
  <2>7. tt # <<>> /\ tt[1] = ss[1]
    BY <1>2, <2>6
  <2>8. new.max = NaN <=> tt[1].error = NaN
    BY <2>2, <2>3, <2>5, <2>7 DEF Exceeds
  <2>9. \A i \in DOMAIN tt : ~Exceeds(tt[i].error, new.max)
    <3> SUFFICES ASSUME NEW i \in DOMAIN tt PROVE ~Exceeds(tt[i].error, new.max)
      OBVIOUS
    <3>1. CASE i \in DOMAIN ss
      BY <1>2, <2>2, <2>3, <2>5, <3>1, ErrorsAreOrdered
    <3>2. CASE i = Len(tt)
      BY <1>2, <2>5, <3>2, ErrorsAreOrdered
    <3> QED BY <1>2, <3>1, <3>2
  <2>10. \E i \in DOMAIN tt :
            tt[i].error = new.max /\ tt[i].arg1 = new.arg1 /\ tt[i].arg2 = new.arg2
    <3>1. CASE worst
      BY <1>2, <2>5, <3>1
    <3>2. CASE ~worst
      BY <1>2, <2>4, <2>5, <3>2
    <3> QED BY <3>1, <3>2
  <2>11. Worst(new, tt)
    BY <1>1, <2>7, <2>8, <2>9, <2>10 DEF Worst
  <2> QED BY <2>11 DEF new, tt
<1> QED BY <1>3, <1>4

(* Every step executes one operation or leaves the statistics alone.       *)
LEMMA StepExecutes ==
    ASSUME MeanInv, [Next]_vars
    PROVE  \/ UNCHANGED <<meanValues, samples>>
           \/ \E code \in Code, w \in Slots, result \in Value, s \in Sample :
                  Executes(code, w, result, s)
<1>1. ASSUME NEW code \in Code, NEW w \in Slots, NEW a1 \in Arguments, NEW a2 \in Arguments,
             NEW e \in Errors \cup Special, NEW bits \in Bits, NEW exact \in ExactBits,
             BinOp(code, w, a1, a2, e, bits, exact)
      PROVE  \E result \in Value, s \in Sample : Executes(code, w, result, s)
  <2> DEFINE v1 == Operand(a1)
             v2 == Operand(a2)
             result == Blamed(code, bits, v1, v2)
             s == [error |-> e, canceled |-> bits, badness |-> Badness(bits, exact),
                   arg1 |-> v1.origin, arg2 |-> v2.origin]
  <2>1. v1 \in Value /\ v2 \in Value
    BY OperandAccounted
  <2>2. bits \in Nat /\ exact \in Int /\ e \in Number
    BY BitsAssumption, ErrorsAssumption DEF Number
  <2>3. Executes(code, w, result, s)
    BY <1>1 DEF BinOp
  <2> HIDE DEF v1, v2
  <2>4. s \in Sample
    BY <2>1, <2>2 DEF Sample, Badness, Value
  <2>5. result \in Value
    BY <2>1, <2>2 DEF Value, Blamed, Larger, Link
  <2> HIDE DEF result, s
  <2> QED BY <2>3, <2>4, <2>5
<1>2. ASSUME NEW code \in Code, NEW w \in Slots, NEW a \in Arguments,
             NEW e \in Errors \cup Special, UnOp(code, w, a, e)
      PROVE  \E result \in Value, s \in Sample : Executes(code, w, result, s)
  <2> DEFINE v == Operand(a)
             result == [v EXCEPT !.origin = code]
             s == [error |-> e, canceled |-> 0, badness |-> 0,
                   arg1 |-> v.origin, arg2 |-> NoCode]
  <2>1. v \in Value
    BY OperandAccounted
  <2>2. e \in Number
    BY ErrorsAssumption DEF Number
  <2>3. Executes(code, w, result, s)
    BY <1>2 DEF UnOp
  <2> HIDE DEF v
  <2>4. s \in Sample
    BY <2>1, <2>2 DEF Sample, Value, Link
  <2>5. result \in Value
    BY <2>1 DEF Value, Link
  <2> HIDE DEF result, s
  <2> QED BY <2>3, <2>4, <2>5
<1> QED BY <1>1, <1>2 DEF Next, Move, Drop, Reset, vars

LEMMA WorstPreserved == WorstInv /\ [Next]_vars => WorstInv'
<1> SUFFICES ASSUME WorstInv, [Next]_vars PROVE WorstInv'
  OBVIOUS
<1>1. MeanInv /\ MeanInv'
  BY NextPreserves DEF WorstInv
<1>2. CASE UNCHANGED <<meanValues, samples>>
  <2> QED BY <1>1, <1>2 DEF WorstInv, Worst
<1>3. ASSUME NEW code \in Code, NEW w \in Slots, NEW result \in Value, NEW s \in Sample,
             Executes(code, w, result, s)
      PROVE  WorstInv'
  <2>1. TypeOK
    BY <1>1 DEF MeanInv, OriginsKnown
  <2>2. /\ meanValues[code] \in MeanValue \cup {NULL}
        /\ samples[code] \in Seq(Sample)
        /\ Worst(meanValues[code], samples[code])
    BY <2>1 DEF TypeOK, WorstInv
  <2>3. /\ meanValues'[code] = updateMeanValue(meanValues[code], s)
        /\ samples'[code] = Append(samples[code], s)
    BY <1>3, <2>1 DEF Executes, TypeOK
  <2>4. Worst(meanValues'[code], samples'[code])
    BY <2>2, <2>3, WorstKept
  <2>5. \A k \in Code \ {code} : meanValues'[k] = meanValues[k] /\ samples'[k] = samples[k]
    BY <1>3, <2>1 DEF Executes, TypeOK
  <2>6. \A k \in Code : Worst(meanValues'[k], samples'[k])
    BY <2>4, <2>5 DEF WorstInv
  <2> QED BY <1>1, <2>6 DEF WorstInv, Worst
<1> QED BY <1>1, <1>2, <1>3, StepExecutes

LEMMA WorstIsMax == WorstInv => MaxIsWorst
<1> SUFFICES ASSUME WorstInv, NEW k \in Recorded
             PROVE  LET mv == meanValues[k]
                        ss == samples[k]
                    IN  /\ mv.max = NaN <=> ss[1].error = NaN
                        /\ \A i \in DOMAIN ss : ~Exceeds(ss[i].error, mv.max)
                        /\ \E i \in DOMAIN ss :
                            /\ ss[i].error = mv.max
                            /\ ss[i].arg1 = mv.arg1
                            /\ ss[i].arg2 = mv.arg2
  BY DEF MaxIsWorst
<1> QED BY DEF WorstInv, Worst, Recorded

(* The largest error kept for an operation is that of all its executions   *)
(* that have one, and the operands kept with it are of an execution that   *)
(* had it: what writeMeanValues and the origin graph tell about it.        *)
THEOREM LargestErrorIsKept == Spec => []MaxIsWorst
<1>1. Init => WorstInv
  BY InitEstablishes DEF Init, WorstInv, Worst
<1> QED BY <1>1, WorstPreserved, WorstIsMax, PTL DEF Spec

-----------------------------------------------------------------------------
(* Errors that are not NaN.                                                *)
Ordered == Nat \cup {Inf}

LEMMA Differences ==
    /\ \A x, y \in Nat :
        (Exceeds(x, y) <=> x > y) /\ Minus(x, y) = x - y /\ (Exceeds(x - y, 0) <=> x > y)
    /\ \A x \in Nat :
        /\ Exceeds(Inf, x) /\ ~Exceeds(x, Inf)
        /\ Minus(Inf, x) = Inf /\ Minus(x, Inf) = NegInf
    /\ Minus(Inf, Inf) = NaN
    /\ \A x \in Ordered : ~Exceeds(NegInf, x)
BY ErrorsAssumption DEF Exceeds, Minus, Ordered

LEMMA Trichotomy ==
    ASSUME NEW x \in Ordered, NEW y \in Ordered
    PROVE  /\ x = y \/ Exceeds(x, y) \/ Exceeds(y, x)
           /\ ~(Exceeds(x, y) /\ Exceeds(y, x))
BY ErrorsAssumption DEF Exceeds, Ordered

(* The difference to one of the others is fair if it is infinite when one  *)
(* of them is, the whole error if none is.                                 *)
LEMMA DifferenceIsFair ==
    ASSUME NEW max \in Ordered, NEW others \in SUBSET Ordered, NEW e \in others \cup {0},
           max = Inf /\ Inf \in others => e = Inf
    PROVE  Fair(Minus(max, e), max, others)
<1>1. e \in Ordered
  BY DEF Ordered
<1>2. Minus(max, e) = NaN <=> max = Inf /\ e = Inf
  <2>1. \A x, y \in Nat : x - y # NaN
    BY ErrorsAssumption
  <2>2. CASE max = Inf
    BY <1>1, <2>2, Differences, ErrorsAssumption DEF Ordered
  <2>3. CASE max \in Nat /\ e \in Nat
    BY <2>1, <2>3, Differences, ErrorsAssumption
  <2>4. CASE max \in Nat /\ e = Inf
    BY <2>4, Differences, ErrorsAssumption
  <2> QED BY <1>1, <2>2, <2>3, <2>4 DEF Ordered
<1>3. Minus(max, e) # NaN => ~Exceeds(Minus(max, e), max)
  <2>1. CASE max \in Nat /\ e \in Nat
    <3>1. Minus(max, e) = max - e
      BY <2>1, Differences
    <3>2. ~Exceeds(max - e, max)
      BY <2>1, ErrorsAssumption DEF Exceeds
    <3> QED BY <3>1, <3>2
  <2>2. CASE max \in Nat /\ e = Inf
    BY <2>2, Differences DEF Ordered
  <2>3. CASE max = Inf
    BY <1>1, <2>3, Differences, ErrorsAreOrdered DEF Ordered
  <2> QED BY <1>1, <2>1, <2>2, <2>3 DEF Ordered
<1>4. ~Exceeds(Minus(max, e), Minus(max, e))
  BY ErrorsAreOrdered
<1>5. e = Inf => e \in others
  BY ErrorsAssumption
<1> QED BY <1>2, <1>3, <1>4, <1>5 DEF Fair

LEMMA WholeIsFair ==
    ASSUME NEW max \in Ordered, NEW others \in SUBSET Ordered, ~(max = Inf /\ Inf \in others)
    PROVE  Fair(max, max, others)
<1>1. Minus(max, 0) = max
  BY Differences DEF Ordered
<1> QED BY <1>1, DifferenceIsFair

(* The operation is its own operand and the other one had no smaller       *)
(* error: nothing is left of it.                                           *)
LEMMA NothingIsFair ==
    ASSUME NEW max \in Ordered, NEW err \in Ordered, ~Exceeds(max, err)
    PROVE  Fair(Minus(max, max), max, {err})
<1>1. CASE max = Inf
  <2>1. err = Inf
    BY <1>1, Differences DEF Ordered
  <2> QED BY <1>1, <2>1, DifferenceIsFair
<1>2. CASE max \in Nat
  <2>1. Minus(max, max) = 0 /\ 0 # NaN /\ max # Inf /\ ~Exceeds(0, max)
    BY <1>2, Differences, ErrorsAssumption
  <2>2. ~Exceeds(Minus(max, err), 0)
    <3>1. CASE err = Inf
      BY <1>2, <3>1, Differences DEF Ordered
    <3>2. CASE err \in Nat
      BY <1>2, <3>2, Differences
    <3> QED BY <3>1, <3>2 DEF Ordered
  <2> QED BY <2>1, <2>2 DEF Fair
<1> QED BY <1>1, <1>2 DEF Ordered

(* With two operands the larger of the two errors that is below the        *)
(* operation's own is subtracted, in either order of the operands.         *)
LEMMA FairOfBoth ==
    ASSUME NEW key, NEW mv \in MeanValue, NEW err1 \in Ordered, NEW err2 \in Ordered,
           mv.max \in Ordered,
           mv.arg1 = key => err1 = mv.max,
           mv.arg2 = key => err2 = mv.max
    PROVE  LET intro == IntroducedByBoth(key, mv, err1, err2)
               others == {e \in {err1, err2} : \/ e = err1 /\ mv.arg1 # key
                                               \/ e = err2 /\ mv.arg2 # key}
           IN  /\ intro = IntroducedByBoth(key, Swapped(mv), err2, err1)
               /\ Fair(intro, mv.max, others)
<1> DEFINE max == mv.max
           intro == IntroducedByBoth(key, mv, err1, err2)
           others == {e \in {err1, err2} : \/ e = err1 /\ mv.arg1 # key
                                           \/ e = err2 /\ mv.arg2 # key}
<1>1. /\ Swapped(mv).max = mv.max
      /\ Swapped(mv).arg1 = mv.arg2
      /\ Swapped(mv).arg2 = mv.arg1
  BY DEF Swapped, MeanValue
<1>2. intro = IntroducedByBoth(key, Swapped(mv), err2, err1)
  <2>1. CASE Exceeds(err1, err2)
    BY <1>1, <2>1, Trichotomy DEF IntroducedByBoth
  <2>2. CASE Exceeds(err2, err1)
    BY <1>1, <2>2, Trichotomy DEF IntroducedByBoth
  <2>3. CASE err1 = err2
    BY <1>1, <2>3, ErrorsAreOrdered DEF IntroducedByBoth
  <2> QED BY <2>1, <2>2, <2>3, Trichotomy
<1>3. others \in SUBSET Ordered
  OBVIOUS
<1>4. \A x, y : Exceeds(x, y) => x # y
  BY DEF Exceeds
<1>5. CASE mv.arg1 = key /\ mv.arg2 = key
  <2>1. intro = max /\ others = {}
    BY <1>5 DEF IntroducedByBoth
  <2> QED BY <1>2, <2>1, WholeIsFair
<1>6. CASE mv.arg1 = key /\ mv.arg2 # key
  <2>1. others = {err2} /\ err1 = max
    BY <1>6
  <2>2. CASE Exceeds(max, err2)
    <3>1. intro = max
      BY <1>6, <2>1, <2>2 DEF IntroducedByBoth
    <3>2. ~(max = Inf /\ Inf \in others)
      BY <1>4, <2>1, <2>2
    <3> QED BY <1>2, <1>3, <3>1, <3>2, WholeIsFair
  <2>3. CASE ~Exceeds(max, err2)
    <3>1. intro = Minus(max, max)
      BY <1>6, <2>1, <2>3, ErrorsAreOrdered DEF IntroducedByBoth
    <3> QED BY <1>2, <2>1, <2>3, <3>1, NothingIsFair
  <2> QED BY <2>2, <2>3
<1>7. CASE mv.arg1 # key /\ mv.arg2 = key
  <2>1. others = {err1} /\ err2 = max
    BY <1>7
  <2>2. CASE Exceeds(max, err1)
    <3>1. intro = max
      BY <1>7, <2>1, <2>2, Trichotomy DEF IntroducedByBoth
    <3>2. ~(max = Inf /\ Inf \in others)
      BY <1>4, <2>1, <2>2
    <3> QED BY <1>2, <1>3, <3>1, <3>2, WholeIsFair
  <2>3. CASE ~Exceeds(max, err1)
    <3>1. intro = Minus(max, max)
      BY <1>7, <2>1, <2>3, ErrorsAreOrdered, Trichotomy DEF IntroducedByBoth
    <3> QED BY <1>2, <2>1, <2>3, <3>1, NothingIsFair
  <2> QED BY <2>2, <2>3
<1>8. CASE mv.arg1 # key /\ mv.arg2 # key
  <2>1. others = {err1, err2}
    BY <1>8
  <2>2. \A x \in Ordered : x # Inf => Exceeds(Inf, x)
    BY Differences DEF Ordered
  <2>3. \E e \in others : intro = Minus(max, e) /\ (max = Inf /\ Inf \in others => e = Inf)
    <3>1. CASE Exceeds(err1, err2)
      BY <1>4, <1>8, <2>1, <2>2, <3>1, Trichotomy DEF IntroducedByBoth
    <3>2. CASE Exceeds(err2, err1)
      BY <1>4, <1>8, <2>1, <2>2, <3>2, Trichotomy DEF IntroducedByBoth
    <3>3. CASE err1 = err2
      BY <1>8, <2>1, <3>3, ErrorsAreOrdered DEF IntroducedByBoth
    <3> QED BY <3>1, <3>2, <3>3, Trichotomy
  <2> QED BY <1>2, <1>3, <2>3, DifferenceIsFair
<1> QED BY <1>5, <1>6, <1>7, <1>8

LEMMA FairOfOne ==
    ASSUME NEW key, NEW mv \in MeanValue, NEW arg, NEW err \in Ordered, mv.max \in Ordered
    PROVE  Fair(IntroducedByOne(key, mv, arg, err), mv.max,
                {e \in {err} : arg # key})
<1>1. CASE arg = key
  BY <1>1, WholeIsFair DEF IntroducedByOne
<1>2. CASE arg # key
  <2>1. {e \in {err} : arg # key} = {err}
    BY <1>2
  <2> QED BY <1>2, <2>1, DifferenceIsFair DEF IntroducedByOne
<1> QED BY <1>1, <1>2

LEMMA LinksAreFair == OriginsKnown => IntroducedIsFair
<1> SUFFICES ASSUME OriginsKnown, NEW k \in Recorded,
                    NaN \notin {meanValues[a].max :
                        a \in {meanValues[k].arg1, meanValues[k].arg2} \ {NoCode, k}}
                               \cup {meanValues[k].max}
             PROVE  LET mv == meanValues[k]
                        intro == getIntroducedError(k, mv, meanValues)
                        others == {meanValues[a].max :
                                        a \in {mv.arg1, mv.arg2} \ {NoCode, k}}
                    IN  /\ intro = getIntroducedError(k, Swapped(mv), meanValues)
                        /\ Fair(intro, mv.max, others)
  BY DEF IntroducedIsFair
<1> DEFINE mv == meanValues[k]
           args == {mv.arg1, mv.arg2} \ {NoCode, k}
           others == {meanValues[a].max : a \in args}
           intro == getIntroducedError(k, mv, meanValues)
           err1 == meanValues[mv.arg1].max
           err2 == meanValues[mv.arg2].max
<1>1. \A a \in Recorded : meanValues[a] \in MeanValue /\ a \in Code
  BY DEF OriginsKnown, TypeOK, Recorded
<1>2. mv \in MeanValue /\ {mv.arg1, mv.arg2} \subseteq Recorded \cup {NoCode}
  BY <1>1 DEF OriginsKnown
<1>3. /\ mv.max \in Ordered
      /\ mv.arg1 # NoCode => err1 \in Ordered /\ (mv.arg1 = k => err1 = mv.max)
      /\ mv.arg2 # NoCode => err2 \in Ordered /\ (mv.arg2 = k => err2 = mv.max)
  BY <1>1, <1>2 DEF MeanValue, Number, Ordered
<1>4. /\ Swapped(mv).max = mv.max
      /\ Swapped(mv).arg1 = mv.arg2
      /\ Swapped(mv).arg2 = mv.arg1
  BY <1>2 DEF Swapped, MeanValue
<1>5. CASE mv.arg1 # NoCode /\ mv.arg2 # NoCode
  <2>1. others = {e \in {err1, err2} : \/ e = err1 /\ mv.arg1 # k
                                       \/ e = err2 /\ mv.arg2 # k}
    BY <1>5
  <2>2. /\ intro = IntroducedByBoth(k, mv, err1, err2)
        /\ getIntroducedError(k, Swapped(mv), meanValues)
              = IntroducedByBoth(k, Swapped(mv), err2, err1)
    BY <1>4, <1>5 DEF getIntroducedError
  <2>3. /\ IntroducedByBoth(k, mv, err1, err2)
              = IntroducedByBoth(k, Swapped(mv), err2, err1)
        /\ Fair(IntroducedByBoth(k, mv, err1, err2), mv.max,
                {e \in {err1, err2} : \/ e = err1 /\ mv.arg1 # k
                                      \/ e = err2 /\ mv.arg2 # k})
    <3> HIDE DEF mv, err1, err2
    <3> QED BY <1>2, <1>3, <1>5, FairOfBoth
  <2> HIDE DEF mv, err1, err2, others, intro
  <2>4. intro = getIntroducedError(k, Swapped(mv), meanValues) /\ Fair(intro, mv.max, others)
    BY <2>1, <2>2, <2>3
  <2> QED BY <2>4 DEF mv, others, intro
<1>6. CASE mv.arg1 # NoCode /\ mv.arg2 = NoCode
  <2>1. others = {e \in {err1} : mv.arg1 # k}
    BY <1>6
  <2>2. /\ intro = IntroducedByOne(k, mv, mv.arg1, err1)
        /\ getIntroducedError(k, Swapped(mv), meanValues) = intro
    BY <1>4, <1>6 DEF getIntroducedError, IntroducedByOne
  <2>3. Fair(IntroducedByOne(k, mv, mv.arg1, err1), mv.max, {e \in {err1} : mv.arg1 # k})
    <3> HIDE DEF mv, err1
    <3> QED BY <1>2, <1>3, <1>6, FairOfOne
  <2> HIDE DEF mv, err1, others, intro
  <2>4. intro = getIntroducedError(k, Swapped(mv), meanValues) /\ Fair(intro, mv.max, others)
    BY <2>1, <2>2, <2>3
  <2> QED BY <2>4 DEF mv, others, intro
<1>7. CASE mv.arg1 = NoCode /\ mv.arg2 # NoCode
  <2>1. others = {e \in {err2} : mv.arg2 # k}
    BY <1>7
  <2>2. /\ intro = IntroducedByOne(k, mv, mv.arg2, err2)
        /\ getIntroducedError(k, Swapped(mv), meanValues) = intro
    BY <1>4, <1>7 DEF getIntroducedError, IntroducedByOne
  <2>3. Fair(IntroducedByOne(k, mv, mv.arg2, err2), mv.max, {e \in {err2} : mv.arg2 # k})
    <3> HIDE DEF mv, err2
    <3> QED BY <1>2, <1>3, <1>7, FairOfOne
  <2> HIDE DEF mv, err2, others, intro
  <2>4. intro = getIntroducedError(k, Swapped(mv), meanValues) /\ Fair(intro, mv.max, others)
    BY <2>1, <2>2, <2>3
  <2> QED BY <2>4 DEF mv, others, intro
<1>8. CASE mv.arg1 = NoCode /\ mv.arg2 = NoCode
  <2>1. others = {} /\ intro = mv.max
            /\ getIntroducedError(k, Swapped(mv), meanValues) = intro
    BY <1>4, <1>8 DEF getIntroducedError
  <2> QED BY <1>3, <2>1, WholeIsFair
<1> QED BY <1>5, <1>6, <1>7, <1>8

(* Which operand is first plays no role for the error that an operation is *)
(* said to introduce; it is at most the largest error of the operation and *)
(* less than that by at most one of its operands' largest errors, except   *)
(* that it is NaN where an infinite error is taken from an infinite one.   *)
THEOREM IntroducedErrorsAreFair == Spec => []IntroducedIsFair
<1> QED BY LinksLeadToRecords, LinksAreFair, PTL

-----------------------------------------------------------------------------
(* Every set of numbers has a least one, and hence induction holds, stated *)
(* for sets.                                                               *)
LEMMA LeastNumber ==
    ASSUME NEW T \in SUBSET Nat, T # {}
    PROVE  \E m \in T : \A n \in T : m <= n
<1> DEFINE R == OpToRel(<, Nat)
<1>1. \A m, n \in Nat : n < m => <<n, m>> \in R
  BY DEF OpToRel
<1>2. IsWellFoundedOn(R, Nat)
  BY NatLessThanWellFounded DEF R
<1> HIDE DEF R
<1>3. PICK m \in T : \A n \in T : ~(<<n, m>> \in R)
  BY <1>2, WFMin
<1>4. ASSUME NEW n \in T, n < m
      PROVE  FALSE
  BY <1>1, <1>3, <1>4
<1> QED BY <1>4

LEMMA Induction ==
    ASSUME NEW T, 0 \in T, \A n \in Nat : n \in T => n + 1 \in T
    PROVE  Nat \subseteq T
<1> SUFFICES ASSUME Nat \ T # {} PROVE FALSE
  OBVIOUS
<1>1. PICK m \in Nat \ T : \A n \in Nat \ T : m <= n
  BY LeastNumber
<1>2. m # 0 /\ m - 1 \in Nat /\ ~(m <= m - 1) /\ (m - 1) + 1 = m
  BY <1>1
<1>3. m - 1 \in T
  BY <1>1, <1>2
<1> QED BY <1>1, <1>2, <1>3

(* The sum over a sequence is that of one step from the sum before. *)
LEMMA TotalUnrolls ==
    ASSUME NEW ss, Len(ss) \in Nat
    PROVE  \E sum : /\ sum = [n \in 0 .. Len(ss) |->
                               IF n = 0 THEN 0 ELSE sum[n - 1] + ss[n].badness]
                    /\ TotalBadness(ss) = sum[Len(ss)]
<1> DEFINE Body(f, n) == IF n = 0 THEN 0 ELSE f[n - 1] + ss[n].badness
           T == {m \in Nat : \E g : g = [n \in 0 .. m |-> Body(g, n)]}
<1>1. 0 \in T
  <2>1. [n \in 0 .. 0 |-> 0] = [n \in 0 .. 0 |-> Body([k \in 0 .. 0 |-> 0], n)]
    OBVIOUS
  <2> QED BY <2>1
<1>2. ASSUME NEW m \in Nat, m \in T
      PROVE  m + 1 \in T
  <2>1. PICK g : g = [n \in 0 .. m |-> Body(g, n)]
    BY <1>2
  <2> DEFINE h == [n \in 0 .. m + 1 |-> IF n = m + 1 THEN Body(g, n) ELSE g[n]]
  <2>2. \A n \in 0 .. m + 1 : h[n] = Body(h, n)
    <3> TAKE n \in 0 .. m + 1
    <3>1. n # 0 => n - 1 \in 0 .. m /\ n - 1 \in 0 .. m + 1 /\ n - 1 # m + 1
      OBVIOUS
    <3>2. n # 0 => h[n - 1] = g[n - 1]
      BY <3>1
    <3>3. Body(h, n) = Body(g, n)
      BY <3>2
    <3>4. n # m + 1 => h[n] = Body(g, n)
      <4>1. n # m + 1 => n \in 0 .. m
        OBVIOUS
      <4> HIDE DEF Body
      <4> QED BY <4>1, <2>1
    <3>5. n = m + 1 => h[n] = Body(g, n)
      OBVIOUS
    <3> QED BY <3>3, <3>4, <3>5
  <2>3. h = [n \in 0 .. m + 1 |-> Body(h, n)]
    <3>1. h = [n \in 0 .. m + 1 |-> h[n]]
      OBVIOUS
    <3> HIDE DEF h, Body
    <3> QED BY <2>2, <3>1
  <2> HIDE DEF h, Body
  <2> QED BY <2>3
<1>3. Len(ss) \in T
  <2> HIDE DEF T
  <2> QED BY <1>1, <1>2, Induction
<1> DEFINE f == CHOOSE g : g = [n \in 0 .. Len(ss) |-> Body(g, n)]
<1>4. f = [n \in 0 .. Len(ss) |-> Body(f, n)]
  <2>1. \E g : g = [n \in 0 .. Len(ss) |-> Body(g, n)]
    BY <1>3
  <2> HIDE DEF Body
  <2> QED BY <2>1
<1>5. TotalBadness(ss) = f[Len(ss)]
  BY Zenon DEF TotalBadness
<1> HIDE DEF f
<1> QED BY <1>4, <1>5

LEMMA TotalOfNone == TotalBadness(<<>>) = 0
<1>1. Len(<<>>) = 0
  OBVIOUS
<1>2. PICK sum : /\ sum = [n \in 0 .. Len(<<>>) |->
                            IF n = 0 THEN 0 ELSE sum[n - 1] + (<<>>)[n].badness]
                 /\ TotalBadness(<<>>) = sum[Len(<<>>)]
  BY <1>1, TotalUnrolls
<1> QED BY <1>1, <1>2

(* One more execution adds its badness. *)
LEMMA TotalGrows ==
    ASSUME NEW ss \in Seq(Sample), NEW s \in Sample
    PROVE  TotalBadness(Append(ss, s)) = TotalBadness(ss) + s.badness
<1> DEFINE tt == Append(ss, s)
           L == Len(ss)
<1>1. L \in Nat /\ Len(tt) = L + 1 /\ tt[L + 1] = s /\ \A n \in 1 .. L : tt[n] = ss[n]
  OBVIOUS
<1> HIDE DEF tt
<1>2. PICK f : /\ f = [n \in 0 .. L |-> IF n = 0 THEN 0 ELSE f[n - 1] + ss[n].badness]
               /\ TotalBadness(ss) = f[L]
  BY <1>1, TotalUnrolls
<1>3. PICK g : /\ g = [n \in 0 .. L + 1 |-> IF n = 0 THEN 0 ELSE g[n - 1] + tt[n].badness]
               /\ TotalBadness(tt) = g[L + 1]
  <2>1. Len(tt) \in Nat
    BY <1>1
  <2>2. PICK g : /\ g = [n \in 0 .. Len(tt) |-> IF n = 0 THEN 0 ELSE g[n - 1] + tt[n].badness]
                 /\ TotalBadness(tt) = g[Len(tt)]
    BY <2>1, TotalUnrolls
  <2> QED BY <1>1, <2>2
<1> HIDE DEF L
<1>4. \A n \in 0 .. L : f[n] = g[n]
  <2> DEFINE T == {n \in Nat : n <= L => f[n] = g[n]}
  <2>1. 0 \in T
    BY <1>1, <1>2, <1>3
  <2>2. ASSUME NEW n \in Nat, n \in T
        PROVE  n + 1 \in T
    <3> SUFFICES ASSUME n + 1 <= L PROVE f[n + 1] = g[n + 1]
      OBVIOUS
    <3>1. /\ n + 1 \in 0 .. L /\ n + 1 \in 0 .. L + 1 /\ n + 1 \in 1 .. L
          /\ n + 1 # 0 /\ (n + 1) - 1 = n
      BY <1>1
    <3>2. f[n + 1] = f[n] + ss[n + 1].badness
      BY <1>2, <3>1
    <3>3. g[n + 1] = g[n] + tt[n + 1].badness
      BY <1>3, <3>1
    <3> QED BY <1>1, <2>2, <3>1, <3>2, <3>3
  <2>3. Nat \subseteq T
    <3> HIDE DEF T
    <3> QED BY <2>1, <2>2, Induction
  <2> QED BY <1>1, <2>3
<1>5. g[L + 1] = g[L] + tt[L + 1].badness
  <2>1. L + 1 \in 0 .. L + 1 /\ L + 1 # 0 /\ (L + 1) - 1 = L
    BY <1>1
  <2> QED BY <1>3, <2>1
<1>6. f[L] = g[L]
  BY <1>1, <1>4
<1> QED BY <1>1, <1>2, <1>3, <1>5, <1>6 DEF tt

(* What a record knows of the badness of the executions ss it was made of. *)
(* As long as their number and the largest possible sum fit, nothing has   *)
(* wrapped.                                                                *)
Bad(mv, ss) ==
    IF mv = NULL THEN ss = <<>>
    ELSE /\ ss # <<>>
         /\ TotalBadness(ss) \in 0 .. Len(ss) * mv.badnessMax
         /\ \A i \in DOMAIN ss : ss[i].badness <= mv.badnessMax
         /\ \E i \in DOMAIN ss : ss[i].badness = mv.badnessMax
         /\ Len(ss) < Word => mv.count = Len(ss)
         /\ Len(ss) * mv.badnessMax < Word => mv.badnessSum = TotalBadness(ss)

BadInv == MeanInv /\ \A k \in Code : Bad(meanValues[k], samples[k])

LEMMA Products ==
    /\ \A a, b \in Nat : a * b \in Nat /\ (a + 1) * b = a * b + b
    /\ \A a, b, c \in Nat : b <= c => a * b <= a * c
<1>1. ASSUME NEW a \in Nat, NEW b \in Nat
      PROVE  a * b \in Nat /\ (a + 1) * b = a * b + b
  OBVIOUS
<1>2. ASSUME NEW a \in Nat, NEW b \in Nat, NEW c \in Nat, b <= c
      PROVE  a * b <= a * c
  BY <1>2
<1> QED BY <1>1, <1>2

LEMMA SmallRemainder ==
    ASSUME NEW x \in Nat, x < Word
    PROVE  x % Word = x
BY WordAssumption

LEMMA BadKept ==
    ASSUME NEW mv \in MeanValue \cup {NULL}, NEW ss \in Seq(Sample), NEW s \in Sample,
           Bad(mv, ss)
    PROVE  Bad(updateMeanValue(mv, s), Append(ss, s))
<1> DEFINE new == updateMeanValue(mv, s)
           tt == Append(ss, s)
           L == Len(ss)
           b == s.badness
<1>1. new \in MeanValue /\ new # NULL
  BY RecordGrows, NullAssumption
<1>2. /\ tt \in Seq(Sample)
      /\ Len(tt) = L + 1
      /\ L \in Nat
      /\ tt[L + 1] = s
      /\ \A i \in DOMAIN ss : tt[i] = ss[i]
      /\ DOMAIN tt = DOMAIN ss \cup {L + 1}
      /\ DOMAIN ss = 1..L
  OBVIOUS
<1>3. TotalBadness(tt) = TotalBadness(ss) + b
  BY TotalGrows
<1>4. b \in Nat /\ Word \in Nat \ {0}
  BY WordAssumption DEF Sample
<1>5. \A i \in DOMAIN ss : ss[i].badness \in Nat
  <2>1. \A i \in DOMAIN ss : ss[i] \in Sample
    OBVIOUS
  <2> QED BY <2>1 DEF Sample
<1>6. CASE mv = NULL
  <2>1. new.badnessMax = b /\ new.badnessSum = b % Word /\ new.count = 1
    BY <1>6 DEF updateMeanValue, FirstMean
  <2>2. ss = <<>> /\ L = 0 /\ DOMAIN tt = {1} /\ tt[1] = s
    BY <1>6 DEF Bad
  <2>3. TotalBadness(tt) = b
    BY <1>3, <1>4, <2>2, TotalOfNone
  <2> HIDE DEF new, tt
  <2>4. Len(tt) * b = b /\ tt # <<>>
    BY <1>2, <1>4, <2>2
  <2>5. b < Word => b % Word = b
    BY <1>4, SmallRemainder
  <2>6. tt[1].badness = b
    BY <2>2
  <2> HIDE DEF b
  <2>7. Bad(new, tt)
    BY <1>1, <1>2, <1>4, <2>1, <2>2, <2>3, <2>4, <2>5, <2>6 DEF Bad
  <2> QED BY <2>7 DEF new, tt
<1>7. CASE mv # NULL
  <2> DEFINE w == mv.badnessMax
             u == new.badnessMax
             t == TotalBadness(ss)
  <2>1. w \in Nat /\ mv.count \in Nat /\ mv.badnessSum \in Nat
    BY <1>7 DEF MeanValue
  <2>2. /\ u = Larger(w, b)
        /\ new.badnessSum = (mv.badnessSum + b) % Word
        /\ new.count = (mv.count + 1) % Word
    BY <1>7 DEF updateMeanValue, NextMean
  <2>3. /\ ss # <<>>
        /\ t \in 0 .. L * w
        /\ \A i \in DOMAIN ss : ss[i].badness <= w
        /\ L < Word => mv.count = L
        /\ L * w < Word => mv.badnessSum = t
    BY <1>7 DEF Bad
  <2>4. PICK j \in DOMAIN ss : ss[j].badness = w
    BY <1>7 DEF Bad
  <2> HIDE DEF new, tt, L, b, w, u, t
  <2>5. u \in Nat /\ w <= u /\ b <= u /\ (u = w \/ u = b)
    BY <1>4, <2>1, <2>2 DEF Larger
  <2>6. L * w \in Nat /\ L * u \in Nat /\ L * w <= L * u /\ (L + 1) * u = L * u + u
    BY <1>2, <2>1, <2>5, Products
  <2>7. t + b \in 0 .. (L + 1) * u
    BY <1>4, <2>3, <2>5, <2>6
  <2>8. (L + 1) * u < Word => new.badnessSum = t + b
    <3>1. (L + 1) * u < Word => mv.badnessSum = t
      BY <1>4, <2>3, <2>5, <2>6
    <3>2. (L + 1) * u < Word => t + b \in Nat /\ t + b < Word
      BY <1>4, <2>6, <2>7, <2>5
    <3> QED BY <2>2, <3>1, <3>2, SmallRemainder
  <2>9. L + 1 < Word => new.count = L + 1
    <3>1. L + 1 < Word => mv.count = L /\ L + 1 \in Nat
      BY <1>2, <1>4, <2>3
    <3> QED BY <2>2, <3>1, SmallRemainder
  <2>10. tt[L + 1].badness = b
    BY <1>2 DEF b
  <2>11. \A i \in DOMAIN tt : tt[i].badness <= u
    <3>1. \A i \in DOMAIN ss : ss[i].badness <= u
      BY <1>5, <2>1, <2>3, <2>5
    <3> QED BY <1>2, <2>5, <2>10, <3>1
  <2>12. \E i \in DOMAIN tt : tt[i].badness = u
    BY <1>2, <2>4, <2>5, <2>10
  <2>13. tt # <<>>
    BY <1>2
  <2>14. TotalBadness(tt) = t + b /\ u = new.badnessMax
    BY <1>3 DEF t, u
  <2>15. Bad(new, tt)
    BY <1>1, <1>2, <2>7, <2>8, <2>9, <2>11, <2>12, <2>13, <2>14 DEF Bad
  <2> QED BY <2>15 DEF new, tt
<1> QED BY <1>6, <1>7

LEMMA BadPreserved == BadInv /\ [Next]_vars => BadInv'
<1> SUFFICES ASSUME BadInv, [Next]_vars PROVE BadInv'
  OBVIOUS
<1>1. MeanInv /\ MeanInv'
  BY NextPreserves DEF BadInv
<1>2. CASE UNCHANGED <<meanValues, samples>>
  BY <1>1, <1>2 DEF BadInv, Bad
<1>3. ASSUME NEW code \in Code, NEW w \in Slots, NEW result \in Value, NEW s \in Sample,
             Executes(code, w, result, s)
      PROVE  BadInv'
  <2>1. TypeOK
    BY <1>1 DEF MeanInv, OriginsKnown
  <2>2. /\ meanValues[code] \in MeanValue \cup {NULL}
        /\ samples[code] \in Seq(Sample)
        /\ Bad(meanValues[code], samples[code])
    BY <2>1 DEF TypeOK, BadInv
  <2>3. /\ meanValues'[code] = updateMeanValue(meanValues[code], s)
        /\ samples'[code] = Append(samples[code], s)
    BY <1>3, <2>1 DEF Executes, TypeOK
  <2>4. Bad(meanValues'[code], samples'[code])
    BY <2>2, <2>3, BadKept
  <2>5. \A k \in Code \ {code} : meanValues'[k] = meanValues[k] /\ samples'[k] = samples[k]
    BY <1>3, <2>1 DEF Executes, TypeOK
  <2>6. \A k \in Code : Bad(meanValues'[k], samples'[k])
    BY <2>4, <2>5 DEF BadInv
  <2> QED BY <1>1, <2>6 DEF BadInv, Bad
<1> QED BY <1>1, <1>2, <1>3, StepExecutes

(* A number that is in a set and not below any of its members is its Max.  *)
LEMMA MaxOfSet ==
    ASSUME NEW S \in SUBSET Int, NEW m \in S, \A x \in S : x <= m
    PROVE  Max(S) = m
<1>1. \A y \in S : m >= y
  OBVIOUS
<1>2. Max(S) \in S /\ \A y \in S : Max(S) >= y
  BY <1>1 DEF Max
<1>3. Max(S) \in Int /\ m \in Int /\ m <= Max(S) /\ Max(S) <= m
  BY <1>2
<1> HIDE DEF Max
<1> QED BY <1>3

LEMMA BadIsAverage == BadInv => AverageAsLabelled
<1> SUFFICES ASSUME BadInv, NEW k \in Recorded
             PROVE  LET mv == meanValues[k]
                        executions == Len(samples[k])
                        worst == Max({samples[k][i].badness : i \in DOMAIN samples[k]})
                    IN  executions < Word /\ executions * worst < Word =>
                        /\ mv.count = executions
                        /\ mv.badnessSum = TotalBadness(samples[k])
                        /\ (mv.count * mv.badnessMax) % Word = executions * worst
  BY DEF AverageAsLabelled
<1> DEFINE mv == meanValues[k]
           ss == samples[k]
           S == {ss[i].badness : i \in DOMAIN ss}
<1>1. mv # NULL /\ mv \in MeanValue /\ ss \in Seq(Sample) /\ Bad(mv, ss)
  BY DEF BadInv, MeanInv, OriginsKnown, TypeOK, Recorded
<1>2. Max(S) = mv.badnessMax
  <2>1. \A i \in DOMAIN ss : ss[i] \in Sample
    BY <1>1
  <2>2. S \in SUBSET Int
    BY <2>1 DEF Sample
  <2>3. mv.badnessMax \in S
    BY <1>1 DEF Bad
  <2>4. \A x \in S : x <= mv.badnessMax
    BY <1>1 DEF Bad
  <2> HIDE DEF S
  <2> QED BY <2>2, <2>3, <2>4, MaxOfSet
<1>3. Len(ss) \in Nat /\ mv.badnessMax \in Nat
  BY <1>1 DEF MeanValue
<1>4. Len(ss) * mv.badnessMax \in Nat
  BY <1>3, Products
<1>5. /\ Len(ss) < Word => mv.count = Len(ss)
      /\ Len(ss) * mv.badnessMax < Word => mv.badnessSum = TotalBadness(ss)
  BY <1>1 DEF Bad
<1>6. Len(ss) * mv.badnessMax < Word
        => (Len(ss) * mv.badnessMax) % Word = Len(ss) * mv.badnessMax
  BY <1>4, SmallRemainder
<1> QED BY <1>2, <1>5, <1>6

(* The average badness that writeMeanValues prints is the average over the *)
(* executions, as long as their number, and their number times the largest *)
(* badness, fit a UInt.                                                    *)
THEOREM AverageIsAverage == Spec => []AverageAsLabelled
<1>1. Init => BadInv
  BY InitEstablishes DEF Init, BadInv, Bad
<1> QED BY <1>1, BadPreserved, BadIsAverage, PTL DEF Spec

=============================================================================
