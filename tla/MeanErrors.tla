------------------------------ MODULE MeanErrors ------------------------------
(***************************************************************************)
(* The statistics of src/valgrind/fpdebug/fd_main.c about the operations   *)
(* of the guest's code: one MeanValue per code address (meanValues), fed   *)
(* by every operation with --mean-error=yes, and the links from it to the  *)
(* operations its operands come from.                                      *)
(*                                                                         *)
(* A shadow value carries the code address that computed it (origin), the  *)
(* most bits canceled on its way (canceled) and the code address that      *)
(* canceled them (cancelOrigin).  Where a shadow value is, in a temporary, *)
(* a register or memory, is the business of Superblock; here it is in one  *)
(* of some slots, and moves between them.                                  *)
(***************************************************************************)
EXTENDS Integers, Sequences, FiniteSetsExt

CONSTANTS
    Code,        \* addresses of operations
    NoCode,      \* address 0: the operand has no shadow value
    Slots,       \* where shadow values are
    NoSlot,      \* no slot: the operand has no shadow value
    Errors,      \* finite relative errors
    NaN,         \* the error when the shadow value is not a finite number
    Inf,         \* the error when only the guest's value has overflowed
    NegInf,      \* a finite error less an infinite one
    Special,     \* which of NaN and Inf errors can be
    Bits,        \* numbers of bits a subtraction cancels
    ExactBits,   \* numbers of bits in which an operand and its shadow agree
    NULL,
    Word,        \* number of values of a UInt
    MaxSamples   \* bound on the executions of all operations

ASSUME CodeAssumption == NoCode \notin Code /\ NoSlot \notin Slots
ASSUME ErrorsAssumption ==
    /\ Errors \subseteq Nat
    /\ NaN \notin Int /\ Inf \notin Int /\ NegInf \notin Int
    /\ NaN # Inf /\ NaN # NegInf /\ Inf # NegInf
    /\ Special \subseteq {NaN, Inf}
ASSUME BitsAssumption == Bits \subseteq Nat /\ ExactBits \subseteq Int
ASSUME WordAssumption == Word \in Nat \ {0} /\ MaxSamples \in Nat

VARIABLES
    values,      \* the shadow values, None where there is none
    meanValues,  \* MeanValue per code address, or NULL
    samples      \* what the executions of each operation contributed

vars == <<values, meanValues, samples>>

None == [origin |-> NoCode, canceled |-> 0, cancelOrigin |-> NoCode]

Link == Code \cup {NoCode}
Number == Nat \cup {NaN, Inf}

Value == [origin: Link, canceled: Nat, cancelOrigin: Link]

MeanValue == [count: Nat, sum: Number, max: Number,
              canceledSum: Nat, canceledMax: Nat,
              badnessSum: Nat, badnessMax: Nat, arg1: Link, arg2: Link]

ASSUME NullAssumption == NULL \notin MeanValue

Sample == [error: Number, canceled: Nat, badness: Nat, arg1: Link, arg2: Link]

TypeOK ==
    /\ values \in [Slots -> Value]
    /\ meanValues \in [Code -> MeanValue \cup {NULL}]
    /\ samples \in [Code -> Seq(Sample)]

Init ==
    /\ values = [s \in Slots |-> None]
    /\ meanValues = [k \in Code |-> NULL]
    /\ samples = [k \in Code |-> <<>>]

(* mpfr_cmp returns 0 when an operand is NaN; arithmetic passes NaN on.    *)
(* The difference of two infinite errors is NaN.                           *)
Exceeds(x, y) ==
    /\ NaN \notin {x, y} /\ x # y
    /\ x = Inf \/ y = NegInf \/ (x # NegInf /\ y # Inf /\ x > y)

Plus(x, y) ==
    IF NaN \in {x, y} THEN NaN ELSE IF Inf \in {x, y} THEN Inf ELSE x + y

Minus(x, y) ==
    IF NaN \in {x, y} \/ (x = Inf /\ y = Inf) THEN NaN
    ELSE IF x = Inf THEN Inf ELSE IF y = Inf THEN NegInf ELSE x - y

-----------------------------------------------------------------------------
FirstMean(s) ==
    [count |-> 1, sum |-> s.error, max |-> s.error,
     canceledSum |-> s.canceled, canceledMax |-> s.canceled,
     badnessSum |-> s.badness % Word, badnessMax |-> s.badness,
     arg1 |-> s.arg1, arg2 |-> s.arg2]

Larger(m, n) == IF n > m THEN n ELSE m

NextMean(mv, s, worst) ==
    [count |-> (mv.count + 1) % Word,
     sum |-> Plus(mv.sum, s.error),
     max |-> IF worst THEN s.error ELSE mv.max,
     canceledSum |-> mv.canceledSum + s.canceled,
     canceledMax |-> Larger(mv.canceledMax, s.canceled),
     badnessSum |-> (mv.badnessSum + s.badness) % Word,
     badnessMax |-> Larger(mv.badnessMax, s.badness),
     arg1 |-> IF worst THEN s.arg1 ELSE mv.arg1,
     arg2 |-> IF worst THEN s.arg2 ELSE mv.arg2]

(* (variant) An operation without an error is not recorded. *)
updateMeanSkipsAccurate(mv, s) ==
    IF mv # NULL THEN NextMean(mv, s, Exceeds(s.error, mv.max))
    ELSE IF s.error = 0 THEN NULL ELSE FirstMean(s)

(* (variant) The largest error is kept, the last operands are. *)
updateMeanLastOperands(mv, s) ==
    IF mv = NULL THEN FirstMean(s)
    ELSE [NextMean(mv, s, Exceeds(s.error, mv.max))
            EXCEPT !.arg1 = s.arg1, !.arg2 = s.arg2]

(* (variant) The first execution's badness is not added. *)
updateMeanDropsFirst(mv, s) ==
    IF mv = NULL THEN [FirstMean(s) EXCEPT !.badnessSum = 0]
    ELSE NextMean(mv, s, Exceeds(s.error, mv.max))

(* The operands of the first execution with the largest error are kept. *)
updateMeanValue(mv, s) ==
    IF mv = NULL THEN FirstMean(s) ELSE NextMean(mv, s, Exceeds(s.error, mv.max))

Operand(slot) == IF slot = NoSlot THEN None ELSE values[slot]

Executes(code, w, result, sample) ==
    /\ MapThenSumSet(LAMBDA k : Len(samples[k]), Code) < MaxSamples
    /\ values' = [values EXCEPT ![w] = result]
    /\ meanValues' = [meanValues EXCEPT ![code] = updateMeanValue(@, sample)]
    /\ samples' = [samples EXCEPT ![code] = Append(@, sample)]

(* (variant) The operation takes the blame for bits its operands canceled. *)
BlamedOnLast(code, bits, v1, v2) ==
    [origin |-> code, canceled |-> Larger(Larger(bits, v1.canceled), v2.canceled),
     cancelOrigin |-> code]

(* The result of an operation that cancels bits: the most bits canceled by *)
(* it or on the way to an operand, and where.                              *)
Blamed(code, bits, v1, v2) ==
    LET first == v1.canceled > bits
        most == Larger(bits, v1.canceled)
        second == v2.canceled > most
    IN  [origin |-> code,
         canceled |-> Larger(most, v2.canceled),
         cancelOrigin |-> IF second THEN v2.cancelOrigin
                          ELSE IF first THEN v1.cancelOrigin
                          ELSE code]

(* How many more bits are canceled than are exact in both operands. *)
Badness(bits, exact) == IF bits > 0 /\ bits > exact THEN bits - exact ELSE 0

(* processBinOp and processTriOp; bits is 0 for other operations than an   *)
(* addition or a subtraction.                                              *)
BinOp(code, w, a1, a2, e, bits, exact) ==
    Executes(code, w, Blamed(code, bits, Operand(a1), Operand(a2)),
        [error |-> e, canceled |-> bits, badness |-> Badness(bits, exact),
         arg1 |-> Operand(a1).origin, arg2 |-> Operand(a2).origin])

(* The only operand of processUnOp passes its cancellation on. *)
UnOp(code, w, a, e) ==
    Executes(code, w, [Operand(a) EXCEPT !.origin = code],
        [error |-> e, canceled |-> 0, badness |-> 0,
         arg1 |-> Operand(a).origin, arg2 |-> NoCode])

(* copyShadowValue. *)
Move(from, to) ==
    /\ values[from] # None
    /\ values' = [values EXCEPT ![to] = values[from]]
    /\ UNCHANGED <<meanValues, samples>>

(* A cell becomes inactive, or its superblock ends. *)
Drop(s) ==
    /\ values' = [values EXCEPT ![s] = None]
    /\ UNCHANGED <<meanValues, samples>>

(* resetShadowValues leaves the statistics alone. *)
Reset ==
    /\ values' = [s \in Slots |-> None]
    /\ UNCHANGED <<meanValues, samples>>

Arguments == Slots \cup {NoSlot}

Next ==
    \/ \E k \in Code, w \in Slots, a1, a2 \in Arguments, e \in Errors \cup Special,
          bits \in Bits, exact \in ExactBits : BinOp(k, w, a1, a2, e, bits, exact)
    \/ \E k \in Code, w \in Slots, a \in Arguments, e \in Errors \cup Special :
          UnOp(k, w, a, e)
    \/ \E s, t \in Slots : Move(s, t)
    \/ \E s \in Slots : Drop(s)
    \/ Reset

Spec == Init /\ [][Next]_vars

-----------------------------------------------------------------------------
(* getIntroducedError: how much of the largest error of an operation it    *)
(* made itself, given the largest errors of the operations its operands    *)
(* come from.                                                              *)

(* (variant) The error of the other operand is subtracted. *)
IntroducedByBothSwapped(key, mv, err1, err2) ==
    IF mv.arg1 = key /\ mv.arg2 = key THEN mv.max
    ELSE IF Exceeds(err1, err2)
    THEN IF Exceeds(mv.max, err1) \/ Exceeds(mv.max, err2)
         THEN IF mv.arg1 = key THEN mv.max ELSE Minus(mv.max, err2)
         ELSE Minus(mv.max, err2)
    ELSE IF Exceeds(mv.max, err2) \/ Exceeds(mv.max, err1)
    THEN IF mv.arg2 = key THEN mv.max ELSE Minus(mv.max, err2)
    ELSE Minus(mv.max, err1)

IntroducedByBoth(key, mv, err1, err2) ==
    IF mv.arg1 = key /\ mv.arg2 = key THEN mv.max
    ELSE IF Exceeds(err1, err2)
    THEN IF Exceeds(mv.max, err1) \/ Exceeds(mv.max, err2)
         THEN IF mv.arg1 = key THEN mv.max ELSE Minus(mv.max, err1)
         ELSE Minus(mv.max, err2)
    ELSE IF Exceeds(mv.max, err2) \/ Exceeds(mv.max, err1)
    THEN IF mv.arg2 = key THEN mv.max ELSE Minus(mv.max, err2)
    ELSE Minus(mv.max, err1)

IntroducedByOne(key, mv, arg, err) == IF arg = key THEN mv.max ELSE Minus(mv.max, err)

getIntroducedError(key, mv, table) ==
    IF mv.arg1 # NoCode /\ mv.arg2 # NoCode
    THEN IntroducedByBoth(key, mv, table[mv.arg1].max, table[mv.arg2].max)
    ELSE IF mv.arg1 # NoCode
    THEN IntroducedByOne(key, mv, mv.arg1, table[mv.arg1].max)
    ELSE IF mv.arg2 # NoCode
    THEN IntroducedByOne(key, mv, mv.arg2, table[mv.arg2].max)
    ELSE mv.max

-----------------------------------------------------------------------------
Recorded == {k \in Code : meanValues[k] # NULL}

(* Every operation that a shadow value or a record names has a record: the *)
(* assertions of getIntroducedError and writeOriginGraph hold at any time, *)
(* after any moves and resets.                                             *)
OriginsKnown ==
    /\ TypeOK
    /\ \A s \in Slots :
        {values[s].origin, values[s].cancelOrigin} \subseteq Recorded \cup {NoCode}
    /\ \A k \in Recorded :
        {meanValues[k].arg1, meanValues[k].arg2} \subseteq Recorded \cup {NoCode}

(* The operation a shadow value blames for canceled bits has canceled that *)
(* many: what printError names as the cancellation origin is listed with   *)
(* at least as many bits in the mean value report.                         *)
BlameIsJust ==
    \A s \in Slots : values[s].canceled > 0 =>
        /\ values[s].cancelOrigin \in Recorded
        /\ meanValues[values[s].cancelOrigin].canceledMax >= values[s].canceled

(* "compute mean and max error for each operation" (fd_main.c:143): no     *)
(* execution had a larger error than the maximum, infinite ones included,  *)
(* and the operands kept with it are those of an execution that had it.    *)
(* If the first error is NaN it stays the maximum, whatever follows        *)
(* (fd_main.c:437); a later NaN never becomes the maximum.                 *)
MaxIsWorst ==
    \A k \in Recorded :
        LET mv == meanValues[k]
            ss == samples[k]
        IN  /\ mv.max = NaN <=> ss[1].error = NaN
            /\ \A i \in DOMAIN ss : ~Exceeds(ss[i].error, mv.max)
            /\ \E i \in DOMAIN ss :
                /\ ss[i].error = mv.max
                /\ ss[i].arg1 = mv.arg1
                /\ ss[i].arg2 = mv.arg2

TotalBadness(ss) ==
    LET sum[n \in 0 .. Len(ss)] == IF n = 0 THEN 0 ELSE sum[n - 1] + ss[n].badness
    IN  sum[Len(ss)]

(* "avg (sum/(count*max))" (fd_main.c:3309): the average badness that      *)
(* writeMeanValues prints is the sum over the executions divided by their  *)
(* number times the maximum.  Counts, sums and the product are taken in a  *)
(* UInt: this holds as long as the number and the product stay below Word. *)
AverageAsLabelled ==
    \A k \in Recorded :
        LET mv == meanValues[k]
            executions == Len(samples[k])
            worst == Max({samples[k][i].badness : i \in DOMAIN samples[k]})
        IN  executions < Word /\ executions * worst < Word =>
            /\ mv.count = executions
            /\ mv.badnessSum = TotalBadness(samples[k])
            /\ (mv.count * mv.badnessMax) % Word = executions * worst

Swapped(mv) == [mv EXCEPT !.arg1 = mv.arg2, !.arg2 = mv.arg1]

(* What k made itself, if max is its largest error and others are those of *)
(* the operations its operands come from: not more than max, and not less  *)
(* by more than one of the others.  When an error that was infinite before *)
(* is still infinite, nothing can be said: the difference is NaN.          *)
Fair(intro, max, others) ==
    /\ intro = NaN <=> max = Inf /\ Inf \in others
    /\ intro # NaN =>
        /\ ~Exceeds(intro, max)
        /\ \E e \in others \cup {0} : ~Exceeds(Minus(max, e), intro)

(* The introduced error is fair and does not depend on the order of the    *)
(* operands, also for an operation that is its own operand, as long as no  *)
(* largest error is NaN.                                                   *)
IntroducedIsFair ==
    \A k \in Recorded :
        LET mv == meanValues[k]
            intro == getIntroducedError(k, mv, meanValues)
            others == {meanValues[a].max : a \in {mv.arg1, mv.arg2} \ {NoCode, k}}
        IN  NaN \notin others \cup {mv.max} =>
            /\ intro = getIntroducedError(k, Swapped(mv), meanValues)
            /\ Fair(intro, mv.max, others)

=============================================================================
