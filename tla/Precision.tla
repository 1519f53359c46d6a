------------------------------- MODULE Precision -------------------------------
(***************************************************************************)
(* The precisions with which src/valgrind/fpdebug/fd_main.c computes when  *)
(* --sim-original asks for that of the guest.  The precision of a shadow   *)
(* value and those of the numbers that hold the operands are set by each   *)
(* operation; copies take over the precision of the original.  All three   *)
(* kinds of operations look at the operation in binOpArgs, the arguments   *)
(* of the last binary operation that was instrumented.                     *)
(*                                                                         *)
(* A temporary, a register and a place in memory are not distinguished.    *)
(* Which of them have a shadow value at all is Superblock's business.      *)
(***************************************************************************)
EXTENDS Integers

CONSTANTS
    Places,   \* temporaries, registers and places in memory
    None      \* the precision of no shadow value

(* clo_precision, whose default is 120. *)
CONSTANT Default

Float == 24
Double == 53
Widths == {Float, Double}
Kinds == {"unary", "binary", "ternary"}
NoOperation == [kind |-> "none", width |-> Double, args |-> {}, res |-> Double]

VARIABLES
    clo_simulateOriginal,
    clo_analyze,
    prec,      \* per place: the precision of its shadow value
    binOp,     \* the width that isOpFloat finds in binOpArgs
    computed,  \* the operation computed last and its precisions
    widths,    \* widths of the operations executed so far
    first      \* kind of the first one

vars == <<clo_simulateOriginal, clo_analyze, prec, binOp, computed, widths, first>>

(* binOpArgs is allocated and not initialized. *)
Init ==
    /\ clo_simulateOriginal \in BOOLEAN
    /\ clo_analyze \in BOOLEAN
    /\ prec = [p \in Places |-> None]
    /\ binOp \in Widths
    /\ computed = NoOperation
    /\ widths = {}
    /\ first = "none"

-----------------------------------------------------------------------------
(* readSTemp: the format in which an operand without a shadow value is     *)
(* read.  In a vector the second word decides.                             *)
readSTemp(type, secondIsZero) ==
    CASE type = "F32" -> Float
      [] type = "F64" -> Double
      [] type = "V128" -> IF secondIsZero THEN Float ELSE Double

(* An operand is a constant, has a shadow value or is read from the guest. *)
Operands ==
    {[from |-> "constant"]}
        \cup [from : {"shadow"}, place : {p \in Places : prec[p] # None}]
        \cup [from : {"guest"}, type : {"F32", "F64", "V128"}, secondIsZero : BOOLEAN]

(* The precision of the number that holds an operand: set before it is     *)
(* known, and set again only by readSTemp.                                 *)
OperandPrecision(operand, set) ==
    IF ~clo_simulateOriginal THEN Default
    ELSE IF operand.from = "guest" THEN readSTemp(operand.type, operand.secondIsZero)
    ELSE set

(* (variant) A result keeps the precision that its place had. *)
ResultPrecisionKept(set, old) ==
    IF clo_simulateOriginal /\ old = None THEN set ELSE IF old = None THEN Default ELSE old

ResultPrecision(set, old) == IF clo_simulateOriginal THEN set ELSE Default

(* An operation of a width, with set as the width that it finds in         *)
(* binOpArgs.  While the tool does not analyze, nothing is computed.       *)
Operation(kind, width, set, operands, dst) ==
    /\ widths' = widths \cup {width}
    /\ first' = IF first = "none" THEN kind ELSE first
    /\ LET res == ResultPrecision(set, prec[dst])
       IN  IF clo_analyze
           THEN /\ prec' = [prec EXCEPT ![dst] = res]
                /\ computed' = [kind |-> kind, width |-> width, res |-> res,
                                args |-> {OperandPrecision(o, set) : o \in operands}]
           ELSE /\ prec' = [prec EXCEPT ![dst] = None]
                /\ UNCHANGED computed
    /\ UNCHANGED <<clo_simulateOriginal, clo_analyze>>

(* The instrumentation stores the operation before it calls processBinOp.  *)
processBinOp(width, left, right, dst) ==
    /\ binOp' = width
    /\ Operation("binary", width, width, {left, right}, dst)

processUnOp(width, arg, dst) ==
    /\ Operation("unary", width, binOp, {arg}, dst)
    /\ UNCHANGED binOp

(* Ternary operations are on doubles. *)
processTriOp(left, right, dst) ==
    /\ Operation("ternary", Double, binOp, {left, right}, dst)
    /\ UNCHANGED binOp

(* A value is moved, loaded, stored or selected; a conversion between      *)
(* float and double is a move.                                             *)
copyShadowValue(src, dst) ==
    /\ clo_analyze
    /\ src # dst
    /\ prec' = [prec EXCEPT ![dst] =
                    IF prec[src] # None /\ ~clo_simulateOriginal THEN Default ELSE prec[src]]
    /\ UNCHANGED <<clo_simulateOriginal, clo_analyze, binOp, computed, widths, first>>

(* VALGRIND_BEGIN and VALGRIND_END. *)
SwitchAnalysis ==
    /\ clo_analyze' = ~clo_analyze
    /\ UNCHANGED <<clo_simulateOriginal, prec, binOp, computed, widths, first>>

Next ==
    \/ \E width \in Widths, left, right \in Operands, dst \in Places :
            processBinOp(width, left, right, dst)
    \/ \E width \in Widths, arg \in Operands, dst \in Places : processUnOp(width, arg, dst)
    \/ \E left, right \in Operands, dst \in Places : processTriOp(left, right, dst)
    \/ \E src, dst \in Places : copyShadowValue(src, dst)
    \/ SwitchAnalysis

Spec == Init /\ [][Next]_vars

-----------------------------------------------------------------------------
(* "simulate original precision" (fd_main.c:146): the result of an         *)
(* operation has the precision of the guest's.                             *)
SimulatesOriginal == clo_simulateOriginal => computed.res = computed.width

(* What can be said instead: if the first operation of a program is a      *)
(* binary one, every shadow value, whether copied, computed or             *)
(* overwritten, and across parts of the run that are not analyzed, has the *)
(* width of an operation executed so far, so that a program with           *)
(* operations of one width is simulated; the operations of any program     *)
(* round to one of the two widths, and a binary one to its own; and        *)
(* without the option every shadow value has the precision asked for.      *)
OneWidthIsSimulated ==
    LET kept == {prec[p] : p \in Places} \ {None}
    IN  IF ~clo_simulateOriginal
        THEN kept \subseteq {Default}
        ELSE /\ kept \subseteq Widths
             /\ computed.kind = "binary" => computed.res = computed.width
             /\ first = "binary" => kept \subseteq widths
=============================================================================
