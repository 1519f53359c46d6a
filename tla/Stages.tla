--------------------------------- MODULE Stages ---------------------------------
(***************************************************************************)
(* Stages of src/valgrind/fpdebug/fd_main.c.  A guest brackets a part of   *)
(* its work, typically a loop body, with BEGIN_STAGE and END_STAGE.  While *)
(* a stage is active every store of a shadowed value records the largest   *)
(* relative error seen at its address; when the stage ends the recorded    *)
(* errors are compared with those of the stage's previous execution, and   *)
(* an address is reported when its error moved by more than it ever did    *)
(* between two executions.  CLEAR_STAGE forgets a stage.                   *)
(*                                                                         *)
(* A request that fails a tl_assert (BEGIN of an active stage, END of one  *)
(* that is not) ends the tool and is no step here.                         *)
(***************************************************************************)
EXTENDS Integers, Sequences, FiniteSets, FiniteSetsExt

CONSTANTS
    StageNums,    \* stage numbers a guest uses, out of MAX_STAGES
    Addrs,        \* memory addresses
    Errors,       \* finite relative errors
    NaN,          \* the error when the shadow value is not a finite number
    Inf,          \* the error when only the guest's value has overflowed
    NULL,
    Special,      \* which of NaN and Inf errors can be
    Clearing,     \* TRUE if the guest uses CLEAR_STAGE
    MaxCount      \* bound on the executions of a stage between two CLEARs,
                  \* on the number of CLEARs and on activeStages

ASSUME ErrorsAssumption == Errors \subseteq Nat /\ IsFiniteSet(Errors)
ASSUME SpecialAssumption ==
    /\ NaN \notin Nat /\ Inf \notin Nat /\ NaN # Inf
    /\ Special \subseteq {NaN, Inf}
ASSUME StageBounds == MaxCount \in Nat /\ Clearing \in BOOLEAN
ASSUME FiniteStages == IsFiniteSet(StageNums)

VARIABLES
    stages,        \* Stage, or NULL before the first BEGIN and after a CLEAR
    stageReports,  \* per stage and address, a report or NULL
    activeStages,  \* the counter that processStore looks at
    clears,        \* number of CLEARs (bounds the model)
    history        \* the errors recorded by the executions since the last CLEAR

vars == <<stages, stageReports, activeStages, clears, history>>

(* A table of errors is a function on the addresses it has nodes for. *)
EmptyTable == [a \in {} |-> NaN]

Number == Nat \cup {NaN, Inf}

(* A stage whose tables have nodes for the given addresses. *)
Stage(old, new, limits) ==
    [active: BOOLEAN, count: Nat,
     oldVals: [old -> Number] \cup {NULL},
     newVals: [new -> Number] \cup {NULL},
     limits: [limits -> Number]]

Report == [count: Nat, iterMin: Nat, iterMax: Nat]

ASSUME NullAssumption ==
    /\ NULL \notin Report
    /\ \A S, T, U \in SUBSET Addrs : NULL \notin [S -> Number] \cup Stage(S, T, U)

TypeOK ==
    /\ DOMAIN stages = StageNums
    /\ \A n \in StageNums : stages[n] # NULL =>
        /\ stages[n].active \in BOOLEAN
        /\ stages[n].count \in 0 .. MaxCount
        /\ DOMAIN stages[n].limits \subseteq Addrs
    /\ stageReports \in [StageNums -> [Addrs -> Report \cup {NULL}]]
    /\ activeStages \in 0 .. MaxCount
    /\ clears \in 0 .. MaxCount

Init ==
    /\ stages = [n \in StageNums |-> NULL]
    /\ stageReports = [n \in StageNums |-> [a \in Addrs |-> NULL]]
    /\ activeStages = 0
    /\ clears = 0
    /\ history = [n \in StageNums |-> <<>>]

Active(n) == stages[n] # NULL /\ stages[n].active

(* mpfr_cmp and mpfr_cmpabs return 0 when an operand is NaN. *)
Exceeds(x, y) ==
    NaN \notin {x, y} /\ x # y /\ (x = Inf \/ (y # Inf /\ x > y))

(* The difference of two infinite errors is NaN. *)
Drift(x, y) ==
    IF NaN \in {x, y} \/ (x = Inf /\ y = Inf) THEN NaN
    ELSE IF Inf \in {x, y} THEN Inf
    ELSE IF x > y THEN x - y ELSE y - x

Enter(table, a, e) == [b \in DOMAIN table \cup {a} |-> IF b = a THEN e ELSE table[b]]

-----------------------------------------------------------------------------
stageStart(n) ==
    /\ ~Active(n)
    /\ activeStages < MaxCount
    /\ activeStages' = activeStages + 1
    /\ IF stages[n] = NULL
       THEN stages' = [stages EXCEPT ![n] =
                [active |-> TRUE, count |-> 1, oldVals |-> NULL,
                 newVals |-> EmptyTable, limits |-> EmptyTable]]
       ELSE /\ stages[n].count < MaxCount
            /\ stages' = [stages EXCEPT
                ![n].active = TRUE,
                ![n].count = @ + 1,
                ![n].newVals = EmptyTable]
    /\ UNCHANGED <<stageReports, clears, history>>

(* The largest error of an address is kept; the first one always is. *)
Recorded(table, a, e) ==
    IF a \notin DOMAIN table \/ Exceeds(e, table[a]) THEN Enter(table, a, e) ELSE table

(* processStore has given address a a shadow value with relative error e. *)
updateStages(a, e) ==
    /\ activeStages > 0
    /\ stages' = [n \in StageNums |->
            IF Active(n)
            THEN [stages[n] EXCEPT !.newVals = Recorded(@, a, e)]
            ELSE stages[n]]
    /\ UNCHANGED <<stageReports, activeStages, clears, history>>

(* The addresses recorded by this execution and by the previous one, and   *)
(* by how much their errors differ.                                        *)
Mates(s) ==
    IF s.oldVals = NULL THEN {} ELSE DOMAIN s.newVals \cap DOMAIN s.oldVals

Moved(s, a) == Drift(s.oldVals[a], s.newVals[a])

Exceeding(s) ==
    {a \in Mates(s) \cap DOMAIN s.limits : Exceeds(Moved(s, a), s.limits[a])}

(* (variant) The first limit of an address stays. *)
NewLimitsFixed(s) ==
    [a \in DOMAIN s.limits \cup Mates(s) |->
        IF a \in DOMAIN s.limits THEN s.limits[a] ELSE Moved(s, a)]

(* The first drift of an address is its limit, a larger one the next. *)
NewLimits(s) ==
    [a \in DOMAIN s.limits \cup Mates(s) |->
        IF a \in Exceeding(s) \/ a \notin DOMAIN s.limits
        THEN Moved(s, a)
        ELSE s.limits[a]]

(* (variant) The end of the range is not moved. *)
ReportedWithoutEnd(report, count) ==
    IF report = NULL
    THEN [count |-> 1, iterMin |-> count, iterMax |-> count]
    ELSE [report EXCEPT !.count = @ + 1]

Reported(report, count) ==
    IF report = NULL
    THEN [count |-> 1, iterMin |-> count, iterMax |-> count]
    ELSE [report EXCEPT !.count = @ + 1, !.iterMax = count]

stageEnd(n) ==
    /\ Active(n)
    /\ LET s == stages[n] IN
        /\ stageReports' = [stageReports EXCEPT ![n] = [a \in Addrs |->
                IF a \in Exceeding(s) THEN Reported(@[a], s.count) ELSE @[a]]]
        /\ stages' = [stages EXCEPT ![n] =
                [s EXCEPT !.active = FALSE, !.limits = NewLimits(s),
                          !.oldVals = s.newVals, !.newVals = NULL]]
        /\ history' = [history EXCEPT ![n] = Append(@, s.newVals)]
    /\ activeStages' = activeStages - 1
    /\ UNCHANGED clears

(* (variant) The counter of active stages is decremented for any stage. *)
stageClearDecrements(n) ==
    /\ Clearing
    /\ clears < MaxCount
    /\ stages[n] # NULL
    /\ stages' = [stages EXCEPT ![n] = NULL]
    /\ clears' = clears + 1
    /\ history' = [history EXCEPT ![n] = <<>>]
    /\ activeStages' = IF activeStages > 0 THEN activeStages - 1 ELSE 0
    /\ UNCHANGED stageReports

(* (variant) The stage and its tables stay. *)
stageClearKeepsTables(n) ==
    /\ Clearing
    /\ clears < MaxCount
    /\ stages[n] # NULL
    /\ stages' = [stages EXCEPT ![n].active = FALSE, ![n].count = 0]
    /\ clears' = clears + 1
    /\ history' = [history EXCEPT ![n] = <<>>]
    /\ UNCHANGED <<stageReports, activeStages>>

(* The reports and the counter of active stages stay as they are. *)
stageClear(n) ==
    /\ Clearing
    /\ clears < MaxCount
    /\ stages[n] # NULL
    /\ stages' = [stages EXCEPT ![n] = NULL]
    /\ clears' = clears + 1
    /\ history' = [history EXCEPT ![n] = <<>>]
    /\ UNCHANGED <<stageReports, activeStages>>

Next ==
    \/ \E n \in StageNums : stageStart(n) \/ stageEnd(n) \/ stageClear(n)
    \/ \E a \in Addrs, e \in Errors \cup Special : updateStages(a, e)

Spec == Init /\ [][Next]_vars

-----------------------------------------------------------------------------
(* processStore calls updateStages only if activeStages > 0: no stage that *)
(* is active is ever skipped, whatever was cleared before.                 *)
NoStageSkipped ==
    Cardinality({n \in StageNums : Active(n)}) <= activeStages

(* A stage has a table to record errors in exactly while it is active, and *)
(* the previous execution's table as soon as one has ended: END never      *)
(* compares with an execution before a CLEAR or with itself.               *)
TablesFollowLifecycle ==
    /\ TypeOK
    /\ \A n \in StageNums : stages[n] # NULL =>
        LET s == stages[n]
            ended == IF s.active THEN s.count - 1 ELSE s.count
        IN  /\ s.active <=> s.newVals # NULL
            /\ Len(history[n]) = ended
            /\ s.oldVals = (IF ended = 0 THEN NULL ELSE history[n][ended])

(* The executions h of a stage after which address a had a drift, up to    *)
(* the last, and that drift.                                               *)
Compared(h, a, last) == {i \in 2 .. last : a \in DOMAIN h[i - 1] \cap DOMAIN h[i]}

DriftAt(h, a, i) == Drift(h[i - 1][a], h[i][a])

LargestOf(drifts) == CHOOSE d \in drifts \ {NaN} : \A e \in drifts : ~Exceeds(e, d)

(* "adjust limit for the following iterations" (fd_main.c:518): the limit  *)
(* of an address is the largest drift between any two consecutive          *)
(* executions that both recorded it, which may be infinite.  If the first  *)
(* drift is NaN it stays the limit, since nothing compares as larger.      *)
LimitAfter(h, a, last) ==
    LET drifts == {DriftAt(h, a, i) : i \in Compared(h, a, last)}
    IN  IF DriftAt(h, a, Min(Compared(h, a, last))) = NaN THEN NaN
        ELSE LargestOf(drifts)

LimitIsLargestDrift ==
    \A n \in StageNums : stages[n] # NULL => \A a \in Addrs :
        LET last == Len(history[n]) IN
        IF Compared(history[n], a, last) = {} THEN a \notin DOMAIN stages[n].limits
        ELSE /\ a \in DOMAIN stages[n].limits
             /\ stages[n].limits[a] = LimitAfter(history[n], a, last)

(* An address is reported once for each execution whose drift exceeds      *)
(* every earlier one, the first drift apart, as long as no stage has been  *)
(* cleared.                                                                *)
Records(h, a) ==
    {i \in Compared(h, a, Len(h)) :
        /\ Compared(h, a, i - 1) # {}
        /\ Exceeds(DriftAt(h, a, i), LimitAfter(h, a, i - 1))}

ReportsAreRecords ==
    clears = 0 => \A n \in StageNums, a \in Addrs :
        LET recs == Records(history[n], a) IN
        stageReports[n][a] =
            IF recs = {} THEN NULL
            ELSE [count |-> Cardinality(recs), iterMin |-> Min(recs),
                  iterMax |-> Max(recs)]

(* "executions: [%u, %u]" (fd_main.c:3421): what a report gives is a range *)
(* of executions with room for all those it counts.                        *)
ReportsAreRanges ==
    \A n \in StageNums, a \in Addrs :
        LET r == stageReports[n][a] IN
        r # NULL => r.iterMin <= r.iterMax /\ r.count <= r.iterMax - r.iterMin + 1

=============================================================================
