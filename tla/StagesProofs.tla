----------------------------- MODULE StagesProofs -----------------------------
(***************************************************************************)
(* Proofs about Stages: no active stage is ever skipped, END_STAGE         *)
(* compares the execution that ends with the one before it, the limit of   *)
(* an address is the largest drift it ever had, and the reports count the  *)
(* executions that exceeded every earlier drift.                           *)
(***************************************************************************)
EXTENDS Stages, FiniteSetTheorems, TLAPS

ActiveSet == {n \in StageNums : Active(n)}

(* A stage is a record with the fields of Stage. *)
WellFormed(s) ==
    s = [active |-> s.active, count |-> s.count, oldVals |-> s.oldVals,
         newVals |-> s.newVals, limits |-> s.limits]

(* The counter is no less than the number of active stages. *)
SkipInv ==
    /\ stages = [n \in StageNums |-> stages[n]]
    /\ \A n \in StageNums : stages[n] # NULL => WellFormed(stages[n])
    /\ activeStages \in Nat
    /\ Cardinality(ActiveSet) <= activeStages

LEMMA ActiveFinite ==
    /\ IsFiniteSet(ActiveSet) /\ Cardinality(ActiveSet) \in Nat
    /\ IsFiniteSet(ActiveSet') /\ Cardinality(ActiveSet') \in Nat
<1>1. ActiveSet \subseteq StageNums /\ ActiveSet' \subseteq StageNums
  BY DEF ActiveSet
<1> QED BY <1>1, FiniteStages, FS_Subset, FS_CardinalityType

LEMMA InitSkips == Init => SkipInv
<1> SUFFICES ASSUME Init PROVE SkipInv
  OBVIOUS
<1>1. ActiveSet = {}
  BY DEF Init, ActiveSet, Active
<1> QED BY <1>1, FS_EmptySet DEF Init, SkipInv

LEMMA NextSkips == SkipInv /\ [Next]_vars => SkipInv'
<1> SUFFICES ASSUME SkipInv, [Next]_vars PROVE SkipInv'
  OBVIOUS
<1>1. ASSUME NEW n \in StageNums, stageStart(n) PROVE SkipInv'
  <2>1. /\ activeStages' = activeStages + 1
        /\ stages' = [m \in StageNums |-> stages'[m]]
        /\ \A m \in StageNums \ {n} : stages'[m] = stages[m]
    BY <1>1 DEF stageStart, SkipInv
  <2>2. WellFormed(stages'[n])
    <3>1. CASE stages[n] = NULL
      BY <1>1, <3>1 DEF stageStart, SkipInv, WellFormed
    <3>2. CASE stages[n] # NULL
      <4>1. stages'[n] = [stages[n] EXCEPT !.active = TRUE, !.count = @ + 1,
                                           !.newVals = EmptyTable]
        BY <1>1, <3>2 DEF stageStart, SkipInv
      <4>2. WellFormed(stages[n])
        BY <3>2 DEF SkipInv
      <4> QED BY <4>1, <4>2 DEF WellFormed
    <3> QED BY <3>1, <3>2
  <2>3. ActiveSet' \subseteq ActiveSet \cup {n}
    BY <2>1 DEF ActiveSet, Active
  <2>4. /\ IsFiniteSet(ActiveSet \cup {n})
        /\ Cardinality(ActiveSet \cup {n}) <= Cardinality(ActiveSet) + 1
    <3>1. IsFiniteSet(ActiveSet) /\ Cardinality(ActiveSet) \in Nat
      BY ActiveFinite
    <3>2. /\ IsFiniteSet(ActiveSet \cup {n})
          /\ \/ Cardinality(ActiveSet \cup {n}) = Cardinality(ActiveSet)
             \/ Cardinality(ActiveSet \cup {n}) = Cardinality(ActiveSet) + 1
      BY <3>1, FS_AddElement
    <3> QED BY <3>1, <3>2
  <2>5. Cardinality(ActiveSet') <= Cardinality(ActiveSet \cup {n})
    BY <2>3, <2>4, FS_Subset
  <2>6. Cardinality(ActiveSet \cup {n}) \in Nat
    BY <2>4, FS_CardinalityType
  <2> QED BY <2>1, <2>4, <2>5, <2>2, <2>6, ActiveFinite DEF SkipInv
<1>2. ASSUME NEW n \in StageNums, stageEnd(n) PROVE SkipInv'
  <2>1. /\ n \in ActiveSet
        /\ activeStages' = activeStages - 1
        /\ stages' = [m \in StageNums |-> stages'[m]]
        /\ \A m \in StageNums \ {n} : stages'[m] = stages[m]
    BY <1>2 DEF stageEnd, SkipInv, ActiveSet
  <2>2. stages'[n].active = FALSE /\ WellFormed(stages'[n])
    <3>1. WellFormed(stages[n])
      BY <1>2 DEF stageEnd, SkipInv, Active
    <3>2. stages'[n] = [stages[n] EXCEPT !.active = FALSE, !.limits = NewLimits(stages[n]),
                            !.oldVals = stages[n].newVals, !.newVals = NULL]
      BY <1>2 DEF stageEnd, SkipInv
    <3> QED BY <3>1, <3>2 DEF WellFormed
  <2>3. ActiveSet' \subseteq ActiveSet \ {n}
    BY <2>1, <2>2 DEF ActiveSet, Active
  <2>4. /\ IsFiniteSet(ActiveSet \ {n})
        /\ Cardinality(ActiveSet \ {n}) \in Nat
        /\ Cardinality(ActiveSet \ {n}) = Cardinality(ActiveSet) - 1
    BY <2>1, ActiveFinite, FS_RemoveElement, FS_CardinalityType
  <2>5. Cardinality(ActiveSet') <= Cardinality(ActiveSet \ {n})
    BY <2>3, <2>4, FS_Subset
  <2> QED BY <2>1, <2>2, <2>4, <2>5, ActiveFinite DEF SkipInv
<1>3. ASSUME NEW n \in StageNums, stageClear(n) PROVE SkipInv'
  <2>1. /\ activeStages' = activeStages
        /\ stages' = [stages EXCEPT ![n] = NULL]
    BY <1>3 DEF stageClear
  <2>2. ActiveSet' \subseteq ActiveSet
    BY <2>1 DEF ActiveSet, Active, SkipInv
  <2>3. Cardinality(ActiveSet') <= Cardinality(ActiveSet)
    BY <2>2, ActiveFinite, FS_Subset
  <2> QED BY <2>1, <2>3, ActiveFinite DEF SkipInv
<1>4. ASSUME NEW a \in Addrs, NEW e \in Errors \cup Special, updateStages(a, e)
      PROVE  SkipInv'
  <2>1. /\ activeStages' = activeStages
        /\ stages' = [n \in StageNums |-> stages'[n]]
        /\ \A n \in StageNums : ~Active(n) => stages'[n] = stages[n]
    BY <1>4 DEF updateStages
  <2>2. ASSUME NEW n \in StageNums, Active(n) PROVE WellFormed(stages'[n])
    <3>1. WellFormed(stages[n])
      BY <2>2 DEF SkipInv, Active
    <3>2. stages'[n] = [stages[n] EXCEPT !.newVals = Recorded(@, a, e)]
      BY <1>4, <2>2 DEF updateStages
    <3> QED BY <3>1, <3>2 DEF WellFormed
  <2>3. \A n \in StageNums : stages'[n] # NULL => WellFormed(stages'[n])
    BY <2>1, <2>2 DEF SkipInv
  <2>4. ActiveSet' \subseteq ActiveSet
    BY <2>1 DEF ActiveSet, Active
  <2>5. Cardinality(ActiveSet') <= Cardinality(ActiveSet)
    BY <2>4, ActiveFinite, FS_Subset
  <2> QED BY <2>1, <2>5, <2>3, ActiveFinite DEF SkipInv
<1>5. CASE UNCHANGED vars
  <2>1. ActiveSet' = ActiveSet
    BY <1>5 DEF vars, ActiveSet, Active
  <2> QED BY <1>5, <2>1 DEF vars, SkipInv
<1> QED BY <1>1, <1>2, <1>3, <1>4, <1>5 DEF Next

(* processStore calls updateStages only if activeStages > 0: as long as a  *)
(* stage is active, it is.                                                 *)
THEOREM ActiveStagesCounted == Spec => []NoStageSkipped
<1>1. SkipInv => NoStageSkipped
  BY DEF SkipInv, NoStageSkipped, ActiveSet
<1> QED BY <1>1, InitSkips, NextSkips, PTL DEF Spec

-----------------------------------------------------------------------------
Table == UNION {[S -> Number] : S \in SUBSET Addrs}

StageRecord ==
    [active: BOOLEAN, count: Nat, oldVals: Table \cup {NULL},
     newVals: Table \cup {NULL}, limits: Table]

(* The tables of the stages and of the executions that have ended. *)
StageTypes ==
    /\ stages \in [StageNums -> StageRecord \cup {NULL}]
    /\ history \in [StageNums -> Seq(Table)]
    /\ \A n \in StageNums : stages[n] = NULL => history[n] = <<>>

FollowInv == SkipInv /\ StageTypes /\ TablesFollowLifecycle

LEMMA TableDomain ==
    ASSUME NEW t \in Table
    PROVE  DOMAIN t \in SUBSET Addrs /\ t \in [DOMAIN t -> Number]
BY DEF Table

LEMMA IsTable ==
    ASSUME NEW S \in SUBSET Addrs, NEW t \in [S -> Number]
    PROVE  t \in Table
BY DEF Table

LEMMA NullIsNoTable == NULL \notin Table /\ NULL \notin StageRecord
<1>1. NULL \notin Table
  BY NullAssumption DEF Table
<1>2. ASSUME NULL \in StageRecord PROVE FALSE
  <2>1. PICK old \in Table \cup {NULL}, new \in Table \cup {NULL}, lim \in Table,
             active \in BOOLEAN, count \in Nat :
          NULL = [active |-> active, count |-> count, oldVals |-> old,
                  newVals |-> new, limits |-> lim]
    BY <1>2 DEF StageRecord
  <2>2. PICK S \in SUBSET Addrs : old \in [S -> Number] \cup {NULL}
    BY TableDomain
  <2>3. PICK T \in SUBSET Addrs : new \in [T -> Number] \cup {NULL}
    BY TableDomain
  <2>4. PICK U \in SUBSET Addrs : lim \in [U -> Number]
    BY TableDomain
  <2>5. NULL \in Stage(S, T, U)
    BY <2>1, <2>2, <2>3, <2>4 DEF Stage
  <2> QED BY <2>5, NullAssumption
<1> QED BY <1>1, <1>2

LEMMA EmptyIsTable == EmptyTable \in Table
<1>1. EmptyTable \in [{} -> Number]
  BY DEF EmptyTable
<1> QED BY <1>1, IsTable

LEMMA RecordedIsTable ==
    ASSUME NEW t \in Table, NEW a \in Addrs, NEW e \in Number
    PROVE  Recorded(t, a, e) \in Table
<1>1. DOMAIN t \in SUBSET Addrs /\ t \in [DOMAIN t -> Number]
  BY TableDomain
<1>2. Enter(t, a, e) \in [DOMAIN t \cup {a} -> Number]
  BY <1>1 DEF Enter
<1>3. Enter(t, a, e) \in Table
  BY <1>1, <1>2, IsTable
<1> QED BY <1>3 DEF Recorded

LEMMA DriftIsNumber ==
    ASSUME NEW x \in Number, NEW y \in Number
    PROVE  Drift(x, y) \in Number
BY SpecialAssumption DEF Drift, Number

(* Errors and drifts that are not NaN are in an order. *)
LEMMA Trichotomy ==
    ASSUME NEW x \in Number \ {NaN}, NEW y \in Number \ {NaN}
    PROVE  x = y \/ Exceeds(x, y) \/ Exceeds(y, x)
BY SpecialAssumption DEF Exceeds, Number

LEMMA ExceedsIsTransitive ==
    ASSUME NEW x \in Number, NEW y \in Number, NEW z \in Number \ {NaN},
           ~Exceeds(x, y), Exceeds(z, y)
    PROVE  ~Exceeds(x, z)
BY SpecialAssumption DEF Exceeds, Number

LEMMA LimitsAreTable ==
    ASSUME NEW s \in StageRecord, s.newVals # NULL
    PROVE  NewLimits(s) \in Table
<1>1. s.limits \in Table /\ s.newVals \in Table /\ s.oldVals \in Table \cup {NULL}
  BY DEF StageRecord
<1>2. /\ DOMAIN s.limits \in SUBSET Addrs
      /\ \A a \in DOMAIN s.limits : s.limits[a] \in Number
  BY <1>1, TableDomain
<1>3. \A a \in Mates(s) : a \in Addrs /\ Moved(s, a) \in Number
  <2> SUFFICES ASSUME NEW a \in Mates(s) PROVE a \in Addrs /\ Moved(s, a) \in Number
    OBVIOUS
  <2>1. /\ s.oldVals \in Table
        /\ a \in DOMAIN s.newVals /\ a \in DOMAIN s.oldVals
    BY <1>1 DEF Mates
  <2>2. a \in Addrs /\ s.oldVals[a] \in Number /\ s.newVals[a] \in Number
    BY <1>1, <2>1, TableDomain
  <2> QED BY <2>2, DriftIsNumber DEF Moved
<1>4. NewLimits(s) \in [DOMAIN s.limits \cup Mates(s) -> Number]
  BY <1>2, <1>3 DEF NewLimits, Exceeding
<1>5. DOMAIN s.limits \cup Mates(s) \in SUBSET Addrs
  BY <1>2, <1>3
<1> HIDE DEF NewLimits, Mates
<1> QED BY <1>4, <1>5, IsTable

LEMMA ReportedIsReport ==
    ASSUME NEW r \in Report \cup {NULL}, NEW count \in Nat
    PROVE  Reported(r, count) \in Report
<1>1. CASE r = NULL
  BY <1>1 DEF Reported, Report
<1>2. CASE r # NULL
  <2>1. Reported(r, count) = [count |-> r.count + 1, iterMin |-> r.iterMin, iterMax |-> count]
    BY <1>2 DEF Reported, Report
  <2>2. r.count + 1 \in Nat /\ r.iterMin \in Nat
    BY <1>2 DEF Report
  <2> QED BY <2>1, <2>2 DEF Report
<1> QED BY <1>1, <1>2

LEMMA InitFollows == Init => FollowInv
<1> SUFFICES ASSUME Init PROVE FollowInv
  OBVIOUS
<1>1. TypeOK
  BY StageBounds DEF Init, TypeOK
<1> QED BY <1>1, InitSkips DEF Init, FollowInv, StageTypes, TablesFollowLifecycle

(* What an active stage knows of its executions. *)
LEMMA ActiveStage ==
    ASSUME FollowInv, NEW n \in StageNums, Active(n)
    PROVE  /\ stages[n] \in StageRecord /\ stages[n].active
           /\ stages[n].newVals \in Table /\ stages[n].newVals # NULL
           /\ history[n] \in Seq(Table)
           /\ stages[n].count \in Nat /\ stages[n].count = Len(history[n]) + 1
           /\ stages[n].oldVals =
                 IF history[n] = <<>> THEN NULL ELSE history[n][Len(history[n])]
<1>1. stages[n] \in StageRecord /\ stages[n].active
  BY DEF FollowInv, StageTypes, Active
<1>2. /\ stages[n].newVals \in Table \cup {NULL}
      /\ stages[n].count \in Nat
  BY <1>1 DEF StageRecord
<1>3. /\ stages[n].newVals # NULL
      /\ Len(history[n]) = stages[n].count - 1
      /\ stages[n].oldVals =
            IF stages[n].count - 1 = 0 THEN NULL ELSE history[n][stages[n].count - 1]
  BY <1>1 DEF FollowInv, TablesFollowLifecycle, Active
<1>4. history[n] \in Seq(Table)
  BY DEF FollowInv, StageTypes
<1> QED BY <1>1, <1>2, <1>3, <1>4

LEMMA NextFollows == FollowInv /\ [Next]_vars => FollowInv'
<1> SUFFICES ASSUME FollowInv, [Next]_vars PROVE FollowInv'
  OBVIOUS
<1>1. SkipInv'
  BY NextSkips DEF FollowInv
<1>2. /\ TypeOK /\ StageTypes /\ SkipInv
      /\ NULL \notin Table /\ NULL \notin StageRecord
  BY NullIsNoTable DEF FollowInv, TablesFollowLifecycle
<1>3. ASSUME NEW n \in StageNums, stageStart(n) PROVE FollowInv'
  <2>1. /\ history' = history /\ stageReports' = stageReports /\ clears' = clears
        /\ activeStages' = activeStages + 1 /\ activeStages < MaxCount
        /\ DOMAIN stages' = StageNums
        /\ stages' = [m \in StageNums |-> stages'[m]]
        /\ \A m \in StageNums \ {n} : stages'[m] = stages[m]
    BY <1>2, <1>3 DEF stageStart, StageTypes
  <2>2. /\ stages'[n] \in StageRecord
        /\ stages'[n].active
        /\ stages'[n].newVals = EmptyTable
        /\ stages'[n].count = Len(history[n]) + 1
        /\ stages'[n].count \in 0 .. MaxCount
        /\ DOMAIN stages'[n].limits \subseteq Addrs
        /\ stages'[n].oldVals =
              IF history[n] = <<>> THEN NULL ELSE history[n][Len(history[n])]
    <3>1. CASE stages[n] = NULL
      <4>1. stages'[n] = [active |-> TRUE, count |-> 1, oldVals |-> NULL,
                          newVals |-> EmptyTable, limits |-> EmptyTable]
        BY <1>2, <1>3, <3>1 DEF stageStart, StageTypes
      <4>2. history[n] = <<>> /\ Len(history[n]) = 0
        BY <1>2, <3>1 DEF StageTypes
      <4>3. activeStages \in Nat
        BY <1>2 DEF SkipInv
      <4> QED BY <2>1, <4>1, <4>2, <4>3, EmptyIsTable, StageBounds DEF StageRecord, EmptyTable
    <3>2. CASE stages[n] # NULL
      <4>1. stages'[n] = [stages[n] EXCEPT !.active = TRUE, !.count = @ + 1,
                                           !.newVals = EmptyTable]
        BY <1>2, <1>3, <3>2 DEF stageStart, StageTypes
      <4>2. /\ stages[n] \in StageRecord /\ ~stages[n].active
            /\ history[n] \in Seq(Table)
            /\ stages[n].count < MaxCount
        BY <1>2, <1>3, <3>2 DEF stageStart, StageTypes, Active
      <4>3. /\ stages[n].count = Len(history[n])
            /\ DOMAIN stages[n].limits \subseteq Addrs
            /\ stages[n].oldVals =
                  IF stages[n].count = 0 THEN NULL ELSE history[n][stages[n].count]
        BY <3>2, <4>2 DEF FollowInv, TablesFollowLifecycle, TypeOK
      <4>4. /\ history[n] = <<>> <=> stages[n].count = 0
            /\ stages[n].count \in Nat
        BY <4>2, <4>3 DEF StageRecord
      <4>5. stages'[n] \in StageRecord
        <5>1. stages'[n] = [active |-> TRUE, count |-> stages[n].count + 1,
                            oldVals |-> stages[n].oldVals, newVals |-> EmptyTable,
                            limits |-> stages[n].limits]
          BY <4>1, <4>2 DEF StageRecord
        <5>2. /\ stages[n].count + 1 \in Nat /\ stages[n].limits \in Table
              /\ stages[n].oldVals \in Table \cup {NULL}
          BY <4>2 DEF StageRecord
        <5> QED BY <5>1, <5>2, EmptyIsTable DEF StageRecord
      <4>6. /\ stages'[n].active /\ stages'[n].newVals = EmptyTable
            /\ stages'[n].count = stages[n].count + 1
            /\ stages'[n].limits = stages[n].limits
            /\ stages'[n].oldVals = stages[n].oldVals
        BY <4>1, <4>2 DEF StageRecord
      <4> QED BY <4>2, <4>3, <4>4, <4>5, <4>6, StageBounds
    <3> QED BY <3>1, <3>2
  <2>3. StageTypes'
    BY <1>2, <2>1, <2>2 DEF StageTypes
  <2>4. TypeOK'
    <3>1. activeStages + 1 \in 0 .. MaxCount
      BY <1>2, <2>1, StageBounds DEF TypeOK
    <3> QED BY <1>2, <2>1, <2>2, <3>1 DEF TypeOK, StageRecord
  <2>5. /\ history[n] \in Seq(Table)
        /\ EmptyTable # NULL
    BY <1>2, EmptyIsTable DEF StageTypes
  <2>6. TablesFollowLifecycle'
    BY <1>2, <2>1, <2>2, <2>4, <2>5 DEF FollowInv, TablesFollowLifecycle
  <2> QED BY <1>1, <2>3, <2>6 DEF FollowInv
<1>4. ASSUME NEW n \in StageNums, stageEnd(n) PROVE FollowInv'
  <2> DEFINE s == stages[n]
  <2>1. Active(n)
    BY <1>4 DEF stageEnd
  <2>2. /\ clears' = clears
        /\ activeStages' = activeStages - 1
        /\ DOMAIN stages' = StageNums
        /\ \A m \in StageNums \ {n} : stages'[m] = stages[m] /\ history'[m] = history[m]
        /\ history'[n] = Append(history[n], s.newVals)
        /\ DOMAIN history' = StageNums
        /\ history' = [m \in StageNums |-> history'[m]]
        /\ stages' = [m \in StageNums |-> stages'[m]]
    BY <1>2, <1>4 DEF stageEnd, StageTypes
  <2>3. /\ s \in StageRecord /\ s.active
        /\ s.newVals \in Table /\ s.newVals # NULL
        /\ history[n] \in Seq(Table)
        /\ s.count \in Nat /\ s.count = Len(history[n]) + 1
    BY <2>1, ActiveStage
  <2>4. stages'[n] = [s EXCEPT !.active = FALSE, !.limits = NewLimits(s),
                               !.oldVals = s.newVals, !.newVals = NULL]
    BY <1>2, <1>4 DEF stageEnd, StageTypes
  <2>5. NewLimits(s) \in Table /\ DOMAIN NewLimits(s) \subseteq Addrs
    BY <2>3, LimitsAreTable, TableDomain
  <2> HIDE DEF s
  <2>6. /\ stages'[n] \in StageRecord
        /\ ~stages'[n].active
        /\ stages'[n].newVals = NULL
        /\ stages'[n].count = s.count
        /\ stages'[n].oldVals = s.newVals
        /\ DOMAIN stages'[n].limits \subseteq Addrs
    BY <2>3, <2>4, <2>5 DEF StageRecord
  <2>7. /\ history'[n] \in Seq(Table)
        /\ Len(history'[n]) = s.count
        /\ history'[n][s.count] = s.newVals
        /\ s.count # 0
    BY <2>2, <2>3
  <2>8. StageTypes'
    <3>1. stages' \in [StageNums -> StageRecord \cup {NULL}]
      BY <1>2, <2>2, <2>6 DEF StageTypes
    <3>2. history' \in [StageNums -> Seq(Table)]
      BY <1>2, <2>2, <2>7 DEF StageTypes
    <3> QED BY <1>2, <2>2, <2>6, <3>1, <3>2 DEF StageTypes
  <2>9. TypeOK'
    <3>1. activeStages' \in 0 .. MaxCount
      <4>1. activeStages' \in Nat
        BY <1>1 DEF SkipInv
      <4> QED BY <1>2, <2>2, <4>1, StageBounds DEF TypeOK
    <3>2. stageReports' \in [StageNums -> [Addrs -> Report \cup {NULL}]]
      <4> DEFINE new(a) == IF a \in Exceeding(s) THEN Reported(stageReports[n][a], s.count)
                           ELSE stageReports[n][a]
      <4>1. stageReports' = [stageReports EXCEPT ![n] = [a \in Addrs |-> new(a)]]
        BY <1>4 DEF stageEnd, s
      <4>2. stageReports[n] \in [Addrs -> Report \cup {NULL}]
        BY <1>2 DEF TypeOK
      <4>3. \A a \in Addrs : new(a) \in Report \cup {NULL}
        BY <2>3, <4>2, ReportedIsReport
      <4> HIDE DEF new
      <4> QED BY <1>2, <4>1, <4>3 DEF TypeOK
    <3>3. s.count \in 0 .. MaxCount
      BY <1>2, <2>3 DEF TypeOK, s
    <3>4. \A m \in StageNums : stages'[m] # NULL =>
            /\ stages'[m].active \in BOOLEAN
            /\ stages'[m].count \in 0 .. MaxCount
            /\ DOMAIN stages'[m].limits \subseteq Addrs
      BY <1>2, <2>2, <2>6, <3>3 DEF TypeOK, StageRecord
    <3> QED BY <1>2, <2>2, <3>1, <3>2, <3>4 DEF TypeOK
  <2>10. TablesFollowLifecycle'
    BY <1>2, <2>2, <2>3, <2>6, <2>7, <2>9 DEF FollowInv, TablesFollowLifecycle
  <2> QED BY <1>1, <2>8, <2>10 DEF FollowInv
<1>5. ASSUME NEW n \in StageNums, stageClear(n) PROVE FollowInv'
  <2>1. /\ clears' = clears + 1 /\ clears < MaxCount
        /\ stages' = [stages EXCEPT ![n] = NULL]
        /\ history' = [history EXCEPT ![n] = <<>>]
        /\ stageReports' = stageReports /\ activeStages' = activeStages
    BY <1>5 DEF stageClear
  <2>2. /\ stages'[n] = NULL /\ history'[n] = <<>>
        /\ \A m \in StageNums \ {n} : stages'[m] = stages[m] /\ history'[m] = history[m]
    BY <1>2, <2>1 DEF StageTypes
  <2>3. StageTypes'
    BY <1>2, <2>1, <2>2 DEF StageTypes
  <2>4. TypeOK'
    BY <1>2, <2>1, <2>2, StageBounds DEF TypeOK
  <2>5. TablesFollowLifecycle'
    BY <2>2, <2>4 DEF FollowInv, TablesFollowLifecycle
  <2> QED BY <1>1, <2>3, <2>5 DEF FollowInv
<1>6. ASSUME NEW a \in Addrs, NEW e \in Errors \cup Special, updateStages(a, e)
      PROVE  FollowInv'
  <2>1. /\ history' = history /\ stageReports' = stageReports /\ clears' = clears
        /\ activeStages' = activeStages
        /\ DOMAIN stages' = StageNums
        /\ stages' = [m \in StageNums |-> stages'[m]]
        /\ \A m \in StageNums : ~Active(m) => stages'[m] = stages[m]
        /\ \A m \in StageNums : Active(m) =>
              stages'[m] = [stages[m] EXCEPT !.newVals = Recorded(@, a, e)]
    BY <1>6 DEF updateStages
  <2>2. e \in Number
    BY ErrorsAssumption, SpecialAssumption DEF Number
  <2>3. ASSUME NEW m \in StageNums, Active(m)
        PROVE  /\ stages'[m] \in StageRecord
               /\ stages'[m].active = stages[m].active
               /\ stages'[m].count = stages[m].count
               /\ stages'[m].oldVals = stages[m].oldVals
               /\ stages'[m].limits = stages[m].limits
               /\ stages'[m].newVals \in Table
    <3>1. stages[m] \in StageRecord /\ stages[m].newVals \in Table
      BY <2>3, ActiveStage
    <3>2. Recorded(stages[m].newVals, a, e) \in Table
      BY <2>2, <3>1, RecordedIsTable
    <3> QED BY <2>1, <2>3, <3>1, <3>2 DEF StageRecord
  <2>4. StageTypes'
    <3>1. \A m \in StageNums : stages'[m] \in StageRecord \cup {NULL}
      BY <1>2, <2>1, <2>3 DEF StageTypes
    <3>2. \A m \in StageNums : stages'[m] = NULL => stages[m] = NULL
      BY <1>2, <2>1, <2>3
    <3>3. stages' \in [StageNums -> StageRecord \cup {NULL}]
      BY <2>1, <3>1
    <3> QED BY <1>2, <2>1, <3>2, <3>3 DEF StageTypes
  <2>5. TypeOK'
    <3>1. \A m \in StageNums : stages'[m] # NULL =>
            /\ stages'[m].active \in BOOLEAN
            /\ stages'[m].count \in 0 .. MaxCount
            /\ DOMAIN stages'[m].limits \subseteq Addrs
      BY <1>2, <2>1, <2>3 DEF TypeOK, Active
    <3> QED BY <1>2, <2>1, <3>1 DEF TypeOK
  <2>6. ASSUME NEW m \in StageNums, stages'[m] # NULL
        PROVE  LET t == stages'[m]
                   ended == IF t.active THEN t.count - 1 ELSE t.count
               IN  /\ t.active <=> t.newVals # NULL
                   /\ Len(history'[m]) = ended
                   /\ t.oldVals = (IF ended = 0 THEN NULL ELSE history'[m][ended])
    <3>1. CASE Active(m)
      BY <1>2, <2>1, <2>3, <2>6, <3>1 DEF FollowInv, TablesFollowLifecycle, Active
    <3>2. CASE ~Active(m)
      BY <2>1, <2>6, <3>2 DEF FollowInv, TablesFollowLifecycle
    <3> QED BY <3>1, <3>2
  <2>7. TablesFollowLifecycle'
    BY <2>5, <2>6 DEF TablesFollowLifecycle
  <2> QED BY <1>1, <2>4, <2>7 DEF FollowInv
<1>7. CASE UNCHANGED vars
  BY <1>1, <1>7 DEF vars, FollowInv, StageTypes, TablesFollowLifecycle, TypeOK
<1> QED BY <1>3, <1>4, <1>5, <1>6, <1>7 DEF Next

(* What END_STAGE compares with is the table of the execution before, and  *)
(* of no execution before a CLEAR_STAGE, in whatever order the stages of a *)
(* guest begin, end and are cleared.                                       *)
THEOREM TablesFollow == Spec => []TablesFollowLifecycle
<1>1. FollowInv => TablesFollowLifecycle
  BY DEF FollowInv
<1> QED BY <1>1, InitFollows, NextFollows, PTL DEF Spec

-----------------------------------------------------------------------------
(* A limit is that of the first drift of an address if that is NaN, and    *)
(* the largest of its drifts otherwise.                                    *)
LargestDrift(h, a, limits) ==
    IF Compared(h, a, Len(h)) = {} THEN a \notin DOMAIN limits
    ELSE /\ a \in DOMAIN limits
         /\ limits[a] \in {DriftAt(h, a, i) : i \in Compared(h, a, Len(h))}
         /\ \A i \in Compared(h, a, Len(h)) : ~Exceeds(DriftAt(h, a, i), limits[a])
         /\ \E first \in Compared(h, a, Len(h)) :
              /\ \A i \in Compared(h, a, Len(h)) : first <= i
              /\ limits[a] = NaN <=> DriftAt(h, a, first) = NaN

LimitInv ==
    /\ FollowInv
    /\ \A n \in StageNums : stages[n] # NULL =>
        \A a \in Addrs : LargestDrift(history[n], a, stages[n].limits)

LEMMA MaxOfSet ==
    ASSUME NEW S \in SUBSET Int, NEW m \in S, \A x \in S : x <= m
    PROVE  Max(S) = m
<1>1. \A y \in S : m >= y
  OBVIOUS
<1>2. Max(S) \in S /\ \A y \in S : Max(S) >= y
  BY <1>1 DEF Max
<1>3. Max(S) \in Int /\ m \in Int /\ m <= Max(S) /\ Max(S) <= m
  BY <1>2
<1> HIDE DEF Max
<1> QED BY <1>3

LEMMA MinOfSet ==
    ASSUME NEW S \in SUBSET Int, NEW m \in S, \A x \in S : m <= x
    PROVE  Min(S) = m
<1>1. \A y \in S : m =< y
  OBVIOUS
<1>2. Min(S) \in S /\ \A y \in S : Min(S) =< y
  BY <1>1 DEF Min
<1>3. Min(S) \in Int /\ m \in Int /\ m <= Min(S) /\ Min(S) <= m
  BY <1>2
<1> HIDE DEF Min
<1> QED BY <1>3

(* The drifts of the executions h are numbers or NaN. *)
LEMMA DriftTypes ==
    ASSUME NEW h \in Seq(Table), NEW a \in Addrs, NEW i \in Compared(h, a, Len(h))
    PROVE  DriftAt(h, a, i) \in Number
<1>1. i \in 2 .. Len(h) /\ a \in DOMAIN h[i - 1] /\ a \in DOMAIN h[i]
  BY DEF Compared
<1>2. h[i - 1] \in Table /\ h[i] \in Table
  <2>1. i - 1 \in DOMAIN h /\ i \in DOMAIN h
    BY <1>1
  <2> QED BY <2>1
<1>3. h[i - 1][a] \in Number /\ h[i][a] \in Number
  BY <1>1, <1>2, TableDomain
<1> QED BY <1>3, DriftIsNumber DEF DriftAt

(* What the invariant keeps of a limit is LimitAfter. *)
LEMMA LargestIsLimit ==
    ASSUME NEW h \in Seq(Table), NEW a \in Addrs, NEW limits,
           LargestDrift(h, a, limits), Compared(h, a, Len(h)) # {}
    PROVE  a \in DOMAIN limits /\ limits[a] = LimitAfter(h, a, Len(h))
<1> DEFINE C == Compared(h, a, Len(h))
           drifts == {DriftAt(h, a, i) : i \in C}
<1>1. /\ a \in DOMAIN limits
      /\ limits[a] \in drifts
      /\ \A i \in C : ~Exceeds(DriftAt(h, a, i), limits[a])
  BY DEF LargestDrift
<1>2. PICK first \in C :
          (\A i \in C : first <= i) /\ (limits[a] = NaN <=> DriftAt(h, a, first) = NaN)
  BY DEF LargestDrift
<1>3. C \in SUBSET Int /\ \A i \in C : DriftAt(h, a, i) \in Number
  BY DriftTypes DEF Compared
<1> HIDE DEF C
<1>4. Min(C) = first
  BY <1>2, <1>3, MinOfSet
<1>5. ASSUME limits[a] # NaN
      PROVE  LargestOf(drifts) = limits[a]
  <2>1. drifts \subseteq Number
    BY <1>3
  <2>2. limits[a] \in drifts \ {NaN} /\ \A e \in drifts : ~Exceeds(e, limits[a])
    BY <1>1, <1>5
  <2> HIDE DEF drifts
  <2>3. \A d \in drifts \ {NaN} : (\A e \in drifts : ~Exceeds(e, d)) => d = limits[a]
    BY <2>1, <2>2, Trichotomy
  <2> QED BY <2>2, <2>3 DEF LargestOf
<1>6. LimitAfter(h, a, Len(h)) =
          IF DriftAt(h, a, Min(C)) = NaN THEN NaN ELSE LargestOf(drifts)
  BY DEF LimitAfter, C
<1> HIDE DEF drifts
<1> QED BY <1>1, <1>2, <1>4, <1>5, <1>6

(* What a longer history says about the executions it had already. *)
LEMMA HistoryKept ==
    ASSUME NEW h \in Seq(Table), NEW t \in Table, NEW a,
           NEW last \in Nat, last <= Len(h)
    PROVE  Compared(Append(h, t), a, last) = Compared(h, a, last)
<1>1. \A i \in 2 .. last : Append(h, t)[i] = h[i] /\ Append(h, t)[i - 1] = h[i - 1]
  OBVIOUS
<1> QED BY <1>1 DEF Compared

LEMMA HistoryGrows ==
    ASSUME NEW h \in Seq(Table), NEW t \in Table, NEW a
    PROVE  LET g == Append(h, t) IN
           /\ \A i \in 2 .. Len(h) : DriftAt(g, a, i) = DriftAt(h, a, i)
           /\ Compared(g, a, Len(g)) \ {Len(g)} = Compared(h, a, Len(h))
           /\ Len(g) \in Compared(g, a, Len(g)) <=>
                h # <<>> /\ a \in DOMAIN h[Len(h)] /\ a \in DOMAIN t
           /\ h # <<>> => DriftAt(g, a, Len(g)) = Drift(h[Len(h)][a], t[a])
<1> DEFINE g == Append(h, t)
<1>1. /\ Len(h) \in Nat /\ Len(g) = Len(h) + 1
      /\ g[Len(g)] = t
      /\ \A i \in 1 .. Len(h) : g[i] = h[i]
      /\ h = <<>> <=> Len(h) = 0
  OBVIOUS
<1> HIDE DEF g
<1>2. \A i \in 2 .. Len(h) : g[i] = h[i] /\ g[i - 1] = h[i - 1]
  BY <1>1
<1>3. \A i \in 2 .. Len(h) : DriftAt(g, a, i) = DriftAt(h, a, i)
  BY <1>2 DEF DriftAt
<1>4. Compared(g, a, Len(g)) \ {Len(g)} = Compared(h, a, Len(h))
  <2>1. (2 .. Len(g)) \ {Len(g)} = 2 .. Len(h)
    BY <1>1
  <2> QED BY <1>2, <2>1 DEF Compared
<1>5. h # <<>> => Len(g) \in 2 .. Len(g) /\ g[Len(g) - 1] = h[Len(h)]
  BY <1>1
<1>6. h = <<>> => Len(g) \notin 2 .. Len(g)
  BY <1>1
<1>7. Len(g) \in Compared(g, a, Len(g)) <=>
          h # <<>> /\ a \in DOMAIN h[Len(h)] /\ a \in DOMAIN t
  BY <1>1, <1>5, <1>6 DEF Compared
<1>8. h # <<>> => DriftAt(g, a, Len(g)) = Drift(h[Len(h)][a], t[a])
  BY <1>1, <1>5 DEF DriftAt
<1> QED BY <1>3, <1>4, <1>7, <1>8 DEF g

(* A stage about to end that has recorded its executions h. *)
Ending(s, h) ==
    /\ s \in StageRecord /\ s.newVals # NULL
    /\ h \in Seq(Table)
    /\ s.oldVals = IF h = <<>> THEN NULL ELSE h[Len(h)]

(* The addresses that END_STAGE compares, and by how much they moved, are  *)
(* the drifts of the execution that ends.                                  *)
LEMMA MatesAreCompared ==
    ASSUME NEW s, NEW h, Ending(s, h), NEW a
    PROVE  LET g == Append(h, s.newVals) IN
           /\ a \in Mates(s) <=> Len(g) \in Compared(g, a, Len(g))
           /\ a \in Mates(s) => Moved(s, a) = DriftAt(g, a, Len(g))
<1>1. s.newVals \in Table
  BY DEF Ending, StageRecord
<1>2. h # <<>> => h[Len(h)] \in Table /\ h[Len(h)] # NULL
  <2>1. h # <<>> => Len(h) \in DOMAIN h
    BY DEF Ending
  <2> QED BY <2>1, NullIsNoTable DEF Ending
<1>3. a \in Mates(s) <=> h # <<>> /\ a \in DOMAIN h[Len(h)] /\ a \in DOMAIN s.newVals
  BY <1>2 DEF Ending, Mates
<1>4. h # <<>> => Moved(s, a) = Drift(h[Len(h)][a], s.newVals[a])
  BY DEF Ending, Moved
<1>5. h \in Seq(Table)
  BY DEF Ending
<1> DEFINE g == Append(h, s.newVals)
<1>6. Len(g) \in Compared(g, a, Len(g)) <=>
          h # <<>> /\ a \in DOMAIN h[Len(h)] /\ a \in DOMAIN s.newVals
  BY <1>1, <1>5, HistoryGrows
<1>7. h # <<>> => DriftAt(g, a, Len(g)) = Drift(h[Len(h)][a], s.newVals[a])
  BY <1>1, <1>5, HistoryGrows
<1> HIDE DEF g
<1>8. /\ a \in Mates(s) <=> Len(g) \in Compared(g, a, Len(g))
      /\ a \in Mates(s) => Moved(s, a) = DriftAt(g, a, Len(g))
  BY <1>3, <1>4, <1>6, <1>7
<1> QED BY <1>8 DEF g

(* END_STAGE adjusts the limits to one more execution. *)
LEMMA LimitKept ==
    ASSUME NEW s, NEW h, Ending(s, h), NEW a \in Addrs, LargestDrift(h, a, s.limits)
    PROVE  LargestDrift(Append(h, s.newVals), a, NewLimits(s))
<1> DEFINE g == Append(h, s.newVals)
           C == Compared(h, a, Len(h))
           D == Compared(g, a, Len(g))
           old == s.limits
           new == NewLimits(s)
<1>1. /\ h \in Seq(Table) /\ s.newVals \in Table
      /\ g \in Seq(Table) /\ Len(g) = Len(h) + 1
  BY DEF Ending, StageRecord
<1>2. /\ D \ {Len(g)} = C
      /\ a \in Mates(s) <=> Len(g) \in D
      /\ a \in Mates(s) => Moved(s, a) = DriftAt(g, a, Len(g))
  BY <1>1, HistoryGrows, MatesAreCompared
<1>3. \A i \in C : i \in Int /\ i <= Len(g) /\ DriftAt(g, a, i) = DriftAt(h, a, i)
  BY <1>1, HistoryGrows DEF Compared
<1>4. \A i \in D : DriftAt(g, a, i) \in Number
  BY <1>1, DriftTypes
<1>5. /\ a \in DOMAIN new <=> a \in DOMAIN old \/ a \in Mates(s)
      /\ a \in DOMAIN new => new[a] =
            IF a \notin DOMAIN old \/ (a \in Mates(s) /\ Exceeds(Moved(s, a), old[a]))
            THEN Moved(s, a) ELSE old[a]
  BY DEF NewLimits, Exceeding
<1>6. /\ C = {} => a \notin DOMAIN old
      /\ C # {} =>
          /\ a \in DOMAIN old
          /\ old[a] \in {DriftAt(h, a, i) : i \in C}
          /\ \A i \in C : ~Exceeds(DriftAt(h, a, i), old[a])
          /\ \E first \in C :
                (\A i \in C : first <= i) /\ (old[a] = NaN <=> DriftAt(h, a, first) = NaN)
  BY DEF LargestDrift
<1>7. Len(g) \in Nat
  BY <1>1
<1> HIDE DEF g, C, D, old, new
<1>8. SUFFICES LargestDrift(g, a, new)
  BY DEF g, new
<1>9. CASE a \notin Mates(s)
  <2>1. D = C
    BY <1>2, <1>9
  <2>2. CASE C = {}
    BY <1>5, <1>6, <1>9, <2>1, <2>2 DEF LargestDrift, D
  <2>3. CASE C # {}
    <3>1. a \in DOMAIN new /\ new[a] = old[a]
      BY <1>5, <1>6, <1>9, <2>3
    <3>2. {DriftAt(g, a, i) : i \in D} = {DriftAt(h, a, i) : i \in C}
      BY <1>3, <2>1
    <3>3. \A i \in D : ~Exceeds(DriftAt(g, a, i), new[a])
      BY <1>3, <1>6, <2>1, <3>1
    <3>4. \E first \in D :
              (\A i \in D : first <= i) /\ (new[a] = NaN <=> DriftAt(g, a, first) = NaN)
      BY <1>3, <1>6, <2>1, <2>3, <3>1
    <3>5. new[a] \in {DriftAt(g, a, i) : i \in D}
      BY <1>6, <2>3, <3>1, <3>2
    <3> QED BY <2>1, <2>3, <3>1, <3>3, <3>4, <3>5 DEF LargestDrift, D
  <2> QED BY <2>2, <2>3
<1>10. CASE a \in Mates(s) /\ C = {}
  <2>1. D = {Len(g)}
    BY <1>2, <1>10
  <2>2. a \in DOMAIN new /\ new[a] = DriftAt(g, a, Len(g))
    BY <1>2, <1>5, <1>6, <1>10
  <2>3. ~Exceeds(DriftAt(g, a, Len(g)), DriftAt(g, a, Len(g)))
    BY DEF Exceeds
  <2> QED BY <1>7, <2>1, <2>2, <2>3 DEF LargestDrift, D
<1>11. CASE a \in Mates(s) /\ C # {}
  <2> DEFINE last == DriftAt(g, a, Len(g))
  <2>1. D = C \cup {Len(g)}
    BY <1>2, <1>11
  <2>2. /\ a \in DOMAIN old /\ a \in DOMAIN new
        /\ new[a] = IF Exceeds(last, old[a]) THEN last ELSE old[a]
    BY <1>2, <1>5, <1>6, <1>11
  <2>3. PICK at \in C : old[a] = DriftAt(g, a, at)
    BY <1>3, <1>6, <1>11
  <2>4. old[a] \in Number /\ last \in Number
    BY <1>4, <2>1, <2>3
  <2>5. PICK first \in C :
            (\A i \in C : first <= i) /\ (old[a] = NaN <=> DriftAt(g, a, first) = NaN)
    BY <1>3, <1>6, <1>11
  <2>6. new[a] = NaN <=> old[a] = NaN
    BY <2>2, <2>4 DEF Exceeds
  <2>7. first \in D /\ \A i \in D : first <= i
    BY <1>3, <2>1, <2>5
  <2>8. new[a] \in {DriftAt(g, a, i) : i \in D}
    BY <2>1, <2>2, <2>3
  <2>9. ASSUME NEW i \in D PROVE ~Exceeds(DriftAt(g, a, i), new[a])
    <3>1. CASE i \in C
      <4>1. ~Exceeds(DriftAt(g, a, i), old[a]) /\ DriftAt(g, a, i) \in Number
        BY <1>3, <1>4, <1>6, <1>11, <2>1, <3>1
      <4>2. Exceeds(last, old[a]) => last \in Number \ {NaN}
        BY <2>4 DEF Exceeds
      <4> HIDE DEF last
      <4> QED BY <2>2, <2>4, <4>1, <4>2, ExceedsIsTransitive
    <3>2. CASE i = Len(g)
      <4>1. DriftAt(g, a, i) = last
        BY <3>2
      <4> HIDE DEF last
      <4> QED BY <2>2, <4>1 DEF Exceeds
    <3> QED BY <2>1, <3>1, <3>2
  <2> QED BY <2>1, <2>2, <2>5, <2>6, <2>7, <2>8, <2>9 DEF LargestDrift, D
<1> QED BY <1>9, <1>10, <1>11

(* An active stage that ends is one that has recorded its executions.      *)
LEMMA EndingStage ==
    ASSUME FollowInv, NEW n \in StageNums, stageEnd(n)
    PROVE  /\ Ending(stages[n], history[n])
           /\ stages[n].count = Len(history[n]) + 1
           /\ history'[n] = Append(history[n], stages[n].newVals)
           /\ stages'[n] # NULL /\ stages'[n].limits = NewLimits(stages[n])
           /\ \A m \in StageNums \ {n} :
                stages'[m] = stages[m] /\ history'[m] = history[m]
<1>1. Active(n)
  BY DEF stageEnd
<1>2. /\ Ending(stages[n], history[n]) /\ stages[n] \in StageRecord
      /\ stages[n].count = Len(history[n]) + 1
  BY <1>1, ActiveStage DEF Ending
<1>3. /\ stages \in [StageNums -> StageRecord \cup {NULL}]
      /\ history \in [StageNums -> Seq(Table)]
  BY DEF FollowInv, StageTypes
<1>4. /\ history'[n] = Append(history[n], stages[n].newVals)
      /\ stages'[n] = [stages[n] EXCEPT !.active = FALSE, !.limits = NewLimits(stages[n]),
                            !.oldVals = stages[n].newVals, !.newVals = NULL]
      /\ \A m \in StageNums \ {n} : stages'[m] = stages[m] /\ history'[m] = history[m]
  BY <1>3 DEF stageEnd
<1>5. stages'[n].limits = NewLimits(stages[n]) /\ ~stages'[n].active
  BY <1>2, <1>4 DEF StageRecord
<1>6. stages'[n] # NULL
  <2>1. stages'[n] \in StageRecord
    <3>1. stages'[n] = [active |-> FALSE, count |-> stages[n].count,
                        oldVals |-> stages[n].newVals, newVals |-> NULL,
                        limits |-> NewLimits(stages[n])]
      BY <1>2, <1>4 DEF StageRecord
    <3>2. NewLimits(stages[n]) \in Table
      BY <1>2, LimitsAreTable DEF Ending
    <3> QED BY <1>2, <3>1, <3>2 DEF StageRecord, Ending
  <2> QED BY <2>1, NullIsNoTable
<1> QED BY <1>2, <1>4, <1>5, <1>6

(* Only END_STAGE touches the history and the limits of a stage that is    *)
(* not cleared; BEGIN_STAGE gives a stage that is new no limits.           *)
LEMMA LimitsUntouched ==
    ASSUME FollowInv, [Next]_vars, \A n \in StageNums : ~stageEnd(n), ~(\E n \in StageNums : stageClear(n))
    PROVE  /\ history' = history /\ stageReports' = stageReports /\ clears' = clears
           /\ \A n \in StageNums : stages'[n] # NULL =>
                IF stages[n] = NULL THEN stages'[n].limits = EmptyTable
                ELSE stages'[n].limits = stages[n].limits
<1>1. stages \in [StageNums -> StageRecord \cup {NULL}]
  BY DEF FollowInv, StageTypes
<1>2. CASE \E n \in StageNums : stageStart(n)
  <2>1. PICK n \in StageNums : stageStart(n)
    BY <1>2
  <2>2. CASE stages[n] = NULL
    BY <1>1, <2>1, <2>2 DEF stageStart
  <2>3. CASE stages[n] # NULL
    <3>1. /\ stages'[n] = [stages[n] EXCEPT !.active = TRUE, !.count = @ + 1,
                                            !.newVals = EmptyTable]
          /\ \A m \in StageNums \ {n} : stages'[m] = stages[m]
      BY <1>1, <2>1, <2>3 DEF stageStart
    <3>2. stages'[n].limits = stages[n].limits
      BY <1>1, <2>3, <3>1 DEF StageRecord
    <3> QED BY <2>1, <2>3, <3>1, <3>2 DEF stageStart
  <2> QED BY <2>2, <2>3
<1>3. CASE \E a \in Addrs, e \in Errors \cup Special : updateStages(a, e)
  <2>1. PICK a \in Addrs, e \in Errors \cup Special : updateStages(a, e)
    BY <1>3
  <2>2. \A n \in StageNums :
          IF Active(n) THEN stages'[n] = [stages[n] EXCEPT !.newVals = Recorded(@, a, e)]
          ELSE stages'[n] = stages[n]
    BY <2>1 DEF updateStages
  <2>3. \A n \in StageNums : Active(n) => stages'[n].limits = stages[n].limits
    BY <1>1, <2>2 DEF StageRecord, Active
  <2>4. \A n \in StageNums : Active(n) => stages[n] # NULL
    BY DEF Active
  <2> QED BY <2>1, <2>2, <2>3, <2>4 DEF updateStages
<1>4. CASE UNCHANGED vars
  BY <1>4 DEF vars
<1> QED BY <1>2, <1>3, <1>4 DEF Next

LEMMA InitLimits == Init => LimitInv
BY InitFollows DEF Init, LimitInv

LEMMA NextLimitsKept == LimitInv /\ [Next]_vars => LimitInv'
<1> SUFFICES ASSUME LimitInv, [Next]_vars PROVE LimitInv'
  OBVIOUS
<1>1. FollowInv /\ FollowInv'
  BY NextFollows DEF LimitInv
<1>2. ASSUME NEW n \in StageNums, stageEnd(n) PROVE LimitInv'
  <2>1. /\ Ending(stages[n], history[n])
        /\ history'[n] = Append(history[n], stages[n].newVals)
        /\ stages'[n].limits = NewLimits(stages[n])
        /\ \A m \in StageNums \ {n} : stages'[m] = stages[m] /\ history'[m] = history[m]
        /\ stages[n] # NULL
    BY <1>1, <1>2, EndingStage DEF stageEnd, Active
  <2>2. \A a \in Addrs : LargestDrift(history[n], a, stages[n].limits)
    BY <2>1 DEF LimitInv
  <2>3. \A a \in Addrs : LargestDrift(history'[n], a, stages'[n].limits)
    BY <2>1, <2>2, LimitKept
  <2>4. \A m \in StageNums : stages'[m] # NULL =>
          \A a \in Addrs : LargestDrift(history'[m], a, stages'[m].limits)
    BY <2>1, <2>3 DEF LimitInv
  <2> QED BY <1>1, <2>4 DEF LimitInv
<1>3. ASSUME NEW n \in StageNums, stageClear(n) PROVE LimitInv'
  <2>1. /\ stages' = [stages EXCEPT ![n] = NULL]
        /\ history' = [history EXCEPT ![n] = <<>>]
    BY <1>3 DEF stageClear
  <2>2. \A m \in StageNums : stages'[m] # NULL =>
          stages'[m] = stages[m] /\ history'[m] = history[m]
    BY <1>1, <2>1 DEF FollowInv, StageTypes
  <2>3. \A m \in StageNums : stages'[m] # NULL =>
          \A a \in Addrs : LargestDrift(history'[m], a, stages'[m].limits)
    BY <2>2 DEF LimitInv
  <2> QED BY <1>1, <2>3 DEF LimitInv
<1>4. CASE (\A n \in StageNums : ~stageEnd(n)) /\ ~(\E n \in StageNums : stageClear(n))
  <2>1. /\ history' = history
        /\ \A n \in StageNums : stages'[n] # NULL =>
              IF stages[n] = NULL THEN stages'[n].limits = EmptyTable
              ELSE stages'[n].limits = stages[n].limits
    BY <1>1, <1>4, LimitsUntouched
  <2>2. ASSUME NEW n \in StageNums, stages'[n] # NULL, NEW a \in Addrs
        PROVE  LargestDrift(history'[n], a, stages'[n].limits)
    <3>1. CASE stages[n] = NULL
      <4>1. history'[n] = <<>> /\ stages'[n].limits = EmptyTable
        BY <1>1, <2>1, <2>2, <3>1 DEF FollowInv, StageTypes
      <4>2. Compared(<<>>, a, Len(<<>>)) = {} /\ a \notin DOMAIN EmptyTable
        BY DEF Compared, EmptyTable
      <4> QED BY <4>1, <4>2 DEF LargestDrift
    <3>2. CASE stages[n] # NULL
      <4>1. stages'[n].limits = stages[n].limits /\ history'[n] = history[n]
        BY <2>1, <2>2, <3>2
      <4> QED BY <3>2, <4>1 DEF LimitInv
    <3> QED BY <3>1, <3>2
  <2> QED BY <1>1, <2>2 DEF LimitInv
<1> QED BY <1>2, <1>3, <1>4

LEMMA LimitInvIsLargest == LimitInv => LimitIsLargestDrift
<1> SUFFICES ASSUME LimitInv, NEW n \in StageNums, stages[n] # NULL, NEW a \in Addrs
             PROVE  LET last == Len(history[n]) IN
                    IF Compared(history[n], a, last) = {} THEN a \notin DOMAIN stages[n].limits
                    ELSE /\ a \in DOMAIN stages[n].limits
                         /\ stages[n].limits[a] = LimitAfter(history[n], a, last)
  BY DEF LimitIsLargestDrift
<1>1. LargestDrift(history[n], a, stages[n].limits) /\ history[n] \in Seq(Table)
  BY DEF LimitInv, FollowInv, StageTypes
<1> QED BY <1>1, LargestIsLimit DEF LargestDrift

(* The limit that decides about the next report is the largest drift that  *)
(* the address ever had since the stage was cleared, or NaN for good.      *)
THEOREM LimitsAreLargest == Spec => []LimitIsLargestDrift
<1> QED BY InitLimits, NextLimitsKept, LimitInvIsLargest, PTL DEF Spec

-----------------------------------------------------------------------------
(* A report r is about the executions recs. *)
ReportOf(r, recs) ==
    IF recs = {} THEN r = NULL
    ELSE /\ r \in Report
         /\ r.count = Cardinality(recs)
         /\ r.iterMin \in recs /\ r.iterMax \in recs
         /\ \A i \in recs : r.iterMin <= i /\ i <= r.iterMax

ReportInv ==
    /\ LimitInv
    /\ clears = 0 => \A n \in StageNums, a \in Addrs :
            ReportOf(stageReports[n][a], Records(history[n], a))

LEMMA RecordsAreExecutions ==
    ASSUME NEW h \in Seq(Table), NEW a
    PROVE  /\ Records(h, a) \subseteq 2 .. Len(h)
           /\ IsFiniteSet(Records(h, a)) /\ Cardinality(Records(h, a)) \in Nat
<1>1. Records(h, a) \subseteq 2 .. Len(h)
  BY DEF Records, Compared
<1>2. IsFiniteSet(2 .. Len(h))
  BY FS_Interval
<1> QED BY <1>1, <1>2, FS_Subset, FS_CardinalityType

(* END_STAGE makes the execution that ends a record if it reports it.      *)
LEMMA RecordsGrow ==
    ASSUME NEW s, NEW h, Ending(s, h), NEW a \in Addrs, LargestDrift(h, a, s.limits)
    PROVE  Records(Append(h, s.newVals), a) =
               IF a \in Exceeding(s) THEN Records(h, a) \cup {Len(h) + 1} ELSE Records(h, a)
<1> DEFINE g == Append(h, s.newVals)
           C == Compared(h, a, Len(h))
           D == Compared(g, a, Len(g))
<1>1. /\ h \in Seq(Table) /\ s.newVals \in Table
      /\ g \in Seq(Table) /\ Len(g) = Len(h) + 1 /\ Len(h) \in Nat
  BY DEF Ending, StageRecord
<1>2. /\ D \ {Len(g)} = C
      /\ a \in Mates(s) <=> Len(g) \in D
      /\ a \in Mates(s) => Moved(s, a) = DriftAt(g, a, Len(g))
      /\ \A last \in Nat : last <= Len(h) => Compared(g, a, last) = Compared(h, a, last)
      /\ \A i \in 2 .. Len(h) : DriftAt(g, a, i) = DriftAt(h, a, i)
  <2>1. D \ {Len(g)} = C
    BY <1>1, HistoryGrows
  <2>2. \A last \in Nat : last <= Len(h) => Compared(g, a, last) = Compared(h, a, last)
    BY <1>1, HistoryKept
  <2>3. \A i \in 2 .. Len(h) : DriftAt(g, a, i) = DriftAt(h, a, i)
    BY <1>1, HistoryGrows
  <2>4. /\ a \in Mates(s) <=> Len(g) \in D
        /\ a \in Mates(s) => Moved(s, a) = DriftAt(g, a, Len(g))
    BY MatesAreCompared
  <2> QED BY <2>1, <2>4, <2>2, <2>3
<1>3. C \subseteq 2 .. Len(h)
  BY DEF Compared
<1> HIDE DEF g
<1>4. \A last \in Nat : last <= Len(h) /\ Compared(h, a, last) # {} =>
          LimitAfter(g, a, last) = LimitAfter(h, a, last)
  <2> SUFFICES ASSUME NEW last \in Nat, last <= Len(h), Compared(h, a, last) # {}
               PROVE  LimitAfter(g, a, last) = LimitAfter(h, a, last)
    OBVIOUS
  <2> DEFINE B == Compared(h, a, last)
  <2>1. B \subseteq C /\ B \subseteq 2 .. last /\ \A i \in C : i <= last => i \in B
    BY <1>1 DEF Compared
  <2>2. PICK first \in C : \A i \in C : first <= i
    BY <2>1 DEF LargestDrift
  <2>3. Compared(g, a, last) = B
    BY <1>2
  <2> HIDE DEF B, C
  <2>4. PICK i \in B : i \in C /\ first <= i /\ i <= last
    BY <2>1, <2>2 DEF B
  <2>5. first \in B
    BY <1>3, <2>1, <2>2, <2>4
  <2>6. Min(B) = first
    BY <2>1, <2>2, <2>5, MinOfSet
  <2>7. \A j \in B : DriftAt(g, a, j) = DriftAt(h, a, j)
    BY <1>2, <1>3, <2>1
  <2>8. {DriftAt(g, a, j) : j \in B} = {DriftAt(h, a, j) : j \in B}
    BY <2>7
  <2> HIDE DEF Min, Max
  <2> QED BY <2>3, <2>5, <2>6, <2>7, <2>8 DEF LimitAfter, B
<1>5. \A i \in C : i \in Records(g, a) <=> i \in Records(h, a)
  <2> SUFFICES ASSUME NEW i \in C PROVE i \in Records(g, a) <=> i \in Records(h, a)
    OBVIOUS
  <2>1. i \in 2 .. Len(h) /\ i - 1 \in Nat /\ i - 1 <= Len(h) /\ i \in D
    BY <1>1, <1>2, <1>3
  <2>2. /\ Compared(g, a, i - 1) = Compared(h, a, i - 1)
        /\ DriftAt(g, a, i) = DriftAt(h, a, i)
        /\ Compared(h, a, i - 1) # {} => LimitAfter(g, a, i - 1) = LimitAfter(h, a, i - 1)
    BY <1>2, <1>4, <2>1
  <2> QED BY <2>1, <2>2 DEF Records
<1>6. Len(g) \in Records(g, a) <=> a \in Exceeding(s)
  <2>1. Len(g) - 1 = Len(h) /\ Compared(g, a, Len(h)) = C
    BY <1>1, <1>2
  <2>2. C # {} => /\ a \in DOMAIN s.limits
                  /\ s.limits[a] = LimitAfter(h, a, Len(h))
                  /\ LimitAfter(g, a, Len(h)) = LimitAfter(h, a, Len(h))
    BY <1>1, <1>4, LargestIsLimit
  <2>3. C = {} => a \notin DOMAIN s.limits
    BY DEF LargestDrift
  <2>4. Len(g) \in Records(g, a) <=>
            /\ Len(g) \in D /\ C # {}
            /\ Exceeds(DriftAt(g, a, Len(g)), LimitAfter(g, a, Len(h)))
    BY <2>1 DEF Records
  <2>5. a \in Exceeding(s) <=>
            a \in Mates(s) /\ a \in DOMAIN s.limits /\ Exceeds(Moved(s, a), s.limits[a])
    BY DEF Exceeding
  <2> HIDE DEF C, D
  <2> QED BY <1>2, <2>2, <2>3, <2>4, <2>5
<1>7. Records(g, a) \subseteq D /\ Records(h, a) \subseteq C
  BY DEF Records
<1>8. Len(g) \notin C
  BY <1>1, <1>3
<1>9. D \subseteq C \cup {Len(g)}
  BY <1>2
<1> HIDE DEF C, D
<1>10. Records(g, a) = IF a \in Exceeding(s) THEN Records(h, a) \cup {Len(g)} ELSE Records(h, a)
  <2>1. ASSUME NEW i PROVE i \in Records(g, a) <=>
              i \in IF a \in Exceeding(s) THEN Records(h, a) \cup {Len(g)} ELSE Records(h, a)
    <3>1. CASE i \in C
      BY <1>5, <1>8, <3>1
    <3>2. CASE i = Len(g)
      BY <1>6, <1>7, <1>8, <3>2
    <3>3. CASE i \notin C /\ i # Len(g)
      BY <1>7, <1>9, <3>3
    <3> QED BY <3>1, <3>2, <3>3
  <2> QED BY <2>1
<1> QED BY <1>1, <1>10 DEF g

(* One more report about the execution last. *)
LEMMA ReportedGrows ==
    ASSUME NEW r, NEW recs, NEW last \in Nat, ReportOf(r, recs),
           IsFiniteSet(recs), Cardinality(recs) \in Nat,
           \A i \in recs : i \in Nat /\ i < last
    PROVE  ReportOf(Reported(r, last), recs \cup {last})
<1>1. Cardinality(recs \cup {last}) = Cardinality(recs) + 1
  BY FS_AddElement
<1>2. CASE recs = {}
  <2>1. Reported(r, last) = [count |-> 1, iterMin |-> last, iterMax |-> last]
    BY <1>2 DEF ReportOf, Reported
  <2>2. Cardinality(recs \cup {last}) = 1
    BY <1>1, <1>2, FS_EmptySet
  <2>3. Reported(r, last) \in Report
    BY <2>1 DEF Report
  <2> QED BY <1>2, <2>1, <2>2, <2>3 DEF ReportOf
<1>3. CASE recs # {}
  <2>1. r \in Report /\ r # NULL
    BY <1>3, NullAssumption DEF ReportOf
  <2>2. Reported(r, last) = [count |-> r.count + 1, iterMin |-> r.iterMin, iterMax |-> last]
    BY <2>1 DEF Reported, Report
  <2>3. r.count + 1 \in Nat /\ r.iterMin \in Nat
    BY <2>1 DEF Report
  <2>4. Reported(r, last) \in Report
    BY <2>2, <2>3 DEF Report
  <2>5. /\ r.count = Cardinality(recs)
        /\ r.iterMin \in recs /\ \A i \in recs : r.iterMin <= i /\ i <= r.iterMax
    BY <1>3 DEF ReportOf
  <2>6. \A i \in recs \cup {last} : r.iterMin <= i /\ i <= last
    BY <2>5
  <2> QED BY <1>1, <1>3, <2>2, <2>4, <2>5, <2>6 DEF ReportOf
<1> QED BY <1>2, <1>3

LEMMA InitReports == Init => ReportInv
<1> SUFFICES ASSUME Init PROVE ReportInv
  OBVIOUS
<1>1. \A a : Records(<<>>, a) = {}
  BY DEF Records, Compared
<1> QED BY <1>1, InitLimits DEF Init, ReportInv, ReportOf

LEMMA NextReports == ReportInv /\ [Next]_vars => ReportInv'
<1> SUFFICES ASSUME ReportInv, [Next]_vars PROVE ReportInv'
  OBVIOUS
<1>1. LimitInv /\ LimitInv' /\ FollowInv
  BY NextLimitsKept DEF ReportInv, LimitInv
<1>2. ASSUME NEW n \in StageNums, stageEnd(n) PROVE ReportInv'
  <2> SUFFICES ASSUME clears' = 0, NEW m \in StageNums, NEW a \in Addrs
               PROVE  ReportOf(stageReports'[m][a], Records(history'[m], a))
    BY <1>1 DEF ReportInv
  <2> DEFINE s == stages[n]
             h == history[n]
  <2>1. /\ Ending(s, h) /\ s.count = Len(h) + 1
        /\ history'[n] = Append(h, s.newVals)
        /\ \A k \in StageNums \ {n} : history'[k] = history[k]
        /\ s # NULL
    BY <1>1, <1>2, EndingStage DEF stageEnd, Active
  <2>2. clears = 0
    BY <1>2 DEF stageEnd
  <2>3. ReportOf(stageReports[m][a], Records(history[m], a))
    BY <2>2 DEF ReportInv
  <2>4. CASE m # n
    <3>1. stageReports'[m] = stageReports[m]
      BY <1>1, <1>2, <2>4 DEF stageEnd, FollowInv, TablesFollowLifecycle, TypeOK
    <3> QED BY <2>1, <2>3, <2>4, <3>1
  <2>5. CASE m = n
    <3>1. stageReports'[n][a] = IF a \in Exceeding(s) THEN Reported(stageReports[n][a], s.count)
                                ELSE stageReports[n][a]
      BY <1>1, <1>2 DEF stageEnd, FollowInv, TablesFollowLifecycle, TypeOK
    <3>2. LargestDrift(h, a, s.limits)
      BY <1>1, <2>1 DEF LimitInv
    <3>3. h \in Seq(Table)
      BY <2>1 DEF Ending
    <3> HIDE DEF s, h
    <3>4. Records(history'[n], a) =
              IF a \in Exceeding(s) THEN Records(h, a) \cup {Len(h) + 1} ELSE Records(h, a)
      <4>1. Ending(s, h) /\ history'[n] = Append(h, s.newVals)
        BY <2>1
      <4>2. Records(Append(h, s.newVals), a) =
                IF a \in Exceeding(s) THEN Records(h, a) \cup {Len(h) + 1} ELSE Records(h, a)
        BY <3>2, <4>1, RecordsGrow
      <4> QED BY <4>1, <4>2
    <3>5. /\ IsFiniteSet(Records(h, a)) /\ Cardinality(Records(h, a)) \in Nat
          /\ Len(h) + 1 \in Nat
          /\ \A i \in Records(h, a) : i \in Nat /\ i < Len(h) + 1
      BY <3>3, RecordsAreExecutions
    <3>6. ReportOf(stageReports[n][a], Records(h, a))
      BY <2>3, <2>5 DEF h
    <3>7. ReportOf(Reported(stageReports[n][a], Len(h) + 1), Records(h, a) \cup {Len(h) + 1})
      BY <3>5, <3>6, ReportedGrows
    <3> QED BY <2>1, <2>5, <3>1, <3>4, <3>6, <3>7
  <2> QED BY <2>4, <2>5
<1>3. ASSUME NEW n \in StageNums, stageClear(n) PROVE ReportInv'
  <2>1. clears' # 0
    BY <1>1, <1>3 DEF stageClear, FollowInv, TablesFollowLifecycle, TypeOK
  <2> QED BY <1>1, <2>1 DEF ReportInv
<1>4. CASE (\A n \in StageNums : ~stageEnd(n)) /\ ~(\E n \in StageNums : stageClear(n))
  <2>1. history' = history /\ stageReports' = stageReports /\ clears' = clears
    BY <1>1, <1>4, LimitsUntouched
  <2> QED BY <1>1, <2>1 DEF ReportInv
<1> QED BY <1>2, <1>3, <1>4

LEMMA ReportInvIsRecords == ReportInv => ReportsAreRecords
<1> SUFFICES ASSUME ReportInv, clears = 0, NEW n \in StageNums, NEW a \in Addrs
             PROVE  LET recs == Records(history[n], a) IN
                    stageReports[n][a] =
                        IF recs = {} THEN NULL
                        ELSE [count |-> Cardinality(recs), iterMin |-> Min(recs),
                              iterMax |-> Max(recs)]
  BY DEF ReportsAreRecords
<1> DEFINE r == stageReports[n][a]
           recs == Records(history[n], a)
<1>1. ReportOf(r, recs)
  BY DEF ReportInv
<1>2. history[n] \in Seq(Table)
  BY DEF ReportInv, LimitInv, FollowInv, StageTypes
<1>3. recs \in SUBSET Int
  BY <1>2, RecordsAreExecutions
<1> HIDE DEF r, recs
<1>4. CASE recs = {}
  BY <1>1, <1>4 DEF ReportOf, r, recs
<1>5. CASE recs # {}
  <2>1. /\ r \in Report /\ r.count = Cardinality(recs)
        /\ r.iterMin \in recs /\ r.iterMax \in recs
        /\ \A i \in recs : r.iterMin <= i /\ i <= r.iterMax
    BY <1>1, <1>5 DEF ReportOf
  <2>2. Min(recs) = r.iterMin /\ Max(recs) = r.iterMax
    BY <1>3, <2>1, MinOfSet, MaxOfSet
  <2>3. r = [count |-> r.count, iterMin |-> r.iterMin, iterMax |-> r.iterMax]
    BY <2>1 DEF Report
  <2> HIDE DEF Min, Max
  <2> QED BY <1>5, <2>1, <2>2, <2>3 DEF r, recs
<1> QED BY <1>4, <1>5

(* Without CLEAR_STAGE a report counts the executions whose drift exceeded *)
(* all earlier ones, and gives the first and the last of them.             *)
THEOREM ReportsCountRecords == Spec => []ReportsAreRecords
<1> QED BY InitReports, NextReports, ReportInvIsRecords, PTL DEF Spec

=============================================================================
