----------------------------- MODULE ReportsProofs -----------------------------
(***************************************************************************)
(* Proofs about Reports, for arrays and files of any length: which entries *)
(* are left out, that omissions are announced, what merging and searching  *)
(* for duplicates among neighbours amounts to, and which names the loop of *)
(* ignoreFile recognises.                                                  *)
(***************************************************************************)
EXTENDS Reports, WellFoundedInduction, TLAPS

Lists == MemoryLists \cup MeanLists \cup {"stage_reports"}

Entries == [index: Nat, num: Int]

TypeInv ==
    /\ list \in Lists
    /\ i \in Nat
    /\ total \in Int
    /\ listed \in Seq(Entries)

(* A file that lacks an entry meant for it has been full since, because    *)
(* the limit is on the entries written.                                    *)
MemoryInv ==
    /\ array \in Seq(ShadowValues)
    /\ i <= Len(array)
    /\ done => i = Len(array)
    /\ Len(listed) <= MaxEntries
    /\ \A k \in 1 .. i : MeantForFile(k) /\ ~InFile(k) => Len(listed) = MaxEntries

(* The file has the entries that are meant for it, up to an index. *)
MeanInv ==
    /\ array \in Seq(MeanValues)
    /\ i <= Len(array)
    /\ \A n \in DOMAIN listed : listed[n].index < i
    /\ \A k \in 1 .. i : InFile(k) <=> MeantForFile(k) /\ k - 1 <= MaxEntries

(* An entry of the file is a report that has been looked at and that is    *)
(* not like the one before it, and the entries of a stage are in order.    *)
ListedInv ==
    /\ \A n \in 1 .. Len(listed) :
        LET s == listed[n].num
            k == listed[n].index + 1
        IN  /\ s \in 1 .. NumStages
            /\ k \in 1 .. Len(array[s])
            /\ s < stage \/ (s = stage /\ k <= i)
            /\ k > 1 => ~SameReport(array[s][k - 1], array[s][k])
    /\ \A m, n \in 1 .. Len(listed) :
        m < n /\ listed[m].num = listed[n].num => listed[m].index < listed[n].index

(* The reports of the current stage that are counted before they have been *)
(* looked at.                                                              *)
Ahead == IF stage <= NumStages /\ i > 0 THEN Len(array[stage]) - i ELSE 0

TotalInv == total = Len(listed) + Ahead

Covered(s, k) ==
    \E n \in 1 .. Len(listed) :
        listed[n].num = s /\ SameReport(array[s][k], array[s][listed[n].index + 1])

CoveredInv ==
    \A s \in 1 .. NumStages : \A k \in 1 .. Len(array[s]) :
        s < stage \/ (s = stage /\ k <= i) => Covered(s, k)

StageInv ==
    /\ array \in [1 .. NumStages -> Seq(StageReports)]
    /\ \A s \in 1 .. NumStages : SortedReports(array[s])
    /\ stage \in 1 .. NumStages + 1
    /\ stage <= NumStages => i <= Len(array[stage])
    /\ done => stage > NumStages
    /\ ListedInv
    /\ ~StageFull => TotalInv /\ CoveredInv

-----------------------------------------------------------------------------
(* Every set of numbers has a least one, and hence induction holds, stated *)
(* for sets.                                                               *)
LEMMA LeastNumber ==
    ASSUME NEW T \in SUBSET Nat, T # {}
    PROVE  \E m \in T : \A n \in T : m <= n
<1> DEFINE R == OpToRel(<, Nat)
<1>1. \A m, n \in Nat : n < m => <<n, m>> \in R
  BY DEF OpToRel
<1>2. IsWellFoundedOn(R, Nat)
  BY NatLessThanWellFounded DEF R
<1> HIDE DEF R
<1>3. PICK m \in T : \A n \in T : ~(<<n, m>> \in R)
  BY <1>2, WFMin
<1>4. ASSUME NEW n \in T, n < m
      PROVE  FALSE
  BY <1>1, <1>3, <1>4
<1> QED BY <1>4

LEMMA Induction ==
    ASSUME NEW T, 0 \in T, \A n \in Nat : n \in T => n + 1 \in T
    PROVE  Nat \subseteq T
<1> SUFFICES ASSUME Nat \ T # {} PROVE FALSE
  OBVIOUS
<1>1. PICK m \in Nat \ T : \A n \in Nat \ T : m <= n
  BY LeastNumber
<1>2. m # 0 /\ m - 1 \in Nat /\ ~(m <= m - 1) /\ (m - 1) + 1 = m
  BY <1>1
<1>3. m - 1 \in T
  BY <1>1, <1>2
<1> QED BY <1>1, <1>2, <1>3

-----------------------------------------------------------------------------
(* One round writes no more than the entry it is at. *)
LEMMA AppendedEntry ==
    ASSUME TypeInv, NEW num \in Int, Append1(num)
    PROVE  /\ listed' \in Seq(Entries)
           /\ Len(listed') = Len(listed) + 1
           /\ \A n \in 1 .. Len(listed) : listed'[n] = listed[n]
           /\ listed'[Len(listed) + 1] = [index |-> i, num |-> num]
<1> DEFINE e == [index |-> i, num |-> num]
<1>1. e \in Entries /\ listed' = Append(listed, e)
  BY DEF TypeInv, Append1, Entries
<1> HIDE DEF e
<1>2. /\ listed' \in Seq(Entries)
      /\ Len(listed') = Len(listed) + 1
      /\ \A n \in 1 .. Len(listed) : listed'[n] = listed[n]
      /\ listed'[Len(listed) + 1] = e
  BY <1>1 DEF TypeInv
<1> QED
  BY <1>2 DEF e

LEMMA ListedEntries ==
    ASSUME TypeInv
    PROVE  /\ DOMAIN listed = 1 .. Len(listed)
           /\ Len(listed) \in Nat
           /\ \A n \in 1 .. Len(listed) : listed[n].index \in Nat /\ listed[n].num \in Int
<1>1. /\ DOMAIN listed = 1 .. Len(listed)
      /\ Len(listed) \in Nat
      /\ \A n \in 1 .. Len(listed) : listed[n] \in Entries
  BY DEF TypeInv
<1> QED BY <1>1 DEF Entries

LEMMA Appended ==
    ASSUME TypeInv, NEW num \in Int, Append1(num)
    PROVE  /\ listed' \in Seq(Entries)
           /\ Len(listed') = Len(listed) + 1
           /\ \A k \in Nat : (InFile(k))' <=> InFile(k) \/ k = i + 1
<1> DEFINE e == [index |-> i, num |-> num]
<1>1. /\ listed' \in Seq(Entries)
      /\ Len(listed') = Len(listed) + 1
      /\ \A n \in 1 .. Len(listed) : listed'[n] = listed[n]
      /\ listed'[Len(listed) + 1] = e
  BY AppendedEntry
<1>2. e.index = i
  OBVIOUS
<1> HIDE DEF e
<1>3. /\ DOMAIN listed = 1 .. Len(listed)
      /\ DOMAIN listed' = 1 .. Len(listed')
      /\ Len(listed) \in Nat
      /\ Len(listed') = Len(listed) + 1
  BY <1>1, ListedEntries
<1>4. /\ \A n \in 1 .. Len(listed) : listed'[n].index = listed[n].index
      /\ listed'[Len(listed) + 1].index = i
  BY <1>1, <1>2
<1>5. ASSUME NEW k \in Nat
      PROVE  (InFile(k))' <=> InFile(k) \/ k = i + 1
  <2>1. i \in Nat /\ (i = k - 1 <=> k = i + 1)
    BY DEF TypeInv
  <2> QED
    BY <1>3, <1>4, <2>1 DEF InFile
<1> QED
  BY <1>5, <1>1

LEMMA NotAppended ==
    ASSUME UNCHANGED listed, NEW k \in Nat
    PROVE  (InFile(k))' <=> InFile(k)
BY DEF InFile

(* What an array is about does not change. *)
LEMMA SameMeaning ==
    ASSUME UNCHANGED <<list, array, options>>, NEW k \in Nat
    PROVE  (MeantForFile(k))' <=> MeantForFile(k)
BY DEF MeantForFile, Merged, IsNotable, ignoreFile, IsAccurate, areSvsEqual, SameNumber,
       options

-----------------------------------------------------------------------------
LEMMA MemoryEntryKeeps ==
    ASSUME TypeInv, MemoryInv, MemoryEntry
    PROVE  TypeInv' /\ MemoryInv'
<1> DEFINE sv == array[i + 1]
           merged == i > 0 /\ areSvsEqual(array[i], sv)
           library == IsNotable(sv) /\ ignoreFile(sv.origin)
           written == (IsNotable(sv) \/ ~clo_ignoreAccurate) /\ ~library /\ HasRoom
           num == Number(IsNotable(sv))
<1>1. /\ i < Len(array)
      /\ i' = i + 1
      /\ list \in MemoryLists
      /\ UNCHANGED <<list, array, options, done>>
      /\ total' \in {total, total + 1}
      /\ \/ (merged \/ ~written) /\ UNCHANGED listed
         \/ ~merged /\ written /\ Append1(num)
  BY DEF MemoryEntry, counters
<1>2. i \in Nat /\ i' \in Nat /\ total \in Int /\ Len(array) \in Nat /\ Len(listed) \in Nat
  BY <1>1 DEF TypeInv, MemoryInv
<1>3. MaxEntries \in Nat
  BY ReportLimits
<1>4. num \in Int
  BY <1>2 DEF Number
<1>5. MeantForFile(i + 1) /\ Len(listed) # MaxEntries => ~merged /\ written
  <2>1. Merged(i + 1) <=> merged
    BY <1>2 DEF Merged
  <2>2. Len(listed) # MaxEntries => HasRoom
    BY <1>2, <1>3 DEF HasRoom, MemoryInv
  <2> QED BY <1>1, <2>1, <2>2 DEF MeantForFile
<1>6. written => HasRoom
  OBVIOUS
<1> HIDE DEF sv, merged, library, written, num
<1>7. Append1(num) => /\ Len(listed') = Len(listed) + 1
                       /\ listed' \in Seq(Entries)
                       /\ \A k \in Nat : (InFile(k))' <=> InFile(k) \/ k = i + 1
  BY <1>4, Appended
<1>8. TypeInv'
  <2>1. listed' \in Seq(Entries)
    BY <1>1, <1>7 DEF TypeInv
  <2> QED BY <1>1, <1>2, <2>1 DEF TypeInv
<1>9. Len(listed') <= MaxEntries
  <2>1. CASE UNCHANGED listed
    BY <2>1 DEF MemoryInv
  <2>2. CASE HasRoom /\ Append1(num)
    BY <1>2, <1>3, <1>7, <2>2 DEF HasRoom
  <2> QED BY <1>1, <1>6, <2>1, <2>2
<1>10. ASSUME NEW k \in 1 .. i', (MeantForFile(k))', ~(InFile(k))'
      PROVE  Len(listed') = MaxEntries
  <2>1. k \in Nat /\ (k \in 1 .. i \/ k = i + 1)
    BY <1>1, <1>2
  <2>2. MeantForFile(k)
    BY <1>1, <1>10, <2>1, SameMeaning
  <2>3. CASE UNCHANGED listed
    <3>1. ~InFile(k)
      BY <1>10, <2>1, <2>3, NotAppended
    <3>2. k \in 1 .. i => Len(listed) = MaxEntries
      BY <2>2, <3>1 DEF MemoryInv
    <3>3. k = i + 1 /\ Len(listed) # MaxEntries => ~merged /\ written
      BY <1>5, <2>2
    <3>4. ~merged /\ written => InFile(i + 1)
      <4>1. ~merged /\ written => Append1(num)
        BY <1>1
      <4>2. ~Append1(num)
        BY <1>2, <1>7, <2>3
      <4> QED BY <4>1, <4>2
    <3> QED BY <2>1, <2>3, <3>1, <3>2, <3>3, <3>4
  <2>4. CASE Append1(num) /\ HasRoom
    <3>1. ~InFile(k) /\ k # i + 1
      BY <1>10, <1>7, <2>1, <2>4
    <3>2. Len(listed) = MaxEntries
      BY <2>1, <2>2, <3>1 DEF MemoryInv
    <3> QED BY <1>2, <1>3, <2>4, <3>2 DEF HasRoom
  <2> QED BY <1>1, <1>6, <2>3, <2>4
<1>11. i' <= Len(array')
  BY <1>1, <1>2
<1>12. ~done'
  BY <1>1, <1>2 DEF MemoryInv
<1>13. array' \in Seq(ShadowValues)
  BY <1>1 DEF MemoryInv
<1> QED BY <1>8, <1>9, <1>10, <1>11, <1>12, <1>13 DEF MemoryInv

LEMMA MeanEntryKeeps ==
    ASSUME TypeInv, MeanInv, MeanEntry
    PROVE  TypeInv' /\ MeanInv'
<1> DEFINE mv == array[i + 1]
           skip == clo_ignoreAccurate /\ IsAccurate(mv)
           library == ~skip /\ ignoreFile(mv.key)
           left == skip \/ library \/ i > MaxEntries
<1>1. /\ i < Len(array)
      /\ i' = i + 1
      /\ list \in MeanLists
      /\ UNCHANGED <<list, array, options>>
      /\ total' = total + 1
      /\ IF left THEN UNCHANGED listed ELSE Append1(0)
  BY DEF MeanEntry
<1>2. i \in Nat /\ i' \in Nat /\ total \in Int /\ Len(array) \in Nat /\ MaxEntries \in Nat
  BY <1>1, ReportLimits DEF TypeInv, MeanInv
<1>3. ~left <=> MeantForFile(i + 1) /\ (i + 1) - 1 <= MaxEntries
  BY <1>1, <1>2 DEF MeantForFile, MemoryLists, MeanLists
<1> HIDE DEF mv, skip, library, left
<1>4. 0 \in Int
  OBVIOUS
<1>5. Append1(0) => /\ listed' \in Seq(Entries)
                    /\ \A k \in Nat : (InFile(k))' <=> InFile(k) \/ k = i + 1
  BY <1>4, Appended
<1>6. Append1(0) => /\ Len(listed') = Len(listed) + 1
                    /\ \A n \in 1 .. Len(listed) : listed'[n] = listed[n]
                    /\ listed'[Len(listed) + 1] = [index |-> i, num |-> 0]
  BY <1>4, AppendedEntry
<1>7. TypeInv'
  BY <1>1, <1>2, <1>5 DEF TypeInv
<1>8. \A n \in DOMAIN listed' : listed'[n].index < i'
  <2>1. /\ DOMAIN listed = 1 .. Len(listed)
        /\ Len(listed) \in Nat
        /\ \A n \in 1 .. Len(listed) : listed[n].index < i /\ listed[n].index \in Nat
    BY ListedEntries DEF MeanInv
  <2>2. CASE UNCHANGED listed
    BY <1>1, <1>2, <2>1, <2>2
  <2>3. CASE Append1(0)
    <3>1. /\ DOMAIN listed' = 1 .. Len(listed) + 1
          /\ \A n \in 1 .. Len(listed) : listed'[n].index = listed[n].index
          /\ listed'[Len(listed) + 1].index = i
      BY <1>5, <1>6, <2>3
    <3> QED BY <1>1, <1>2, <2>1, <3>1
  <2> QED BY <1>1, <2>2, <2>3
<1>9. ~InFile(i + 1)
  BY <1>2 DEF MeanInv, InFile
<1>10. ASSUME NEW k \in 1 .. i'
      PROVE  (InFile(k))' <=> (MeantForFile(k))' /\ k - 1 <= MaxEntries
  <2>1. k \in Nat /\ (k \in 1 .. i \/ k = i + 1)
    BY <1>1, <1>2
  <2>2. (MeantForFile(k))' <=> MeantForFile(k)
    BY <1>1, <2>1, SameMeaning
  <2>3. (InFile(k))' <=> InFile(k) \/ (~left /\ k = i + 1)
    <3>1. CASE left
      BY <1>1, <2>1, <3>1, NotAppended
    <3>2. CASE ~left
      BY <1>1, <1>5, <2>1, <3>2
    <3> QED BY <3>1, <3>2
  <2>4. CASE k = i + 1
    BY <1>3, <1>9, <2>2, <2>3, <2>4
  <2>5. CASE k \in 1 .. i
    <3>1. k # i + 1
      BY <1>2, <2>5
    <3>2. InFile(k) <=> MeantForFile(k) /\ k - 1 <= MaxEntries
      BY <2>5 DEF MeanInv
    <3> QED BY <2>2, <2>3, <3>1, <3>2
  <2> QED BY <2>1, <2>4, <2>5
<1>11. array' \in Seq(MeanValues) /\ i' <= Len(array')
  BY <1>1, <1>2 DEF MeanInv
<1> QED BY <1>7, <1>8, <1>10, <1>11, <1>1 DEF MeanInv

-----------------------------------------------------------------------------
LEMMA ReportFields ==
    ASSUME NEW r \in StageReports
    PROVE  r.count \in Nat /\ r.iterMin \in Nat /\ r.iterMax \in Nat /\ r.origin \in Nat
BY FieldsAssumption

(* The order looks at everything that makes a duplicate: between two that  *)
(* are the same there are only others of the kind.                         *)
LEMMA SortedNeighbours ==
    ASSUME NEW r \in Seq(StageReports), SortedReports(r),
           NEW m \in 1 .. Len(r), NEW n \in 1 .. Len(r), m < n, SameReport(r[m], r[n])
    PROVE  SameReport(r[n - 1], r[n])
<1>1. /\ n - 1 \in 1 .. Len(r)
      /\ m <= n - 1
      /\ n - 1 < n
      /\ DOMAIN r = 1 .. Len(r)
  OBVIOUS
<1>2. r[m] \in StageReports /\ r[n - 1] \in StageReports /\ r[n] \in StageReports
  BY <1>1
<1> DEFINE a == r[m]
           b == r[n - 1]
           c == r[n]
<1>3. compareStageReports(b, c) <= 0 /\ (m # n - 1 => compareStageReports(a, b) <= 0)
  BY <1>1 DEF SortedReports
<1>4. SameReport(a, c)
  OBVIOUS
<1>5. a \in StageReports /\ b \in StageReports /\ c \in StageReports /\ (m = n - 1 => a = b)
  BY <1>2
<1> HIDE DEF a, b, c
<1>6. CASE m = n - 1
  BY <1>4, <1>5, <1>6 DEF a, b, c
<1>7. CASE m # n - 1
  <2>1. /\ a.count \in Nat /\ a.iterMin \in Nat /\ a.iterMax \in Nat /\ a.origin \in Nat
        /\ b.count \in Nat /\ b.iterMin \in Nat /\ b.iterMax \in Nat /\ b.origin \in Nat
        /\ c.count \in Nat /\ c.iterMin \in Nat /\ c.iterMax \in Nat /\ c.origin \in Nat
    BY <1>5, ReportFields
  <2>2. SameReport(b, c)
    BY <1>3, <1>4, <1>7, <2>1 DEF SameReport, compareStageReports
  <2> QED BY <2>2 DEF b, c
<1> QED BY <1>6, <1>7

LEMMA SameReportSymmetric ==
    ASSUME NEW r1, NEW r2, SameReport(r1, r2)
    PROVE  SameReport(r2, r1)
BY DEF SameReport

LEMMA SameReportTransitive ==
    ASSUME NEW r1, NEW r2, NEW r3, SameReport(r1, r2), SameReport(r2, r3)
    PROVE  SameReport(r1, r3)
BY DEF SameReport

LEMMA StageEntryListed ==
    ASSUME TypeInv, StageInv, StageEntry
    PROVE  ListedInv'
<1> DEFINE k == i + 1
           duplicate == i > 0 /\ SameReport(array[stage][i], array[stage][i + 1])
<1>1. /\ stage \in 1 .. NumStages
      /\ k \in 1 .. Len(array[stage])
      /\ i' = i + 1
      /\ UNCHANGED <<array, stage>>
      /\ stage \in Int
      /\ i \in Nat
  BY ReportLimits DEF StageEntry, StageInv, TypeInv
<1>2. IF duplicate THEN UNCHANGED listed ELSE Append1(stage)
  BY DEF StageEntry, Append1
<1>3. /\ Len(listed) \in Nat
      /\ \A n \in 1 .. Len(listed) : listed[n].index \in Nat /\ listed[n].num \in Int
  BY ListedEntries
<1>4. CASE UNCHANGED listed
  BY <1>1, <1>3, <1>4 DEF ListedInv, StageInv
<1>5. CASE ~duplicate /\ Append1(stage)
  <2> DEFINE e == [index |-> i, num |-> stage]
  <2>1. /\ Len(listed') = Len(listed) + 1
        /\ \A n \in 1 .. Len(listed) : listed'[n] = listed[n]
        /\ listed'[Len(listed) + 1] = e
    BY <1>1, <1>5, AppendedEntry
  <2>2. e.index = i /\ e.num = stage
    OBVIOUS
  <2> HIDE DEF e
  <2>3. k > 1 => ~SameReport(array[stage][k - 1], array[stage][k])
    BY <1>1, <1>5
  <2>4. ASSUME NEW n \in 1 .. Len(listed')
        PROVE  LET s == listed'[n].num
                   j == listed'[n].index + 1
               IN  /\ s \in 1 .. NumStages
                   /\ j \in 1 .. Len(array'[s])
                   /\ s < stage' \/ (s = stage' /\ j <= i')
                   /\ j > 1 => ~SameReport(array'[s][j - 1], array'[s][j])
    <3>1. CASE n = Len(listed) + 1
      BY <1>1, <2>1, <2>2, <2>3, <3>1
    <3>2. CASE n \in 1 .. Len(listed)
      <4> DEFINE t == listed[n].num
                 j == listed[n].index + 1
      <4>1. /\ t \in 1 .. NumStages
            /\ j \in 1 .. Len(array[t])
            /\ t < stage \/ (t = stage /\ j <= i)
            /\ j > 1 => ~SameReport(array[t][j - 1], array[t][j])
        BY <3>2 DEF ListedInv, StageInv
      <4>2. j <= i => j <= i'
        BY <1>1, <1>3, <3>2
      <4>3. t = listed'[n].num /\ j = listed'[n].index + 1
        BY <2>1, <3>2
      <4> HIDE DEF t, j
      <4> QED BY <1>1, <4>1, <4>2, <4>3
    <3> QED BY <1>3, <2>1, <3>1, <3>2
  <2>5. ASSUME NEW m \in 1 .. Len(listed'), NEW n \in 1 .. Len(listed'),
               m < n, listed'[m].num = listed'[n].num
        PROVE  listed'[m].index < listed'[n].index
    <3>1. m \in 1 .. Len(listed) /\ listed'[m] = listed[m]
      BY <1>3, <2>1, <2>5
    <3>2. CASE n = Len(listed) + 1
      <4>1. listed[m].num = stage /\ listed'[n].index = i
        BY <2>1, <2>2, <2>5, <3>1, <3>2
      <4>2. listed[m].index + 1 <= i
        BY <1>1, <3>1, <4>1 DEF ListedInv, StageInv
      <4> QED BY <1>1, <1>3, <3>1, <4>1, <4>2
    <3>3. CASE n \in 1 .. Len(listed)
      BY <2>1, <2>5, <3>1, <3>3 DEF ListedInv, StageInv
    <3> QED BY <1>3, <2>1, <3>2, <3>3
  <2> QED BY <2>4, <2>5 DEF ListedInv
<1> QED BY <1>2, <1>4, <1>5

LEMMA StageEntryTotal ==
    ASSUME TypeInv, StageInv, StageEntry
    PROVE  TotalInv'
<1> DEFINE duplicate == i > 0 /\ SameReport(array[stage][i], array[stage][i + 1])
<1>1. /\ stage <= NumStages
      /\ i < Len(array[stage])
      /\ i' = i + 1
      /\ UNCHANGED <<array, stage>>
      /\ total' = total + (IF i = 0 THEN Len(array[stage]) ELSE 0) - (IF duplicate THEN 1 ELSE 0)
      /\ ~StageFull
  BY DEF StageEntry
<1>2. IF duplicate THEN UNCHANGED listed ELSE Append1(stage)
  BY DEF StageEntry, Append1
<1>3. stage \in Int /\ i \in Nat /\ Len(array[stage]) \in Nat /\ Len(listed) \in Nat
  BY <1>1, ReportLimits DEF StageInv, TypeInv
<1> DEFINE L == Len(array[stage])
           written == Len(listed)
           added == IF i = 0 THEN L ELSE 0
           ahead == IF i > 0 THEN L - i ELSE 0
<1>4. /\ L \in Nat /\ written \in Nat /\ added \in Int /\ ahead \in Int /\ total \in Int
      /\ total = written + ahead
      /\ total' = total + added - (IF duplicate THEN 1 ELSE 0)
  <2>1. total = written + ahead
    BY <1>1, <1>3 DEF StageInv, TotalInv, Ahead
  <2> QED BY <1>1, <1>3, <2>1 DEF TypeInv
<1>5. Len(listed') = IF duplicate THEN written ELSE written + 1
  <2>1. CASE duplicate
    BY <1>2, <2>1
  <2>2. CASE ~duplicate
    <3>1. Append1(stage)
      BY <1>2, <2>2
    <3> QED BY <1>3, <2>2, <3>1, AppendedEntry
  <2> QED BY <2>1, <2>2
<1>6. Ahead' = L - (i + 1)
  BY <1>1, <1>3 DEF Ahead
<1> HIDE DEF L, written, duplicate
<1>7. ahead + added = L - i
  BY <1>3, <1>4
<1> HIDE DEF added, ahead
<1>8. total' = Len(listed') + (L - (i + 1))
  <2>1. CASE duplicate
    <3>1. total' = total + added - 1 /\ Len(listed') = written
      BY <1>4, <1>5, <2>1
    <3> QED BY <1>3, <1>4, <1>7, <3>1
  <2>2. CASE ~duplicate
    <3>1. total' = total + added - 0 /\ Len(listed') = written + 1
      BY <1>4, <1>5, <2>2
    <3> QED BY <1>3, <1>4, <1>7, <3>1
  <2> QED BY <2>1, <2>2
<1> QED BY <1>6, <1>8 DEF TotalInv

LEMMA StageEntryCovered ==
    ASSUME TypeInv, StageInv, StageEntry
    PROVE  CoveredInv'
<1> DEFINE duplicate == i > 0 /\ SameReport(array[stage][i], array[stage][i + 1])
<1>1. /\ stage \in 1 .. NumStages
      /\ i + 1 \in 1 .. Len(array[stage])
      /\ i' = i + 1
      /\ UNCHANGED <<array, stage>>
      /\ i \in Nat
      /\ stage \in Int
  BY ReportLimits DEF StageEntry, StageInv, TypeInv
<1>2. IF duplicate THEN UNCHANGED listed ELSE Append1(stage)
  BY DEF StageEntry, Append1
<1>3. Len(listed) \in Nat
  BY ListedEntries
<1>4. /\ 1 .. Len(listed) \subseteq 1 .. Len(listed')
      /\ \A n \in 1 .. Len(listed) : listed'[n] = listed[n]
  <2>1. CASE duplicate
    BY <1>2, <2>1
  <2>2. CASE ~duplicate
    <3>1. Append1(stage)
      BY <1>2, <2>2
    <3>2. Len(listed') = Len(listed) + 1
      BY <1>1, <3>1, AppendedEntry
    <3>3. \A n \in 1 .. Len(listed) : listed'[n] = listed[n]
      BY <1>1, <3>1, AppendedEntry
    <3> QED BY <1>3, <3>2, <3>3
  <2> QED BY <2>1, <2>2
<1>5. \A s \in 1 .. NumStages : \A k \in 1 .. Len(array[s]) : Covered(s, k) => (Covered(s, k))'
  BY <1>1, <1>4 DEF Covered
<1>6. CoveredInv
  BY DEF StageEntry, StageInv
<1>7. ASSUME NEW s \in 1 .. NumStages, s = stage, NEW k \in Nat, k = i + 1
      PROVE  (Covered(s, k))'
  <2>1. CASE duplicate
    <3>1. i \in 1 .. Len(array[s]) /\ SameReport(array[s][i], array[s][k])
      BY <1>1, <1>7, <2>1
    <3>2. Covered(s, i)
      BY <1>1, <1>6, <1>7, <3>1 DEF CoveredInv
    <3>3. PICK n \in 1 .. Len(listed) :
                listed[n].num = s /\ SameReport(array[s][i], array[s][listed[n].index + 1])
      BY <3>2 DEF Covered
    <3>4. SameReport(array[s][k], array[s][listed[n].index + 1])
      BY <3>1, <3>3, SameReportSymmetric, SameReportTransitive
    <3>5. Covered(s, k)
      BY <3>3, <3>4 DEF Covered
    <3> QED BY <1>1, <1>4, <3>5 DEF Covered
  <2>2. CASE ~duplicate
    <3> DEFINE e == [index |-> i, num |-> stage]
    <3>1. Len(listed') = Len(listed) + 1 /\ listed'[Len(listed) + 1] = e
      BY <1>1, <1>2, <2>2, AppendedEntry
    <3>2. e.num = s /\ e.index + 1 = k
      BY <1>7
    <3> HIDE DEF e
    <3>3. Len(listed) + 1 \in 1 .. Len(listed')
      BY <1>3, <3>1
    <3>4. SameReport(array'[s][k], array'[s][listed'[Len(listed) + 1].index + 1])
      BY <3>1, <3>2 DEF SameReport
    <3> QED BY <3>1, <3>2, <3>3, <3>4 DEF Covered
  <2> QED BY <2>1, <2>2
<1>8. ASSUME NEW s \in 1 .. NumStages, NEW k \in 1 .. Len(array'[s]),
             s < stage' \/ (s = stage' /\ k <= i')
      PROVE  (Covered(s, k))'
  <2>1. k \in 1 .. Len(array[s]) /\ k \in Int /\ s \in Int
    BY <1>1, <1>8
  <2>2. CASE s < stage \/ (s = stage /\ k <= i)
    BY <1>5, <1>6, <2>1, <2>2 DEF CoveredInv
  <2>3. CASE s = stage /\ k = i + 1
    BY <1>7, <2>1, <2>3
  <2> QED BY <1>1, <1>8, <2>1, <2>2, <2>3
<1> QED BY <1>8 DEF CoveredInv

LEMMA StageEntryKeeps ==
    ASSUME TypeInv, StageInv, StageEntry
    PROVE  TypeInv' /\ StageInv'
<1>1. /\ list' = list
      /\ i < Len(array[stage])
      /\ i' = i + 1
      /\ UNCHANGED <<array, stage, done>>
      /\ stage <= NumStages
  BY DEF StageEntry
<1>2. /\ i \in Nat
      /\ stage \in Int
      /\ stage \in 1 .. NumStages
      /\ Len(array[stage]) \in Nat
  BY <1>1, ReportLimits DEF StageInv, TypeInv
<1>3. TypeInv'
  <2>1. listed' \in Seq(Entries)
    <3>1. UNCHANGED listed \/ Append1(stage)
      BY DEF StageEntry, Append1
    <3> QED BY <1>2, <3>1, AppendedEntry DEF TypeInv
  <2>2. total' \in Int
    BY <1>2 DEF StageEntry, TypeInv
  <2> QED BY <1>1, <1>2, <2>1, <2>2 DEF TypeInv
<1>4. ~done'
  <2>1. ~(stage > NumStages)
    BY <1>1, <1>2, ReportLimits
  <2> QED BY <1>1, <2>1 DEF StageInv
<1>5. /\ array' \in [1 .. NumStages -> Seq(StageReports)]
      /\ \A s \in 1 .. NumStages : SortedReports(array'[s])
      /\ stage' \in 1 .. NumStages + 1
      /\ stage' <= NumStages => i' <= Len(array'[stage'])
  BY <1>1, <1>2 DEF StageInv
<1> QED BY <1>3, <1>4, <1>5, StageEntryListed, StageEntryTotal, StageEntryCovered DEF StageInv

LEMMA NextStageKeeps ==
    ASSUME TypeInv, StageInv, NextStage
    PROVE  TypeInv' /\ StageInv'
<1>1. /\ i' = 0
      /\ stage <= NumStages
      /\ i = Len(array[stage]) \/ StageFull
      /\ stage' = IF StageFull THEN NumStages + 1 ELSE stage + 1
      /\ UNCHANGED <<list, array, listed, done, total>>
  BY DEF NextStage, counters
<1>2. NumStages \in Nat /\ stage \in 1 .. NumStages /\ stage \in Int
  BY <1>1, ReportLimits DEF StageInv
<1>3. stage' \in 1 .. NumStages + 1 /\ stage' > stage
  BY <1>1, <1>2
<1>4. TypeInv'
  BY <1>1 DEF TypeInv
<1>5. ~done'
  BY <1>1, <1>2 DEF StageInv
<1>6. ListedInv'
  <2>1. \A n \in 1 .. Len(listed) : listed[n].num \in Int /\ listed[n].num <= stage
    <3> SUFFICES ASSUME NEW n \in 1 .. Len(listed)
                 PROVE  listed[n].num \in Int /\ listed[n].num <= stage
      OBVIOUS
    <3>1. listed[n].num \in Int
      BY ListedEntries
    <3>2. listed[n].num < stage \/ listed[n].num = stage
      BY DEF StageInv, ListedInv
    <3> QED BY <1>2, <3>1, <3>2
  <2>2. \A n \in 1 .. Len(listed) : listed[n].num < stage'
    BY <1>2, <1>3, <2>1
  <2> QED BY <1>1, <2>2 DEF StageInv, ListedInv
<1>7. ASSUME ~(StageFull)'
      PROVE  TotalInv' /\ CoveredInv'
  <2>1. ~StageFull
    BY <1>1, <1>7 DEF StageFull
  <2>2. i = Len(array[stage]) /\ stage' = stage + 1 /\ TotalInv /\ CoveredInv
    BY <1>1, <2>1 DEF StageInv
  <2>3. Ahead = 0 /\ Ahead' = 0
    <3>1. Len(array[stage]) \in Nat
      BY <1>2 DEF StageInv
    <3> QED BY <1>1, <2>2, <3>1 DEF Ahead
  <2>4. ASSUME NEW s \in 1 .. NumStages, NEW k \in 1 .. Len(array[s]), s < stage'
        PROVE  Covered(s, k)
    <3>1. s < stage \/ (s = stage /\ k <= i)
      BY <1>2, <2>2, <2>4
    <3> QED BY <2>2, <3>1 DEF CoveredInv
  <2>5. \A s \in 1 .. NumStages : \A k \in 1 .. Len(array[s]) : (Covered(s, k))' <=> Covered(s, k)
    BY <1>1 DEF Covered
  <2>6. \A s \in 1 .. NumStages : \A k \in 1 .. Len(array[s]) : ~(k <= i')
    BY <1>1
  <2> QED BY <1>1, <2>2, <2>3, <2>4, <2>5, <2>6 DEF TotalInv, CoveredInv
<1>8. stage' <= NumStages => i' <= Len(array'[stage'])
  <2>1. stage' <= NumStages => Len(array[stage']) \in Nat
    BY <1>2, <1>3 DEF StageInv
  <2> QED BY <1>1, <2>1
<1> QED BY <1>1, <1>3, <1>4, <1>5, <1>6, <1>7, <1>8 DEF StageInv

-----------------------------------------------------------------------------
IInv ==
    /\ TypeInv
    /\ list \in MemoryLists => MemoryInv
    /\ list \in MeanLists => MeanInv
    /\ list = "stage_reports" => StageInv

LEMMA ListsDiffer ==
    /\ \A l \in MemoryLists : l \notin MeanLists /\ l # "stage_reports"
    /\ \A l \in MeanLists : l # "stage_reports"
BY DEF MemoryLists, MeanLists

LEMMA SameInFile ==
    ASSUME UNCHANGED listed, NEW k
    PROVE  (InFile(k))' <=> InFile(k)
BY DEF InFile

(* A step that only ends the loop, when its guard says that it is over, or *)
(* does nothing.                                                           *)
LEMMA EndKeeps ==
    ASSUME IInv, Close \/ UNCHANGED vars
    PROVE  IInv'
<1>1. UNCHANGED <<list, array, options, i, stage, total, listed>>
  BY DEF Close, vars, counters
<1>2. \/ done' = done
      \/ IF list = "stage_reports" THEN stage > NumStages ELSE i = Len(array)
  BY DEF Close, vars
<1>3. TypeInv'
  BY <1>1 DEF IInv, TypeInv
<1>4. \A k \in 1 .. i : ((MeantForFile(k))' <=> MeantForFile(k)) /\ ((InFile(k))' <=> InFile(k))
  <2>1. ASSUME NEW k \in Nat
        PROVE  ((MeantForFile(k))' <=> MeantForFile(k)) /\ ((InFile(k))' <=> InFile(k))
    BY <1>1, SameMeaning, SameInFile
  <2>2. 1 .. i \subseteq Nat
    BY DEF IInv, TypeInv
  <2> QED BY <2>1, <2>2
<1>5. list \in MemoryLists => MemoryInv'
  BY <1>1, <1>2, <1>4, ListsDiffer DEF IInv, MemoryInv
<1>6. list \in MeanLists => MeanInv'
  BY <1>1, <1>4 DEF IInv, MeanInv
<1>7. list = "stage_reports" => StageInv'
  <2> SUFFICES ASSUME list = "stage_reports" PROVE StageInv'
    OBVIOUS
  <2>1. StageInv /\ (done' => stage > NumStages)
    BY <1>2 DEF IInv, StageInv
  <2>2. ListedInv'
    BY <1>1, <2>1 DEF StageInv, ListedInv
  <2>3. ~(StageFull)' => TotalInv' /\ CoveredInv'
    <3>1. (StageFull)' <=> StageFull
      BY <1>1 DEF StageFull
    <3>2. TotalInv => TotalInv'
      BY <1>1 DEF TotalInv, Ahead
    <3>3. CoveredInv => CoveredInv'
      BY <1>1 DEF CoveredInv, Covered
    <3> QED BY <2>1, <3>1, <3>2, <3>3 DEF StageInv
  <2> QED BY <1>1, <2>1, <2>2, <2>3 DEF StageInv
<1> QED BY <1>1, <1>3, <1>5, <1>6, <1>7 DEF IInv

LEMMA InitHolds == Init => IInv
<1> SUFFICES ASSUME Init PROVE IInv
  OBVIOUS
<1>1. /\ i = 0 /\ stage = 1 /\ total = 0 /\ listed = <<>> /\ done = FALSE
      /\ \/ list \in MemoryLists /\ array \in Arrays(ShadowValues)
         \/ list \in MeanLists /\ array \in Arrays(MeanValues)
         \/ /\ list = "stage_reports"
            /\ array \in [1 .. NumStages -> {a \in Arrays(StageReports) : SortedReports(a)}]
  BY DEF Init
<1>2. ASSUME NEW S PROVE Arrays(S) \subseteq Seq(S)
  BY ReportLimits DEF Arrays
<1>3. TypeInv
  BY <1>1 DEF TypeInv, Lists
<1>4. list \in MemoryLists => MemoryInv
  BY <1>1, <1>2, ListsDiffer, ReportLimits DEF MemoryInv
<1>5. list \in MeanLists => MeanInv
  BY <1>1, <1>2, ListsDiffer DEF MeanInv
<1>6. list = "stage_reports" => StageInv
  <2> SUFFICES ASSUME list = "stage_reports" PROVE StageInv
    OBVIOUS
  <2>1. array \in [1 .. NumStages -> {a \in Arrays(StageReports) : SortedReports(a)}]
    BY <1>1, ListsDiffer
  <2>2. /\ array \in [1 .. NumStages -> Seq(StageReports)]
        /\ \A s \in 1 .. NumStages : SortedReports(array[s])
    BY <1>2, <2>1
  <2>3. stage \in 1 .. NumStages + 1 /\ (stage <= NumStages => i <= Len(array[stage]))
    BY <1>1, <2>2, ReportLimits
  <2>4. ListedInv
    BY <1>1 DEF ListedInv
  <2>5. TotalInv
    BY <1>1 DEF TotalInv, Ahead
  <2>6. CoveredInv
    BY <1>1 DEF CoveredInv
  <2> QED BY <1>1, <2>2, <2>3, <2>4, <2>5, <2>6 DEF StageInv
<1> QED BY <1>3, <1>4, <1>5, <1>6 DEF IInv

LEMMA StepKeeps == IInv /\ [Next]_vars => IInv'
<1> SUFFICES ASSUME IInv, [Next]_vars PROVE IInv'
  OBVIOUS
<1>1. CASE MemoryEntry
  <2>1. list \in MemoryLists /\ list' = list
    BY <1>1 DEF MemoryEntry
  <2> QED BY <1>1, <2>1, MemoryEntryKeeps, ListsDiffer DEF IInv
<1>2. CASE MeanEntry
  <2>1. list \in MeanLists /\ list' = list
    BY <1>2 DEF MeanEntry
  <2> QED BY <1>2, <2>1, MeanEntryKeeps, ListsDiffer DEF IInv
<1>3. CASE NextStage
  <2>1. list = "stage_reports" /\ list' = list
    BY <1>3 DEF NextStage
  <2> QED BY <1>3, <2>1, NextStageKeeps, ListsDiffer DEF IInv
<1>4. CASE StageEntry
  <2>1. list = "stage_reports" /\ list' = list
    BY <1>4 DEF StageEntry
  <2> QED BY <1>4, <2>1, StageEntryKeeps, ListsDiffer DEF IInv
<1>5. CASE Close \/ Ended \/ UNCHANGED vars
  BY <1>5, EndKeeps DEF Ended
<1> QED BY <1>1, <1>2, <1>3, <1>4, <1>5 DEF Next

LEMMA Invariant == Spec => []IInv
<1> QED BY InitHolds, StepKeeps, PTL DEF Spec

(* A list of shadow values that lacks an entry meant for it has as many    *)
(* entries as a file may have when it is closed, and says so.              *)
THEOREM OmissionsAnnounced == Spec => []MemoryOmissionsAnnounced
<1>1. IInv => MemoryOmissionsAnnounced
  <2> SUFFICES ASSUME IInv, done, list \in MemoryLists, NEW k \in DOMAIN array,
                      MeantForFile(k), ~InFile(k)
               PROVE  Len(listed) = MaxEntries
    BY DEF MemoryOmissionsAnnounced, Omits, SaysMaximum
  <2>1. k \in 1 .. i
    BY DEF IInv, MemoryInv
  <2> QED BY <2>1 DEF IInv, MemoryInv
<1> QED BY <1>1, Invariant, PTL

(* No two reports listed for a stage are the same; a file that is closed   *)
(* before it is full has one like each report, and the number printed is   *)
(* that of its entries.                                                    *)
THEOREM ReportsDistinct == Spec => []StageReportsDistinct
<1>1. ASSUME IInv, list = "stage_reports",
             NEW m \in DOMAIN listed, NEW n \in DOMAIN listed,
             m < n, listed[m].num = listed[n].num
      PROVE  ~SameReport(array[listed[m].num][listed[m].index + 1],
                         array[listed[n].num][listed[n].index + 1])
  <2> DEFINE s == listed[n].num
             j == listed[m].index + 1
             k == listed[n].index + 1
  <2>1. /\ m \in 1 .. Len(listed) /\ n \in 1 .. Len(listed)
        /\ listed[m].index \in Nat /\ listed[n].index \in Nat
    BY <1>1, ListedEntries DEF IInv
  <2>2. /\ s \in 1 .. NumStages
        /\ j \in 1 .. Len(array[s])
        /\ k \in 1 .. Len(array[s])
        /\ k > 1 => ~SameReport(array[s][k - 1], array[s][k])
    BY <1>1, <2>1 DEF IInv, StageInv, ListedInv
  <2>3. j < k /\ k > 1
    <3>1. ListedInv
      BY <1>1 DEF IInv, StageInv
    <3>2. listed[m].index < listed[n].index
      BY <1>1, <2>1, <3>1 DEF ListedInv
    <3> QED BY <2>1, <3>2
  <2>4. array[s] \in Seq(StageReports) /\ SortedReports(array[s])
    BY <1>1, <2>2 DEF IInv, StageInv
  <2> HIDE DEF j, k, s
  <2>5. ~SameReport(array[s][j], array[s][k])
    BY <2>2, <2>3, <2>4, SortedNeighbours
  <2> QED BY <1>1, <2>5 DEF s, j, k
<1>2. ASSUME IInv, list = "stage_reports", done, ~StageFull
      PROVE  /\ total = Len(listed)
             /\ \A s \in DOMAIN array : \A k \in DOMAIN array[s] :
                    \E n \in DOMAIN listed :
                        /\ listed[n].num = s
                        /\ SameReport(array[s][k], array[s][listed[n].index + 1])
  <2>1. StageInv /\ stage > NumStages /\ TotalInv /\ CoveredInv
    BY <1>2 DEF IInv, StageInv
  <2>2. stage \in Int /\ NumStages \in Nat /\ ~(stage <= NumStages)
    BY <2>1, ReportLimits DEF StageInv
  <2>3. DOMAIN listed = 1 .. Len(listed) /\ Len(listed) \in Nat
    BY <1>2, ListedEntries DEF IInv
  <2>4. total = Len(listed)
    BY <2>1, <2>2, <2>3 DEF TotalInv, Ahead
  <2>5. ASSUME NEW s \in DOMAIN array, NEW k \in DOMAIN array[s]
        PROVE  Covered(s, k)
    <3>1. s \in 1 .. NumStages /\ k \in 1 .. Len(array[s])
      BY <2>1 DEF StageInv
    <3>2. s < stage
      BY <2>1, <2>2, <3>1
    <3> QED BY <2>1, <3>1, <3>2 DEF CoveredInv
  <2> QED BY <2>3, <2>4, <2>5 DEF Covered
<1>3. IInv => StageReportsDistinct
  <2> SUFFICES ASSUME IInv, list = "stage_reports" PROVE StageReportsDistinct
    BY DEF StageReportsDistinct
  <2>1. ASSUME NEW m \in DOMAIN listed, NEW n \in DOMAIN listed, m # n,
               listed[m].num = listed[n].num
        PROVE  ~SameReport(array[listed[m].num][listed[m].index + 1],
                           array[listed[n].num][listed[n].index + 1])
    <3>1. m \in Int /\ n \in Int
      BY ListedEntries DEF IInv
    <3>2. CASE m < n
      BY <1>1, <2>1, <3>2
    <3>3. CASE n < m
      BY <1>1, <2>1, <3>3, SameReportSymmetric
    <3> QED BY <2>1, <3>1, <3>2, <3>3
  <2> QED BY <1>2, <2>1 DEF StageReportsDistinct
<1> QED BY <1>3, Invariant, PTL

-----------------------------------------------------------------------------
(* An entry that is merged tells what the entry before it tells: of an     *)
(* error, if neither is NaN.                                               *)
LEMMA MergedTellsTheSame ==
    ASSUME IInv, list \in MemoryLists, NEW k \in 1 .. i, Merged(k),
           IsNotable(array[k]),
           list = "relative_error" => array[k - 1].value # NaN
    PROVE  /\ IsNotable(array[k - 1])
           /\ Told(array[k - 1]) = Told(array[k])
           /\ array[k - 1].origin = array[k].origin
<1> DEFINE sv1 == array[k - 1]
           sv2 == array[k]
<1>1. areSvsEqual(sv1, sv2)
  BY DEF Merged
<1> HIDE DEF sv1, sv2
<1>2. sv1.origin = sv2.origin /\ sv1.canceled = sv2.canceled /\ sv1.org = sv2.org
  BY <1>1 DEF areSvsEqual
<1>3. CASE list = "relative_error"
  <2>1. sv1.value # NaN /\ sv2.value # NaN
    BY <1>3 DEF IsNotable, SameNumber, sv1, sv2
  <2>2. sv1.value = sv2.value
    BY <1>1, <2>1 DEF areSvsEqual, SameNumber
  <2>3. IsNotable(sv1) /\ Told(sv1) = Told(sv2)
    BY <1>2, <1>3, <2>2 DEF IsNotable, Told, sv2
  <2> QED BY <1>2, <2>3 DEF sv1, sv2
<1>4. CASE list = "canceled"
  <2>1. IsNotable(sv1) /\ Told(sv1) = Told(sv2)
    BY <1>2, <1>4 DEF IsNotable, Told, sv2
  <2> QED BY <1>2, <2>1 DEF sv1, sv2
<1>5. CASE list = "special"
  <2>1. IsNotable(sv1) /\ Told(sv1) = Told(sv2)
    BY <1>2, <1>5 DEF IsNotable, Told, sv2
  <2> QED BY <1>2, <2>1 DEF sv1, sv2
<1> QED BY <1>3, <1>4, <1>5 DEF MemoryLists

(* What a list of shadow values is about is told of every one looked at,   *)
(* by the first entry of the chain that it is merged into: it is from a    *)
(* library, or the file is full, or it is an error and there is a NaN in   *)
(* the chain, otherwise.                                                   *)
THEOREM MergingLosesNothingElse == Spec => []NotableAreTold
<1>1. ASSUME IInv, list \in MemoryLists
      PROVE  \A k \in 1 .. i : IsNotable(array[k]) =>
                \/ \E n \in 1 .. k : InFile(n) /\ Told(array[n]) = Told(array[k])
                \/ ignoreFile(array[k].origin)
                \/ Len(listed) = MaxEntries
                \/ list = "relative_error" /\ MergedIntoNaN(k)
  <2> DEFINE Named(k) == \E n \in 1 .. k : InFile(n) /\ Told(array[n]) = Told(array[k])
             Lost(k) == list = "relative_error" /\ MergedIntoNaN(k)
             T == {k \in Nat : k \in 1 .. i /\ IsNotable(array[k]) =>
                    \/ Named(k) \/ ignoreFile(array[k].origin)
                    \/ Len(listed) = MaxEntries \/ Lost(k)}
  <2>1. i \in Nat /\ MemoryInv
    BY <1>1 DEF IInv, TypeInv
  <2>2. 0 \in T
    BY <2>1
  <2>3. ASSUME NEW j \in Nat, j \in T
        PROVE  j + 1 \in T
    <3> DEFINE k == j + 1
    <3> SUFFICES ASSUME k \in 1 .. i, IsNotable(array[k]), ~ignoreFile(array[k].origin),
                        Len(listed) # MaxEntries, ~Lost(k)
                 PROVE  Named(k)
      OBVIOUS
    <3>1. k \in Nat /\ k - 1 = j
      OBVIOUS
    <3>2. CASE ~Merged(k)
      <4>1. MeantForFile(k)
        BY <1>1, <3>2 DEF MeantForFile
      <4>2. InFile(k)
        BY <2>1, <4>1 DEF MemoryInv
      <4> QED BY <3>1, <4>2
    <3>3. CASE Merged(k)
      <4>1. j \in 1 .. i
        BY <2>1, <3>1, <3>3 DEF Merged
      <4>2. list = "relative_error" => array[j].value # NaN /\ ~MergedIntoNaN(j)
        <5> SUFFICES ASSUME list = "relative_error" PROVE array[j].value # NaN /\ ~MergedIntoNaN(j)
          OBVIOUS
        <5>1. ~MergedIntoNaN(k)
          OBVIOUS
        <5>2. array[j].value # NaN
          BY <3>1, <3>3, <4>1, <5>1 DEF MergedIntoNaN
        <5>3. ASSUME NEW n \in 1 .. j - 1, array[n].value = NaN,
                     \A m \in n + 1 .. j : Merged(m)
              PROVE  FALSE
          <6>1. \A m \in n + 1 .. k : Merged(m)
            BY <3>1, <3>3, <5>3
          <6>2. n \in 1 .. k - 1
            BY <3>1
          <6> QED BY <5>1, <5>3, <6>1, <6>2 DEF MergedIntoNaN
        <5> QED BY <5>2, <5>3 DEF MergedIntoNaN
      <4>3. /\ IsNotable(array[j]) /\ Told(array[j]) = Told(array[k])
            /\ array[j].origin = array[k].origin
        BY <1>1, <3>1, <3>3, <4>2, MergedTellsTheSame
      <4>4. Named(j)
        BY <2>3, <4>1, <4>2, <4>3
      <4> QED BY <3>1, <4>1, <4>3, <4>4
    <3> QED BY <3>2, <3>3
  <2>4. Nat \subseteq T
    <3> HIDE DEF T
    <3> QED BY <2>2, <2>3, Induction
  <2> QED BY <2>1, <2>4
<1>2. IInv => NotableAreTold
  BY <1>1 DEF NotableAreTold
<1> QED BY <1>2, Invariant, PTL

-----------------------------------------------------------------------------
(* The counter of ignoreFile is well defined: its value after every prefix *)
(* of a name is that of one step from the value before.                    *)
LEMMA MatchedUnrolls ==
    ASSUME NEW desc, Len(desc) \in Nat
    PROVE  \E pi : /\ pi = [n \in 0 .. Len(desc) |->
                              IF n = 0 THEN 0
                              ELSE IF pi[n - 1] = Len(Pattern) THEN pi[n - 1]
                              ELSE Advance(pi[n - 1], desc[n])]
                   /\ Matched(desc) = pi[Len(desc)]
<1> DEFINE Body(pi, n) == IF n = 0 THEN 0
                          ELSE IF pi[n - 1] = Len(Pattern) THEN pi[n - 1]
                          ELSE Advance(pi[n - 1], desc[n])
           T == {m \in Nat : \E g : g = [n \in 0 .. m |-> Body(g, n)]}
<1>1. 0 \in T
  <2>1. [n \in 0 .. 0 |-> 0] = [n \in 0 .. 0 |-> Body([k \in 0 .. 0 |-> 0], n)]
    OBVIOUS
  <2> QED BY <2>1
<1>2. ASSUME NEW m \in Nat, m \in T PROVE m + 1 \in T
  <2>1. PICK g : g = [n \in 0 .. m |-> Body(g, n)]
    BY <1>2
  <2> DEFINE h == [n \in 0 .. m + 1 |-> IF n = m + 1 THEN Body(g, n) ELSE g[n]]
  <2>2. \A n \in 0 .. m + 1 : h[n] = Body(h, n)
    <3> TAKE n \in 0 .. m + 1
    <3>1. n # 0 => n - 1 \in 0 .. m /\ n - 1 \in 0 .. m + 1 /\ n - 1 # m + 1
      OBVIOUS
    <3>2. n # 0 => h[n - 1] = g[n - 1]
      BY <3>1
    <3>3. Body(h, n) = Body(g, n)
      BY <3>2
    <3>4. n # m + 1 => h[n] = Body(g, n)
      <4>1. n # m + 1 => n \in 0 .. m
        OBVIOUS
      <4> HIDE DEF Body
      <4> QED BY <4>1, <2>1
    <3>5. n = m + 1 => h[n] = Body(g, n)
      OBVIOUS
    <3> QED BY <3>3, <3>4, <3>5
  <2>3. h = [n \in 0 .. m + 1 |-> Body(h, n)]
    <3>1. h = [n \in 0 .. m + 1 |-> h[n]]
      OBVIOUS
    <3> HIDE DEF h, Body
    <3> QED BY <2>2, <3>1
  <2> HIDE DEF h, Body
  <2> QED BY <2>3
<1>3. Len(desc) \in T
  <2> HIDE DEF T
  <2> QED BY <1>1, <1>2, Induction
<1> DEFINE p == CHOOSE g : g = [n \in 0 .. Len(desc) |-> Body(g, n)]
<1>4. p = [n \in 0 .. Len(desc) |-> Body(p, n)]
  <2>1. \E g : g = [n \in 0 .. Len(desc) |-> Body(g, n)]
    BY <1>3
  <2> HIDE DEF Body
  <2> QED BY <2>1
<1>5. Matched(desc) = p[Len(desc)]
  BY Zenon DEF Matched
<1> HIDE DEF p
<1> QED BY <1>4, <1>5

PatternAt(desc, n) == desc[n] = "." /\ desc[n + 1] = "s" /\ desc[n + 2] = "o"

LEMMA OccurrencesArePlaces ==
    ASSUME NEW desc \in Seq(STRING), NEW n \in 1 .. Len(desc) - 2
    PROVE  n \in Occurrences(desc) <=> PatternAt(desc, n)
<1>1. /\ n \in Nat /\ Len(desc) \in Nat /\ n + 2 \in 1 .. Len(desc)
      /\ n + 1 \in 1 .. Len(desc) /\ n \in 1 .. Len(desc)
  OBVIOUS
<1> DEFINE part == SubSeq(desc, n, n + 2)
<1>2. /\ part = [j \in 1 .. 3 |-> part[j]]
      /\ part[1] = desc[n] /\ part[2] = desc[n + 1] /\ part[3] = desc[n + 2]
  <2>1. part \in Seq(STRING) /\ Len(part) = 3
    BY <1>1
  <2>2. part[1] = desc[n] /\ part[2] = desc[n + 1] /\ part[3] = desc[n + 2]
    BY <1>1
  <2> HIDE DEF part
  <2> QED BY <2>1, <2>2
<1> HIDE DEF part
<1>3. part = Pattern <=> PatternAt(desc, n)
  <2>1. /\ Pattern = [j \in 1 .. 3 |-> Pattern[j]]
        /\ Pattern[1] = "." /\ Pattern[2] = "s" /\ Pattern[3] = "o"
    BY DEF Pattern
  <2>2. \A j \in 1 .. 3 : j = 1 \/ j = 2 \/ j = 3
    OBVIOUS
  <2>3. PatternAt(desc, n) => \A j \in 1 .. 3 : part[j] = Pattern[j]
    BY <1>2, <2>1, <2>2 DEF PatternAt
  <2>4. (\A j \in 1 .. 3 : part[j] = Pattern[j]) => part = Pattern
    BY <1>2, <2>1
  <2>5. part = Pattern => PatternAt(desc, n)
    BY <1>2, <2>1 DEF PatternAt
  <2> QED BY <2>3, <2>4, <2>5
<1> QED BY <1>3 DEF Occurrences, part

(* What the counter has seen: the pattern, or the start of it that the     *)
(* prefix ends with.                                                       *)
Seen(desc, n, count) ==
    /\ count \in 0 .. 3
    /\ count = 1 => n >= 1 /\ desc[n] = "."
    /\ count = 2 => n >= 2 /\ desc[n - 1] = "." /\ desc[n] = "s"
    /\ count = 3 => \E m \in 1 .. n - 2 : PatternAt(desc, m)

LEMMA AdvanceSteps ==
    ASSUME NEW char
    PROVE  /\ Advance(0, char) = IF char = "." THEN 1 ELSE 0
           /\ Advance(1, char) = IF char = "s" THEN 2 ELSE 0
           /\ Advance(2, char) = IF char = "o" THEN 3 ELSE 0
BY DEF Advance, Pattern

LEMMA LibraryNames ==
    ASSUME NEW desc \in Seq(STRING)
    PROVE  /\ NamesLibrary(desc) => Occurrences(desc) # {}
           /\ ~NamesLibrary(desc) => \A n \in Occurrences(desc) : Hidden(desc, n)
<1> DEFINE L == Len(desc)
<1>1. L \in Nat /\ Len(Pattern) = 3
  BY DEF Pattern
<1>2. PICK pi : /\ pi = [n \in 0 .. L |-> IF n = 0 THEN 0
                                        ELSE IF pi[n - 1] = Len(Pattern) THEN pi[n - 1]
                                        ELSE Advance(pi[n - 1], desc[n])]
                /\ Matched(desc) = pi[L]
  BY <1>1, MatchedUnrolls
<1> HIDE DEF L
<1>3. /\ pi[0] = 0
      /\ \A n \in Nat : n + 1 <= L =>
            pi[n + 1] = IF pi[n] = 3 THEN 3 ELSE Advance(pi[n], desc[n + 1])
  <2>1. pi[0] = 0
    BY <1>1, <1>2
  <2>2. ASSUME NEW n \in Nat, n + 1 <= L
        PROVE  pi[n + 1] = IF pi[n] = 3 THEN 3 ELSE Advance(pi[n], desc[n + 1])
    <3>1. n + 1 \in 0 .. L /\ n + 1 # 0 /\ (n + 1) - 1 = n
      BY <1>1, <2>2
    <3> QED BY <1>1, <1>2, <3>1
  <2> QED BY <2>1, <2>2
<1>4. \A n \in 0 .. L : Seen(desc, n, pi[n])
  <2> DEFINE T == {n \in Nat : n <= L => Seen(desc, n, pi[n])}
  <2>1. 0 \in T
    BY <1>3 DEF Seen
  <2>2. ASSUME NEW n \in Nat, n \in T
        PROVE  n + 1 \in T
    <3> SUFFICES ASSUME n + 1 <= L PROVE Seen(desc, n + 1, pi[n + 1])
      OBVIOUS
    <3>1. Seen(desc, n, pi[n])
      BY <1>1, <2>2
    <3>2. pi[n + 1] = IF pi[n] = 3 THEN 3 ELSE Advance(pi[n], desc[n + 1])
      BY <1>3
    <3>3. (n + 1) - 1 = n /\ (n + 1) - 2 = n - 1
      OBVIOUS
    <3>4. CASE pi[n] = 0
      BY <3>2, <3>4, AdvanceSteps DEF Seen
    <3>5. CASE pi[n] = 1
      BY <3>1, <3>2, <3>3, <3>5, AdvanceSteps DEF Seen
    <3>6. CASE pi[n] = 2
      <4>1. n >= 2 /\ desc[n - 1] = "." /\ desc[n] = "s"
        BY <3>1, <3>6 DEF Seen
      <4>2. pi[n + 1] = IF desc[n + 1] = "o" THEN 3 ELSE 0
        BY <3>2, <3>6, AdvanceSteps
      <4>3. desc[n + 1] = "o" => PatternAt(desc, n - 1)
        <5>1. (n - 1) + 1 = n /\ (n - 1) + 2 = n + 1
          OBVIOUS
        <5> QED BY <4>1, <5>1 DEF PatternAt
      <4>4. n - 1 \in 1 .. (n + 1) - 2
        BY <4>1
      <4> QED BY <4>2, <4>3, <4>4 DEF Seen
    <3>7. CASE pi[n] = 3
      <4>1. PICK m \in 1 .. n - 2 : PatternAt(desc, m)
        BY <3>1, <3>7 DEF Seen
      <4>2. m \in 1 .. (n + 1) - 2
        OBVIOUS
      <4> QED BY <3>2, <3>7, <4>1, <4>2 DEF Seen
    <3> QED BY <3>1, <3>4, <3>5, <3>6, <3>7 DEF Seen
  <2>3. Nat \subseteq T
    <3> HIDE DEF T
    <3> QED BY <2>1, <2>2, Induction
  <2> QED BY <1>1, <2>3
<1>5. ASSUME NEW n \in 0 .. L, pi[n] = 3
      PROVE  pi[L] = 3
  <2> DEFINE T == {d \in Nat : n + d <= L => pi[n + d] = 3}
  <2>1. 0 \in T
    BY <1>5
  <2>2. ASSUME NEW d \in Nat, d \in T
        PROVE  d + 1 \in T
    <3> SUFFICES ASSUME n + (d + 1) <= L PROVE pi[n + (d + 1)] = 3
      OBVIOUS
    <3>1. n + d \in Nat /\ (n + d) + 1 <= L /\ n + (d + 1) = (n + d) + 1 /\ n + d <= L
      BY <1>1
    <3> QED BY <1>3, <2>2, <3>1
  <2>3. Nat \subseteq T
    <3> HIDE DEF T
    <3> QED BY <2>1, <2>2, Induction
  <2>4. L - n \in Nat /\ n + (L - n) = L
    BY <1>1
  <2>5. L - n \in T
    <3> HIDE DEF T
    <3> QED BY <2>3, <2>4
  <2> QED BY <1>1, <2>4, <2>5
<1>6. NamesLibrary(desc) <=> pi[L] = 3
  BY <1>1, <1>2 DEF NamesLibrary
<1>7. ASSUME NamesLibrary(desc)
      PROVE  Occurrences(desc) # {}
  <2>1. PICK m \in 1 .. L - 2 : PatternAt(desc, m)
    BY <1>1, <1>4, <1>6, <1>7 DEF Seen
  <2> QED BY <2>1, OccurrencesArePlaces DEF L
<1>8. ASSUME NEW n \in Occurrences(desc), ~Hidden(desc, n)
      PROVE  NamesLibrary(desc)
  <2>1. n \in 1 .. L - 2
    BY DEF Occurrences, L
  <2>2. PatternAt(desc, n)
    BY <2>1, OccurrencesArePlaces DEF L
  <2>3. /\ n - 1 \in Nat /\ n \in Nat /\ n + 1 \in Nat
        /\ (n - 1) + 1 = n /\ (n - 1) - 1 = n - 2 /\ (n + 1) + 1 = n + 2
        /\ n - 1 \in 0 .. L /\ n + 2 \in 0 .. L
        /\ n <= L /\ n + 1 <= L /\ n + 2 <= L
    BY <1>1, <2>1
  <2>4. Seen(desc, n - 1, pi[n - 1])
    BY <1>4, <2>3
  <2>5. pi[n - 1] # 1
    BY <1>8, <2>1, <2>3, <2>4 DEF Seen, Hidden
  <2>6. pi[n - 1] # 2
    BY <1>8, <2>1, <2>3, <2>4 DEF Seen, Hidden
  <2>7. pi[n - 1] \in {0, 3}
    BY <2>4, <2>5, <2>6 DEF Seen
  <2>8. /\ pi[n] = IF pi[n - 1] = 3 THEN 3 ELSE Advance(pi[n - 1], desc[n])
        /\ pi[n + 1] = IF pi[n] = 3 THEN 3 ELSE Advance(pi[n], desc[n + 1])
        /\ pi[n + 2] = IF pi[n + 1] = 3 THEN 3 ELSE Advance(pi[n + 1], desc[n + 2])
    <3>1. pi[(n - 1) + 1] = IF pi[n - 1] = 3 THEN 3 ELSE Advance(pi[n - 1], desc[(n - 1) + 1])
      BY <1>3, <2>3
    <3>2. pi[(n + 1) + 1] = IF pi[n + 1] = 3 THEN 3 ELSE Advance(pi[n + 1], desc[(n + 1) + 1])
      BY <1>3, <2>3
    <3>3. pi[n + 1] = IF pi[n] = 3 THEN 3 ELSE Advance(pi[n], desc[n + 1])
      BY <1>3, <2>3
    <3> QED BY <2>3, <3>1, <3>2, <3>3
  <2>9. pi[n + 2] = 3
    <3>1. desc[n] = "." /\ desc[n + 1] = "s" /\ desc[n + 2] = "o"
      BY <2>2 DEF PatternAt
    <3>2. pi[n] \in {1, 3}
      BY <2>7, <2>8, <3>1, AdvanceSteps
    <3>3. pi[n + 1] \in {2, 3}
      BY <2>8, <3>1, <3>2, AdvanceSteps
    <3> QED BY <2>8, <3>1, <3>3, AdvanceSteps
  <2> QED BY <1>5, <1>6, <2>3, <2>9
<1> QED BY <1>7, <1>8

(* Which operations are in the list of cancellations: those in a library   *)
(* are left out, but for the libraries whose name the one counter of       *)
(* ignoreFile misses, and nothing else is taken for a library.             *)
THEOREM LibrariesAreLeftOut == Spec => []LibrariesFiltered
<1>1. ASSUME IInv, list = "mean_errors_canceled", NEW k \in 1 .. i
      PROVE  LET places == Occurrences(array[k].key)
             IN  IF InFile(k)
                 THEN clo_ignoreLibraries => \A n \in places : Hidden(array[k].key, n)
                 ELSE \/ clo_ignoreAccurate /\ IsAccurate(array[k])
                      \/ k - 1 > MaxEntries
                      \/ clo_ignoreLibraries /\ places # {}
  <2>1. MeanInv /\ list \notin MemoryLists
    BY <1>1 DEF IInv, MeanLists, MemoryLists
  <2>2. k \in Int /\ k - 1 \in Int /\ MaxEntries \in Nat
    BY ReportLimits
  <2>3. InFile(k) <=> /\ ~(clo_ignoreAccurate /\ IsAccurate(array[k]))
                      /\ ~ignoreFile(array[k].key)
                      /\ k - 1 <= MaxEntries
    BY <2>1 DEF MeanInv, MeantForFile
  <2>4. array[k].key \in Seq(STRING)
    <3>1. array[k] \in MeanValues
      BY <1>1, <2>1 DEF MeanInv, IInv, TypeInv
    <3> QED BY <3>1, FieldsAssumption
  <2>5. ignoreFile(array[k].key) <=> clo_ignoreLibraries /\ NamesLibrary(array[k].key)
    BY DEF ignoreFile
  <2> QED BY <2>2, <2>3, <2>4, <2>5, LibraryNames
<1>2. IInv => LibrariesFiltered
  BY <1>1 DEF LibrariesFiltered
<1> QED BY <1>2, Invariant, PTL

=============================================================================
