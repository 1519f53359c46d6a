-------------------------------- MODULE Reports --------------------------------
(***************************************************************************)
(* The lists that src/valgrind/fpdebug/fd_main.c writes at the end of the  *)
(* run: the shadow values in memory with a relative error, with canceled   *)
(* bits or with a special value (writeMemoryRelError, writeMemoryCanceled, *)
(* writeMemorySpecial), the operations (writeMeanValues) and the reports   *)
(* of the stages (writeStageReports).  Every list is one loop over a       *)
(* sorted array; a step is one round of it.  The loops share no state, so  *)
(* that a behaviour is one of them.  A stage without a table of reports is *)
(* one with no reports here.                                               *)
(*                                                                         *)
(* The graphs of the first list are OriginGraph's business, the writing of *)
(* lines OutputFiles'.  VG_(ssort) is taken to sort.                       *)
(***************************************************************************)
EXTENDS LibraryFilter, FiniteSets

CONSTANTS
    ShadowValues,  \* shadow values in memory
    MeanValues,    \* records of operations
    StageReports,  \* reports of a stage
    NumStages,     \* MAX_STAGES, 100 in the code
    MaxLength,     \* bound on the length of an array
    MaxEntries,    \* MAX_ENTRIES_PER_FILE, 10000 in the code
    CancelLimit,   \* CANCEL_LIMIT, 10 in the code
    NaN, Inf       \* the numbers that are none

ASSUME ReportLimits ==
    /\ NumStages \in Nat
    /\ MaxLength \in Nat
    /\ MaxEntries \in Nat
    /\ CancelLimit \in Nat

(* Numbers are only compared for equality.  A description is made of       *)
(* characters.                                                             *)
ASSUME FieldsAssumption ==
    LET Value == Int \cup {NaN, Inf}
        Description == Seq(STRING)
    IN  /\ ShadowValues \subseteq [opCount: Nat, value: Value, org: Value,
                                   canceled: Nat, origin: Description]
        /\ MeanValues \subseteq [key: Description, sum: Value, canceledMax: Nat]
        /\ StageReports \subseteq [count: Nat, iterMin: Nat, iterMax: Nat, origin: Nat]

MemoryLists == {"relative_error", "canceled", "special"}
MeanLists == {"mean_errors", "mean_errors_canceled"}

VARIABLES
    list,            \* the list that is written
    array,           \* what it is about, sorted
    clo_ignoreAccurate, clo_ignoreLibraries,
    i,               \* index of the entry to be looked at, from 0
    stage,           \* writeStageReports: the stage it belongs to
    total,           \* entries counted
    notable,         \* of these, those the list is about
    skipped,         \* operations left out as accurate
    skippedLibrary,  \* entries left out for their library
    listed,          \* the entries in the file, with the number printed
    done

counters == <<total, notable, skipped, skippedLibrary>>
options == <<clo_ignoreAccurate, clo_ignoreLibraries>>
vars == <<list, array, options, i, stage, counters, listed, done>>

(* compareShadowValues: more operations first.  Addresses, which decide    *)
(* between equal counts, are all different and of no further interest.     *)
SortedMemory(a) == \A m, n \in DOMAIN a : m < n => a[m].opCount >= a[n].opCount

(* (variant) Reports are not ordered by their origin. *)
compareStageReportsCoarse(r1, r2) ==
    IF r1.count # r2.count THEN r2.count - r1.count
    ELSE IF r1.iterMin # r2.iterMin THEN r2.iterMin - r1.iterMin
    ELSE r2.iterMax - r1.iterMax

compareStageReports(r1, r2) ==
    IF r1.count # r2.count THEN r2.count - r1.count
    ELSE IF r1.iterMin # r2.iterMin THEN r2.iterMin - r1.iterMin
    ELSE IF r1.iterMax # r2.iterMax THEN r2.iterMax - r1.iterMax
    ELSE r2.origin - r1.origin

SortedReports(a) == \A m, n \in DOMAIN a : m < n => compareStageReports(a[m], a[n]) <= 0

Arrays(S) == UNION {[1 .. n -> S] : n \in 0 .. MaxLength}

Init ==
    /\ \/ list \in MemoryLists /\ array \in {a \in Arrays(ShadowValues) : SortedMemory(a)}
       \/ list \in MeanLists /\ array \in Arrays(MeanValues)
       \/ list = "stage_reports"
          /\ array \in [1 .. NumStages -> {a \in Arrays(StageReports) : SortedReports(a)}]
    /\ clo_ignoreAccurate \in BOOLEAN
    /\ clo_ignoreLibraries \in BOOLEAN
    /\ i = 0
    /\ stage = 1
    /\ total = 0
    /\ notable = 0
    /\ skipped = 0
    /\ skippedLibrary = 0
    /\ listed = <<>>
    /\ done = FALSE

-----------------------------------------------------------------------------
(* mpfr_cmp: a NaN compares equal to everything. *)
SameNumber(x, y) == x = y \/ x = NaN \/ y = NaN

(* (variant) The originals are not compared. *)
areSvsEqualShadows(sv1, sv2) ==
    /\ sv1.opCount = sv2.opCount
    /\ sv1.origin = sv2.origin
    /\ sv1.canceled = sv2.canceled
    /\ SameNumber(sv1.value, sv2.value)

(* The originals are compared in C, where NaN differs from itself. *)
areSvsEqual(sv1, sv2) ==
    /\ sv1.opCount = sv2.opCount
    /\ sv1.origin = sv2.origin
    /\ sv1.canceled = sv2.canceled
    /\ SameNumber(sv1.value, sv2.value)
    /\ sv1.org = sv2.org /\ sv1.org # NaN

(* What a list of shadow values is about.  A relative error that is NaN,   *)
(* which that of an infinite shadow value is, counts as none.              *)
IsNotable(sv) ==
    CASE list = "relative_error" -> ~SameNumber(sv.value, sv.org) /\ sv.value # Inf
      [] list = "canceled" -> sv.canceled > CancelLimit
      [] list = "special" -> sv.org \in {NaN, Inf}

ignoreFile(desc) == clo_ignoreLibraries /\ NamesLibrary(desc)

(* The number printed before an entry. *)
Number(isNotable) == IF isNotable = (list # "canceled") THEN total + 1 ELSE i

Append1(num) == listed' = Append(listed, [index |-> i, num |-> num])

(* (variant) The list may get one entry more. *)
HasRoomForOneMore == Len(listed) <= MaxEntries

HasRoom == Len(listed) < MaxEntries

(* One round of writeMemoryRelError, writeMemoryCanceled or                *)
(* writeMemorySpecial.                                                     *)
MemoryEntry ==
    LET sv == array[i + 1]
        merged == i > 0 /\ areSvsEqual(array[i], sv)
        library == IsNotable(sv) /\ ignoreFile(sv.origin)
        written == (IsNotable(sv) \/ ~clo_ignoreAccurate) /\ ~library /\ HasRoom
    IN  /\ list \in MemoryLists
        /\ i < Len(array)
        /\ i' = i + 1
        /\ IF merged
           THEN UNCHANGED <<counters, listed>>
           ELSE /\ total' = total + 1
                /\ notable' = IF IsNotable(sv) THEN notable + 1 ELSE notable
                /\ skippedLibrary' = IF library THEN skippedLibrary + 1 ELSE skippedLibrary
                /\ IF written THEN Append1(Number(IsNotable(sv))) ELSE UNCHANGED listed
                /\ UNCHANGED skipped
        /\ UNCHANGED <<list, array, options, stage, done>>

IsAccurate(mv) == IF list = "mean_errors" THEN mv.sum \in {0, NaN} ELSE mv.canceledMax = 0

(* One round of writeMeanValues.  The limit is on the index. *)
MeanEntry ==
    LET mv == array[i + 1]
        skip == clo_ignoreAccurate /\ IsAccurate(mv)
        library == ~skip /\ ignoreFile(mv.key)
    IN  /\ list \in MeanLists
        /\ i < Len(array)
        /\ i' = i + 1
        /\ total' = total + 1
        /\ skipped' = IF skip THEN skipped + 1 ELSE skipped
        /\ skippedLibrary' = IF library THEN skippedLibrary + 1 ELSE skippedLibrary
        /\ IF skip \/ library \/ i > MaxEntries THEN UNCHANGED listed ELSE Append1(0)
        /\ UNCHANGED <<list, array, options, stage, notable, done>>

(* A stage of writeStageReports whose reports have all been looked at, or  *)
(* after which the file is full.                                           *)
StageFull == Len(listed) > MaxEntries

NextStage ==
    /\ list = "stage_reports"
    /\ stage <= NumStages
    /\ i = Len(array[stage]) \/ StageFull
    /\ i' = 0
    /\ stage' = IF StageFull THEN NumStages + 1 ELSE stage + 1
    /\ UNCHANGED <<list, array, options, counters, listed, done>>

SameReport(r1, r2) ==
    /\ r1.count = r2.count
    /\ r1.iterMin = r2.iterMin
    /\ r1.iterMax = r2.iterMax
    /\ r1.origin = r2.origin

(* A report: total is totalReports, to which the reports of a stage are    *)
(* added before its first one, and from which duplicates are taken.        *)
StageEntry ==
    LET reports == array[stage]
        duplicate == i > 0 /\ SameReport(reports[i], reports[i + 1])
    IN  /\ list = "stage_reports"
        /\ stage <= NumStages
        /\ i < Len(reports)
        /\ ~StageFull
        /\ i' = i + 1
        /\ total' = total + (IF i = 0 THEN Len(reports) ELSE 0) - (IF duplicate THEN 1 ELSE 0)
        /\ IF duplicate
           THEN UNCHANGED listed
           ELSE listed' = Append(listed, [index |-> i, num |-> stage])
        /\ UNCHANGED <<list, array, options, stage, notable, skipped,
                       skippedLibrary, done>>

(* The counters are printed and the file is closed. *)
Close ==
    /\ ~done
    /\ IF list = "stage_reports" THEN stage > NumStages ELSE i = Len(array)
    /\ done' = TRUE
    /\ UNCHANGED <<list, array, options, i, stage, counters, listed>>

Ended == done /\ UNCHANGED vars

Next == MemoryEntry \/ MeanEntry \/ NextStage \/ StageEntry \/ Close \/ Ended

Spec == Init /\ [][Next]_vars

-----------------------------------------------------------------------------
Merged(k) == k > 1 /\ areSvsEqual(array[k - 1], array[k])

InFile(k) == \E n \in DOMAIN listed : listed[n].index = k - 1

(* Entries that are meant for the file, however long it gets. *)
MeantForFile(k) ==
    IF list \in MemoryLists
    THEN /\ ~Merged(k)
         /\ IF IsNotable(array[k]) THEN ~ignoreFile(array[k].origin) ELSE ~clo_ignoreAccurate
    ELSE /\ ~(clo_ignoreAccurate /\ IsAccurate(array[k]))
         /\ ~ignoreFile(array[k].key)

Omits == \E k \in DOMAIN array : MeantForFile(k) /\ ~InFile(k)

(* "(maximum number written to file)" *)
SaysMaximum == Len(listed) = MaxEntries

(* A list of shadow values that leaves out entries for its length says so  *)
(* in its last lines: with merged, skipped and library entries in between, *)
(* the number of entries written decides, and it stops at the limit.       *)
MemoryOmissionsAnnounced == done /\ list \in MemoryLists /\ Omits => SaysMaximum

(* "(maximum number written to file)" (fd_main.c:3327): the same for the   *)
(* lists of operations.                                                    *)
MeanOmissionsAnnounced == done /\ list \in MeanLists /\ Omits => SaysMaximum

(* An entry before k is NaN, and k and all between are merged into it. *)
MergedIntoNaN(k) ==
    \E n \in 1 .. k - 1 :
        array[n].value = NaN /\ \A m \in n + 1 .. k : Merged(m)

(* What a list says about a shadow value. *)
Told(sv) ==
    CASE list = "relative_error" -> <<sv.origin, sv.org, sv.value>>
      [] list = "canceled" -> <<sv.origin, sv.canceled>>
      [] list = "special" -> <<sv.origin, sv.org>>

(* Merging looks at neighbours only, along chains of any length, with two  *)
(* comparisons that are not equalities, before it is known what an entry   *)
(* is for the list.  Still, what a list is about is told of every shadow   *)
(* value looked at so far, by its own entry or an earlier one, unless it   *)
(* is from a library or the file is full; but an error is lost behind a    *)
(* shadow value that is NaN, which is equal to any other.                  *)
NotableAreTold ==
    list \in MemoryLists => \A k \in 1 .. i :
        IsNotable(array[k]) =>
            \/ \E n \in 1 .. k : InFile(n) /\ Told(array[n]) = Told(array[k])
            \/ ignoreFile(array[k].origin)
            \/ Len(listed) = MaxEntries
            \/ list = "relative_error" /\ MergedIntoNaN(k)

(* An operation that is not in the list of cancellations is accurate, too  *)
(* far behind, or really in a library; and one that is, although libraries *)
(* are ignored, is in none, or in one whose name has the pattern right     *)
(* after an unfinished start of it, as in "..so".                          *)
LibrariesFiltered ==
    list = "mean_errors_canceled" => \A k \in 1 .. i :
        LET places == Occurrences(array[k].key)
        IN  IF InFile(k)
            THEN clo_ignoreLibraries => \A n \in places : Hidden(array[k].key, n)
            ELSE \/ clo_ignoreAccurate /\ IsAccurate(array[k])
                 \/ k - 1 > MaxEntries
                 \/ clo_ignoreLibraries /\ places # {}

(* Duplicates are looked for among neighbours only: because the array is   *)
(* sorted by everything that makes a duplicate, no two reports listed for  *)
(* a stage are the same, and if the file did not get full every report has *)
(* one like it in the file and the count printed is that of the list.      *)
StageReportsDistinct ==
    list = "stage_reports" =>
        /\ \A m, n \in DOMAIN listed :
                m # n /\ listed[m].num = listed[n].num =>
                ~SameReport(array[listed[m].num][listed[m].index + 1],
                            array[listed[n].num][listed[n].index + 1])
        /\ done /\ ~StageFull =>
            /\ total = Len(listed)
            /\ \A s \in DOMAIN array : \A k \in DOMAIN array[s] :
                \E n \in DOMAIN listed :
                    /\ listed[n].num = s
                    /\ SameReport(array[s][k], array[s][listed[n].index + 1])
=============================================================================
