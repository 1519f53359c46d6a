# A TLA+ model of FpDebug

FpDebug is a Valgrind tool.  It runs a guest program's floating-point
operations a second time, in higher precision, and tells the programmer which
results are inaccurate and which operations made them so.  All of its own logic
is in `src/valgrind/fpdebug/fd_main.c`; `fd_include.h` has the data structures
and `fpdebug.h` the client requests a guest can make.  This directory holds
TLA+ modules for that logic, configurations that check them with TLC, and
proofs that TLAPS checks.

## The system

| component | state | operations |
|---|---|---|
| shadow machine | `localTemps`, `threadRegisters`, `globalMemory`; `sbExecuted`, `clo_analyze`; during instrumentation `tmpInstead`, `tmpInReg` | `fd_instrument` and the calls it inserts: `processLoad`, `processStore`, `processPut(I)`, `processGet(I)`, `processUnOp`, `processBinOp`, `processTriOp`, `processMux0X`; `resetShadowValues`, `beginAnalyzing`, `endAnalyzing`, `insertShadow` |
| stages | `stages`, `stageReports`, `activeStages` | `stageStart`, `stageEnd`, `stageClear`, `updateStages` (from `processStore`) |
| mean errors | `meanValues`; `origin`, `canceled`, `cancelOrigin` of every shadow value | `updateMeanValue` (from every operation), `getIntroducedError` |
| origin graph | `visited` flags, `originAddrSet`, the level counters on the stack | `writeOriginGraph`, `dumpGraph`, and the loop of `writeMemoryRelError` that calls them |
| reports | none of their own; they read all tables at exit | `writeMemoryRelError`, `writeMemoryCanceled`, `writeMemorySpecial`, `writeMeanValues`, `writeStageReports` and their comparators |
| output files | `fwrite_buf`, `fwrite_pos`, `fwrite_fd`; the file system | `my_fwrite`, `fwrite_flush`, `getFileName`, opening and closing of each file |
| working precision, operand values | shared MPFR variables, `sTmp`, `sConst`, `binOpArgs` | `--sim-original` in the three operations, `readSTemp`, `writeSTemp`, ... |
| circular registers | the keys of `threadRegisters` | `processPutI`, `processGetI` |
| printing, operation names, library filter | none | `mpfrToString`, `opToString.c`, `ignoreFile` |

Valgrind translates the guest superblock by superblock.  `fd_instrument` sees a
superblock once, decides which temporaries are only other names of others
(`tmpInstead`) and inserts calls for the rest.  When the superblock runs, the
calls move shadow values between the three tables and compute new ones; an
operation also feeds `meanValues`, a store the active stages.  Between two
superblocks Valgrind may change threads, deliver a signal, run a system call or
hand a client request to the tool.  Nothing is freed: a cell is valid by its
`version` (temporaries) or by its `active` flag (registers, memory), and the
same cells are used again and again.

What is hard here is therefore not concurrency in the usual sense (one thread
runs at a time) but *staleness*: a shadow value that is still, or again, found
where the guest's data has changed, through reuse of cells, aliases decided
ahead of time, threads, requests at any point and data that moves behind the
tool's back.  `PROJECT.json` lists the hazards line by line.

At the end of the run, or when the guest asks for a graph, the tool turns from
a recorder into a reader.  There the difficulties are others: links between
operations that form cycles, flags that outlive the graph that set them,
neighbours merged by comparisons that are no equalities, limits tested on
different counters, one buffer behind several files, and file names looked for
in one step and used in a later one.

## Modules

### ShadowMap, the promise

A map from every temporary, register and address to the shadow value of the
data there, or none.  A statement that copies data copies the entry, an
operation makes a new one, a write without a shadow value removes it.  No
versions, no flags, no aliases.

### Superblock, the shadow machine

The state and the operations in the table's first row.

* A shadow value is the serial number of the operation that computed it (it
  stands for the MPFR number: the properties ask *which* value is found, never
  how large it is) with its `opCount`.
* One action per kind of IR statement: its guard is what `fd_instrument`
  requires to insert the call, its effect what the call does.  `Copy` is the
  conversions and packings whose result is an alias, `RdTmp` the assignment
  that passes on an alias but starts none, `Opaque` everything that the tool
  neither instruments nor aliases.
* The forward pass over the superblock is taken statement by statement.  A
  superblock is straight-line code in SSA form, so that the alias of a
  temporary depends only on earlier statements.  `EnterSB` may happen at any
  time, because a superblock has side exits.
* `sbExecuted` is a 64-bit counter, `version` a 32-bit field assigned from it:
  `VersionMod` is the number of values of the field.
* `Request` is a client request.  It ends its superblock.
* `Opaque` also stands for an operation of an ignored library, which
  `isInLibrary` keeps from being instrumented.

`Superblock!Map` is ShadowMap with `tmp[t]` the shadow value found through
`tmpInstead`, `reg` and `mem` those of the active cells.  `MapSpec` says that
the machine implements it.

### GuestData, the machine and the guest's data

Superblock together with the data of the guest: every location has the id of
the operation whose result is in its low half, 0 for any other data.  It adds
what happens to data without a statement that the tool sees: signal frames
saved and restored by the core, a new thread with its parent's registers,
system calls that write memory, accesses that overlap (`Overlaps`), loads from
constant addresses, and `insertShadow`, which writes the shadow value back.
`follow` is what the data's history says about its shadow value: it has its own
(it was followed from the operation on), none (it came by a way the tool does
not follow, to a cell that was or became empty), or any (it came, unnoticed, to
where a shadow value of other data is).  `Faithful` says that own data has the
shadow value of the operation that computed it and data without one has none:
no reuse of a cell, of an alias or of a thread number gives it a value back.
Of "any" data nothing is said; that the program has such data is its known
weakness.

The operations whose result is an alias are of two kinds.  Conversions and the
low halves pass on the datum (`Copy`).  `Halves` are the others:
`V128HIto64`, `64HIto32` and the `64to32` of a double take a half that the
shadow value does not belong to, `64HLtoV128` and `32HLto64` are aliases of
their high half although the low one is the number that the next operation
reads.  If there is a shadow value, it is then found for data of another origin,
and the shadow value of the low half is not found for the whole.  High halves
are plain data here: which operation's result is in one is not recorded.

`Events` selects what can happen.
The statements that call `processTriOp` are left out; they do what those of
`processBinOp` do.  Statements that write memory or registers in other ways
(`Ist_CAS`, dirty helpers) are not instrumented either; their effect is that of
`SystemCall`.

### Stages

The stage tables as functions on the addresses they have nodes for.  A relative
error is a small number, infinite or NaN, with MPFR's rules that a comparison
with NaN is never greater and that a drift between two infinite errors is NaN.
`history` keeps the tables of all executions since the last CLEAR, and the properties define limits and reports over it.  Requests that
fail a `tl_assert` end the tool and are no steps.  `updateStages` is enabled
whenever a stage is counted as active; which stores reach it is Superblock's
business.

### MeanErrors

One record per code address with counts, sums and maxima, and shadow values
reduced to where they come from.  Where they are kept is left open (`Slots`).
`samples` keeps what every execution contributed; the properties are stated
over it.  A relative error is a number, infinite (only the guest's value has
overflowed) or NaN, with MPFR's arithmetic: the difference of two infinite
errors is NaN.  UInt fields have `Word` values.  The `overflow` flag of the signed
64-bit `canceledSum` is left out.

### OriginGraph

`writeOriginGraph` is a recursion over the links that MeanErrors keeps.  It
changes static variables but no locals of its callers, so that the calls still
to be made are known as soon as a call has written its lines: `calls` is the
list of them, and one step runs the first.  `level` is the parameter of that name,
which is passed by value and incremented on the way (`++level` in the first
call made, `level` in the second), and `depth` the number of frames.  Nodes are
code addresses; colours, labels and the text of a line are left out.  A shadow
value is given by what the loop of the report looks at: origin, count, original
and shadow, either of which may be NaN or infinite; whether it has an error
(`HasError`) follows from these.  The input
(links, libraries, shadow values in memory, options) is fixed at the start.  A guest may request graphs, which
neither look at nor set the `visited` flags; at exit `Entry` is one round of
`writeMemoryRelError`, whose graph is finished before the next round.  A file
may fail to open.  That a record exists for every address looked up is
`OriginsKnown` of MeanErrors.

### Reports and LibraryFilter

One action per kind of list is one round of its loop: merging with the
neighbour, filter, counters and limit, in the order of the code.  The arrays
are sorted as the comparators sort them.  Numbers keep what comparisons can
tell: values, NaN, infinity.  `Told` is what a list is about in an entry, and
`NotableAreTold` says that it is told of every shadow value that has it.
`LibraryFilter` translates the matching of
`ignoreFile` (a recursive function on the prefixes of a name, whose value is the
code's counter) beside a definition of what it looks for.  A description is a
short sequence of characters, since here the conversion is what the property is
about.

### OutputFiles and AppendFiles

`AppendFiles` is the promise: an open file to which everything is appended at
once.  `OutputFiles` is the code: the one buffer, the chunks that bypass it,
the descriptors that the kernel gives out again, the names that `getFileName`
looks for one at a time while other processes create and remove files, and
graphs written while a report is open.  Descriptors are chosen freely among
those not in use.  `OutputFiles!AppendsOnly` is `AppendFiles!Spec` with the
contents of a file being what is on disk and, for the file the buffer belongs
to, what the buffer holds.  Both have `asked`, the history of what was to be
written to each open file.  OutputFiles records it where `my_fwrite` is called,
apart from what `my_fwrite` does, and AppendFiles lets it and the contents grow
only together: a call that drops its chunk, or adds it to another file, is no
step that AppendFiles allows.

### Precision

What `--sim-original` does to the precision of results and operands.  All
operations ask the arguments of the last *binary* operation, which are
uninitialized before the first: `binOp` starts with any width.

### CircularIndex

The keys of `processPutI` and `processGetI`, with C's remainder, as definitions
that SuperblockProofs has theorems about; there is no state and hence no run.  The sizes of the array are
those that VEX uses for x87, eight elements, so that the arithmetic stays
linear.

How the modules fit together: GuestData extends Superblock.  Superblock implements
ShadowMap, OutputFiles implements AppendFiles.  MeanErrors, Stages and
OriginGraph take from each other only what is named: MeanErrors leaves open
where shadow values are (any movement that Superblock allows is a copy between
slots), Stages takes stores with any error, OriginGraph any links, also those
that no run of MeanErrors produces.  Each is thus checked, and proved, in a
more general environment than the one it has in the tool.

## Runs

| run | question | instance |
|---|---|---|
| `superblock` | do versions, flags and aliases ever give a wrong shadow value, with two threads and all requests? | 3 temporaries (an alias of an alias needs three), a register (computed ones are in `guest`), the instruction pointer, an address, 2 threads, 2 superblocks, 2 operations |
| `guest` | does every datum have the shadow value, or none, that its history says? | 2 temporaries, 2 superblocks, 2 operations, halves and requests, and either (`InMemory`) two overlapping addresses, a computed register, system calls, write-back, or (`InRegisters`) two threads, a register, signals, new threads |
| `guest_signal` | what is stale when the tool does not follow the data | signals only |
| `stages` | lifecycle, limits and reports against the history | either (`Lifecycle`) two nested stages, two CLEARs, three executions, errors that are 0 or NaN, or (`Repetition`) one stage, two addresses, one of them with infinite errors and NaN, four executions (the first drift is known after two, the first report comes with the third, a range needs a fourth) |
| `stages_clear` | reports after CLEAR | 1 stage, 1 address |
| `mean_errors` | links, blame, sums, maxima, introduced errors | 3 operations (one with two different operands needs three), 2 slots, 3 executions, errors 0, 1, 3, infinite, NaN (without errors any bits are canceled, with errors none) |
| `origin_graph` | what graphs contain, how deep the recursion gets, whether it ends | 4 operations with all combinations of six pairs of operands each (chains, shared operands, loops of one to four), depth limit 2, 2 report graphs, a request, 3 entries listed, up to 5 shadow values, in one of three arrays: three entries, one with merged neighbours, one with an error merged into a NaN and a NaN merged into an error |
| `reports` | merging, filtering, counting and cutting off | arrays of up to four entries, files for two |
| `list_limit` | does the limit of the operation lists announce itself? | arrays of up to three, files for one |
| `output` | is buffered writing like appending, and do older reports survive? | 2 reports, the first with graphs, 2 suffixes, 2 descriptors, a buffer of 3 that chunks of 3 bypass, 3 writes |
| `precision` | which precisions can occur? | 2 places, both widths, every order of operations |
| `sim_original` | does `--sim-original` simulate the original precision? | the same |

Bounds: `MaxSB`, `MaxOps`, `MaxCount`, `MaxSamples`, `MaxWrites`, `MaxGraphs`
(of OutputFiles), `MaxRequests`, `MaxMemory` and `MaxLength` bound counters,
sequences and inputs and stand in the guards of the actions that count or in
the initial states; `MaxLevel`, `MaxEntries`, `LastSuffix`, `BufSize` and
`Through` are limits of the code with small values, and OriginGraph's `MaxGraphs` is
another.  A stale cell needs one superblock to be
written in and one to be read in.  With a depth limit of 2 the recursion can
reach four frames, which needs a chain of four operations through a library;
four operations also let a graph skip what an earlier one has shown.  A merge
that is not transitive needs three entries, the limit a fourth.  Three writes
fill the buffer, overflow it and come back to a file after another one.
Temporaries, threads, slots and code addresses are symmetric where a cfg says
so.  Where a run has two instances, the MC module restricts the steps to one of
them; nothing is redefined.

In the cfgs of Superblock, GuestData, Stages and MeanErrors `CHECK_DEADLOCK
FALSE` is there because a guest may end at any point and because counters are
bounded.  The other runs check for deadlock: a tool that stopped in the middle
of a report would be found.

Fairness: only OriginGraph has any, `WF_vars(Tool)` for the tool's own steps.
A graph and the reports are written by straight-line and recursive code
without waiting; once a request or the exit has been reached the tool runs on.
The guest's steps have no fairness, it may run forever.  `GraphsFinish` then
says that every graph ends although operations feed each other in cycles, and
that the report at exit comes to its end.

### What the violations show

* `guest_signal`: when a handler returns, Valgrind restores the interrupted
  code's registers, but their shadow values are still the handler's.
* `stages_clear`: `stageClear` keeps the reports but restarts the count; a
  later report has a first execution after its last.
* `list_limit`: `writeMeanValues` compares the limit with the index in the
  sorted array, skipped entries included, and lets one more through; its last
  lines mention the maximum only if exactly as many entries were written.
* `sim_original`: a unary operation on doubles after a binary one on floats
  gets a float's precision.  TLC's shortest trace has no binary operation at
  all, so that the width is that of uninitialized memory.

Seen on the way, or found with the same modules, and without a run of their own:

* `insertShadow` (2818) does not look at `active`: after a store of plain data it
  writes the old value's shadow over it.  `printError`, `isErrorGreater` and
  `dumpGraph` look up values in the same way.
* A load from a constant address is not instrumented (1470), though a store to
  it is: the value comes back without its shadow value.
* A NaN in the first execution of an operation is its maximum forever (437),
  and the first drift of a stage, if NaN, its limit; `MaxIsWorst` and
  `LimitIsLargestDrift` say so.  The comparison also makes the operation
  accurate for `clo_ignoreAccurate`, so that its graph is empty.
* A relative error that is NaN, as that of an infinite shadow value is, counts
  as no error in the list of relative errors.
* `areSvsEqual` takes a shadow value that is NaN for equal to any other (2928).
  An entry with an error behind one with NaN and the same origin, count and
  original is merged into it, is not listed, as NaN counts as no error, and gets
  no graph.  `NotableAreTold` and `Owed` of `ErrorsAreExplained` except exactly
  these entries; both runs have them.
* The relative error is infinite when the guest's value has overflowed and the
  shadow value has not (401).  If the largest errors of an operation and of an
  operand are both infinite, the introduced error is Inf - Inf, NaN
  (2381-2417): `IntroducedIsFair` says that it is NaN then and only then.
* The aliases of the operations that take or make halves of a vector
  (1998-2051, `GuestData!Halves`) give data a shadow value that is not its own:
  after `V128HIto64` the other half is found with the shadow value of the low
  one, and a vector packed by `64HLtoV128` is found with that of its high half.
* The numbers before the entries of a list mix `total` and the index, and the
  list of special values prints the number of shadow values as the whole.
* `writeStageReports` stops counting when the file is full: the reports of
  later stages are not in the total.
* `ignoreFile` starts again behind a mismatch and so misses "..so".
* An operation first reached at the depth limit counts as seen and is not
  expanded when a shorter path reaches it later.
* `processTriOp` takes the exact bits from `binOpArgs`, too.
* Graph files of an earlier run are overwritten without a look, and the results
  of `VG_(write)` are ignored.
* A UInt product that wraps (the precondition of `AverageAsLabelled`), and a
  `version` that wraps after 2^32 superblocks (`MapSpec` with `MaxSB >=
  VersionMod`; no shadow value of a temporary is then found again).

## Proofs

All proofs hold for every number of temporaries, registers, addresses, threads,
operations, stages, files and descriptors, for every value of the bounds, and for
both values of `--ignore-end`.

* **SuperblockProofs.**  `MachineInvariant` proves `IInv`, which is inductive as
  it stands.  What must never happen is that a temporary is read through a cell
  of an earlier superblock, or through an alias that the run-time call would
  not have followed.  That cells of unassigned temporaries are not current
  (`UnassignedIsFresh`) survives the start of a superblock because no version
  is ahead of the counter (`VersionsBehind`) and the counter is positive
  (`NumberedFromOne`, a fresh cell has version 0).  An alias is
  resolved when it is made, so that one lookup suffices (`AliasesAreRoots`).
  A register read that is replaced by an alias skips the call, so that register
  and temporary must agree (`RegisterAliasAgrees`); that in turn needs that with
  the analysis off nothing has a shadow value within the superblock
  (`OffMeansNone`), since the put then only invalidates, and that the
  instruction pointer, to which puts are not instrumented, never has one
  (`NoShadowInIP`).
  The steps are first reduced to the few effects they can have
  (`AssignmentEffect`: an alias, a received shadow value or a computed one), and
  the same lemma serves the refinement.  `Refinement` proves `MapSpec` under
  `MaxSB < VersionMod`: the tool runs fewer superblocks than a version can
  number.  Without it the theorem is false; the invariant needs no such
  assumption, since a truncated version is still not ahead of the counter.
  `CountsBounded` proves `CountsArePaths` from `IInv`.
  `MapSpec` is about what each step does to shadow values; a write that fails
  to invalidate would map to a stutter.  That writes with the analysis off
  invalidate is what `GuestInv` checks.
  The last three theorems are about CircularIndex.  `StackRegistersApart`: within a
  window of eight sums, whatever their sign, two registers have the same key
  only if they are the same register.  `KeyNearBase` says how far from the
  array's base a key can be, below it for negative sums, and `SignsSeparate`
  what it costs: an element reached once by a negative and once by another sum
  has two keys.
* **GuestDataProofs.**  `ShadowsFollowData` proves `GuestInv` under the same
  `MaxSB < VersionMod`, from `IInv` and `FollowInv`.  `FollowInv` says of every
  location, current or not, what `Faithful` says of those the guest can read,
  and adds what `GuestInv` does not need to mention: a temporary that has been
  put into the instruction pointer, from where an alias may be read later, has
  no shadow value (`NoAliasInIP`).  Every statement is brought into one of two
  forms, a temporary that gets a shadow value (`Gets`) or a location that is
  written, and every event of the guest's core is shown to leave each location
  with a shadow value that its data follows (`Unnoticed`).
* **MeanErrorsProofs.**  `OriginsKnown` and `BlameIsJust` together are inductive
  (`MeanInv`).  An operation passes on the cancellation origin of an operand, so
  the record of that origin must have seen as many bits at any later time:
  `RecordGrows` shows that `updateMeanValue` never lowers a maximum and only
  replaces links by those of an operand.  `LinksLeadToRecords` and
  `BlamedRightly` are the two theorems.  `LargestErrorIsKept` proves
  `MaxIsWorst` from `WorstInv`, which relates a record to the executions it was
  made of: NaN in the first stays, otherwise the maximum is one of the errors
  and none is larger.  `AverageIsAverage` proves
  `AverageAsLabelled` from `BadInv` in the same way, with the bound on the sum
  (at most the number times the largest) that keeps it from wrapping whenever
  the number and the product do not.  The sum is a recursive function on the
  prefixes of the history; that it is well defined (`TotalUnrolls`) and grows by
  what is appended (`TotalGrows`) is proved by induction.
  `IntroducedErrorsAreFair` follows from `OriginsKnown`: the operands' records
  exist, and then every branch of `getIntroducedError` is fair
  (`LinksAreFair`).  A branch takes all of the largest error (`WholeIsFair`),
  the difference to an operand's (`DifferenceIsFair`, where the two infinite
  errors come in) or nothing (`NothingIsFair`).
* **StagesProofs.**  `ActiveStagesCounted`: the number of active stages is at
  most `activeStages` (`SkipInv`).  It is not equal to it, because CLEAR of an
  active stage does not decrement the counter.  `TablesFollow` proves
  `TablesFollowLifecycle`, which is inductive with the types of the tables and
  that a stage without a record has no history (`FollowInv`).
  `LimitsAreLargest` and `ReportsCountRecords` use `LimitInv` and `ReportInv`,
  which again say what a maximum or a minimum is instead of computing it; the
  work is in showing what ending a stage does to the set of executions with a
  drift and to that of the records, on which the new execution comes last.
* **OutputFilesProofs.**  `BufferIsSafe` proves `IInv`, `OlderReportsStay` its
  conjunct `OlderReportsKept`, and `BufferingImplementsAppending` the
  refinement.  What carries it is `BufferInv`: a buffer that is not empty
  belongs to a file that is open.  It holds because every close flushes, and it
  is why a descriptor can be given out again while `fwrite_fd` still names it:
  the buffer is empty then, and the flush on the next change of the file is a
  flush of nothing.  `NamingInv` relates the suffix that is looked at, the name
  that was chosen and the name that is opened; an older report can have the chosen name
  only with the last suffix, since other processes' new files are not older.
  `WriteStep` is the heart of the refinement: in each of the three ways through
  `my_fwrite` the chunk is appended to what its file is going to contain.
  A step of the code maps to one step of `AppendFiles` or, for flushes on the way
  and the search for a name, to none.
* **OriginGraphProofs.**  `GraphInvariant` proves `IInv` and
  `RecursionStaysBounded` from it that the recursion takes at most twice
  `MaxLevel` frames.  The level alone bounds nothing, since a second operand
  may stay on its operation's level.  But a call that stays on its level comes
  from an operation of an ignored library and goes to one that is not, and an
  operation of an ignored library has been reached by a call to the next level:
  the frames grow by two per level at most (`BoundedCall`).
  `GraphsStayWellFormed`, `GraphsShowNewOperations` and `OwedErrorsAreExplained`
  share `ShapeInv`.  After the first call `originAddrSet` is the set of nodes
  written, and every pending call comes from one of them (`LinesInv`): this is
  why an edge never names a node that is still to come.  Before the first call
  there is only the start, which for the report no graph has shown
  (`StartInv`).  A visited flag means that the operation is left out as
  accurate, is shown by a finished graph of the report or will be by the one
  being written (`VisitedInv`, `OwedInv`), although requested graphs, failed
  opens and the depth limit come in between.  An owed entry that is merged
  shares its operation and error with the first of its chain
  (`MergedAreTheSame`), since there is no NaN before it.
* **ReportsProofs.**  One invariant per kind of list.  `OmissionsAnnounced`: an
  entry up to the index that is meant for the file and not in it has found the
  file full (`MemoryInv`).  `ReportsDistinct`: the entries of a stage are in the
  order of the array and unlike their neighbours (`ListedInv`), and as long as
  the file is not full every report looked at has one like it in the file and
  the total is ahead of the file by the reports of the stage still to come
  (`CoveredInv`, `TotalInv`); that neighbours suffice is `SortedNeighbours`, where
  the order of `compareStageReports` is used.  `MergingLosesNothingElse` proves
  `NotableAreTold`: by induction over the chain, an entry agrees in origin, bits
  and original with the one that it is merged into, and in the shadow value too
  unless a NaN comes before it.  `LibrariesAreLeftOut` is by induction over the
  characters of a name: what the counter has seen is the start of the pattern
  that the prefix ends with (`Seen`), once it is full it stays, and an
  occurrence that is not hidden finds it at 0.
* **PrecisionProofs.**  `OneWidthSimulated` proves `OneWidthIsSimulated` from
  `PrecisionInv`: the width found in `binOpArgs` is one of the program's own
  once its first operation has been a binary one, and shadow values exist only
  after an operation.

Induction.  The library's induction theorems have a predicate as a parameter,
which the installed provers cannot instantiate.  `Induction`, in the two modules
that use it, states it for sets of numbers instead; it follows from the least
number principle, and this from the library's theorem that the numbers are well
founded.

The assumptions are those on constants, named and in the modules that declare
them: `NoTmpAssumption`, `RegsAssumption` (the instruction pointer is a
register; computed accesses reach other registers), `BoundsAssumption`,
`VersionAssumption` and `IgnoreEndAssumption` in Superblock;
`CodeAssumption`, `ErrorsAssumption`, `BitsAssumption`, `WordAssumption` and
`NullAssumption` in MeanErrors (finite errors are natural numbers, none of them
NaN or infinite); `ErrorsAssumption`, `SpecialAssumption`,
`NullAssumption`, `StageBounds` and `FiniteStages` in Stages; `ReportLimits` and
`FieldsAssumption` (what the fields of entries are) in Reports; `NamesAssumption` (graphs and
reports have different names) and `OutputLimits` (a chunk that is buffered fits
into the buffer) in OutputFiles; `OpsAssumption`, `NumbersAssumption` and
`GraphLimits` in OriginGraph.  They say that the marks for "none" are not among the things they
stand beside, and that bounds and errors are numbers.

Every invariant and refinement that a passing run checks is thus also a theorem.
Only checked with TLC is `GraphsFinish`: liveness under fairness is beyond the
prover.  What the proofs do not cover are the violations, which are single
behaviours, and what lies outside the modules: that VEX produces the statements
in the order Superblock takes them, that MPFR and the kernel do what is said of
them.

## Not modelled, and the plan

Left out for good, because nothing but text depends on it: the formatting of
numbers (`mpfrToString`), the names of operations (`opToString.c`), colours
and labels of graphs, the wording of reports.  `printError` and
`isErrorGreater` change no state.  `writeSTemp`, `writeSConst` and `readSConst`
move bits from the guest to the tool.  `isInLibrary` asks Valgrind's debug
information; its answer is any.  The patches of MPFR and GMP are third-party code; build files
and examples are not part of the tool.  `VG_(write)` is taken to succeed, and
the signed 64-bit `canceledSum` not to overflow.

Next:

1. A measure that every step of the tool decreases while a graph is written, as
   an action property with a proof: the part of `GraphsFinish` that is within
   the prover's reach.
2. A composition of Superblock, Stages and MeanErrors in one state, for what
   their interfaces leave open: which stores reach `updateStages` while the
   analysis is switched on and off.
3. Larger instances of `guest`: a signal handler that stores to overlapping
   addresses needs both of its instances at once.
