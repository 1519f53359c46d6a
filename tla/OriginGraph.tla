------------------------------ MODULE OriginGraph ------------------------------
(***************************************************************************)
(* The origin graphs of src/valgrind/fpdebug/fd_main.c and the report that *)
(* dumps them.  dumpGraph writes, for one shadow value, the operation that *)
(* computed it, the operations whose results were its operands when its    *)
(* error was largest, and so on down the links that MeanErrors keeps.  A   *)
(* guest asks for a graph with a client request; at the end of the run     *)
(* writeMemoryRelError lists the shadow values with an error and dumps a   *)
(* graph for the first of them that no earlier graph has shown.            *)
(*                                                                         *)
(* writeOriginGraph is recursive.  A call only changes static variables,   *)
(* never the locals of its callers, so that the calls still to be made are *)
(* known when a call has written its lines: calls is the list of them, in  *)
(* the order in which they run, and one step is one call.  depth is the    *)
(* number of frames on the machine's stack.                                *)
(*                                                                         *)
(* That a record exists for every address that is looked up (tl_assert) is *)
(* OriginsKnown of MeanErrors.                                             *)
(***************************************************************************)
EXTENDS Integers, Sequences, FiniteSets

CONSTANTS
    Ops,           \* code addresses that have a MeanValue
    NoOp,          \* address 0
    MaxLevel,      \* MAX_LEVEL_OF_GRAPH, 10 in the code
    MaxGraphs,     \* MAX_DUMPED_GRAPHS, 10 in the code
    MaxEntries,    \* MAX_ENTRIES_PER_FILE, 10000 in the code
    Values,        \* finite numbers, of the guest and of shadow values
    NaN, Inf,      \* the numbers that are none
    MaxMemory,     \* bound on the number of shadow values in memory
    MaxRequests    \* bound on the graphs that the guest requests

ASSUME OpsAssumption == NoOp \notin Ops
ASSUME NumbersAssumption == NaN \notin Values /\ Inf \notin Values /\ NaN # Inf
ASSUME GraphLimits ==
    /\ MaxLevel \in Nat \ {0}
    /\ MaxGraphs \in Nat
    /\ MaxEntries \in Nat
    /\ MaxMemory \in Nat
    /\ MaxRequests \in Nat

VARIABLES
    meanValues,     \* per operation: the links, and whether its error is 0
    ignored,        \* operations whose description ignoreFile matches
    memory,         \* the shadow values in memory, as compareShadowValues sorts them
    clo_ignoreAccurate,
    phase,          \* "guest" runs, "report" at exit, "done"
    requests,       \* graphs requested so far
    index,          \* next entry of memory to be looked at
    numWritten,     \* entries listed
    visited,        \* the visited flags of meanValues
    originAddrSet,  \* operations expanded in the current graph
    careVisited,    \* argument of the dumpGraph in progress
    calls,          \* calls of writeOriginGraph to be made
    dumping,        \* dumpGraph has opened a file
    lines,          \* what has been written to it
    graphs,         \* the graphs dumped for the report
    unopened        \* origins of entries whose graph file could not be opened

input == <<meanValues, ignored, memory, clo_ignoreAccurate>>
graphVars == <<visited, originAddrSet, careVisited, calls, dumping, lines>>
loopVars == <<index, numWritten, graphs, unopened>>
vars == <<input, phase, requests, graphVars, loopVars>>

MeanValue == [arg1: Ops \cup {NoOp}, arg2: Ops \cup {NoOp}, accurate: BOOLEAN]
Number == Values \cup {NaN, Inf}
ShadowValue == [origin: Ops, opCount: Nat, original: Number, shadow: Number]
Call == [oldAddr: Ops \cup {NoOp}, origin: Ops, level: Nat, depth: Nat]

Header == [kind |-> "header"]
Node(op) == [kind |-> "node", op |-> op]
Edge(from, to) == [kind |-> "edge", from |-> from, to |-> to]
Line == {Header} \cup {Node(op) : op \in Ops} \cup {Edge(a, b) : a, b \in Ops}

TypeOK ==
    /\ meanValues \in [Ops -> MeanValue]
    /\ ignored \subseteq Ops
    /\ memory \in Seq(ShadowValue)
    /\ clo_ignoreAccurate \in BOOLEAN
    /\ phase \in {"guest", "report", "done"}
    /\ requests \in 0 .. MaxRequests
    /\ index \in Nat \ {0}
    /\ numWritten \in 0 .. MaxEntries
    /\ visited \subseteq Ops
    /\ originAddrSet \subseteq Ops
    /\ careVisited \in BOOLEAN
    /\ calls \in Seq(Call)
    /\ dumping \in BOOLEAN
    /\ lines \in Seq(Line)
    /\ graphs \in Seq(Seq(Line))
    /\ unopened \subseteq Ops

(* The inputs are left open; MCOriginGraph enumerates small ones. *)
InitWith(mvs, libs, svs, option) ==
    /\ meanValues = mvs
    /\ ignored = libs
    /\ memory = svs
    /\ clo_ignoreAccurate = option
    /\ phase = "guest"
    /\ requests = 0
    /\ index = 1
    /\ numWritten = 0
    /\ visited = {}
    /\ originAddrSet = {}
    /\ careVisited = FALSE
    /\ calls = <<>>
    /\ dumping = FALSE
    /\ lines = <<>>
    /\ graphs = <<>>
    /\ unopened = {}

Init ==
    \E mvs \in [Ops -> MeanValue], libs \in SUBSET Ops, option \in BOOLEAN :
    \E n \in 0 .. MaxMemory : \E svs \in [1 .. n -> ShadowValue] :
        InitWith(mvs, libs, svs, option)

-----------------------------------------------------------------------------
(* A relative error that is NaN counts as none, and so does that of a      *)
(* shadow value that is infinite.                                          *)
HasError(sv) ==
    sv.shadow \notin {NaN, Inf} /\ sv.original \notin {NaN, sv.shadow}

(* dumpGraph returns before it opens a file when there is nothing to show. *)
HasGraph(sv, conditional, care) ==
    /\ ~(care /\ sv.origin \in visited)
    /\ sv.origin \notin ignored
    /\ ~(conditional /\ ~HasError(sv))

dumpGraph(sv, care) ==
    /\ dumping' = TRUE
    /\ lines' = <<>>
    /\ calls' = <<[oldAddr |-> NoOp, origin |-> sv.origin, level |-> 1, depth |-> 1]>>
    /\ careVisited' = care
    /\ UNCHANGED <<visited, originAddrSet>>

(* (variant) One level more. *)
AtLimitPlusOne(c) == c.level > MaxLevel + 1

AtLimit(c) == c.level > MaxLevel

(* (variant) The operation at the limit is marked, not its user. *)
MarkedAtLimit(c) ==
    IF ~careVisited THEN visited
    ELSE visited \cup {c.origin}

(* (variant) Only the first operation of a graph is marked. *)
MarkedFirst(c) ==
    IF careVisited /\ c.level = 1 THEN visited \cup {c.origin} ELSE visited

(* The flags after a call: the operation, or its user if the limit is hit. *)
Marked(c) ==
    IF ~careVisited THEN visited
    ELSE IF AtLimit(c) THEN visited \cup {c.oldAddr}
    ELSE visited \cup {c.origin}

(* (variant) Edges are written before accurate operations are left out. *)
WrittenEdgeFirst(c, seen) ==
    LET edge == IF c.level > 1 THEN <<Edge(c.origin, c.oldAddr)>> ELSE <<>>
    IN  IF c.origin \in seen \/ (clo_ignoreAccurate /\ meanValues[c.origin].accurate)
        THEN edge
        ELSE <<Node(c.origin)>> \o edge

(* The lines of a call below the limit: a node unless the operation has    *)
(* one already, and the edge to the operation that used the result.        *)
Written(c, seen) ==
    LET edge == IF c.level > 1 THEN <<Edge(c.origin, c.oldAddr)>> ELSE <<>>
    IN  IF c.origin \in seen
        THEN edge
        ELSE IF clo_ignoreAccurate /\ meanValues[c.origin].accurate
        THEN <<>>
        ELSE <<Node(c.origin)>> \o edge

(* An operand is followed unless it and the operation are in a library. *)
Followed(c, arg) ==
    /\ arg # NoOp
    /\ ~(c.origin \in ignored /\ arg \in ignored)

CallOf(c, arg, level) ==
    [oldAddr |-> c.origin, origin |-> arg, level |-> level, depth |-> c.depth + 1]

(* level is incremented by the first call made (++level), so that a second *)
(* operand is on the level of the operation itself if the first is left    *)
(* out for its library.                                                    *)
OperandCalls(c) ==
    LET mv == meanValues[c.origin]
        level2 == IF mv.arg1 # NoOp /\ ~Followed(c, mv.arg1) THEN c.level ELSE c.level + 1
    IN  (IF Followed(c, mv.arg1) THEN <<CallOf(c, mv.arg1, c.level + 1)>> ELSE <<>>)
        \o (IF Followed(c, mv.arg2) THEN <<CallOf(c, mv.arg2, level2)>> ELSE <<>>)

Expanded(c, seen) == seen \cup {c.origin}

(* One call of writeOriginGraph up to the calls it makes itself. *)
writeOriginGraph ==
    /\ calls # <<>>
    /\ LET c == Head(calls)
           seen == IF c.level <= 1 THEN {} ELSE originAddrSet
           new == Written(c, seen)
           header == IF c.level <= 1 THEN <<Header>> ELSE <<>>
       IN
        /\ visited' = Marked(c)
        /\ IF AtLimit(c)
           THEN /\ calls' = Tail(calls)
                /\ UNCHANGED <<originAddrSet, lines>>
           ELSE /\ lines' = lines \o header \o new
                /\ IF c.origin \in seen \/ new = <<>>
                   THEN /\ calls' = Tail(calls)
                        /\ originAddrSet' = seen
                   ELSE /\ calls' = OperandCalls(c) \o Tail(calls)
                        /\ originAddrSet' = Expanded(c, seen)
    /\ UNCHANGED <<input, phase, requests, careVisited, dumping, loopVars>>

(* The last call has returned: the file gets its end and is closed. *)
CloseGraph ==
    /\ dumping
    /\ calls = <<>>
    /\ dumping' = FALSE
    /\ lines' = <<>>
    /\ graphs' = IF careVisited THEN Append(graphs, lines) ELSE graphs
    /\ UNCHANGED <<input, phase, requests, visited, originAddrSet, careVisited, calls,
                   index, numWritten, unopened>>

-----------------------------------------------------------------------------
(* VALGRIND_DUMP_ERROR_GRAPH and VALGRIND_COND_DUMP_ERROR_GRAPH. *)
RequestGraph(k, conditional) ==
    /\ phase = "guest"
    /\ ~dumping
    /\ requests < MaxRequests
    /\ requests' = requests + 1
    /\ HasGraph(memory[k], conditional, FALSE)
    /\ dumpGraph(memory[k], FALSE)
    /\ UNCHANGED <<input, phase, loopVars>>

Exit ==
    /\ phase = "guest"
    /\ ~dumping
    /\ phase' = "report"
    /\ UNCHANGED <<input, requests, graphVars, loopVars>>

(* Equal entries that are neighbours are listed once.  A shadow value that *)
(* is NaN is equal to any other (mpfr_cmp), an original that is NaN to     *)
(* none.  Canceled bits and their origin are not told apart.               *)
areSvsEqual(k) ==
    /\ k > 1
    /\ LET sv1 == memory[k - 1]
           sv2 == memory[k]
       IN  /\ sv1.opCount = sv2.opCount
           /\ sv1.origin = sv2.origin
           /\ sv1.shadow = sv2.shadow \/ NaN \in {sv1.shadow, sv2.shadow}
           /\ sv1.original = sv2.original /\ sv1.original # NaN

(* (variant) The loop does not advance over an entry it leaves out. *)
NextIndexStuck(k) == IF areSvsEqual(k) THEN k ELSE k + 1

NextIndex(k) == k + 1

(* An entry of memory in writeMemoryRelError.  Its graph is written before *)
(* the next entry is looked at; opening the graph's file may fail.         *)
Entry ==
    LET sv == memory[index]
        listed ==
            /\ ~areSvsEqual(index)
            /\ IF HasError(sv) THEN sv.origin \notin ignored ELSE ~clo_ignoreAccurate
            /\ numWritten < MaxEntries
        graphed ==
            /\ listed
            /\ HasError(sv)
            /\ Len(graphs) < MaxGraphs
            /\ HasGraph(sv, TRUE, TRUE)
    IN  /\ phase = "report"
        /\ ~dumping
        /\ index <= Len(memory)
        /\ index' = NextIndex(index)
        /\ numWritten' = IF listed THEN numWritten + 1 ELSE numWritten
        /\ \/ graphed /\ dumpGraph(sv, TRUE) /\ UNCHANGED unopened
           \/ graphed /\ unopened' = unopened \cup {sv.origin} /\ UNCHANGED graphVars
           \/ ~graphed /\ UNCHANGED <<unopened, graphVars>>
        /\ UNCHANGED <<input, phase, requests, graphs>>

Finish ==
    /\ phase = "report"
    /\ ~dumping
    /\ index > Len(memory)
    /\ phase' = "done"
    /\ UNCHANGED <<input, requests, graphVars, loopVars>>

(* The run is over. *)
Ended == phase = "done" /\ UNCHANGED vars

Tool == writeOriginGraph \/ CloseGraph \/ Entry \/ Finish

Next ==
    \/ \E k \in DOMAIN memory, conditional \in BOOLEAN : RequestGraph(k, conditional)
    \/ Exit
    \/ Tool
    \/ Ended

(* A guest may run forever, but the tool does not pause within a request   *)
(* or a report.                                                            *)
Spec == Init /\ [][Next]_vars /\ WF_vars(Tool)

-----------------------------------------------------------------------------
NodesIn(file) == {file[k].op : k \in {n \in DOMAIN file : file[n].kind = "node"}}

(* A file that a reader of graphs accepts: it starts with its only header, *)
(* an operation has at most one node, and an edge joins operations whose   *)
(* nodes have been written before it.  This is about the order in which    *)
(* writeOriginGraph looks at the set, leaves out accurate operations and   *)
(* writes edges, on links with cycles and shared operands.                 *)
WellFormed(file) ==
    /\ \A k \in DOMAIN file : (file[k] = Header) <=> k = 1
    /\ \A k, n \in DOMAIN file :
            file[k].kind = "node" /\ file[k] = file[n] => k = n
    /\ \A k \in DOMAIN file : file[k].kind = "edge" =>
            {file[k].from, file[k].to} \subseteq NodesIn(SubSeq(file, 1, k - 1))

GraphsWellFormed ==
    /\ WellFormed(lines)
    /\ \A g \in DOMAIN graphs : WellFormed(graphs[g])

(* The level is a parameter that does not always grow, and cycles are cut  *)
(* by a set of operations that may be large; yet the recursion never needs *)
(* more than twice MAX_LEVEL_OF_GRAPH frames of the tool's small stack.    *)
RecursionBounded == \A k \in DOMAIN calls : calls[k].depth <= 2 * MaxLevel

(* Why: the frames grow by two from a level to the next at most.  A call   *)
(* that stays on its level comes from an operation of an ignored library   *)
(* and goes to one that is not, and an operation of an ignored library has *)
(* been reached by a call that went to the next level.                     *)
BoundedCall ==
    {c \in Call :
        /\ c.level \in 1 .. MaxLevel + 1
        /\ c.depth <= 2 * MaxLevel
        /\ c.depth <= 2 * c.level - 1
        /\ c.origin \in ignored => c.depth <= 2 * c.level - 2
        /\ c.level > 1 => c.oldAddr \in Ops}

CallsBounded == calls \in Seq(BoundedCall)

IInv == TypeOK /\ CallsBounded

(* An entry before k is NaN, and k and all between are merged into it:     *)
(* whatever their errors, they are not looked at.                          *)
MergedIntoNaN(k) ==
    \E n \in 1 .. k - 1 :
        memory[n].shadow = NaN /\ \A m \in n + 1 .. k : areSvsEqual(m)

(* The entries with an error whose graph the report owes.  The graph of an *)
(* operation that is left out as accurate would be empty.                  *)
Owed(k) ==
    /\ HasError(memory[k])
    /\ ~MergedIntoNaN(k)
    /\ memory[k].origin \notin ignored \cup unopened
    /\ ~(clo_ignoreAccurate /\ meanValues[memory[k].origin].accurate)
    /\ Len(graphs) < MaxGraphs
    /\ numWritten < MaxEntries

(* The visited flags stand for the nodes of the report's graphs, and for   *)
(* nothing that a requested graph, a cut at the depth limit or a failed    *)
(* open has shown or not shown; and an entry that is merged has been       *)
(* explained with the first of its chain, unless a NaN is among them:      *)
(* every owed operation has a node in a graph of the report.               *)
ErrorsAreExplained ==
    ~dumping => \A k \in 1 .. index - 1 :
        Owed(k) => \E g \in DOMAIN graphs : memory[k].origin \in NodesIn(graphs[g])

(* No graph of the report starts at an operation that an earlier one shows. *)
NothingShownTwice ==
    \A g, h \in DOMAIN graphs : g < h /\ Len(graphs[h]) > 1 =>
        graphs[h][2].op \notin NodesIn(graphs[g])

(* A graph is finished although operations feed each other in cycles, and  *)
(* the report at exit comes to its end, whatever graphs it dumps.          *)
GraphsFinish ==
    /\ dumping ~> ~dumping
    /\ phase = "report" ~> phase = "done"
=============================================================================
