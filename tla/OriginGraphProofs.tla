-------------------------- MODULE OriginGraphProofs ---------------------------
(***************************************************************************)
(* Proofs about OriginGraph, for all links between operations and all      *)
(* libraries they are in: the calls of writeOriginGraph stay within twice  *)
(* MAX_LEVEL_OF_GRAPH frames, every file is well formed, no graph of the   *)
(* report starts at what an earlier one shows, and every error that the    *)
(* report owes a graph to has one.                                         *)
(***************************************************************************)
EXTENDS OriginGraph, SequenceTheorems, TLAPS

(* The call that dumpGraph makes is within the bounds: the operation it    *)
(* starts at is in no ignored library.                                     *)
LEMMA FirstCallBounded ==
    ASSUME IInv, NEW sv \in ShadowValue, sv.origin \notin ignored
    PROVE  <<[oldAddr |-> NoOp, origin |-> sv.origin, level |-> 1, depth |-> 1]>>
               \in Seq(BoundedCall)
<1> DEFINE c == [oldAddr |-> NoOp, origin |-> sv.origin, level |-> 1, depth |-> 1]
<1>1. c \in Call
  BY DEF Call, ShadowValue
<1>2. c \in BoundedCall
  BY <1>1, GraphLimits DEF BoundedCall
<1> QED BY <1>2

(* The calls for the operands of an operation below the limit are within   *)
(* the bounds if the call for the operation is.                            *)
LEMMA OperandCallsBounded ==
    ASSUME IInv, NEW c \in BoundedCall, ~AtLimit(c)
    PROVE  OperandCalls(c) \in Seq(BoundedCall)
<1> DEFINE mv == meanValues[c.origin]
           level2 == IF mv.arg1 # NoOp /\ ~Followed(c, mv.arg1)
                     THEN c.level ELSE c.level + 1
<1>1. /\ c.origin \in Ops
      /\ c.level \in 1 .. MaxLevel
      /\ c.depth \in Nat
      /\ c.depth <= 2 * c.level - 1
      /\ c.origin \in ignored => c.depth <= 2 * c.level - 2
  BY GraphLimits DEF BoundedCall, Call, AtLimit
<1>2. mv.arg1 \in Ops \cup {NoOp} /\ mv.arg2 \in Ops \cup {NoOp}
  BY <1>1 DEF IInv, TypeOK, MeanValue
<1>3. ASSUME NEW arg \in Ops
      PROVE  CallOf(c, arg, c.level + 1) \in BoundedCall
  <2>1. CallOf(c, arg, c.level + 1) \in Call
    BY <1>1, GraphLimits DEF CallOf, Call
  <2>2. /\ CallOf(c, arg, c.level + 1).level = c.level + 1
        /\ CallOf(c, arg, c.level + 1).depth = c.depth + 1
        /\ CallOf(c, arg, c.level + 1).oldAddr = c.origin
    BY DEF CallOf
  <2>3. /\ c.level + 1 \in 1 .. MaxLevel + 1
        /\ c.depth + 1 <= 2 * MaxLevel
        /\ c.depth + 1 <= 2 * (c.level + 1) - 2
        /\ c.depth + 1 <= 2 * (c.level + 1) - 1
    BY <1>1, GraphLimits
  <2> QED BY <1>1, <2>1, <2>2, <2>3 DEF BoundedCall
<1>4. ASSUME Followed(c, mv.arg1)
      PROVE  <<CallOf(c, mv.arg1, c.level + 1)>> \in Seq(BoundedCall)
  <2>1. mv.arg1 \in Ops
    BY <1>2, <1>4 DEF Followed
  <2> QED BY <1>3, <2>1
<1>5. ASSUME Followed(c, mv.arg2)
      PROVE  <<CallOf(c, mv.arg2, level2)>> \in Seq(BoundedCall)
  <2>1. mv.arg2 \in Ops
    BY <1>2, <1>5 DEF Followed
  <2>2. CASE level2 = c.level + 1
    BY <1>3, <2>1, <2>2
  <2>3. CASE level2 # c.level + 1
    <3>1. /\ level2 = c.level
          /\ c.origin \in ignored
          /\ mv.arg2 \notin ignored
      BY <1>2, <1>5, <2>3 DEF Followed
    <3>2. CallOf(c, mv.arg2, c.level) \in Call
      BY <1>1, <2>1, GraphLimits DEF CallOf, Call
    <3>3. CallOf(c, mv.arg2, c.level) \in BoundedCall
      BY <1>1, <3>1, <3>2, GraphLimits DEF CallOf, BoundedCall
    <3> QED BY <3>1, <3>3
  <2> QED BY <2>2, <2>3
<1>6. <<>> \in Seq(BoundedCall)
  OBVIOUS
<1> QED BY <1>4, <1>5, <1>6, ConcatProperties DEF OperandCalls

(* What a call writes are lines.                                           *)
LEMMA WrittenLines ==
    ASSUME NEW c \in BoundedCall, NEW seen
    PROVE  Written(c, seen) \in Seq(Line)
<1>1. c.origin \in Ops /\ c.level \in Nat
  BY DEF BoundedCall, Call
<1>2. <<Node(c.origin)>> \in Seq(Line)
  BY <1>1 DEF Line
<1>3. ASSUME c.level > 1
      PROVE  <<Edge(c.origin, c.oldAddr)>> \in Seq(Line)
  <2>1. c.oldAddr \in Ops
    BY <1>3 DEF BoundedCall
  <2>2. Edge(c.origin, c.oldAddr) \in Line
    BY <1>1, <2>1 DEF Line
  <2> QED BY <2>2
<1>4. <<>> \in Seq(Line)
  OBVIOUS
<1> QED BY <1>2, <1>3, <1>4, ConcatProperties DEF Written

LEMMA InvInit == Init => IInv
<1> SUFFICES ASSUME Init PROVE IInv
  OBVIOUS
<1>1. PICK mvs \in [Ops -> MeanValue], libs \in SUBSET Ops, option \in BOOLEAN :
        \E n \in 0 .. MaxMemory : \E svs \in [1 .. n -> ShadowValue] :
            InitWith(mvs, libs, svs, option)
  BY Zenon DEF Init
<1>2. PICK n \in 0 .. MaxMemory : \E svs \in [1 .. n -> ShadowValue] :
        InitWith(mvs, libs, svs, option)
  BY <1>1
<1>3. PICK svs \in [1 .. n -> ShadowValue] : InitWith(mvs, libs, svs, option)
  BY <1>2
<1>4. memory \in Seq(ShadowValue)
  BY <1>3, GraphLimits DEF InitWith
<1>5. /\ meanValues \in [Ops -> MeanValue]
      /\ ignored \subseteq Ops
      /\ clo_ignoreAccurate \in BOOLEAN
      /\ phase \in {"guest", "report", "done"}
      /\ visited \subseteq Ops /\ originAddrSet \subseteq Ops /\ unopened \subseteq Ops
      /\ careVisited \in BOOLEAN /\ dumping \in BOOLEAN
  BY <1>3 DEF InitWith
<1>6. requests \in 0 .. MaxRequests /\ index \in Nat \ {0} /\ numWritten \in 0 .. MaxEntries
  BY <1>3, GraphLimits DEF InitWith
<1>7. /\ calls \in Seq(Call)
      /\ lines \in Seq(Line)
      /\ graphs \in Seq(Seq(Line))
  BY <1>3 DEF InitWith
<1>8. TypeOK
  BY <1>4, <1>5, <1>7, <1>6 DEF TypeOK
<1>9. CallsBounded
  BY <1>3 DEF InitWith, CallsBounded
<1> QED BY <1>8, <1>9 DEF IInv

(* One call: what it leaves behind are calls within the bounds.            *)
LEMMA CallKeepsInv ==
    ASSUME IInv, writeOriginGraph
    PROVE  IInv'
<1> DEFINE c == Head(calls)
           seen == IF c.level <= 1 THEN {} ELSE originAddrSet
           new == Written(c, seen)
           header == IF c.level <= 1 THEN <<Header>> ELSE <<>>
<1> USE DEF IInv
<1>1. calls \in Seq(BoundedCall) /\ calls # <<>>
  BY DEF CallsBounded, writeOriginGraph
<1>2. c \in BoundedCall /\ Tail(calls) \in Seq(BoundedCall)
  BY <1>1, HeadTailProperties
<1>3. c.origin \in Ops /\ c.level \in Nat
  BY <1>2 DEF BoundedCall, Call
<1>4. seen \subseteq Ops
  BY DEF TypeOK
<1>5. visited' \subseteq Ops
  <2>1. AtLimit(c) => c.oldAddr \in Ops
    BY <1>2, <1>3, GraphLimits DEF AtLimit, BoundedCall
  <2>2. Marked(c) \subseteq Ops
    BY <1>3, <2>1 DEF Marked, TypeOK
  <2> QED BY <2>2 DEF writeOriginGraph
<1>6. lines' \in Seq(Line)
  <2>1. new \in Seq(Line)
    BY <1>2, WrittenLines
  <2>2. Header \in Line
    BY DEF Line
  <2>3. header \in Seq(Line)
    BY <2>2
  <2>4. lines \o header \o new \in Seq(Line)
    BY <2>1, <2>3, ConcatProperties DEF TypeOK
  <2> QED BY <2>4 DEF writeOriginGraph, TypeOK
<1>7. originAddrSet' \subseteq Ops
  BY <1>3, <1>4 DEF writeOriginGraph, Expanded, TypeOK
<1>8. calls' \in Seq(BoundedCall)
  <2>1. CASE calls' = Tail(calls)
    BY <1>2, <2>1
  <2>2. CASE ~AtLimit(c) /\ calls' = OperandCalls(c) \o Tail(calls)
    <3>1. OperandCalls(c) \in Seq(BoundedCall)
      BY <1>2, <2>2, OperandCallsBounded
    <3> QED BY <1>2, <2>2, <3>1, ConcatProperties
  <2> QED BY <2>1, <2>2 DEF writeOriginGraph
<1>9. BoundedCall' = BoundedCall
  BY DEF writeOriginGraph, input, BoundedCall
<1>10. CallsBounded'
  BY <1>8, <1>9 DEF CallsBounded
<1>11. calls' \in Seq(Call)
  <2>1. BoundedCall \subseteq Call
    BY DEF BoundedCall
  <2> QED BY <1>8, <2>1, SeqMonotonic
<1>12. UNCHANGED <<input, phase, requests, careVisited, dumping, loopVars>>
  BY DEF writeOriginGraph
<1>13. TypeOK'
  BY <1>5, <1>6, <1>7, <1>11, <1>12 DEF TypeOK, input, loopVars
<1> QED BY <1>10, <1>13

(* dumpGraph starts a graph. *)
LEMMA DumpKeepsInv ==
    ASSUME IInv, UNCHANGED input, NEW sv \in ShadowValue, NEW care \in BOOLEAN,
           sv.origin \notin ignored, dumpGraph(sv, care)
    PROVE  /\ dumping' \in BOOLEAN
           /\ lines' \in Seq(Line)
           /\ calls' \in Seq(Call)
           /\ careVisited' \in BOOLEAN
           /\ visited' \subseteq Ops
           /\ originAddrSet' \subseteq Ops
           /\ CallsBounded'
<1>1. calls' \in Seq(BoundedCall)
  BY FirstCallBounded DEF dumpGraph
<1>2. BoundedCall \subseteq Call
  BY DEF BoundedCall
<1>3. calls' \in Seq(Call)
  BY <1>1, <1>2, SeqMonotonic
<1>4. BoundedCall' = BoundedCall
  BY DEF input, BoundedCall
<1>5. CallsBounded'
  BY <1>1, <1>4 DEF CallsBounded
<1> QED BY <1>3, <1>5 DEF dumpGraph, IInv, TypeOK

LEMMA CloseKeepsInv ==
    ASSUME IInv, CloseGraph
    PROVE  IInv'
<1> USE DEF IInv
<1>1. Append(graphs, lines) \in Seq(Seq(Line))
  BY DEF TypeOK
<1>2. graphs' \in {Append(graphs, lines), graphs} /\ lines' = <<>> /\ dumping' = FALSE
  BY DEF CloseGraph
<1>3. /\ graphs' \in Seq(Seq(Line))
      /\ lines' \in Seq(Line)
      /\ dumping' \in BOOLEAN
  <2>1. graphs \in Seq(Seq(Line))
    BY DEF TypeOK
  <2>2. graphs' \in Seq(Seq(Line))
    BY <1>1, <1>2, <2>1, Zenon
  <2>3. lines' \in Seq(Line)
    BY <1>2
  <2> QED BY <1>2, <2>2, <2>3, Zenon
<1>4. UNCHANGED <<input, phase, requests, visited, originAddrSet, careVisited, calls,
                  index, numWritten, unopened>>
  BY DEF CloseGraph
<1>5. BoundedCall' = BoundedCall
  BY DEF CloseGraph, input, BoundedCall
<1>6. CallsBounded'
  BY <1>5 DEF CloseGraph, CallsBounded
<1>7. TypeOK'
  BY <1>3, <1>4 DEF TypeOK, input
<1> QED BY <1>6, <1>7

LEMMA RequestKeepsInv ==
    ASSUME IInv, NEW k \in DOMAIN memory, NEW conditional \in BOOLEAN,
           RequestGraph(k, conditional)
    PROVE  IInv'
<1> USE DEF IInv
<1>1. memory[k] \in ShadowValue
  BY DEF TypeOK
<1>2. /\ memory[k].origin \notin ignored
      /\ dumpGraph(memory[k], FALSE)
      /\ UNCHANGED input
  BY DEF RequestGraph, HasGraph
<1>3. /\ dumping' \in BOOLEAN
      /\ lines' \in Seq(Line)
      /\ calls' \in Seq(Call)
      /\ careVisited' \in BOOLEAN
      /\ visited' \subseteq Ops
      /\ originAddrSet' \subseteq Ops
      /\ CallsBounded'
  BY <1>1, <1>2, DumpKeepsInv
<1>4. requests' \in 0 .. MaxRequests
  BY GraphLimits DEF RequestGraph, TypeOK
<1>5. UNCHANGED <<input, phase, loopVars>>
  BY DEF RequestGraph
<1> QED BY <1>3, <1>4, <1>5 DEF TypeOK, input, loopVars

LEMMA EntryKeepsInv ==
    ASSUME IInv, Entry
    PROVE  IInv'
<1> USE DEF IInv
<1>1. index \in Nat \ {0} /\ index' \in Nat \ {0}
  BY DEF Entry, NextIndex, TypeOK
<1>2. numWritten' \in 0 .. MaxEntries
  BY GraphLimits DEF Entry, TypeOK
<1>3. UNCHANGED <<input, phase, requests, graphs>>
  BY DEF Entry
<1>4. memory[index] \in ShadowValue
  BY <1>1, ElementOfSeq DEF Entry, TypeOK
<1>5. CASE UNCHANGED graphVars
  <2>1. unopened' \subseteq unopened \cup {memory[index].origin}
    BY DEF Entry
  <2>2. unopened' \subseteq Ops
    BY <1>4, <2>1 DEF TypeOK, ShadowValue
  <2>3. CallsBounded'
    BY <1>3, <1>5 DEF CallsBounded, BoundedCall, input, graphVars
  <2> QED BY <1>1, <1>2, <1>3, <1>5, <2>2, <2>3 DEF TypeOK, input, graphVars
<1>6. CASE ~UNCHANGED graphVars
  <2>1. /\ dumpGraph(memory[index], TRUE)
        /\ UNCHANGED unopened
        /\ memory[index].origin \notin ignored
    BY <1>6 DEF Entry, HasGraph
  <2>2. /\ dumping' \in BOOLEAN
        /\ lines' \in Seq(Line)
        /\ calls' \in Seq(Call)
        /\ careVisited' \in BOOLEAN
        /\ visited' \subseteq Ops
        /\ originAddrSet' \subseteq Ops
        /\ CallsBounded'
    BY <1>3, <1>4, <2>1, DumpKeepsInv
  <2> QED BY <1>1, <1>2, <1>3, <2>1, <2>2 DEF TypeOK, input
<1> QED BY <1>5, <1>6

LEMMA InvStep ==
    ASSUME IInv, [Next]_vars
    PROVE  IInv'
<1>1. ASSUME NEW k \in DOMAIN memory, NEW conditional \in BOOLEAN,
             RequestGraph(k, conditional)
      PROVE  IInv'
  BY <1>1, RequestKeepsInv
<1>2. CASE writeOriginGraph
  BY <1>2, CallKeepsInv
<1>3. CASE CloseGraph
  BY <1>3, CloseKeepsInv
<1>4. CASE Entry
  BY <1>4, EntryKeepsInv
<1>5. CASE Exit \/ Finish \/ Ended \/ UNCHANGED vars
  <2>1. UNCHANGED <<input, requests, graphVars, loopVars>> /\ phase' \in {phase, "report", "done"}
    BY <1>5 DEF Exit, Finish, Ended, vars
  <2>2. CallsBounded'
    BY <2>1 DEF IInv, CallsBounded, BoundedCall, input, graphVars
  <2>3. TypeOK'
    BY <2>1 DEF IInv, TypeOK, input, graphVars, loopVars
  <2> QED BY <2>2, <2>3 DEF IInv
<1> QED BY <1>1, <1>2, <1>3, <1>4, <1>5 DEF Next, Tool

(* The type invariant and the bounds of every call hold in every state.    *)
THEOREM GraphInvariant == Spec => []IInv
<1>1. IInv /\ [Next]_vars => IInv'
  BY InvStep
<1> QED BY InvInit, <1>1, PTL DEF Spec

(* The recursion of writeOriginGraph never uses more than twice            *)
(* MAX_LEVEL_OF_GRAPH frames, for any links and any ignored libraries.     *)
THEOREM RecursionStaysBounded == Spec => []RecursionBounded
<1>1. IInv => RecursionBounded
  <2> SUFFICES ASSUME IInv, NEW k \in DOMAIN calls
               PROVE  calls[k].depth <= 2 * MaxLevel
    BY DEF RecursionBounded
  <2>1. calls[k] \in BoundedCall
    BY DEF IInv, CallsBounded
  <2> QED BY <2>1 DEF BoundedCall
<1> QED BY GraphInvariant, <1>1, PTL

-----------------------------------------------------------------------------
(* How a graph is written: the inductive invariant ShapeInv.               *)
StartCall(op) == [oldAddr |-> NoOp, origin |-> op, level |-> 1, depth |-> 1]

(* Between two graphs nothing is left of the first. *)
IdleInv == ~dumping => lines = <<>> /\ calls = <<>>

(* Before its first call a graph has one start, in no ignored library; for *)
(* the report, one that no graph has shown.                                *)
StartInv ==
    dumping /\ lines = <<>> =>
        \E op \in Ops \ ignored :
            calls = <<StartCall(op)>> /\ (careVisited => op \notin visited)

(* Afterwards the operations in the set are those with a node, every call  *)
(* to be made has been caused by one of them, and one level further down.  *)
CallsFrom(S) == {c \in Call : c.level > 1 /\ c.oldAddr \in S}

LinesInv ==
    dumping /\ lines # <<>> =>
        /\ WellFormed(lines)
        /\ originAddrSet = NodesIn(lines)
        /\ calls \in Seq(CallsFrom(NodesIn(lines)))
        /\ careVisited => NodesIn(lines) \subseteq visited
        /\ careVisited /\ Len(lines) > 1 =>
            \A g \in DOMAIN graphs : lines[2].op \notin NodesIn(graphs[g])

GraphsInv ==
    /\ \A g \in DOMAIN graphs : WellFormed(graphs[g]) /\ NodesIn(graphs[g]) \subseteq visited
    /\ NothingShownTwice

(* A graph of the report shows the operation, or the one being written     *)
(* does or starts with it.                                                 *)
Shown(op) == \E g \in DOMAIN graphs : op \in NodesIn(graphs[g])

Pending(op) ==
    /\ dumping /\ careVisited
    /\ op \in NodesIn(lines) \/ (lines = <<>> /\ calls = <<StartCall(op)>>)

LeftOut(op) == clo_ignoreAccurate /\ meanValues[op].accurate

VisitedInv == \A op \in visited : LeftOut(op) \/ Shown(op) \/ Pending(op)

(* What is merged into a NaN does not change. *)
LEMMA MergingIsFixed == UNCHANGED memory => \A k : MergedIntoNaN(k)' = MergedIntoNaN(k)
BY DEF MergedIntoNaN, areSvsEqual

OwedInv ==
    \A k \in 1 .. index - 1 :
        Owed(k) => Shown(memory[k].origin) \/ Pending(memory[k].origin)

ShapeInv ==
    IInv /\ IdleInv /\ StartInv /\ LinesInv /\ GraphsInv /\ VisitedInv /\ OwedInv

(* The three kinds of lines, told apart by their first field. *)
LEMMA LineKinds ==
    ASSUME NEW op \in Ops, NEW a \in Ops, NEW b \in Ops
    PROVE  /\ Header \in Line /\ Header.kind = "header"
           /\ Node(op) \in Line /\ Node(op).kind = "node" /\ Node(op).op = op
           /\ Edge(a, b) \in Line /\ Edge(a, b).kind = "edge"
           /\ Edge(a, b).from = a /\ Edge(a, b).to = b
           /\ Node(op) # Header /\ Edge(a, b) # Header
<1>1. Node(op).kind # Header.kind /\ Edge(a, b).kind # Header.kind
  BY DEF Node, Edge, Header
<1>2. Node(op) # Header /\ Edge(a, b) # Header
  BY <1>1, Zenon
<1> QED BY <1>2 DEF Line, Header, Node, Edge

(* The nodes among the first lines of a file. *)
LEMMA NodesBefore ==
    ASSUME NEW f \in Seq(Line), NEW k \in 1 .. Len(f) + 1
    PROVE  NodesIn(SubSeq(f, 1, k - 1)) = {f[j].op : j \in {n \in 1 .. k - 1 : f[n].kind = "node"}}
<1> DEFINE s == SubSeq(f, 1, k - 1)
<1>1. DOMAIN s = 1 .. k - 1 /\ \A j \in 1 .. k - 1 : s[j] = f[j]
  OBVIOUS
<1> HIDE DEF s
<1>2. NodesIn(s) = {f[j].op : j \in {n \in 1 .. k - 1 : f[n].kind = "node"}}
  BY <1>1 DEF NodesIn
<1> QED BY <1>2 DEF s

LEMMA LineAdded ==
    ASSUME NEW f \in Seq(Line), NEW l \in Line
    PROVE  LET g == Append(f, l) IN
           /\ g \in Seq(Line) /\ Len(g) = Len(f) + 1 /\ DOMAIN g = DOMAIN f \cup {Len(g)}
           /\ g[Len(g)] = l /\ \A k \in DOMAIN f : g[k] = f[k]
           /\ NodesIn(g) = NodesIn(f) \cup (IF l.kind = "node" THEN {l.op} ELSE {})
           /\ \A k \in DOMAIN f : NodesIn(SubSeq(g, 1, k - 1)) = NodesIn(SubSeq(f, 1, k - 1))
           /\ NodesIn(SubSeq(g, 1, Len(g) - 1)) = NodesIn(f)
<1> DEFINE g == Append(f, l)
<1>1. /\ g \in Seq(Line) /\ Len(g) = Len(f) + 1 /\ DOMAIN g = DOMAIN f \cup {Len(g)}
      /\ g[Len(g)] = l /\ \A k \in DOMAIN f : g[k] = f[k]
      /\ DOMAIN f = 1 .. Len(f) /\ Len(f) \in Nat
  OBVIOUS
<1> HIDE DEF g
<1>2. NodesIn(g) = NodesIn(f) \cup (IF l.kind = "node" THEN {l.op} ELSE {})
  BY <1>1 DEF NodesIn
<1>3. \A k \in DOMAIN f : NodesIn(SubSeq(g, 1, k - 1)) = NodesIn(SubSeq(f, 1, k - 1))
  <2> SUFFICES ASSUME NEW k \in DOMAIN f
               PROVE  NodesIn(SubSeq(g, 1, k - 1)) = NodesIn(SubSeq(f, 1, k - 1))
    OBVIOUS
  <2>1. k \in 1 .. Len(f) + 1 /\ k \in 1 .. Len(g) + 1
    BY <1>1
  <2>2. /\ NodesIn(SubSeq(f, 1, k - 1)) = {f[j].op : j \in {n \in 1 .. k - 1 : f[n].kind = "node"}}
        /\ NodesIn(SubSeq(g, 1, k - 1)) = {g[j].op : j \in {n \in 1 .. k - 1 : g[n].kind = "node"}}
    BY <1>1, <2>1, NodesBefore
  <2>3. \A j \in 1 .. k - 1 : g[j] = f[j]
    BY <1>1
  <2>4. {f[j].op : j \in {n \in 1 .. k - 1 : f[n].kind = "node"}}
            = {g[j].op : j \in {n \in 1 .. k - 1 : g[n].kind = "node"}}
    BY <2>3
  <2> QED BY <2>2, <2>4, Zenon
<1>4. NodesIn(SubSeq(g, 1, Len(g) - 1)) = NodesIn(f)
  <2>1. NodesIn(SubSeq(g, 1, Len(g) - 1))
            = {g[j].op : j \in {n \in 1 .. Len(g) - 1 : g[n].kind = "node"}}
    <3>1. Len(g) \in 1 .. Len(g) + 1
      BY <1>1
    <3> QED BY <1>1, <3>1, NodesBefore
  <2>2. 1 .. Len(g) - 1 = DOMAIN f
    BY <1>1
  <2> QED BY <1>1, <2>1, <2>2 DEF NodesIn
<1> QED BY <1>1, <1>2, <1>3, <1>4 DEF g

LEMMA NodeAdded ==
    ASSUME NEW f \in Seq(Line), f # <<>>, WellFormed(f), NEW op \in Ops, op \notin NodesIn(f)
    PROVE  LET g == Append(f, Node(op)) IN
           g \in Seq(Line) /\ WellFormed(g) /\ NodesIn(g) = NodesIn(f) \cup {op}
<1> DEFINE g == Append(f, Node(op))
<1>1. Node(op) \in Line /\ Node(op).kind = "node" /\ Node(op).op = op /\ Node(op) # Header
  BY LineKinds
<1>2. /\ g \in Seq(Line) /\ Len(g) = Len(f) + 1 /\ DOMAIN g = DOMAIN f \cup {Len(g)}
      /\ g[Len(g)] = Node(op) /\ \A k \in DOMAIN f : g[k] = f[k]
  BY <1>1, LineAdded
<1>3. /\ NodesIn(g) = NodesIn(f) \cup {op}
      /\ \A k \in DOMAIN f : NodesIn(SubSeq(g, 1, k - 1)) = NodesIn(SubSeq(f, 1, k - 1))
  BY <1>1, LineAdded
<1>4. DOMAIN f = 1 .. Len(f) /\ Len(f) \in Nat /\ Len(f) # 0
  OBVIOUS
<1> HIDE DEF g
<1>5. \A k \in DOMAIN g : (g[k] = Header) <=> k = 1
  BY <1>1, <1>2, <1>4 DEF WellFormed
<1>6. \A k \in DOMAIN f : f[k] # Node(op)
  BY <1>1 DEF NodesIn
<1>7. \A k, n \in DOMAIN g : g[k].kind = "node" /\ g[k] = g[n] => k = n
  BY <1>2, <1>6 DEF WellFormed
<1>8. \A k \in DOMAIN g : g[k].kind = "edge" =>
          {g[k].from, g[k].to} \subseteq NodesIn(SubSeq(g, 1, k - 1))
  BY <1>1, <1>2, <1>3 DEF WellFormed
<1>9. WellFormed(g)
  BY <1>5, <1>7, <1>8 DEF WellFormed
<1> QED BY <1>2, <1>3, <1>9 DEF g

LEMMA EdgeAdded ==
    ASSUME NEW f \in Seq(Line), f # <<>>, WellFormed(f), NEW a \in Ops, NEW b \in Ops,
           {a, b} \subseteq NodesIn(f)
    PROVE  LET g == Append(f, Edge(a, b)) IN
           g \in Seq(Line) /\ WellFormed(g) /\ NodesIn(g) = NodesIn(f)
<1> DEFINE g == Append(f, Edge(a, b))
<1>1. /\ Edge(a, b) \in Line /\ Edge(a, b).kind = "edge" /\ Edge(a, b) # Header
      /\ Edge(a, b).from = a /\ Edge(a, b).to = b
  BY LineKinds
<1>2. /\ g \in Seq(Line) /\ Len(g) = Len(f) + 1 /\ DOMAIN g = DOMAIN f \cup {Len(g)}
      /\ g[Len(g)] = Edge(a, b) /\ \A k \in DOMAIN f : g[k] = f[k]
  BY <1>1, LineAdded
<1>3. /\ NodesIn(g) = NodesIn(f)
      /\ \A k \in DOMAIN f : NodesIn(SubSeq(g, 1, k - 1)) = NodesIn(SubSeq(f, 1, k - 1))
      /\ NodesIn(SubSeq(g, 1, Len(g) - 1)) = NodesIn(f)
  BY <1>1, LineAdded
<1>4. DOMAIN f = 1 .. Len(f) /\ Len(f) \in Nat /\ Len(f) # 0
  OBVIOUS
<1> HIDE DEF g
<1>5. \A k \in DOMAIN g : (g[k] = Header) <=> k = 1
  BY <1>1, <1>2, <1>4 DEF WellFormed
<1>6. \A k, n \in DOMAIN g : g[k].kind = "node" /\ g[k] = g[n] => k = n
  BY <1>1, <1>2 DEF WellFormed
<1>7. \A k \in DOMAIN g : g[k].kind = "edge" =>
          {g[k].from, g[k].to} \subseteq NodesIn(SubSeq(g, 1, k - 1))
  BY <1>1, <1>2, <1>3 DEF WellFormed
<1>8. WellFormed(g)
  BY <1>5, <1>6, <1>7 DEF WellFormed
<1> QED BY <1>2, <1>3, <1>8 DEF g

LEMMA HeaderAlone ==
    /\ <<Header>> \in Seq(Line) /\ WellFormed(<<Header>>) /\ NodesIn(<<Header>>) = {}
    /\ WellFormed(<<>>) /\ NodesIn(<<>>) = {}
<1>1. Header \in Line /\ Header.kind = "header"
  BY DEF Line, Header
<1>2. DOMAIN <<Header>> = {1} /\ <<Header>>[1] = Header
  OBVIOUS
<1>3. WellFormed(<<Header>>)
  BY <1>1, <1>2 DEF WellFormed
<1>4. NodesIn(<<Header>>) = {}
  BY <1>1, <1>2 DEF NodesIn
<1>5. WellFormed(<<>>) /\ NodesIn(<<>>) = {}
  BY DEF WellFormed, NodesIn
<1> QED BY <1>1, <1>3, <1>4, <1>5

(* The operands of an operation are called from a node and never on the    *)
(* first level: the operation on it is in no ignored library, so that no   *)
(* operand of it is left out.                                              *)
LEMMA OperandCallsFrom ==
    ASSUME IInv, NEW c \in BoundedCall, ~AtLimit(c), c.level = 1 => c.origin \notin ignored,
           NEW S, c.origin \in S
    PROVE  OperandCalls(c) \in Seq(CallsFrom(S))
<1> DEFINE mv == meanValues[c.origin]
           level2 == IF mv.arg1 # NoOp /\ ~Followed(c, mv.arg1)
                     THEN c.level ELSE c.level + 1
<1>1. /\ c.origin \in Ops /\ c.level \in 1 .. MaxLevel /\ c.depth \in Nat
  BY GraphLimits DEF BoundedCall, Call, AtLimit
<1>2. mv.arg1 \in Ops \cup {NoOp} /\ mv.arg2 \in Ops \cup {NoOp}
  BY <1>1 DEF IInv, TypeOK, MeanValue
<1>3. level2 > 1 /\ level2 \in Nat
  BY <1>1, <1>2, GraphLimits DEF Followed
<1>4. \A arg \in Ops, level \in Nat : level > 1 => CallOf(c, arg, level) \in CallsFrom(S)
  BY <1>1 DEF CallOf, CallsFrom, Call
<1>5. ASSUME Followed(c, mv.arg1)
      PROVE  <<CallOf(c, mv.arg1, c.level + 1)>> \in Seq(CallsFrom(S))
  <2>1. mv.arg1 \in Ops /\ c.level + 1 \in Nat /\ c.level + 1 > 1
    BY <1>1, <1>2, <1>5, GraphLimits DEF Followed
  <2>2. CallOf(c, mv.arg1, c.level + 1) \in CallsFrom(S)
    BY <1>4, <2>1
  <2> QED BY <2>2
<1>6. ASSUME Followed(c, mv.arg2)
      PROVE  <<CallOf(c, mv.arg2, level2)>> \in Seq(CallsFrom(S))
  <2>1. mv.arg2 \in Ops
    BY <1>2, <1>6 DEF Followed
  <2> HIDE DEF level2
  <2>2. CallOf(c, mv.arg2, level2) \in CallsFrom(S)
    BY <1>3, <1>4, <2>1
  <2> QED BY <2>2
<1>7. <<>> \in Seq(CallsFrom(S))
  OBVIOUS
<1> QED BY <1>5, <1>6, <1>7, ConcatProperties DEF OperandCalls

(* What a call leaves alone keeps its part of the invariant. *)
LEMMA CallKeepsGraphs ==
    ASSUME ShapeInv, writeOriginGraph, visited \subseteq visited'
    PROVE  /\ IInv' /\ GraphsInv' /\ dumping' /\ dumping
           /\ UNCHANGED <<input, graphs, careVisited, index, numWritten, unopened>>
           /\ \A op : (LeftOut(op))' = LeftOut(op) /\ (Shown(op))' = Shown(op)
<1>1. IInv'
  BY CallKeepsInv DEF ShapeInv
<1>2. /\ UNCHANGED <<input, graphs, careVisited, dumping, index, numWritten, unopened>>
      /\ calls # <<>>
  BY DEF writeOriginGraph, loopVars
<1>3. dumping /\ dumping'
  BY <1>2 DEF ShapeInv, IdleInv, IInv, TypeOK
<1>4. GraphsInv'
  BY <1>2 DEF ShapeInv, GraphsInv, NothingShownTwice
<1>5. \A op : (LeftOut(op))' = LeftOut(op) /\ (Shown(op))' = Shown(op)
  BY <1>2 DEF LeftOut, Shown, input
<1> QED BY <1>1, <1>2, <1>3, <1>4, <1>5

(* The first call of a graph: the header, and the operation unless it is   *)
(* left out.                                                               *)
LEMMA FirstCallKeeps ==
    ASSUME ShapeInv, writeOriginGraph, lines = <<>>
    PROVE  ShapeInv'
<1>1. dumping /\ IInv
  BY DEF ShapeInv, IdleInv, writeOriginGraph, IInv, TypeOK
<1>2. PICK op \in Ops \ ignored :
          calls = <<StartCall(op)>> /\ (careVisited => op \notin visited)
  BY <1>1 DEF ShapeInv, StartInv
<1> DEFINE c == StartCall(op)
<1>3. /\ Head(calls) = c /\ Tail(calls) = <<>>
      /\ c.level = 1 /\ c.origin = op /\ ~AtLimit(c)
  BY <1>2, GraphLimits DEF StartCall, AtLimit
<1>4. c \in BoundedCall
  BY <1>1, <1>2 DEF IInv, CallsBounded
<1>5. visited' = IF careVisited THEN visited \cup {op} ELSE visited
  BY <1>3 DEF writeOriginGraph, Marked
<1>6. /\ IInv' /\ GraphsInv' /\ dumping'
      /\ UNCHANGED <<input, graphs, careVisited, index, numWritten, unopened>>
      /\ \A x : (LeftOut(x))' = LeftOut(x) /\ (Shown(x))' = Shown(x)
  BY <1>5, CallKeepsGraphs
<1>7. /\ Written(c, {}) = IF LeftOut(op) THEN <<>> ELSE <<Node(op)>> \o <<>>
      /\ <<Node(op)>> \o <<>> = <<Node(op)>>
      /\ <<Node(op)>> # <<>>
  BY <1>3 DEF Written, LeftOut
<1>8. /\ lines' = <<Header>> \o Written(c, {})
      /\ IF Written(c, {}) = <<>> THEN calls' = <<>> /\ originAddrSet' = {}
         ELSE calls' = OperandCalls(c) \o <<>> /\ originAddrSet' = {op}
  <2>1. lines' = <<>> \o <<Header>> \o Written(c, {})
    BY <1>3 DEF writeOriginGraph
  <2>2. <<>> \o <<Header>> = <<Header>>
    OBVIOUS
  <2> HIDE DEF c
  <2>3. c.origin \notin {} /\ c.level <= 1
    BY <1>3
  <2>4. IF Written(c, {}) = <<>> THEN calls' = Tail(calls) /\ originAddrSet' = {}
        ELSE calls' = OperandCalls(c) \o Tail(calls) /\ originAddrSet' = Expanded(c, {})
    BY <1>3, <2>3 DEF writeOriginGraph
  <2>5. Expanded(c, {}) = {op}
    BY <1>3 DEF Expanded
  <2> QED BY <1>3, <2>1, <2>2, <2>4, <2>5, Zenon
<1>9. /\ lines' \in Seq(Line) /\ lines' # <<>> /\ WellFormed(lines')
      /\ originAddrSet' = NodesIn(lines')
      /\ NodesIn(lines') = IF LeftOut(op) THEN {} ELSE {op}
      /\ calls' \in Seq(CallsFrom(NodesIn(lines')))
      /\ Len(lines') > 1 => lines'[2].op = op
  <2>1. CASE LeftOut(op)
    <3>1. lines' = <<Header>> /\ calls' = <<>> /\ originAddrSet' = {}
      <4>1. <<Header>> \o <<>> = <<Header>>
        OBVIOUS
      <4>2. Written(c, {}) = <<>>
        BY <1>7, <2>1
      <4> QED BY <1>8, <4>1, <4>2, Zenon
    <3> QED BY <2>1, <3>1, HeaderAlone
  <2>2. CASE ~LeftOut(op)
    <3>1. /\ lines' = Append(<<Header>>, Node(op))
          /\ calls' = OperandCalls(c) \o <<>>
          /\ originAddrSet' = {op}
      BY <1>7, <1>8, <2>2
    <3>2. /\ lines' \in Seq(Line) /\ WellFormed(lines')
          /\ NodesIn(lines') = {op}
      BY <3>1, HeaderAlone, NodeAdded
    <3>3. lines' # <<>> /\ lines'[2].op = op
      BY <3>1, LineKinds
    <3>4. OperandCalls(c) \in Seq(CallsFrom({op}))
      BY <1>1, <1>2, <1>3, <1>4, OperandCallsFrom
    <3>5. calls' \in Seq(CallsFrom({op}))
      BY <3>1, <3>4, ConcatProperties
    <3> QED BY <2>2, <3>1, <3>2, <3>3, <3>5
  <2> QED BY <2>1, <2>2
<1>10. \A g \in DOMAIN graphs : careVisited => op \notin NodesIn(graphs[g])
  BY <1>2 DEF ShapeInv, GraphsInv
<1>11. LinesInv'
  BY <1>5, <1>6, <1>9, <1>10 DEF LinesInv
<1>12. IdleInv' /\ StartInv'
  BY <1>6, <1>9 DEF IdleInv, StartInv
<1>13. \A x : Pending(x) => x = op
  <2>1. \A x : StartCall(x).origin = x
    BY DEF StartCall
  <2> QED BY <1>2, <2>1, HeaderAlone DEF Pending
<1>14. careVisited => LeftOut(op) \/ Pending(op)'
  BY <1>6, <1>9 DEF Pending
<1>15. \A x : Pending(x) => LeftOut(x) \/ (Pending(x))'
  BY <1>13, <1>14 DEF Pending
<1>16. VisitedInv'
  BY <1>5, <1>6, <1>14, <1>15 DEF VisitedInv, ShapeInv
<1>17. OwedInv'
  <2>1. \A k \in 1 .. index - 1 : Owed(k)' = Owed(k) /\ (Owed(k) => ~LeftOut(memory[k].origin))
    BY <1>6, MergingIsFixed DEF Owed, LeftOut, HasError, input
  <2> QED BY <1>6, <1>15, <2>1 DEF OwedInv, ShapeInv, input
<1> QED BY <1>6, <1>11, <1>12, <1>16, <1>17 DEF ShapeInv

(* A call below the first level writes an edge to an operation that has a  *)
(* node, after its own node if it had none.                                *)
LEMMA LaterCallKeeps ==
    ASSUME ShapeInv, writeOriginGraph, lines # <<>>
    PROVE  ShapeInv'
<1> DEFINE c == Head(calls)
           N == NodesIn(lines)
<1>1. /\ dumping /\ IInv /\ lines \in Seq(Line) /\ calls \in Seq(BoundedCall) /\ calls # <<>>
  BY DEF ShapeInv, IdleInv, writeOriginGraph, IInv, TypeOK, CallsBounded
<1>2. /\ WellFormed(lines) /\ originAddrSet = N /\ calls \in Seq(CallsFrom(N))
      /\ careVisited => N \subseteq visited
      /\ careVisited /\ Len(lines) > 1 =>
            \A g \in DOMAIN graphs : lines[2].op \notin NodesIn(graphs[g])
  BY <1>1 DEF ShapeInv, LinesInv
<1>3. /\ c \in BoundedCall /\ c \in CallsFrom(N) /\ Tail(calls) \in Seq(CallsFrom(N))
  BY <1>1, <1>2, HeadTailProperties
<1>4. /\ c.level \in Nat /\ c.level > 1 /\ c.origin \in Ops
      /\ c.oldAddr \in N /\ c.oldAddr \in Ops
  BY <1>3 DEF CallsFrom, BoundedCall, Call
<1>5. ~(c.level <= 1) /\ c.level # 1
  BY <1>4
<1>6. Len(lines) \in Nat /\ Len(lines) > 1
  <2>1. PICK k \in DOMAIN lines : lines[k].kind = "node"
    BY <1>4 DEF NodesIn
  <2>2. lines[1] = Header /\ Header.kind = "header"
    BY <1>1, <1>2 DEF WellFormed, Header
  <2>3. k # 1
    BY <2>1, <2>2
  <2> QED BY <1>1, <2>1, <2>3
<1> DEFINE new == Written(c, N)
           edge == Edge(c.origin, c.oldAddr)
<1>7. /\ visited' = Marked(c)
      /\ IF AtLimit(c)
         THEN calls' = Tail(calls) /\ UNCHANGED <<originAddrSet, lines>>
         ELSE /\ lines' = (lines \o <<>>) \o new
              /\ IF c.origin \in N \/ new = <<>>
                 THEN calls' = Tail(calls) /\ originAddrSet' = N
                 ELSE calls' = OperandCalls(c) \o Tail(calls) /\ originAddrSet' = Expanded(c, N)
  <2> HIDE DEF c, new, N
  <2> QED BY <1>2, <1>5 DEF writeOriginGraph, c, new
<1>8. new = IF c.origin \in N THEN <<edge>>
            ELSE IF LeftOut(c.origin) THEN <<>> ELSE <<Node(c.origin)>> \o <<edge>>
  <2> HIDE DEF c, N, edge
  <2>1. c.level > 1
    BY <1>4
  <2> QED BY <2>1 DEF Written, LeftOut, edge
<1> HIDE DEF c, N, new, edge
(* Where the operation and its edge are after the call. *)
<1>9. /\ lines' \in Seq(Line) /\ WellFormed(lines') /\ Len(lines') > 1 /\ lines'[2] = lines[2]
      /\ originAddrSet' = NodesIn(lines')
      /\ calls' \in Seq(CallsFrom(NodesIn(lines')))
      /\ N \subseteq NodesIn(lines')
      /\ NodesIn(lines') \subseteq N \cup {c.origin}
      /\ careVisited => NodesIn(lines') \subseteq visited'
      /\ visited' \subseteq visited \cup {c.origin} /\ visited \subseteq visited'
      /\ c.origin \in visited' \ visited =>
            LeftOut(c.origin) \/ (careVisited /\ c.origin \in NodesIn(lines'))
  <2>1. CASE AtLimit(c)
    <3>1. lines' = lines /\ originAddrSet' = N /\ calls' = Tail(calls) /\ NodesIn(lines') = N
      BY <1>2, <1>7, <2>1 DEF N
    <3>2. visited' = visited
      BY <1>2, <1>4, <1>7, <2>1 DEF Marked
    <3> QED BY <1>1, <1>2, <1>3, <1>6, <3>1, <3>2
  <2>2. CASE ~AtLimit(c)
    <3>0. visited' = IF careVisited THEN visited \cup {c.origin} ELSE visited
      BY <1>7, <2>2 DEF Marked
    <3>1. lines \o <<>> = lines
      BY <1>1, ConcatEmptySeq
    <3>2. CASE c.origin \in N
      <4>1. lines' = lines \o <<edge>> /\ calls' = Tail(calls) /\ originAddrSet' = N
        BY <1>7, <1>8, <2>2, <3>1, <3>2
      <4>2. lines' = Append(lines, edge)
        BY <1>1, <4>1, AppendIsConcat
      <4>3. lines' \in Seq(Line) /\ WellFormed(lines') /\ NodesIn(lines') = N
        BY <1>1, <1>2, <1>4, <3>2, <4>2, EdgeAdded DEF edge, N
      <4>4. Len(lines') > 1 /\ lines'[2] = lines[2]
        BY <1>1, <1>6, <4>2
      <4> QED BY <1>2, <1>3, <3>0, <3>2, <4>1, <4>3, <4>4
    <3>3. CASE c.origin \notin N /\ LeftOut(c.origin)
      <4>1. new = <<>>
        BY <1>8, <3>3
      <4>2. lines' = lines /\ calls' = Tail(calls) /\ originAddrSet' = N
        <5>1. lines' = (lines \o <<>>) \o <<>>
          BY <1>7, <2>2, <4>1
        <5> QED BY <1>7, <2>2, <3>1, <4>1, <5>1
      <4>3. NodesIn(lines') = N
        BY <4>2 DEF N
      <4> QED BY <1>1, <1>2, <1>3, <1>6, <3>0, <3>3, <4>2, <4>3
    <3>4. CASE c.origin \notin N /\ ~LeftOut(c.origin)
      <4>1. new = <<Node(c.origin)>> \o <<edge>> /\ new # <<>>
        BY <1>8, <3>4
      <4>2. lines' = lines \o (<<Node(c.origin)>> \o <<edge>>)
        BY <1>7, <2>2, <3>1, <4>1
      <4>3. calls' = OperandCalls(c) \o Tail(calls) /\ originAddrSet' = N \cup {c.origin}
        BY <1>7, <2>2, <3>4, <4>1 DEF Expanded
      <4> DEFINE mid == Append(lines, Node(c.origin))
      <4>4. mid \in Seq(Line) /\ WellFormed(mid) /\ NodesIn(mid) = N \cup {c.origin} /\ mid # <<>>
        BY <1>1, <1>2, <1>4, <3>4, NodeAdded DEF N
      <4>5. lines' = Append(mid, edge)
        <5>1. Node(c.origin) \in Line /\ edge \in Line
          BY <1>4, LineKinds DEF edge
        <5> QED BY <1>1, <4>2, <5>1
      <4>6. Len(lines') > 1 /\ lines'[2] = lines[2]
        BY <1>1, <1>6, <4>5
      <4> HIDE DEF mid
      <4>7. lines' \in Seq(Line) /\ WellFormed(lines') /\ NodesIn(lines') = N \cup {c.origin}
        BY <1>4, <4>4, <4>5, EdgeAdded DEF edge
      <4>8. OperandCalls(c) \in Seq(CallsFrom(N \cup {c.origin}))
        BY <1>1, <1>3, <1>5, <2>2, OperandCallsFrom
      <4>9. Tail(calls) \in Seq(CallsFrom(N \cup {c.origin}))
        <5>1. CallsFrom(N) \subseteq CallsFrom(N \cup {c.origin})
          BY DEF CallsFrom
        <5> QED BY <1>3, <5>1, SeqMonotonic
      <4>10. calls' \in Seq(CallsFrom(N \cup {c.origin}))
        BY <4>3, <4>8, <4>9, ConcatProperties
      <4> QED BY <1>2, <3>0, <3>4, <4>3, <4>6, <4>7, <4>10
    <3> QED BY <3>2, <3>3, <3>4
  <2> QED BY <2>1, <2>2
<1>10. /\ IInv' /\ GraphsInv' /\ dumping'
       /\ UNCHANGED <<input, graphs, careVisited, index, numWritten, unopened>>
       /\ \A x : (LeftOut(x))' = LeftOut(x) /\ (Shown(x))' = Shown(x)
  BY <1>9, CallKeepsGraphs
<1>11. lines' # <<>>
  BY <1>9
<1>12. LinesInv'
  BY <1>2, <1>6, <1>9, <1>10 DEF LinesInv
<1>13. IdleInv' /\ StartInv'
  BY <1>10, <1>11 DEF IdleInv, StartInv
<1>14. \A x : Pending(x) => (Pending(x))'
  BY <1>9, <1>10 DEF Pending, N
<1>15. \A x : careVisited /\ x \in NodesIn(lines') => (Pending(x))'
  BY <1>10 DEF Pending
<1>16. VisitedInv'
  <2> SUFFICES ASSUME NEW x \in visited' PROVE (LeftOut(x) \/ Shown(x) \/ Pending(x))'
    BY DEF VisitedInv
  <2>1. CASE x \in visited
    BY <1>10, <1>14, <2>1 DEF VisitedInv, ShapeInv
  <2>2. CASE x \notin visited
    <3>1. x = c.origin
      BY <1>9, <2>2
    <3>2. LeftOut(x) \/ (careVisited /\ x \in NodesIn(lines'))
      BY <1>9, <2>2, <3>1
    <3> QED BY <1>10, <1>15, <3>1, <3>2
  <2> QED BY <2>1, <2>2
<1>17. OwedInv'
  <2>1. \A k \in 1 .. index - 1 : Owed(k)' = Owed(k)
    BY <1>10, MergingIsFixed DEF Owed, HasError, input
  <2> QED BY <1>10, <1>14, <2>1 DEF OwedInv, ShapeInv, input
<1> QED BY <1>10, <1>12, <1>13, <1>16, <1>17 DEF ShapeInv

(* A finished graph of the report joins the others. *)
LEMMA CloseKeeps ==
    ASSUME ShapeInv, CloseGraph
    PROVE  ShapeInv'
<1>1. /\ dumping /\ calls = <<>> /\ ~dumping' /\ lines' = <<>>
      /\ graphs' = IF careVisited THEN Append(graphs, lines) ELSE graphs
      /\ UNCHANGED <<input, visited, originAddrSet, careVisited, calls, index, numWritten, unopened>>
  BY DEF CloseGraph
<1>2. IInv /\ IInv'
  BY CloseKeepsInv DEF ShapeInv
<1>3. lines # <<>>
  BY <1>1 DEF ShapeInv, StartInv
<1>4. /\ WellFormed(lines)
      /\ careVisited => NodesIn(lines) \subseteq visited
      /\ careVisited /\ Len(lines) > 1 =>
            \A g \in DOMAIN graphs : lines[2].op \notin NodesIn(graphs[g])
  BY <1>1, <1>3 DEF ShapeInv, LinesInv
<1>5. graphs \in Seq(Seq(Line)) /\ Len(graphs) \in Nat
  BY <1>2 DEF IInv, TypeOK
<1>6. /\ \A g \in DOMAIN graphs : g \in DOMAIN graphs' /\ graphs'[g] = graphs[g]
      /\ Len(graphs) <= Len(graphs') /\ Len(graphs') \in Nat
      /\ \A g \in DOMAIN graphs' : g \in DOMAIN graphs \/
            (careVisited /\ graphs'[g] = lines /\ \A h \in DOMAIN graphs' : h <= g)
      /\ careVisited => \E g \in DOMAIN graphs' : graphs'[g] = lines
      /\ DOMAIN graphs' \subseteq Int
  <2>1. CASE careVisited
    <3>1. graphs' = Append(graphs, lines)
      BY <1>1, <2>1
    <3>2. /\ Len(graphs') = Len(graphs) + 1 /\ DOMAIN graphs' = 1 .. Len(graphs) + 1
          /\ DOMAIN graphs = 1 .. Len(graphs)
          /\ graphs'[Len(graphs) + 1] = lines
          /\ \A g \in DOMAIN graphs : graphs'[g] = graphs[g]
      BY <1>5, <3>1
    <3> QED BY <1>5, <2>1, <3>2
  <2>2. CASE ~careVisited
    BY <1>1, <1>5, <2>2
  <2> QED BY <2>1, <2>2
<1>7. GraphsInv'
  <2>1. \A g \in DOMAIN graphs' : WellFormed(graphs'[g]) /\ NodesIn(graphs'[g]) \subseteq visited
    BY <1>4, <1>6 DEF ShapeInv, GraphsInv
  <2>2. ASSUME NEW g \in DOMAIN graphs', NEW h \in DOMAIN graphs', g < h, Len(graphs'[h]) > 1
        PROVE  graphs'[h][2].op \notin NodesIn(graphs'[g])
    <3>1. g \in DOMAIN graphs
      BY <1>6, <2>2
    <3>2. CASE h \in DOMAIN graphs
      BY <1>6, <2>2, <3>1, <3>2 DEF ShapeInv, GraphsInv, NothingShownTwice
    <3>3. CASE h \notin DOMAIN graphs
      BY <1>4, <1>6, <2>2, <3>1, <3>3
    <3> QED BY <3>2, <3>3
  <2> QED BY <1>1, <2>1, <2>2 DEF GraphsInv, NothingShownTwice
<1>8. \A x : Shown(x) \/ Pending(x) => (Shown(x))'
  BY <1>3, <1>6 DEF Shown, Pending
<1>9. VisitedInv'
  BY <1>1, <1>8 DEF ShapeInv, VisitedInv, LeftOut, input
<1>10. OwedInv'
  <2>1. \A k \in 1 .. index - 1 : Owed(k)' => Owed(k)
    BY <1>1, <1>5, <1>6, GraphLimits, MergingIsFixed DEF Owed, HasError, input
  <2> QED BY <1>1, <1>8, <2>1 DEF ShapeInv, OwedInv, input
<1> QED BY <1>1, <1>2, <1>7, <1>9, <1>10 DEF ShapeInv, IdleInv, StartInv, LinesInv

(* A new graph starts from nothing, and takes nothing away. *)
LEMMA DumpKeeps ==
    ASSUME ShapeInv, IInv', ~dumping,
           UNCHANGED <<input, graphs>>,
           NEW sv \in ShadowValue, NEW care \in BOOLEAN,
           sv.origin \notin ignored, care => sv.origin \notin visited,
           dumpGraph(sv, care)
    PROVE  /\ IdleInv' /\ StartInv' /\ LinesInv' /\ GraphsInv' /\ VisitedInv'
           /\ \A x : Shown(x) \/ Pending(x) => (Shown(x))'
           /\ \A x : care /\ x = sv.origin => (Pending(x))'
<1>1. /\ dumping' = TRUE /\ lines' = <<>> /\ calls' = <<StartCall(sv.origin)>>
      /\ careVisited' = care /\ UNCHANGED <<visited, originAddrSet>>
  BY DEF dumpGraph, StartCall
<1>2. sv.origin \in Ops
  BY DEF ShadowValue
<1>3. \A x : Shown(x) \/ Pending(x) => (Shown(x))'
  BY DEF Shown, Pending
<1>4. \A x : care /\ x = sv.origin => (Pending(x))'
  BY <1>1 DEF Pending, StartCall
<1>5. IdleInv' /\ LinesInv'
  BY <1>1 DEF IdleInv, LinesInv
<1>6. StartInv'
  BY <1>1, <1>2 DEF StartInv, StartCall, input
<1>7. GraphsInv'
  BY <1>1 DEF ShapeInv, GraphsInv, NothingShownTwice
<1>8. VisitedInv'
  BY <1>1, <1>3 DEF ShapeInv, VisitedInv, LeftOut, input
<1> QED BY <1>3, <1>4, <1>5, <1>6, <1>7, <1>8

LEMMA RequestKeeps ==
    ASSUME ShapeInv, NEW k \in DOMAIN memory, NEW conditional \in BOOLEAN,
           RequestGraph(k, conditional)
    PROVE  ShapeInv'
<1>1. IInv /\ IInv'
  BY RequestKeepsInv DEF ShapeInv
<1>2. memory[k] \in ShadowValue
  BY <1>1 DEF IInv, TypeOK
<1>3. /\ ~dumping /\ memory[k].origin \notin ignored /\ dumpGraph(memory[k], FALSE)
      /\ UNCHANGED <<input, index, numWritten, graphs, unopened>>
  BY DEF RequestGraph, HasGraph, loopVars
<1>4. /\ IdleInv' /\ StartInv' /\ LinesInv' /\ GraphsInv' /\ VisitedInv'
      /\ \A x : Shown(x) \/ Pending(x) => (Shown(x))'
  BY <1>1, <1>2, <1>3, DumpKeeps
<1>5. OwedInv'
  <2>1. \A j \in 1 .. index - 1 : Owed(j)' = Owed(j)
    BY <1>3, MergingIsFixed DEF Owed, HasError, input
  <2> QED BY <1>3, <1>4, <2>1 DEF ShapeInv, OwedInv, input
<1> QED BY <1>1, <1>4, <1>5 DEF ShapeInv

(* A merged entry with an error, in whose chain there is no NaN, is the    *)
(* same as the entry before it.                                            *)
LEMMA MergedAreTheSame ==
    ASSUME TypeOK, NEW k \in DOMAIN memory, areSvsEqual(k),
           HasError(memory[k]), ~MergedIntoNaN(k)
    PROVE  /\ k - 1 \in 1 .. k - 1
           /\ memory[k - 1] = memory[k]
           /\ ~MergedIntoNaN(k - 1)
<1>1. k \in Nat /\ k > 1 /\ k - 1 \in DOMAIN memory
  BY DEF areSvsEqual, TypeOK
<1>2. memory[k] \in ShadowValue /\ memory[k - 1] \in ShadowValue
  BY <1>1 DEF TypeOK
<1>3. memory[k - 1].shadow # NaN
  BY <1>1 DEF MergedIntoNaN
<1>4. memory[k - 1] = memory[k]
  BY <1>2, <1>3 DEF areSvsEqual, HasError, ShadowValue
<1>5. ASSUME NEW n \in 1 .. (k - 1) - 1, memory[n].shadow = NaN,
             \A m \in n + 1 .. k - 1 : areSvsEqual(m)
      PROVE  FALSE
  <2>1. \A m \in n + 1 .. k : areSvsEqual(m)
    BY <1>1, <1>5
  <2> QED BY <1>1, <1>5, <2>1 DEF MergedIntoNaN
<1> QED BY <1>1, <1>4, <1>5 DEF MergedIntoNaN

(* An entry with an error is listed, has been, or its list is full; a      *)
(* listed one has a graph, gets one, or the graph's file is not opened.    *)
LEMMA EntryKeeps ==
    ASSUME ShapeInv, Entry
    PROVE  ShapeInv'
<1> DEFINE sv == memory[index]
<1>1. IInv /\ IInv'
  BY EntryKeepsInv DEF ShapeInv
<1>2. /\ ~dumping /\ index \in Nat \ {0} /\ index' = index + 1 /\ index <= Len(memory)
      /\ UNCHANGED <<input, graphs>>
      /\ numWritten \in Nat /\ numWritten' \in {numWritten, numWritten + 1}
      /\ Len(graphs) \in Nat
      /\ unopened \subseteq unopened'
  <2>1. /\ index \in Nat \ {0} /\ numWritten \in Nat /\ Len(graphs) \in Nat
    BY <1>1 DEF IInv, TypeOK
  <2>2. /\ ~dumping /\ index' = index + 1 /\ index <= Len(memory)
        /\ UNCHANGED <<input, graphs>>
        /\ numWritten' \in {numWritten, numWritten + 1}
    BY DEF Entry, NextIndex
  <2>3. unopened \subseteq unopened'
    BY DEF Entry
  <2> QED BY <2>1, <2>2, <2>3
<1>3. sv \in ShadowValue /\ sv.origin \in Ops
  <2>1. index \in DOMAIN memory
    BY <1>1, <1>2 DEF IInv, TypeOK
  <2>2. sv \in ShadowValue
    BY <1>1, <2>1 DEF IInv, TypeOK
  <2> QED BY <2>2 DEF ShadowValue
<1>4. CASE dumpGraph(sv, TRUE) /\ HasGraph(sv, TRUE, TRUE)
  <2>1. /\ sv.origin \notin ignored /\ sv.origin \notin visited
        /\ dumpGraph(sv, TRUE)
    BY <1>4 DEF HasGraph
  <2> HIDE DEF sv
  <2>2. /\ IdleInv' /\ StartInv' /\ LinesInv' /\ GraphsInv' /\ VisitedInv'
        /\ \A x : Shown(x) \/ Pending(x) => (Shown(x))'
        /\ \A x : x = sv.origin => (Pending(x))'
    BY <1>1, <1>2, <1>3, <2>1, DumpKeeps
  <2>3. OwedInv'
    <3> SUFFICES ASSUME NEW k \in 1 .. index, Owed(k)'
                 PROVE  (Shown(memory[k].origin) \/ Pending(memory[k].origin))'
      BY <1>2 DEF OwedInv
    <3>1. \A x : x = memory[k].origin => (x = memory[k].origin)'
      BY <1>2 DEF input
    <3>2. CASE k = index
      BY <1>2, <2>2, <3>2 DEF sv, input
    <3>3. CASE k # index
      <4>1. Owed(k) /\ k \in 1 .. index - 1
        BY <1>2, <3>3, GraphLimits, MergingIsFixed DEF Owed, HasError, input
      <4> QED BY <1>2, <2>2, <4>1 DEF ShapeInv, OwedInv, input
    <3> QED BY <3>2, <3>3
  <2> QED BY <1>1, <2>2, <2>3 DEF ShapeInv
<1>5. CASE UNCHANGED graphVars
  <2>1. /\ IdleInv' /\ StartInv' /\ LinesInv' /\ GraphsInv' /\ VisitedInv'
        /\ \A x : (Shown(x))' = Shown(x) /\ ~Pending(x)
    BY <1>2, <1>5 DEF ShapeInv, IdleInv, StartInv, LinesInv, GraphsInv, NothingShownTwice,
       VisitedInv, LeftOut, Shown, Pending, input, graphVars
  <2>2. OwedInv'
    <3> SUFFICES ASSUME NEW k \in 1 .. index, Owed(k)'
                 PROVE  (Shown(memory[k].origin))'
      BY <1>2 DEF OwedInv
    <3>1. \A j \in 1 .. index - 1 : Owed(j)' => Shown(memory[j].origin)
      <4>1. \A j \in 1 .. index - 1 : Owed(j)' => Owed(j)
        BY <1>2, GraphLimits, MergingIsFixed DEF Owed, HasError, input
      <4> QED BY <2>1, <4>1 DEF ShapeInv, OwedInv
    <3>2. CASE k # index
      BY <1>2, <2>1, <3>1, <3>2 DEF input
    <3>3. CASE k = index /\ areSvsEqual(index)
      <4>1. HasError(memory[index]) /\ ~MergedIntoNaN(index)
        BY <1>2, <3>3, MergingIsFixed DEF Owed, HasError, input
      <4>2. /\ index - 1 \in 1 .. index - 1 /\ memory[index - 1] = memory[index]
            /\ ~MergedIntoNaN(index - 1)
        <5>1. TypeOK /\ index \in DOMAIN memory
          BY <1>1, <1>2 DEF IInv, TypeOK
        <5> QED BY <1>2, <3>3, <4>1, <5>1, MergedAreTheSame
      <4>3. \A j \in 1 .. index - 1 : j = index - 1 => Owed(j)'
        BY <1>2, <3>3, <4>2, MergingIsFixed DEF Owed, HasError, input
      <4> QED BY <1>2, <2>1, <3>1, <3>3, <4>2, <4>3 DEF input
    <3>4. CASE k = index /\ ~areSvsEqual(index)
      <4>1. /\ HasError(sv) /\ sv.origin \notin ignored /\ sv.origin \notin unopened'
            /\ ~LeftOut(sv.origin)
            /\ Len(graphs) < MaxGraphs /\ numWritten < MaxEntries
        BY <1>2, <3>4, GraphLimits, MergingIsFixed DEF Owed, LeftOut, HasError, input
      <4>2. sv.origin \in visited
        <5>1. ~dumpGraph(sv, TRUE)
          BY <1>2, <1>5 DEF dumpGraph, graphVars
        <5>2. ~(unopened' = unopened \cup {sv.origin})
          BY <4>1
        <5>3. ~HasGraph(sv, TRUE, TRUE)
          BY <3>4, <4>1, <5>1, <5>2 DEF Entry
        <5> QED BY <4>1, <5>3 DEF HasGraph
      <4>3. Shown(sv.origin)
        BY <2>1, <4>1, <4>2 DEF ShapeInv, VisitedInv
      <4> QED BY <1>2, <2>1, <3>4, <4>3 DEF input
    <3> QED BY <3>2, <3>3, <3>4
  <2> QED BY <1>1, <2>1, <2>2 DEF ShapeInv
<1> QED BY <1>4, <1>5 DEF Entry

LEMMA ShapeInit == Init => ShapeInv
<1> SUFFICES ASSUME Init PROVE ShapeInv
  OBVIOUS
<1>1. /\ index = 1 /\ visited = {} /\ calls = <<>> /\ dumping = FALSE /\ lines = <<>>
      /\ graphs = <<>>
  BY DEF Init, InitWith
<1> QED BY <1>1, InvInit DEF ShapeInv, IdleInv, StartInv, LinesInv, GraphsInv,
       NothingShownTwice, VisitedInv, OwedInv

LEMMA ShapeStep == ShapeInv /\ [Next]_vars => ShapeInv'
<1> SUFFICES ASSUME ShapeInv, [Next]_vars PROVE ShapeInv'
  OBVIOUS
<1>1. ASSUME NEW k \in DOMAIN memory, NEW conditional \in BOOLEAN,
             RequestGraph(k, conditional)
      PROVE  ShapeInv'
  BY <1>1, RequestKeeps
<1>2. CASE writeOriginGraph
  BY <1>2, FirstCallKeeps, LaterCallKeeps
<1>3. CASE CloseGraph
  BY <1>3, CloseKeeps
<1>4. CASE Entry
  BY <1>4, EntryKeeps
<1>5. CASE Exit \/ Finish \/ Ended \/ UNCHANGED vars
  <2>1. UNCHANGED <<input, graphVars, loopVars>>
    BY <1>5 DEF Exit, Finish, Ended, vars
  <2>2. IInv'
    BY InvStep DEF ShapeInv
  <2>3. OwedInv'
    <3>1. \A k \in 1 .. index - 1 : Owed(k)' = Owed(k)
      BY <2>1, MergingIsFixed DEF Owed, HasError, input, loopVars
    <3> QED BY <2>1, <3>1 DEF ShapeInv, OwedInv, Shown, Pending, input, graphVars, loopVars
  <2> QED BY <2>1, <2>2, <2>3 DEF ShapeInv, IdleInv, StartInv, LinesInv, GraphsInv,
        NothingShownTwice, VisitedInv, Shown, Pending, LeftOut,
        input, graphVars, loopVars
<1> QED BY <1>1, <1>2, <1>3, <1>4, <1>5 DEF Next, Tool

LEMMA ShapeAlways == Spec => []ShapeInv
BY ShapeInit, ShapeStep, PTL DEF Spec

(* Every file of a graph, finished or not, is one that a reader accepts:   *)
(* one node per operation, and no edge before the nodes it joins.          *)
THEOREM GraphsStayWellFormed == Spec => []GraphsWellFormed
<1>1. ShapeInv => GraphsWellFormed
  <2> SUFFICES ASSUME ShapeInv PROVE GraphsWellFormed
    OBVIOUS
  <2>1. WellFormed(lines)
    BY HeaderAlone DEF ShapeInv, IdleInv, LinesInv, IInv, TypeOK
  <2> QED BY <2>1 DEF ShapeInv, GraphsInv, GraphsWellFormed
<1> QED BY <1>1, ShapeAlways, PTL

(* No graph of the report starts at an operation that an earlier one has   *)
(* shown, whatever the guest has requested before.                         *)
THEOREM GraphsShowNewOperations == Spec => []NothingShownTwice
<1>1. ShapeInv => NothingShownTwice
  BY DEF ShapeInv, GraphsInv
<1> QED BY <1>1, ShapeAlways, PTL

(* The report explains every error it owes a graph to, although the flags  *)
(* that decide about a graph are also set at the depth limit and for       *)
(* operations that are left out, and an entry may be merged into one with  *)
(* another shadow value.  It owes none to an error merged into a NaN.      *)
THEOREM OwedErrorsAreExplained == Spec => []ErrorsAreExplained
<1>1. ShapeInv => ErrorsAreExplained
  BY DEF ShapeInv, OwedInv, ErrorsAreExplained, Shown, Pending
<1> QED BY <1>1, ShapeAlways, PTL

=============================================================================
