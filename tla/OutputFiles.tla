------------------------------ MODULE OutputFiles ------------------------------
(***************************************************************************)
(* The files of src/valgrind/fpdebug/fd_main.c and the one buffer through  *)
(* which all of them are written: fwrite_flush, my_fwrite, getFileName and *)
(* the life of a file in dumpGraph and in the functions that write the     *)
(* reports at exit.  While the report of the relative errors is open, the  *)
(* graphs of its entries are written to files of their own.                *)
(*                                                                         *)
(* getFileName looks for a name that is free and the file is opened later, *)
(* with O_TRUNC.  Other processes create and remove files in between.      *)
(* VG_(write) is taken to write everything; its result is ignored.         *)
(***************************************************************************)
EXTENDS Integers, Sequences, FiniteSets

CONSTANTS
    Bases,        \* base names of the reports, in the order of fd_fini
    RelError,     \* the one whose entries have graphs
    GraphNames,   \* names of graph files
    LastSuffix,   \* the suffix that is taken without a look, 100 in the code
    FDs,          \* file descriptors
    NoFd,         \* -1
    BufSize,      \* FWRITE_BUFSIZE, 32000 in the code
    Through,      \* FWRITE_THROUGH, 10000 in the code
    Lengths,      \* lengths of what is written at once
    MaxWrites,    \* bound on the calls of my_fwrite
    MaxGraphs,    \* bound on the graph files opened
    Foreign,      \* a file of another process
    Absent        \* no file

ReportName(base, i) == <<base, i>>
ReportNames == {ReportName(base, i) : base \in {Bases[k] : k \in DOMAIN Bases}, i \in 1 .. LastSuffix}
Names == ReportNames \cup GraphNames
Chunks == [id : 1 .. MaxWrites, len : Lengths]

ASSUME NamesAssumption ==
    /\ Len(Bases) \in Nat /\ DOMAIN Bases = 1 .. Len(Bases)
    /\ GraphNames \cap ReportNames = {}
    /\ Foreign \notin Seq(Chunks)
    /\ Absent \notin Seq(Chunks)
    /\ Foreign # Absent
ASSUME OutputLimits ==
    /\ LastSuffix \in Nat \ {0}
    /\ FDs \subseteq Nat
    /\ NoFd = -1
    /\ BufSize \in Nat /\ Through \in Nat /\ Through < BufSize
    /\ Lengths \subseteq Nat \ {0}
    /\ MaxWrites \in Nat
    /\ MaxGraphs \in Nat

VARIABLES
    disk,        \* per name: the chunks in the file, Foreign or Absent
    fwrite_buf,  \* the chunks in the buffer
    fwrite_pos,  \* its length
    fwrite_fd,   \* the file it belongs to
    fileOf,      \* per descriptor: the name with which it was opened last
    report,      \* descriptor of the report that is open, or NoFd
    graph,       \* descriptor of the graph that is open, or NoFd
    nextReport,  \* the next report, an index of Bases; 0 while the guest runs
    suffix,      \* the suffix that getFileName looks at, or 0
    chosen,      \* getFileName has returned
    older,       \* reports that were there when it was called
    writes,      \* calls of my_fwrite so far
    graphs,      \* graph files opened so far
    asked        \* (history) per open file: what my_fwrite was called with

bufferVars == <<fwrite_buf, fwrite_pos, fwrite_fd>>
nameVars == <<nextReport, suffix, chosen, older>>
bounds == <<writes, graphs>>
vars == <<disk, bufferVars, fileOf, report, graph, nameVars, bounds, asked>>

Base == Bases[nextReport]
Opened == {fileOf[fd] : fd \in {report, graph} \ {NoFd}}
Current == IF graph # NoFd THEN graph ELSE report

Init ==
    /\ disk \in [Names -> {Foreign, Absent}]
    /\ fwrite_buf = <<>>
    /\ fwrite_pos = -1
    /\ fwrite_fd = NoFd
    /\ fileOf = [fd \in FDs |-> Absent]
    /\ report = NoFd
    /\ graph = NoFd
    /\ nextReport = 0
    /\ suffix = 0
    /\ chosen = FALSE
    /\ older = {}
    /\ writes = 0
    /\ graphs = 0
    /\ asked = [name \in Names |-> <<>>]

-----------------------------------------------------------------------------
(* The files after fwrite_flush. *)
Flushed ==
    IF fwrite_fd # NoFd /\ fwrite_pos > 0
    THEN [disk EXCEPT ![fileOf[fwrite_fd]] = @ \o fwrite_buf]
    ELSE disk

fwrite_flush ==
    /\ disk' = Flushed
    /\ fwrite_buf' = <<>>
    /\ fwrite_pos' = 0
    /\ UNCHANGED fwrite_fd

(* (variant) The buffer may be filled to one more than its size. *)
FitsOneMore(pos, len) == BufSize - pos >= len - 1

Fits(pos, len) == ~(BufSize - pos <= len)

WritesThrough(fd, chunk) ==
    /\ disk' = [Flushed EXCEPT ![fileOf[fd]] = Append(@, chunk)]
    /\ fwrite_buf' = <<>>
    /\ fwrite_pos' = 0

(* (variant) The chunk that the buffer is flushed for is forgotten. *)
StartsBufferEmpty(chunk) ==
    /\ disk' = Flushed
    /\ fwrite_buf' = <<>>
    /\ fwrite_pos' = 0

StartsBuffer(chunk) ==
    /\ disk' = Flushed
    /\ fwrite_buf' = <<chunk>>
    /\ fwrite_pos' = chunk.len

(* my_fwrite: a flush on a change of the file, for a long chunk and for    *)
(* one that does not fit.  A long chunk is not buffered.                   *)
my_fwrite(fd, chunk) ==
    LET switch == fwrite_fd # fd
        pos == IF switch THEN 0 ELSE fwrite_pos
        through == chunk.len > Through
        flush == switch \/ ~Fits(pos, chunk.len)
    IN  /\ fwrite_fd' = fd
        /\ IF through
           THEN WritesThrough(fd, chunk)
           ELSE IF flush
           THEN StartsBuffer(chunk)
           ELSE /\ fwrite_buf' = Append(fwrite_buf, chunk)
                /\ fwrite_pos' = pos + chunk.len
                /\ UNCHANGED disk

Write(len) ==
    /\ Current # NoFd
    /\ writes < MaxWrites
    /\ writes' = writes + 1
    /\ LET chunk == [id |-> writes + 1, len |-> len]
       IN  /\ my_fwrite(Current, chunk)
           /\ asked' = [asked EXCEPT ![fileOf[Current]] = Append(@, chunk)]
    /\ UNCHANGED <<fileOf, report, graph, nameVars, graphs>>

(* VG_(open) with O_CREAT and O_TRUNC. *)
Opens(fd, name) ==
    /\ fd \notin {report, graph}
    /\ name \notin Opened
    /\ fileOf' = [fileOf EXCEPT ![fd] = name]
    /\ disk' = [disk EXCEPT ![name] = <<>>]
    /\ UNCHANGED asked

-----------------------------------------------------------------------------
(* dumpGraph for a guest, or for an entry of the report.  If the file      *)
(* cannot be opened, nothing is changed.                                   *)
OpenGraph(fd, name) ==
    /\ graph = NoFd
    /\ \/ nextReport = 0
       \/ report # NoFd /\ Base = RelError
    /\ graphs < MaxGraphs
    /\ graphs' = graphs + 1
    /\ Opens(fd, name)
    /\ graph' = fd
    /\ UNCHANGED <<bufferVars, report, nameVars, writes>>

(* (variant) The graph is closed with its last lines in the buffer. *)
FlushedBeforeCloseNever == UNCHANGED <<disk, bufferVars>>

FlushedBeforeClose == fwrite_flush

CloseGraph ==
    /\ graph # NoFd
    /\ FlushedBeforeClose
    /\ graph' = NoFd
    /\ asked' = [asked EXCEPT ![fileOf[graph]] = <<>>]
    /\ UNCHANGED <<fileOf, report, nameVars, bounds>>

Exit ==
    /\ nextReport = 0
    /\ graph = NoFd
    /\ nextReport' = 1
    /\ UNCHANGED <<disk, bufferVars, fileOf, report, graph, suffix, chosen, older, bounds, asked>>

Waiting == nextReport \in DOMAIN Bases /\ report = NoFd

(* getFileName is called. *)
StartReport ==
    /\ Waiting
    /\ suffix = 0
    /\ suffix' = 1
    /\ older' = {name \in ReportNames : disk[name] = Foreign}
    /\ UNCHANGED <<disk, bufferVars, fileOf, report, graph, nextReport, chosen, bounds, asked>>

(* (variant) The last name that is looked at is not left out if taken. *)
StopsEarly == suffix >= LastSuffix - 1

StopsLooking == suffix = LastSuffix

(* VG_(stat) for one name; the last one is taken without it. *)
getFileName ==
    /\ Waiting
    /\ suffix # 0
    /\ ~chosen
    /\ IF StopsLooking \/ disk[ReportName(Base, suffix)] = Absent
       THEN chosen' = TRUE /\ UNCHANGED suffix
       ELSE suffix' = suffix + 1 /\ UNCHANGED chosen
    /\ UNCHANGED <<disk, bufferVars, fileOf, report, graph, nextReport, older, bounds, asked>>

OpenReport(fd) ==
    /\ Waiting
    /\ chosen
    /\ Opens(fd, ReportName(Base, suffix))
    /\ report' = fd
    /\ UNCHANGED <<bufferVars, graph, nameVars, bounds>>

(* A report is left out if there is nothing to write or if its file cannot *)
(* be opened.                                                              *)
NoReport ==
    /\ Waiting
    /\ suffix = 0 \/ chosen
    /\ nextReport' = nextReport + 1
    /\ suffix' = 0
    /\ chosen' = FALSE
    /\ older' = {}
    /\ UNCHANGED <<disk, bufferVars, fileOf, report, graph, bounds, asked>>

CloseReport ==
    /\ report # NoFd
    /\ graph = NoFd
    /\ fwrite_flush
    /\ report' = NoFd
    /\ nextReport' = nextReport + 1
    /\ suffix' = 0
    /\ chosen' = FALSE
    /\ older' = {}
    /\ asked' = [asked EXCEPT ![fileOf[report]] = <<>>]
    /\ UNCHANGED <<fileOf, graph, bounds>>

(* Another process creates or removes a file. *)
Others(name) ==
    /\ name \notin Opened
    /\ disk' = [disk EXCEPT ![name] = IF @ = Absent THEN Foreign ELSE Absent]
    /\ older' = older \ {name}
    /\ UNCHANGED <<bufferVars, fileOf, report, graph, nextReport, suffix, chosen, bounds, asked>>

(* The run is over. *)
Ended == nextReport > Len(Bases) /\ UNCHANGED vars

Next ==
    \/ \E len \in Lengths : Write(len)
    \/ \E fd \in FDs, name \in GraphNames : OpenGraph(fd, name)
    \/ CloseGraph
    \/ Exit
    \/ StartReport
    \/ getFileName
    \/ \E fd \in FDs : OpenReport(fd)
    \/ NoReport
    \/ CloseReport
    \/ \E name \in Names : Others(name)
    \/ Ended

Spec == Init /\ [][Next]_vars

-----------------------------------------------------------------------------
TypeOK ==
    /\ disk \in [Names -> Seq(Chunks) \cup {Foreign, Absent}]
    /\ fwrite_buf \in Seq(Chunks)
    /\ fwrite_fd \in FDs \cup {NoFd}
    /\ fileOf \in [FDs -> Names \cup {Absent}]
    /\ report \in FDs \cup {NoFd}
    /\ graph \in FDs \cup {NoFd}
    /\ nextReport \in 0 .. Len(Bases) + 1
    /\ suffix \in 0 .. LastSuffix
    /\ chosen \in BOOLEAN
    /\ older \subseteq ReportNames
    /\ writes \in 0 .. MaxWrites
    /\ graphs \in 0 .. MaxGraphs
    /\ asked \in [Names -> Seq(Chunks)]

(* A report of an earlier run is still there, unless another process has   *)
(* removed it or it has the suffix that is taken when all others are in    *)
(* use: the file that is opened, and with it truncated, is one that        *)
(* getFileName has not seen.                                               *)
OlderReportsKept ==
    \A name \in older : disk[name] = Foreign \/ name = ReportName(Base, LastSuffix)

(* The buffer never overflows, and what it holds belongs to a file that is *)
(* open, also when a graph has been written within a report and its        *)
(* descriptor is used again.                                               *)
BufferInv ==
    /\ fwrite_pos \in -1 .. BufSize - 1
    /\ fwrite_pos = -1 => fwrite_fd = NoFd
    /\ fwrite_buf # <<>> <=> fwrite_pos > 0
    /\ fwrite_buf # <<>> => fwrite_fd \in {report, graph} \ {NoFd}
    /\ report # NoFd => report # graph
    /\ \A fd \in {report, graph} \ {NoFd} : disk[fileOf[fd]] \in Seq(Chunks)

(* The name of the open report is the one that getFileName chose.          *)
NamingInv ==
    /\ chosen => suffix # 0
    /\ suffix # 0 => nextReport \in DOMAIN Bases
    /\ suffix = 0 => older = {}
    /\ report # NoFd => chosen /\ fileOf[report] = ReportName(Base, suffix)
    /\ graph # NoFd => fileOf[graph] \in GraphNames
    /\ chosen /\ ReportName(Base, suffix) \in older => suffix = LastSuffix

(* The inductive invariant of both. *)
IInv == TypeOK /\ BufferInv /\ NamingInv /\ OlderReportsKept

(* What a file will contain when the buffer has been flushed. *)
Contents == [name \in Names |->
    IF fwrite_buf # <<>> /\ name = fileOf[fwrite_fd]
    THEN disk[name] \o fwrite_buf
    ELSE disk[name]]

F == INSTANCE AppendFiles WITH contents <- Contents, opened <- Opened

(* The buffer, the direct writes, the change from the report to a graph    *)
(* and back, and the use of a descriptor for one file after another cannot *)
(* be told from files to which every write is appended at once.  What was  *)
(* to be written is recorded when my_fwrite is called, so that each call   *)
(* must add its chunk to its file: nothing is lost, doubled, out of order  *)
(* or in the wrong file.                                                   *)
AppendsOnly == F!Spec
=============================================================================
