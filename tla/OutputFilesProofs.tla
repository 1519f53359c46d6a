--------------------------- MODULE OutputFilesProofs ---------------------------
(***************************************************************************)
(* Proofs about OutputFiles: the buffer never overflows, reports of        *)
(* earlier runs are kept, and the buffered output implements AppendFiles.  *)
(***************************************************************************)
EXTENDS OutputFiles, SequenceTheorems, TLAPS

Content == Seq(Chunks) \cup {Foreign, Absent}
OpenFDs == {report, graph} \ {NoFd}

(* The limits, without the names of the module's assumptions. *)
LEMMA Limits ==
    /\ LastSuffix \in Nat \ {0}
    /\ BufSize \in Nat /\ Through \in Nat /\ Through < BufSize
    /\ Lengths \subseteq Nat \ {0}
    /\ MaxWrites \in Nat
    /\ MaxGraphs \in Nat
    /\ FDs \subseteq Nat
    /\ NoFd = -1
    /\ NoFd \notin FDs
<1>1. NoFd \notin FDs
  BY OutputLimits
<1> QED
  BY <1>1, OutputLimits

(* Appending to the second of two sequences or to both. *)
LEMMA ConcatAppend ==
    ASSUME NEW S, NEW s \in Seq(S), NEW t \in Seq(S), NEW e \in S
    PROVE  s \o Append(t, e) = Append(s \o t, e)
OBVIOUS

(* An open descriptor stands for a file that the tool has truncated; the   *)
(* names of two of them differ.                                            *)
LEMMA OpenFiles ==
    ASSUME IInv
    PROVE  /\ OpenFDs \subseteq FDs
           /\ \A fd \in OpenFDs : fileOf[fd] \in Names /\ disk[fileOf[fd]] \in Seq(Chunks)
           /\ report # NoFd => /\ fileOf[report] \in ReportNames
                               /\ fileOf[report] = ReportName(Base, suffix)
           /\ graph # NoFd => fileOf[graph] \in GraphNames
           /\ \A fd, other \in OpenFDs : fileOf[fd] = fileOf[other] => fd = other
           /\ Opened = {fileOf[fd] : fd \in OpenFDs}
<1>1. OpenFDs \subseteq FDs
  BY DEF IInv, TypeOK, OpenFDs
<1>2. report # NoFd => /\ fileOf[report] \in ReportNames
                       /\ fileOf[report] = ReportName(Base, suffix)
  <2> SUFFICES ASSUME report # NoFd
               PROVE  /\ fileOf[report] \in ReportNames
                      /\ fileOf[report] = ReportName(Base, suffix)
    OBVIOUS
  <2>1. fileOf[report] = ReportName(Base, suffix) /\ suffix # 0 /\ nextReport \in DOMAIN Bases
    BY DEF IInv, NamingInv
  <2>2. suffix \in 1 .. LastSuffix
    BY <2>1, Limits DEF IInv, TypeOK
  <2> QED
    BY <2>1, <2>2 DEF ReportNames, Base
<1>3. graph # NoFd => fileOf[graph] \in GraphNames
  BY DEF IInv, NamingInv
<1>4. \A fd \in OpenFDs : fileOf[fd] \in Names /\ disk[fileOf[fd]] \in Seq(Chunks)
  BY <1>2, <1>3 DEF IInv, BufferInv, OpenFDs, Names
<1>5. \A fd, other \in OpenFDs : fileOf[fd] = fileOf[other] => fd = other
  BY <1>2, <1>3, NamesAssumption DEF OpenFDs
<1> QED
  BY <1>1, <1>2, <1>3, <1>4, <1>5 DEF Opened, OpenFDs

(* After a flush every file has what it is going to have; only the file    *)
(* that the buffer belongs to changes.                                     *)
LEMMA FlushedIsContents ==
    ASSUME IInv
    PROVE  /\ Flushed = Contents
           /\ Flushed \in [Names -> Content]
           /\ \A fd \in OpenFDs : Flushed[fileOf[fd]] \in Seq(Chunks)
           /\ \A name \in Names : name \notin Opened => Flushed[name] = disk[name]
<1> USE DEF Content
<1>0. disk \in [Names -> Content] /\ fwrite_buf \in Seq(Chunks)
  BY DEF IInv, TypeOK
<1>1. CASE fwrite_buf = <<>>
  <2>1. ~(fwrite_pos > 0)
    BY <1>1 DEF IInv, BufferInv
  <2>2. Flushed = disk
    BY <2>1 DEF Flushed
  <2>3. Contents = disk
    BY <1>0, <1>1 DEF Contents
  <2> QED
    BY <1>0, <2>2, <2>3, OpenFiles
<1>2. CASE fwrite_buf # <<>>
  <2>1. fwrite_pos > 0 /\ fwrite_fd \in OpenFDs /\ fwrite_fd # NoFd
    BY <1>2 DEF IInv, BufferInv, OpenFDs
  <2> DEFINE n == fileOf[fwrite_fd]
  <2>2. n \in Names /\ disk[n] \in Seq(Chunks) /\ n \in Opened
    BY <2>1, OpenFiles
  <2>3. Flushed = [disk EXCEPT ![n] = disk[n] \o fwrite_buf]
    BY <2>1 DEF Flushed
  <2>4. disk[n] \o fwrite_buf \in Seq(Chunks)
    BY <1>0, <2>2, ConcatProperties
  <2>5. Flushed = Contents
    BY <1>0, <1>2, <2>3 DEF Contents
  <2>6. Flushed \in [Names -> Content]
    BY <1>0, <2>2, <2>3, <2>4
  <2>7. \A fd \in OpenFDs : Flushed[fileOf[fd]] \in Seq(Chunks)
    BY <1>0, <2>2, <2>3, <2>4, OpenFiles
  <2>8. \A name \in Names : name \notin Opened => Flushed[name] = disk[name]
    BY <1>0, <2>2, <2>3
  <2> QED
    BY <2>5, <2>6, <2>7, <2>8
<1> QED
  BY <1>1, <1>2

-----------------------------------------------------------------------------
(* One call of my_fwrite: the buffer stays below its size and belongs to   *)
(* the file written to; the files that are not open keep what they have;   *)
(* and the chunk is at the end of what its file is going to have.          *)
LEMMA WriteStep ==
    ASSUME IInv,
           NEW fd \in OpenFDs, NEW chunk \in Chunks,
           my_fwrite(fd, chunk),
           UNCHANGED fileOf
    PROVE  /\ fwrite_fd' = fd
           /\ fwrite_pos' \in 0 .. BufSize - 1
           /\ fwrite_buf' \in Seq(Chunks)
           /\ fwrite_buf' # <<>> <=> fwrite_pos' > 0
           /\ disk' \in [Names -> Content]
           /\ \A other \in OpenFDs : disk'[fileOf[other]] \in Seq(Chunks)
           /\ \A name \in Names : name \notin Opened => disk'[name] = disk[name]
           /\ Contents' = [Contents EXCEPT ![fileOf[fd]] = Append(@, chunk)]
<1> DEFINE n == fileOf[fd]
<1>1. chunk.len \in Nat /\ chunk.len > 0
  <2>1. chunk.len \in Lengths
    BY DEF Chunks
  <2>2. \A len \in Lengths : len \in Nat /\ len > 0
    BY Limits
  <2> QED
    BY <2>1, <2>2, Zenon
<1>2. /\ fd \in FDs /\ fd # NoFd /\ n \in Names /\ n \in Opened
      /\ disk \in [Names -> Content]
      /\ fwrite_buf \in Seq(Chunks)
  BY OpenFiles DEF IInv, TypeOK, OpenFDs, Content
<1>3. /\ Flushed = Contents
      /\ Flushed \in [Names -> Content]
      /\ \A other \in OpenFDs : Flushed[fileOf[other]] \in Seq(Chunks)
      /\ \A name \in Names : name \notin Opened => Flushed[name] = disk[name]
  BY FlushedIsContents
<1>4. Flushed[n] \in Seq(Chunks) /\ Append(Flushed[n], chunk) \in Seq(Chunks)
  BY <1>3
<1>5. CASE chunk.len > Through
  <2>1. /\ fwrite_fd' = fd
        /\ disk' = [Flushed EXCEPT ![n] = Append(Flushed[n], chunk)]
        /\ fwrite_buf' = <<>>
        /\ fwrite_pos' = 0
    BY <1>2, <1>5 DEF my_fwrite, WritesThrough
  <2>2. disk' \in [Names -> Content]
    BY <1>2, <1>3, <1>4, <2>1 DEF Content
  <2>3. Contents' = disk'
    BY <2>1, <2>2 DEF Contents
  <2>4. \A other \in OpenFDs : disk'[fileOf[other]] \in Seq(Chunks)
    BY <1>2, <1>3, <1>4, <2>1, OpenFiles
  <2>5. \A name \in Names : name \notin Opened => disk'[name] = disk[name]
    BY <1>2, <1>3, <2>1
  <2>6. <<>> \in Seq(Chunks) /\ 0 \in 0 .. BufSize - 1
    BY Limits
  <2> QED
    BY <1>3, <2>1, <2>2, <2>3, <2>4, <2>5, <2>6
<1>6. CASE chunk.len <= Through /\ (fwrite_fd # fd \/ ~Fits(fwrite_pos, chunk.len))
  <2>1. /\ fwrite_fd' = fd
        /\ disk' = Flushed
        /\ fwrite_buf' = <<chunk>>
        /\ fwrite_pos' = chunk.len
    BY <1>1, <1>6, Limits DEF my_fwrite, StartsBuffer
  <2>2. <<chunk>> \in Seq(Chunks) /\ <<chunk>> # <<>>
    OBVIOUS
  <2>3. chunk.len \in 0 .. BufSize - 1
    BY <1>1, <1>6, Limits
  <2>4. Append(Flushed[n], chunk) = Flushed[n] \o <<chunk>>
    BY <1>4
  <2>5. Contents' = [Flushed EXCEPT ![n] = Flushed[n] \o <<chunk>>]
    BY <1>2, <1>3, <2>1, <2>2 DEF Contents
  <2> QED
    BY <1>1, <1>3, <2>1, <2>2, <2>3, <2>4, <2>5
<1>7. CASE chunk.len <= Through /\ fwrite_fd = fd /\ Fits(fwrite_pos, chunk.len)
  <2>1. /\ fwrite_fd' = fd
        /\ disk' = disk
        /\ fwrite_buf' = Append(fwrite_buf, chunk)
        /\ fwrite_pos' = fwrite_pos + chunk.len
    BY <1>1, <1>7, Limits DEF my_fwrite
  <2>2. fwrite_pos \in 0 .. BufSize - 1
    BY <1>2, <1>7, Limits DEF IInv, BufferInv
  <2>3. fwrite_pos + chunk.len \in 0 .. BufSize - 1 /\ fwrite_pos + chunk.len > 0
    BY <1>1, <1>7, <2>2, Limits DEF Fits
  <2>4. fwrite_buf' \in Seq(Chunks) /\ fwrite_buf' # <<>>
    BY <1>2, <2>1
  <2>5. disk[n] \in Seq(Chunks)
    BY OpenFiles
  <2>6. disk[n] \o Append(fwrite_buf, chunk) = Append(disk[n] \o fwrite_buf, chunk)
    <3> DEFINE s == disk[n]
    <3>1. s \in Seq(Chunks) /\ fwrite_buf \in Seq(Chunks) /\ chunk \in Chunks
      BY <1>2, <2>5
    <3> HIDE DEF s
    <3>2. s \o Append(fwrite_buf, chunk) = Append(s \o fwrite_buf, chunk)
      BY <3>1, ConcatAppend
    <3> QED
      BY <3>2 DEF s
  <2>7. Contents[n] = disk[n] \o fwrite_buf
    <3>1. CASE fwrite_buf = <<>>
      <4>1. disk[n] \o <<>> = disk[n]
        BY <2>5, ConcatEmptySeq
      <4> QED
        BY <1>2, <3>1, <4>1 DEF Contents
    <3>2. CASE fwrite_buf # <<>>
      BY <1>2, <1>7, <3>2 DEF Contents
    <3> QED
      BY <3>1, <3>2
  <2>8. Contents' = [Contents EXCEPT ![n] = Append(Contents[n], chunk)]
    <3>1. Contents' = [name \in Names |-> IF name = n THEN disk[n] \o Append(fwrite_buf, chunk)
                                                      ELSE disk[name]]
      BY <1>2, <2>1, <2>4 DEF Contents
    <3>2. \A name \in Names : name # n => Contents[name] = disk[name]
      BY <1>7 DEF Contents
    <3>3. Contents = [name \in Names |-> Contents[name]]
      BY DEF Contents
    <3> QED
      BY <2>6, <2>7, <3>1, <3>2, <3>3
  <2> QED
    BY <1>2, <2>1, <2>3, <2>4, <2>8, OpenFiles
<1> QED
  <2>1. chunk.len > Through \/ chunk.len <= Through
    BY <1>1, Limits
  <2> QED
    BY <1>5, <1>6, <1>7, <2>1

-----------------------------------------------------------------------------
(* The invariant holds when the tool starts. *)
LEMMA InitIInv == Init => IInv
<1> SUFFICES ASSUME Init PROVE IInv
  OBVIOUS
<1>1. <<>> \in Seq(Chunks)
  OBVIOUS
<1>2. TypeOK
  <2>1. disk \in [Names -> Seq(Chunks) \cup {Foreign, Absent}]
    BY DEF Init
  <2>2. nextReport \in 0 .. Len(Bases) + 1
    BY NamesAssumption DEF Init
  <2>3. fileOf \in [FDs -> Names \cup {Absent}]
    BY DEF Init
  <2>4. suffix \in 0 .. LastSuffix /\ writes \in 0 .. MaxWrites /\ graphs \in 0 .. MaxGraphs
    BY Limits DEF Init
  <2>5. asked \in [Names -> Seq(Chunks)]
    BY <1>1 DEF Init
  <2> QED
    BY <1>1, <2>1, <2>2, <2>3, <2>4, <2>5 DEF Init, TypeOK
<1>3. BufferInv
  BY Limits DEF Init, BufferInv
<1>4. NamingInv /\ OlderReportsKept
  BY DEF Init, NamingInv, OlderReportsKept
<1> QED
  BY <1>2, <1>3, <1>4 DEF IInv

(* Older reports survive a step that changes only open files and keeps the *)
(* names.                                                                  *)
LEMMA OlderKept ==
    ASSUME IInv, UNCHANGED <<older, nextReport>>,
           \A name \in Names : name \notin Opened => disk'[name] = disk[name]
    PROVE  OlderReportsKept'
<1> SUFFICES ASSUME NEW name \in older
             PROVE  disk'[name] = Foreign \/ name = ReportName(Base, LastSuffix)
  BY DEF OlderReportsKept, Base
<1>1. name \in ReportNames /\ name \in Names
  BY DEF IInv, TypeOK, Names
<1>2. CASE name \notin Opened
  BY <1>1, <1>2 DEF IInv, OlderReportsKept
<1>3. CASE name \in Opened
  <2>1. name # fileOf[graph] \/ graph = NoFd
    BY <1>1, OpenFiles, NamesAssumption
  <2>2. name = fileOf[report] /\ report # NoFd
    BY <1>3, <2>1 DEF Opened
  <2> QED
    BY <2>2, OpenFiles DEF IInv, NamingInv
<1> QED
  BY <1>2, <1>3

(* A write to an open file. *)
LEMMA WriteInv ==
    ASSUME IInv, NEW len \in Lengths, Write(len)
    PROVE  IInv' /\ \E fd \in OpenFDs, chunk \in Chunks :
                        /\ Contents' = [Contents EXCEPT ![fileOf[fd]] = Append(@, chunk)]
                        /\ asked' = [asked EXCEPT ![fileOf[fd]] = Append(@, chunk)]
<1> DEFINE chunk == [id |-> writes + 1, len |-> len]
<1>1. Current \in OpenFDs
  BY DEF Write, Current, OpenFDs
<1>2. chunk \in Chunks /\ writes' \in 0 .. MaxWrites
  BY Limits DEF Write, IInv, TypeOK, Chunks
<1>3. /\ my_fwrite(Current, chunk) /\ UNCHANGED <<fileOf, report, graph, nameVars, graphs>>
      /\ asked' = [asked EXCEPT ![fileOf[Current]] = Append(@, chunk)]
  BY DEF Write
<1> HIDE DEF chunk
<1>4. /\ fwrite_fd' = Current
      /\ fwrite_pos' \in 0 .. BufSize - 1
      /\ fwrite_buf' \in Seq(Chunks)
      /\ fwrite_buf' # <<>> <=> fwrite_pos' > 0
      /\ disk' \in [Names -> Content]
      /\ \A other \in OpenFDs : disk'[fileOf[other]] \in Seq(Chunks)
      /\ \A name \in Names : name \notin Opened => disk'[name] = disk[name]
      /\ Contents' = [Contents EXCEPT ![fileOf[Current]] = Append(@, chunk)]
  BY <1>1, <1>2, <1>3, WriteStep
<1>5. TypeOK'
  <2>1. asked' \in [Names -> Seq(Chunks)]
    BY <1>1, <1>2, <1>3, OpenFiles DEF IInv, TypeOK
  <2> QED
    BY <1>1, <1>2, <1>3, <1>4, <2>1, OpenFiles DEF IInv, TypeOK, nameVars, Content
<1>6. BufferInv'
  BY <1>1, <1>3, <1>4, Limits DEF IInv, BufferInv, OpenFDs
<1>7. NamingInv'
  BY <1>3 DEF IInv, NamingInv, nameVars, Base
<1>8. OlderReportsKept'
  BY <1>3, <1>4, OlderKept DEF nameVars
<1> QED
  BY <1>1, <1>2, <1>3, <1>4, <1>5, <1>6, <1>7, <1>8 DEF IInv

(* A file that is opened is empty and is none of the open ones. *)
LEMMA OpensStep ==
    ASSUME IInv, NEW fd \in FDs, NEW name \in Names, Opens(fd, name), UNCHANGED bufferVars
    PROVE  /\ fileOf' = [fileOf EXCEPT ![fd] = name]
           /\ fileOf'[fd] = name
           /\ fileOf' \in [FDs -> Names \cup {Absent}]
           /\ fd \notin OpenFDs
           /\ \A other \in OpenFDs : other # fd /\ fileOf'[other] = fileOf[other]
           /\ disk' \in [Names -> Content]
           /\ disk'[name] = <<>>
           /\ \A other \in Names \ {name} : disk'[other] = disk[other]
           /\ \A other \in OpenFDs : disk'[fileOf[other]] \in Seq(Chunks)
           /\ name \notin Opened
           /\ Contents' = [Contents EXCEPT ![name] = <<>>]
           /\ UNCHANGED asked
<1>1. /\ disk \in [Names -> Content] /\ fwrite_buf \in Seq(Chunks)
      /\ fileOf \in [FDs -> Names \cup {Absent}]
      /\ <<>> \in Content
  BY DEF IInv, TypeOK, Content
<1>2. /\ fileOf' = [fileOf EXCEPT ![fd] = name]
      /\ disk' = [disk EXCEPT ![name] = <<>>]
      /\ name \notin Opened
      /\ fd \notin OpenFDs
      /\ fwrite_buf' = fwrite_buf /\ fwrite_fd' = fwrite_fd
      /\ UNCHANGED asked
  BY DEF Opens, OpenFDs, bufferVars
<1>3. \A other \in OpenFDs : other \in FDs /\ other # fd /\ fileOf'[other] = fileOf[other]
  BY <1>1, <1>2, OpenFiles
<1>4. \A other \in OpenFDs : fileOf[other] \in Names \ {name}
  BY <1>2, OpenFiles
<1>5. Contents' = [Contents EXCEPT ![name] = <<>>]
  <2>1. CASE fwrite_buf = <<>>
    BY <1>1, <1>2, <2>1 DEF Contents
  <2>2. CASE fwrite_buf # <<>>
    <3>1. fwrite_fd \in OpenFDs
      BY <2>2 DEF IInv, BufferInv, OpenFDs
    <3>2. fileOf'[fwrite_fd] = fileOf[fwrite_fd] /\ fileOf[fwrite_fd] # name
      BY <1>3, <1>4, <3>1
    <3> QED
      BY <1>1, <1>2, <2>2, <3>2 DEF Contents
  <2> QED
    BY <2>1, <2>2
<1> QED
  BY <1>1, <1>2, <1>3, <1>4, <1>5, OpenFiles

(* A flush changes no file's future content. *)
LEMMA FlushStep ==
    ASSUME IInv, fwrite_flush, UNCHANGED fileOf
    PROVE  /\ disk' \in [Names -> Content]
           /\ fwrite_buf' = <<>> /\ fwrite_buf' \in Seq(Chunks)
           /\ fwrite_pos' = 0 /\ fwrite_pos' \in 0 .. BufSize - 1
           /\ fwrite_fd' = fwrite_fd
           /\ \A other \in OpenFDs : disk'[fileOf[other]] \in Seq(Chunks)
           /\ \A name \in Names : name \notin Opened => disk'[name] = disk[name]
           /\ Contents' = Contents
<1>1. /\ disk' = Flushed /\ fwrite_buf' = <<>> /\ fwrite_pos' = 0 /\ fwrite_fd' = fwrite_fd
  BY DEF fwrite_flush
<1>2. <<>> \in Seq(Chunks) /\ 0 \in 0 .. BufSize - 1
  BY Limits
<1>3. Contents' = [name \in Names |-> disk'[name]]
  BY <1>1 DEF Contents
<1>4. disk' = Contents /\ disk' \in [Names -> Content]
  BY <1>1, FlushedIsContents
<1>5. Contents' = Contents
  BY <1>3, <1>4
<1> QED
  BY <1>1, <1>2, <1>4, <1>5, FlushedIsContents

LEMMA OpenGraphInv ==
    ASSUME IInv, NEW fd \in FDs, NEW name \in GraphNames, OpenGraph(fd, name)
    PROVE  IInv' /\ F!Open(name)
<1>1. /\ graph = NoFd /\ graph' = fd /\ report' = report
      /\ graphs' \in 0 .. MaxGraphs
      /\ Opens(fd, name)
      /\ UNCHANGED <<bufferVars, nameVars, writes>>
      /\ name \in Names
  BY Limits DEF OpenGraph, IInv, TypeOK, Names
<1>2. /\ fileOf' = [fileOf EXCEPT ![fd] = name]
      /\ fileOf'[fd] = name
      /\ fileOf' \in [FDs -> Names \cup {Absent}]
      /\ fd \notin OpenFDs
      /\ \A other \in OpenFDs : other # fd /\ fileOf'[other] = fileOf[other]
      /\ disk' \in [Names -> Content]
      /\ disk'[name] = <<>>
      /\ \A other \in Names \ {name} : disk'[other] = disk[other]
      /\ \A other \in OpenFDs : disk'[fileOf[other]] \in Seq(Chunks)
      /\ name \notin Opened
      /\ Contents' = [Contents EXCEPT ![name] = <<>>]
      /\ UNCHANGED asked
  BY <1>1, OpensStep
<1>3. OpenFDs' = OpenFDs \cup {fd} /\ fd # NoFd
  BY <1>1, Limits DEF OpenFDs
<1>4. TypeOK'
  BY <1>1, <1>2 DEF IInv, TypeOK, nameVars, bufferVars, Content
<1>5. BufferInv'
  <2>1. \A other \in OpenFDs' : disk'[fileOf'[other]] \in Seq(Chunks)
    <3>1. <<>> \in Seq(Chunks)
      OBVIOUS
    <3>2. SUFFICES ASSUME NEW other \in OpenFDs \cup {fd}
                   PROVE  disk'[fileOf'[other]] \in Seq(Chunks)
      BY <1>3
    <3> QED
      BY <1>2, <3>1
  <2>2. fwrite_buf # <<>> => fwrite_fd \in OpenFDs'
    BY <1>3 DEF IInv, BufferInv, OpenFDs
  <2>3. report # NoFd => report # fd
    BY <1>2 DEF OpenFDs
  <2> QED
    BY <1>1, <2>1, <2>2, <2>3 DEF IInv, BufferInv, OpenFDs, bufferVars
<1>6. NamingInv'
  <2>1. report # NoFd => fileOf'[report] = fileOf[report]
    BY <1>2 DEF OpenFDs
  <2> QED
    BY <1>1, <1>2, <2>1 DEF IInv, NamingInv, nameVars, Base
<1>7. OlderReportsKept'
  <2>1. name \notin older
    BY NamesAssumption DEF IInv, TypeOK
  <2>2. \A other \in older : disk'[other] = disk[other]
    BY <1>2, <2>1 DEF IInv, TypeOK, Names
  <2> QED
    BY <1>1, <2>2 DEF IInv, OlderReportsKept, nameVars, Base
<1>8. Opened' = Opened \cup {name}
  <2>1. Opened' = {fileOf'[other] : other \in OpenFDs \cup {fd}}
    BY <1>3 DEF Opened, OpenFDs
  <2>2. Opened = {fileOf[other] : other \in OpenFDs}
    BY OpenFiles
  <2> QED
    BY <1>2, <2>1, <2>2
<1> QED
  BY <1>2, <1>4, <1>5, <1>6, <1>7, <1>8 DEF IInv, F!Open

LEMMA OpenReportInv ==
    ASSUME IInv, NEW fd \in FDs, OpenReport(fd)
    PROVE  IInv' /\ ReportName(Base, suffix) \in Names /\ F!Open(ReportName(Base, suffix))
<1> DEFINE name == ReportName(Base, suffix)
<1>1. /\ report = NoFd /\ report' = fd /\ graph' = graph /\ chosen
      /\ nextReport \in DOMAIN Bases
      /\ Opens(fd, name)
      /\ UNCHANGED <<bufferVars, nameVars, bounds>>
  BY DEF OpenReport, Waiting
<1>2. suffix \in 1 .. LastSuffix
  BY <1>1, Limits DEF IInv, TypeOK, NamingInv
<1>3. name \in ReportNames /\ name \in Names
  BY <1>1, <1>2 DEF ReportNames, Names, Base
<1> HIDE DEF name
<1>4. /\ fileOf' = [fileOf EXCEPT ![fd] = name]
      /\ fileOf'[fd] = name
      /\ fileOf' \in [FDs -> Names \cup {Absent}]
      /\ fd \notin OpenFDs
      /\ \A other \in OpenFDs : other # fd /\ fileOf'[other] = fileOf[other]
      /\ disk' \in [Names -> Content]
      /\ disk'[name] = <<>>
      /\ \A other \in Names \ {name} : disk'[other] = disk[other]
      /\ \A other \in OpenFDs : disk'[fileOf[other]] \in Seq(Chunks)
      /\ name \notin Opened
      /\ Contents' = [Contents EXCEPT ![name] = <<>>]
      /\ UNCHANGED asked
  BY <1>1, <1>3, OpensStep
<1>5. OpenFDs' = OpenFDs \cup {fd} /\ fd # NoFd
  BY <1>1, Limits DEF OpenFDs
<1>6. TypeOK'
  BY <1>1, <1>4 DEF IInv, TypeOK, nameVars, bufferVars, bounds, Content
<1>7. BufferInv'
  <2>1. \A other \in OpenFDs' : disk'[fileOf'[other]] \in Seq(Chunks)
    <3>1. <<>> \in Seq(Chunks)
      OBVIOUS
    <3>2. SUFFICES ASSUME NEW other \in OpenFDs \cup {fd}
                   PROVE  disk'[fileOf'[other]] \in Seq(Chunks)
      BY <1>5
    <3> QED
      BY <1>4, <3>1
  <2>2. fwrite_buf # <<>> => fwrite_fd \in OpenFDs'
    BY <1>5 DEF IInv, BufferInv, OpenFDs
  <2>3. fd # graph
    BY <1>4, <1>5 DEF OpenFDs
  <2> QED
    BY <1>1, <2>1, <2>2, <2>3 DEF IInv, BufferInv, OpenFDs, bufferVars
<1>8. NamingInv'
  <2>1. graph # NoFd => fileOf'[graph] = fileOf[graph]
    BY <1>4 DEF OpenFDs
  <2>2. ReportName(Base, suffix)' = name
    BY <1>1 DEF name, ReportName, Base, nameVars
  <2> QED
    BY <1>1, <1>4, <2>1, <2>2 DEF IInv, NamingInv, nameVars, name
<1>9. OlderReportsKept'
  <2> SUFFICES ASSUME NEW other \in older
               PROVE  disk'[other] = Foreign \/ other = ReportName(Base, LastSuffix)
    BY <1>1 DEF OlderReportsKept, nameVars, Base
  <2>1. CASE other = name
    BY <1>1, <2>1 DEF IInv, NamingInv, name
  <2>2. CASE other # name
    BY <1>4, <2>2 DEF IInv, TypeOK, OlderReportsKept, Names
  <2> QED
    BY <2>1, <2>2
<1>10. Opened' = Opened \cup {name}
  <2>1. Opened' = {fileOf'[other] : other \in OpenFDs \cup {fd}}
    BY <1>5 DEF Opened, OpenFDs
  <2>2. Opened = {fileOf[other] : other \in OpenFDs}
    BY OpenFiles
  <2> QED
    BY <1>4, <2>1, <2>2
<1> QED
  BY <1>3, <1>4, <1>6, <1>7, <1>8, <1>9, <1>10 DEF IInv, F!Open, name

LEMMA CloseGraphInv ==
    ASSUME IInv, CloseGraph
    PROVE  IInv' /\ fileOf[graph] \in Names /\ F!Close(fileOf[graph])
<1>1. /\ graph # NoFd /\ graph \in OpenFDs /\ graph' = NoFd /\ report' = report
      /\ fwrite_flush
      /\ asked' = [asked EXCEPT ![fileOf[graph]] = <<>>]
      /\ asked' \in [Names -> Seq(Chunks)]
      /\ UNCHANGED <<fileOf, nameVars, bounds>>
  <2>1. <<>> \in Seq(Chunks)
    OBVIOUS
  <2> QED
    BY <2>1 DEF CloseGraph, FlushedBeforeClose, OpenFDs, IInv, TypeOK
<1>2. /\ disk' \in [Names -> Content]
      /\ fwrite_buf' = <<>> /\ fwrite_buf' \in Seq(Chunks)
      /\ fwrite_pos' = 0 /\ fwrite_pos' \in 0 .. BufSize - 1
      /\ fwrite_fd' = fwrite_fd
      /\ \A other \in OpenFDs : disk'[fileOf[other]] \in Seq(Chunks)
      /\ \A name \in Names : name \notin Opened => disk'[name] = disk[name]
      /\ Contents' = Contents
  BY <1>1, FlushStep
<1>3. TypeOK'
  BY <1>1, <1>2 DEF IInv, TypeOK, nameVars, bounds, Content
<1>4. BufferInv'
  BY <1>1, <1>2, Limits DEF IInv, BufferInv, OpenFDs
<1>5. NamingInv'
  BY <1>1 DEF IInv, NamingInv, nameVars, Base
<1>6. OlderReportsKept'
  BY <1>1, <1>2, OlderKept DEF nameVars
<1>7. Opened' = Opened \ {fileOf[graph]} /\ fileOf[graph] \in Opened
  <2>1. OpenFDs' = OpenFDs \ {graph}
    BY <1>1 DEF OpenFDs, IInv, BufferInv
  <2>2. Opened' = {fileOf[fd] : fd \in OpenFDs \ {graph}}
    BY <1>1, <2>1 DEF Opened, OpenFDs
  <2> QED
    BY <1>1, <2>2, OpenFiles
<1> QED
  BY <1>1, <1>2, <1>3, <1>4, <1>5, <1>6, <1>7, OpenFiles DEF IInv, F!Close

LEMMA CloseReportInv ==
    ASSUME IInv, CloseReport
    PROVE  IInv' /\ fileOf[report] \in Names /\ F!Close(fileOf[report])
<1>1. /\ report # NoFd /\ report \in OpenFDs /\ report' = NoFd /\ graph' = NoFd /\ graph = NoFd
      /\ fwrite_flush
      /\ nextReport' = nextReport + 1
      /\ suffix' = 0 /\ ~chosen' /\ chosen' \in BOOLEAN /\ older' = {}
      /\ asked' = [asked EXCEPT ![fileOf[report]] = <<>>]
      /\ asked' \in [Names -> Seq(Chunks)]
      /\ UNCHANGED <<fileOf, bounds>>
  <2>1. <<>> \in Seq(Chunks)
    OBVIOUS
  <2> QED
    BY <2>1 DEF CloseReport, OpenFDs, IInv, TypeOK
<1>2. /\ disk' \in [Names -> Content]
      /\ fwrite_buf' = <<>> /\ fwrite_buf' \in Seq(Chunks)
      /\ fwrite_pos' = 0 /\ fwrite_pos' \in 0 .. BufSize - 1
      /\ fwrite_fd' = fwrite_fd
      /\ Contents' = Contents
  BY <1>1, FlushStep
<1>3. nextReport' \in 0 .. Len(Bases) + 1 /\ suffix' \in 0 .. LastSuffix
  <2>1. nextReport \in 1 .. Len(Bases)
    BY <1>1, NamesAssumption DEF IInv, NamingInv
  <2> QED
    BY <1>1, <2>1, Limits, NamesAssumption
<1>4. TypeOK'
  BY <1>1, <1>2, <1>3 DEF IInv, TypeOK, bounds, Content
<1>5. BufferInv'
  BY <1>1, <1>2, Limits DEF IInv, BufferInv
<1>6. NamingInv' /\ OlderReportsKept'
  BY <1>1 DEF NamingInv, OlderReportsKept
<1>7. Opened' = Opened \ {fileOf[report]} /\ fileOf[report] \in Opened
  <2>1. OpenFDs = {report} /\ Opened = {fileOf[report]}
    BY <1>1, OpenFiles DEF OpenFDs
  <2>2. Opened' = {}
    BY <1>1 DEF Opened
  <2> QED
    BY <2>1, <2>2
<1> QED
  BY <1>1, <1>2, <1>4, <1>5, <1>6, <1>7, OpenFiles DEF IInv, F!Close

(* Steps that only move towards the next report. *)
LEMMA NamingStepInv ==
    ASSUME IInv,
           Exit \/ StartReport \/ getFileName \/ NoReport \/ UNCHANGED vars
    PROVE  IInv' /\ UNCHANGED F!vars
<1>1. UNCHANGED <<disk, bufferVars, fileOf, report, graph, bounds, asked>>
  BY DEF Exit, StartReport, getFileName, NoReport, vars
<1>2. UNCHANGED F!vars
  BY <1>1 DEF F!vars, Contents, Opened, bufferVars
<1>3. BufferInv'
  BY <1>1 DEF IInv, BufferInv, bufferVars
<1>4. CASE Exit
  <2>1. nextReport = 0 /\ nextReport' = 1 /\ graph = NoFd /\ UNCHANGED <<suffix, chosen, older>>
    BY <1>4 DEF Exit
  <2>2. suffix = 0 /\ ~chosen /\ older = {} /\ report = NoFd
    BY <2>1, NamesAssumption DEF IInv, NamingInv
  <2>3. nextReport' \in 0 .. Len(Bases) + 1
    BY <2>1, NamesAssumption
  <2> QED
    BY <1>1, <1>2, <1>3, <2>1, <2>2, <2>3
    DEF IInv, TypeOK, NamingInv, OlderReportsKept, bufferVars, bounds
<1>5. CASE StartReport
  <2>1. /\ nextReport \in DOMAIN Bases /\ report = NoFd /\ suffix = 0
        /\ suffix' = 1
        /\ older' = {name \in ReportNames : disk[name] = Foreign}
        /\ UNCHANGED <<nextReport, chosen>>
    BY <1>5 DEF StartReport, Waiting
  <2>2. ~chosen /\ suffix' \in 0 .. LastSuffix
    BY <2>1, Limits DEF IInv, NamingInv
  <2>3. TypeOK'
    BY <1>1, <2>1, <2>2 DEF IInv, TypeOK, bufferVars, bounds
  <2>4. NamingInv'
    BY <1>1, <2>1, <2>2 DEF IInv, NamingInv
  <2>5. OlderReportsKept'
    BY <1>1, <2>1 DEF OlderReportsKept
  <2> QED
    BY <1>2, <1>3, <2>3, <2>4, <2>5 DEF IInv
<1>6. CASE getFileName
  <2>1. nextReport \in DOMAIN Bases /\ report = NoFd /\ suffix # 0 /\ ~chosen
        /\ UNCHANGED <<nextReport, older>>
    BY <1>6 DEF getFileName, Waiting
  <2>2. OlderReportsKept'
    BY <1>1, <2>1 DEF IInv, OlderReportsKept, Base
  <2>3. CASE chosen' = TRUE /\ UNCHANGED suffix
    <3>1. suffix = LastSuffix \/ disk[ReportName(Base, suffix)] = Absent
      BY <1>6, <2>1, <2>3 DEF getFileName, StopsLooking
    <3>2. ReportName(Base, suffix) \in older => suffix = LastSuffix
      <4> SUFFICES ASSUME ReportName(Base, suffix) \in older, suffix # LastSuffix
                   PROVE  FALSE
        OBVIOUS
      <4>1. ReportName(Base, suffix) # ReportName(Base, LastSuffix)
        BY DEF ReportName
      <4> QED
        BY <3>1, <4>1, NamesAssumption DEF IInv, OlderReportsKept
    <3>3. TypeOK'
      BY <1>1, <2>1, <2>3 DEF IInv, TypeOK, bufferVars, bounds
    <3>4. NamingInv'
      BY <1>1, <2>1, <2>3, <3>2 DEF IInv, NamingInv, Base
    <3> QED
      BY <1>2, <1>3, <2>2, <3>3, <3>4 DEF IInv
  <2>4. CASE suffix # LastSuffix /\ suffix' = suffix + 1 /\ UNCHANGED chosen
    <3>1. suffix' \in 0 .. LastSuffix /\ suffix' # 0
      BY <2>1, <2>4, Limits DEF IInv, TypeOK
    <3>2. TypeOK'
      BY <1>1, <2>1, <2>4, <3>1 DEF IInv, TypeOK, bufferVars, bounds
    <3>3. NamingInv'
      BY <1>1, <2>1, <2>4, <3>1 DEF IInv, NamingInv
    <3> QED
      BY <1>2, <1>3, <2>2, <3>2, <3>3 DEF IInv
  <2> QED
    BY <1>6, <2>3, <2>4 DEF getFileName, StopsLooking
<1>7. CASE NoReport
  <2>1. /\ nextReport \in DOMAIN Bases /\ report = NoFd
        /\ nextReport' = nextReport + 1
        /\ suffix' = 0 /\ ~chosen' /\ chosen' \in BOOLEAN /\ older' = {}
    BY <1>7 DEF NoReport, Waiting
  <2>2. nextReport' \in 0 .. Len(Bases) + 1 /\ suffix' \in 0 .. LastSuffix
    BY <2>1, NamesAssumption, Limits
  <2> QED
    BY <1>1, <1>2, <1>3, <2>1, <2>2
    DEF IInv, TypeOK, NamingInv, OlderReportsKept, bufferVars, bounds
<1>8. CASE UNCHANGED vars
  BY <1>2, <1>3, <1>8
  DEF IInv, TypeOK, NamingInv, OlderReportsKept, vars, bufferVars, nameVars, bounds, Base
<1> QED
  BY <1>4, <1>5, <1>6, <1>7, <1>8

LEMMA OthersInv ==
    ASSUME IInv, NEW name \in Names, Others(name)
    PROVE  IInv' /\ F!Others(name)
<1>1. /\ name \notin Opened
      /\ disk' = [disk EXCEPT ![name] = IF disk[name] = Absent THEN Foreign ELSE Absent]
      /\ older' = older \ {name}
      /\ UNCHANGED <<bufferVars, fileOf, report, graph, nextReport, suffix, chosen, bounds, asked>>
  BY DEF Others
<1>2. disk \in [Names -> Content] /\ fwrite_buf \in Seq(Chunks)
  BY DEF IInv, TypeOK, Content
<1>3. disk' \in [Names -> Content] /\ \A other \in Names : other # name => disk'[other] = disk[other]
  BY <1>1, <1>2 DEF Content
<1>4. TypeOK'
  BY <1>1, <1>3 DEF IInv, TypeOK, bufferVars, bounds, Content
<1>5. \A fd \in OpenFDs : fileOf[fd] \in Names \ {name}
  BY <1>1, OpenFiles
<1>6. BufferInv'
  <2>1. \A fd \in OpenFDs : disk'[fileOf[fd]] \in Seq(Chunks)
    BY <1>3, <1>5, OpenFiles
  <2> QED
    BY <1>1, <2>1 DEF IInv, BufferInv, bufferVars, OpenFDs
<1>7. NamingInv'
  BY <1>1 DEF IInv, NamingInv, Base
<1>8. OlderReportsKept'
  BY <1>1, <1>3 DEF IInv, TypeOK, OlderReportsKept, Names, Base
<1>9. Contents' = [Contents EXCEPT ![name] = IF Contents[name] = Absent THEN Foreign ELSE Absent]
  <2>1. fwrite_buf # <<>> => fileOf[fwrite_fd] # name
    BY <1>5 DEF IInv, BufferInv, OpenFDs
  <2>2. Contents[name] = disk[name]
    BY <2>1 DEF Contents
  <2> QED
    BY <1>1, <1>2, <2>1, <2>2 DEF Contents, bufferVars
<1>10. Opened' = Opened
  BY <1>1 DEF Opened
<1> QED
  BY <1>1, <1>4, <1>6, <1>7, <1>8, <1>9, <1>10 DEF IInv, F!Others

-----------------------------------------------------------------------------
(* Every step keeps the invariant and is a step of AppendFiles or none. *)
LEMMA StepInv == IInv /\ [Next]_vars => IInv' /\ [F!Next]_F!vars
<1> SUFFICES ASSUME IInv, [Next]_vars PROVE IInv' /\ [F!Next]_F!vars
  OBVIOUS
<1>1. ASSUME NEW len \in Lengths, Write(len) PROVE IInv' /\ F!Next
  <2>1. PICK fd \in OpenFDs, chunk \in Chunks :
             /\ IInv'
             /\ Contents' = [Contents EXCEPT ![fileOf[fd]] = Append(@, chunk)]
             /\ asked' = [asked EXCEPT ![fileOf[fd]] = Append(@, chunk)]
    BY <1>1, WriteInv
  <2>2. Opened' = Opened
    BY <1>1 DEF Write, Opened
  <2>3. fileOf[fd] \in Names /\ fileOf[fd] \in Opened
    BY OpenFiles
  <2>4. F!Write(fileOf[fd], chunk)
    BY <2>1, <2>2, <2>3 DEF F!Write
  <2> QED
    BY <2>1, <2>3, <2>4 DEF F!Next
<1>2. ASSUME NEW fd \in FDs, NEW name \in GraphNames, OpenGraph(fd, name) PROVE IInv' /\ F!Next
  BY <1>2, OpenGraphInv DEF F!Next, Names
<1>3. CASE CloseGraph
  BY <1>3, CloseGraphInv DEF F!Next
<1>4. ASSUME NEW fd \in FDs, OpenReport(fd) PROVE IInv' /\ F!Next
  BY <1>4, OpenReportInv DEF F!Next
<1>5. CASE CloseReport
  BY <1>5, CloseReportInv DEF F!Next
<1>6. ASSUME NEW name \in Names, Others(name) PROVE IInv' /\ F!Next
  BY <1>6, OthersInv DEF F!Next
<1>7. CASE Exit \/ StartReport \/ getFileName \/ NoReport \/ Ended \/ UNCHANGED vars
  BY <1>7, NamingStepInv DEF Ended
<1> QED
  BY <1>1, <1>2, <1>3, <1>4, <1>5, <1>6, <1>7 DEF Next

(* The buffer never overflows and never holds anything of a closed file.   *)
THEOREM BufferIsSafe == Spec => []IInv
<1>1. IInv /\ [Next]_vars => IInv'
  BY StepInv
<1> QED
  BY InitIInv, <1>1, PTL DEF Spec

(* No report of an earlier run is truncated while a name is free. *)
THEOREM OlderReportsStay == Spec => []OlderReportsKept
<1>1. IInv => OlderReportsKept
  BY DEF IInv
<1> QED
  BY BufferIsSafe, <1>1, PTL

(* The buffered files implement files to which is appended at once. *)
THEOREM BufferingImplementsAppending == Spec => AppendsOnly
<1>1. Init => F!Init
  <2> SUFFICES ASSUME Init PROVE F!Init
    OBVIOUS
  <2>1. Contents = disk /\ disk \in [Names -> {Foreign, Absent}]
    BY DEF Init, Contents
  <2>2. Opened = {}
    BY DEF Init, Opened
  <2>3. asked = [name \in Names |-> <<>>]
    BY DEF Init
  <2> QED
    BY <2>1, <2>2, <2>3 DEF F!Init
<1>2. IInv /\ [Next]_vars => [F!Next]_F!vars
  BY StepInv
<1> QED
  BY <1>1, <1>2, BufferIsSafe, PTL DEF Spec, AppendsOnly, F!Spec
==============================================================================
