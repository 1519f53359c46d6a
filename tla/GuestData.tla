------------------------------- MODULE GuestData -------------------------------
(***************************************************************************)
(* The shadow machine together with the data of the guest program it       *)
(* shadows, and with what happens to that data without a statement of the  *)
(* guest: signal frames, new threads, system calls, the client request     *)
(* that writes a shadow value back, and accesses that overlap.             *)
(*                                                                         *)
(* A guest location holds, in its low half, the result of the shadowed     *)
(* operation with serial number id, or other data (id 0), which also       *)
(* stands for data whose origin is not recorded here: the high halves of   *)
(* vectors.  follow says which shadow value the tool finds for the data:   *)
(* that of the operation id (own), none, or, where data came or changed    *)
(* without the tool noticing, whichever was there before (any).            *)
(***************************************************************************)
EXTENDS Superblock

CONSTANTS
    Overlaps,   \* pairs of locations that share bytes
    Events      \* which of AllEvents can happen

AllEvents ==
    {"rdtmp", "halves", "loadconst", "requests", "insert", "signal", "clone",
     "syscall"}

ASSUME EventsAssumption == Events \subseteq AllEvents

VARIABLES
    gTmp,    \* data of the temporaries
    gReg,    \* data of the registers, per thread
    gMem,    \* data of the addresses
    frame    \* the data of the registers in a thread's signal frame, or NoFrame

guest == <<gTmp, gReg, gMem, frame>>
guestVars == <<vars, guest>>

Datum == [id: Nat, follow: {"own", "none", "any"}]
Plain == [id |-> 0, follow |-> "none"]
NoFrame == [r \in {} |-> 0]

(* The data travels on without its shadow value. *)
Lost(d) == [d EXCEPT !.follow = "none"]

(* Data of operation id comes to where now is, and the tool does not       *)
(* notice: it still finds what it found for now.                           *)
Unnoticed(now, id) ==
    [id |-> id,
     follow |-> IF now.follow = "own" /\ now.id # id THEN "any" ELSE now.follow]

(* Data that a call reads or writes: while the analysis is off the shadow  *)
(* value does not go with it.                                              *)
Moved(d) == IF analyze THEN d ELSE Lost(d)

GuestTypeOK ==
    /\ TypeOK
    /\ gTmp \in [Temps -> Datum]
    /\ gReg \in [Threads -> [RegFile -> Datum]]
    /\ gMem \in [Addrs -> Datum]
    /\ frame \in [Threads -> [RegFile -> Nat] \cup {NoFrame}]

GuestInit ==
    /\ Init
    /\ gTmp = [t \in Temps |-> Plain]
    /\ gReg = [th \in Threads |-> [r \in RegFile |-> Plain]]
    /\ gMem = [a \in Addrs |-> Plain]
    /\ frame = [th \in Threads |-> NoFrame]

-----------------------------------------------------------------------------
(* Statements of the guest: the shadow machine's action and its data. *)

gEnterSB(th) ==
    /\ EnterSB(th)
    /\ gTmp' = [t \in Temps |-> Plain]
    /\ UNCHANGED <<gReg, gMem, frame>>

Data(a) == IF a = NoTmp THEN Plain ELSE gTmp[a]

Holds(w, d) ==
    /\ gTmp' = [gTmp EXCEPT ![w] = d]
    /\ UNCHANGED <<gReg, gMem, frame>>

OpData == IF analyze THEN [id |-> fpOps + 1, follow |-> "own"] ELSE Plain

(* An alias stands for the data of its temporary, but two kinds of         *)
(* operation with an alias take or make a high half: V128HIto64, 64HIto32  *)
(* and the 64to32 of a double leave data of another origin, 64HLtoV128 and *)
(* 32HLto64 are aliases of their high half and have the low one beside it. *)
Halves(w) ==
    /\ "halves" \in Events
    /\ \E t \in Temps :
        /\ Copy(w, t)
        /\ \/ Holds(w, Unnoticed(gTmp[t], 0))
           \/ \E lo \in Args :
                Known(lo) /\ Holds(w, Unnoticed(gTmp[t], Data(lo).id))

(* TriOp does to the state what BinOp does. *)
gAssignment(w) ==
    \/ Opaque(w) /\ Holds(w, Plain)
    \/ Halves(w)
    \/ \E t \in Temps :
        \/ Copy(w, t) /\ Holds(w, gTmp[t])
        \/ /\ "rdtmp" \in Events
           /\ RdTmp(w, t)
           /\ Holds(w, IF tmpInstead[t] = NoTmp THEN Lost(gTmp[t]) ELSE gTmp[t])
    \/ \E a \in Addrs :
        \/ Load(w, a) /\ Holds(w, Moved(gMem[a]))
        \/ "loadconst" \in Events /\ LoadConst(w, a) /\ Holds(w, Lost(gMem[a]))
    \/ \E r \in Regs :
        \/ GetAliased(w, r) /\ Holds(w, gReg[tid][r])
        \/ Get(w, r) /\ Holds(w, Moved(gReg[tid][r]))
    \/ \E r \in CircRegs : GetI(w, r) /\ Holds(w, Moved(gReg[tid][r]))
    \/ \E a \in Args :
        \/ UnOp(w, a) /\ Holds(w, OpData)
        \/ Mux0X(w, a) /\ Holds(w, Data(a))
    \/ \E a1, a2 \in Args : BinOp(w, a1, a2) /\ Holds(w, OpData)

(* Writing d to x also writes, unnoticed, to what overlaps x. *)
Overwrite(store, x, d) ==
    [y \in DOMAIN store |->
        IF y = x THEN d
        ELSE IF <<x, y>> \in Overlaps THEN Unnoticed(store[y], 0)
        ELSE store[y]]

RegisterHolds(r, d) ==
    /\ gReg' = [gReg EXCEPT ![tid] = Overwrite(@, r, d)]
    /\ UNCHANGED <<gTmp, gMem, frame>>

MemoryHolds(addr, d) ==
    /\ gMem' = Overwrite(gMem, addr, d)
    /\ UNCHANGED <<gTmp, gReg, frame>>

(* The instruction pointer never holds the result of an operation. *)
gWrite(a) ==
    \/ \E r \in Regs :
        /\ r = IPReg => Data(a) = Plain
        /\ Put(r, a)
        /\ RegisterHolds(r, Moved(Data(a)))
    \/ \E r \in CircRegs : PutI(r, a) /\ RegisterHolds(r, Moved(Data(a)))
    \/ \E addr \in Addrs : Store(addr, a) /\ MemoryHolds(addr, Moved(Data(a)))

-----------------------------------------------------------------------------
(* Client requests. *)

gReset ==
    /\ "requests" \in Events
    /\ resetShadowValues
    /\ gReg' = [th \in Threads |-> [r \in RegFile |-> Lost(gReg[th][r])]]
    /\ gMem' = [a \in Addrs |-> Lost(gMem[a])]
    /\ UNCHANGED <<gTmp, frame>>

gSwitch ==
    /\ "requests" \in Events
    /\ beginAnalyzing \/ endAnalyzing
    /\ UNCHANGED guest

(* insertShadow replaces the original value by the shadow value; it looks  *)
(* for a cell and not at its active flag.  Of an inactive cell no shadow   *)
(* value is found afterwards.                                              *)
insertShadow(addr) ==
    /\ "insert" \in Events
    /\ Request
    /\ UNCHANGED <<analyze, shadows>>
    /\ IF globalMemory[addr].sv = NoShadow
       THEN UNCHANGED guest
       ELSE MemoryHolds(addr,
                [id |-> globalMemory[addr].sv.id,
                 follow |-> IF globalMemory[addr].active THEN "own" ELSE "none"])

-----------------------------------------------------------------------------
(* What Valgrind's core and the kernel do to the guest between two         *)
(* superblocks.  The tool registers for none of these events.              *)

Event(e) ==
    /\ e \in Events
    /\ inSB' = FALSE
    /\ UNCHANGED <<analyze, sbExecuted, tid, defined, tmpInstead, tmpInReg,
                   shadows, fpOps>>

(* A signal is delivered to the running thread: its registers are saved,   *)
(* and the superblocks that follow are those of the handler.               *)
DeliverSignal ==
    /\ Event("signal")
    /\ frame[tid] = NoFrame
    /\ frame' = [frame EXCEPT ![tid] = [r \in RegFile |-> gReg[tid][r].id]]
    /\ UNCHANGED <<gTmp, gReg, gMem>>

(* The handler returns: the guest state of the frame is restored. *)
SignalReturn ==
    /\ Event("signal")
    /\ frame[tid] # NoFrame
    /\ gReg' = [gReg EXCEPT ![tid] =
            [r \in RegFile |-> Unnoticed(gReg[tid][r], frame[tid][r])]]
    /\ frame' = [frame EXCEPT ![tid] = NoFrame]
    /\ UNCHANGED <<gTmp, gMem>>

(* A thread starts with a copy of its parent's registers, under a thread   *)
(* number that may have been used before.                                  *)
CloneThread(th) ==
    /\ Event("clone")
    /\ th # tid
    /\ gReg' = [gReg EXCEPT ![th] = 
            [r \in RegFile |-> Unnoticed(gReg[th][r], gReg[tid][r].id)]]
    /\ frame' = [frame EXCEPT ![th] = NoFrame]
    /\ UNCHANGED <<gTmp, gMem>>

(* A system call such as read writes to guest memory. *)
SystemCall(addr) ==
    /\ Event("syscall")
    /\ MemoryHolds(addr, Unnoticed(gMem[addr], 0))

-----------------------------------------------------------------------------
GuestNext ==
    \/ \E th \in Threads : gEnterSB(th)
    \/ \E w \in Temps : gAssignment(w)
    \/ \E a \in Args : gWrite(a)
    \/ gReset
    \/ gSwitch
    \/ \E addr \in Addrs : insertShadow(addr)
    \/ DeliverSignal
    \/ SignalReturn
    \/ \E th \in Threads : CloneThread(th)
    \/ \E addr \in Addrs : SystemCall(addr)

GuestSpec == GuestInit /\ [][GuestNext]_guestVars

-----------------------------------------------------------------------------
(* The locations a later statement can read, with the shadow value the     *)
(* tool has for each and the data the guest has.                           *)
ForAllLocations(Rel(_, _)) ==
    /\ inSB => \A t \in defined : Rel(ShadowOf(t), gTmp[t])
    /\ \A th \in Threads, r \in RegFile \ {IPReg} :
            Rel(Contents(threadRegisters[th][r]), gReg[th][r])
    /\ \A a \in Addrs : Rel(Contents(globalMemory[a]), gMem[a])

(* The shadow value found is that of the operation that computed the data, *)
(* or there is none, as the data's history says: through reused cells and  *)
(* thread numbers, aliases, inactive cells that keep a value, and every    *)
(* sequence of requests and events.  Of data that came unnoticed to where  *)
(* a shadow value is, nothing is said.                                     *)
Follows(sv, d) ==
    d.follow # "any" => sv.id = (IF d.follow = "own" THEN d.id ELSE 0)
Faithful == ForAllLocations(Follows)

GuestInv == GuestTypeOK /\ Faithful

(* "hash tables for maping the addresses of the original floating-point    *)
(* values to the shadow values" (fd_main.c:156): a shadow value belongs to *)
(* the data that is there now.                                             *)
Belongs(sv, d) == sv # NoShadow => sv.id = d.id
NoneStale == ForAllLocations(Belongs)

=============================================================================
