\* A signal handler computes in the registers it shares with the code it interrupts.
SPECIFICATION MCSpec
CONSTANTS
    a1 = a1
    a2 = a2
    r1 = r1
    c1 = c1
    Temps = {t1, t2}
    NoTmp = NoTmp
    Regs = {r1, ip}
    IPReg = ip
    CircRegs = {c1}
    Addrs = {a1, a2}
    Threads = {th1, th2}
    IgnoreEnd = FALSE
    VersionMod = 3
    MaxOps = 2
    MaxSB = 2
    Overlaps <- Separate
    Events = {"signal"}
SYMMETRY Symmetry
INVARIANT NoneStale
\* The guest program may end after any superblock.
CHECK_DEADLOCK FALSE
