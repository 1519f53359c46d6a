\* Cells left over from earlier superblocks and threads; every construct.
SPECIFICATION Spec
CONSTANTS
    Temps = {t1, t2, t3}
    NoTmp = NoTmp
    Regs = {r1, ip}
    IPReg = ip
    CircRegs = {}
    Addrs = {a1}
    Threads = {th1, th2}
    IgnoreEnd = FALSE
    VersionMod = 3
    MaxOps = 2
    MaxSB = 2
SYMMETRY Symmetry
INVARIANTS
    IInv
    CountsArePaths
PROPERTY MapSpec
\* The guest program may end after any superblock.
CHECK_DEADLOCK FALSE
