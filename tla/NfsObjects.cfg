SPECIFICATION Spec
CONSTANTS Names = {a, b, c}
 a = a
 b = b
 c = c
 MaxDepth = 1
 NFS_IDLE_MAX = 1
 NFS_RECLAIM_MAX = 1
 MaxSize = 2
 MaxIno = 2
 MaxOpen = 2
 MaxNodes = 2
 MaxOps = 2
 MaxFaults = 1
 MaxOdd = 0
SYMMETRY Symmetry
CHECK_DEADLOCK FALSE
INVARIANTS CallsRight HandlesCounted HandleNamesFile AttrCoherent
