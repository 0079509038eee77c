SPECIFICATION Spec
CONSTANTS Groups = 3
 GroupInodes = 2
 FirstIno = 4
 MaxObjects = 3
 Rooms = {{0,1,2},{2}}
 Names = {"a","b"}
 MaxOpen = 2
 MaxLinks = 2
 MaxOps = 4
 MaxFaults = 1
 MaxOdd = 0
CHECK_DEADLOCK FALSE
INVARIANTS NamesExact InodesExact ObjectsHeld
PROPERTY FreedUnnamed
