CONSTANTS
  a = a
  b = b
  Names = {a, b}
  MaxFileCnt = 2
  FirstSector = 1
  SectorCnts = {1, 2}
  PartSectors = 11
  UidMod = 3
  IdMod = 5
  Attempts = 2
  FaultyFlash = TRUE
  Blank = Blank
  Torn = Torn
SPECIFICATION FairSpecAll
INVARIANTS TypeOK CopyUnlessSpoilt FormatsOnlyWiped ServesAcked
PROPERTIES ImplementsFileTable MountEnds
