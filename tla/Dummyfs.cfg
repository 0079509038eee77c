CONSTANTS
  Ids = {0, 1, 2, 3}
  Names = {a, b}
  Kinds = {"dir", "mapped"}
  MaxOpens = 1
  MaxFails = 1
SPECIFICATION Spec
SYMMETRY Symmetry
INVARIANTS TypeOK EntriesLive LinksRight NeitherEarlyNorLate
