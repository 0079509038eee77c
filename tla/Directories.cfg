SPECIFICATION Spec
INVARIANTS InPositionOrder FoundByName
PROPERTIES ScanExact ScansEnd
CHECK_DEADLOCK FALSE
