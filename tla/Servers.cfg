SPECIFICATION Spec
CONSTANT MaxFaults = 2
PROPERTIES RootServed BootEnds Recovered
CHECK_DEADLOCK FALSE
