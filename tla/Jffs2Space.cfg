CONSTANTS
 N = 5
 Sector = 4
 Page = 2
 Names = {"a","b"}
 NodeLen <- ShortAndLong
 RefilePeriod = 2
 Overhead = 1
 Requests = 7
 Passes = 1
 Mishaps = 1
 Toll = 2
SPECIFICATION Spec
INVARIANTS Bookkeeping NothingLost NoBug
CHECK_DEADLOCK FALSE
 
