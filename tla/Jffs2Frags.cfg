CONSTANTS
  K = 6
  Page = 2
  MaxSize = 4
  Writes <- SomeWrites
  Sizes <- SomeSizes
  Orders <- SomeOrders
  Requests = 2
  Failures = 1
  Passes = 1
  Erasures = 1
  Rereads = 2
  After = 0
SPECIFICATION Spec
INVARIANTS ReadsBack Accounted NewestOnTop
PROPERTY CollectKeeps
CHECK_DEADLOCK FALSE
