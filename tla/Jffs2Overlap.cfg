CONSTANTS
  K = 6
  Page = 2
  MaxSize = 4
  Writes <- SomeWrites
  Sizes <- SomeSizes
  Orders <- SomeOrders
  Requests = 2
  Failures = 1
  Passes = 1
  Erasures = 1
  Rereads = 1
  After = 0
SPECIFICATION Spec
INVARIANT CopyReplaces
CHECK_DEADLOCK FALSE
