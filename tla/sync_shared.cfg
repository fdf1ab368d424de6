SPECIFICATION Spec
CONSTANTS
  menu = menu
  address = address
  course = course
  promotion = promotion
  Orders = {o1}
  Documents = {}
  Home <- OnlineOrders
  Owner <- MCOwner
  Writers <- MCWriters
  Handlers = {h1, h2}
  BatchSize = 2
  Gaps <- Distinct
  MaxWrites = 5
  MaxStatus = 3
  MaxOpen = 1
  MaxCuts = 1
  MaxErrors = 1
CHECK_DEADLOCK FALSE
SYMMETRY HandlerSymmetry
INVARIANTS WrittenOnce SentWasApplied
