\* One of the instances of section 5 of README.md; the others change the
\* constants and the property its table names.
SPECIFICATION Spec
CONSTANTS
  menu = menu
  address = address
  course = course
  promotion = promotion
  Orders = {o1}
  Documents = {address}
  Home <- OnlineOrders
  Owner <- MCOwner
  Writers <- MCWriters
  Handlers = {h1, h2}
  BatchSize = 2
  Gaps <- Distinct
  MaxWrites = 3
  MaxStatus = 3
  MaxOpen = 2
  MaxCuts = 0
  MaxErrors = 0
CHECK_DEADLOCK FALSE
INVARIANTS NothingSkipped
