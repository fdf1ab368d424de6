SPECIFICATION FairSpec
CONSTANTS
  menu = menu
  address = address
  course = course
  promotion = promotion
  Orders = {}
  Documents = {menu, address, course, promotion}
  Home <- OnlineOrders
  Owner <- MCOwner
  Writers <- MCWriters
  Handlers = {h1, h2}
  BatchSize = 2
  Gaps <- Distinct
  MaxWrites = 3
  MaxStatus = 3
  MaxOpen = 1
  MaxCuts = 1
  MaxErrors = 0
CHECK_DEADLOCK FALSE
INVARIANTS NothingSkipped OwnedCopyFollows
PROPERTIES Arrives
