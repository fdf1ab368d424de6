SPECIFICATION Spec
CONSTANTS
  Orders = {o1}
  Drivers = {d1, d2}
  Requests = {r1}
  NoOrder = NoOrder
  NoDriver = NoDriver
  Shapes <- CashAndCounter
  Ops <- CourierOps
  UsageLimit = 1
  MaxInFlight = 1
  MaxCalls = 10
CHECK_DEADLOCK FALSE
INVARIANTS NoStrayCourse CountedOnce
PROPERTY FreedWithItsCourse
SYMMETRY AnyDriver
