SPECIFICATION Spec
CONSTANTS
  Orders = {o1}
  Drivers = {d1}
  Requests = {r1, r2}
  NoOrder = NoOrder
  NoDriver = NoDriver
  Shapes <- Mixed
  Ops <- KitchenOps
  UsageLimit = 1
  MaxInFlight = 2
  MaxCalls = 6
CHECK_DEADLOCK FALSE
SYMMETRY AnyRequest
INVARIANTS TypeOK KitchenOnlyAfterMoney
