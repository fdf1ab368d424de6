SPECIFICATION Spec
CONSTANTS
  Orders = {o1, o2}
  Drivers = {d1}
  Requests = {r1}
  NoOrder = NoOrder
  NoDriver = NoDriver
  Shapes <- OnlineAndPickup
  Ops <- LedgerOps
  UsageLimit = 1
  MaxInFlight = 1
  MaxCalls = 6
CHECK_DEADLOCK FALSE
INVARIANTS LedgersBalance CopyWhileOpen
PROPERTIES StatusMachine CollectedUntilRefunded
SYMMETRY AnyOrder
