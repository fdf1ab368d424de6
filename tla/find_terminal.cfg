SPECIFICATION Spec
CONSTANTS
  Orders = {o1}
  Drivers = {d1}
  Requests = {r1, r2}
  NoOrder = NoOrder
  NoDriver = NoDriver
  Shapes <- CashOnly
  Ops <- TerminalOps
  UsageLimit = 1
  MaxInFlight = 2
  MaxCalls = 4
CHECK_DEADLOCK FALSE
PROPERTY TerminalStays
