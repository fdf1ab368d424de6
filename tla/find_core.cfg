\* One of the instances of section 5 of README.md; the others change the
\* constants and the property its table names.
SPECIFICATION Spec
CONSTANTS
  Orders = {o1}
  Drivers = {d1}
  Requests = {r1, r2}
  NoOrder = NoOrder
  NoDriver = NoDriver
  Shapes <- MobileOnly
  Ops <- RefundOps
  UsageLimit = 1
  MaxInFlight = 2
  MaxCalls = 4
CHECK_DEADLOCK FALSE
PROPERTY RefundOnce
