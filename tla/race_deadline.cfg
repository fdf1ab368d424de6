SPECIFICATION FairSpec
CONSTANTS
  Orders = {o1}
  Drivers = {d1}
  Requests = {r1, r2}
  NoOrder = NoOrder
  NoDriver = NoDriver
  Shapes <- MobileOnly
  Ops <- DeadlineOps
  UsageLimit = 1
  MaxInFlight = 2
  MaxCalls = 5
CHECK_DEADLOCK FALSE
PROPERTIES StaleUnpaidCloses PaidReachesKitchen
