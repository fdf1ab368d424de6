----------------------------- MODULE MCBercail -----------------------------
(***************************************************************************)
(* Instances of Bercail: which orders customers place, and which routes    *)
(* the instance exercises.                                                 *)
(***************************************************************************)
EXTENDS Bercail, TLC

Shape(channel, method, type, code) ==
  [channel |-> channel, method |-> method, type |-> type, coupon |-> code]

MobileDelivery == Shape("ONLINE", "MOBILE", "DELIVERY", FALSE)
MobileCoupon   == Shape("ONLINE", "MOBILE", "DELIVERY", TRUE)
CashDelivery   == Shape("ONLINE", "COD", "DELIVERY", FALSE)
CashPickup     == Shape("ONLINE", "COD", "PICKUP", TRUE)
CounterSale    == Shape("POS", "COD", "DINE_IN", FALSE)
CounterMobile  == Shape("POS", "MOBILE", "PICKUP", FALSE)

OnlineMobile   == {MobileDelivery, MobileCoupon}
CouponOnly     == {MobileCoupon}
MobileOnly     == {MobileDelivery}
CashOnly       == {CashDelivery}
OnlineAndPickup == {MobileDelivery, MobileCoupon, CashPickup}
CashAndCounter == {CashDelivery, CashPickup, CounterSale}
Mixed          == {MobileDelivery, CashDelivery, CounterMobile}

PayOps   == {"initiate", "confirm", "callback", "poll", "abandon"}
CloseOps == {"cancel", "cancelByStaff", "expire"}
FleetOps == {"assign", "advance", "complete", "decline", "fail", "correct"}
CrewOps  == {"availability", "driverStatus", "releaseStale"}

LedgerOps   == {"create", "updateStatus"} \union PayOps \union CloseOps \union {"refund"}
CourierOps  == {"create", "pos", "updateStatus", "cancelByStaff"} \union FleetOps \union CrewOps
KitchenOps  == {"create", "pos", "updateStatus", "assign", "advance", "complete",
                "decline", "refund", "markFailed", "crash"} \union PayOps \union CloseOps
DeadlineOps == {"create", "updateStatus"} \union PayOps \union CloseOps

\* The routes of each disagreement, and no other.
TerminalOps  == {"create", "updateStatus", "cancelByStaff", "cancel"}
RefusedOps   == {"create", "initiate", "confirm", "cancel", "cancelByStaff", "expire"}
RefundOps    == {"create", "confirm", "refund"}
StaffFailOps == {"create", "confirm", "markFailed"}
AbandonOps   == {"create", "confirm", "abandon"}
SettleOps    == {"create", "updateStatus", "markFailed"}
ExpiryOps    == {"create", "confirm", "updateStatus", "assign", "refund", "expire"}
PrepareOps   == {"create", "updateStatus"}
CreateOps    == {"create"}
BusyOps      == {"create", "updateStatus", "assign", "cancelByStaff", "cancel"}
EarlyOps     == {"create", "updateStatus", "assign", "advance", "complete"}
NoCourierOps == {"create", "updateStatus"}

AnyRequest == Permutations(Requests)
AnyOrder   == Permutations(Orders)
AnyDriver  == Permutations(Drivers)
============================================================================
