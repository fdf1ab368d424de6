---------------------------- MODULE MCStorefront ----------------------------
(***************************************************************************)
(* Instances of Storefront.                                                *)
(***************************************************************************)
EXTENDS Storefront, TLC

CONSTANTS attieke, poulet, grillades, boissons, piment, sauce, awa, moussa, remise

TheHouses   == {1, 2, 3}
ThePosition == 1 :> 0 @@ 2 :> 4 @@ 3 :> 10
ThePlaces   == {1, 9}
TwoOrders   == {11, 12}
TheHouseOf  == 11 :> 1 @@ 12 :> 2
TheRatedIn  == 11 :> {1, attieke, moussa} @@ 12 :> {2, attieke}

TheOpening == [dish |-> attieke, category |-> grillades, option |-> piment, price |-> 2]

TheGroups ==
  {[options |-> {piment}, offered |-> {piment}, atLeast |-> 0, atMost |-> 1],
   [options |-> {piment, sauce}, offered |-> {sauce}, atLeast |-> 0, atMost |-> 2],
   [options |-> {}, offered |-> {}, atLeast |-> 0, atMost |-> 1]}

MenuOps == {"createDish", "updateDish", "setAvailability", "removeDish", "createCategory",
            "updateCategory", "removeCategory"}
CartOps == {"addItem", "updateItem", "removeItem", "clearCart", "checkout"}
HouseOps == {"createHouse", "updateHouse", "closeHouse", "updateSettings"}
BookOps == {"createAddress", "updateAddress", "setDefault", "removeAddress"}
PromotionOps == {"createPromotion", "updatePromotion", "setPromotionActive", "removePromotion"}

TheMixes ==
  {MenuOps, {"list", "setAvailability", "removeDish", "updateCategory", "closeHouse"},
   CartOps \union {"setAvailability", "removeDish", "updateDish"},
   HouseOps \union {"list"}, {"closeHouse", "list", "addItem", "setAvailability"},
   {"updateSettings", "addItem", "setAvailability", "checkout"},
   {"createHouse", "addItem", "setAvailability"},
   BookOps, BookOps \ {"updateAddress"}, PromotionOps, {"createReview"}}
=============================================================================
