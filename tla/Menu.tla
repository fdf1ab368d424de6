------------------------------- MODULE Menu -------------------------------
(***************************************************************************)
(* src/src/menu/menu-items.service.ts, categories.service.ts and           *)
(* src/src/redis/redis.service.ts: staff write the menu, visitors read a   *)
(* page of it kept in Redis.  Names, texts, pictures, slugs and sorting    *)
(* are left out; a dish has one group of options.                          *)
(***************************************************************************)
EXTENDS Shop

others == <<house, line, selfTables, pageTables>>

\* What has been written is deleted from the pages next.
Written(q) == GoOn(q, [step |-> "invalidate"])

(***************************************************************************)
(* Prices and options                                                      *)
(***************************************************************************)
assertPricing(price, promo) == promo # NoPromo => promo < price

\* Ids of the dish are kept, the others of the body are created, and what
\* the body does not name is deleted.
assertOptions(d, group) ==
  /\ group.atLeast <= group.atMost
  /\ \A o \in group.options : o \in optionsOf(d) \/ option[o].state = "none"

writeOptionGroups(d, group) ==
  /\ option' = [o \in Options |->
       IF o \in group.options
         THEN [state |-> "live", dish |-> d, offered |-> o \in group.offered]
       ELSE IF o \in optionsOf(d) THEN [option[o] EXCEPT !.state = "gone"] ELSE option[o]]
  /\ line' = [l \in Lines |->          \* ON DELETE CASCADE of cart_item_options
       [line[l] EXCEPT !.options = @ \ (optionsOf(d) \ group.options)]]

(***************************************************************************)
(* Dishes                                                                  *)
(***************************************************************************)
CreateDish(q, k, price, promo, available, group) ==
  /\ live(category[k]) /\ assertPricing(price, promo)
  /\ Begin(q, "createDish", [step |-> "createDish", category |-> k, price |-> price,
                             promo |-> promo, available |-> available,
                             group |-> group])
  /\ UNCHANGED <<menuTables, others, written>>

CreateDishTx(q) ==
  LET body == desk[q] IN
  /\ At(q, "createDish")
  /\ \E d \in Dishes :
       /\ dish[d].state = "none" /\ assertOptions(d, body.group)
       /\ dish' = [dish EXCEPT ![d] =
            [state |-> "live", category |-> body.category, price |-> body.price,
             promo |-> body.promo, available |-> body.available, soldOut |-> {},
             atLeast |-> body.group.atLeast, atMost |-> body.group.atMost]]
       /\ writeOptionGroups(d, body.group)
  /\ Written(q)
  /\ UNCHANGED <<house, category, selfTables, pageTables, written>>

UpdateDish(q, d, body) ==
  /\ live(dish[d])
  /\ \A k \in body.category : live(category[k])
  /\ assertPricing(given(body.price, dish[d].price), given(body.promo, dish[d].promo))
  /\ Begin(q, "updateDish", [step |-> "updateDish", dish |-> d, body |-> body])
  /\ UNCHANGED <<menuTables, others, written>>

\* The row is found by its id alone, and only the fields sent are written.
UpdateDishTx(q) ==
  LET d == desk[q].dish
      body == desk[q].body
      group == given(body.group, [atLeast |-> dish[d].atLeast, atMost |-> dish[d].atMost])
  IN
  /\ At(q, "updateDish")
  /\ \A sent \in body.group : assertOptions(d, sent)
  /\ dish' = [dish EXCEPT ![d].category = given(body.category, @),
                          ![d].price = given(body.price, @),
                          ![d].promo = given(body.promo, @),
                          ![d].available = given(body.available, @),
                          ![d].atLeast = group.atLeast, ![d].atMost = group.atMost]
  /\ \/ \E sent \in body.group : writeOptionGroups(d, sent)
     \/ body.group = {} /\ UNCHANGED <<option, line>>
  /\ Written(q)
  /\ UNCHANGED <<house, category, selfTables, pageTables, written>>

\* In a house (h), or for all of them (h = Nothing).
SetAvailability(q, d, h, available) ==
  /\ live(dish[d])
  /\ h # Nothing /\ available => dish[d].available
  /\ Begin(q, "setAvailability", [step |-> "setAvailability", dish |-> d, house |-> h,
                                  available |-> available])
  /\ UNCHANGED <<menuTables, others, written>>

\* Mutant: the pages are not deleted.
SetAvailabilityTxQuiet(q) ==
  LET body == desk[q] IN
  /\ At(q, "setAvailability")
  /\ dish' = IF body.house = Nothing
               THEN [dish EXCEPT ![body.dish].available = body.available]
               ELSE [dish EXCEPT ![body.dish].soldOut =
                       IF body.available THEN @ \ {body.house} ELSE @ \union {body.house}]
  /\ Finish(q)
  /\ UNCHANGED <<option, category, others, written>>

SetAvailabilityTx(q) ==
  LET body == desk[q] IN
  /\ At(q, "setAvailability")
  /\ dish' = IF body.house = Nothing
               THEN [dish EXCEPT ![body.dish].available = body.available]
               ELSE [dish EXCEPT ![body.dish].soldOut =
                       IF body.available THEN @ \ {body.house} ELSE @ \union {body.house}]
  /\ Written(q)
  /\ UNCHANGED <<option, category, others, written>>

RemoveDish(q, d) ==
  /\ live(dish[d])
  /\ Begin(q, "removeDish", [step |-> "removeDish", dish |-> d])
  /\ UNCHANGED <<menuTables, others, written>>

\* Mutant: the dish stays in the carts.
RemoveDishTxAlone(q) ==
  /\ At(q, "removeDish")
  /\ dish' = [dish EXCEPT ![desk[q].dish].state = "removed", ![desk[q].dish].available = FALSE]
  /\ Written(q)
  /\ UNCHANGED <<option, category, others, written>>

RemoveDishTx(q) ==
  LET d == desk[q].dish IN
  /\ At(q, "removeDish")
  /\ dish' = [dish EXCEPT ![d].state = "removed", ![d].available = FALSE]
  /\ line' = [l \in Lines |-> IF line[l].dish = d THEN [line[l] EXCEPT !.live = FALSE]
                                                  ELSE line[l]]
  /\ Written(q)
  /\ UNCHANGED <<house, option, category, selfTables, pageTables, written>>

(***************************************************************************)
(* Categories                                                              *)
(***************************************************************************)
dishesIn(k) == {d \in Dishes : live(dish[d]) /\ dish[d].category = k}

CreateCategory(q, k) ==
  /\ category[k].state = "none"
  /\ Begin(q, "createCategory", [step |-> "invalidate"])
  /\ category' = [category EXCEPT ![k] = [state |-> "live", active |-> TRUE]]
  /\ UNCHANGED <<dish, option, others, written>>

UpdateCategory(q, k, active) ==
  /\ live(category[k])
  /\ Begin(q, "updateCategory", [step |-> "invalidate"])
  /\ category' = [category EXCEPT ![k].active = active]
  /\ UNCHANGED <<dish, option, others, written>>

\* Refused while it contains a dish.
RemoveCategory(q, k) ==
  /\ live(category[k]) /\ dishesIn(k) = {}
  /\ Begin(q, "removeCategory", [step |-> "removeCategory", category |-> k])
  /\ UNCHANGED <<menuTables, others, written>>

RemoveCategoryTx(q) ==
  /\ At(q, "removeCategory")
  /\ category' = [category EXCEPT ![desk[q].category] = [state |-> "removed", active |-> FALSE]]
  /\ Written(q)
  /\ UNCHANGED <<dish, option, others, written>>

(***************************************************************************)
(* The public pages                                                        *)
(***************************************************************************)
NoPage == [held |-> FALSE, kept |-> FALSE, shown |-> {}, houses |-> {}, since |-> 0]

\* RedisService.delByPattern, which writes of dishes and categories both call.
Invalidate(q) ==
  /\ At(q, "invalidate")
  /\ page' = NoPage
  /\ written' = written + 1
  /\ Finish(q)
  /\ UNCHANGED <<house, menuTables, line, selfTables, memo>>

\* Redis does not answer: the pages stay, and the request does not know.
InvalidateFails(q) ==
  /\ At(q, "invalidate")
  /\ written' = written + 1
  /\ Finish(q)
  /\ UNCHANGED <<house, menuTables, line, selfTables, pageTables>>

\* DishAvailabilityService: what none of these houses can cook.
soldOutEverywhere(houses) ==
  IF houses = {} THEN {} ELSE {d \in Dishes : houses \subseteq dish[d].soldOut}

\* MenuItemsService.buildWhere, then findMany.
onTheMenu(notIn) ==
  {d \in Dishes : /\ live(dish[d]) /\ dish[d].available /\ d \notin notIn
                  /\ live(category[dish[d].category]) /\ category[dish[d].category].active}

publicMenu(houses) == onTheMenu(soldOutEverywhere(houses))

\* RestaurantRouter.open: the list kept in memory, or the table.
openHouses == IF memo.held THEN memo.houses ELSE serving

ReadAt(v, step) == reader[v].step = step

ReadOn(v, row) == reader' = [reader EXCEPT ![v] = row] /\ UNCHANGED <<desk, mix>>

\* A visitor asks for the first page of the menu.
ListHouses(v) ==
  /\ "list" \in mix /\ calls < MaxCalls /\ ReadAt(v, "idle")
  /\ calls' = calls + 1
  /\ ReadOn(v, [step |-> IF memo.held THEN "where" ELSE "remember", houses |-> openHouses,
                since |-> written])
  /\ UNCHANGED <<house, menuTables, line, selfTables, pageTables, written>>

\* What was read is kept for a minute, whatever happened meanwhile.
RememberHouses(v) ==
  /\ ReadAt(v, "remember")
  /\ memo' = [held |-> TRUE, houses |-> reader[v].houses]
  /\ ReadOn(v, [reader[v] EXCEPT !.step = "where"])
  /\ UNCHANGED <<house, menuTables, line, selfTables, page, written, calls>>

\* orderableSomewhere, before the cache is asked.
ListWhere(v) ==
  /\ ReadAt(v, "where")
  /\ ReadOn(v, [step |-> "load", houses |-> reader[v].houses, since |-> reader[v].since,
                notIn |-> soldOutEverywhere(reader[v].houses)])
  /\ UNCHANGED <<house, menuTables, line, selfTables, pageTables, written, calls>>

\* RedisService.remember: a page held is the answer, else the tables are read.
ListLoad(v) ==
  /\ ReadAt(v, "load")
  /\ ReadOn(v, IF page.held THEN [step |-> "idle"]
               ELSE [step |-> "keep", houses |-> reader[v].houses, since |-> reader[v].since,
                     shown |-> onTheMenu(reader[v].notIn)])
  /\ UNCHANGED <<house, menuTables, line, selfTables, pageTables, written, calls>>

\* Mutant: kept without an end.
ListKeepForEver(v) ==
  /\ ReadAt(v, "keep")
  /\ page' = [held |-> TRUE, kept |-> TRUE, shown |-> reader[v].shown,
              houses |-> reader[v].houses, since |-> reader[v].since]
  /\ ReadOn(v, [step |-> "idle"])
  /\ UNCHANGED <<house, menuTables, line, selfTables, memo, written, calls>>

ListKeep(v) ==
  /\ ReadAt(v, "keep")
  /\ page' = [held |-> TRUE, kept |-> FALSE, shown |-> reader[v].shown,
              houses |-> reader[v].houses, since |-> reader[v].since]
  /\ ReadOn(v, [step |-> "idle"])
  /\ UNCHANGED <<house, menuTables, line, selfTables, memo, written, calls>>

\* cache.menuTtlSeconds, and TTL_MS of the router.
PageExpires ==
  /\ page.held /\ ~ page.kept
  /\ page' = NoPage
  /\ UNCHANGED <<house, menuTables, line, selfTables, memo, written, mix, calls, desk, reader>>

MemoExpires ==
  /\ memo.held
  /\ memo' = [held |-> FALSE, houses |-> {}]
  /\ UNCHANGED <<house, menuTables, line, selfTables, page, written, mix, calls, desk, reader>>
===========================================================================
