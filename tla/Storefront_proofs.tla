------------------------- MODULE Storefront_proofs -------------------------
(***************************************************************************)
(* Theorems about Storefront: its types, its promotions and the cached     *)
(* page whatever interleaves, and, when requests come one at a time, the   *)
(* agreement of categories, dishes, prices and carts, the address books,   *)
(* the averages of the reviews and what a cart shows.                      *)
(***************************************************************************)
EXTENDS Storefront, TLAPS, FiniteSetTheorems, WellFoundedInduction

(***************************************************************************)
(* What a suspended request holds                                          *)
(***************************************************************************)
Promos == Prices \union {NoPromo}

RowOK(row) ==
  /\ row.step = "createDish" => /\ row.category \in Categories /\ row.group \in Groups
                                /\ row.price \in Prices /\ row.promo \in Promos
                                /\ row.available \in BOOLEAN
  /\ row.step = "updateDish" => row.dish \in Dishes /\ row.body \in DishBodies
  /\ row.step = "setAvailability" => /\ row.dish \in Dishes /\ row.available \in BOOLEAN
                                     /\ row.house \in Houses \union {Nothing}
  /\ row.step = "removeDish" => row.dish \in Dishes
  /\ row.step = "removeCategory" => row.category \in Categories
  /\ row.step = "closeHouse" => row.house \in Houses
  /\ row.step = "addItem" => /\ row.customer \in Customers /\ row.dish \in Dishes
                             /\ row.options \subseteq Options
                             /\ row.quantity \in 1..MaxQuantity /\ row.twin \subseteq Lines
                             /\ \A l \in row.twin : row.merged[l] \in 0..MaxQuantity
  /\ row.step = "updateItem" => /\ row.line \in Lines
                                /\ row.quantity \in {{}} \union {{n} : n \in 0..MaxQuantity}
                                /\ row.options \in {{}} \union {{o} : o \in SUBSET Options}
  /\ row.step = "checkout" => row.customer \in Customers
  /\ row.step = "updatePromotion" => /\ row.promotion \in Promotions /\ row.row \in PromotionRows
                                     /\ row.body \in OfferBodies

ReaderRows ==
  [step : {"idle"}]
    \union [step : {"remember", "where"}, houses : SUBSET Houses, since : Nat]
    \union [step : {"load"}, houses : SUBSET Houses, since : Nat, notIn : SUBSET Dishes]
    \union [step : {"keep"}, houses : SUBSET Houses, since : Nat, shown : SUBSET Dishes]

DesksOK == DOMAIN desk = Desks /\ \A q \in Desks : RowOK(desk[q])

Types0 == TypeOK /\ DesksOK /\ reader \in [Readers -> ReaderRows]

\* A step that needs nothing of what its request holds.
Plain == {"idle", "invalidate", "forget", "createAddress", "updateAddress",
          "setDefault", "removeAddress", "reviewHouse", "reviewOthers", "reviewCommit"}

LEMMA PlainIsOK == ASSUME NEW row, row.step \in Plain PROVE RowOK(row)
BY DEF RowOK, Plain

LEMMA DeskMoves ==
  ASSUME DesksOK, NEW q \in Desks, NEW row, RowOK(row), desk' = [desk EXCEPT ![q] = row]
  PROVE  DesksOK'
BY DEF DesksOK

\* The value of a field of a partial body.
LEMMA GivenIs ==
  ASSUME NEW S, NEW field \in {{}} \union {{v} : v \in S}, NEW former
  PROVE  /\ field = {} => given(field, former) = former
         /\ field # {} => given(field, former) \in field /\ given(field, former) \in S
BY DEF given

LEMMA GivenOrFormer ==
  ASSUME NEW S, NEW field, field \in {{}} \union {{v} : v \in S}, NEW former \in S
  PROVE  given(field, former) \in S
<1>1. CASE field = {}
  BY <1>1, GivenIs
<1>2. CASE field # {}
  BY <1>2, GivenIs
<1> QED BY <1>1, <1>2

(***************************************************************************)
(* Types                                                                   *)
(***************************************************************************)
LEMMA TablesKept ==
  ASSUME TypeOK, calls' \in 0..MaxCalls,
         UNCHANGED <<house, menuTables, line, promotion, memo, page, written>>
  PROVE  TypeOK'
BY DEF TypeOK, menuTables

LEMMA OneMove ==
  ASSUME Types0, TypeOK', NEW q \in Desks, NEW row, RowOK(row), desk' = [desk EXCEPT ![q] = row],
         UNCHANGED reader
  PROVE  Types0'
BY DeskMoves DEF Types0

\* A request that only reads, and goes on.
LEMMA BeginOnly ==
  ASSUME Types0, NEW q \in Desks, NEW op, NEW row, RowOK(row), Begin(q, op, row),
         UNCHANGED <<house, menuTables, line, promotion, pageTables, written>>
  PROVE  Types0'
<1>1. calls' \in 0..MaxCalls /\ UNCHANGED reader /\ desk' = [desk EXCEPT ![q] = row]
  BY ShopAssumption DEF Begin, Types0, TypeOK, ShopAssumption
<1>2. TypeOK'
  BY <1>1, TablesKept DEF Types0, pageTables
<1> QED BY <1>1, <1>2, OneMove

\* A step that writes nothing these types are about.
LEMMA GoOnOnly ==
  ASSUME Types0, NEW q \in Desks, NEW row, RowOK(row), GoOn(q, row),
         UNCHANGED <<house, menuTables, line, promotion, pageTables, written>>
  PROVE  Types0'
<1>1. calls' \in 0..MaxCalls /\ UNCHANGED reader /\ desk' = [desk EXCEPT ![q] = row]
  BY DEF GoOn, Types0, TypeOK
<1>2. TypeOK'
  BY <1>1, TablesKept DEF Types0, pageTables
<1> QED BY <1>1, <1>2, OneMove

LEMMA MenuBegins ==
  ASSUME Types0, NEW q \in Desks
  PROVE  /\ \A k \in Categories, price \in Prices, promo \in Prices \union {NoPromo},
               available \in BOOLEAN, g \in Groups :
              CreateDish(q, k, price, promo, available, g) => Types0'
         /\ \A d \in Dishes :
              /\ \A body \in UsualBodies : UpdateDish(q, d, body) => Types0'
              /\ \A h \in serving \union {Nothing}, available \in BOOLEAN :
                   SetAvailability(q, d, h, available) => Types0'
              /\ RemoveDish(q, d) => Types0'
         /\ \A k \in Categories : RemoveCategory(q, k) => Types0'
<1>1. ASSUME NEW k \in Categories, NEW price \in Prices, NEW promo \in Prices \union {NoPromo},
             NEW available \in BOOLEAN, NEW g \in Groups,
             CreateDish(q, k, price, promo, available, g)
      PROVE  Types0'
  <2>1. RowOK([step |-> "createDish", category |-> k, price |-> price, promo |-> promo,
               available |-> available, group |-> g])
    BY DEF RowOK, Promos
  <2> QED BY <1>1, <2>1, BeginOnly DEF CreateDish, others, selfTables
<1>2. ASSUME NEW d \in Dishes, NEW body \in UsualBodies, UpdateDish(q, d, body) PROVE Types0'
  <2>1. RowOK([step |-> "updateDish", dish |-> d, body |-> body])
    BY DEF RowOK, UsualBodies
  <2> QED BY <1>2, <2>1, BeginOnly DEF UpdateDish, others, selfTables
<1>3. ASSUME NEW d \in Dishes, NEW h \in serving \union {Nothing}, NEW available \in BOOLEAN,
             SetAvailability(q, d, h, available)
      PROVE  Types0'
  <2>1. RowOK([step |-> "setAvailability", dish |-> d, house |-> h, available |-> available])
    BY DEF RowOK, serving
  <2> QED BY <1>3, <2>1, BeginOnly DEF SetAvailability, others, selfTables
<1>4. ASSUME NEW d \in Dishes, RemoveDish(q, d) PROVE Types0'
  <2>1. RowOK([step |-> "removeDish", dish |-> d])
    BY DEF RowOK
  <2> QED BY <1>4, <2>1, BeginOnly DEF RemoveDish, others, selfTables
<1>5. ASSUME NEW k \in Categories, RemoveCategory(q, k) PROVE Types0'
  <2>1. RowOK([step |-> "removeCategory", category |-> k])
    BY DEF RowOK
  <2> QED BY <1>5, <2>1, BeginOnly DEF RemoveCategory, others, selfTables
<1> QED BY <1>1, <1>2, <1>3, <1>4, <1>5

(***************************************************************************)
(* The menu                                                                *)
(***************************************************************************)
LEMMA OptionsWritten ==
  ASSUME TypeOK, NEW d \in Dishes, NEW group \in Groups, writeOptionGroups(d, group)
  PROVE  option' \in [Options -> OptionRows] /\ line' \in [Lines -> LineRows]
<1>1. option' \in [Options -> OptionRows]
  BY DEF writeOptionGroups, TypeOK, OptionRows
<1>2. line' \in [Lines -> LineRows]
  BY DEF writeOptionGroups, TypeOK, LineRows
<1> QED BY <1>1, <1>2

\* A write of the menu: what it writes keeps its type, and its pages go next.
LEMMA WrittenMove ==
  ASSUME Types0, NEW q \in Desks, Written(q),
         dish' \in [Dishes -> DishRows], category' \in [Categories -> CategoryRows],
         option' \in [Options -> OptionRows], line' \in [Lines -> LineRows],
         UNCHANGED <<house, promotion, pageTables, written>>
  PROVE  Types0'
<1>1. RowOK([step |-> "invalidate"])
  BY PlainIsOK DEF Plain
<1>2. TypeOK'
  BY DEF Types0, TypeOK, Written, GoOn, pageTables
<1> QED BY <1>1, <1>2, OneMove DEF Written, GoOn

\* The rows of a dish that its handlers write.
LEMMA DishRowWith ==
  ASSUME NEW row \in DishRows, NEW k \in Categories, NEW price \in Prices, NEW promo \in Promos,
         NEW available \in BOOLEAN, NEW soldOut \in SUBSET Houses, NEW least \in Nat,
         NEW most \in Nat, NEW state \in {"live", "removed"}
  PROVE  /\ [row EXCEPT !.category = k, !.price = price, !.promo = promo,
                        !.available = available,
                        !.atLeast = least, !.atMost = most] \in DishRows
         /\ [row EXCEPT !.available = available] \in DishRows
         /\ [row EXCEPT !.soldOut = soldOut] \in DishRows
         /\ [row EXCEPT !.state = state, !.available = available] \in DishRows
<1> USE DEF DishRows, Promos
<1>1. [row EXCEPT !.category = k, !.price = price, !.promo = promo, !.available = available,
                  !.atLeast = least, !.atMost = most] \in DishRows
  OBVIOUS
<1>2. [row EXCEPT !.available = available] \in DishRows
  OBVIOUS
<1>3. [row EXCEPT !.soldOut = soldOut] \in DishRows
  OBVIOUS
<1>4. [row EXCEPT !.state = state, !.available = available] \in DishRows
  OBVIOUS
<1> QED BY <1>1, <1>2, <1>3, <1>4

LEMMA DishPut ==
  ASSUME dish \in [Dishes -> DishRows], NEW d \in Dishes, NEW row \in DishRows,
         dish' = [dish EXCEPT ![d] = row]
  PROVE  dish' \in [Dishes -> DishRows]
OBVIOUS

LEMMA CreateDishType == ASSUME Types0, NEW q \in Desks, CreateDishTx(q) PROVE Types0'
<1> DEFINE body == desk[q]
<1>1. /\ body.category \in Categories /\ body.group \in Groups
      /\ body.price \in Prices /\ body.promo \in Promos /\ body.available \in BOOLEAN
  BY DEF Types0, DesksOK, RowOK, CreateDishTx, At
<1>2. PICK d \in Dishes :
        /\ dish' = [dish EXCEPT ![d] =
             [state |-> "live", category |-> body.category, price |-> body.price,
              promo |-> body.promo, available |-> body.available, soldOut |-> {},
              atLeast |-> body.group.atLeast, atMost |-> body.group.atMost]]
        /\ writeOptionGroups(d, body.group)
  BY DEF CreateDishTx
<1>3. dish' \in [Dishes -> DishRows]
  BY <1>1, <1>2, ShopAssumption DEF ShopAssumption, Types0, TypeOK, DishRows, Promos
<1>4. option' \in [Options -> OptionRows] /\ line' \in [Lines -> LineRows]
  BY <1>1, <1>2, OptionsWritten DEF Types0
<1> QED BY <1>3, <1>4, WrittenMove DEF CreateDishTx, selfTables, Types0, TypeOK

LEMMA UpdateDishType == ASSUME Types0, NEW q \in Desks, UpdateDishTx(q) PROVE Types0'
<1> DEFINE d == desk[q].dish
           body == desk[q].body
           group == given(body.group, [atLeast |-> dish[d].atLeast, atMost |-> dish[d].atMost])
<1>1. d \in Dishes /\ body \in DishBodies
  BY DEF Types0, DesksOK, RowOK, UpdateDishTx, At
<1>2. dish[d] \in DishRows
  BY <1>1 DEF Types0, TypeOK
<1>3. given(body.category, dish[d].category) \in Categories
  <2>1. body.category \in {{}} \union {{v} : v \in Categories} /\ dish[d].category \in Categories
    BY <1>1, <1>2 DEF DishBodies, DishRows
  <2> HIDE DEF d, body
  <2> QED BY <2>1, GivenOrFormer
<1>4. given(body.price, dish[d].price) \in Prices
  <2>1. body.price \in {{}} \union {{v} : v \in Prices} /\ dish[d].price \in Prices
    BY <1>1, <1>2 DEF DishBodies, DishRows
  <2> HIDE DEF d, body
  <2> QED BY <2>1, GivenOrFormer
<1>5. given(body.promo, dish[d].promo) \in Promos
  <2>1. body.promo \in {{}} \union {{v} : v \in Promos} /\ dish[d].promo \in Promos
    BY <1>1, <1>2 DEF DishBodies, DishRows, Promos
  <2> HIDE DEF d, body
  <2> QED BY <2>1, GivenOrFormer
<1>9. given(body.available, dish[d].available) \in BOOLEAN
  <2>1. body.available \in {{}} \union {{v} : v \in BOOLEAN} /\ dish[d].available \in BOOLEAN
    BY <1>1, <1>2 DEF DishBodies, DishRows
  <2> HIDE DEF d, body
  <2> QED BY <2>1, GivenOrFormer
<1>6. group.atLeast \in Nat /\ group.atMost \in Nat
  <2>1. CASE body.group = {}
    BY <2>1, <1>2 DEF given, DishRows
  <2>2. CASE body.group # {}
    <3>1. group \in Groups
      <4>1. body.group \in {{}} \union {{g} : g \in Groups}
        BY <1>1 DEF DishBodies
      <4> HIDE DEF d, body
      <4> QED BY <4>1, <2>2, GivenIs
    <3> QED BY <3>1, ShopAssumption DEF ShopAssumption
  <2> QED BY <2>1, <2>2
<1>7. dish' \in [Dishes -> DishRows]
  <2> DEFINE row == [dish[d] EXCEPT !.category = given(body.category, dish[d].category),
                                    !.price = given(body.price, dish[d].price),
                                    !.promo = given(body.promo, dish[d].promo),
                                    !.available = given(body.available, dish[d].available),
                                    !.atLeast = group.atLeast, !.atMost = group.atMost]
  <2>1. row \in DishRows
    <3> HIDE DEF d, body, group
    <3> QED BY <1>2, <1>3, <1>4, <1>5, <1>6, <1>9, DishRowWith
  <2>2. dish' = [dish EXCEPT ![d] = row]
    BY <1>1 DEF UpdateDishTx, Types0, TypeOK
  <2> QED BY <1>1, <2>1, <2>2, DishPut DEF Types0, TypeOK
<1>8. option' \in [Options -> OptionRows] /\ line' \in [Lines -> LineRows]
  <2>1. ASSUME NEW sent \in body.group, writeOptionGroups(d, sent)
        PROVE  option' \in [Options -> OptionRows] /\ line' \in [Lines -> LineRows]
    BY <2>1, <1>1, OptionsWritten DEF Types0, DishBodies
  <2>2. CASE UNCHANGED <<option, line>>
    BY <2>2 DEF Types0, TypeOK
  <2> QED BY <2>1, <2>2 DEF UpdateDishTx
<1> QED BY <1>7, <1>8, WrittenMove DEF UpdateDishTx, selfTables, Types0, TypeOK

LEMMA DishStepsType ==
  ASSUME Types0, NEW q \in Desks
  PROVE  (SetAvailabilityTx(q) => Types0') /\ (RemoveDishTx(q) => Types0')
<1>1. ASSUME SetAvailabilityTx(q) PROVE Types0'
  <2> DEFINE body == desk[q]
  <2>1. /\ body.dish \in Dishes /\ body.available \in BOOLEAN
        /\ body.house \in Houses \union {Nothing}
    BY <1>1 DEF Types0, DesksOK, RowOK, SetAvailabilityTx, At
  <2>2. dish[body.dish] \in DishRows
    BY <2>1 DEF Types0, TypeOK
  <2>3. ASSUME body.house = Nothing PROVE dish' \in [Dishes -> DishRows]
    <3>1. [dish[body.dish] EXCEPT !.available = body.available] \in DishRows
      BY <2>1, <2>2 DEF DishRows
    <3>2. dish' = [dish EXCEPT ![body.dish] = [dish[body.dish] EXCEPT !.available = body.available]]
      BY <1>1, <2>1, <2>3 DEF SetAvailabilityTx, Types0, TypeOK
    <3> QED BY <2>1, <3>1, <3>2, DishPut DEF Types0, TypeOK
  <2>4. ASSUME body.house # Nothing PROVE dish' \in [Dishes -> DishRows]
    <3> DEFINE without == IF body.available THEN dish[body.dish].soldOut \ {body.house}
                                            ELSE dish[body.dish].soldOut \union {body.house}
    <3>1. without \in SUBSET Houses
      BY <2>1, <2>2, <2>4 DEF DishRows
    <3>2. [dish[body.dish] EXCEPT !.soldOut = without] \in DishRows
      BY <2>2, <3>1 DEF DishRows
    <3>3. dish' = [dish EXCEPT ![body.dish] = [dish[body.dish] EXCEPT !.soldOut = without]]
      BY <1>1, <2>1, <2>4 DEF SetAvailabilityTx, Types0, TypeOK
    <3> QED BY <2>1, <3>2, <3>3, DishPut DEF Types0, TypeOK
  <2>5. dish' \in [Dishes -> DishRows]
    BY <2>3, <2>4
  <2> QED BY <1>1, <2>5, WrittenMove
          DEF SetAvailabilityTx, others, selfTables, Types0, TypeOK
<1>2. ASSUME RemoveDishTx(q) PROVE Types0'
  <2>1. desk[q].dish \in Dishes
    BY <1>2 DEF Types0, DesksOK, RowOK, RemoveDishTx, At
  <2>2. dish' \in [Dishes -> DishRows]
    <3> DEFINE d == desk[q].dish
               row == [dish[d] EXCEPT !.state = "removed", !.available = FALSE]
    <3>1. row \in DishRows
      <4>1. dish[d] \in DishRows
        BY <2>1 DEF Types0, TypeOK
      <4> QED BY <4>1 DEF DishRows
    <3>2. dish' = [dish EXCEPT ![d] = row]
      BY <1>2, <2>1 DEF RemoveDishTx, Types0, TypeOK
    <3> QED BY <2>1, <3>1, <3>2, DishPut DEF Types0, TypeOK
  <2>3. line' \in [Lines -> LineRows]
    BY <1>2 DEF RemoveDishTx, Types0, TypeOK, LineRows
  <2> QED BY <1>2, <2>2, <2>3, WrittenMove DEF RemoveDishTx, selfTables, Types0, TypeOK
<1> QED BY <1>1, <1>2

LEMMA CategoryStepsType ==
  ASSUME Types0, NEW q \in Desks
  PROVE  /\ \A k \in Categories : /\ CreateCategory(q, k) => Types0'
                                  /\ \A active \in BOOLEAN : UpdateCategory(q, k, active) => Types0'
         /\ RemoveCategoryTx(q) => Types0'
<1>0. RowOK([step |-> "invalidate"])
  BY PlainIsOK DEF Plain
<1>1. ASSUME NEW k \in Categories, NEW row \in CategoryRows, NEW op,
             category' = [category EXCEPT ![k] = row], Begin(q, op, [step |-> "invalidate"]),
             UNCHANGED <<dish, option, others, written>>
      PROVE  Types0'
  <2>1. TypeOK'
    BY <1>1, ShopAssumption
    DEF Begin, others, selfTables, pageTables, Types0, TypeOK, ShopAssumption
  <2> QED BY <1>0, <1>1, <2>1, OneMove DEF Begin
<1>2. ASSUME NEW k \in Categories, CreateCategory(q, k) PROVE Types0'
  <2>1. [state |-> "live", active |-> TRUE] \in CategoryRows
    BY DEF CategoryRows
  <2> QED BY <1>2, <1>1, <2>1 DEF CreateCategory
<1>3. ASSUME NEW k \in Categories, NEW active \in BOOLEAN, UpdateCategory(q, k, active)
      PROVE  Types0'
  <2>1. /\ [category[k] EXCEPT !.active = active] \in CategoryRows
        /\ category' = [category EXCEPT ![k] = [category[k] EXCEPT !.active = active]]
    BY <1>3 DEF UpdateCategory, Types0, TypeOK, CategoryRows
  <2> QED BY <1>3, <1>1, <2>1 DEF UpdateCategory
<1>4. ASSUME RemoveCategoryTx(q) PROVE Types0'
  <2>1. category' \in [Categories -> CategoryRows]
    BY <1>4 DEF RemoveCategoryTx, Types0, TypeOK, CategoryRows
  <2> QED BY <1>4, <2>1, WrittenMove
          DEF RemoveCategoryTx, others, selfTables, Types0, TypeOK
<1> QED BY <1>2, <1>3, <1>4

LEMMA InvalidateType == ASSUME Types0, NEW q \in Desks, Invalidate(q) PROVE Types0'
<1>1. RowOK(Idle)
  BY PlainIsOK DEF Plain, Idle
<1>2. TypeOK'
  BY DEF Invalidate, Finish, GoOn, NoPage, menuTables, selfTables, Types0, TypeOK
<1> QED BY <1>1, <1>2, OneMove DEF Invalidate, Finish, GoOn

LEMMA InvalidateFailsType == ASSUME Types0, NEW q \in Desks, InvalidateFails(q) PROVE Types0'
<1>1. RowOK(Idle)
  BY PlainIsOK DEF Plain, Idle
<1>2. TypeOK'
  BY DEF InvalidateFails, Finish, GoOn, menuTables, selfTables, pageTables, Types0, TypeOK
<1> QED BY <1>1, <1>2, OneMove DEF InvalidateFails, Finish, GoOn

LEMMA MenuTypes == Types0 /\ MenuNext => Types0'
BY MenuBegins, CreateDishType, UpdateDishType, DishStepsType, CategoryStepsType, InvalidateType,
   InvalidateFailsType
DEF MenuNext

(***************************************************************************)
(* Pages and houses                                                        *)
(***************************************************************************)
LEMMA PageTypes == Types0 /\ PageNext => Types0'
<1> SUFFICES ASSUME Types0, PageNext PROVE Types0'
  OBVIOUS
<1> USE DEF Types0
<1>0. openHouses \subseteq Houses
  BY DEF openHouses, serving, TypeOK
<1>1. ASSUME NEW v \in Readers, NEW row \in ReaderRows, ReadOn(v, row), TypeOK' PROVE Types0'
  BY <1>1 DEF ReadOn, DesksOK
<1>2. ASSUME NEW v \in Readers, ListHouses(v) PROVE Types0'
  <2> DEFINE row == [step |-> IF memo.held THEN "where" ELSE "remember", houses |-> openHouses,
                     since |-> written]
  <2>1. row \in ReaderRows
    BY <1>0 DEF ReaderRows, TypeOK
  <2>2. TypeOK'
    BY <1>2, TablesKept, ShopAssumption
    DEF ListHouses, selfTables, pageTables, TypeOK, ShopAssumption
  <2> QED BY <1>2, <1>1, <2>1, <2>2 DEF ListHouses
<1>3. ASSUME NEW v \in Readers, RememberHouses(v) PROVE Types0'
  <2>1. reader[v] \in [step : {"remember"}, houses : SUBSET Houses, since : Nat]
    BY <1>3 DEF RememberHouses, ReadAt, ReaderRows
  <2>2. [reader[v] EXCEPT !.step = "where"] \in ReaderRows
    BY <2>1 DEF ReaderRows
  <2>3. TypeOK'
    BY <1>3, <2>1 DEF RememberHouses, menuTables, selfTables, TypeOK
  <2> QED BY <1>3, <1>1, <2>2, <2>3 DEF RememberHouses
<1>4. ASSUME NEW v \in Readers, ListWhere(v) PROVE Types0'
  <2>1. reader[v] \in [step : {"where"}, houses : SUBSET Houses, since : Nat]
    BY <1>4 DEF ListWhere, ReadAt, ReaderRows
  <2>2. soldOutEverywhere(reader[v].houses) \in SUBSET Dishes
    BY DEF soldOutEverywhere
  <2>3. [step |-> "load", houses |-> reader[v].houses, since |-> reader[v].since,
         notIn |-> soldOutEverywhere(reader[v].houses)] \in ReaderRows
    BY <2>1, <2>2 DEF ReaderRows
  <2>4. TypeOK'
    BY <1>4, TablesKept DEF ListWhere, selfTables, pageTables, TypeOK
  <2> QED BY <1>4, <1>1, <2>3, <2>4 DEF ListWhere
<1>5. ASSUME NEW v \in Readers, ListLoad(v) PROVE Types0'
  <2>1. reader[v] \in [step : {"load"}, houses : SUBSET Houses, since : Nat, notIn : SUBSET Dishes]
    BY <1>5 DEF ListLoad, ReadAt, ReaderRows
  <2>2. onTheMenu(reader[v].notIn) \in SUBSET Dishes
    BY DEF onTheMenu
  <2> DEFINE kept == [step |-> "keep", houses |-> reader[v].houses, since |-> reader[v].since,
                      shown |-> onTheMenu(reader[v].notIn)]
  <2>3. [step |-> "idle"] \in ReaderRows /\ kept \in ReaderRows
    BY <2>1, <2>2 DEF ReaderRows
  <2>4. (IF page.held THEN [step |-> "idle"] ELSE kept) \in ReaderRows
    BY <2>3
  <2>5. TypeOK'
    BY <1>5, TablesKept DEF ListLoad, selfTables, pageTables, TypeOK
  <2> QED BY <1>5, <1>1, <2>4, <2>5 DEF ListLoad
<1>6. ASSUME NEW v \in Readers, ListKeep(v) PROVE Types0'
  <2>1. reader[v] \in [step : {"keep"}, houses : SUBSET Houses, since : Nat, shown : SUBSET Dishes]
    BY <1>6 DEF ListKeep, ReadAt, ReaderRows
  <2>2. TypeOK'
    BY <1>6, <2>1 DEF ListKeep, menuTables, selfTables, TypeOK
  <2>3. [step |-> "idle"] \in ReaderRows
    BY DEF ReaderRows
  <2> QED BY <1>6, <1>1, <2>2, <2>3 DEF ListKeep
<1>7. ASSUME PageExpires \/ MemoExpires PROVE Types0'
  BY <1>7 DEF PageExpires, MemoExpires, NoPage, menuTables, selfTables, TypeOK, DesksOK
<1> QED BY <1>2, <1>3, <1>4, <1>5, <1>6, <1>7 DEF PageNext

LEMMA HouseTypes == Types0 /\ HouseNext => Types0'
<1> SUFFICES ASSUME Types0, NEW q \in Desks,
                    \/ \E h \in Houses :
                         \/ CreateHouse(q, h) \/ CloseHouse(q, h)
                         \/ \E active, open \in BOOLEAN : UpdateHouse(q, h, active, open)
                         \/ \E open \in BOOLEAN, modes \in SUBSET Modes :
                              UpdateSettings(q, h, open, modes)
                    \/ CloseHouseTx(q) \/ Forget(q)
             PROVE  Types0'
  BY DEF HouseNext
<1>0. RowOK(Idle) /\ RowOK([step |-> "forget"])
  BY PlainIsOK DEF Plain, Idle
<1>1. ASSUME NEW op, NEW row, RowOK(row), Begin(q, op, row), UNCHANGED besides,
             house' \in [Houses -> HouseRows]
      PROVE  Types0'
  <2>1. TypeOK'
    BY <1>1, ShopAssumption DEF Begin, besides, menuTables, selfTables, pageTables,
       Types0, TypeOK, ShopAssumption
  <2> QED BY <1>1, <2>1, OneMove DEF Begin
<1>2. ASSUME NEW h \in Houses, CreateHouse(q, h) PROVE Types0'
  <2>1. house' \in [Houses -> HouseRows]
    BY <1>2 DEF CreateHouse, Types0, TypeOK, HouseRows
  <2>2. Begin(q, "createHouse", [step |-> "forget"]) /\ UNCHANGED besides
    BY <1>2 DEF CreateHouse
  <2> QED BY <1>0, <1>1, <2>1, <2>2
<1>3. ASSUME NEW h \in Houses, NEW active \in BOOLEAN, NEW open \in BOOLEAN,
             UpdateHouse(q, h, active, open)
      PROVE  Types0'
  <2>1. house' \in [Houses -> HouseRows]
    <3>1. house \in [Houses -> HouseRows] /\ house[h] \in HouseRows
      BY DEF Types0, TypeOK
    <3>2. [house[h] EXCEPT !.active = active, !.open = open] \in HouseRows
      BY <3>1 DEF HouseRows
    <3>3. house' = [house EXCEPT ![h] = [house[h] EXCEPT !.active = active, !.open = open]]
      BY <1>3, <3>1 DEF UpdateHouse
    <3> QED BY <3>1, <3>2, <3>3
  <2>2. Begin(q, "updateHouse", [step |-> "forget"]) /\ UNCHANGED besides
    BY <1>3 DEF UpdateHouse
  <2> QED BY <1>0, <1>1, <2>1, <2>2
<1>4. ASSUME NEW h \in Houses, NEW open \in BOOLEAN, NEW modes \in SUBSET Modes,
             UpdateSettings(q, h, open, modes)
      PROVE  Types0'
  <2>1. house' \in [Houses -> HouseRows]
    <3>1. house \in [Houses -> HouseRows] /\ house[h] \in HouseRows
      BY DEF Types0, TypeOK
    <3>2. [house[h] EXCEPT !.open = open, !.modes = modes] \in HouseRows
      BY <3>1 DEF HouseRows, Modes
    <3>3. house' = [house EXCEPT ![h] = [house[h] EXCEPT !.open = open, !.modes = modes]]
      BY <1>4, <3>1 DEF UpdateSettings
    <3> QED BY <3>1, <3>2, <3>3
  <2>2. Begin(q, "updateSettings", Idle) /\ UNCHANGED besides
    BY <1>4 DEF UpdateSettings
  <2> QED BY <1>0, <1>1, <2>1, <2>2
<1>5. ASSUME NEW h \in Houses, CloseHouse(q, h) PROVE Types0'
  <2>1. RowOK([step |-> "closeHouse", house |-> h])
    BY DEF RowOK
  <2> QED BY <1>5, <2>1, BeginOnly DEF CloseHouse, besides, selfTables
<1>6. ASSUME CloseHouseTx(q) PROVE Types0'
  <2>1. desk[q].house \in Houses
    BY <1>6 DEF Types0, DesksOK, RowOK, CloseHouseTx, At
  <2>2. house' \in [Houses -> HouseRows]
    BY <1>6, <2>1 DEF CloseHouseTx, Types0, TypeOK, HouseRows
  <2>3. TypeOK'
    BY <1>6, <2>2 DEF CloseHouseTx, GoOn, besides, menuTables, selfTables, pageTables,
       Types0, TypeOK
  <2> QED BY <1>0, <1>6, <2>3, OneMove DEF CloseHouseTx, GoOn
<1>7. ASSUME Forget(q) PROVE Types0'
  <2>1. TypeOK'
    BY <1>7 DEF Forget, Finish, GoOn, menuTables, selfTables, Types0, TypeOK
  <2> QED BY <1>0, <1>7, <2>1, OneMove DEF Forget, Finish, GoOn
<1> QED BY <1>2, <1>3, <1>4, <1>5, <1>6, <1>7

(***************************************************************************)
(* Carts                                                                   *)
(***************************************************************************)
LEMMA CartMove ==
  ASSUME Types0, NEW q \in Desks, NEW row, RowOK(row), desk' = [desk EXCEPT ![q] = row],
         calls' \in 0..MaxCalls, line' \in [Lines -> LineRows],
         UNCHANGED <<apart, reader>>
  PROVE  Types0'
<1>1. TypeOK'
  BY DEF Types0, TypeOK, apart, menuTables, selfTables, pageTables
<1> QED BY <1>1, OneMove

LEMMA CartBegin ==
  ASSUME Types0, NEW q \in Desks, NEW op, NEW row, RowOK(row), Begin(q, op, row),
         line' \in [Lines -> LineRows], UNCHANGED apart
  PROVE  Types0'
<1>1. calls' \in 0..MaxCalls /\ UNCHANGED reader /\ desk' = [desk EXCEPT ![q] = row]
  BY ShopAssumption DEF Begin, Types0, TypeOK, ShopAssumption
<1> QED BY <1>1, CartMove

LEMMA CartEnd ==
  ASSUME Types0, NEW q \in Desks, Finish(q), line' \in [Lines -> LineRows],
         UNCHANGED apart
  PROVE  Types0'
<1>1. RowOK(Idle)
  BY PlainIsOK DEF Plain, Idle
<1>2. calls' \in 0..MaxCalls /\ UNCHANGED reader /\ desk' = [desk EXCEPT ![q] = Idle]
  BY DEF Finish, GoOn, Types0, TypeOK
<1> QED BY <1>1, <1>2, CartMove

LEMMA LinePut ==
  ASSUME line \in [Lines -> LineRows], NEW l \in Lines, NEW row \in LineRows,
         line' = [line EXCEPT ![l] = row]
  PROVE  line' \in [Lines -> LineRows]
OBVIOUS

LEMMA Emptied == ASSUME Types0, NEW c \in Customers PROVE emptied(c) \in [Lines -> LineRows]
<1> SUFFICES ASSUME NEW l \in Lines
             PROVE  [line[l] EXCEPT !.live = @ /\ line[l].customer # c] \in LineRows
  BY DEF emptied
<1>1. line[l] \in LineRows /\ (line[l].live /\ line[l].customer # c) \in BOOLEAN
  BY DEF Types0, TypeOK, LineRows
<1> QED BY <1>1 DEF LineRows

LEMMA AddItemType ==
  ASSUME Types0, NEW q \in Desks, NEW c \in Customers, NEW d \in Dishes,
         NEW chosen \in SUBSET Options, NEW quantity \in 1..MaxQuantity,
         AddItem(q, c, d, chosen, quantity)
  PROVE  Types0'
<1> DEFINE twin == twins(c, d, chosen)
           merged == [l \in twin |-> capped(line[l].quantity + quantity)]
           row == [step |-> "addItem", customer |-> c, dish |-> d, options |-> chosen,
                   quantity |-> quantity, twin |-> twin, merged |-> merged]
<1>1. twin \subseteq Lines
  BY DEF twins, cartOf
<1>2. ASSUME NEW l \in twin PROVE merged[l] \in 0..MaxQuantity
  <2>1. line[l].quantity \in 0..MaxQuantity
    BY <1>1, <1>2 DEF Types0, TypeOK, LineRows
  <2>2. capped(line[l].quantity + quantity) \in 0..MaxQuantity
    BY <2>1, ShopAssumption DEF capped, ShopAssumption
  <2> QED BY <1>2, <2>2
<1>3. RowOK(row)
  <2> HIDE DEF twin, merged
  <2> QED BY <1>1, <1>2 DEF RowOK
<1>4. Begin(q, "addItem", row) /\ UNCHANGED <<line, apart>>
  BY DEF AddItem
<1>5. line' \in [Lines -> LineRows]
  BY <1>4 DEF Types0, TypeOK
<1> HIDE DEF row
<1> QED BY <1>3, <1>4, <1>5, CartBegin

LEMMA AddItemWriteType == ASSUME Types0, NEW q \in Desks, AddItemWrite(q) PROVE Types0'
<1> DEFINE body == desk[q]
           added == [live |-> TRUE, customer |-> body.customer, dish |-> body.dish,
                     options |-> body.options, quantity |-> body.quantity]
<1>1. /\ body.customer \in Customers /\ body.dish \in Dishes /\ body.options \subseteq Options
      /\ body.quantity \in 1..MaxQuantity /\ body.twin \subseteq Lines
      /\ \A l \in body.twin : body.merged[l] \in 0..MaxQuantity
  BY DEF Types0, DesksOK, RowOK, AddItemWrite, At
<1>2. line \in [Lines -> LineRows] /\ added \in LineRows
  BY <1>1 DEF Types0, TypeOK, LineRows
<1>3. ASSUME NEW l \in Lines, line' = [line EXCEPT ![l] = added]
      PROVE  line' \in [Lines -> LineRows]
  BY <1>2, <1>3, LinePut
<1>4. ASSUME NEW l \in body.twin, line' = [line EXCEPT ![l].quantity = body.merged[l]]
      PROVE  line' \in [Lines -> LineRows]
  <2>1. l \in Lines /\ body.merged[l] \in 0..MaxQuantity /\ line[l] \in LineRows
    BY <1>1, <1>2, <1>4
  <2>2. [line[l] EXCEPT !.quantity = body.merged[l]] \in LineRows
    BY <2>1 DEF LineRows
  <2>3. line' = [line EXCEPT ![l] = [line[l] EXCEPT !.quantity = body.merged[l]]]
    BY <1>2, <1>4, <2>1
  <2> QED BY <1>2, <2>1, <2>2, <2>3, LinePut
<1>5. \/ UNCHANGED line
      \/ \E l \in Lines : line' = [line EXCEPT ![l] = added]
      \/ \E l \in body.twin : line' = [line EXCEPT ![l].quantity = body.merged[l]]
  BY DEF AddItemWrite
<1>6. line' \in [Lines -> LineRows]
  <2> HIDE DEF body, added
  <2> QED BY <1>2, <1>3, <1>4, <1>5
<1> QED BY <1>6, CartEnd DEF AddItemWrite, Types0, TypeOK

LEMMA UpdateItemTypes ==
  ASSUME Types0, NEW q \in Desks
  PROVE  /\ \A l \in Lines :
              /\ \A quantity \in {{}} \union {{n} : n \in 0..MaxQuantity},
                   chosen \in {{}} \union {{o} : o \in SUBSET Options} :
                   UpdateItem(q, l, quantity, chosen) => Types0'
              /\ RemoveItem(q, l) => Types0'
         /\ UpdateItemTx(q) => Types0'
<1>0. RowOK(Idle) /\ line \in [Lines -> LineRows]
  BY PlainIsOK DEF Plain, Idle, Types0, TypeOK
<1>1. ASSUME NEW l \in Lines, NEW op, Begin(q, op, Idle),
             line' = [line EXCEPT ![l].live = FALSE], UNCHANGED apart
      PROVE  Types0'
  <2>1. [line[l] EXCEPT !.live = FALSE] \in LineRows
    BY <1>0 DEF LineRows
  <2>2. line' = [line EXCEPT ![l] = [line[l] EXCEPT !.live = FALSE]]
    BY <1>0, <1>1
  <2>3. line' \in [Lines -> LineRows]
    BY <1>0, <2>1, <2>2, LinePut
  <2> QED BY <1>0, <1>1, <2>3, CartBegin
<1>2. ASSUME NEW l \in Lines, NEW quantity \in {{}} \union {{n} : n \in 0..MaxQuantity},
             NEW chosen \in {{}} \union {{o} : o \in SUBSET Options},
             UpdateItem(q, l, quantity, chosen)
      PROVE  Types0'
  <2>1. CASE 0 \in quantity
    BY <1>1, <1>2, <2>1 DEF UpdateItem
  <2>2. CASE 0 \notin quantity
    <3>1. RowOK([step |-> "updateItem", line |-> l, quantity |-> quantity, options |-> chosen])
      BY DEF RowOK
    <3> QED BY <1>0, <1>2, <2>2, <3>1, CartBegin DEF UpdateItem
  <2> QED BY <2>1, <2>2
<1>3. ASSUME NEW l \in Lines, RemoveItem(q, l) PROVE Types0'
  BY <1>1, <1>3 DEF RemoveItem
<1>4. ASSUME UpdateItemTx(q) PROVE Types0'
  <2> DEFINE body == desk[q]
             l == desk[q].line
             row == [line[l] EXCEPT !.quantity = given(body.quantity, line[l].quantity),
                                    !.options = given(body.options, line[l].options)]
  <2>1. /\ l \in Lines /\ body.quantity \in {{}} \union {{n} : n \in 0..MaxQuantity}
        /\ body.options \in {{}} \union {{o} : o \in SUBSET Options}
    BY <1>4 DEF Types0, DesksOK, RowOK, UpdateItemTx, At
  <2>2. line[l] \in LineRows /\ line[l].quantity \in 0..MaxQuantity /\ line[l].options \in SUBSET Options
    BY <1>0, <2>1 DEF LineRows
  <2>3. given(body.quantity, line[l].quantity) \in 0..MaxQuantity
    <3> DEFINE S == 0..MaxQuantity
    <3>1. body.quantity \in {{}} \union {{n} : n \in S} /\ line[l].quantity \in S
      BY <2>1, <2>2
    <3> HIDE DEF S, body, l
    <3>2. given(body.quantity, line[l].quantity) \in S
      BY <3>1, GivenIs
    <3> QED BY <3>2 DEF S
  <2>4. given(body.options, line[l].options) \in SUBSET Options
    <3> DEFINE S == SUBSET Options
    <3>1. body.options \in {{}} \union {{o} : o \in S} /\ line[l].options \in S
      BY <2>1, <2>2
    <3> HIDE DEF S, body, l
    <3>2. given(body.options, line[l].options) \in S
      BY <3>1, GivenIs
    <3> QED BY <3>2 DEF S
  <2>5. row \in LineRows
    BY <2>2, <2>3, <2>4 DEF LineRows
  <2>6. UNCHANGED line \/ line' = [line EXCEPT ![l] = row]
    BY <1>0, <1>4, <2>1 DEF UpdateItemTx
  <2>7. line' \in [Lines -> LineRows]
    BY <1>0, <2>1, <2>5, <2>6, LinePut
  <2> QED BY <1>0, <1>4, <2>7, CartEnd DEF UpdateItemTx
<1> QED BY <1>2, <1>3, <1>4

LEMMA CheckoutTypes ==
  ASSUME Types0, NEW q \in Desks
  PROVE  /\ \A c \in Customers : Clear(q, c) => Types0'
         /\ \A c \in Customers : \A nearest, position, mode :
              Checkout(q, c, nearest, position, mode) => Types0'
         /\ CheckoutTx(q) => Types0'
<1>1. ASSUME NEW c \in Customers, Clear(q, c) PROVE Types0'
  <2>1. RowOK(Idle)
    BY PlainIsOK DEF Plain, Idle
  <2> QED BY <1>1, <2>1, Emptied, CartBegin DEF Clear
<1>2. ASSUME NEW c \in Customers, NEW nearest, NEW position, NEW mode,
             Checkout(q, c, nearest, position, mode)
      PROVE  Types0'
  <2>1. PICK row : row.step = "checkout" /\ row.customer = c /\ Begin(q, "checkout", row)
    BY <1>2 DEF Checkout
  <2>2. RowOK(row)
    BY <2>1 DEF RowOK
  <2>3. UNCHANGED apart /\ line' \in [Lines -> LineRows]
    BY <1>2 DEF Checkout, Types0, TypeOK
  <2> QED BY <2>1, <2>2, <2>3, CartBegin
<1>3. ASSUME CheckoutTx(q) PROVE Types0'
  <2> DEFINE body == desk[q]
  <2>1. body.customer \in Customers
    BY <1>3 DEF Types0, DesksOK, RowOK, CheckoutTx, At
  <2>2. /\ line' = emptied(body.customer) \/ UNCHANGED line
        /\ Finish(q) /\ UNCHANGED apart
    BY <1>3 DEF CheckoutTx
  <2>3. line' \in [Lines -> LineRows]
    BY <2>1, <2>2, Emptied DEF Types0, TypeOK
  <2> QED BY <2>2, <2>3, CartEnd
<1> QED BY <1>1, <1>2, <1>3

LEMMA CartTypes == Types0 /\ CartNext => Types0'
<1> SUFFICES ASSUME Types0, NEW q \in Desks,
                    \/ \E c \in Customers :
                         \/ \E d \in Dishes, chosen \in SUBSET Options, quantity \in 1..MaxQuantity :
                              AddItem(q, c, d, chosen, quantity)
                         \/ Clear(q, c)
                         \/ \E position \in Places0, mode \in Modes :
                              \E nearest \in servedBy(c, position) :
                                Checkout(q, c, nearest, position, mode)
                    \/ \E l \in Lines :
                         \/ \E quantity \in {{}} \union {{n} : n \in 0..MaxQuantity},
                               chosen \in {{}} \union {{options} : options \in SUBSET Options} :
                              UpdateItem(q, l, quantity, chosen)
                         \/ RemoveItem(q, l)
                    \/ AddItemWrite(q) \/ UpdateItemTx(q) \/ CheckoutTx(q)
             PROVE  Types0'
  BY DEF CartNext
<1> QED BY AddItemType, AddItemWriteType, UpdateItemTypes, CheckoutTypes

(***************************************************************************)
(* Address books and reviews: nothing these types are about is written     *)
(***************************************************************************)
LEMMA AsideBegin ==
  ASSUME Types0, NEW q \in Desks, NEW op, NEW row, row.step \in Plain, Begin(q, op, row),
         UNCHANGED <<promotion, beside>>
  PROVE  Types0'
BY PlainIsOK, BeginOnly DEF beside

LEMMA AsideGoOn ==
  ASSUME Types0, NEW q \in Desks, NEW row, row.step \in Plain, GoOn(q, row),
         UNCHANGED <<promotion, beside>>
  PROVE  Types0'
BY PlainIsOK, GoOnOnly DEF beside

LEMMA ProfileTypes == Types0 /\ ProfileNext => Types0'
<1> SUFFICES ASSUME Types0, NEW q \in Desks,
                    \/ \E c \in Customers, place \in Places0, default \in BOOLEAN :
                         CreateAddress(q, c, place, default)
                    \/ \E a \in Addresses :
                         \/ \E place \in {{}} \union {{p} : p \in Places},
                               default \in {{}, {TRUE}, {FALSE}} :
                              UpdateAddress(q, a, place, default)
                         \/ SetDefault(q, a) \/ RemoveAddress(q, a)
                    \/ CreateAddressTx(q) \/ UpdateAddressTx(q) \/ SetDefaultTx(q)
                    \/ RemoveAddressTx(q)
             PROVE  Types0'
  BY DEF ProfileNext
<1> USE DEF Plain, selfTables
<1>1. ASSUME NEW c, NEW place, NEW default, CreateAddress(q, c, place, default) PROVE Types0'
  BY <1>1, AsideBegin DEF CreateAddress
<1>2. ASSUME NEW a, NEW place, NEW default, UpdateAddress(q, a, place, default) PROVE Types0'
  BY <1>2, AsideBegin DEF UpdateAddress
<1>3. ASSUME NEW a, SetDefault(q, a) PROVE Types0'
  BY <1>3, AsideBegin DEF SetDefault
<1>4. ASSUME NEW a, RemoveAddress(q, a) PROVE Types0'
  BY <1>4, AsideBegin DEF RemoveAddress
<1>5. ASSUME Finish(q), UNCHANGED <<promotion, beside>> PROVE Types0'
  BY <1>5, AsideGoOn DEF Finish, Idle
<1>6. CASE CreateAddressTx(q)
  BY <1>5, <1>6 DEF CreateAddressTx
<1>7. CASE UpdateAddressTx(q)
  BY <1>5, <1>7 DEF UpdateAddressTx
<1>8. CASE SetDefaultTx(q)
  BY <1>5, <1>8 DEF SetDefaultTx
<1>9. CASE RemoveAddressTx(q)
  BY <1>5, <1>9 DEF RemoveAddressTx
<1> QED BY <1>1, <1>2, <1>3, <1>4, <1>6, <1>7, <1>8, <1>9

LEMMA ReviewTypes == Types0 /\ ReviewNext => Types0'
<1> SUFFICES ASSUME Types0, NEW q \in Desks,
                    \/ \E o \in Orders, rating \in {1, 4, 5} : CreateReview(q, o, rating)
                    \/ ReviewHouse(q) \/ ReviewOthers(q) \/ ReviewCommit(q)
             PROVE  Types0'
  BY DEF ReviewNext
<1> USE DEF Plain, selfTables
<1>1. ASSUME NEW o, NEW rating, CreateReview(q, o, rating) PROVE Types0'
  BY <1>1, AsideBegin DEF CreateReview
<1>2. CASE ReviewHouse(q)
  <2>1. PICK row : row.step \in Plain /\ GoOn(q, row)
    BY <1>2 DEF ReviewHouse, Idle
  <2> QED BY <1>2, <2>1, AsideGoOn DEF ReviewHouse
<1>3. CASE ReviewOthers(q)
  <2>1. PICK row : row.step \in Plain /\ GoOn(q, row)
    BY <1>3 DEF ReviewOthers
  <2> QED BY <1>3, <2>1, AsideGoOn DEF ReviewOthers
<1>4. CASE ReviewCommit(q)
  BY <1>4, AsideGoOn DEF ReviewCommit, Finish, Idle
<1> QED BY <1>1, <1>2, <1>3, <1>4

(***************************************************************************)
(* Promotions                                                              *)
(***************************************************************************)
consistent(row) == assertConsistent(row.type, row.value, row.starts, row.ends)

\* A promotion on offer makes sense, and so does one about to be written.
OffersKept ==
  /\ \A p \in Promotions : live(promotion[p]) => consistent(promotion[p])
  /\ \A q \in Desks : At(q, "updatePromotion") => consistent(desk[q].row)

LEMMA OffersAside ==
  ASSUME Types0, OffersKept, NEW q \in Desks, NEW row, desk' = [desk EXCEPT ![q] = row],
         row.step # "updatePromotion",
         \A p \in Promotions : live(promotion[p])' => consistent(promotion'[p])
  PROVE  OffersKept'
BY DEF Types0, DesksOK, OffersKept, At

LEMMA PromotionPut ==
  ASSUME Types0, NEW q \in Desks, NEW op, NEW p \in Promotions, NEW row \in PromotionRows,
         Begin(q, op, Idle), promotion' = [promotion EXCEPT ![p] = row],
         UNCHANGED <<address, review, note, beside>>
  PROVE  Types0' /\ (OffersKept /\ (live(row) => consistent(row)) => OffersKept')
<1>1. RowOK(Idle) /\ Idle.step # "updatePromotion"
  BY PlainIsOK DEF Plain, Idle
<1>2. promotion' \in [Promotions -> PromotionRows]
  BY DEF Types0, TypeOK
<1>3. TypeOK'
  BY <1>2, ShopAssumption DEF Begin, beside, menuTables, pageTables, Types0, TypeOK,
     ShopAssumption
<1>4. Types0'
  BY <1>1, <1>3, OneMove DEF Begin
<1>5. ASSUME OffersKept, live(row) => consistent(row)
      PROVE  \A r \in Promotions : live(promotion[r])' => consistent(promotion'[r])
  <2> SUFFICES ASSUME NEW r \in Promotions, live(promotion'[r]) PROVE consistent(promotion'[r])
    BY DEF live
  <2>1. CASE r = p
    BY <1>5, <2>1 DEF Types0, TypeOK
  <2>2. CASE r # p
    BY <1>5, <2>2 DEF Types0, TypeOK, OffersKept, live
  <2> QED BY <2>1, <2>2
<1> QED BY <1>1, <1>4, <1>5, OffersAside DEF Begin

LEMMA CreatePromotionStep ==
  ASSUME Types0, NEW q \in Desks, NEW p \in Promotions, NEW type \in Types, NEW value \in Percents,
         NEW cap \in Prices \union {Nothing}, NEW ends \in 1..2,
         CreatePromotion(q, p, type, value, cap, ends)
  PROVE  Types0' /\ (OffersKept => OffersKept')
<1> DEFINE row == [state |-> "live", type |-> type, value |-> value, cap |-> cap, active |-> TRUE,
                   starts |-> 1, ends |-> ends]
<1>1. row \in PromotionRows
  BY ShopAssumption DEF ShopAssumption, PromotionRows
<1>2. consistent(row)
  BY DEF CreatePromotion, consistent
<1>3. /\ Begin(q, "createPromotion", Idle) /\ promotion' = [promotion EXCEPT ![p] = row]
      /\ UNCHANGED <<address, review, note, beside>>
  BY DEF CreatePromotion
<1> HIDE DEF row
<1> QED BY <1>1, <1>2, <1>3, PromotionPut

LEMMA EditedIs ==
  ASSUME Types0, NEW p \in Promotions, NEW body \in OfferBodies
  PROVE  edited(p, body) \in PromotionRows
<1>1. promotion[p] \in PromotionRows
  BY DEF Types0, TypeOK
<1>2. given(body.type, promotion[p].type) \in Types
  BY <1>1, GivenIs DEF PromotionRows, OfferBodies
<1>3. given(body.value, promotion[p].value) \in Nat
  <2>1. CASE body.value = {}
    BY <1>1, <2>1 DEF given, PromotionRows
  <2>2. CASE body.value # {}
    <3>1. body.value \in {{}} \union {{n} : n \in Percents}
      BY DEF OfferBodies
    <3>2. given(body.value, promotion[p].value) \in Percents
      BY <2>2, <3>1, GivenIs
    <3> QED BY <3>2, ShopAssumption DEF ShopAssumption
  <2> QED BY <2>1, <2>2
<1>4. ASSUME NEW day \in {{}, {1}, {2}}, NEW former \in Nat PROVE given(day, former) \in Nat
  <2>1. CASE day = {}
    BY <2>1 DEF given
  <2>2. CASE day # {}
    BY <2>2 DEF given
  <2> QED BY <2>1, <2>2
<1>5. /\ given(body.starts, promotion[p].starts) \in Nat
      /\ given(body.ends, promotion[p].ends) \in Nat
  BY <1>1, <1>4 DEF PromotionRows, OfferBodies
<1> QED BY <1>1, <1>2, <1>3, <1>5 DEF edited, PromotionRows

LEMMA UpdatePromotionStep ==
  ASSUME Types0, NEW q \in Desks, NEW p \in Promotions, NEW body \in UsualOffers,
         UpdatePromotion(q, p, body)
  PROVE  Types0' /\ (OffersKept => OffersKept')
<1>1. PICK row : row = edited(p, body)
  OBVIOUS
<1>2. body \in OfferBodies
  BY DEF UsualOffers
<1>3. row \in PromotionRows
  BY <1>1, <1>2, EditedIs
<1> DEFINE pending == [step |-> "updatePromotion", promotion |-> p, row |-> row, body |-> body]
<1>6. /\ Begin(q, "updatePromotion", pending) /\ consistent(row)
      /\ UNCHANGED <<selfTables, beside>>
  BY <1>1 DEF UpdatePromotion, consistent
<1>7. RowOK(pending)
  BY <1>2, <1>3 DEF RowOK
<1>8. Types0'
  BY <1>6, <1>7, BeginOnly DEF selfTables, beside
<1>9. ASSUME OffersKept PROVE OffersKept'
  <2>1. promotion' = promotion /\ desk' = [desk EXCEPT ![q] = pending]
    BY <1>6 DEF Begin, selfTables
  <2>2. ASSUME NEW r \in Desks, At(r, "updatePromotion")' PROVE consistent(desk'[r].row)
    BY <1>6, <1>9, <2>1, <2>2 DEF Types0, DesksOK, OffersKept, At
  <2> QED BY <1>9, <2>1, <2>2 DEF OffersKept, At, live, consistent, assertConsistent
<1> QED BY <1>8, <1>9

LEMMA UpdatePromotionWriteStep ==
  ASSUME Types0, NEW q \in Desks, UpdatePromotionWrite(q)
  PROVE  Types0' /\ (OffersKept => OffersKept')
<1> DEFINE p == desk[q].promotion
           sent == desk[q].row
           body == desk[q].body
           row == [promotion[p] EXCEPT !.type = sent.type, !.value = sent.value,
                                       !.starts = sent.starts, !.ends = sent.ends,
                                       !.cap = given(body.cap, promotion[p].cap),
                                       !.active = given(body.active, promotion[p].active)]
<1>1. p \in Promotions /\ sent \in PromotionRows /\ body \in OfferBodies
  BY DEF Types0, DesksOK, RowOK, UpdatePromotionWrite, At
<1>2. promotion[p] \in PromotionRows
  BY <1>1 DEF Types0, TypeOK
<1>10. /\ given(body.cap, promotion[p].cap) \in Prices \union {Nothing}
       /\ given(body.active, promotion[p].active) \in BOOLEAN
  <2>1. given(body.cap, promotion[p].cap) \in Prices \union {Nothing}
    <3> DEFINE S == Prices \union {Nothing}
    <3>1. body.cap \in {{}} \union {{n} : n \in S} /\ promotion[p].cap \in S
      BY <1>1, <1>2 DEF OfferBodies, PromotionRows
    <3> HIDE DEF S, p, body
    <3>2. given(body.cap, promotion[p].cap) \in S
      BY <3>1, GivenOrFormer
    <3> QED BY <3>2 DEF S
  <2>2. given(body.active, promotion[p].active) \in BOOLEAN
    <3>1. /\ body.active \in {{}} \union {{b} : b \in BOOLEAN}
          /\ promotion[p].active \in BOOLEAN
      BY <1>1, <1>2 DEF OfferBodies, PromotionRows
    <3> HIDE DEF p, body
    <3> QED BY <3>1, GivenOrFormer
  <2> QED BY <2>1, <2>2
<1>3. row \in PromotionRows
  BY <1>1, <1>2, <1>10 DEF PromotionRows
<1>4. promotion' = [promotion EXCEPT ![p] = row]
  BY <1>1 DEF UpdatePromotionWrite, Types0, TypeOK
<1>5. promotion' \in [Promotions -> PromotionRows]
  BY <1>1, <1>3, <1>4 DEF Types0, TypeOK
<1>6. RowOK(Idle) /\ Idle.step # "updatePromotion"
  BY PlainIsOK DEF Plain, Idle
<1>7. TypeOK'
  BY <1>5 DEF UpdatePromotionWrite, Finish, GoOn, beside, menuTables, pageTables,
     Types0, TypeOK
<1>8. Types0'
  BY <1>6, <1>7, OneMove DEF UpdatePromotionWrite, Finish, GoOn
<1>9. ASSUME OffersKept PROVE OffersKept'
  <2>1. consistent(row)
    <3>1. consistent(sent)
      BY <1>9 DEF OffersKept, UpdatePromotionWrite
    <3>2. row.type = sent.type /\ row.value = sent.value /\ row.starts = sent.starts
            /\ row.ends = sent.ends
      BY <1>2 DEF PromotionRows
    <3> QED BY <3>1, <3>2 DEF consistent
  <2>2. ASSUME NEW r \in Promotions, live(promotion'[r]) PROVE consistent(promotion'[r])
    <3>1. CASE r = p
      BY <1>1, <1>4, <2>1, <3>1 DEF Types0, TypeOK
    <3>2. CASE r # p
      BY <1>4, <1>9, <2>2, <3>2 DEF Types0, TypeOK, OffersKept, live
    <3> QED BY <3>1, <3>2
  <2> QED BY <1>6, <1>9, <2>2, OffersAside DEF UpdatePromotionWrite, Finish, GoOn, live
<1> QED BY <1>8, <1>9

LEMMA SwitchPromotionSteps ==
  ASSUME Types0, NEW q \in Desks, NEW p \in Promotions,
         \/ \E active \in BOOLEAN : SetPromotionActive(q, p, active)
         \/ RemovePromotion(q, p)
  PROVE  Types0' /\ (OffersKept => OffersKept')
<1>1. promotion \in [Promotions -> PromotionRows]
  BY DEF Types0, TypeOK
<1>2. ASSUME NEW active \in BOOLEAN, SetPromotionActive(q, p, active)
      PROVE  Types0' /\ (OffersKept => OffersKept')
  <2> DEFINE row == [promotion[p] EXCEPT !.active = active]
  <2>1. row \in PromotionRows /\ (consistent(promotion[p]) => consistent(row))
    BY <1>1 DEF PromotionRows, consistent
  <2>2. promotion' = [promotion EXCEPT ![p] = row]
    BY <1>1, <1>2 DEF SetPromotionActive
  <2>3. OffersKept => consistent(row)
    BY <1>2, <2>1 DEF OffersKept, SetPromotionActive
  <2> HIDE DEF row
  <2> QED BY <1>2, <2>1, <2>2, <2>3, PromotionPut DEF SetPromotionActive
<1>3. ASSUME RemovePromotion(q, p) PROVE Types0' /\ (OffersKept => OffersKept')
  <2> DEFINE row == [promotion[p] EXCEPT !.state = "removed", !.active = FALSE]
  <2>1. row \in PromotionRows /\ ~ live(row)
    BY <1>1 DEF PromotionRows, live
  <2>2. promotion' = [promotion EXCEPT ![p] = row]
    BY <1>1, <1>3 DEF RemovePromotion
  <2> HIDE DEF row
  <2> QED BY <1>3, <2>1, <2>2, PromotionPut DEF RemovePromotion
<1> QED BY <1>2, <1>3

LEMMA OfferSteps == Types0 /\ OfferNext => Types0' /\ (OffersKept => OffersKept')
BY CreatePromotionStep, UpdatePromotionStep, UpdatePromotionWriteStep, SwitchPromotionSteps
DEF OfferNext

(***************************************************************************)
(* What each group of routes leaves alone                                  *)
(***************************************************************************)
moves(q, row) == desk' = [desk EXCEPT ![q] = row]

\* The steps that act on something read before.
Watched == {"createDish", "updateDish", "removeCategory", "addItem"}

Acting == Watched \union {"updatePromotion", "updateItem"}

LEMMA BeginMoves == \A q, op, row : Begin(q, op, row) => moves(q, row) /\ At(q, "idle")
BY DEF Begin, moves

LEMMA EndMoves == \A q, row : GoOn(q, row) => moves(q, row)
BY DEF GoOn, moves

LEMMA PagesAside == PageNext => UNCHANGED <<desk, menuTables, line, promotion>>
<1> SUFFICES ASSUME PageNext PROVE UNCHANGED <<desk, menuTables, line, promotion>>
  OBVIOUS
<1>1. ASSUME NEW v, ListHouses(v) PROVE UNCHANGED <<desk, menuTables, line, promotion>>
  BY <1>1 DEF ListHouses, ReadOn, selfTables
<1>2. ASSUME NEW v, RememberHouses(v) PROVE UNCHANGED <<desk, menuTables, line, promotion>>
  BY <1>2 DEF RememberHouses, ReadOn, selfTables
<1>3. ASSUME NEW v, ListWhere(v) PROVE UNCHANGED <<desk, menuTables, line, promotion>>
  BY <1>3 DEF ListWhere, ReadOn, selfTables
<1>4. ASSUME NEW v, ListLoad(v) PROVE UNCHANGED <<desk, menuTables, line, promotion>>
  BY <1>4 DEF ListLoad, ReadOn, selfTables
<1>5. ASSUME NEW v, ListKeep(v) PROVE UNCHANGED <<desk, menuTables, line, promotion>>
  BY <1>5 DEF ListKeep, ReadOn, selfTables
<1>6. PageExpires \/ MemoExpires => UNCHANGED <<desk, menuTables, line, promotion>>
  BY DEF PageExpires, MemoExpires, selfTables
<1> QED BY <1>1, <1>2, <1>3, <1>4, <1>5, <1>6 DEF PageNext

LEMMA HousesAside ==
  HouseNext => \E q \in Desks : \E row :
                 moves(q, row) /\ row.step \notin Acting
                 /\ UNCHANGED <<menuTables, line, promotion>>
<1> SUFFICES ASSUME NEW q \in Desks,
                    \/ \E h \in Houses :
                         \/ CreateHouse(q, h) \/ CloseHouse(q, h)
                         \/ \E active, open \in BOOLEAN : UpdateHouse(q, h, active, open)
                         \/ \E open \in BOOLEAN, modes \in SUBSET Modes :
                              UpdateSettings(q, h, open, modes)
                    \/ CloseHouseTx(q) \/ Forget(q)
             PROVE  \E row : /\ moves(q, row) /\ row.step \notin Acting
                             /\ UNCHANGED <<menuTables, line, promotion>>
  BY DEF HouseNext
<1> DEFINE Goal == \E row : /\ moves(q, row) /\ row.step \notin Acting
                             /\ UNCHANGED <<menuTables, line, promotion>>
<1> USE DEF besides, selfTables, Idle, Acting, Watched
<1>1. ASSUME NEW h, CreateHouse(q, h) PROVE Goal
  BY <1>1, BeginMoves DEF CreateHouse
<1>2. ASSUME NEW h, CloseHouse(q, h) PROVE Goal
  BY <1>2, BeginMoves DEF CloseHouse
<1>3. ASSUME NEW h, NEW active, NEW open, UpdateHouse(q, h, active, open) PROVE Goal
  BY <1>3, BeginMoves DEF UpdateHouse
<1>4. ASSUME NEW h, NEW open, NEW modes, UpdateSettings(q, h, open, modes) PROVE Goal
  BY <1>4, BeginMoves DEF UpdateSettings
<1>5. ASSUME CloseHouseTx(q) PROVE Goal
  BY <1>5, EndMoves DEF CloseHouseTx
<1>6. ASSUME Forget(q) PROVE Goal
  BY <1>6, EndMoves DEF Forget, Finish
<1> QED BY <1>1, <1>2, <1>3, <1>4, <1>5, <1>6

LEMMA ProfilesAside ==
  ProfileNext \/ ReviewNext =>
    \E q \in Desks : \E row :
      moves(q, row) /\ row.step \notin Acting
      /\ UNCHANGED <<menuTables, line, promotion>>
<1> SUFFICES ASSUME ProfileNext \/ ReviewNext
             PROVE  \E q \in Desks : \E row :
                      moves(q, row) /\ row.step \notin Acting
                      /\ UNCHANGED <<menuTables, line, promotion>>
  OBVIOUS
<1> DEFINE Goal(q) == \E row : /\ moves(q, row)
                               /\ row.step \notin Acting
                               /\ UNCHANGED <<menuTables, line, promotion>>
<1> USE DEF beside, selfTables, Idle, Acting, Watched
<1>1. ASSUME NEW q, NEW c, NEW place, NEW default, CreateAddress(q, c, place, default) PROVE Goal(q)
  BY <1>1, BeginMoves DEF CreateAddress
<1>2. ASSUME NEW q, NEW a, NEW place, NEW default, UpdateAddress(q, a, place, default) PROVE Goal(q)
  BY <1>2, BeginMoves DEF UpdateAddress
<1>3. ASSUME NEW q, NEW a, SetDefault(q, a) \/ RemoveAddress(q, a) PROVE Goal(q)
  BY <1>3, BeginMoves DEF SetDefault, RemoveAddress
<1>4. ASSUME NEW q, CreateAddressTx(q) \/ UpdateAddressTx(q) \/ SetDefaultTx(q) \/ RemoveAddressTx(q)
      PROVE  Goal(q)
  <2>1. Finish(q) /\ UNCHANGED <<menuTables, line, promotion>>
    BY <1>4 DEF CreateAddressTx, UpdateAddressTx, SetDefaultTx, RemoveAddressTx
  <2> QED BY <2>1, EndMoves DEF Finish
<1>5. ASSUME NEW q, NEW o, NEW rating, CreateReview(q, o, rating) PROVE Goal(q)
  BY <1>5, BeginMoves DEF CreateReview
<1>6. ASSUME NEW q, ReviewHouse(q) PROVE Goal(q)
  <2>1. PICK row : row.step \in {"idle", "reviewOthers"} /\ GoOn(q, row)
    BY <1>6 DEF ReviewHouse
  <2> QED BY <1>6, <2>1, EndMoves DEF ReviewHouse
<1>7. ASSUME NEW q, ReviewOthers(q) \/ ReviewCommit(q) PROVE Goal(q)
  <2>1. PICK row : row.step \in {"idle", "reviewCommit"} /\ GoOn(q, row)
    BY <1>7 DEF ReviewOthers, ReviewCommit, Finish
  <2> QED BY <1>7, <2>1, EndMoves DEF ReviewOthers, ReviewCommit
<1> HIDE DEF Goal
<1>8. \E q \in Desks : Goal(q)
  BY <1>1, <1>2, <1>3, <1>4, <1>5, <1>6, <1>7 DEF ProfileNext, ReviewNext
<1> QED BY <1>8 DEF Goal

LEMMA OffersApart ==
  OfferNext => \E q \in Desks : \E row :
                 moves(q, row) /\ row.step \notin Watched \union {"updateItem"} /\ UNCHANGED <<menuTables, line>>
<1> SUFFICES ASSUME OfferNext
             PROVE  \E q \in Desks : \E row :
                      moves(q, row) /\ row.step \notin Watched \union {"updateItem"} /\ UNCHANGED <<menuTables, line>>
  OBVIOUS
<1> DEFINE Goal(q) == \E row : /\ moves(q, row) /\ row.step \notin Watched \union {"updateItem"}
                               /\ UNCHANGED <<menuTables, line>>
<1> USE DEF beside, Idle, Watched
<1>1. ASSUME NEW q, NEW p, NEW type, NEW value, NEW cap, NEW ends,
             CreatePromotion(q, p, type, value, cap, ends)
      PROVE  Goal(q)
  BY <1>1, BeginMoves DEF CreatePromotion
<1>2. ASSUME NEW q, NEW p, NEW body, UpdatePromotion(q, p, body)
      PROVE  Goal(q)
  <2>1. PICK row : row.step = "updatePromotion" /\ Begin(q, "updatePromotion", row)
    BY <1>2 DEF UpdatePromotion
  <2> QED BY <1>2, <2>1, BeginMoves DEF UpdatePromotion
<1>3. ASSUME NEW q, NEW p, NEW active, SetPromotionActive(q, p, active) PROVE Goal(q)
  BY <1>3, BeginMoves DEF SetPromotionActive
<1>4. ASSUME NEW q, NEW p, RemovePromotion(q, p) PROVE Goal(q)
  BY <1>4, BeginMoves DEF RemovePromotion
<1>5. ASSUME NEW q, UpdatePromotionWrite(q) PROVE Goal(q)
  BY <1>5, EndMoves DEF UpdatePromotionWrite, Finish
<1> HIDE DEF Goal
<1>6. \E q \in Desks : Goal(q)
  BY <1>1, <1>2, <1>3, <1>4, <1>5 DEF OfferNext
<1> QED BY <1>6 DEF Goal

LEMMA MenuAside ==
  MenuNext => \E q \in Desks : \E row :
                moves(q, row) /\ row.step # "updatePromotion" /\ UNCHANGED promotion
<1> SUFFICES ASSUME MenuNext
             PROVE  \E q \in Desks : \E row :
                      moves(q, row) /\ row.step # "updatePromotion" /\ UNCHANGED promotion
  OBVIOUS
<1> DEFINE Goal(q) == \E row : /\ moves(q, row) /\ row.step # "updatePromotion"
                               /\ UNCHANGED promotion
<1> USE DEF others, selfTables, Idle
<1>1. ASSUME NEW q, NEW k, NEW price, NEW promo, NEW available, NEW g,
             CreateDish(q, k, price, promo, available, g)
      PROVE  Goal(q)
  BY <1>1, BeginMoves DEF CreateDish
<1>2. ASSUME NEW q, NEW d, NEW body, UpdateDish(q, d, body) PROVE Goal(q)
  BY <1>2, BeginMoves DEF UpdateDish
<1>3. ASSUME NEW q, NEW d, NEW h, NEW available, SetAvailability(q, d, h, available) PROVE Goal(q)
  BY <1>3, BeginMoves DEF SetAvailability
<1>4. ASSUME NEW q, NEW d, RemoveDish(q, d) PROVE Goal(q)
  BY <1>4, BeginMoves DEF RemoveDish
<1>5. ASSUME NEW q, NEW k, CreateCategory(q, k) \/ RemoveCategory(q, k) PROVE Goal(q)
  BY <1>5, BeginMoves DEF CreateCategory, RemoveCategory
<1>6. ASSUME NEW q, NEW k, NEW active, UpdateCategory(q, k, active) PROVE Goal(q)
  BY <1>6, BeginMoves DEF UpdateCategory
<1>7. ASSUME NEW q, Written(q), UNCHANGED promotion PROVE Goal(q)
  BY <1>7, EndMoves DEF Written
<1>8. ASSUME NEW q, \/ CreateDishTx(q) \/ UpdateDishTx(q) \/ SetAvailabilityTx(q)
                   \/ RemoveDishTx(q) \/ RemoveCategoryTx(q)
      PROVE  Goal(q)
  <2>1. Written(q) /\ UNCHANGED promotion
    BY <1>8 DEF CreateDishTx, UpdateDishTx, SetAvailabilityTx, RemoveDishTx, RemoveCategoryTx
  <2> QED BY <1>7, <2>1
<1>9. ASSUME NEW q, Invalidate(q) \/ InvalidateFails(q) PROVE Goal(q)
  BY <1>9, EndMoves DEF Invalidate, InvalidateFails, Finish
<1> HIDE DEF Goal
<1>10. \E q \in Desks : Goal(q)
  BY <1>1, <1>2, <1>3, <1>4, <1>5, <1>6, <1>8, <1>9 DEF MenuNext
<1> QED BY <1>10 DEF Goal

LEMMA CartAside ==
  CartNext => \E q \in Desks : \E row :
                moves(q, row) /\ row.step # "updatePromotion" /\ UNCHANGED <<menuTables, promotion>>
<1> SUFFICES ASSUME CartNext
             PROVE  \E q \in Desks : \E row :
                      moves(q, row) /\ row.step # "updatePromotion" /\ UNCHANGED <<menuTables, promotion>>
  OBVIOUS
<1> DEFINE Goal(q) == \E row : /\ moves(q, row) /\ row.step # "updatePromotion"
                               /\ UNCHANGED <<menuTables, promotion>>
<1> USE DEF apart, selfTables, Idle
<1>1. ASSUME NEW q, NEW c, NEW d, NEW chosen, NEW quantity, AddItem(q, c, d, chosen, quantity)
      PROVE  Goal(q)
  <2>1. PICK row : row.step = "addItem" /\ Begin(q, "addItem", row)
    BY <1>1 DEF AddItem
  <2> QED BY <1>1, <2>1, BeginMoves DEF AddItem
<1>2. ASSUME NEW q, NEW c, Clear(q, c) PROVE Goal(q)
  BY <1>2, BeginMoves DEF Clear
<1>3. ASSUME NEW q, NEW c, NEW nearest, NEW position, NEW mode,
             Checkout(q, c, nearest, position, mode)
      PROVE  Goal(q)
  <2>1. PICK row : row.step = "checkout" /\ Begin(q, "checkout", row)
    BY <1>3 DEF Checkout
  <2> QED BY <1>3, <2>1, BeginMoves DEF Checkout
<1>4. ASSUME NEW q, NEW l, NEW quantity, NEW chosen, UpdateItem(q, l, quantity, chosen) PROVE Goal(q)
  <2>1. PICK row : row.step \in {"idle", "updateItem"} /\ Begin(q, "updateItem", row)
    BY <1>4 DEF UpdateItem
  <2> QED BY <1>4, <2>1, BeginMoves DEF UpdateItem
<1>5. ASSUME NEW q, NEW l, RemoveItem(q, l) PROVE Goal(q)
  BY <1>5, BeginMoves DEF RemoveItem
<1>6. ASSUME NEW q, AddItemWrite(q) \/ UpdateItemTx(q) \/ CheckoutTx(q) PROVE Goal(q)
  <2>1. Finish(q) /\ UNCHANGED <<menuTables, promotion>>
    BY <1>6 DEF AddItemWrite, UpdateItemTx, CheckoutTx
  <2> QED BY <2>1, EndMoves DEF Finish
<1> HIDE DEF Goal
<1>7. \E q \in Desks : Goal(q)
  BY <1>1, <1>2, <1>3, <1>4, <1>5, <1>6 DEF CartNext
<1> QED BY <1>7 DEF Goal

(***************************************************************************)
(* Types and promotions: every behaviour, any number of desks              *)
(***************************************************************************)
LEMMA OffersStep == Types0 /\ OffersKept /\ Next => OffersKept'
<1> SUFFICES ASSUME Types0, OffersKept, Next PROVE OffersKept'
  OBVIOUS
<1>1. ASSUME UNCHANGED <<promotion, desk>> PROVE OffersKept'
  BY <1>1 DEF OffersKept, At, live
<1>2. ASSUME NEW q \in Desks, NEW row, moves(q, row), row.step # "updatePromotion",
             UNCHANGED promotion
      PROVE  OffersKept'
  BY <1>2, OffersAside DEF OffersKept, live, moves
<1>3. CASE PageNext
  BY <1>1, <1>3, PagesAside
<1>4. CASE HouseNext \/ ProfileNext \/ ReviewNext
  BY <1>2, <1>4, HousesAside, ProfilesAside DEF Acting
<1>5. CASE MenuNext \/ CartNext
  BY <1>2, <1>5, MenuAside, CartAside
<1>6. CASE OfferNext
  BY <1>6, OfferSteps
<1> QED BY <1>3, <1>4, <1>5, <1>6 DEF Next

LEMMA TypesStep == Types0 /\ Next => Types0'
BY MenuTypes, PageTypes, HouseTypes, CartTypes, ProfileTypes, OfferSteps, ReviewTypes DEF Next

LEMMA TypesInit == Init => Types0 /\ OffersKept
<1> SUFFICES ASSUME Init PROVE Types0 /\ OffersKept
  OBVIOUS
<1>1. Opening \in [dish : Dishes, category : Categories, option : Options, price : Prices]
        /\ (CHOOSE c \in Customers : TRUE) \in Customers /\ (CHOOSE d \in Dishes : TRUE) \in Dishes
  BY ShopAssumption DEF ShopAssumption
<1>2. house \in [Houses -> HouseRows]
  BY DEF Init, HouseRows, Modes
<1>3. dish \in [Dishes -> DishRows] /\ category \in [Categories -> CategoryRows]
        /\ option \in [Options -> OptionRows]
  BY <1>1 DEF Init, DishRows, CategoryRows, OptionRows
<1>4. line \in [Lines -> LineRows]
  BY <1>1, ShopAssumption DEF Init, LineRows, ShopAssumption
<1>5. promotion \in [Promotions -> PromotionRows]
  BY DEF Init, PromotionRows, Types
<1>6. TypeOK
  <2>1. memo.houses \subseteq Houses /\ page.shown \subseteq Dishes
    <3>1. memo = [held |-> FALSE, houses |-> {}] /\ page = NoPage
      BY DEF Init
    <3> QED BY <3>1 DEF NoPage
  <2>2. written \in Nat /\ calls \in 0..MaxCalls
    <3>1. written = 0 /\ calls = 0
      BY DEF Init
    <3>2. 0 \in 0..MaxCalls
      BY ShopAssumption DEF ShopAssumption
    <3> QED BY <3>1, <3>2
  <2> QED BY <1>2, <1>3, <1>4, <1>5, <2>1, <2>2 DEF TypeOK
<1>7. DesksOK /\ reader \in [Readers -> ReaderRows]
  <2>1. RowOK(Idle)
    BY PlainIsOK DEF Plain, Idle
  <2> QED BY <2>1 DEF Init, DesksOK, ReaderRows, Idle
<1>8. OffersKept
  BY DEF Init, OffersKept, live, At, Idle
<1> QED BY <1>6, <1>7, <1>8 DEF Types0

LEMMA VarsKept == UNCHANGED vars /\ Types0 /\ OffersKept => Types0' /\ OffersKept'
BY DEF vars, menuTables, selfTables, pageTables, Types0, TypeOK, DesksOK, OffersKept,
   At, live

LEMMA Always == Spec => [](Types0 /\ OffersKept)
<1>1. Init => Types0 /\ OffersKept
  BY TypesInit
<1>2. Types0 /\ OffersKept /\ [Next]_vars => Types0' /\ OffersKept'
  BY TypesStep, OffersStep, VarsKept
<1> QED BY <1>1, <1>2, PTL DEF Spec

\* The tables hold rows of their types, whatever requests and readers
\* interleave (schema.prisma, and the DTOs that bound what is written).
THEOREM TypeCorrect == Spec => []TypeOK
<1>1. Types0 => TypeOK
  BY DEF Types0
<1> QED BY <1>1, Always, PTL

LEMMA DiscountBounded ==
  ASSUME Types0, NEW p \in Promotions, consistent(promotion[p]), NEW subtotal \in Nat, NEW fee \in Nat
  PROVE  discount(p, subtotal, fee) <= subtotal + fee
<1> DEFINE row == promotion[p]
           cap(amount) == IF row.cap # Nothing /\ amount > row.cap THEN row.cap ELSE amount
<1>1. /\ row.type \in Types /\ row.value \in Nat
      /\ row.cap # Nothing => row.cap \in Nat
  BY ShopAssumption DEF Types0, TypeOK, PromotionRows, ShopAssumption
<1>2. ASSUME NEW amount \in Nat, amount <= subtotal PROVE cap(amount) <= subtotal + fee
  BY <1>1, <1>2
<1>3. CASE row.type = "PERCENTAGE"
  <2>1. row.value \in 1..100
    BY <1>3 DEF consistent, assertConsistent
  <2>2. subtotal * row.value \in Nat /\ subtotal * row.value <= subtotal * 100
    BY <2>1
  <2>3. (subtotal * row.value) \div 100 \in Nat /\ (subtotal * row.value) \div 100 <= subtotal
    BY <2>2
  <2>4. discount(p, subtotal, fee) = cap((subtotal * row.value) \div 100)
    BY <1>3 DEF discount
  <2> QED BY <1>2, <2>3, <2>4
<1>4. CASE row.type = "FIXED"
  <2>1. discount(p, subtotal, fee) = cap(IF row.value < subtotal THEN row.value ELSE subtotal)
    BY <1>4 DEF discount
  <2> QED BY <1>1, <1>2, <2>1
<1>5. CASE row.type = "FREE_DELIVERY"
  BY <1>5 DEF discount
<1> QED BY <1>1, <1>3, <1>4, <1>5 DEF Types

\* However many staff edit them, one field at a time and in any order, a
\* promotion on offer takes off no more than the price (assertConsistent, and
\* the type, value and dates update writes together).
THEOREM PromotionsHold == Spec => []PromotionsSound
<1>1. Types0 /\ OffersKept => PromotionsSound
  <2> SUFFICES ASSUME Types0, OffersKept, NEW p \in Promotions, live(promotion[p]),
                      NEW subtotal \in Percents, NEW fee \in {0, 2}
               PROVE  /\ discount(p, subtotal, fee) <= subtotal + fee
                      /\ promotion[p].starts < promotion[p].ends
    BY DEF PromotionsSound
  <2>1. consistent(promotion[p])
    BY DEF OffersKept
  <2>2. subtotal \in Nat /\ fee \in Nat
    BY ShopAssumption DEF ShopAssumption
  <2> QED BY <2>1, <2>2, DiscountBounded DEF consistent, assertConsistent
<1> QED BY <1>1, Always, PTL

(***************************************************************************)
(* One desk: requests come one at a time, while visitors read              *)
(***************************************************************************)
OneDesk == \A p, q \in Desks : p = q

\* What a request has read still holds when it writes.
Sound(row) ==
  /\ row.step = "createDish" => live(category[row.category]) /\ assertPricing(row.price, row.promo)
  /\ row.step = "updateDish" =>
       /\ live(dish[row.dish])
       /\ \A k \in row.body.category : live(category[k])
       /\ assertPricing(given(row.body.price, dish[row.dish].price),
                        given(row.body.promo, dish[row.dish].promo))
  /\ row.step = "removeCategory" => dishesIn(row.category) = {}
  /\ row.step = "addItem" => live(dish[row.dish])

Pending == \A q \in Desks : Sound(desk[q])

Held == MenuHoldsTogether /\ PromoBelowPrice

LEMMA PendingMoves ==
  ASSUME OneDesk, Types0, NEW q \in Desks, NEW row, moves(q, row), Sound(row)'
  PROVE  Pending'
<1> SUFFICES ASSUME NEW p \in Desks PROVE Sound(desk[p])'
  BY DEF Pending
<1>1. p = q /\ desk'[p] = row
  BY DEF OneDesk, moves, Types0, DesksOK
<1> QED BY <1>1

LEMMA PendingNothing ==
  ASSUME OneDesk, Types0, NEW q \in Desks, NEW row, moves(q, row), row.step \notin Watched
  PROVE  Pending'
<1>1. Sound(row)'
  BY DEF Sound, Watched
<1> QED BY <1>1, PendingMoves

\* Nothing of it is written.
LEMMA HeldAside ==
  ASSUME Held, UNCHANGED <<menuTables, line>>
  PROVE  Held'
BY DEF Held, MenuHoldsTogether, NoOrphanDish, CartsHoldTheMenu, PromoBelowPrice, menuTables,
   live

\* Lines that go, or that change but for their dish.
LEMMA HeldCarts ==
  ASSUME Held, UNCHANGED menuTables,
         \A l \in Lines : line'[l].live => line[l].live /\ line'[l].dish = line[l].dish
  PROVE  Held'
BY DEF Held, MenuHoldsTogether, NoOrphanDish, CartsHoldTheMenu, PromoBelowPrice, menuTables, live

LEMMA AsideHeld ==
  ASSUME OneDesk, Types0, Held, Pending, PageNext \/ HouseNext \/ ProfileNext \/ ReviewNext \/ OfferNext
  PROVE  Held' /\ Pending'
<1>1. CASE PageNext
  <2>1. UNCHANGED <<desk, menuTables, line>>
    BY <1>1, PagesAside
  <2>2. Pending'
    BY <2>1 DEF Pending, Sound, menuTables, live, dishesIn, cartOf
  <2> QED BY <2>1, <2>2, HeldAside
<1>2. CASE HouseNext \/ ProfileNext \/ ReviewNext \/ OfferNext
  <2>1. \E q \in Desks : \E row :
          moves(q, row) /\ row.step \notin Watched /\ UNCHANGED <<menuTables, line>>
    BY <1>2, HousesAside, ProfilesAside, OffersApart DEF Acting
  <2> QED BY <2>1, HeldAside, PendingNothing
<1> QED BY <1>1, <1>2

LEMMA DishStepsHeld ==
  ASSUME OneDesk, Types0, Held, Pending, NEW q \in Desks
  PROVE  /\ CreateDishTx(q) => Held'
         /\ UpdateDishTx(q) => Held'
         /\ SetAvailabilityTx(q) => Held'
         /\ RemoveDishTx(q) => Held'
<1> USE DEF Held, MenuHoldsTogether, NoOrphanDish, CartsHoldTheMenu, PromoBelowPrice
<1>0. /\ Sound(desk[q])
      /\ dish \in [Dishes -> DishRows] /\ line \in [Lines -> LineRows]
  BY DEF Pending, Types0, TypeOK
<1>1. ASSUME NEW d, NEW group, writeOptionGroups(d, group), NEW l \in Lines
      PROVE  line'[l].live = line[l].live /\ line'[l].dish = line[l].dish
  <2>1. line[l] \in LineRows
    BY <1>0
  <2>2. line'[l] = [line[l] EXCEPT !.options = line[l].options \ (optionsOf(d) \ group.options)]
    BY <1>1 DEF writeOptionGroups
  <2> QED BY <2>1, <2>2 DEF LineRows
<1>2. ASSUME CreateDishTx(q) PROVE Held'
  <2> DEFINE body == desk[q]
  <2>1. PICK d \in Dishes :
          /\ dish' = [dish EXCEPT ![d] =
               [state |-> "live", category |-> body.category, price |-> body.price,
                promo |-> body.promo, available |-> body.available, soldOut |-> {},
                atLeast |-> body.group.atLeast, atMost |-> body.group.atMost]]
          /\ writeOptionGroups(d, body.group)
    BY <1>2 DEF CreateDishTx
  <2>2. live(category[body.category]) /\ (body.promo # NoPromo => body.promo < body.price)
    BY <1>0, <1>2 DEF Sound, CreateDishTx, At, assertPricing
  <2>3. UNCHANGED category
    BY <1>2 DEF CreateDishTx
  <2>4. ASSUME NEW e \in Dishes
        PROVE  IF e = d THEN /\ live(dish'[e]) /\ dish'[e].category = body.category
                             /\ dish'[e].price = body.price /\ dish'[e].promo = body.promo
                        ELSE dish'[e] = dish[e]
    BY <1>0, <2>1 DEF live
  <2> HIDE DEF body
  <2> QED BY <1>1, <2>1, <2>2, <2>3, <2>4 DEF live
<1>3. ASSUME UpdateDishTx(q) PROVE Held'
  <2> DEFINE body == desk[q].body
             d == desk[q].dish
  <2>1. /\ live(dish[d]) /\ (\A k \in body.category : live(category[k]))
        /\ assertPricing(given(body.price, dish[d].price), given(body.promo, dish[d].promo))
    BY <1>0, <1>3 DEF Sound, UpdateDishTx, At
  <2>2. d \in Dishes /\ body \in DishBodies /\ UNCHANGED category
    BY <1>3 DEF Types0, DesksOK, RowOK, UpdateDishTx, At
  <2>3. /\ dish'[d].state = dish[d].state
        /\ dish'[d].category = given(body.category, dish[d].category)
        /\ dish'[d].price = given(body.price, dish[d].price)
        /\ dish'[d].promo = given(body.promo, dish[d].promo)
        /\ \A e \in Dishes \ {d} : dish'[e] = dish[e]
    <3>1. dish[d] \in DishRows
      BY <1>0, <2>2
    <3> QED BY <1>0, <1>3, <2>2, <3>1 DEF UpdateDishTx, DishRows
  <2>4. live(category[given(body.category, dish[d].category)])
    <3>1. CASE body.category = {}
      BY <2>1, <2>2, <3>1 DEF given
    <3>2. CASE body.category # {}
      BY <2>1, <3>2 DEF given
    <3> QED BY <3>1, <3>2
  <2>5. \A l \in Lines : line'[l].live = line[l].live /\ line'[l].dish = line[l].dish
    BY <1>1, <1>3 DEF UpdateDishTx
  <2> HIDE DEF body, d
  <2>6. ASSUME NEW e \in Dishes
        PROVE  /\ live(dish'[e]) <=> live(dish[e])
               /\ live(dish[e]) => /\ live(category[dish'[e].category])
                                   /\ dish'[e].promo # NoPromo => dish'[e].promo < dish'[e].price
    BY <2>1, <2>3, <2>4 DEF live, assertPricing
  <2>7. ASSUME NEW l \in Lines PROVE line[l].dish \in Dishes
    BY <1>0 DEF LineRows
  <2> QED BY <2>2, <2>5, <2>6, <2>7 DEF live
<1>4. ASSUME SetAvailabilityTx(q) PROVE Held'
  <2>1. desk[q].dish \in Dishes
    BY <1>4 DEF Types0, DesksOK, RowOK, SetAvailabilityTx, At
  <2>2. ASSUME NEW e \in Dishes
        PROVE  /\ dish'[e].state = dish[e].state /\ dish'[e].category = dish[e].category
               /\ dish'[e].price = dish[e].price /\ dish'[e].promo = dish[e].promo
    <3>1. dish[e] \in DishRows
      BY <1>0
    <3> QED BY <1>0, <1>4, <2>1, <3>1 DEF SetAvailabilityTx, DishRows
  <2>3. UNCHANGED <<category, line>>
    BY <1>4 DEF SetAvailabilityTx, others
  <2>4. ASSUME NEW l \in Lines, line[l].live PROVE line[l].dish \in Dishes
    BY <1>0 DEF LineRows
  <2> QED BY <2>2, <2>3, <2>4 DEF live
<1>5. ASSUME RemoveDishTx(q) PROVE Held'
  <2> DEFINE d == desk[q].dish
  <2>1. d \in Dishes /\ UNCHANGED category
    BY <1>5 DEF Types0, DesksOK, RowOK, RemoveDishTx, At
  <2>2. dish'[d].state = "removed" /\ \A e \in Dishes \ {d} : dish'[e] = dish[e]
    <3>1. dish[d] \in DishRows
      BY <1>0, <2>1
    <3> QED BY <1>0, <1>5, <2>1, <3>1 DEF RemoveDishTx, DishRows
  <2>3. ASSUME NEW l \in Lines, line'[l].live
        PROVE  /\ line[l].live /\ line[l].dish \in Dishes \ {d}
               /\ line'[l].dish = line[l].dish
    <3>1. line[l] \in LineRows
      BY <1>0
    <3> QED BY <1>5, <2>3, <3>1 DEF RemoveDishTx, LineRows
  <2> HIDE DEF d
  <2> QED BY <2>1, <2>2, <2>3 DEF live
<1> QED BY <1>2, <1>3, <1>4, <1>5

LEMMA CategoryStepsHeld ==
  ASSUME OneDesk, Types0, Held, Pending, NEW q \in Desks
  PROVE  /\ \A k \in Categories : /\ CreateCategory(q, k) => Held'
                                  /\ \A active \in BOOLEAN : UpdateCategory(q, k, active) => Held'
         /\ RemoveCategoryTx(q) => Held'
<1> USE DEF Held, MenuHoldsTogether, NoOrphanDish, CartsHoldTheMenu, PromoBelowPrice
<1>0. /\ Sound(desk[q]) /\ dish \in [Dishes -> DishRows]
      /\ category \in [Categories -> CategoryRows]
  BY DEF Pending, Types0, TypeOK
\* The dishes of a category that stays as it was, and it must only stay live.
<1>1. ASSUME UNCHANGED <<dish, line>>,
             \A d \in Dishes : live(dish[d]) => live(category'[dish[d].category])
      PROVE  Held'
  BY <1>1 DEF live
<1>2. ASSUME NEW k \in Categories, CreateCategory(q, k) PROVE Held'
  <2>1. /\ UNCHANGED <<dish, line>>
        /\ category' = [category EXCEPT ![k] = [state |-> "live", active |-> TRUE]]
    BY <1>2 DEF CreateCategory, others
  <2>2. ASSUME NEW d \in Dishes, live(dish[d]) PROVE live(category'[dish[d].category])
    BY <1>0, <2>1, <2>2 DEF live, DishRows
  <2> QED BY <1>1, <2>1, <2>2
<1>3. ASSUME NEW k \in Categories, NEW active \in BOOLEAN, UpdateCategory(q, k, active) PROVE Held'
  <2>1. UNCHANGED <<dish, line>> /\ category' = [category EXCEPT ![k].active = active]
    BY <1>3 DEF UpdateCategory, others
  <2>2. ASSUME NEW d \in Dishes, live(dish[d]) PROVE live(category'[dish[d].category])
    <3>1. dish[d].category \in Categories /\ live(category[dish[d].category])
      BY <1>0, <2>2 DEF DishRows
    <3> QED BY <1>0, <2>1, <3>1 DEF live, CategoryRows
  <2> QED BY <1>1, <2>1, <2>2
<1>4. ASSUME RemoveCategoryTx(q) PROVE Held'
  <2> DEFINE k == desk[q].category
  <2>1. /\ UNCHANGED <<dish, line>> /\ dishesIn(k) = {}
        /\ category' = [category EXCEPT ![k] = [state |-> "removed", active |-> FALSE]]
    BY <1>0, <1>4 DEF RemoveCategoryTx, others, Sound, At
  <2>2. ASSUME NEW d \in Dishes, live(dish[d]) PROVE live(category'[dish[d].category])
    <3>1. dish[d].category \in Categories /\ live(category[dish[d].category])
      BY <1>0, <2>2 DEF DishRows
    <3>2. dish[d].category # k
      BY <2>1, <2>2 DEF dishesIn
    <3> QED BY <1>0, <2>1, <3>1, <3>2
  <2> QED BY <1>1, <2>1, <2>2
<1> QED BY <1>2, <1>3, <1>4

LEMMA MenuHeld ==
  ASSUME OneDesk, Types0, Held, Pending, MenuNext
  PROVE  Held' /\ Pending'
<1> DEFINE Goal == Held' /\ Pending'
<1> USE DEF Watched, Idle
<1>1. ASSUME NEW q \in Desks, NEW op, NEW row, Begin(q, op, row), UNCHANGED <<menuTables, line>>,
             Sound(row)
      PROVE  Goal
  <2>1. Sound(row)'
    BY <1>1 DEF Sound, menuTables, live, dishesIn, cartOf
  <2> QED BY <1>1, <2>1, HeldAside, PendingMoves, BeginMoves
<1>2. ASSUME NEW q \in Desks, NEW k, NEW price, NEW promo, NEW available, NEW g,
             CreateDish(q, k, price, promo, available, g)
      PROVE  Goal
  <2>1. Sound([step |-> "createDish", category |-> k, price |-> price, promo |-> promo,
               available |-> available, group |-> g])
    BY <1>2 DEF CreateDish, Sound
  <2> QED BY <1>1, <1>2, <2>1 DEF CreateDish, others
<1>3. ASSUME NEW q \in Desks, NEW d, NEW body, UpdateDish(q, d, body) PROVE Goal
  <2>1. Sound([step |-> "updateDish", dish |-> d, body |-> body])
    BY <1>3 DEF UpdateDish, Sound
  <2> QED BY <1>1, <1>3, <2>1 DEF UpdateDish, others
<1>4. ASSUME NEW q \in Desks, NEW d, NEW h, NEW available, SetAvailability(q, d, h, available)
      PROVE  Goal
  <2>1. Sound([step |-> "setAvailability", dish |-> d, house |-> h, available |-> available])
    BY DEF Sound
  <2> QED BY <1>1, <1>4, <2>1 DEF SetAvailability, others
<1>5. ASSUME NEW q \in Desks, NEW d, RemoveDish(q, d) PROVE Goal
  <2>1. Sound([step |-> "removeDish", dish |-> d])
    BY DEF Sound
  <2> QED BY <1>1, <1>5, <2>1 DEF RemoveDish, others
<1>6. ASSUME NEW q \in Desks, NEW k, RemoveCategory(q, k) PROVE Goal
  <2>1. Sound([step |-> "removeCategory", category |-> k])
    BY <1>6 DEF RemoveCategory, Sound
  <2> QED BY <1>1, <1>6, <2>1 DEF RemoveCategory, others
<1>7. ASSUME NEW q \in Desks, NEW k \in Categories,
             CreateCategory(q, k) \/ \E active \in BOOLEAN : UpdateCategory(q, k, active)
      PROVE  Goal
  <2>1. moves(q, [step |-> "invalidate"])
    BY <1>7, BeginMoves DEF CreateCategory, UpdateCategory
  <2> QED BY <1>7, <2>1, CategoryStepsHeld, PendingNothing
<1>8. ASSUME NEW q \in Desks, \/ CreateDishTx(q) \/ UpdateDishTx(q) \/ SetAvailabilityTx(q)
                             \/ RemoveDishTx(q) \/ RemoveCategoryTx(q)
      PROVE  Goal
  <2>1. moves(q, [step |-> "invalidate"])
    BY <1>8 DEF CreateDishTx, UpdateDishTx, SetAvailabilityTx, RemoveDishTx, RemoveCategoryTx,
       Written, GoOn, moves
  <2> QED BY <1>8, <2>1, DishStepsHeld, CategoryStepsHeld, PendingNothing
<1>9. ASSUME NEW q \in Desks, Invalidate(q) \/ InvalidateFails(q) PROVE Goal
  <2>1. moves(q, Idle) /\ UNCHANGED <<menuTables, line>>
    BY <1>9, EndMoves DEF Invalidate, InvalidateFails, Finish
  <2> QED BY <2>1, HeldAside, PendingNothing
<1> HIDE DEF Goal
<1>10. Goal
  BY <1>2, <1>3, <1>4, <1>5, <1>6, <1>7, <1>8, <1>9 DEF MenuNext
<1> QED BY <1>10 DEF Goal

LEMMA CartsHeld ==
  ASSUME OneDesk, Types0, Held, Pending, CartNext
  PROVE  Held' /\ Pending'
<1> DEFINE Goal == Held' /\ Pending'
<1>0. line \in [Lines -> LineRows]
  BY DEF Types0, TypeOK, Held
<1>1. ASSUME NEW q \in Desks, NEW op, NEW row, Begin(q, op, row),
             UNCHANGED <<line, apart>>, Sound(row)
      PROVE  Goal
  <2>1. UNCHANGED <<menuTables, line>>
    BY <1>1 DEF apart
  <2>2. Sound(row)'
    BY <1>1, <2>1 DEF Sound, menuTables, live, dishesIn, cartOf
  <2> QED BY <1>1, <2>1, <2>2, HeldAside, PendingMoves, BeginMoves
\* A request that ends, or that waits for nothing read.
<1>2. ASSUME NEW q \in Desks, NEW row, moves(q, row), row.step \notin Watched, UNCHANGED apart,
             \A l \in Lines : line'[l].live => line[l].live /\ line'[l].dish = line[l].dish
      PROVE  Goal
  <2>1. UNCHANGED menuTables
    BY <1>2 DEF apart
  <2> QED BY <1>2, <2>1, HeldCarts, PendingNothing
<1>3. ASSUME NEW q \in Desks, NEW c, NEW d, NEW chosen, NEW quantity,
             AddItem(q, c, d, chosen, quantity)
      PROVE  Goal
  <2>1. PICK row : row.step = "addItem" /\ row.dish = d /\ Begin(q, "addItem", row)
    BY <1>3 DEF AddItem
  <2>2. Sound(row)
    BY <1>3, <2>1 DEF AddItem, priced, Sound
  <2> QED BY <1>1, <1>3, <2>1, <2>2 DEF AddItem
<1>4. ASSUME NEW q \in Desks, NEW c, NEW nearest, NEW position, NEW mode,
             Checkout(q, c, nearest, position, mode)
      PROVE  Goal
  <2>1. PICK row : /\ row.step = "checkout" /\ row.customer = c
                   /\ row.lines = {line[l] : l \in cartOf(c)} /\ Begin(q, "checkout", row)
    BY <1>4 DEF Checkout
  <2>2. Sound(row)
    BY <2>1 DEF Sound
  <2> QED BY <1>1, <1>4, <2>1, <2>2 DEF Checkout
<1>5. ASSUME NEW q \in Desks, NEW l \in Lines, NEW op, Begin(q, op, Idle),
             line' = [line EXCEPT ![l].live = FALSE], UNCHANGED apart
      PROVE  Goal
  <2>1. \A k \in Lines : line'[k].live => line[k].live /\ line'[k].dish = line[k].dish
    BY <1>0, <1>5 DEF LineRows
  <2> QED BY <1>0, <1>2, <1>5, <2>1, BeginMoves DEF Watched, Idle
<1>6. ASSUME NEW c, \A l \in Lines : line'[l] = [line[l] EXCEPT !.live = @ /\ line[l].customer # c]
      PROVE  \A l \in Lines : line'[l].live => line[l].live /\ line'[l].dish = line[l].dish
  BY <1>0, <1>6 DEF LineRows
<1>7. ASSUME NEW q \in Desks, NEW c, Clear(q, c) PROVE Goal
  BY <1>0, <1>2, <1>6, <1>7, BeginMoves DEF Clear, emptied, Watched, Idle
<1>8. ASSUME NEW q \in Desks, NEW l \in Lines, NEW quantity, NEW chosen,
             UpdateItem(q, l, quantity, chosen)
      PROVE  Goal
  <2>1. CASE 0 \in quantity
    BY <1>5, <1>8, <2>1 DEF UpdateItem
  <2>2. CASE 0 \notin quantity
    <3>1. PICK row : row.step = "updateItem" /\ Begin(q, "updateItem", row)
      BY <1>8, <2>2 DEF UpdateItem
    <3>2. UNCHANGED <<line, apart>>
      BY <1>8, <2>2 DEF UpdateItem
    <3>3. Sound(row)
      BY <3>1 DEF Sound
    <3> QED BY <1>1, <3>1, <3>2, <3>3
  <2> QED BY <2>1, <2>2
<1>9. ASSUME NEW q \in Desks, NEW l \in Lines, RemoveItem(q, l) PROVE Goal
  BY <1>5, <1>9 DEF RemoveItem
<1>10. ASSUME NEW q \in Desks, AddItemWrite(q) PROVE Goal
  <2> DEFINE body == desk[q]
             added == [live |-> TRUE, customer |-> body.customer, dish |-> body.dish,
                       options |-> body.options, quantity |-> body.quantity]
  <2>1. body.dish \in Dishes /\ live(dish[body.dish]) /\ body.twin \subseteq Lines
    BY <1>10 DEF Types0, DesksOK, RowOK, AddItemWrite, At, Pending, Sound
  <2>2. moves(q, Idle) /\ UNCHANGED apart
    BY <1>10, EndMoves DEF AddItemWrite, Finish
  <2>3. CASE UNCHANGED line
    BY <1>0, <1>2, <2>2, <2>3 DEF Watched, Idle
  <2>4. ASSUME NEW l \in body.twin, line' = [line EXCEPT ![l].quantity = body.merged[l]]
        PROVE  Goal
    <3>1. \A k \in Lines : line[k] \in LineRows
      BY <1>0
    <3>2. \A k \in Lines : line'[k].live => line[k].live /\ line'[k].dish = line[k].dish
      BY <1>0, <2>1, <2>4, <3>1 DEF LineRows
    <3> QED BY <1>0, <1>2, <2>2, <3>2 DEF Watched, Idle
  <2>5. ASSUME NEW l \in Lines, line' = [line EXCEPT ![l] = added] PROVE Goal
    <3>1. \A k \in Lines : line'[k] = IF k = l THEN added ELSE line[k]
      BY <1>0, <2>5
    <3>2. UNCHANGED menuTables
      BY <2>2 DEF apart
    <3>3. added.live /\ added.dish = body.dish
      OBVIOUS
    <3> HIDE DEF added, body
    <3>4. Held'
      BY <1>0, <2>1, <2>2, <3>1, <3>2, <3>3 DEF Held, MenuHoldsTogether, NoOrphanDish,
         CartsHoldTheMenu, PromoBelowPrice, menuTables, live
    <3> QED BY <2>2, <3>4, PendingNothing DEF Watched, Idle
  <2>6. \/ UNCHANGED line
        \/ \E l \in Lines : line' = [line EXCEPT ![l] = added]
        \/ \E l \in body.twin : line' = [line EXCEPT ![l].quantity = body.merged[l]]
    BY <1>10 DEF AddItemWrite
  <2> HIDE DEF body, added
  <2> QED BY <2>3, <2>4, <2>5, <2>6
<1>11. ASSUME NEW q \in Desks, UpdateItemTx(q) PROVE Goal
  <2>1. desk[q].line \in Lines
    BY <1>11 DEF Types0, DesksOK, RowOK, UpdateItemTx, At
  <2>2. \A k \in Lines : line'[k].live => line[k].live /\ line'[k].dish = line[k].dish
    <3> DEFINE l == desk[q].line
    <3>1. UNCHANGED line \/ \E quantity, options :
            line' = [line EXCEPT ![l] = [line[l] EXCEPT !.quantity = quantity, !.options = options]]
      BY <1>0, <1>11, <2>1 DEF UpdateItemTx
    <3>2. line[l] \in LineRows
      BY <1>0, <2>1
    <3>3. ASSUME NEW quantity, NEW options, NEW k \in Lines,
                 line' = [line EXCEPT ![l] = [line[l] EXCEPT !.quantity = quantity, !.options = options]]
          PROVE  line'[k].live = line[k].live /\ line'[k].dish = line[k].dish
      <4>1. CASE k = l
        <5>1. line'[k] = [line[l] EXCEPT !.quantity = quantity, !.options = options]
          BY <1>0, <2>1, <3>3, <4>1
        <5> QED BY <3>2, <4>1, <5>1 DEF LineRows
      <4>2. CASE k # l
        BY <1>0, <2>1, <3>3, <4>2
      <4> QED BY <4>1, <4>2
    <3>4. ASSUME NEW k \in Lines, ~ UNCHANGED line
          PROVE  line'[k].live = line[k].live /\ line'[k].dish = line[k].dish
      <4>1. PICK quantity, options :
              line' = [line EXCEPT ![l] = [line[l] EXCEPT !.quantity = quantity, !.options = options]]
        BY <3>1, <3>4
      <4> QED BY <3>3, <4>1
    <3> HIDE DEF l
    <3> QED BY <3>4
  <2>3. moves(q, Idle) /\ UNCHANGED apart
    BY <1>11, EndMoves DEF UpdateItemTx, Finish
  <2> QED BY <1>0, <1>2, <2>2, <2>3 DEF Watched, Idle
<1>12. ASSUME NEW q \in Desks, CheckoutTx(q) PROVE Goal
  <2> DEFINE body == desk[q]
  <2>2. moves(q, Idle) /\ UNCHANGED apart
    BY <1>12, EndMoves DEF CheckoutTx, Finish
  <2>3. line' = emptied(body.customer) \/ UNCHANGED line
    BY <1>12 DEF CheckoutTx
  <2>4. \A l \in Lines : line'[l].live => line[l].live /\ line'[l].dish = line[l].dish
    <3>1. CASE line' = emptied(body.customer)
      <4>1. \A l \in Lines : line'[l] = [line[l] EXCEPT !.live = @ /\ line[l].customer # body.customer]
        BY <3>1 DEF emptied
      <4> HIDE DEF body
      <4> QED BY <1>6, <4>1
    <3>2. CASE UNCHANGED line
      BY <3>2
    <3> QED BY <2>3, <3>1, <3>2
  <2> QED BY <1>2, <2>2, <2>4 DEF Watched, Idle
<1> HIDE DEF Goal
<1>13. Goal
  BY <1>3, <1>4, <1>7, <1>8, <1>9, <1>10, <1>11, <1>12 DEF CartNext
<1> QED BY <1>13 DEF Goal

LEMMA StartsHeld == Init => Held /\ Pending
<1> SUFFICES ASSUME Init PROVE Held /\ Pending
  OBVIOUS
<1>1. Opening.dish \in Dishes /\ Opening.category \in Categories
  BY ShopAssumption DEF ShopAssumption
<1>2. MenuHoldsTogether /\ PromoBelowPrice
  BY <1>1 DEF Init, MenuHoldsTogether, NoOrphanDish, CartsHoldTheMenu, PromoBelowPrice, live
<1>3. Pending
  BY DEF Init, Pending, Sound, Idle
<1> QED BY <1>2, <1>3 DEF Held

LEMMA HeldAlways == ASSUME OneDesk PROVE Spec => []Held
<1>1. Init => Held /\ Pending
  BY StartsHeld
<1>2. Types0 /\ Held /\ Pending /\ [Next]_vars => Held' /\ Pending'
  <2> SUFFICES ASSUME Types0, Held, Pending, [Next]_vars PROVE Held' /\ Pending'
    OBVIOUS
  <2>1. CASE MenuNext
    BY <2>1, MenuHeld
  <2>2. CASE CartNext
    BY <2>2, CartsHeld
  <2>3. CASE PageNext \/ HouseNext \/ ProfileNext \/ ReviewNext \/ OfferNext
    BY <2>3, AsideHeld
  <2>4. CASE UNCHANGED vars
    <3>1. UNCHANGED <<desk, menuTables, line>>
      BY <2>4 DEF vars
    <3>2. Pending'
      BY <3>1 DEF Pending, Sound, menuTables, live, dishesIn, cartOf
    <3> QED BY <3>1, <3>2, HeldAside
  <2> QED BY <2>1, <2>2, <2>3, <2>4 DEF Next
<1> QED BY <1>1, <1>2, Always, PTL DEF Spec

\* When requests come one at a time, no dish of the menu is left without its
\* category and no cart holds a removed dish, for any menu and any sequence of
\* requests: what breaks it (README) needs two of them (CategoriesService.remove,
\* MenuItemsService.create, update and remove, CartsService.addItem).
THEOREM MenuHolds == ASSUME OneDesk PROVE Spec => []MenuHoldsTogether
<1>1. Held => MenuHoldsTogether
  BY DEF Held
<1> QED BY <1>1, HeldAlways, PTL

\* One at a time, whatever the partial bodies, both prices of a dish agree and a
\* promotion takes off no more than the price (assertPricing, assertConsistent).
THEOREM PricesHold == ASSUME OneDesk PROVE Spec => []PricesSound
<1>1. Held /\ PromotionsSound => PricesSound
  BY DEF Held, PricesSound
<1> QED BY <1>1, HeldAlways, PromotionsHold, PTL

(***************************************************************************)
(* The cached page, whatever requests and visitors interleave              *)
(***************************************************************************)
\* A desk that is deleting no page writes nothing a page is made of.
writesNoPage(q) ==
  /\ ~ At(q, "invalidate")
  /\ \E row : moves(q, row)
  /\ UNCHANGED <<dish, category, page, written, reader>>

\* It writes dishes or categories, and the pages go next.
writesTheMenu(q) ==
  /\ moves(q, [step |-> "invalidate"])
  /\ UNCHANGED <<page, written, reader>>

LEMMA HousesAndPages == HouseNext => \E q \in Desks : writesNoPage(q)
<1> SUFFICES ASSUME NEW q \in Desks,
                    \/ \E h \in Houses :
                         \/ CreateHouse(q, h) \/ CloseHouse(q, h)
                         \/ \E active, open \in BOOLEAN : UpdateHouse(q, h, active, open)
                         \/ \E open \in BOOLEAN, modes \in SUBSET Modes :
                              UpdateSettings(q, h, open, modes)
                    \/ CloseHouseTx(q) \/ Forget(q)
             PROVE  writesNoPage(q)
  BY DEF HouseNext
<1> USE DEF writesNoPage, moves, At, Begin, besides, menuTables, pageTables
<1>1. ASSUME NEW h, CreateHouse(q, h) \/ CloseHouse(q, h) PROVE writesNoPage(q)
  BY <1>1 DEF CreateHouse, CloseHouse
<1>2. ASSUME NEW h, NEW active, NEW open, UpdateHouse(q, h, active, open) PROVE writesNoPage(q)
  BY <1>2 DEF UpdateHouse
<1>3. ASSUME NEW h, NEW open, NEW modes, UpdateSettings(q, h, open, modes) PROVE writesNoPage(q)
  BY <1>3 DEF UpdateSettings
<1>4. CASE CloseHouseTx(q) \/ Forget(q)
  BY <1>4 DEF CloseHouseTx, Forget, Finish, GoOn
<1> QED BY <1>1, <1>2, <1>3, <1>4

LEMMA CartsAndPages == CartNext => \E q \in Desks : writesNoPage(q)
<1> SUFFICES ASSUME CartNext PROVE \E q \in Desks : writesNoPage(q)
  OBVIOUS
<1> USE DEF writesNoPage, moves, At, apart, menuTables, pageTables
<1>1. ASSUME NEW q, NEW op, NEW row, Begin(q, op, row), UNCHANGED apart PROVE writesNoPage(q)
  BY <1>1 DEF Begin
<1>2. ASSUME NEW q, NEW c, NEW d, NEW chosen, NEW quantity, AddItem(q, c, d, chosen, quantity)
      PROVE  writesNoPage(q)
  BY <1>1, <1>2 DEF AddItem
<1>3. ASSUME NEW q, NEW c, Clear(q, c) PROVE writesNoPage(q)
  BY <1>1, <1>3 DEF Clear
<1>4. ASSUME NEW q, NEW c, NEW nearest, NEW position, NEW mode, Checkout(q, c, nearest, position, mode)
      PROVE  writesNoPage(q)
  BY <1>1, <1>4 DEF Checkout
<1>5. ASSUME NEW q, NEW l, NEW quantity, NEW chosen, UpdateItem(q, l, quantity, chosen)
      PROVE  writesNoPage(q)
  BY <1>1, <1>5 DEF UpdateItem
<1>6. ASSUME NEW q, NEW l, RemoveItem(q, l) PROVE writesNoPage(q)
  BY <1>1, <1>6 DEF RemoveItem
<1>7. ASSUME NEW q, AddItemWrite(q) \/ UpdateItemTx(q) \/ CheckoutTx(q) PROVE writesNoPage(q)
  BY <1>7 DEF AddItemWrite, UpdateItemTx, CheckoutTx, Finish, GoOn
<1> QED BY <1>2, <1>3, <1>4, <1>5, <1>6, <1>7 DEF CartNext

LEMMA ProfilesAndPages ==
  ProfileNext \/ OfferNext \/ ReviewNext => \E q \in Desks : writesNoPage(q)
<1> SUFFICES ASSUME ProfileNext \/ OfferNext \/ ReviewNext PROVE \E q \in Desks : writesNoPage(q)
  OBVIOUS
<1> USE DEF writesNoPage, moves, At, beside, menuTables, pageTables
<1>1. ASSUME NEW q, NEW op, NEW row, Begin(q, op, row), UNCHANGED beside PROVE writesNoPage(q)
  BY <1>1 DEF Begin
<1>2. ASSUME NEW q, NEW row, NEW step, step # "invalidate", At(q, step), GoOn(q, row), UNCHANGED beside
      PROVE  writesNoPage(q)
  BY <1>2 DEF GoOn
<1>3. ASSUME NEW q, NEW c, NEW place, NEW default, CreateAddress(q, c, place, default)
      PROVE  writesNoPage(q)
  BY <1>1, <1>3 DEF CreateAddress
<1>4. ASSUME NEW q, NEW a, NEW place, NEW default, UpdateAddress(q, a, place, default)
      PROVE  writesNoPage(q)
  BY <1>1, <1>4 DEF UpdateAddress
<1>5. ASSUME NEW q, NEW a, SetDefault(q, a) \/ RemoveAddress(q, a) PROVE writesNoPage(q)
  BY <1>1, <1>5 DEF SetDefault, RemoveAddress
<1>6. ASSUME NEW q, \/ CreateAddressTx(q) \/ UpdateAddressTx(q) \/ SetDefaultTx(q)
                    \/ RemoveAddressTx(q)
      PROVE  writesNoPage(q)
  BY <1>2, <1>6 DEF CreateAddressTx, UpdateAddressTx, SetDefaultTx, RemoveAddressTx, Finish
<1>7. ASSUME NEW q, NEW p, NEW type, NEW value, NEW cap, NEW ends,
             CreatePromotion(q, p, type, value, cap, ends)
      PROVE  writesNoPage(q)
  BY <1>1, <1>7 DEF CreatePromotion
<1>8. ASSUME NEW q, NEW p, NEW body, UpdatePromotion(q, p, body)
      PROVE  writesNoPage(q)
  BY <1>1, <1>8 DEF UpdatePromotion
<1>9. ASSUME NEW q, NEW p, NEW active, SetPromotionActive(q, p, active) \/ RemovePromotion(q, p)
      PROVE  writesNoPage(q)
  BY <1>1, <1>9 DEF SetPromotionActive, RemovePromotion
<1>10. ASSUME NEW q, UpdatePromotionWrite(q) PROVE writesNoPage(q)
  BY <1>2, <1>10 DEF UpdatePromotionWrite, Finish
<1>11. ASSUME NEW q, NEW o, NEW rating, CreateReview(q, o, rating) PROVE writesNoPage(q)
  BY <1>1, <1>11 DEF CreateReview
<1>12. ASSUME NEW q, ReviewHouse(q) \/ ReviewOthers(q) \/ ReviewCommit(q) PROVE writesNoPage(q)
  BY <1>2, <1>12 DEF ReviewHouse, ReviewOthers, ReviewCommit, Finish
<1>13. CASE ProfileNext
  BY <1>3, <1>4, <1>5, <1>6, <1>13 DEF ProfileNext
<1>14. CASE OfferNext
  BY <1>7, <1>8, <1>9, <1>10, <1>14 DEF OfferNext
<1>15. CASE ReviewNext
  BY <1>11, <1>12, <1>15 DEF ReviewNext
<1> QED BY <1>13, <1>14, <1>15

LEMMA MenuAndPages ==
  MenuNext => \E q \in Desks : \/ writesNoPage(q) \/ writesTheMenu(q)
                              \/ Invalidate(q) \/ InvalidateFails(q)
<1> SUFFICES ASSUME MenuNext
             PROVE  \E q \in Desks : \/ writesNoPage(q) \/ writesTheMenu(q)
                                     \/ Invalidate(q) \/ InvalidateFails(q)
  OBVIOUS
<1> USE DEF moves, At, others, menuTables, pageTables
<1>1. ASSUME NEW q, NEW op, NEW row, Begin(q, op, row), UNCHANGED <<menuTables, others, written>>
      PROVE  writesNoPage(q)
  BY <1>1 DEF Begin, writesNoPage
<1>2. ASSUME NEW q, NEW k, NEW price, NEW promo, NEW available, NEW g,
             CreateDish(q, k, price, promo, available, g)
      PROVE  writesNoPage(q)
  BY <1>1, <1>2 DEF CreateDish
<1>3. ASSUME NEW q, NEW d, NEW body, UpdateDish(q, d, body) PROVE writesNoPage(q)
  BY <1>1, <1>3 DEF UpdateDish
<1>4. ASSUME NEW q, NEW d, NEW h, NEW available, SetAvailability(q, d, h, available)
      PROVE  writesNoPage(q)
  BY <1>1, <1>4 DEF SetAvailability
<1>5. ASSUME NEW q, NEW d, RemoveDish(q, d) PROVE writesNoPage(q)
  BY <1>1, <1>5 DEF RemoveDish
<1>6. ASSUME NEW q, NEW k, RemoveCategory(q, k) PROVE writesNoPage(q)
  BY <1>1, <1>6 DEF RemoveCategory
<1>7. ASSUME NEW q, NEW k, CreateCategory(q, k) PROVE writesTheMenu(q)
  BY <1>7 DEF CreateCategory, Begin, writesTheMenu
<1>8. ASSUME NEW q, NEW k, NEW active, UpdateCategory(q, k, active) PROVE writesTheMenu(q)
  BY <1>8 DEF UpdateCategory, Begin, writesTheMenu
<1>9. ASSUME NEW q, \/ CreateDishTx(q) \/ UpdateDishTx(q) \/ SetAvailabilityTx(q)
                    \/ RemoveDishTx(q) \/ RemoveCategoryTx(q)
      PROVE  writesTheMenu(q)
  BY <1>9 DEF CreateDishTx, UpdateDishTx, SetAvailabilityTx, RemoveDishTx, RemoveCategoryTx,
     Written, GoOn, writesTheMenu
<1> QED BY <1>2, <1>3, <1>4, <1>5, <1>6, <1>7, <1>8, <1>9 DEF MenuNext

\* Between the deletion of a page and the next write, what a visitor has read of
\* the menu, and the page he leaves, are the menu.
PageInv ==
  /\ page.since \in Nat /\ page.since <= written
  /\ \A v \in Readers : reader[v].step # "idle" => reader[v].since <= written
  /\ (\A q \in Desks : ~ At(q, "invalidate")) =>
       /\ page.held /\ page.since = written => page.shown = publicMenu(page.houses)
       /\ \A v \in Readers : reader[v].step # "idle" /\ reader[v].since = written =>
            /\ reader[v].step = "load" => reader[v].notIn = soldOutEverywhere(reader[v].houses)
            /\ reader[v].step = "keep" => reader[v].shown = publicMenu(reader[v].houses)

LEMMA PageAside ==
  ASSUME Types0, PageInv, NEW q \in Desks,
         \/ writesNoPage(q) \/ writesTheMenu(q) \/ Invalidate(q) \/ InvalidateFails(q)
  PROVE  PageInv'
<1>1. CASE writesNoPage(q)
  <2>1. (\A p \in Desks : ~ At(p, "invalidate")') => (\A p \in Desks : ~ At(p, "invalidate"))
    BY <1>1 DEF writesNoPage, moves, At, Types0, DesksOK
  <2>2. UNCHANGED <<dish, category, page, written, reader>>
    BY <1>1 DEF writesNoPage
  <2> QED BY <2>1, <2>2 DEF PageInv, publicMenu, onTheMenu, soldOutEverywhere, live
<1>2. CASE writesTheMenu(q)
  <2>1. ~ (\A p \in Desks : ~ At(p, "invalidate")')
    BY <1>2 DEF writesTheMenu, moves, At, Types0, DesksOK
  <2>2. UNCHANGED <<page, written, reader>>
    BY <1>2 DEF writesTheMenu
  <2> QED BY <2>1, <2>2 DEF PageInv
<1>3. CASE Invalidate(q) \/ InvalidateFails(q)
  <2>1. /\ page' = NoPage \/ UNCHANGED page
        /\ written' = written + 1 /\ UNCHANGED reader /\ written \in Nat
    BY <1>3 DEF Invalidate, InvalidateFails, Finish, GoOn, pageTables, Types0, TypeOK
  <2>2. page'.since \in Nat /\ page'.since < written'
    <3>1. CASE page' = NoPage
      <4>1. page'.since = 0
        BY <3>1 DEF NoPage
      <4> QED BY <2>1, <4>1
    <3>2. CASE UNCHANGED page
      <4>1. page.since \in Nat /\ page.since <= written
        BY DEF PageInv
      <4> QED BY <2>1, <3>2, <4>1
    <3> QED BY <2>1, <3>1, <3>2
  <2>3. ASSUME NEW v \in Readers, reader'[v].step # "idle"
        PROVE  reader'[v].since < written'
    <3>1. reader[v].since \in Nat
      BY <2>1, <2>3 DEF Types0, ReaderRows
    <3> QED BY <2>1, <2>3, <3>1 DEF PageInv
  <2>4. \A v \in Readers : reader'[v].step # "idle" => reader'[v].since \in Nat
    BY <2>1 DEF Types0, ReaderRows
  <2> QED BY <2>1, <2>2, <2>3, <2>4 DEF PageInv
<1> QED BY <1>1, <1>2, <1>3

\* A visitor's next step, with what it has read.
LEMMA VisitorReads ==
  ASSUME Types0, PageInv, NEW v \in Readers, NEW row, row \in ReaderRows,
         reader' = [reader EXCEPT ![v] = row],
         UNCHANGED <<desk, dish, category, page, written>>,
         row.step # "idle" => row.since <= written,
         (\A q \in Desks : ~ At(q, "invalidate")) /\ row.step # "idle" /\ row.since = written =>
            /\ row.step = "load" => row.notIn = soldOutEverywhere(row.houses)
            /\ row.step = "keep" => row.shown = publicMenu(row.houses)
  PROVE  PageInv'
<1>1. \A w \in Readers : reader'[w] = IF w = v THEN row ELSE reader[w]
  BY DEF Types0
<1>2. \A q \in Desks : At(q, "invalidate")' <=> At(q, "invalidate")
  BY DEF At
<1>3. \A houses : /\ soldOutEverywhere(houses)' = soldOutEverywhere(houses)
                  /\ publicMenu(houses)' = publicMenu(houses)
  BY DEF soldOutEverywhere, publicMenu, onTheMenu, live
<1> QED BY <1>1, <1>2, <1>3 DEF PageInv

LEMMA PagesRead == Types0 /\ Types0' /\ PageInv /\ PageNext => PageInv'
<1> SUFFICES ASSUME Types0, Types0', PageInv, PageNext PROVE PageInv'
  OBVIOUS
<1>0. /\ reader \in [Readers -> ReaderRows] /\ reader' \in [Readers -> ReaderRows]
      /\ written \in Nat
  BY DEF Types0, TypeOK
<1>1. ASSUME NEW v \in Readers, ListHouses(v) PROVE PageInv'
  <2> DEFINE row == [step |-> IF memo.held THEN "where" ELSE "remember", houses |-> openHouses,
                     since |-> written]
  <2>1. UNCHANGED <<desk, dish, category, page, written>> /\ reader' = [reader EXCEPT ![v] = row]
    BY <1>1 DEF ListHouses, ReadOn, menuTables, pageTables
  <2>2. row.step \in {"where", "remember"} /\ row.since = written
    OBVIOUS
  <2> HIDE DEF row
  <2>3. row \in ReaderRows
    BY <1>0, <2>1
  <2>4. row.since <= written /\ row.step # "load" /\ row.step # "keep"
    BY <1>0, <2>2
  <2> QED BY <2>1, <2>3, <2>4, VisitorReads
<1>2. ASSUME NEW v \in Readers, RememberHouses(v) PROVE PageInv'
  <2> DEFINE row == [reader[v] EXCEPT !.step = "where"]
  <2>1. /\ UNCHANGED <<desk, dish, category, page, written>>
        /\ reader' = [reader EXCEPT ![v] = row] /\ reader[v].step = "remember"
    BY <1>2 DEF RememberHouses, ReadOn, menuTables, ReadAt
  <2>2. row \in ReaderRows /\ row.step = "where" /\ row.since = reader[v].since
    <3> DEFINE asking == [step : {"remember", "where"}, houses : SUBSET Houses, since : Nat]
    <3>1. reader[v] \in asking
      BY <1>0, <2>1 DEF ReaderRows
    <3>2. row \in asking /\ row.step = "where" /\ row.since = reader[v].since
      BY <3>1
    <3> HIDE DEF row
    <3> QED BY <3>2 DEF ReaderRows
  <2>3. row.since <= written
    BY <2>1, <2>2 DEF PageInv
  <2> HIDE DEF row
  <2> QED BY <2>1, <2>2, <2>3, VisitorReads
<1>3. ASSUME NEW v \in Readers, ListWhere(v) PROVE PageInv'
  <2> DEFINE row == [step |-> "load", houses |-> reader[v].houses, since |-> reader[v].since,
                     notIn |-> soldOutEverywhere(reader[v].houses)]
  <2>1. /\ UNCHANGED <<desk, dish, category, page, written>>
        /\ reader' = [reader EXCEPT ![v] = row] /\ reader[v].step = "where"
    BY <1>3 DEF ListWhere, ReadOn, menuTables, pageTables, ReadAt
  <2>2. row \in ReaderRows
    BY <1>0, <2>1
  <2>3. row.since <= written
    BY <2>1 DEF PageInv
  <2>4. row.step = "load" /\ row.notIn = soldOutEverywhere(row.houses)
    OBVIOUS
  <2> HIDE DEF row
  <2> QED BY <2>1, <2>2, <2>3, <2>4, VisitorReads
<1>4. ASSUME NEW v \in Readers, ListLoad(v) PROVE PageInv'
  <2> DEFINE row == [step |-> "keep", houses |-> reader[v].houses, since |-> reader[v].since,
                     shown |-> onTheMenu(reader[v].notIn)]
  <2>1. /\ UNCHANGED <<desk, dish, category, page, written>> /\ reader[v].step = "load"
        /\ \/ reader' = [reader EXCEPT ![v] = row]
           \/ reader' = [reader EXCEPT ![v] = [step |-> "idle"]]
    BY <1>4 DEF ListLoad, ReadOn, menuTables, pageTables, ReadAt
  <2>2. CASE reader' = [reader EXCEPT ![v] = row]
    <3>1. row \in ReaderRows /\ row.since <= written
      BY <1>0, <2>1, <2>2 DEF PageInv
    <3>2. (\A q \in Desks : ~ At(q, "invalidate")) /\ row.since = written =>
            row.shown = publicMenu(row.houses)
      BY <2>1 DEF PageInv, publicMenu
    <3>3. row.step = "keep"
      OBVIOUS
    <3> HIDE DEF row
    <3> QED BY <2>1, <2>2, <3>1, <3>2, <3>3, VisitorReads
  <2>3. CASE reader' = [reader EXCEPT ![v] = [step |-> "idle"]]
    <3>1. [step |-> "idle"] \in ReaderRows
      BY DEF ReaderRows
    <3> QED BY <2>1, <2>3, <3>1, VisitorReads
  <2> QED BY <2>1, <2>2, <2>3
<1>5. ASSUME NEW v \in Readers, ListKeep(v) PROVE PageInv'
  <2>1. /\ UNCHANGED <<desk, dish, category, written>> /\ reader[v].step = "keep"
        /\ page'.held /\ page'.shown = reader[v].shown /\ page'.houses = reader[v].houses
        /\ page'.since = reader[v].since /\ reader' = [reader EXCEPT ![v] = [step |-> "idle"]]
    BY <1>5 DEF ListKeep, ReadOn, menuTables, ReadAt
  <2>2. page'.since \in Nat /\ page'.since <= written
    BY <1>0, <2>1 DEF PageInv, ReaderRows
  <2>3. \A w \in Readers : reader'[w].step # "idle" => reader'[w] = reader[w]
    BY <1>0, <2>1
  <2>4. \A q \in Desks : At(q, "invalidate")' <=> At(q, "invalidate")
    BY <2>1 DEF At
  <2>5. \A houses : /\ soldOutEverywhere(houses)' = soldOutEverywhere(houses)
                    /\ publicMenu(houses)' = publicMenu(houses)
    BY <2>1 DEF soldOutEverywhere, publicMenu, onTheMenu, live
  <2> QED BY <2>1, <2>2, <2>3, <2>4, <2>5 DEF PageInv
<1>6. CASE PageExpires \/ MemoExpires
  <2>1. UNCHANGED <<desk, dish, category, written, reader>> /\ (page' = NoPage \/ UNCHANGED page)
    BY <1>6 DEF PageExpires, MemoExpires, menuTables
  <2>2. NoPage.since = 0 /\ ~ NoPage.held
    BY DEF NoPage
  <2>3. \A q \in Desks : At(q, "invalidate")' <=> At(q, "invalidate")
    BY <2>1 DEF At
  <2>4. \A houses : /\ soldOutEverywhere(houses)' = soldOutEverywhere(houses)
                    /\ publicMenu(houses)' = publicMenu(houses)
    BY <2>1 DEF soldOutEverywhere, publicMenu, onTheMenu, live
  <2> QED BY <1>0, <2>1, <2>2, <2>3, <2>4 DEF PageInv
<1> QED BY <1>1, <1>2, <1>3, <1>4, <1>5, <1>6 DEF PageNext

\* Whatever staff write and visitors load at the same time, a page loaded since the
\* menu was last written and its pages deleted is the menu, for the houses it was
\* loaded for (RedisService.remember after delByPattern).
THEOREM PageIsTheMenu == Spec => []CurrentPage
<1>1. Init => PageInv
  BY DEF Init, PageInv, NoPage, Idle
<1>2. Types0 /\ Types0' /\ PageInv /\ [Next]_vars => PageInv'
  <2> SUFFICES ASSUME Types0, Types0', PageInv, [Next]_vars PROVE PageInv'
    OBVIOUS
  <2>1. CASE PageNext
    BY <2>1, PagesRead
  <2>2. CASE MenuNext \/ HouseNext \/ CartNext \/ ProfileNext \/ OfferNext \/ ReviewNext
    BY <2>2, MenuAndPages, HousesAndPages, CartsAndPages, ProfilesAndPages, PageAside
  <2>3. CASE UNCHANGED vars
    BY <2>3 DEF vars, menuTables, pageTables, PageInv, publicMenu, onTheMenu, soldOutEverywhere,
       live, At
  <2> QED BY <2>1, <2>2, <2>3 DEF Next
<1>3. PageInv => CurrentPage
  BY DEF PageInv, CurrentPage
<1> QED BY <1>1, <1>2, <1>3, Always, PTL DEF Spec

(***************************************************************************)
(* Sets of naturals                                                        *)
(***************************************************************************)
\* A set of naturals that is not empty has a least element.
LEMMA Least ==
  ASSUME NEW S \in SUBSET Nat, S # {}
  PROVE  \E n \in S : \A m \in S : n <= m
<1> DEFINE R == OpToRel(<, Nat)
<1>1. R = {ss \in Nat \X Nat : ss[1] < ss[2]}
  BY DEF OpToRel
<1>2. IsWellFoundedOn(R, Nat)
  BY NatLessThanWellFounded
<1> HIDE DEF R
<1>3. PICK n \in S : \A m \in S : <<m, n>> \notin R
  BY <1>2, WFMin
<1>4. \A m \in S : ~ (m < n)
  BY <1>1, <1>3
<1> QED BY <1>4

\* A bounded one has a greatest element.
LEMMA Greatest ==
  ASSUME NEW S \in SUBSET Nat, S # {}, NEW n \in Nat, \A m \in S : m <= n
  PROVE  \E m \in S : \A k \in S : k <= m
<1> DEFINE T == {n - m : m \in S}
<1>1. T \in SUBSET Nat /\ T # {}
  <2>1. \A m \in S : m \in Nat /\ n - m \in Nat
    OBVIOUS
  <2> QED BY <2>1
<1>2. PICK t \in T : \A u \in T : t <= u
  BY <1>1, Least
<1>3. PICK m \in S : t = n - m
  OBVIOUS
<1>4. ASSUME NEW k \in S PROVE k <= m
  <2>1. n - k \in T
    OBVIOUS
  <2>2. n - m <= n - k
    BY <1>2, <1>3, <2>1
  <2> QED BY <2>2
<1> QED BY <1>4
(***************************************************************************)
(* One desk: address books and reviews                                     *)
(***************************************************************************)
BookSteps   == {"createAddress", "updateAddress", "setDefault", "removeAddress"}
ReviewSteps == {"reviewHouse", "reviewOthers", "reviewCommit"}

bookTables   == <<address, mix>>
reviewTables == <<review, note>>

\* A desk that goes on with neither address nor review.
staysOut(q) ==
  /\ \E row : moves(q, row) /\ row.step \notin BookSteps \union ReviewSteps
  /\ UNCHANGED <<bookTables, reviewTables>>

LEMMA SitsOut ==
  ASSUME NEW q, NEW op, NEW row, Begin(q, op, row) \/ GoOn(q, row),
         row.step \notin BookSteps \union ReviewSteps, UNCHANGED <<address, review, note>>
  PROVE  staysOut(q)
BY DEF Begin, GoOn, staysOut, moves, bookTables, reviewTables

LEMMA PagesStayOut == PageNext => UNCHANGED <<desk, bookTables, reviewTables>>
<1> SUFFICES ASSUME PageNext PROVE UNCHANGED <<desk, bookTables, reviewTables>>
  OBVIOUS
<1> USE DEF bookTables, reviewTables, selfTables, ReadOn
<1>1. ASSUME NEW v, \/ ListHouses(v) \/ RememberHouses(v) \/ ListWhere(v) \/ ListLoad(v) \/ ListKeep(v)
      PROVE  UNCHANGED <<desk, bookTables, reviewTables>>
  BY <1>1 DEF ListHouses, RememberHouses, ListWhere, ListLoad, ListKeep
<1>2. CASE PageExpires \/ MemoExpires
  BY <1>2 DEF PageExpires, MemoExpires
<1> QED BY <1>1, <1>2 DEF PageNext

LEMMA MenuStaysOut == MenuNext => \E q \in Desks : staysOut(q)
<1> SUFFICES ASSUME MenuNext PROVE \E q \in Desks : staysOut(q)
  OBVIOUS
<1> USE DEF BookSteps, ReviewSteps, bookTables, reviewTables, selfTables, others
<1>1. ASSUME NEW q, NEW k, NEW price, NEW promo, NEW available, NEW g,
             CreateDish(q, k, price, promo, available, g)
      PROVE  staysOut(q)
  BY SitsOut, <1>1 DEF CreateDish
<1>2. ASSUME NEW q, NEW d, NEW body, UpdateDish(q, d, body) PROVE staysOut(q)
  BY SitsOut, <1>2 DEF UpdateDish
<1>3. ASSUME NEW q, NEW d, NEW h, NEW available, SetAvailability(q, d, h, available)
      PROVE  staysOut(q)
  BY SitsOut, <1>3 DEF SetAvailability
<1>4. ASSUME NEW q, NEW d, RemoveDish(q, d) PROVE staysOut(q)
  BY SitsOut, <1>4 DEF RemoveDish
<1>5. ASSUME NEW q, NEW k, CreateCategory(q, k) \/ RemoveCategory(q, k) PROVE staysOut(q)
  BY SitsOut, <1>5 DEF CreateCategory, RemoveCategory
<1>6. ASSUME NEW q, NEW k, NEW active, UpdateCategory(q, k, active) PROVE staysOut(q)
  BY SitsOut, <1>6 DEF UpdateCategory
<1>7. ASSUME NEW q, \/ CreateDishTx(q) \/ UpdateDishTx(q) \/ SetAvailabilityTx(q)
                    \/ RemoveDishTx(q) \/ RemoveCategoryTx(q)
      PROVE  staysOut(q)
  BY SitsOut, <1>7 DEF CreateDishTx, UpdateDishTx, SetAvailabilityTx, RemoveDishTx, RemoveCategoryTx,
     Written
<1>8. ASSUME NEW q, Invalidate(q) \/ InvalidateFails(q) PROVE staysOut(q)
  BY SitsOut, <1>8 DEF Invalidate, InvalidateFails, Finish, Idle
<1> QED BY <1>1, <1>2, <1>3, <1>4, <1>5, <1>6, <1>7, <1>8 DEF MenuNext

LEMMA HousesStayOut == HouseNext => \E q \in Desks : staysOut(q)
<1> SUFFICES ASSUME HouseNext PROVE \E q \in Desks : staysOut(q)
  OBVIOUS
<1> USE DEF BookSteps, ReviewSteps, bookTables, reviewTables, selfTables, besides,
            Idle
<1>1. ASSUME NEW q, NEW h, CreateHouse(q, h) \/ CloseHouse(q, h) PROVE staysOut(q)
  BY SitsOut, <1>1 DEF CreateHouse, CloseHouse
<1>2. ASSUME NEW q, NEW h, NEW active, NEW open, UpdateHouse(q, h, active, open) PROVE staysOut(q)
  BY SitsOut, <1>2 DEF UpdateHouse
<1>3. ASSUME NEW q, NEW h, NEW open, NEW modes, UpdateSettings(q, h, open, modes) PROVE staysOut(q)
  BY SitsOut, <1>3 DEF UpdateSettings
<1>4. ASSUME NEW q, CloseHouseTx(q) \/ Forget(q) PROVE staysOut(q)
  BY SitsOut, <1>4 DEF CloseHouseTx, Forget, Finish
<1> QED BY <1>1, <1>2, <1>3, <1>4 DEF HouseNext

LEMMA CartsStayOut == CartNext => \E q \in Desks : staysOut(q)
<1> SUFFICES ASSUME CartNext PROVE \E q \in Desks : staysOut(q)
  OBVIOUS
<1> USE DEF BookSteps, ReviewSteps, bookTables, reviewTables, selfTables, apart, Idle
<1>1. ASSUME NEW q, NEW c, NEW d, NEW chosen, NEW quantity, AddItem(q, c, d, chosen, quantity)
      PROVE  staysOut(q)
  BY SitsOut, <1>1 DEF AddItem
<1>2. ASSUME NEW q, NEW c, Clear(q, c) PROVE staysOut(q)
  BY SitsOut, <1>2 DEF Clear
<1>3. ASSUME NEW q, NEW c, NEW nearest, NEW position, NEW mode, Checkout(q, c, nearest, position, mode)
      PROVE  staysOut(q)
  BY SitsOut, <1>3 DEF Checkout
<1>4. ASSUME NEW q, NEW l, NEW quantity, NEW chosen, UpdateItem(q, l, quantity, chosen)
      PROVE  staysOut(q)
  BY SitsOut, <1>4 DEF UpdateItem
<1>5. ASSUME NEW q, NEW l, RemoveItem(q, l) PROVE staysOut(q)
  BY SitsOut, <1>5 DEF RemoveItem
<1>6. ASSUME NEW q, AddItemWrite(q) \/ UpdateItemTx(q) \/ CheckoutTx(q) PROVE staysOut(q)
  BY SitsOut, <1>6 DEF AddItemWrite, UpdateItemTx, CheckoutTx, Finish
<1> QED BY <1>1, <1>2, <1>3, <1>4, <1>5, <1>6 DEF CartNext

LEMMA OffersStayOut == OfferNext => \E q \in Desks : staysOut(q)
<1> SUFFICES ASSUME OfferNext PROVE \E q \in Desks : staysOut(q)
  OBVIOUS
<1> USE DEF BookSteps, ReviewSteps, bookTables, reviewTables, selfTables, Idle
<1>1. ASSUME NEW q, NEW p, NEW type, NEW value, NEW cap, NEW ends,
             CreatePromotion(q, p, type, value, cap, ends)
      PROVE  staysOut(q)
  BY SitsOut, <1>1 DEF CreatePromotion
<1>2. ASSUME NEW q, NEW p, NEW body, UpdatePromotion(q, p, body)
      PROVE  staysOut(q)
  BY SitsOut, <1>2 DEF UpdatePromotion
<1>3. ASSUME NEW q, NEW p, NEW active, SetPromotionActive(q, p, active) \/ RemovePromotion(q, p)
      PROVE  staysOut(q)
  BY SitsOut, <1>3 DEF SetPromotionActive, RemovePromotion
<1>4. ASSUME NEW q, UpdatePromotionWrite(q) PROVE staysOut(q)
  BY SitsOut, <1>4 DEF UpdatePromotionWrite, Finish
<1> QED BY <1>1, <1>2, <1>3, <1>4 DEF OfferNext

AddressRows == [state : {"none", "live", "removed"}, customer : Customers,
                place : Places0, default : BOOLEAN]

inUse(a) == live(address[a])

OneAtMost ==
  \A a, b \in Addresses : /\ inUse(a) /\ inUse(b) /\ address[a].customer = address[b].customer
                          /\ address[a].default /\ address[b].default
                          => a = b

OneAtLeast ==
  "updateAddress" \notin mix =>
    \A a \in Addresses : inUse(a) => \E b \in booked(address[a].customer) : address[b].default

\* The rows used so far are the first ones: the most recent of some of them exists.
UsedFirst == \E n \in Nat : \A a \in Addresses : address[a].state # "none" => a <= n

Books == address \in [Addresses -> AddressRows] /\ UsedFirst /\ OneAtMost /\ OneAtLeast

\* What a request has read of an address book still holds when it writes.
BookRow(row) ==
  /\ row.step = "createAddress" => /\ row.customer \in Customers /\ row.place \in Places0
                                   /\ row.default \in BOOLEAN
                                   /\ booked(row.customer) = {} => row.default
  /\ row.step \in {"updateAddress", "setDefault", "removeAddress"} =>
       row.address \in Addresses /\ inUse(row.address)
  /\ row.step = "updateAddress" => /\ "updateAddress" \in mix
                                   /\ row.place \in {{}} \union {{p} : p \in Places}
                                   /\ row.default \in {{}, {TRUE}, {FALSE}}
  /\ row.step = "removeAddress" => row.default = address[row.address].default

BookInv == Books /\ \A q \in Desks : BookRow(desk[q])

LEMMA BookMoves ==
  ASSUME OneDesk, Types0, Books', NEW q \in Desks, NEW row, moves(q, row), BookRow(row)'
  PROVE  BookInv'
<1>1. \A p \in Desks : desk'[p] = row
  BY DEF OneDesk, moves, Types0, DesksOK
<1> QED BY <1>1 DEF BookInv

LEMMA BooksKept == Books /\ UNCHANGED bookTables => Books'
BY DEF Books, UsedFirst, OneAtMost, OneAtLeast, inUse, booked, live, bookTables

LEMMA BookOut ==
  ASSUME OneDesk, Types0, BookInv, NEW q \in Desks, NEW row, moves(q, row),
         row.step \notin BookSteps, UNCHANGED bookTables
  PROVE  BookInv'
<1>1. BookRow(row)'
  BY DEF BookRow, BookSteps
<1> QED BY <1>1, BooksKept, BookMoves DEF BookInv

LEMMA BookBegins ==
  ASSUME OneDesk, Types0, BookInv, NEW q \in Desks, NEW op, NEW row, Begin(q, op, row),
         BookRow(row), UNCHANGED address
  PROVE  BookInv'
<1>1. UNCHANGED bookTables /\ moves(q, row)
  BY DEF Begin, bookTables, moves
<1>2. BookRow(row)'
  BY <1>1 DEF BookRow, bookTables, inUse, booked, live
<1> QED BY <1>1, <1>2, BooksKept, BookMoves DEF BookInv

\* A request that ends has nothing left to write.
LEMMA BookEnds ==
  ASSUME OneDesk, Types0, NEW q \in Desks, Finish(q), Books'
  PROVE  BookInv'
<1>1. moves(q, Idle)
  BY EndMoves DEF Finish
<1>2. BookRow(Idle)'
  BY DEF BookRow, Idle
<1> QED BY <1>1, <1>2, BookMoves

LEMMA Undefaulted ==
  ASSUME address \in [Addresses -> AddressRows], NEW c, NEW a \in Addresses
  PROVE  /\ undefaulted(c)[a] \in AddressRows
         /\ undefaulted(c)[a].state = address[a].state
         /\ undefaulted(c)[a].customer = address[a].customer
         /\ undefaulted(c)[a].default <=> (address[a].default /\ address[a].customer # c)
BY DEF undefaulted, AddressRows

LEMMA BookRequests ==
  ASSUME OneDesk, Types0, BookInv, NEW q \in Desks
  PROVE  /\ \A c \in Customers, place \in Places0, default \in BOOLEAN :
              CreateAddress(q, c, place, default) => BookInv'
         /\ \A a \in Addresses :
              /\ \A place \in {{}} \union {{p} : p \in Places}, default \in {{}, {TRUE}, {FALSE}} :
                   UpdateAddress(q, a, place, default) => BookInv'
              /\ SetDefault(q, a) => BookInv'
              /\ RemoveAddress(q, a) => BookInv'
<1> USE DEF selfTables
<1>1. ASSUME NEW c \in Customers, NEW place \in Places0, NEW default \in BOOLEAN,
             CreateAddress(q, c, place, default)
      PROVE  BookInv'
  <2>1. BookRow([step |-> "createAddress", customer |-> c, place |-> place,
                 default |-> default \/ booked(c) = {}])
    BY DEF BookRow
  <2> QED BY <1>1, <2>1, BookBegins DEF CreateAddress
<1>2. ASSUME NEW a \in Addresses, NEW place \in {{}} \union {{p} : p \in Places},
             NEW default \in {{}, {TRUE}, {FALSE}}, UpdateAddress(q, a, place, default)
      PROVE  BookInv'
  <2>1. BookRow([step |-> "updateAddress", address |-> a, place |-> place, default |-> default])
    BY <1>2 DEF BookRow, UpdateAddress, Begin, inUse
  <2> QED BY <1>2, <2>1, BookBegins DEF UpdateAddress
<1>3. ASSUME NEW a \in Addresses, SetDefault(q, a) PROVE BookInv'
  <2>1. BookRow([step |-> "setDefault", address |-> a])
    BY <1>3 DEF BookRow, SetDefault, inUse
  <2> QED BY <1>3, <2>1, BookBegins DEF SetDefault
<1>4. ASSUME NEW a \in Addresses, RemoveAddress(q, a) PROVE BookInv'
  <2>1. BookRow([step |-> "removeAddress", address |-> a, default |-> address[a].default])
    BY <1>4 DEF BookRow, RemoveAddress, inUse
  <2> QED BY <1>4, <2>1, BookBegins DEF RemoveAddress
<1> QED BY <1>1, <1>2, <1>3, <1>4

LEMMA BookCreated ==
  ASSUME OneDesk, Types0, BookInv, NEW q \in Desks, CreateAddressTx(q)
  PROVE  Books'
<1> DEFINE body == desk[q]
           former == IF body.default THEN undefaulted(body.customer) ELSE address
           row == [state |-> "live", customer |-> body.customer, place |-> body.place,
                   default |-> body.default]
<1>1. PICK a \in Addresses : address[a].state = "none" /\ address' = [former EXCEPT ![a] = row]
  BY DEF CreateAddressTx
<1>2. /\ body.customer \in Customers /\ body.place \in Places0 /\ body.default \in BOOLEAN
      /\ booked(body.customer) = {} => body.default
  BY DEF BookInv, BookRow, CreateAddressTx, At
<1>3. row \in AddressRows /\ live(row)
  BY <1>2 DEF AddressRows, live
<1>4. address \in [Addresses -> AddressRows] /\ UNCHANGED mix
  BY DEF BookInv, Books, CreateAddressTx, Finish, GoOn
<1>5. ASSUME NEW b \in Addresses, b # a
      PROVE  /\ address'[b] \in AddressRows /\ address'[b].state = address[b].state
             /\ address'[b].customer = address[b].customer
             /\ address'[b].default <=>
                  (address[b].default /\ (body.default => address[b].customer # body.customer))
  <2>1. address'[b] = former[b]
    BY <1>1, <1>4, <1>5 DEF undefaulted
  <2>2. CASE body.default
    BY <1>4, <2>1, <2>2, Undefaulted
  <2>3. CASE ~ body.default
    BY <1>4, <2>1, <2>3 DEF AddressRows
  <2> QED BY <2>2, <2>3
<1>6. address'[a] = row /\ DOMAIN address' = Addresses /\ address' = [b \in Addresses |-> address'[b]]
  BY <1>1, <1>4 DEF undefaulted
<1>7. row.customer = body.customer /\ (row.default <=> body.default) /\ row.state = "live"
  OBVIOUS
<1> HIDE DEF body, row, former
<1>8. address' \in [Addresses -> AddressRows]
  BY <1>3, <1>5, <1>6
<1>9. UsedFirst'
  <2>1. PICK n \in Nat : \A b \in Addresses : address[b].state # "none" => b <= n
    BY DEF BookInv, Books, UsedFirst
  <2>2. a \in Nat /\ \A b \in Addresses : b \in Nat
    BY ShopAssumption DEF ShopAssumption
  <2>3. \E m \in Nat : m >= n /\ m >= a
    BY <2>2
  <2>4. PICK m \in Nat : m >= n /\ m >= a
    BY <2>3
  <2>5. ASSUME NEW b \in Addresses, address'[b].state # "none" PROVE b <= m
    <3>1. CASE b = a
      BY <2>4, <3>1
    <3>2. CASE b # a
      <4>1. b <= n
        BY <1>5, <2>1, <2>5, <3>2
      <4> QED BY <2>2, <2>4, <4>1
    <3> QED BY <3>1, <3>2
  <2> QED BY <2>5 DEF UsedFirst
<1>10. OneAtMost'
  BY <1>3, <1>4, <1>5, <1>6, <1>7 DEF BookInv, Books, OneAtMost, inUse, live
<1>11. OneAtLeast'
  <2> SUFFICES ASSUME "updateAddress" \notin mix, NEW b \in Addresses, inUse(b)'
               PROVE  \E d \in Addresses : /\ inUse(d)' /\ address'[d].customer = address'[b].customer
                                           /\ address'[d].default
    BY <1>4 DEF OneAtLeast, booked, inUse
  <2>1. CASE body.default /\ address'[b].customer = body.customer
    BY <1>6, <1>7, <2>1 DEF inUse, live
  <2>2. ASSUME inUse(b), b # a, ~ body.default \/ address[b].customer # body.customer
        PROVE  \E d \in Addresses : /\ inUse(d)' /\ address'[d].customer = address'[b].customer
                                    /\ address'[d].default
    <3>1. PICK d \in Addresses : /\ inUse(d) /\ address[d].customer = address[b].customer
                                 /\ address[d].default
      BY <2>2 DEF BookInv, Books, OneAtLeast, booked, inUse
    <3>2. d # a
      BY <1>1, <3>1 DEF inUse, live
    <3> QED BY <1>5, <2>2, <3>1, <3>2 DEF inUse, live
  <2>3. CASE b = a /\ ~ body.default
    <3>1. PICK d \in Addresses : inUse(d) /\ address[d].customer = body.customer
      BY <1>2, <2>3 DEF booked, inUse
    <3>2. d # a
      BY <1>1, <3>1 DEF inUse, live
    <3>3. PICK e \in Addresses : /\ inUse(e) /\ address[e].customer = address[d].customer
                                 /\ address[e].default
      BY <3>1 DEF BookInv, Books, OneAtLeast, booked, inUse
    <3>4. e # a
      BY <1>1, <3>3 DEF inUse, live
    <3> QED BY <1>5, <1>6, <1>7, <2>3, <3>1, <3>3, <3>4 DEF inUse, live
  <2>4. CASE b # a /\ (~ body.default \/ address'[b].customer # body.customer)
    <3>1. inUse(b) /\ address'[b].customer = address[b].customer
      BY <1>5, <2>4 DEF inUse, live
    <3> QED BY <2>2, <2>4, <3>1
  <2>5. CASE b = a /\ body.default
    BY <1>6, <1>7, <2>1, <2>5
  <2> QED BY <2>1, <2>3, <2>4, <2>5
<1> QED BY <1>8, <1>9, <1>10, <1>11 DEF Books

\* Rows that keep their state and their owner keep the other parts of Books.
LEMMA BooksRewritten ==
  ASSUME Books, address' \in [Addresses -> AddressRows], OneAtMost', OneAtLeast',
         \A b \in Addresses : address[b].state = "none" => address'[b].state = "none"
  PROVE  Books'
<1>1. UsedFirst'
  <2>1. PICK n \in Nat : \A b \in Addresses : address[b].state # "none" => b <= n
    BY DEF Books, UsedFirst
  <2> QED BY <2>1 DEF UsedFirst
<1> QED BY <1>1 DEF Books

LEMMA BookUpdated ==
  ASSUME OneDesk, Types0, BookInv, NEW q \in Desks, UpdateAddressTx(q)
  PROVE  Books'
<1> DEFINE body == desk[q]
           a == body.address
           former == IF TRUE \in body.default THEN undefaulted(address[a].customer) ELSE address
<1>1. /\ a \in Addresses /\ inUse(a) /\ "updateAddress" \in mix
      /\ body.place \in {{}} \union {{p} : p \in Places} /\ body.default \in {{}, {TRUE}, {FALSE}}
  BY DEF BookInv, BookRow, UpdateAddressTx, At
<1>2. address \in [Addresses -> AddressRows] /\ UNCHANGED mix
  BY DEF BookInv, Books, UpdateAddressTx, Finish, GoOn
<1>3. address' = [former EXCEPT ![a].place = given(body.place, @),
                                ![a].default = given(body.default, @)]
  BY DEF UpdateAddressTx
<1>4. ASSUME NEW b \in Addresses
      PROVE  /\ former[b] \in AddressRows /\ former[b].state = address[b].state
             /\ former[b].customer = address[b].customer
             /\ former[b].default <=>
                  (address[b].default /\ (TRUE \in body.default => address[b].customer # address[a].customer))
  <2>1. CASE TRUE \in body.default
    BY <1>2, <2>1, Undefaulted
  <2>2. CASE TRUE \notin body.default
    BY <1>2, <2>2 DEF AddressRows
  <2> QED BY <2>1, <2>2
<1>5. former = [b \in Addresses |-> former[b]]
  BY <1>2 DEF undefaulted
<1>6. given(body.place, former[a].place) \in Places0
  <2>1. former[a].place \in Places0
    BY <1>1, <1>4 DEF AddressRows
  <2>2. body.place = {} \/ \E p \in Places : body.place = {p}
    BY <1>1
  <2> QED BY <2>1, <2>2 DEF given, Places0
<1>7. /\ given(body.default, former[a].default) \in BOOLEAN
      /\ TRUE \notin body.default => (given(body.default, former[a].default) => former[a].default)
  <2>1. former[a].default \in BOOLEAN
    BY <1>1, <1>4 DEF AddressRows
  <2>2. CASE body.default = {}
    BY <2>1, <2>2 DEF given
  <2>3. CASE body.default = {TRUE}
    BY <2>3 DEF given
  <2>4. CASE body.default = {FALSE}
    BY <2>4 DEF given
  <2> QED BY <1>1, <2>2, <2>3, <2>4
<1> DEFINE place == given(body.place, former[a].place)
           default == given(body.default, former[a].default)
           given0 == TRUE \in body.default
<1>8. address' = [former EXCEPT ![a] = [former[a] EXCEPT !.place = place, !.default = default]]
  BY <1>1, <1>3, <1>5
<1>9. TRUE \in body.default <=> given0
  OBVIOUS
<1> HIDE DEF former, place, default, given0
<1>10. ASSUME NEW b \in Addresses, b # a PROVE address'[b] = former[b]
  BY <1>5, <1>8, <1>10
<1>11. /\ address'[a] \in AddressRows /\ address'[a].state = address[a].state
       /\ address'[a].customer = address[a].customer /\ address'[a].default = default
  <2>1. address'[a] = [former[a] EXCEPT !.place = place, !.default = default]
    BY <1>1, <1>5, <1>8
  <2>2. former[a] \in AddressRows /\ place \in Places0 /\ default \in BOOLEAN
    BY <1>1, <1>4, <1>6, <1>7 DEF place, default
  <2> QED BY <1>1, <1>4, <2>1, <2>2 DEF AddressRows
<1>12. address' \in [Addresses -> AddressRows]
  <2>1. address' = [b \in Addresses |-> address'[b]]
    BY <1>5, <1>8
  <2> QED BY <1>4, <1>10, <1>11, <2>1
<1>13. ~ given0 => (default => former[a].default)
  BY <1>7, <1>9 DEF default
<1>14. ASSUME NEW b \in Addresses
       PROVE  /\ address'[b].state = address[b].state /\ address'[b].customer = address[b].customer
              /\ address'[b].default /\ b # a =>
                   address[b].default /\ (given0 => address[b].customer # address[a].customer)
              /\ address'[b].default /\ b = a /\ ~ given0 => address[b].default
  BY <1>4, <1>9, <1>10, <1>11, <1>13
<1>15. OneAtMost'
  <2> SUFFICES ASSUME NEW b \in Addresses, NEW d \in Addresses, inUse(b)', inUse(d)',
                      address'[b].customer = address'[d].customer,
                      address'[b].default, address'[d].default
               PROVE  b = d
    BY DEF OneAtMost
  <2>1. inUse(b) /\ inUse(d) /\ address[b].customer = address[d].customer
    BY <1>14 DEF inUse, live
  <2>2. CASE given0
    BY <1>14, <2>1, <2>2 DEF BookInv, Books, OneAtMost
  <2>3. CASE ~ given0
    BY <1>14, <2>1, <2>3 DEF BookInv, Books, OneAtMost
  <2> QED BY <2>2, <2>3
<1>16. OneAtLeast'
  BY <1>1, <1>2 DEF OneAtLeast
<1> QED BY <1>12, <1>14, <1>15, <1>16, BooksRewritten DEF BookInv

LEMMA BookSet ==
  ASSUME OneDesk, Types0, BookInv, NEW q \in Desks, SetDefaultTx(q)
  PROVE  Books'
<1> DEFINE a == desk[q].address
           c == address[a].customer
<1>1. a \in Addresses /\ inUse(a)
  BY DEF BookInv, BookRow, SetDefaultTx, At
<1>2. address \in [Addresses -> AddressRows] /\ UNCHANGED mix
  BY DEF BookInv, Books, SetDefaultTx, Finish, GoOn
<1>3. address' = [undefaulted(c) EXCEPT ![a].default = TRUE]
  BY DEF SetDefaultTx
<1>4. ASSUME NEW b \in Addresses
      PROVE  /\ address'[b] \in AddressRows /\ address'[b].state = address[b].state
             /\ address'[b].customer = address[b].customer
             /\ address'[b].default <=> (b = a \/ (address[b].default /\ address[b].customer # c))
  <2>1. undefaulted(c)[b] \in AddressRows
    BY <1>2, Undefaulted
  <2>2. address'[b] = IF b = a THEN [undefaulted(c)[b] EXCEPT !.default = TRUE] ELSE undefaulted(c)[b]
    BY <1>3 DEF undefaulted
  <2>3. /\ address'[b] \in AddressRows /\ address'[b].state = undefaulted(c)[b].state
        /\ address'[b].customer = undefaulted(c)[b].customer
        /\ address'[b].default <=> (b = a \/ undefaulted(c)[b].default)
    BY <2>1, <2>2 DEF AddressRows
  <2> QED BY <1>2, <2>3, Undefaulted
<1>5. address' \in [Addresses -> AddressRows]
  <2>1. address' = [b \in Addresses |-> address'[b]]
    BY <1>3 DEF undefaulted
  <2> QED BY <1>4, <2>1
<1> HIDE DEF a
<1>6. OneAtMost'
  BY <1>4 DEF BookInv, Books, OneAtMost, inUse, live
<1>7. OneAtLeast'
  <2> SUFFICES ASSUME "updateAddress" \notin mix, NEW b \in Addresses, inUse(b)'
               PROVE  \E d \in Addresses : /\ inUse(d)' /\ address'[d].customer = address'[b].customer
                                           /\ address'[d].default
    BY <1>2 DEF OneAtLeast, booked, inUse
  <2>1. inUse(b)
    BY <1>4 DEF inUse, live
  <2>2. CASE address[b].customer = c
    BY <1>1, <1>4, <2>2 DEF inUse, live
  <2>3. CASE address[b].customer # c
    <3>1. PICK d \in Addresses : /\ inUse(d) /\ address[d].customer = address[b].customer
                                 /\ address[d].default
      BY <2>1 DEF BookInv, Books, OneAtLeast, booked, inUse
    <3> QED BY <1>4, <2>3, <3>1 DEF inUse, live
  <2> QED BY <2>2, <2>3
<1> QED BY <1>4, <1>5, <1>6, <1>7, BooksRewritten DEF BookInv

LEMMA BookRemoved ==
  ASSUME OneDesk, Types0, BookInv, NEW q \in Desks, RemoveAddressTx(q)
  PROVE  Books'
<1> DEFINE a == desk[q].address
           c == address[a].customer
           rest == booked(c) \ {a}
           next == CHOOSE b \in rest : \A other \in rest : other <= b
           gone == [address EXCEPT ![a].state = "removed", ![a].default = FALSE]
           passes == address[a].default /\ rest # {}
<1>1. a \in Addresses /\ inUse(a) /\ desk[q].default = address[a].default
  BY DEF BookInv, BookRow, RemoveAddressTx, At
<1>2. address \in [Addresses -> AddressRows] /\ UNCHANGED mix
  BY DEF BookInv, Books, RemoveAddressTx, Finish, GoOn
<1>3. address' = IF passes THEN [gone EXCEPT ![next].default = TRUE] ELSE gone
  <2>1. address' = IF desk[q].default /\ rest # {} THEN [gone EXCEPT ![next].default = TRUE]
                                                   ELSE gone
    BY DEF RemoveAddressTx
  <2> HIDE DEF gone, next, rest
  <2> QED BY <1>1, <2>1
<1>4. passes => next \in rest
  <2> SUFFICES ASSUME rest # {} PROVE next \in rest
    OBVIOUS
  <2>1. PICK n \in Nat : \A b \in Addresses : address[b].state # "none" => b <= n
    BY DEF BookInv, Books, UsedFirst
  <2>2. rest \in SUBSET Nat /\ \A b \in rest : b <= n
    BY <2>1, ShopAssumption DEF ShopAssumption, booked, live
  <2> HIDE DEF rest
  <2>3. \E b \in rest : \A other \in rest : other <= b
    BY <2>2, Greatest
  <2> QED BY <2>3
<1>5. \A b \in rest : b \in Addresses /\ b # a /\ inUse(b) /\ address[b].customer = c
  BY DEF booked, inUse
<1>6. ASSUME NEW b \in Addresses, inUse(b), b # a, address[b].customer = c PROVE b \in rest
  BY <1>6 DEF booked, inUse
<1>7. ASSUME NEW b \in Addresses
      PROVE  /\ gone[b] \in AddressRows
             /\ gone[b].state = IF b = a THEN "removed" ELSE address[b].state
             /\ gone[b].customer = address[b].customer
             /\ gone[b].default <=> (address[b].default /\ b # a)
  <2>1. address[b] \in AddressRows
    BY <1>2
  <2>2. gone[b] = IF b = a THEN [address[b] EXCEPT !.state = "removed", !.default = FALSE]
                  ELSE address[b]
    BY <1>1, <1>2
  <2> HIDE DEF gone
  <2> QED BY <2>1, <2>2 DEF AddressRows
<1>8. gone = [b \in Addresses |-> gone[b]]
  BY <1>2
<1>9. c = address[a].customer /\ (passes <=> address[a].default /\ rest # {})
  OBVIOUS
<1> HIDE DEF a, c, rest, next, gone, passes
<1>10. ASSUME NEW b \in Addresses
       PROVE  /\ address'[b] \in AddressRows
              /\ address'[b].state = IF b = a THEN "removed" ELSE address[b].state
              /\ address'[b].customer = address[b].customer
              /\ address'[b].default <=> ((address[b].default /\ b # a) \/ (passes /\ b = next))
  <2>1. address'[b] = IF passes /\ b = next THEN [gone[b] EXCEPT !.default = TRUE] ELSE gone[b]
    BY <1>3, <1>8
  <2>2. /\ address'[b] \in AddressRows /\ address'[b].state = gone[b].state
        /\ address'[b].customer = gone[b].customer
        /\ address'[b].default <=> (gone[b].default \/ (passes /\ b = next))
    BY <1>7, <2>1 DEF AddressRows
  <2> QED BY <1>7, <2>2
<1>11. address' \in [Addresses -> AddressRows]
  <2>1. address' = [b \in Addresses |-> address'[b]]
    BY <1>3, <1>8
  <2> QED BY <1>10, <2>1
<1>12. ASSUME NEW b \in Addresses PROVE inUse(b)' <=> (inUse(b) /\ b # a)
  BY <1>1, <1>10 DEF inUse, live
<1>13. OneAtMost'
  <2> SUFFICES ASSUME NEW b \in Addresses, NEW d \in Addresses, inUse(b)', inUse(d)',
                      address'[b].customer = address'[d].customer,
                      address'[b].default, address'[d].default
               PROVE  b = d
    BY DEF OneAtMost
  <2>1. /\ inUse(b) /\ inUse(d) /\ b # a /\ d # a
        /\ address[b].customer = address[d].customer
    BY <1>10, <1>12
  <2>2. ASSUME NEW e \in Addresses, inUse(e), e # a, passes, address[e].customer = c
        PROVE  ~ address[e].default
    BY <1>1, <1>9, <2>2 DEF BookInv, Books, OneAtMost
  <2>3. CASE passes /\ (b = next \/ d = next)
    BY <1>4, <1>5, <1>10, <2>1, <2>2, <2>3
  <2>4. CASE ~ (passes /\ (b = next \/ d = next))
    BY <1>10, <2>1, <2>4 DEF BookInv, Books, OneAtMost
  <2> QED BY <2>3, <2>4
<1>14. OneAtLeast'
  <2> SUFFICES ASSUME "updateAddress" \notin mix, NEW b \in Addresses, inUse(b)'
               PROVE  \E d \in Addresses : /\ inUse(d)' /\ address'[d].customer = address'[b].customer
                                           /\ address'[d].default
    BY <1>2 DEF OneAtLeast, booked, inUse
  <2>1. inUse(b) /\ b # a /\ address'[b].customer = address[b].customer
    BY <1>10, <1>12
  <2>2. PICK d \in Addresses : /\ inUse(d) /\ address[d].customer = address[b].customer
                               /\ address[d].default
    BY <2>1 DEF BookInv, Books, OneAtLeast, booked, inUse
  <2>3. CASE d # a
    BY <1>10, <1>12, <2>1, <2>2, <2>3
  <2>4. CASE d = a
    <3>1. b \in rest /\ passes
      BY <1>6, <1>9, <2>1, <2>2, <2>4
    <3>2. next \in rest
      BY <1>4, <3>1
    <3>3. PICK e \in Addresses : /\ e = next /\ e # a /\ inUse(e)
                                 /\ address[e].customer = address[b].customer
      BY <1>5, <1>9, <2>2, <2>4, <3>2
    <3>4. inUse(e)'
      BY <1>12, <3>3
    <3>5. address'[e].customer = address[e].customer
      BY <1>10, <3>3
    <3>6. address'[e].default
      BY <1>10, <3>1, <3>3
    <3> QED BY <2>1, <3>3, <3>4, <3>5, <3>6
  <2> QED BY <2>3, <2>4
<1>15. \A b \in Addresses : address[b].state = "none" => address'[b].state = "none"
  BY <1>1, <1>10 DEF inUse, live
<1> QED BY <1>11, <1>13, <1>14, <1>15, BooksRewritten DEF BookInv

(***************************************************************************)
(* Reviews                                                                 *)
(***************************************************************************)
\* The table as it will be once this review is in it.
withReview(row) == [review EXCEPT ![row.order] = row.rating]

\* What a review has read still holds when it writes.
ReviewRow(row) ==
  /\ row.step \in ReviewSteps => row.order \in Orders /\ review[row.order] = Nothing
  /\ row.step \in {"reviewOthers", "reviewCommit"} =>
       row.house = aggregate(HouseOf[row.order], withReview(row))
  /\ row.step = "reviewCommit" =>
       row.others = [s \in RatedIn[row.order] \ {HouseOf[row.order]} |-> aggregate(s, withReview(row))]

ReviewInv ==
  /\ review = [o \in Orders |-> review[o]]
  /\ NotesFollowReviews
  /\ \A q \in Desks : ReviewRow(desk[q])

LEMMA ReviewMoves ==
  ASSUME OneDesk, Types0, ReviewInv, NEW q \in Desks, NEW row, moves(q, row), ReviewRow(row)',
         UNCHANGED reviewTables
  PROVE  ReviewInv'
<1>1. \A p \in Desks : desk'[p] = row
  BY DEF OneDesk, moves, Types0, DesksOK
<1>2. NotesFollowReviews'
  BY DEF ReviewInv, NotesFollowReviews, reviewTables
<1> QED BY <1>1, <1>2 DEF ReviewInv, reviewTables

LEMMA ReviewOut ==
  ASSUME OneDesk, Types0, ReviewInv, NEW q \in Desks, NEW row, moves(q, row),
         row.step \notin ReviewSteps, UNCHANGED reviewTables
  PROVE  ReviewInv'
<1>1. ReviewRow(row)'
  BY DEF ReviewRow, ReviewSteps
<1> QED BY <1>1, ReviewMoves

\* A review says nothing of what it does not rate.
LEMMA NotRated ==
  ASSUME NEW o \in Orders, NEW rating, NEW s, s \notin RatedIn[o], review = [x \in Orders |-> review[x]]
  PROVE  aggregate(s, [review EXCEPT ![o] = rating]) = aggregate(s, review)
<1> DEFINE after == [review EXCEPT ![o] = rating]
           rated(rows) == {x \in Orders : rows[x] # Nothing /\ s \in RatedIn[x]}
           ratings(rows) == [x \in rated(rows) |-> rows[x]]
<1>1. \A x \in Orders : x # o => after[x] = review[x]
  OBVIOUS
<1>2. rated(after) = rated(review)
  BY <1>1
<1>3. ratings(after) = ratings(review)
  BY <1>1, <1>2
<1>4. \A rows : aggregate(s, rows) =
        [count |-> Cardinality(rated(rows)),
         shown |-> displayedRating(total(ratings(rows)), Cardinality(rated(rows)))]
  BY DEF aggregate
<1> HIDE DEF rated, ratings
<1> QED BY <1>2, <1>3, <1>4

LEMMA ReviewsFollow ==
  ASSUME OneDesk, Types0, ReviewInv, ReviewNext
  PROVE  ReviewInv'
<1> USE DEF selfTables, reviewTables
<1>1. ASSUME NEW q \in Desks, NEW o \in Orders, NEW rating, CreateReview(q, o, rating)
      PROVE  ReviewInv'
  <2> DEFINE row == [step |-> "reviewHouse", order |-> o, rating |-> rating]
  <2>1. moves(q, row) /\ UNCHANGED reviewTables /\ review[o] = Nothing
    BY <1>1, BeginMoves DEF CreateReview
  <2>2. row.step = "reviewHouse" /\ row.order = o
    OBVIOUS
  <2> HIDE DEF row
  <2>3. ReviewRow(row)'
    BY <2>1, <2>2 DEF ReviewRow
  <2> QED BY <2>1, <2>3, ReviewMoves
<1>2. ASSUME NEW q \in Desks, ReviewHouse(q) PROVE ReviewInv'
  <2> DEFINE body == desk[q]
             row == [step |-> "reviewOthers", order |-> body.order, rating |-> body.rating,
                     house |-> aggregate(HouseOf[body.order], withMine(q))]
  <2>1. body.order \in Orders /\ review[body.order] = Nothing
    BY <1>2 DEF ReviewInv, ReviewRow, ReviewSteps, ReviewHouse, At
  <2>2. moves(q, row) /\ UNCHANGED reviewTables
    BY <1>2, <2>1, EndMoves DEF ReviewHouse
  <2>3. /\ row.step = "reviewOthers" /\ row.order \in Orders /\ review[row.order] = Nothing
        /\ row.house = aggregate(HouseOf[row.order], withReview(row))
    BY <2>1 DEF withReview, withMine
  <2>4. PICK kept : kept = row
    OBVIOUS
  <2> HIDE DEF row, body
  <2>5. ReviewRow(kept)'
    BY <2>2, <2>3, <2>4 DEF ReviewRow, withReview
  <2> QED BY <2>2, <2>4, <2>5, ReviewMoves
<1>3. ASSUME NEW q \in Desks, ReviewOthers(q) PROVE ReviewInv'
  <2> DEFINE body == desk[q]
             row == [step |-> "reviewCommit", order |-> body.order, rating |-> body.rating,
                     house |-> body.house,
                     others |-> [s \in RatedIn[body.order] \ {HouseOf[body.order]} |->
                                   aggregate(s, withMine(q))]]
  <2>1. /\ body.order \in Orders /\ review[body.order] = Nothing
        /\ body.house = aggregate(HouseOf[body.order], withReview(body))
    BY <1>3 DEF ReviewInv, ReviewRow, ReviewSteps, ReviewOthers, At
  <2>2. moves(q, row) /\ UNCHANGED reviewTables
    BY <1>3, EndMoves DEF ReviewOthers
  <2>3. withReview(row) = withReview(body) /\ withReview(body) = withMine(q)
    BY DEF withReview, withMine
  <2>4. /\ row.step = "reviewCommit" /\ row.order = body.order /\ row.house = body.house
        /\ row.others = [s \in RatedIn[body.order] \ {HouseOf[body.order]} |-> aggregate(s, withMine(q))]
    OBVIOUS
  <2>5. PICK kept : kept = row
    OBVIOUS
  <2> HIDE DEF row, body
  <2>6. ReviewRow(kept)'
    BY <2>1, <2>2, <2>3, <2>4, <2>5 DEF ReviewRow, withReview
  <2> QED BY <2>2, <2>5, <2>6, ReviewMoves
<1>4. ASSUME NEW q \in Desks, ReviewCommit(q) PROVE ReviewInv'
  <2> DEFINE body == desk[q]
  <2>1. /\ body.order \in Orders /\ review[body.order] = Nothing
        /\ body.house = aggregate(HouseOf[body.order], withReview(body))
        /\ body.others = [s \in RatedIn[body.order] \ {HouseOf[body.order]} |->
                            aggregate(s, withReview(body))]
    BY <1>4 DEF ReviewInv, ReviewRow, ReviewSteps, ReviewCommit, At
  <2>2. /\ review' = withReview(body) /\ moves(q, Idle)
        /\ note' = [s \in Subjects |-> IF s \in DOMAIN body.others THEN body.others[s]
                                        ELSE IF s = HouseOf[body.order] THEN body.house
                                        ELSE note[s]]
    BY <1>4, <2>1, EndMoves DEF ReviewCommit, Finish, withMine, withReview
  <2>3. ASSUME NEW s \in Subjects PROVE note'[s] = aggregate(s, withReview(body))
    <3>1. CASE s \in RatedIn[body.order] \ {HouseOf[body.order]}
      BY <2>1, <2>2, <3>1
    <3>2. CASE s = HouseOf[body.order]
      BY <2>1, <2>2, <3>2
    <3>3. CASE s \notin RatedIn[body.order] /\ s # HouseOf[body.order]
      <4>1. note'[s] = note[s] /\ note[s] = aggregate(s, review)
        BY <2>1, <2>2, <3>3 DEF ReviewInv, NotesFollowReviews
      <4>2. aggregate(s, withReview(body)) = aggregate(s, review)
        BY <2>1, <3>3, NotRated DEF ReviewInv, withReview
      <4> QED BY <4>1, <4>2
    <3> QED BY <3>1, <3>2, <3>3
  <2>4. NotesFollowReviews'
    BY <2>2, <2>3 DEF NotesFollowReviews
  <2>5. review' = [o \in Orders |-> review'[o]]
    BY <2>2 DEF withReview, ReviewInv
  <2>6. \A p \in Desks : desk'[p] = Idle
    BY <2>2 DEF OneDesk, moves, Types0, DesksOK
  <2>7. ReviewRow(Idle)'
    BY DEF ReviewRow, ReviewSteps, Idle
  <2> QED BY <2>4, <2>5, <2>6, <2>7 DEF ReviewInv
<1> QED BY <1>1, <1>2, <1>3, <1>4 DEF ReviewNext

LEMMA ReviewsKeepBooks ==
  ASSUME OneDesk, Types0, BookInv, ReviewNext PROVE BookInv'
<1> USE DEF selfTables, bookTables, BookSteps
<1>1. ASSUME NEW q \in Desks, NEW row, GoOn(q, row), row.step \notin BookSteps, UNCHANGED address
      PROVE  BookInv'
  <2>1. moves(q, row) /\ UNCHANGED bookTables
    BY <1>1 DEF GoOn, moves
  <2> QED BY <1>1, <2>1, BookOut
<1>2. ASSUME NEW q \in Desks, NEW o, NEW rating, CreateReview(q, o, rating) PROVE BookInv'
  <2>1. BookRow([step |-> "reviewHouse", order |-> o, rating |-> rating])
    BY DEF BookRow
  <2> QED BY <1>2, <2>1, BookBegins DEF CreateReview
<1>3. ASSUME NEW q \in Desks, ReviewHouse(q) PROVE BookInv'
  <2>1. CASE review[desk[q].order] # Nothing
    BY <1>1, <1>3, <2>1 DEF ReviewHouse, Idle
  <2>2. CASE review[desk[q].order] = Nothing
    BY <1>1, <1>3, <2>2 DEF ReviewHouse
  <2> QED BY <2>1, <2>2
<1>4. ASSUME NEW q \in Desks, ReviewOthers(q) PROVE BookInv'
  BY <1>1, <1>4 DEF ReviewOthers
<1>5. ASSUME NEW q \in Desks, ReviewCommit(q) PROVE BookInv'
  BY <1>1, <1>5 DEF ReviewCommit, Finish, Idle
<1> QED BY <1>2, <1>3, <1>4, <1>5 DEF ReviewNext

LEMMA BooksFollow == ASSUME OneDesk, Types0, BookInv, ProfileNext PROVE BookInv'
<1>1. ASSUME NEW q \in Desks, \/ CreateAddressTx(q) \/ UpdateAddressTx(q) \/ SetDefaultTx(q)
                              \/ RemoveAddressTx(q)
      PROVE  BookInv'
  <2>1. Finish(q)
    BY <1>1 DEF CreateAddressTx, UpdateAddressTx, SetDefaultTx, RemoveAddressTx
  <2> QED BY <1>1, <2>1, BookEnds, BookCreated, BookUpdated, BookSet, BookRemoved
<1> QED BY <1>1, BookRequests DEF ProfileNext

LEMMA BooksKeepReviews == ASSUME OneDesk, Types0, ReviewInv, ProfileNext PROVE ReviewInv'
<1> USE DEF selfTables, reviewTables, ReviewSteps
<1>1. ASSUME NEW q \in Desks, NEW op, NEW row, Begin(q, op, row), row.step \notin ReviewSteps,
             UNCHANGED selfTables
      PROVE  ReviewInv'
  <2>1. moves(q, row) /\ UNCHANGED reviewTables
    BY <1>1, BeginMoves
  <2> QED BY <1>1, <2>1, ReviewOut
<1>2. ASSUME NEW q \in Desks, NEW c, NEW place, NEW default, CreateAddress(q, c, place, default)
      PROVE  ReviewInv'
  BY <1>1, <1>2 DEF CreateAddress
<1>3. ASSUME NEW q \in Desks, NEW a, NEW place, NEW default, UpdateAddress(q, a, place, default)
      PROVE  ReviewInv'
  BY <1>1, <1>3 DEF UpdateAddress
<1>4. ASSUME NEW q \in Desks, NEW a, SetDefault(q, a) PROVE ReviewInv'
  BY <1>1, <1>4 DEF SetDefault
<1>5. ASSUME NEW q \in Desks, NEW a, RemoveAddress(q, a) PROVE ReviewInv'
  BY <1>1, <1>5 DEF RemoveAddress
<1>6. ASSUME NEW q \in Desks, \/ CreateAddressTx(q) \/ UpdateAddressTx(q) \/ SetDefaultTx(q)
                              \/ RemoveAddressTx(q)
      PROVE  ReviewInv'
  <2>1. Finish(q) /\ UNCHANGED reviewTables
    BY <1>6 DEF CreateAddressTx, UpdateAddressTx, SetDefaultTx, RemoveAddressTx
  <2>2. moves(q, Idle) /\ Idle.step \notin ReviewSteps
    BY <2>1, EndMoves DEF Finish, Idle
  <2> QED BY <2>1, <2>2, ReviewOut
<1> QED BY <1>2, <1>3, <1>4, <1>5, <1>6 DEF ProfileNext

\* Every other step, of visitors or of staff, leaves both as they are.
LEMMA StaysOutKeeps ==
  ASSUME OneDesk, Types0, NEW q \in Desks, staysOut(q)
  PROVE  (BookInv => BookInv') /\ (ReviewInv => ReviewInv')
<1>1. PICK row : moves(q, row) /\ row.step \notin BookSteps \union ReviewSteps
  BY DEF staysOut
<1>2. UNCHANGED bookTables /\ UNCHANGED reviewTables
  BY DEF staysOut
<1> QED BY <1>1, <1>2, BookOut, ReviewOut

LEMMA SelfNext ==
  ASSUME OneDesk, Types0, BookInv, ReviewInv, [Next]_vars
  PROVE  BookInv' /\ ReviewInv'
<1>1. CASE MenuNext \/ HouseNext \/ CartNext \/ OfferNext
  BY <1>1, StaysOutKeeps, MenuStaysOut, HousesStayOut, CartsStayOut, OffersStayOut
<1>2. CASE ProfileNext
  BY <1>2, BooksFollow, BooksKeepReviews
<1>3. CASE ReviewNext
  BY <1>3, ReviewsFollow, ReviewsKeepBooks
<1>4. CASE PageNext \/ UNCHANGED vars
  <2>1. UNCHANGED <<desk, bookTables, reviewTables>>
    BY <1>4, PagesStayOut DEF vars, bookTables, reviewTables, selfTables
  <2>2. BookInv'
    BY <2>1, BooksKept DEF BookInv, BookRow, bookTables, inUse, booked, live
  <2>3. ReviewInv'
    BY <2>1 DEF ReviewInv, NotesFollowReviews, ReviewRow, withReview, reviewTables
  <2> QED BY <2>2, <2>3
<1> QED BY <1>1, <1>2, <1>3, <1>4 DEF Next

LEMMA SelfStarts == Init => BookInv /\ ReviewInv
<1> SUFFICES ASSUME Init PROVE BookInv /\ ReviewInv
  OBVIOUS
<1>1. \A q \in Desks : BookRow(desk[q]) /\ ReviewRow(desk[q])
  BY DEF Init, BookRow, ReviewRow, ReviewSteps, Idle
<1>2. address \in [Addresses -> AddressRows] /\ \A a \in Addresses : address[a].state = "none"
  BY ShopAssumption DEF Init, AddressRows, Places0, ShopAssumption
<1>3. Books
  BY <1>2 DEF Books, UsedFirst, OneAtMost, OneAtLeast, inUse, live
<1>4. ASSUME NEW s \in Subjects PROVE note[s] = aggregate(s, review)
  <2>1. \A o \in Orders : review[o] = Nothing
    BY DEF Init
  <2>2. {o \in Orders : review[o] # Nothing /\ s \in RatedIn[o]} = {}
    BY <2>1
  <2>3. Cardinality({}) = 0 /\ 0 < MinReviews
    BY FS_EmptySet, ShopAssumption DEF ShopAssumption
  <2>4. \A sum : displayedRating(sum, 0) = Nothing
    BY <2>3 DEF displayedRating
  <2>5. note[s] = [count |-> 0, shown |-> Nothing]
    BY DEF Init
  <2> QED BY <2>2, <2>3, <2>4, <2>5 DEF aggregate
<1>5. review = [o \in Orders |-> review[o]]
  BY DEF Init
<1> QED BY <1>1, <1>3, <1>4, <1>5 DEF BookInv, ReviewInv, NotesFollowReviews

LEMMA SelfAlways == ASSUME OneDesk PROVE Spec => [](BookInv /\ ReviewInv)
<1>1. Types0 /\ BookInv /\ ReviewInv /\ [Next]_vars => BookInv' /\ ReviewInv'
  BY SelfNext
<1> QED BY <1>1, SelfStarts, Always, PTL DEF Spec

\* One at a time, an address book never has two defaults, and while no update takes
\* one away a book that is not empty has one: the first address is it, and removing
\* it passes it to the most recent (AddressesService.create, setDefault, remove).
THEOREM OneDefaultAddress == ASSUME OneDesk PROVE Spec => []OneDefault
<1>1. BookInv => OneDefault
  <2> SUFFICES ASSUME BookInv, NEW c \in Customers
               PROVE  /\ Cardinality({a \in booked(c) : address[a].default}) <= 1
                      /\ "updateAddress" \notin mix /\ booked(c) # {} =>
                           \E a \in booked(c) : address[a].default
    BY DEF OneDefault
  <2> DEFINE S == {a \in booked(c) : address[a].default}
  <2>1. \A a, b \in S : a = b
    BY DEF BookInv, Books, OneAtMost, inUse, booked
  <2>2. Cardinality(S) <= 1
    <3> HIDE DEF S
    <3>1. CASE S = {}
      BY <3>1, FS_EmptySet
    <3>2. ASSUME NEW a \in S PROVE Cardinality(S) <= 1
      <4>1. S = {a}
        BY <2>1, <3>2
      <4>2. Cardinality({a}) = 1
        BY FS_Singleton
      <4> QED BY <4>1, <4>2
    <3> QED BY <3>1, <3>2
  <2>3. "updateAddress" \notin mix /\ booked(c) # {} => \E a \in booked(c) : address[a].default
    BY DEF BookInv, Books, OneAtLeast, inUse, booked
  <2> QED BY <2>2, <2>3
<1> QED BY <1>1, SelfAlways, PTL

\* One at a time, the count and the rating shown of a house, a courier or a dish are
\* those of the table of reviews (ReviewsService.create: the averages are computed
\* with the review of the transaction, and written with it).
THEOREM AveragesFollow == ASSUME OneDesk PROVE Spec => []NotesFollowReviews
<1>1. ReviewInv => NotesFollowReviews
  BY DEF ReviewInv
<1> QED BY <1>1, SelfAlways, PTL

(***************************************************************************)
(* Carts: what a customer is shown                                         *)
(***************************************************************************)
CountSteps == {"addItem", "updateItem"}

\* A line of a cart counts at least one, and so does what a request will write of it.
CountRow(row) ==
  /\ row.step = "addItem" => \A l \in row.twin : row.merged[l] >= 1
  /\ row.step = "updateItem" => 0 \notin row.quantity

Counted == \A l \in Lines : line[l].live => line[l].quantity >= 1

CountInv == Counted /\ \A q \in Desks : CountRow(desk[q])

\* Lines go, and none is written.
keepsCounts(q) ==
  /\ \E row : moves(q, row) /\ row.step \notin CountSteps
  /\ \A l \in Lines : line'[l].live => line[l].live /\ line'[l].quantity = line[l].quantity

LEMMA CountMoves ==
  ASSUME Types0, CountInv, NEW q \in Desks, NEW row, moves(q, row), CountRow(row), Counted'
  PROVE  CountInv'
<1>1. \A p \in Desks : desk'[p] = desk[p] \/ desk'[p] = row
  BY DEF moves, Types0, DesksOK
<1>2. \A p \in Desks : CountRow(desk'[p])
  BY <1>1 DEF CountInv
<1> QED BY <1>2 DEF CountInv, CountRow

LEMMA CountsKept == ASSUME Types0, CountInv, NEW q \in Desks, keepsCounts(q) PROVE CountInv'
<1>1. PICK row : moves(q, row) /\ row.step \notin CountSteps
  BY DEF keepsCounts
<1>2. CountRow(row)
  BY <1>1 DEF CountRow, CountSteps
<1>3. Counted'
  BY DEF keepsCounts, CountInv, Counted
<1> QED BY <1>1, <1>2, <1>3, CountMoves

LEMMA KeepsCounts ==
  ASSUME NEW q, NEW op, NEW row, Begin(q, op, row) \/ GoOn(q, row), row.step \notin CountSteps,
         \A l \in Lines : line'[l].live => line[l].live /\ line'[l].quantity = line[l].quantity
  PROVE  keepsCounts(q)
BY DEF Begin, GoOn, keepsCounts, moves

\* The options a line had may go with those of the dish; its count stays.
LEMMA MenuKeepsCounts == Types0 /\ MenuNext => \E q \in Desks : keepsCounts(q)
<1> SUFFICES ASSUME Types0, MenuNext PROVE \E q \in Desks : keepsCounts(q)
  OBVIOUS
<1> USE DEF CountSteps, others
<1>1. ASSUME NEW q, NEW k, NEW price, NEW promo, NEW available, NEW g,
             CreateDish(q, k, price, promo, available, g)
      PROVE  keepsCounts(q)
  BY KeepsCounts, <1>1 DEF CreateDish
<1>2. ASSUME NEW q, NEW d, NEW body, UpdateDish(q, d, body) PROVE keepsCounts(q)
  BY KeepsCounts, <1>2 DEF UpdateDish
<1>3. ASSUME NEW q, NEW d, NEW h, NEW available, SetAvailability(q, d, h, available)
      PROVE  keepsCounts(q)
  BY KeepsCounts, <1>3 DEF SetAvailability
<1>4. ASSUME NEW q, NEW d, RemoveDish(q, d) PROVE keepsCounts(q)
  BY KeepsCounts, <1>4 DEF RemoveDish
<1>5. ASSUME NEW q, NEW k, CreateCategory(q, k) \/ RemoveCategory(q, k) PROVE keepsCounts(q)
  BY KeepsCounts, <1>5 DEF CreateCategory, RemoveCategory
<1>6. ASSUME NEW q, NEW k, NEW active, UpdateCategory(q, k, active) PROVE keepsCounts(q)
  BY KeepsCounts, <1>6 DEF UpdateCategory
<1>7. ASSUME NEW q, SetAvailabilityTx(q) \/ RemoveCategoryTx(q) PROVE keepsCounts(q)
  BY KeepsCounts, <1>7 DEF SetAvailabilityTx, RemoveCategoryTx, Written
<1>8. ASSUME NEW d, NEW sent, writeOptionGroups(d, sent), NEW l \in Lines, line'[l].live
      PROVE  line[l].live /\ line'[l].quantity = line[l].quantity
  <2>1. line[l] \in LineRows
    BY DEF Types0, TypeOK
  <2> QED BY <1>8, <2>1 DEF writeOptionGroups, LineRows
<1>9. ASSUME NEW q, CreateDishTx(q) \/ UpdateDishTx(q) PROVE keepsCounts(q)
  <2>1. UNCHANGED line \/ \E d, sent : writeOptionGroups(d, sent)
    BY <1>9 DEF CreateDishTx, UpdateDishTx
  <2>2. \A l \in Lines : line'[l].live => line[l].live /\ line'[l].quantity = line[l].quantity
    BY <1>8, <2>1
  <2>3. Written(q)
    BY <1>9 DEF CreateDishTx, UpdateDishTx
  <2> QED BY KeepsCounts, <2>2, <2>3 DEF Written
<1>10. ASSUME NEW q, RemoveDishTx(q) PROVE keepsCounts(q)
  <2>1. ASSUME NEW l \in Lines, line'[l].live
        PROVE  line[l].live /\ line'[l].quantity = line[l].quantity
    <3>1. line[l] \in LineRows
      BY DEF Types0, TypeOK
    <3> QED BY <1>10, <2>1, <3>1 DEF RemoveDishTx, LineRows
  <2>2. Written(q)
    BY <1>10 DEF RemoveDishTx
  <2> QED BY KeepsCounts, <2>1, <2>2 DEF Written
<1>11. ASSUME NEW q, Invalidate(q) \/ InvalidateFails(q) PROVE keepsCounts(q)
  BY KeepsCounts, <1>11 DEF Invalidate, InvalidateFails, Finish, Idle
<1> QED BY <1>1, <1>2, <1>3, <1>4, <1>5, <1>6, <1>7, <1>9, <1>10, <1>11 DEF MenuNext

LEMMA OthersKeepCounts ==
  HouseNext \/ ProfileNext \/ ReviewNext \/ OfferNext => \E q \in Desks : keepsCounts(q)
<1> SUFFICES ASSUME HouseNext \/ ProfileNext \/ ReviewNext \/ OfferNext
             PROVE  \E q \in Desks : keepsCounts(q)
  OBVIOUS
<1>1. \E q \in Desks : \E row : moves(q, row) /\ row.step \notin CountSteps /\ UNCHANGED line
  BY HousesAside, ProfilesAside, OffersApart DEF CountSteps, Acting, Watched
<1> QED BY <1>1 DEF keepsCounts

LEMMA CartsCount == ASSUME Types0, CountInv, CartNext PROVE CountInv'
<1>0. line \in [Lines -> LineRows] /\ Counted
  BY DEF Types0, TypeOK, CountInv
<1>1. ASSUME NEW q \in Desks, NEW c \in Customers, NEW d, NEW chosen,
             NEW quantity \in 1..MaxQuantity, AddItem(q, c, d, chosen, quantity)
      PROVE  CountInv'
  <2> DEFINE merged == [l \in twins(c, d, chosen) |-> capped(line[l].quantity + quantity)]
             row == [step |-> "addItem", customer |-> c, dish |-> d, options |-> chosen,
                     quantity |-> quantity, twin |-> twins(c, d, chosen), merged |-> merged]
  <2>1. moves(q, row) /\ UNCHANGED line
    BY <1>1, BeginMoves DEF AddItem
  <2>2. ASSUME NEW l \in twins(c, d, chosen) PROVE merged[l] >= 1
    <3>1. line[l].quantity \in 0..MaxQuantity
      BY <1>0 DEF twins, cartOf, LineRows
    <3> QED BY <3>1, ShopAssumption DEF capped, ShopAssumption
  <2>3. CountRow(row)
    <3> HIDE DEF merged
    <3> QED BY <2>2 DEF CountRow
  <2>4. Counted'
    BY <1>0, <2>1 DEF Counted
  <2> HIDE DEF row
  <2> QED BY <2>1, <2>3, <2>4, CountMoves
<1>2. CountRow(Idle)
  BY DEF CountRow, Idle
<1>3. ASSUME NEW q \in Desks, AddItemWrite(q) PROVE CountInv'
  <2> DEFINE body == desk[q]
             added == [live |-> TRUE, customer |-> body.customer, dish |-> body.dish,
                       options |-> body.options, quantity |-> body.quantity]
  <2>1. /\ body.quantity >= 1 /\ body.twin \subseteq Lines
        /\ \A l \in body.twin : body.merged[l] >= 1
    BY <1>3 DEF Types0, DesksOK, RowOK, AddItemWrite, At, CountInv, CountRow
  <2>2. \/ UNCHANGED line
        \/ \E l \in Lines : line' = [line EXCEPT ![l] = added]
        \/ \E l \in body.twin : line' = [line EXCEPT ![l].quantity = body.merged[l]]
    BY <1>3 DEF AddItemWrite
  <2>3. ASSUME NEW l \in Lines, line' = [line EXCEPT ![l] = added] PROVE Counted'
    BY <1>0, <2>1, <2>3 DEF Counted
  <2>4. ASSUME NEW l \in body.twin, line' = [line EXCEPT ![l].quantity = body.merged[l]]
        PROVE  Counted'
    <3>1. l \in Lines /\ body.merged[l] >= 1
      BY <2>1, <2>4
    <3>2. ASSUME NEW k \in Lines, line'[k].live PROVE line'[k].quantity >= 1
      <4>1. line[k] \in LineRows
        BY <1>0
      <4> HIDE DEF body
      <4>2. CASE k = l
        BY <1>0, <2>4, <3>1, <4>1, <4>2 DEF LineRows
      <4>3. CASE k # l
        BY <1>0, <2>4, <3>1, <3>2, <4>1, <4>3 DEF Counted
      <4> QED BY <4>2, <4>3
    <3> QED BY <3>2 DEF Counted
  <2>5. Counted'
    <3>1. UNCHANGED line => Counted'
      BY <1>0 DEF Counted
    <3> HIDE DEF body, added
    <3> QED BY <2>2, <2>3, <2>4, <3>1
  <2>6. moves(q, Idle)
    BY <1>3, EndMoves DEF AddItemWrite, Finish
  <2> QED BY <1>2, <2>5, <2>6, CountMoves
<1>4. ASSUME NEW l \in Lines, line' = [line EXCEPT ![l].live = FALSE], NEW k \in Lines, line'[k].live
      PROVE  line[k].live /\ line'[k].quantity = line[k].quantity
  <2>1. line[k] \in LineRows
    BY <1>0
  <2> QED BY <1>0, <1>4, <2>1 DEF LineRows
<1>5. ASSUME NEW q \in Desks, NEW l \in Lines, NEW quantity, NEW chosen,
             UpdateItem(q, l, quantity, chosen)
      PROVE  CountInv'
  <2>1. CASE 0 \in quantity
    <3>1. keepsCounts(q)
      BY <1>4, <1>5, <2>1, KeepsCounts DEF UpdateItem, CountSteps, Idle
    <3> QED BY <3>1, CountsKept
  <2>2. CASE 0 \notin quantity
    <3>1. PICK row : row.step = "updateItem" /\ row.quantity = quantity /\ moves(q, row)
      BY <1>5, <2>2, BeginMoves DEF UpdateItem
    <3>2. CountRow(row)
      BY <2>2, <3>1 DEF CountRow
    <3>3. Counted'
      BY <1>0, <1>5, <2>2 DEF UpdateItem, Counted
    <3> QED BY <3>1, <3>2, <3>3, CountMoves
  <2> QED BY <2>1, <2>2
<1>6. ASSUME NEW q \in Desks, NEW l \in Lines, RemoveItem(q, l) PROVE CountInv'
  <2>1. keepsCounts(q)
    BY <1>4, <1>6, KeepsCounts DEF RemoveItem, CountSteps, Idle
  <2> QED BY <2>1, CountsKept
<1>7. ASSUME NEW c, NEW k \in Lines, emptied(c)[k].live
      PROVE  line[k].live /\ emptied(c)[k].quantity = line[k].quantity
  <2>1. line[k] \in LineRows
    BY <1>0
  <2> QED BY <1>7, <2>1 DEF emptied, LineRows
<1>8. ASSUME NEW q \in Desks, NEW c, Clear(q, c) PROVE CountInv'
  <2>1. keepsCounts(q)
    BY <1>7, <1>8, KeepsCounts DEF Clear, CountSteps, Idle
  <2> QED BY <2>1, CountsKept
<1>9. ASSUME NEW q \in Desks, CheckoutTx(q) PROVE CountInv'
  <2>1. Finish(q) /\ (UNCHANGED line \/ line' = emptied(desk[q].customer))
    BY <1>9 DEF CheckoutTx
  <2>2. keepsCounts(q)
    BY <1>7, <2>1, KeepsCounts DEF Finish, CountSteps, Idle
  <2> QED BY <2>2, CountsKept
<1>10. ASSUME NEW q \in Desks, NEW c, NEW nearest, NEW position, NEW mode,
              Checkout(q, c, nearest, position, mode)
       PROVE  CountInv'
  <2>1. PICK row : row.step = "checkout" /\ Begin(q, "checkout", row) /\ UNCHANGED line
    BY <1>10 DEF Checkout
  <2>2. keepsCounts(q)
    BY <2>1, KeepsCounts DEF CountSteps
  <2> QED BY <2>2, CountsKept
<1>11. ASSUME NEW q \in Desks, UpdateItemTx(q) PROVE CountInv'
  <2> DEFINE body == desk[q]
             l == desk[q].line
             row == [line[l] EXCEPT !.quantity = given(body.quantity, line[l].quantity),
                                    !.options = given(body.options, line[l].options)]
  <2>1. /\ l \in Lines /\ 0 \notin body.quantity
        /\ body.quantity \in {{}} \union {{n} : n \in 0..MaxQuantity}
    BY <1>11 DEF Types0, DesksOK, RowOK, UpdateItemTx, At, CountInv, CountRow
  <2>2. line[l] \in LineRows /\ (line[l].live => line[l].quantity >= 1)
    BY <1>0, <2>1 DEF Counted
  <2>3. line[l].live => given(body.quantity, line[l].quantity) >= 1
    <3>1. CASE body.quantity = {}
      BY <2>2, <3>1 DEF given
    <3>2. CASE body.quantity # {}
      <4>1. PICK n \in 0..MaxQuantity : body.quantity = {n} /\ n >= 1
        BY <2>1, <3>2
      <4> HIDE DEF body
      <4> QED BY <4>1 DEF given
    <3> QED BY <3>1, <3>2
  <2>4. row.live = line[l].live /\ row.quantity = given(body.quantity, line[l].quantity)
    BY <2>2 DEF LineRows
  <2>5. UNCHANGED line \/ line' = [line EXCEPT ![l] = row]
    BY <1>0, <1>11, <2>1 DEF UpdateItemTx
  <2>6. Counted'
    <3> HIDE DEF row, l, body
    <3> QED BY <1>0, <2>1, <2>3, <2>4, <2>5 DEF Counted
  <2>7. moves(q, Idle)
    BY <1>11, EndMoves DEF UpdateItemTx, Finish
  <2> QED BY <1>2, <2>6, <2>7, CountMoves
<1> QED BY <1>1, <1>3, <1>5, <1>6, <1>8, <1>9, <1>10, <1>11 DEF CartNext

LEMMA CountsAlways == Spec => []CountInv
<1>1. Init => CountInv
  BY DEF Init, CountInv, Counted, CountRow, Idle
<1>2. Types0 /\ CountInv /\ [Next]_vars => CountInv'
  <2> SUFFICES ASSUME Types0, CountInv, [Next]_vars PROVE CountInv'
    OBVIOUS
  <2>1. CASE MenuNext
    BY <2>1, MenuKeepsCounts, CountsKept
  <2>2. CASE HouseNext \/ ProfileNext \/ ReviewNext \/ OfferNext
    BY <2>2, OthersKeepCounts, CountsKept
  <2>3. CASE CartNext
    BY <2>3, CartsCount
  <2>4. CASE PageNext \/ UNCHANGED vars
    <3>1. UNCHANGED <<desk, line>>
      BY <2>4, PagesAside DEF vars
    <3> QED BY <3>1 DEF CountInv, Counted, CountRow
  <2> QED BY <2>1, <2>2, <2>3, <2>4 DEF Next
<1> QED BY <1>1, <1>2, Always, PTL DEF Spec

\* Of some houses, one is the nearest to a point: the oldest of those as near as any.
LEMMA NearestIsThere ==
  ASSUME NEW p \in Int, NEW some \in SUBSET Houses, some # {}
  PROVE  nearestTo(p, some) \in some
<1>1. \A h \in some : h \in Nat /\ distance(p, h) \in Nat
  <2> TAKE h \in some
  <2>1. h \in Nat /\ Position[h] \in Int
    BY ShopAssumption DEF ShopAssumption
  <2> QED BY <2>1 DEF distance
<1> DEFINE D == {distance(p, h) : h \in some}
<1>2. PICK n \in D : \A m \in D : n <= m
  <2>1. D \in SUBSET Nat /\ D # {}
    BY <1>1
  <2> HIDE DEF D
  <2> QED BY <2>1, Least
<1> DEFINE T == {h \in some : distance(p, h) = n}
<1>3. PICK t \in T : \A h \in T : t <= h
  <2>1. T \in SUBSET Nat /\ T # {}
    BY <1>1, <1>2
  <2> HIDE DEF T
  <2> QED BY <2>1, Least
<1>4. ASSUME NEW g \in some \ {t} PROVE closer(p, t, g)
  <2>1. /\ t \in some /\ distance(p, t) = n /\ t \in Nat /\ g \in Nat
        /\ distance(p, g) \in Nat /\ n \in Nat
    BY <1>1, <1>3
  <2>2. n <= distance(p, g)
    BY <1>2
  <2>3. distance(p, g) = n => t < g
    BY <1>3, <2>1
  <2>4. distance(p, t) < distance(p, g) \/ distance(p, t) = distance(p, g)
    BY <2>1, <2>2
  <2> QED BY <2>1, <2>3, <2>4 DEF closer
<1> QED BY <1>3, <1>4 DEF nearestTo

\* Whoever serves a customer is a house, as soon as one of them is open.
LEMMA ServedByHouse ==
  ASSUME Types0, address \in [Addresses -> AddressRows], NEW c \in Customers,
         NEW position \in Places0, NEW nearest \in servedBy(c, position),
         NEW h \in Houses, serves(h)
  PROVE  nearest \in Houses
<1>1. openHouses \subseteq Houses
  BY DEF openHouses, serving, Types0, TypeOK
<1>2. CASE openHouses # {} /\ position # Nothing
  <2>1. position \in Int
    BY <1>2, ShopAssumption DEF Places0, ShopAssumption
  <2>2. nearest = nearestTo(position, openHouses)
    BY <1>2 DEF servedBy
  <2> QED BY <1>1, <1>2, <2>1, <2>2, NearestIsThere
<1>3. CASE openHouses # {} /\ position = Nothing /\ foremost(c) # {}
  <2>1. PICK a \in foremost(c) : nearest = nearestTo(address[a].place, openHouses)
    BY <1>3 DEF servedBy
  <2>2. a \in Addresses /\ address[a].place # Nothing
    BY <2>1 DEF foremost, booked
  <2>3. address[a].place \in Int
    BY <2>2, ShopAssumption DEF AddressRows, Places0, ShopAssumption
  <2> QED BY <1>1, <1>3, <2>1, <2>3, NearestIsThere
<1>4. CASE nearest = oldest
  <2> DEFINE S == {g \in Houses : house[g].state # "none"}
  <2>1. S \in SUBSET Nat /\ h \in S
    BY ShopAssumption DEF ShopAssumption, serves, live
  <2>2. \E n \in S : \A m \in S : n <= m
    <3> HIDE DEF S
    <3> QED BY <2>1, Least
  <2> QED BY <1>4, <2>2 DEF oldest
<1> QED BY <1>2, <1>3, <1>4 DEF servedBy

\* The kitchen chosen lacks no dish but those it is said to lack, and is one that
\* serves unless it is the nearest.
LEMMA ChosenKitchen ==
  ASSUME Types0, address \in [Addresses -> AddressRows], NEW c \in Customers,
         NEW position \in Places0, NEW nearest \in servedBy(c, position), NEW wanted, NEW mode
  PROVE  LET choice == choose(nearest, position, wanted, mode) IN
         /\ \A d \in wanted : choice.kitchen \in dish[d].soldOut => d \in choice.soldOut
         /\ choice.kitchen = nearest \/ serves(choice.kitchen)
<1> DEFINE point == IF position = Nothing THEN Position[nearest] ELSE position
           able  == {h \in openHouses \ {nearest} :
                       missing(h, wanted) = {} /\ serves(h) /\ canTake(h, mode)}
           choice == choose(nearest, position, wanted, mode)
<1>1. CASE missing(nearest, wanted) = {}
  BY <1>1 DEF choose, missing
<1>2. CASE missing(nearest, wanted) # {} /\ able # {}
  <2>1. able \subseteq Houses
    BY DEF openHouses, serving, Types0, TypeOK
  <2>2. nearest \in Houses
    <3>1. \E h \in Houses : serves(h)
      BY <1>2, <2>1
    <3> QED BY <3>1, ServedByHouse
  <2>3. point \in Int
    BY <2>2, ShopAssumption DEF Places0, ShopAssumption
  <2>4. nearestTo(point, able) \in able
    <3> HIDE DEF able, point
    <3> QED BY <1>2, <2>1, <2>3, NearestIsThere
  <2>5. choice = [ok |-> TRUE, kitchen |-> nearestTo(point, able), soldOut |-> {}]
    BY <1>2 DEF choose
  <2> HIDE DEF choice
  <2>6. choice.kitchen \in able
    BY <2>4, <2>5
  <2>7. missing(choice.kitchen, wanted) = {} /\ serves(choice.kitchen)
    BY <2>6
  <2> QED BY <2>7 DEF missing, choice
<1>3. CASE missing(nearest, wanted) # {} /\ able = {}
  <2>1. choice = [ok |-> FALSE, kitchen |-> nearest, soldOut |-> missing(nearest, wanted)]
    BY <1>3 DEF choose
  <2> QED BY <2>1 DEF missing
<1> QED BY <1>1, <1>2, <1>3

\* One at a time, a cart opens unless its options no longer fit or its house has
\* closed, and what it shows can be ordered from the kitchen it shows
\* (CartsService.get, KitchenSelector.choose, PricingService.quote).
THEOREM CartTruthful == ASSUME OneDesk PROVE Spec => []CartTellsTheTruth
<1>1. Types0 /\ BookInv /\ CountInv /\ Held => CartTellsTheTruth
  <2> SUFFICES ASSUME Types0, BookInv, CountInv, Held, NEW c \in Customers,
                      NEW position \in Places0, NEW mode \in Modes,
                      NEW nearest \in servedBy(c, position)
               PROVE  LET v == view(c, nearest, position, mode) IN
                      /\ \/ v.readable
                         \/ ~ serves(nearest)
                         \/ \E l \in cartOf(c) : ~ resolvesOptions(line[l].dish, line[l].options)
                      /\ v.readable => \A l \in v.shown :
                           /\ serves(v.kitchen)
                           /\ v.kitchen \notin dish[line[l].dish].soldOut
                           /\ live(dish[line[l].dish]) /\ dish[line[l].dish].available
    BY DEF CartTellsTheTruth, CartOpens, ShownIsCooked
  <2> DEFINE wanted == {line[l].dish : l \in onSale(c)}
             choice == choose(nearest, position, wanted, mode)
             shown  == {l \in onSale(c) : line[l].dish \notin choice.soldOut}
             v == view(c, nearest, position, mode)
  <2>1. /\ v.shown = shown /\ v.kitchen = choice.kitchen
        /\ v.readable <=> (shown = {} \/ (serves(choice.kitchen) /\ \A l \in shown : pricedLine(l)))
    BY DEF view
  <2>2. /\ \A d \in wanted : choice.kitchen \in dish[d].soldOut => d \in choice.soldOut
        /\ choice.kitchen = nearest \/ serves(choice.kitchen)
    BY ChosenKitchen DEF BookInv, Books
  <2>3. ASSUME NEW l \in shown PROVE choice.kitchen \notin dish[line[l].dish].soldOut
    BY <2>2
  <2>4. ASSUME NEW l \in shown, resolvesOptions(line[l].dish, line[l].options)
        PROVE  pricedLine(l)
    <3>1. l \in Lines /\ line[l].live /\ dish[line[l].dish].available
      BY DEF onSale, cartOf
    <3>2. live(dish[line[l].dish])
      BY <3>1 DEF Held, MenuHoldsTogether, CartsHoldTheMenu
    <3>3. line[l].quantity \in 1..MaxQuantity
      <4>1. line[l].quantity \in 0..MaxQuantity /\ line[l].quantity >= 1
        BY <3>1 DEF Types0, TypeOK, LineRows, CountInv, Counted
      <4> QED BY <4>1, ShopAssumption DEF ShopAssumption
    <3> QED BY <2>4, <3>1, <3>2, <3>3 DEF pricedLine, priced
  <2>5. shown \subseteq cartOf(c)
    BY DEF onSale
  <2>6. \A l \in shown : pricedLine(l) => live(dish[line[l].dish]) /\ dish[line[l].dish].available
    BY DEF pricedLine, priced
  <2> HIDE DEF shown, choice, v
  <2> QED BY <2>1, <2>2, <2>3, <2>4, <2>5, <2>6 DEF v
<1> QED BY <1>1, Always, SelfAlways, CountsAlways, HeldAlways, PTL

============================================================================
