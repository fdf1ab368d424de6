----------------------------- MODULE Storefront -----------------------------
(***************************************************************************)
(* The public side of the restaurant: the menu, the houses, the carts, the *)
(* address books, the promotions and the reviews, written by staff and     *)
(* customers while visitors load the menu through the cache.               *)
(***************************************************************************)
EXTENDS Carts, Profile

Places0 == Places \union {Nothing}
Modes   == {"DELIVERY", "PICKUP"}

\* What an update of a dish may hold.
DishBodies ==
  [category : {{}} \union {{k} : k \in Categories}, price : {{}} \union {{p} : p \in Prices},
   promo : {{}} \union {{p} : p \in Prices \union {NoPromo}},
   available : {{}, {TRUE}, {FALSE}},
   group : {{}} \union {{g} : g \in Groups}]

\* One thing at a time, or the price and its promotion together.
UsualBodies == {b \in DishBodies :
  Cardinality(b.category) + Cardinality(b.price \union b.promo) + Cardinality(b.available)
      + Cardinality(b.group) = 1
    \/ (b.category = {} /\ b.available = {} /\ b.group = {} /\ b.price # {})}

\* What an update of a promotion may hold.
OfferBodies ==
  [type : {{}} \union {{t} : t \in Types}, value : {{}} \union {{n} : n \in Percents},
   starts : {{}, {1}, {2}}, ends : {{}, {1}, {2}},
   cap : {{}} \union {{p} : p \in Prices \union {Nothing}}, active : {{}, {TRUE}, {FALSE}}]

\* What is checked together, or one of the others alone.
UsualOffers == {b \in OfferBodies :
  \/ b.cap = {} /\ b.active = {}
  \/ /\ b.type = {} /\ b.value = {} /\ b.starts = {} /\ b.ends = {}
     /\ b.cap = {} \/ b.active = {}}

(***************************************************************************)
(* The specification                                                       *)
(***************************************************************************)
Init ==
  /\ house \in [Houses -> [state : {"none", "live"}, active : {TRUE}, open : {TRUE},
                           modes : {Modes}]]
  /\ \A h \in Houses : live(house[h]) <=> Cardinality({g \in Houses : g < h}) < 2
  /\ category = [k \in Categories |->
       [state |-> IF k = Opening.category THEN "live" ELSE "none", active |-> TRUE]]
  /\ dish = [d \in Dishes |->
       [state |-> IF d = Opening.dish THEN "live" ELSE "none", category |-> Opening.category,
        price |-> Opening.price, promo |-> NoPromo, available |-> TRUE, soldOut |-> {},
        atLeast |-> 0, atMost |-> 1]]
  /\ option = [o \in Options |-> [state |-> IF o = Opening.option THEN "live" ELSE "none",
                                  dish |-> Opening.dish, offered |-> TRUE]]
  /\ line = [l \in Lines |-> [live |-> FALSE, customer |-> CHOOSE c \in Customers : TRUE,
                              dish |-> CHOOSE d \in Dishes : TRUE, options |-> {},
                              quantity |-> 0]]
  /\ address = [a \in Addresses |-> [state |-> "none", customer |-> CHOOSE c \in Customers : TRUE,
                                     place |-> Nothing, default |-> FALSE]]
  /\ promotion = [p \in Promotions |-> [state |-> "none", type |-> "FIXED", value |-> 1,
                                        cap |-> Nothing, active |-> FALSE, starts |-> 0,
                                        ends |-> 1]]
  /\ review = [o \in Orders |-> Nothing]
  /\ note = [s \in Subjects |-> [count |-> 0, shown |-> Nothing]]
  /\ memo = [held |-> FALSE, houses |-> {}]
  /\ page = NoPage
  /\ written = 0
  /\ mix \in Mixes /\ calls = 0
  /\ desk = [q \in Desks |-> Idle]
  /\ reader = [v \in Readers |-> Idle]

MenuNext == \E q \in Desks :
  \/ \E k \in Categories, price \in Prices, promo \in Prices \union {NoPromo},
        available \in BOOLEAN, g \in Groups :
       CreateDish(q, k, price, promo, available, g)
  \/ \E d \in Dishes :
       \/ \E body \in UsualBodies : UpdateDish(q, d, body)
       \/ \E h \in serving \union {Nothing}, available \in BOOLEAN :
            SetAvailability(q, d, h, available)
       \/ RemoveDish(q, d)
  \/ \E k \in Categories :
       \/ CreateCategory(q, k) \/ RemoveCategory(q, k)
       \/ \E active \in BOOLEAN : UpdateCategory(q, k, active)
  \/ CreateDishTx(q) \/ UpdateDishTx(q) \/ SetAvailabilityTx(q) \/ RemoveDishTx(q)
  \/ RemoveCategoryTx(q) \/ Invalidate(q) \/ InvalidateFails(q)

PageNext ==
  \/ \E v \in Readers : \/ ListHouses(v) \/ RememberHouses(v) \/ ListWhere(v)
                        \/ ListLoad(v) \/ ListKeep(v)
  \/ PageExpires
  \/ MemoExpires

HouseNext == \E q \in Desks :
  \/ \E h \in Houses :
       \/ CreateHouse(q, h) \/ CloseHouse(q, h)
       \/ \E active, open \in BOOLEAN : UpdateHouse(q, h, active, open)
       \/ \E open \in BOOLEAN, modes \in SUBSET Modes : UpdateSettings(q, h, open, modes)
  \/ CloseHouseTx(q) \/ Forget(q)

CartNext == \E q \in Desks :
  \/ \E c \in Customers :
       \/ \E d \in Dishes, chosen \in SUBSET Options, quantity \in 1..MaxQuantity :
            AddItem(q, c, d, chosen, quantity)
       \/ Clear(q, c)
       \/ \E position \in Places0, mode \in Modes : \E nearest \in servedBy(c, position) :
            Checkout(q, c, nearest, position, mode)
  \/ \E l \in Lines :
       \/ \E quantity \in {{}} \union {{n} : n \in 0..MaxQuantity},
             chosen \in {{}} \union {{options} : options \in SUBSET Options} :
            UpdateItem(q, l, quantity, chosen)
       \/ RemoveItem(q, l)
  \/ AddItemWrite(q) \/ UpdateItemTx(q) \/ CheckoutTx(q)

ProfileNext == \E q \in Desks :
  \/ \E c \in Customers, place \in Places0, default \in BOOLEAN :
       CreateAddress(q, c, place, default)
  \/ \E a \in Addresses :
       \/ \E place \in {{}} \union {{p} : p \in Places}, default \in {{}, {TRUE}, {FALSE}} :
            UpdateAddress(q, a, place, default)
       \/ SetDefault(q, a) \/ RemoveAddress(q, a)
  \/ CreateAddressTx(q) \/ UpdateAddressTx(q) \/ SetDefaultTx(q) \/ RemoveAddressTx(q)

OfferNext == \E q \in Desks :
  \/ \E p \in Promotions :
       \/ \E type \in Types, value \in Percents, cap \in Prices \union {Nothing}, ends \in 1..2 :
            CreatePromotion(q, p, type, value, cap, ends)
       \/ \E body \in UsualOffers : UpdatePromotion(q, p, body)
       \/ \E active \in BOOLEAN : SetPromotionActive(q, p, active)
       \/ RemovePromotion(q, p)
  \/ UpdatePromotionWrite(q)

ReviewNext == \E q \in Desks :
  \/ \E o \in Orders, rating \in {1, 4, 5} : CreateReview(q, o, rating)
  \/ ReviewHouse(q) \/ ReviewOthers(q) \/ ReviewCommit(q)

Next == MenuNext \/ PageNext \/ HouseNext \/ CartNext \/ ProfileNext \/ OfferNext \/ ReviewNext

Spec == Init /\ [][Next]_vars

\* What is kept for a time ends: the expiry of a Redis key, the minute of
\* the router.  Requests may stay where they are.
FairSpec == Spec /\ WF_vars(PageExpires) /\ WF_vars(MemoExpires)

(***************************************************************************)
(* Properties                                                              *)
(***************************************************************************)
TypeOK ==
  /\ house \in [Houses -> HouseRows]
  /\ dish \in [Dishes -> DishRows]
  /\ category \in [Categories -> CategoryRows]
  /\ option \in [Options -> OptionRows]
  /\ line \in [Lines -> LineRows]
  /\ promotion \in [Promotions -> PromotionRows]
  /\ memo.houses \subseteq Houses /\ page.shown \subseteq Dishes
  /\ written \in Nat /\ calls \in 0..MaxCalls

\* « Un prix promotionnel supérieur au prix normal n'a aucun sens » : whatever
\* the partial bodies staff send, the two prices of a dish agree.
PromoBelowPrice == \A d \in Dishes :
  live(dish[d]) /\ dish[d].promo # NoPromo => dish[d].promo < dish[d].price

\* A dish on the menu has its category: none is removed under it, and none
\* is created in a removed one.
NoOrphanDish == \A d \in Dishes : live(dish[d]) => live(category[dish[d].category])

\* « Personne ne doit commander un plat retiré de la carte » : no cart holds a
\* removed dish.
CartsHoldTheMenu == \A l \in Lines : line[l].live => live(dish[line[l].dish])

\* Categories, dishes and carts hold together: what one of them names is there.
MenuHoldsTogether == NoOrphanDish /\ CartsHoldTheMenu

\* What a cart shows as available is cooked by the kitchen it shows: that
\* house has it, is open to the public, and the dish is on the menu.
ShownIsCooked ==
  \A c \in Customers, position \in Places0, mode \in Modes : \A nearest \in servedBy(c, position) :
    LET v == view(c, nearest, position, mode) IN
    v.readable => \A l \in v.shown :
      /\ serves(v.kitchen)
      /\ v.kitchen \notin dish[line[l].dish].soldOut
      /\ live(dish[line[l].dish]) /\ dish[line[l].dish].available

\* « Un plat devenu indisponible ne doit pas bloquer l'affichage du panier » :
\* a cart that does not open has a line whose options no longer fit, or a
\* customer sent to a house that has closed.
CartOpens ==
  \A c \in Customers, position \in Places0, mode \in Modes : \A nearest \in servedBy(c, position) :
    \/ view(c, nearest, position, mode).readable
    \/ ~ serves(nearest)
    \/ \E l \in cartOf(c) : ~ resolvesOptions(line[l].dish, line[l].options)

\* A cart opens, and what it shows is true.
CartTellsTheTruth == CartOpens /\ ShownIsCooked

\* An order empties the cart of what it carries, and of nothing else.
EmptiedWhatItOrdered ==
  [][\A q \in Desks : CheckoutTx(q) /\ line' # line =>
       {line[l] : l \in cartOf(desk[q].customer)} = desk[q].lines]_vars

\* A page loaded since the menu was last written and its pages deleted is the
\* menu, for the houses it was loaded for.
CurrentPage ==
  (/\ page.held /\ page.since = written
   /\ \A q \in Desks : ~ At(q, "invalidate"))
    => page.shown = publicMenu(page.houses)

\* « Le client ne se retrouve jamais sans adresse par défaut », nor with two:
\* but for an update that takes the default away, an address book that is
\* not empty has exactly one.
OneDefault == \A c \in Customers :
  /\ Cardinality({a \in booked(c) : address[a].default}) <= 1
  /\ "updateAddress" \notin mix /\ booked(c) # {} => \E a \in booked(c) : address[a].default

\* A discount never exceeds what it is taken from, whatever partial bodies
\* made the promotion: the total needs no clamp.
PromotionsSound == \A p \in Promotions : live(promotion[p]) =>
  \A subtotal \in Percents, fee \in {0, 2} :
    /\ discount(p, subtotal, fee) <= subtotal + fee
    /\ promotion[p].starts < promotion[p].ends

\* No sequence of partial editions makes a promotion worth more than the price.
PricesSound == PromoBelowPrice /\ PromotionsSound

\* « Une moyenne entretenue à la main dérive » : the count and the rating shown
\* of a house, a courier or a dish are those of the table of reviews.
NotesFollowReviews == \A s \in Subjects : note[s] = aggregate(s, review)

\* A stale page does not stay: it is replaced, deleted, or it expires.
StalePageEnds ==
  (page.held /\ page.shown # publicMenu(serving))
    ~> ~ (page.held /\ page.shown # publicMenu(serving))

\* « Une maison fermée ne doit plus recevoir la moindre commande » : the router
\* ends up without it.
ClosedHouseForgotten == \A h \in Houses : ~ serves(h) ~> (h \notin openHouses \/ serves(h))

\* What is kept for a while, and is no longer true, ends.
OldReadingsEnd == StalePageEnds /\ ClosedHouseForgotten
=============================================================================
