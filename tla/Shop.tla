------------------------------- MODULE Shop -------------------------------
(***************************************************************************)
(* What the public sees of the restaurant, and who writes it: the menu     *)
(* common to every house, the stock-outs of each, the houses themselves,   *)
(* the carts, the address books, the promotions and the reviews.  This     *)
(* module holds the tables and what the handlers share; Menu, Kitchens,    *)
(* Carts and Profile hold the handlers, Storefront composes them.          *)
(*                                                                         *)
(* A handler reads and decides, then commits what it decided; staff and    *)
(* customers take turns at the Desks, visitors load pages at the Readers,  *)
(* and any of them may move between two steps of another.                  *)
(***************************************************************************)
EXTENDS Integers, FiniteSets

CONSTANTS
  Houses,         \* restaurants: numbers, from the oldest to the newest
  Position,       \* latitude and longitude of each, on a line
  Places,         \* where an address or an application may be
  Dishes, Categories, Options, Customers, Promotions,
  Addresses,      \* rows of an address book: numbers, in the order of their creation
  Lines,          \* rows of a cart
  Nothing,        \* null
  Prices, Percents, Groups,  \* what a body may hold: prices, promotion values, options
  MaxQuantity,    \* 50 of one line
  MaxAddresses,   \* 20 addresses of a customer
  MinReviews,     \* MIN_REVIEWS_FOR_RATING
  Orders, RatedIn,  \* delivered orders, and what each is rated for: house, courier, dishes
  HouseOf,        \* the house that cooked an order
  Opening,        \* the dish, its category and its option when a behaviour starts
  Desks,          \* request slots of staff and customers
  Readers,        \* request slots of the visitors of the menu
  Mixes,          \* bound: the routes one behaviour calls
  MaxCalls        \* bound: how many requests arrive

ASSUME ShopAssumption ==
  /\ Houses \subseteq Nat /\ Addresses \subseteq Nat
  /\ Position \in [Houses -> Int] /\ Places \subseteq Int
  /\ Prices \subseteq Nat /\ Percents \subseteq Nat
  /\ Groups \subseteq [options : SUBSET Options, offered : SUBSET Options,
                       atLeast : Nat, atMost : Nat]
  /\ Opening \in [dish : Dishes, category : Categories, option : Options, price : Prices]
  /\ Customers # {}
  /\ MaxQuantity \in Nat \ {0} /\ MaxAddresses \in Nat /\ MinReviews \in Nat \ {0}
  /\ HouseOf \in [Orders -> Houses] /\ \A o \in Orders : HouseOf[o] \in RatedIn[o]
  /\ MaxCalls \in Nat

VARIABLES
  house, dish, option, category,   \* restaurants, menu_items, menu_options, categories
  line,                            \* cart_items
  address, promotion,
  review, note,                    \* order_reviews; rating and reviewCount of what they rate
  memo,                            \* RestaurantRouter.maisons
  page,                            \* the public pages in Redis
  written,                         \* ledger: how often the menu was written, and its pages to be deleted
  mix, calls,
  desk, reader                     \* what each request has read, and its next step

menuTables == <<dish, option, category>>
selfTables == <<address, promotion, review, note>>
pageTables == <<memo, page>>
vars == <<house, menuTables, line, selfTables, pageTables, written, mix, calls, desk, reader>>

NoPromo == -1

HouseRows == [state : {"none", "live", "closed"}, active : BOOLEAN,
              open : BOOLEAN,                           \* SettingsService.isOpenNow
              modes : SUBSET {"DELIVERY", "PICKUP"}]    \* deliveryEnabled, pickupEnabled

DishRows == [state : {"none", "live", "removed"}, category : Categories,
             price : Prices, promo : Prices \union {NoPromo},
             available : BOOLEAN,
             soldOut : SUBSET Houses,                   \* menu_item_stockouts
             atLeast : Nat, atMost : Nat]               \* minSelect, maxSelect

CategoryRows == [state : {"none", "live", "removed"}, active : BOOLEAN]

OptionRows == [state : {"none", "live", "gone"}, dish : Dishes, offered : BOOLEAN]

LineRows == [live : BOOLEAN, customer : Customers, dish : Dishes, options : SUBSET Options,
             quantity : 0..MaxQuantity]

live(row) == row.state = "live"

\* Ouvert au public.
serves(h) == live(house[h]) /\ house[h].active

serving == {h \in Houses : serves(h)}

optionsOf(d) == {o \in Options : live(option[o]) /\ option[o].dish = d}

cartOf(c) == {l \in Lines : line[l].live /\ line[l].customer = c}

booked(c) == {a \in Addresses : live(address[a]) /\ address[a].customer = c}

\* A field of a partial body is {} or holds one value.
given(field, former) == IF field = {} THEN former ELSE CHOOSE value \in field : TRUE

(***************************************************************************)
(* Requests                                                                *)
(***************************************************************************)
Idle == [step |-> "idle"]

At(q, step) == desk[q].step = step

\* A request of route op arrives at a desk, and goes on as row.
Begin(q, op, row) ==
  /\ op \in mix /\ calls < MaxCalls
  /\ At(q, "idle")
  /\ calls' = calls + 1
  /\ desk' = [desk EXCEPT ![q] = row]
  /\ UNCHANGED <<mix, reader>>

GoOn(q, row) == desk' = [desk EXCEPT ![q] = row] /\ UNCHANGED <<mix, calls, reader>>

Finish(q) == GoOn(q, Idle)

untouched(tables) == UNCHANGED <<tables, mix, calls>>
===========================================================================
