------------------------------- MODULE Carts -------------------------------
(***************************************************************************)
(* src/src/carts/carts.service.ts, the prices it asks for                  *)
(* (src/src/orders/pricing.service.ts) and the order that empties a cart   *)
(* (src/src/orders/orders.service.ts).  A cart holds no amount: what it    *)
(* shows is worked out at every reading.  Notes on a line are left out.    *)
(***************************************************************************)
EXTENDS Kitchens

apart == <<house, menuTables, selfTables, pageTables, written>>

(***************************************************************************)
(* PricingService.quote: whether it answers                                *)
(***************************************************************************)
resolvesOptions(d, chosen) ==
  /\ \A o \in chosen : o \in optionsOf(d) /\ option[o].offered
  /\ chosen # {} => Cardinality(chosen) >= dish[d].atLeast
  /\ Cardinality(chosen) <= dish[d].atMost

\* One line of it: a dish, options and a quantity.
priced(d, chosen, quantity) ==
  /\ live(dish[d]) /\ dish[d].available
  /\ quantity \in 1..MaxQuantity
  /\ resolvesOptions(d, chosen)

pricedLine(l) == priced(line[l].dish, line[l].options, line[l].quantity)

(***************************************************************************)
(* The cart as its customer sees it                                        *)
(***************************************************************************)

onSale(c) ==
  {l \in cartOf(c) : /\ dish[line[l].dish].available
                     /\ line[l].dish \notin soldOutEverywhere(openHouses)}

\* get: the lines that can be ordered, the kitchen that would cook them, and
\* whether the prices answer.  The house is read by its id: it must serve.
view(c, nearest, position, mode) ==
  LET choice == choose(nearest, position, {line[l].dish : l \in onSale(c)}, mode)
      shown  == {l \in onSale(c) : line[l].dish \notin choice.soldOut}
  IN [shown    |-> shown,
      kitchen  |-> choice.kitchen,
      readable |-> shown = {} \/ (serves(choice.kitchen) /\ \A l \in shown : pricedLine(l))]

(***************************************************************************)
(* Handlers                                                                *)
(***************************************************************************)

capped(quantity) == IF quantity > MaxQuantity THEN MaxQuantity ELSE quantity

\* The row of the same dish with exactly the same options.
twins(c, d, chosen) == {l \in cartOf(c) : line[l].dish = d /\ line[l].options = chosen}

AddItem(q, c, d, chosen, quantity) ==
  /\ priced(d, chosen, quantity)
  /\ d \notin soldOutEverywhere(openHouses)
  /\ Begin(q, "addItem",
       [step |-> "addItem", customer |-> c, dish |-> d, options |-> chosen,
        quantity |-> quantity, twin |-> twins(c, d, chosen),
        merged |-> [l \in twins(c, d, chosen) |-> capped(line[l].quantity + quantity)]])
  /\ UNCHANGED <<line, apart>>

\* A row no request refers to.
freeLine(l) == /\ ~ line[l].live
               /\ \A q \in Desks : "twin" \in DOMAIN desk[q] => l \notin desk[q].twin
               /\ \A q \in Desks : "line" \in DOMAIN desk[q] => l # desk[q].line

\* The first twin found takes the sum, if it is still there; else a line is
\* inserted, if its options are.
AddItemWrite(q) ==
  LET body == desk[q]
      added == [live |-> TRUE, customer |-> body.customer, dish |-> body.dish,
                options |-> body.options, quantity |-> body.quantity]
  IN
  /\ At(q, "addItem")
  /\ \/ \E l \in Lines :
          /\ body.twin = {} /\ freeLine(l) /\ \A k \in Lines : k < l => ~ freeLine(k)
          /\ line' = IF \A o \in body.options : live(option[o])
                       THEN [line EXCEPT ![l] = added] ELSE line
     \/ \E l \in body.twin :
          /\ \A k \in body.twin : l <= k
          /\ line' = IF line[l].live THEN [line EXCEPT ![l].quantity = body.merged[l]] ELSE line
  /\ Finish(q)
  /\ UNCHANGED apart

\* A quantity of 0 deletes the line; options, when sent, are priced first.
UpdateItem(q, l, quantity, chosen) ==
  /\ line[l].live
  /\ IF 0 \in quantity
       THEN /\ Begin(q, "updateItem", Idle)
            /\ line' = [line EXCEPT ![l].live = FALSE]
       ELSE /\ \A options \in chosen :
                 priced(line[l].dish, options, given(quantity, line[l].quantity))
            /\ Begin(q, "updateItem", [step |-> "updateItem", line |-> l,
                                       quantity |-> quantity, options |-> chosen])
            /\ UNCHANGED line
  /\ UNCHANGED apart

UpdateItemTx(q) ==
  LET body == desk[q]
      l == desk[q].line
  IN
  /\ At(q, "updateItem")
  /\ line' = IF line[l].live /\ \A options \in body.options : \A o \in options : live(option[o])
               THEN [line EXCEPT ![l].quantity = given(body.quantity, @),
                                 ![l].options = given(body.options, @)]
               ELSE line
  /\ Finish(q)
  /\ UNCHANGED apart

RemoveItem(q, l) ==
  /\ line[l].live
  /\ Begin(q, "removeItem", Idle)
  /\ line' = [line EXCEPT ![l].live = FALSE]
  /\ UNCHANGED apart

emptied(c) == [l \in Lines |-> [line[l] EXCEPT !.live = @ /\ line[l].customer # c]]

Clear(q, c) ==
  /\ Begin(q, "clearCart", Idle)
  /\ line' = emptied(c)
  /\ UNCHANGED apart

(***************************************************************************)
(* An order made of the cart: its lines are read, a kitchen is chosen, and *)
(* the transaction that prices and creates the order empties the cart.     *)
(* Payment, address and minimum are in Orders.                             *)
(***************************************************************************)
\* A delivery has a point; the house nearest to a point is read by its id.
named(nearest, position, mode) ==
  /\ mode = "DELIVERY" => position # Nothing
  /\ position # Nothing /\ openHouses # {} => serves(nearest)

Checkout(q, c, nearest, position, mode) ==
  LET wanted == {line[l].dish : l \in cartOf(c)}
      choice == choose(nearest, position, wanted, mode)
  IN
  /\ cartOf(c) # {} /\ named(nearest, position, mode)
  /\ choice.ok /\ canTake(choice.kitchen, mode)
  /\ Begin(q, "checkout", [step |-> "checkout", customer |-> c, kitchen |-> choice.kitchen,
                           lines |-> {line[l] : l \in cartOf(c)}])
  /\ UNCHANGED <<line, apart>>

CheckoutTx(q) ==
  LET body == desk[q]
      ordered == /\ serves(body.kitchen)
                 /\ \A row \in body.lines : priced(row.dish, row.options, row.quantity)
  IN
  /\ At(q, "checkout")
  /\ line' = IF ordered THEN emptied(body.customer) ELSE line
  /\ Finish(q)
  /\ UNCHANGED apart
============================================================================
