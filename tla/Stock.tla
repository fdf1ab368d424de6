-------------------------------- MODULE Stock --------------------------------
(***************************************************************************)
(* src/finance/stock.service.ts: the articles of a restaurant's reserve,   *)
(* and the journal of their movements.                                     *)
(*                                                                         *)
(* applyMovement reads the article, computes, and writes the result, in    *)
(* the READ COMMITTED transaction of its caller: one step for the read     *)
(* (MoveRead), one for the writes and the commit (Record, in the actions   *)
(* of the callers).  Quantities are whole numbers of the smallest unit     *)
(* roundQuantity keeps.  A journal is in commit order; a movement carries  *)
(* the date a person gave for it, in the past or in the future, or that of *)
(* its recording: the position it takes in the journal.                    *)
(***************************************************************************)
EXTENDS Integers, Sequences, FiniteSets

CONSTANTS
  Articles, Purchases, Orders,
  Requests,       \* handler slots: each serves one request at a time
  Quantities,     \* the quantities clients send
  Costs,          \* the unit costs clients send
  Dates,          \* the dates clients give, among the positions of a journal
  NoArticle, NoPurchase, NoOrder, NoCost, NoDate,
  MaxCalls        \* bound: requests received in a behaviour

ASSUME StockAssumption ==
  /\ NoArticle \notin Articles /\ NoPurchase \notin Purchases /\ NoOrder \notin Orders
  /\ Quantities \subseteq Nat /\ Costs \subseteq Nat /\ NoCost \notin Int
  /\ Dates \subseteq Nat /\ NoDate \notin Nat
  /\ MaxCalls \in Nat

VARIABLES
  article,    \* stock_items
  journal,    \* stock_movements of each article
  request,    \* what each request holds, and its next step
  typed,      \* ledger: the unit costs people gave for an article
  calls       \* requests received

stock == <<article, journal, typed>>

MovementTypes == {"IN", "OUT", "ADJUSTMENT"}

Inputs == [article : Articles, type : MovementTypes, quantity : Nat,
           cost : Int \union {NoCost}, occurredAt : Nat \union {NoDate},
           purchase : Purchases \union {NoPurchase}, order : Orders \union {NoOrder}]

Movements == [type : MovementTypes, quantity : Nat, after : Int, cost : Int, occurredAt : Nat,
              purchase : Purchases \union {NoPurchase}, order : Orders \union {NoOrder}]

ArticleRows == [state : {"absent", "live", "deleted"}, quantity : Int, averageCost : Int]

NoInput == [article |-> NoArticle, type |-> "OUT", quantity |-> 0, cost |-> NoCost,
            occurredAt |-> NoDate, purchase |-> NoPurchase, order |-> NoOrder]

Idle == [next |-> "idle", by |-> "none", input |-> NoInput, after |-> 0, averageCost |-> 0]

At(r, step) == request[r].next = step

\* Math.round, which rounds a half up.
rounded(n, d) == (2 * n + d) \div (2 * d)

least(x, y) == IF x < y THEN x ELSE y

distance(x, y) == IF x < y THEN y - x ELSE x - y

\* The slot goes from idle to the step of the request it begins.
Begin(r, next, by, input) ==
  /\ At(r, "idle") /\ calls < MaxCalls
  /\ calls' = calls + 1
  /\ request' = [request EXCEPT ![r] = [next |-> next, by |-> by, input |-> input,
                                        after |-> 0, averageCost |-> 0]]

\* A request of one database write: it begins and ends in a step.
BeginAndEnd(r) ==
  /\ At(r, "idle") /\ calls < MaxCalls
  /\ calls' = calls + 1
  /\ UNCHANGED request

\* A request goes to its next step, with what it has found to move.
GoTo(r, next, input) ==
  /\ request' = [request EXCEPT ![r] = [next |-> next, by |-> request[r].by, input |-> input,
                                        after |-> 0, averageCost |-> 0]]
  /\ UNCHANGED calls

Finish(r) == request' = [request EXCEPT ![r] = Idle] /\ UNCHANGED calls

now(a) == Len(journal[a]) + 1

dateOr(given, date) == IF given = NoDate THEN date ELSE given

\* createItem: the opening quantity is a movement like any other.
CreateItem(r, a, quantity, averageCost) ==
  /\ BeginAndEnd(r)
  /\ article[a].state = "absent"
  /\ article' = [article EXCEPT ![a] = [state |-> "live", quantity |-> quantity,
                                        averageCost |-> averageCost]]
  /\ journal' = [journal EXCEPT ![a] =
       IF quantity = 0 THEN @
       ELSE Append(@, [type |-> "IN", quantity |-> quantity, after |-> quantity,
                       cost |-> averageCost, occurredAt |-> now(a),
                       purchase |-> NoPurchase, order |-> NoOrder])]
  /\ typed' = [typed EXCEPT ![a] = @ \union {averageCost}]

\* updateItem may rewrite the average cost, never the quantity.
UpdateItem(r, a, averageCost) ==
  /\ BeginAndEnd(r)
  /\ article[a].state = "live"
  /\ article' = [article EXCEPT ![a].averageCost = averageCost]
  /\ typed' = [typed EXCEPT ![a] = @ \union {averageCost}]
  /\ UNCHANGED journal

RemoveItem(r, a) ==
  /\ BeginAndEnd(r)
  /\ article[a].state = "live"
  /\ article' = [article EXCEPT ![a].state = "deleted"]
  /\ UNCHANGED <<journal, typed>>

\* createMovement: an entry, an exit or a count typed by a person.
CreateMovement(r, a, type, quantity, cost, occurredAt) ==
  /\ Begin(r, "read", "person",
           [article |-> a, type |-> type, quantity |-> quantity, cost |-> cost,
            occurredAt |-> occurredAt, purchase |-> NoPurchase, order |-> NoOrder])
  /\ UNCHANGED stock

\* Only the deduction of an order passes allowNegative, and only it an orderId.
allowNegative(input) == input.order # NoOrder

\* Mutant: an exit is never refused.
neverRefused(item, input) == item.state # "live"

refused(item, input) ==
  \/ item.state # "live"
  \/ input.type = "OUT" /\ input.quantity > item.quantity /\ ~ allowNegative(input)

\* Mutant: an inventory is added to what the counter says.
quantityAfterAdded(item, input) ==
  IF input.type = "OUT" THEN item.quantity - input.quantity ELSE item.quantity + input.quantity

quantityAfter(item, input) ==
  CASE input.type = "IN" -> item.quantity + input.quantity
    [] input.type = "OUT" -> item.quantity - input.quantity
    [] input.type = "ADJUSTMENT" -> input.quantity

\* What an entry is worth, a unit; the other movements take the average cost.
unitCost(item, input) ==
  IF input.type = "IN" /\ input.cost # NoCost THEN input.cost ELSE item.averageCost

\* Mutant: the entry is weighed by the stock it is added to.
costByStock(item, input) ==
  IF input.type = "IN" /\ item.quantity > 0
    THEN rounded(item.quantity * item.averageCost + input.quantity * unitCost(item, input),
                 item.quantity)
    ELSE item.averageCost

\* The weighted average cost: only an entry changes it.
averageCostAfter(item, input) ==
  LET after == quantityAfter(item, input) IN
  IF input.type = "IN" /\ after > 0
    THEN rounded(item.quantity * item.averageCost + input.quantity * unitCost(item, input), after)
    ELSE item.averageCost

\* The quantity of an inventory is the difference it found.
movementQuantity(item, input) ==
  IF input.type = "ADJUSTMENT" THEN distance(input.quantity, item.quantity) ELSE input.quantity

\* applyMovement, to its first write: it computes from what it reads here.
MoveRead(r) ==
  LET input == request[r].input
      item == article[input.article]
      computed == [input EXCEPT !.cost = unitCost(item, input),
                                !.quantity = movementQuantity(item, input)]
  IN
  /\ At(r, "read")
  /\ IF refused(item, input)
       THEN Finish(r)
       ELSE /\ request' = [request EXCEPT ![r] =
                 [next |-> "write", by |-> request[r].by, input |-> computed,
                  after |-> quantityAfter(item, input),
                  averageCost |-> averageCostAfter(item, input)]]
            /\ UNCHANGED calls
  /\ UNCHANGED stock

movementOf(r) ==
  LET input == request[r].input IN
  [type |-> input.type, quantity |-> input.quantity, after |-> request[r].after,
   cost |-> input.cost, purchase |-> input.purchase, order |-> input.order,
   occurredAt |-> dateOr(input.occurredAt, now(input.article))]

\* Its writes: the article by its id, whatever it has become, and the journal.
Record(r) ==
  LET input == request[r].input
      a == input.article
  IN
  /\ article' = [article EXCEPT ![a].quantity = request[r].after,
                                ![a].averageCost = request[r].averageCost]
  /\ journal' = [journal EXCEPT ![a] = Append(@, movementOf(r))]
  /\ typed' = [typed EXCEPT ![a] = IF input.type = "IN" THEN @ \union {input.cost} ELSE @]

InitStock ==
  /\ article = [a \in Articles |-> [state |-> "absent", quantity |-> 0, averageCost |-> 0]]
  /\ journal = [a \in Articles |-> <<>>]
  /\ request = [r \in Requests |-> Idle]
  /\ typed = [a \in Articles |-> {}]
  /\ calls = 0
=============================================================================
