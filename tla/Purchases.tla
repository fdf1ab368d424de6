------------------------------ MODULE Purchases ------------------------------
(***************************************************************************)
(* src/finance/purchases.service.ts, and what else moves the stock or      *)
(* settles a purchase: recipes.service.ts takes an order's ingredients     *)
(* out, expenses.service.ts settles the expense born of a purchase.        *)
(*                                                                         *)
(* A purchase has one line, for one article: the lines of a document are   *)
(* treated one after the other in one transaction.  An order takes one     *)
(* ingredient.                                                             *)
(***************************************************************************)
EXTENDS Stock

CONSTANTS
  LineTotals,     \* what a line of purchase may have cost
  Ingredient,     \* the article each order takes from the stock
  Portion         \* how much of it

ASSUME PurchasesAssumption ==
  /\ LineTotals \subseteq Nat
  /\ Ingredient \in [Orders -> Articles] /\ Portion \in [Orders -> Nat]

VARIABLES
  purchase,    \* purchases, with their line
  expense,     \* the expense born of each
  deducted     \* orders.stockConsumedAt is set

books == <<purchase, expense, deducted>>

vars == <<article, journal, request, typed, calls, purchase, expense, deducted>>

Statuses == {"PENDING", "PAID", "CANCELLED"}

NoLine == [status |-> "absent", article |-> NoArticle, quantity |-> 0, unitPrice |-> 0]

PurchaseRows == {NoLine} \union
  [status : Statuses, article : Articles, quantity : Nat, unitPrice : Int]

ExpenseRows == [status : Statuses \union {"absent"}, deleted : BOOLEAN]

Init ==
  /\ InitStock
  /\ purchase = [p \in Purchases |-> NoLine]
  /\ expense = [p \in Purchases |-> [status |-> "absent", deleted |-> FALSE]]
  /\ deducted = [o \in Orders |-> FALSE]

\* The purchase and the order a suspended request works for.
purchaseOf(r) == request[r].input.purchase
orderOf(r) == request[r].input.order

CommitMovement(r) ==
  /\ At(r, "write") /\ request[r].by = "person"
  /\ Record(r) /\ Finish(r) /\ UNCHANGED books

\* consumeForOrder reads the order and its mark; the ingredient leaves the
\* stock even below zero.
ConsumeRead(r, o) ==
  /\ ~ deducted[o]
  /\ Begin(r, "read", "recipe",
           [article |-> Ingredient[o], type |-> "OUT", quantity |-> Portion[o], cost |-> NoCost,
            occurredAt |-> NoDate, purchase |-> NoPurchase, order |-> o])
  /\ UNCHANGED <<stock, books>>

\* A refusal (the article was deleted) rolls the mark back with the rest.
ConsumeCommit(r) ==
  /\ At(r, "write") /\ request[r].by = "recipe"
  /\ Record(r)
  /\ deducted' = [deducted EXCEPT ![orderOf(r)] = TRUE]
  /\ Finish(r)
  /\ UNCHANGED <<purchase, expense>>

\* create: the unit price is deduced from what the line cost.  The document's
\* id is a new one.
ReceiveRead(r, p, a, quantity, lineTotal, purchasedAt) ==
  /\ purchase[p] = NoLine /\ \A q \in Requests : purchaseOf(q) # p
  /\ article[a].state = "live" /\ quantity > 0 /\ lineTotal > 0
  /\ Begin(r, "read", "purchase",
           [article |-> a, type |-> "IN", quantity |-> quantity,
            cost |-> rounded(lineTotal, quantity), occurredAt |-> dateOr(purchasedAt, now(a)),
            purchase |-> p, order |-> NoOrder])
  /\ UNCHANGED <<stock, books>>

\* The document, the entry in stock and the expense commit together, paid or on
\* credit.
ReceiveCommit(r, status) ==
  LET p == purchaseOf(r) IN
  /\ At(r, "write") /\ request[r].by = "purchase"
  /\ Record(r)
  /\ purchase' = [purchase EXCEPT ![p] =
       [status |-> status, article |-> request[r].input.article,
        quantity |-> request[r].input.quantity, unitPrice |-> request[r].input.cost]]
  /\ expense' = [expense EXCEPT ![p] = [status |-> status, deleted |-> FALSE]]
  /\ Finish(r)
  /\ UNCHANGED deducted

\* What settling or cancelling knows of the purchase from its first read.
ForPurchase(p) ==
  [article |-> purchase[p].article, type |-> "OUT", quantity |-> purchase[p].quantity,
   cost |-> NoCost, occurredAt |-> NoDate, purchase |-> p, order |-> NoOrder]

\* settle, before its transaction.
SettleRead(r, p) ==
  /\ purchase[p].status = "PENDING"
  /\ Begin(r, "settle", "purchase", ForPurchase(p))
  /\ UNCHANGED <<stock, books>>

SettleCommit(r) ==
  LET p == purchaseOf(r) IN
  /\ At(r, "settle")
  /\ expense' = [expense EXCEPT ![p].status = "PAID"]
  /\ purchase' = [purchase EXCEPT ![p].status = "PAID"]
  /\ Finish(r)
  /\ UNCHANGED <<stock, deducted>>

\* ExpensesService.settle: the same, from the expense, in two writes.
SettleExpenseRead(r, p) ==
  /\ ~ expense[p].deleted /\ expense[p].status = "PENDING"
  /\ Begin(r, "settleExpense", "expense", ForPurchase(p))
  /\ UNCHANGED <<stock, books>>

SettleExpense(r) ==
  /\ At(r, "settleExpense")
  /\ expense' = [expense EXCEPT ![purchaseOf(r)].status = "PAID"]
  /\ GoTo(r, "follow", request[r].input)
  /\ UNCHANGED <<stock, purchase, deducted>>

\* The purchase follows its expense.
PurchaseFollows(r) ==
  /\ At(r, "follow")
  /\ purchase' = [purchase EXCEPT ![purchaseOf(r)].status = "PAID"]
  /\ Finish(r)
  /\ UNCHANGED <<stock, expense, deducted>>

\* Mutant: a cancelled purchase may be cancelled again.
CancelAnyRead(r, p) ==
  /\ purchase[p] # NoLine
  /\ Begin(r, "return", "cancel", ForPurchase(p))
  /\ UNCHANGED <<stock, books>>

\* cancel, before its transaction.
CancelRead(r, p) ==
  /\ purchase[p].status \in {"PENDING", "PAID"}
  /\ Begin(r, "return", "cancel", ForPurchase(p))
  /\ UNCHANGED <<stock, books>>

Void(p) ==
  /\ expense' = [expense EXCEPT ![p] = [status |-> "CANCELLED", deleted |-> TRUE]]
  /\ purchase' = [purchase EXCEPT ![p].status = "CANCELLED"]
  /\ UNCHANGED deducted

\* What is left of the goods, at most what was bought, goes back; when nothing
\* is left the documents are closed without a movement.
CancelReturn(r) ==
  LET available == article[request[r].input.article].quantity
      returned == [request[r].input EXCEPT !.quantity = least(@, available)]
  IN
  /\ At(r, "return")
  /\ UNCHANGED stock
  /\ IF available <= 0
       THEN Void(purchaseOf(r)) /\ Finish(r)
       ELSE GoTo(r, "read", returned) /\ UNCHANGED books

CancelCommit(r) ==
  /\ At(r, "write") /\ request[r].by = "cancel"
  /\ Record(r) /\ Void(purchaseOf(r)) /\ Finish(r)

\* The process stops, or the database answers with an error: a transaction is
\* rolled back, and what was committed stays.
Abort(r) ==
  /\ ~ At(r, "idle")
  /\ Finish(r)
  /\ UNCHANGED <<stock, books>>

\* The stock's own requests.
StockStep(r) ==
  /\ \/ \E a \in Articles : \E averageCost \in Costs :
          \/ \E quantity \in Quantities : CreateItem(r, a, quantity, averageCost)
          \/ UpdateItem(r, a, averageCost)
     \/ \E a \in Articles :
          \/ RemoveItem(r, a)
          \/ \E type \in MovementTypes, quantity \in Quantities, cost \in Costs \union {NoCost},
               occurredAt \in Dates \union {NoDate} :
               CreateMovement(r, a, type, quantity, cost, occurredAt)
     \/ MoveRead(r)
  /\ UNCHANGED books

PurchaseStep(r) ==
  \/ \E p \in Purchases :
       \/ \E a \in Articles, quantity \in Quantities, lineTotal \in LineTotals,
             purchasedAt \in Dates \union {NoDate} :
            ReceiveRead(r, p, a, quantity, lineTotal, purchasedAt)
       \/ SettleRead(r, p) \/ SettleExpenseRead(r, p) \/ CancelRead(r, p)
  \/ \E status \in {"PENDING", "PAID"} : ReceiveCommit(r, status)
  \/ SettleCommit(r) \/ SettleExpense(r) \/ PurchaseFollows(r)
  \/ CancelReturn(r) \/ CancelCommit(r)

Next ==
  \E r \in Requests :
    \/ StockStep(r) \/ PurchaseStep(r) \/ CommitMovement(r)
    \/ (\E o \in Orders : ConsumeRead(r, o)) \/ ConsumeCommit(r)
    \/ Abort(r)

Spec == Init /\ [][Next]_vars

RequestRows == [next : {"idle", "read", "write", "settle", "settleExpense", "follow", "return"},
                by : {"none", "person", "recipe", "purchase", "expense", "cancel"},
                input : Inputs \union {NoInput}, after : Int, averageCost : Int]

\* The requests that settle or cancel.
closes(q) ==
  \/ q.next \in {"settle", "settleExpense", "follow", "return"}
  \/ q.next \in {"read", "write"} /\ q.by = "cancel"

\* A request that has begun names an article, and the purchase or the order it
\* works for; a movement about to be written has its cost.
wellFormed(q) ==
  /\ q.next # "idle" => q.input \in Inputs
  /\ closes(q) \/ (q.next # "idle" /\ q.by = "purchase") => q.input.purchase \in Purchases
  /\ q.next # "idle" /\ q.by = "recipe" => q.input.order \in Orders
  /\ q.next = "write" => q.input.cost \in Int

StockTypes ==
  /\ article \in [Articles -> ArticleRows]
  /\ journal \in [Articles -> Seq(Movements)]
  /\ typed \in [Articles -> SUBSET Int]

RequestTypes ==
  /\ request \in [Requests -> RequestRows]
  /\ \A r \in Requests : wellFormed(request[r])
  /\ calls \in 0..MaxCalls

BookTypes ==
  /\ purchase \in [Purchases -> PurchaseRows]
  /\ expense \in [Purchases -> ExpenseRows]
  /\ deducted \in [Orders -> BOOLEAN]

\* An expense is born with its purchase, and nobody settles or cancels what does
\* not exist.
DocumentsExist ==
  /\ \A p \in Purchases : purchase[p].status = "absent" <=> expense[p].status = "absent"
  /\ \A r \in Requests : closes(request[r]) => purchase[purchaseOf(r)].status # "absent"

\* Every row has its type, and a suspended request knows what it works for.
TypeOK == StockTypes /\ RequestTypes /\ BookTypes /\ DocumentsExist

quantityBefore(movements, n) == IF n = 1 THEN 0 ELSE movements[n - 1].after

\* What a movement did to the counter is what it says: an entry its quantity
\* more, an exit its quantity less, an inventory the difference.
justified(before, movement) ==
  /\ movement.type = "IN" => movement.after = before + movement.quantity
  /\ movement.type = "OUT" => movement.after = before - movement.quantity
  /\ movement.type = "ADJUSTMENT" => movement.quantity = distance(before, movement.after)

\* "Le stock ne s'ecrit jamais directement : il est la somme de ses mouvements":
\* the counter is where the latest movement left it, and each movement took it
\* from where the one before had.
CounterEndsJournal ==
  \A a \in Articles :
    article[a].quantity = quantityBefore(journal[a], Len(journal[a]) + 1)

JournalJustifies ==
  /\ CounterEndsJournal
  /\ \A a \in Articles : \A n \in 1..Len(journal[a]) :
       justified(quantityBefore(journal[a], n), journal[a][n])

\* Nothing but an order's deduction leaves less than there was, and below zero.
staysAbove(before, movement) ==
  movement.order = NoOrder /\ movement.after < before => movement.after >= 0

\* An order may take the stock below zero, a person or a return never does.
PreparationAloneGoesBelow ==
  \A a \in Articles : \A n \in 1..Len(journal[a]) :
    staysAbove(quantityBefore(journal[a], n), journal[a][n])

\* A settled purchase has its money in the journal of expenses, and a cancelled
\* one has taken it out; on credit, its expense may have been settled by a
\* request that has not told the purchase, or will not.
PurchaseWithItsExpense ==
  \A p \in Purchases :
    CASE purchase[p].status = "absent" -> expense[p].status = "absent"
      [] purchase[p].status = "PENDING" ->
           expense[p].status \in {"PENDING", "PAID"} /\ ~ expense[p].deleted
      [] purchase[p].status = "PAID" -> expense[p].status = "PAID" /\ ~ expense[p].deleted
      [] purchase[p].status = "CANCELLED" -> expense[p].status = "CANCELLED" /\ expense[p].deleted

movementsOf(p, type) ==
  {m \in UNION {{a} \X (1..Len(journal[a])) : a \in Articles} :
     journal[m[1]][m[2]].purchase = p /\ journal[m[1]][m[2]].type = type}

\* The goods of a purchase go back once at the most.
ReturnedOnce == \A p \in Purchases : Cardinality(movementsOf(p, "OUT")) <= 1

\* The goods of a purchase came in once, and went back once at the most, when it
\* was cancelled, and never more of them than came in.
GoodsReturnedOnce ==
  \A p \in Purchases :
    LET entries == movementsOf(p, "IN")
        returns == movementsOf(p, "OUT")
    IN /\ Cardinality(entries) = IF purchase[p] = NoLine THEN 0 ELSE 1
       /\ Cardinality(returns) <= IF purchase[p].status = "CANCELLED" THEN 1 ELSE 0
       /\ \A e \in entries, m \in returns :
            journal[m[1]][m[2]].quantity <= journal[e[1]][e[2]].quantity

\* A purchase is accounted for on both sides, its money in the journal of
\* expenses and its goods in the journal of stock, through settlements and
\* cancellations from either.
PurchaseAccounted == PurchaseWithItsExpense /\ GoodsReturnedOnce

\* "annuler n'est pas effacer": a cancelled purchase is settled or cancelled by
\* nobody any more.
CancelledStays ==
  [][\A p \in Purchases : purchase[p].status = "CANCELLED" => UNCHANGED purchase[p]]_vars

\* The counter of an article was never below zero.
neverBelow(a) == \A n \in 1..Len(journal[a]) : journal[a][n].after >= 0

\* As long as more is never sold than was bought, the weighted average stays
\* between the lowest and the highest cost anybody gave.
CostBetweenPrices ==
  \A a \in Articles : article[a].state # "absent" /\ neverBelow(a) =>
    \E low, high \in typed[a] : low <= article[a].averageCost /\ article[a].averageCost <= high

\* The same of an article that may have been sold below zero.
CostAlwaysBetweenPrices ==
  \A a \in Articles : article[a].state # "absent" =>
    \E low, high \in typed[a] : low <= article[a].averageCost /\ article[a].averageCost <= high
=============================================================================
