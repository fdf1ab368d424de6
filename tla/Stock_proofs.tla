---------------------------- MODULE Stock_proofs ----------------------------
(***************************************************************************)
(* For any number of articles, purchases, orders and requests: the counter *)
(* of an article is always where its latest movement left it, and while it *)
(* was never below zero its average cost lies between the costs given.     *)
(* When requests come one at a time, each movement took the counter from   *)
(* where the one before had, so the counter is the sum of its movements,   *)
(* the goods of a purchase go with its money, and the lots found by        *)
(* replaying a journal by its dates hold what the counter says.            *)
(***************************************************************************)
EXTENDS Lots, FiniteSetTheorems, SequenceTheorems, WellFoundedInduction, TLAPS

\* A request's row is replaced by a well-formed one.
LEMMA NewRequest ==
  ASSUME RequestTypes, calls' \in 0..MaxCalls,
         NEW r \in Requests, NEW q \in RequestRows, wellFormed(q),
         request' = [request EXCEPT ![r] = q]
  PROVE  RequestTypes'
<1>1. request' \in [Requests -> RequestRows]
  BY DEF RequestTypes
<1>2. ASSUME NEW s \in Requests PROVE wellFormed(request[s])'
  <2>1. request'[s] = IF s = r THEN q ELSE request[s]
    BY DEF RequestTypes
  <2>2. wellFormed(request'[s])
    BY <2>1 DEF RequestTypes
  <2> QED
    BY <2>2 DEF wellFormed
<1> QED
  BY <1>1, <1>2 DEF RequestTypes

\* A request that ends leaves its slot idle.
LEMMA Finished ==
  ASSUME RequestTypes, NEW r \in Requests, Finish(r)
  PROVE  RequestTypes'
<1>1. Idle \in RequestRows /\ wellFormed(Idle)
  BY DEF Idle, RequestRows, wellFormed, closes
<1> QED
  BY <1>1, NewRequest DEF Finish, RequestTypes

\* A request that begins takes an idle slot.
LEMMA Begun ==
  ASSUME RequestTypes, NEW r \in Requests, NEW next, NEW by, NEW input \in Inputs,
         next \in {"read", "settle", "settleExpense", "return"},
         by \in {"person", "recipe", "purchase", "expense", "cancel"},
         next # "read" \/ by \in {"purchase", "cancel"} => input.purchase \in Purchases,
         by = "recipe" => input.order \in Orders,
         Begin(r, next, by, input)
  PROVE  RequestTypes'
<1> DEFINE q == [next |-> next, by |-> by, input |-> input, after |-> 0, averageCost |-> 0]
<1>1. q \in RequestRows /\ wellFormed(q)
  BY DEF RequestRows, wellFormed, closes
<1>2. calls' \in 0..MaxCalls /\ request' = [request EXCEPT ![r] = q]
  BY StockAssumption DEF Begin, RequestTypes
<1> QED
  BY <1>1, <1>2, NewRequest

\* A movement that has been computed, for the same purchase or order.
LEMMA Moved ==
  ASSUME RequestTypes, NEW r \in Requests, ~ At(r, "idle"), UNCHANGED calls,
         NEW input \in Inputs, input.cost \in Int, NEW after \in Int, NEW averageCost \in Int,
         input.purchase = purchaseOf(r), input.order = orderOf(r),
         request' = [request EXCEPT ![r] = [next |-> "write", by |-> request[r].by,
                       input |-> input, after |-> after, averageCost |-> averageCost]]
  PROVE  RequestTypes'
<1> DEFINE q == [next |-> "write", by |-> request[r].by, input |-> input,
                 after |-> after, averageCost |-> averageCost]
<1>1. request[r] \in RequestRows /\ wellFormed(request[r])
  BY DEF RequestTypes
<1>2. q \in RequestRows
  BY <1>1 DEF RequestRows
<1>3. wellFormed(q)
  BY <1>1 DEF wellFormed, closes, At, purchaseOf, orderOf, RequestRows
<1> QED
  BY <1>2, <1>3, NewRequest DEF RequestTypes

\* A request that goes to its next step, with the same aim.
LEMMA Gone ==
  ASSUME RequestTypes, NEW r \in Requests, ~ At(r, "idle"),
         NEW next \in {"read", "follow"}, NEW input \in Inputs,
         next = "follow" => closes(request[r]),
         input.purchase = purchaseOf(r), input.order = orderOf(r),
         GoTo(r, next, input)
  PROVE  RequestTypes'
<1> DEFINE q == [next |-> next, by |-> request[r].by, input |-> input,
                 after |-> 0, averageCost |-> 0]
<1>1. request[r] \in RequestRows /\ wellFormed(request[r])
  BY DEF RequestTypes
<1>2. q \in RequestRows
  BY <1>1 DEF RequestRows
<1>3. wellFormed(q)
  BY <1>1 DEF wellFormed, closes, At, purchaseOf, orderOf, RequestRows
<1> QED
  BY <1>2, <1>3, NewRequest DEF RequestTypes, GoTo

\* What applyMovement computes are whole numbers.
LEMMA Computed ==
  ASSUME NEW item \in ArticleRows, NEW input \in Inputs
  PROVE  /\ quantityAfter(item, input) \in Int
         /\ unitCost(item, input) \in Int
         /\ averageCostAfter(item, input) \in Int
<1>1. /\ item.quantity \in Int /\ item.averageCost \in Int /\ input.quantity \in Nat
      /\ input.cost \in Int \union {NoCost} /\ input.type \in MovementTypes
  BY DEF ArticleRows, Inputs
<1>2. quantityAfter(item, input) \in Int
  BY <1>1 DEF quantityAfter, MovementTypes
<1>3. unitCost(item, input) \in Int
  BY <1>1 DEF unitCost
<1>4. ASSUME NEW n \in Int, NEW d \in Int, d > 0 PROVE rounded(n, d) \in Int
  BY <1>4 DEF rounded
<1>5. averageCostAfter(item, input) \in Int
  <2> DEFINE after == quantityAfter(item, input)
             value == item.quantity * item.averageCost + input.quantity * unitCost(item, input)
  <2>1. value \in Int
    <3> HIDE DEF after
    <3>1. item.quantity * item.averageCost \in Int
      BY <1>1
    <3>2. input.quantity * unitCost(item, input) \in Int
      BY <1>1, <1>3
    <3> QED
      BY <3>1, <3>2
  <2> HIDE DEF value
  <2>2. after > 0 => rounded(value, after) \in Int
    BY <1>2, <1>4, <2>1
  <2> QED
    BY <1>1, <2>2 DEF averageCostAfter, value
<1> QED
  BY <1>2, <1>3, <1>5

\* A movement of which nobody gives the date takes that of its recording.
LEMMA NowIsNat ==
  ASSUME StockTypes, NEW a \in Articles
  PROVE  now(a) \in Nat
BY DEF StockTypes, now

LEMMA DateIsNat ==
  ASSUME NEW given \in Nat \union {NoDate}, NEW date \in Nat
  PROVE  dateOr(given, date) \in Nat
BY DEF dateOr

LEMMA MovementIs ==
  ASSUME StockTypes, NEW r \in Requests, request[r].input \in Inputs,
         request[r].input.cost \in Int, request[r].after \in Int
  PROVE  movementOf(r) \in Movements
<1> DEFINE input == request[r].input
<1>1. input.occurredAt \in Nat \union {NoDate} /\ input.article \in Articles
  BY DEF Inputs
<1>2. dateOr(input.occurredAt, now(input.article)) \in Nat
  BY <1>1, NowIsNat, DateIsNat
<1> QED
  BY <1>2 DEF Inputs, Movements, movementOf

\* A recorded movement keeps the types of the stock.
LEMMA RecordTypes ==
  ASSUME StockTypes, RequestTypes, NEW r \in Requests, At(r, "write"), Record(r)
  PROVE  StockTypes'
<1> DEFINE input == request[r].input
<1>1. /\ input \in Inputs /\ input.cost \in Int /\ input.article \in Articles
      /\ request[r].after \in Int /\ request[r].averageCost \in Int
  BY DEF RequestTypes, RequestRows, wellFormed, At, Inputs
<1>2. movementOf(r) \in Movements
  BY <1>1, MovementIs
<1>3. article' \in [Articles -> ArticleRows]
  BY <1>1 DEF Record, StockTypes, ArticleRows
<1>4. journal' \in [Articles -> Seq(Movements)]
  BY <1>1, <1>2 DEF StockTypes, Record
<1>5. typed' \in [Articles -> SUBSET Int]
  BY <1>1 DEF Record, StockTypes
<1> QED
  BY <1>3, <1>4, <1>5 DEF StockTypes

LEMMA InitTypes == Init => TypeOK
<1> SUFFICES ASSUME Init PROVE TypeOK
  OBVIOUS
<1>1. StockTypes
  BY DEF Init, InitStock, StockTypes, ArticleRows
<1>2. Idle \in RequestRows /\ wellFormed(Idle)
  BY DEF Idle, RequestRows, wellFormed, closes
<1>3. RequestTypes
  BY <1>2, StockAssumption DEF Init, InitStock, RequestTypes
<1>4. BookTypes
  BY DEF Init, BookTypes, PurchaseRows, NoLine, ExpenseRows, Statuses
<1>5. DocumentsExist
  BY DEF Init, InitStock, Idle, DocumentsExist, closes, NoLine
<1> QED
  BY <1>1, <1>3, <1>4, <1>5 DEF TypeOK

\* A step of r begins to close no purchase, and no other request changes.
NoOtherCloses(r) ==
  \A s \in Requests : closes(request'[s]) =>
    closes(request[s]) /\ request'[s].input.purchase = request[s].input.purchase

\* Books that stay, and requests of which none begins to close a purchase.
LEMMA BooksKept ==
  ASSUME TypeOK, UNCHANGED books, NEW r \in Requests, NoOtherCloses(r)
  PROVE  BookTypes' /\ DocumentsExist'
<1>1. ASSUME NEW s \in Requests, closes(request'[s])
      PROVE  purchase'[request'[s].input.purchase].status # "absent"
  BY <1>1 DEF TypeOK, DocumentsExist, NoOtherCloses, purchaseOf, books
<1> QED
  BY <1>1 DEF TypeOK, BookTypes, DocumentsExist, closes, purchaseOf, books

\* A request that ends closes nothing any more.
LEMMA FinishedCloses ==
  ASSUME TypeOK, NEW r \in Requests, Finish(r)
  PROVE  NoOtherCloses(r)
BY DEF TypeOK, RequestTypes, Finish, Idle, closes, NoOtherCloses

LEMMA AtOnce ==
  ASSUME TypeOK, NEW r \in Requests, BeginAndEnd(r)
  PROVE  NoOtherCloses(r)
BY DEF BeginAndEnd, NoOtherCloses

LEMMA StockStepTypes ==
  ASSUME TypeOK, NEW r \in Requests, StockStep(r)
  PROVE  TypeOK'
<1>2. ASSUME NEW a \in Articles, NEW averageCost \in Costs, NEW quantity \in Quantities,
             CreateItem(r, a, quantity, averageCost)
      PROVE StockTypes' /\ RequestTypes' /\ NoOtherCloses(r)
  <2>1. quantity \in Nat /\ averageCost \in Nat
    BY StockAssumption
  <2>2. [type |-> "IN", quantity |-> quantity, after |-> quantity, cost |-> averageCost,
         occurredAt |-> now(a), purchase |-> NoPurchase, order |-> NoOrder] \in Movements
    BY <2>1, NowIsNat DEF TypeOK, Movements, MovementTypes
  <2>3. journal' \in [Articles -> Seq(Movements)]
    BY <1>2, <2>2 DEF CreateItem, TypeOK, StockTypes
  <2>4. RequestTypes'
    BY <1>2, StockAssumption DEF CreateItem, BeginAndEnd, TypeOK, RequestTypes, wellFormed
  <2>5. article' \in [Articles -> ArticleRows] /\ typed' \in [Articles -> SUBSET Int]
    BY <1>2, <2>1 DEF CreateItem, TypeOK, StockTypes, ArticleRows
  <2>6. NoOtherCloses(r)
    BY <1>2, AtOnce DEF CreateItem
  <2> QED
    BY <2>3, <2>4, <2>5, <2>6 DEF StockTypes
<1>3. ASSUME NEW a \in Articles, NEW averageCost \in Costs, UpdateItem(r, a, averageCost)
      PROVE StockTypes' /\ RequestTypes' /\ NoOtherCloses(r)
  <2>1. averageCost \in Nat
    BY StockAssumption
  <2>2. RequestTypes'
    BY <1>3, StockAssumption DEF UpdateItem, BeginAndEnd, TypeOK, RequestTypes, wellFormed
  <2>3. StockTypes'
    <3>1. article' \in [Articles -> ArticleRows]
      BY <1>3, <2>1 DEF UpdateItem, TypeOK, StockTypes, ArticleRows
    <3>2. typed' \in [Articles -> SUBSET Int]
      BY <1>3, <2>1 DEF UpdateItem, TypeOK, StockTypes
    <3> QED
      BY <1>3, <3>1, <3>2 DEF UpdateItem, TypeOK, StockTypes
  <2>4. NoOtherCloses(r)
    BY <1>3, AtOnce DEF UpdateItem
  <2> QED
    BY <2>2, <2>3, <2>4
<1>4. ASSUME NEW a \in Articles, RemoveItem(r, a)
      PROVE StockTypes' /\ RequestTypes' /\ NoOtherCloses(r)
  <2>1. RequestTypes'
    BY <1>4, StockAssumption DEF RemoveItem, BeginAndEnd, TypeOK, RequestTypes, wellFormed
  <2>2. StockTypes'
    BY <1>4 DEF RemoveItem, TypeOK, StockTypes, ArticleRows
  <2>3. NoOtherCloses(r)
    BY <1>4, AtOnce DEF RemoveItem
  <2> QED
    BY <2>1, <2>2, <2>3
<1>5. ASSUME NEW a \in Articles, NEW type \in MovementTypes, NEW quantity \in Quantities,
             NEW cost \in Costs \union {NoCost}, NEW occurredAt \in Dates \union {NoDate},
             CreateMovement(r, a, type, quantity, cost, occurredAt)
      PROVE StockTypes' /\ RequestTypes' /\ NoOtherCloses(r)
  <2> DEFINE input == [article |-> a, type |-> type, quantity |-> quantity, cost |-> cost,
                       occurredAt |-> occurredAt, purchase |-> NoPurchase, order |-> NoOrder]
  <2>1. input \in Inputs
    BY StockAssumption DEF Inputs
  <2>2. Begin(r, "read", "person", input)
    BY <1>5 DEF CreateMovement
  <2>3. RequestTypes'
    BY <2>1, <2>2, Begun DEF TypeOK
  <2>4. NoOtherCloses(r)
    BY <2>2 DEF Begin, NoOtherCloses, closes, TypeOK, RequestTypes
  <2> QED
    BY <1>5, <2>3, <2>4 DEF CreateMovement, stock, TypeOK, StockTypes
<1>6. ASSUME MoveRead(r) PROVE StockTypes' /\ RequestTypes' /\ NoOtherCloses(r)
  <2> DEFINE input == request[r].input
             item == article[input.article]
  <2>1. input \in Inputs /\ item \in ArticleRows /\ request[r] \in RequestRows
    BY <1>6 DEF MoveRead, At, TypeOK, RequestTypes, StockTypes, wellFormed, Inputs
  <2>2. RequestTypes' /\ NoOtherCloses(r)
    <3>1. CASE refused(item, input)
      BY <1>6, <3>1, Finished, FinishedCloses DEF MoveRead, TypeOK
    <3>2. CASE ~ refused(item, input)
      <4> DEFINE moved == movementQuantity(item, input)
                 new == [input EXCEPT !.cost = unitCost(item, input), !.quantity = moved]
                 q == [next |-> "write", by |-> request[r].by, input |-> new,
                       after |-> quantityAfter(item, input),
                       averageCost |-> averageCostAfter(item, input)]
      <4>1. /\ quantityAfter(item, input) \in Int /\ unitCost(item, input) \in Int
            /\ averageCostAfter(item, input) \in Int
        BY <2>1, Computed
      <4>2. moved \in Nat
        BY <2>1 DEF Inputs, ArticleRows, movementQuantity, distance
      <4>3. /\ new \in Inputs /\ new.cost \in Int
            /\ new.purchase = purchaseOf(r) /\ new.order = orderOf(r)
        BY <2>1, <4>1, <4>2 DEF Inputs, purchaseOf, orderOf
      <4>4. request' = [request EXCEPT ![r] = q] /\ UNCHANGED calls /\ ~ At(r, "idle")
        BY <1>6, <3>2 DEF MoveRead, At
      <4>5. RequestTypes'
        BY <4>1, <4>3, <4>4, Moved DEF TypeOK
      <4>6. NoOtherCloses(r)
        BY <1>6, <4>3, <4>4
        DEF MoveRead, At, NoOtherCloses, closes, purchaseOf, TypeOK, RequestTypes
      <4> QED
        BY <4>5, <4>6
    <3> QED
      BY <3>1, <3>2
  <2> QED
    BY <1>6, <2>2 DEF MoveRead, stock, TypeOK, StockTypes
<1>7. StockTypes' /\ RequestTypes' /\ NoOtherCloses(r)
  BY <1>2, <1>3, <1>4, <1>5, <1>6 DEF StockStep
<1> QED
  BY <1>7, BooksKept DEF StockStep, TypeOK

\* What a request knows of its purchase is an input of the stock.
LEMMA PurchaseInput ==
  ASSUME TypeOK, NEW p \in Purchases, purchase[p].status # "absent"
  PROVE  ForPurchase(p) \in Inputs /\ ForPurchase(p).purchase = p
BY DEF TypeOK, BookTypes, PurchaseRows, NoLine, ForPurchase, Inputs, MovementTypes

LEMMA PurchaseReadTypes ==
  ASSUME TypeOK, NEW r \in Requests, NEW p \in Purchases,
         SettleRead(r, p) \/ SettleExpenseRead(r, p) \/ CancelRead(r, p)
  PROVE  TypeOK'
<1>1. purchase[p].status # "absent"
  BY DEF SettleRead, SettleExpenseRead, CancelRead, TypeOK, DocumentsExist
<1>2. PICK next \in {"settle", "settleExpense", "return"} :
        \E by \in {"purchase", "expense", "cancel"} : Begin(r, next, by, ForPurchase(p))
  BY DEF SettleRead, SettleExpenseRead, CancelRead
<1>3. RequestTypes'
  BY <1>1, <1>2, PurchaseInput, Begun DEF TypeOK
<1>4. UNCHANGED <<stock, books>>
  BY DEF SettleRead, SettleExpenseRead, CancelRead
<1>5. DocumentsExist'
  <2>1. ASSUME NEW s \in Requests, closes(request[s])' PROVE (purchase[purchaseOf(s)].status # "absent")'
    <3>1. \/ s # r /\ request'[s] = request[s]
          \/ s = r /\ request'[s].input = ForPurchase(p)
      BY <1>2 DEF Begin, TypeOK, RequestTypes
    <3>2. CASE s # r /\ request'[s] = request[s]
      BY <1>4, <2>1, <3>2 DEF closes, purchaseOf, books, TypeOK, DocumentsExist
    <3>3. CASE s = r /\ request'[s].input = ForPurchase(p)
      BY <1>1, <1>4, <3>3, PurchaseInput DEF purchaseOf, books
    <3> QED
      BY <3>1, <3>2, <3>3
  <2> QED
    BY <1>4, <2>1 DEF TypeOK, DocumentsExist, books
<1> QED
  BY <1>3, <1>4, <1>5 DEF TypeOK, StockTypes, BookTypes, stock, books

\* A document that exists is not lost by a new status.
LEMMA PurchaseStatus ==
  ASSUME TypeOK, NEW p \in Purchases, purchase[p].status # "absent", NEW status \in Statuses
  PROVE  [purchase[p] EXCEPT !.status = status] \in PurchaseRows
BY DEF TypeOK, BookTypes, PurchaseRows, NoLine, Statuses

\* New statuses for an existing purchase and its expense, by a request that ends.
LEMMA DocumentsWritten ==
  ASSUME TypeOK, NEW r \in Requests, Finish(r), NEW p \in Purchases,
         purchase[p].status # "absent", UNCHANGED deducted,
         NEW status \in Statuses, NEW row \in ExpenseRows, row.status # "absent",
         purchase' = [purchase EXCEPT ![p].status = status],
         expense' = [expense EXCEPT ![p] = row]
  PROVE  RequestTypes' /\ BookTypes' /\ DocumentsExist'
<1>1. RequestTypes'
  BY Finished DEF TypeOK
<1>2. BookTypes'
  <2>1. purchase' \in [Purchases -> PurchaseRows]
    BY PurchaseStatus DEF TypeOK, BookTypes
  <2>2. expense' \in [Purchases -> ExpenseRows]
    BY DEF TypeOK, BookTypes
  <2> QED
    BY <2>1, <2>2 DEF TypeOK, BookTypes
<1>3. ASSUME NEW q \in Purchases
      PROVE (purchase'[q].status = "absent" <=> expense'[q].status = "absent")
              /\ (purchase[q].status # "absent" => purchase'[q].status # "absent")
  <2>1. CASE q = p
    BY <2>1 DEF TypeOK, BookTypes, PurchaseRows, NoLine, ExpenseRows, Statuses
  <2>2. CASE q # p
    BY <2>2 DEF TypeOK, BookTypes, DocumentsExist
  <2> QED
    BY <2>1, <2>2
<1>4. ASSUME NEW s \in Requests, closes(request[s])' PROVE (purchase[purchaseOf(s)].status # "absent")'
  <2>1. closes(request[s]) /\ purchaseOf(s)' = purchaseOf(s)
    BY <1>4, FinishedCloses DEF NoOtherCloses, purchaseOf, closes
  <2>2. purchaseOf(s) \in Purchases
    BY <2>1 DEF TypeOK, RequestTypes, wellFormed, purchaseOf
  <2> QED
    BY <1>3, <2>1, <2>2 DEF TypeOK, DocumentsExist
<1> QED
  BY <1>1, <1>2, <1>3, <1>4 DEF DocumentsExist

LEMMA ReceiveTypes ==
  ASSUME TypeOK, NEW r \in Requests, NEW status \in {"PENDING", "PAID"},
         ReceiveCommit(r, status)
  PROVE  TypeOK'
<1> DEFINE p == purchaseOf(r)
           row == [status |-> status, article |-> request[r].input.article,
                   quantity |-> request[r].input.quantity, unitPrice |-> request[r].input.cost]
           born == [status |-> status, deleted |-> FALSE]
<1>1. At(r, "write") /\ request[r].by = "purchase" /\ Record(r) /\ Finish(r)
  BY DEF ReceiveCommit
<1>2. p \in Purchases /\ row \in PurchaseRows
  BY <1>1 DEF TypeOK, RequestTypes, wellFormed, At, purchaseOf, Inputs, PurchaseRows, Statuses
<1>3. StockTypes' /\ RequestTypes'
  BY <1>1, RecordTypes, Finished DEF TypeOK
<1>4. purchase' = [purchase EXCEPT ![p] = row] /\ expense' = [expense EXCEPT ![p] = born]
        /\ UNCHANGED deducted
  BY DEF ReceiveCommit
<1>5. BookTypes'
  BY <1>2, <1>4 DEF TypeOK, BookTypes, ExpenseRows, Statuses
<1>6. ASSUME NEW q \in Purchases
      PROVE (purchase'[q].status = "absent" <=> expense'[q].status = "absent")
              /\ (purchase[q].status # "absent" => purchase'[q].status # "absent")
  BY <1>2, <1>4 DEF TypeOK, BookTypes, DocumentsExist
<1>7. ASSUME NEW s \in Requests, closes(request[s])'
      PROVE (purchase[purchaseOf(s)].status # "absent")'
  <2>1. closes(request[s]) /\ purchaseOf(s)' = purchaseOf(s)
    BY <1>1, <1>7, FinishedCloses DEF NoOtherCloses, purchaseOf, closes
  <2>2. purchaseOf(s) \in Purchases
    BY <2>1 DEF TypeOK, RequestTypes, wellFormed, purchaseOf
  <2> QED
    BY <1>6, <2>1, <2>2 DEF TypeOK, DocumentsExist
<1> QED
  BY <1>3, <1>5, <1>6, <1>7 DEF TypeOK, DocumentsExist

LEMMA SettleTypes ==
  ASSUME TypeOK, NEW r \in Requests,
         SettleCommit(r) \/ SettleExpense(r) \/ PurchaseFollows(r)
  PROVE  TypeOK'
<1> DEFINE p == purchaseOf(r)
<1>1. p \in Purchases /\ purchase[p].status # "absent" /\ expense[p].status # "absent"
  BY DEF SettleCommit, SettleExpense, PurchaseFollows, At, closes, purchaseOf, TypeOK,
         RequestTypes, wellFormed, DocumentsExist
<1>2. expense[p] \in ExpenseRows /\ [expense[p] EXCEPT !.status = "PAID"] \in ExpenseRows
  BY <1>1 DEF TypeOK, BookTypes, ExpenseRows, Statuses
<1>3. StockTypes'
  BY DEF SettleCommit, SettleExpense, PurchaseFollows, stock, TypeOK, StockTypes
<1>4. CASE SettleCommit(r)
  <2>1. expense' = [expense EXCEPT ![p] = [expense[p] EXCEPT !.status = "PAID"]]
    BY <1>4, <1>1 DEF SettleCommit, TypeOK, BookTypes
  <2> QED
    BY <1>1, <1>2, <1>3, <1>4, <2>1, DocumentsWritten DEF SettleCommit, ExpenseRows, Statuses, TypeOK
<1>5. CASE PurchaseFollows(r)
  <2>1. expense' = [expense EXCEPT ![p] = expense[p]]
    BY <1>5, <1>1 DEF PurchaseFollows, TypeOK, BookTypes
  <2> QED
    BY <1>1, <1>2, <1>3, <1>5, <2>1, DocumentsWritten DEF PurchaseFollows, Statuses, TypeOK
<1>6. CASE SettleExpense(r)
  <2>1. request[r] \in RequestRows /\ wellFormed(request[r]) /\ At(r, "settleExpense")
    BY <1>6 DEF SettleExpense, TypeOK, RequestTypes
  <2> DEFINE q == [next |-> "follow", by |-> request[r].by, input |-> request[r].input,
                   after |-> 0, averageCost |-> 0]
  <2>2. request' = [request EXCEPT ![r] = q]
    BY <1>6 DEF SettleExpense, GoTo
  <2>3. /\ request[r].input \in Inputs /\ closes(request[r]) /\ ~ At(r, "idle")
    BY <2>1 DEF wellFormed, closes, At
  <2>4. RequestTypes'
    BY <1>6, <2>3, Gone DEF SettleExpense, TypeOK, purchaseOf, orderOf
  <2>5. BookTypes'
    BY <1>1, <1>2, <1>6 DEF SettleExpense, TypeOK, BookTypes
  <2>6. NoOtherCloses(r)
    BY <2>2, <2>3 DEF NoOtherCloses, TypeOK, RequestTypes
  <2>7. ASSUME NEW s \in Requests, closes(request[s])'
        PROVE (purchase[purchaseOf(s)].status # "absent")'
    BY <1>6, <2>6, <2>7 DEF SettleExpense, NoOtherCloses, purchaseOf, closes, TypeOK, DocumentsExist
  <2>8. \A q2 \in Purchases : purchase'[q2].status = "absent" <=> expense'[q2].status = "absent"
    BY <1>1, <1>6 DEF SettleExpense, TypeOK, BookTypes, ExpenseRows, DocumentsExist
  <2> QED
    BY <1>3, <2>4, <2>5, <2>7, <2>8 DEF TypeOK, DocumentsExist
<1> QED
  BY <1>4, <1>5, <1>6

LEMMA CancelTypes ==
  ASSUME TypeOK, NEW r \in Requests, CancelReturn(r) \/ CancelCommit(r)
  PROVE  TypeOK'
<1> DEFINE p == purchaseOf(r)
           cancelled == [status |-> "CANCELLED", deleted |-> TRUE]
<1>1. /\ request[r] \in RequestRows /\ wellFormed(request[r]) /\ closes(request[r])
      /\ ~ At(r, "idle") /\ request[r].input \in Inputs
  BY DEF CancelReturn, CancelCommit, At, closes, TypeOK, RequestTypes, wellFormed
<1>2. p \in Purchases /\ purchase[p].status # "absent"
  BY <1>1 DEF wellFormed, purchaseOf, TypeOK, DocumentsExist
<1>3. cancelled \in ExpenseRows
  BY DEF ExpenseRows, Statuses
<1>4. ASSUME Void(p), Finish(r) PROVE RequestTypes' /\ BookTypes' /\ DocumentsExist'
  BY <1>2, <1>3, <1>4, DocumentsWritten DEF Void, Statuses
<1>5. CASE CancelCommit(r)
  BY <1>4, <1>5, RecordTypes DEF CancelCommit, TypeOK
<1>6. CASE CancelReturn(r)
  <2> DEFINE available == article[request[r].input.article].quantity
             input == [request[r].input EXCEPT !.quantity = least(@, available)]
             q == [next |-> "read", by |-> request[r].by, input |-> input,
                   after |-> 0, averageCost |-> 0]
  <2>1. StockTypes'
    BY <1>6 DEF CancelReturn, stock, TypeOK, StockTypes
  <2>2. CASE available <= 0
    BY <1>4, <1>6, <2>1, <2>2 DEF CancelReturn, TypeOK
  <2>3. CASE ~ (available <= 0)
    <3>1. available \in Int
      BY <1>1 DEF Inputs, TypeOK, StockTypes, ArticleRows
    <3>2. /\ input \in Inputs /\ input.purchase = purchaseOf(r) /\ input.order = orderOf(r)
      BY <1>1, <2>3, <3>1 DEF Inputs, least, purchaseOf, orderOf
    <3>3. request' = [request EXCEPT ![r] = q] /\ UNCHANGED <<calls, books>>
      BY <1>6, <2>3 DEF CancelReturn, GoTo
    <3>4. RequestTypes'
      <4>1. GoTo(r, "read", input)
        BY <1>6, <2>3 DEF CancelReturn
      <4> HIDE DEF input
      <4> QED
        BY <1>1, <3>2, <4>1, Gone DEF TypeOK
    <3>5. NoOtherCloses(r)
      BY <1>1, <3>2, <3>3 DEF NoOtherCloses, purchaseOf, TypeOK, RequestTypes
    <3> QED
      BY <2>1, <3>3, <3>4, <3>5, BooksKept DEF TypeOK
  <2> QED
    BY <2>2, <2>3
<1> QED
  BY <1>5, <1>6

LEMMA TypeStep == TypeOK /\ [Next]_vars => TypeOK'
<1> SUFFICES ASSUME TypeOK, [Next]_vars PROVE TypeOK'
  OBVIOUS
<1>1. ASSUME NEW r \in Requests, NEW p \in Purchases, NEW a \in Articles,
             NEW quantity \in Quantities, NEW lineTotal \in LineTotals,
             NEW purchasedAt \in Dates \union {NoDate},
             ReceiveRead(r, p, a, quantity, lineTotal, purchasedAt)
      PROVE TypeOK'
  <2> DEFINE input == [article |-> a, type |-> "IN", quantity |-> quantity,
                       cost |-> rounded(lineTotal, quantity),
                       occurredAt |-> dateOr(purchasedAt, now(a)),
                       purchase |-> p, order |-> NoOrder]
  <2>1. Begin(r, "read", "purchase", input) /\ UNCHANGED <<stock, books>>
    BY <1>1 DEF ReceiveRead
  <2>2. rounded(lineTotal, quantity) \in Int
    BY <1>1, StockAssumption, PurchasesAssumption DEF ReceiveRead, rounded
  <2>3. input \in Inputs
    <3>1. dateOr(purchasedAt, now(a)) \in Nat
      BY NowIsNat, DateIsNat, StockAssumption DEF TypeOK
    <3> QED
      BY <2>2, <3>1, StockAssumption DEF Inputs, MovementTypes
  <2>4. RequestTypes'
    BY <2>1, <2>3, Begun DEF TypeOK
  <2>5. NoOtherCloses(r)
    BY <2>1 DEF Begin, NoOtherCloses, closes, TypeOK, RequestTypes
  <2> QED
    BY <2>1, <2>4, <2>5, BooksKept DEF TypeOK, StockTypes, stock
<1>2. ASSUME NEW r \in Requests, NEW o \in Orders, ConsumeRead(r, o) PROVE TypeOK'
  <2> DEFINE input == [article |-> Ingredient[o], type |-> "OUT", quantity |-> Portion[o],
                       cost |-> NoCost, occurredAt |-> NoDate, purchase |-> NoPurchase,
                       order |-> o]
  <2>1. Begin(r, "read", "recipe", input) /\ UNCHANGED <<stock, books>>
    BY <1>2 DEF ConsumeRead
  <2>2. input \in Inputs
    BY PurchasesAssumption DEF Inputs, MovementTypes
  <2>3. RequestTypes'
    BY <2>1, <2>2, Begun DEF TypeOK
  <2>4. NoOtherCloses(r)
    BY <2>1 DEF Begin, NoOtherCloses, closes, TypeOK, RequestTypes
  <2> QED
    BY <2>1, <2>3, <2>4, BooksKept DEF TypeOK, StockTypes, stock
<1>3. ASSUME NEW r \in Requests, ConsumeCommit(r) PROVE TypeOK'
  <2>1. StockTypes' /\ RequestTypes'
    BY <1>3, RecordTypes, Finished DEF ConsumeCommit, TypeOK
  <2>2. BookTypes'
    BY <1>3 DEF ConsumeCommit, TypeOK, BookTypes
  <2>3. NoOtherCloses(r)
    BY <1>3, FinishedCloses DEF ConsumeCommit
  <2>4. ASSUME NEW s \in Requests, closes(request[s])'
        PROVE (purchase[purchaseOf(s)].status # "absent")'
    BY <1>3, <2>3, <2>4 DEF ConsumeCommit, NoOtherCloses, purchaseOf, closes, TypeOK, DocumentsExist
  <2> QED
    BY <1>3, <2>1, <2>2, <2>4 DEF ConsumeCommit, TypeOK, DocumentsExist
<1>4. ASSUME NEW r \in Requests, CommitMovement(r) PROVE TypeOK'
  BY <1>4, RecordTypes, Finished, FinishedCloses, BooksKept DEF CommitMovement, TypeOK
<1>5. ASSUME NEW r \in Requests, Abort(r) PROVE TypeOK'
  <2>1. StockTypes'
    BY <1>5 DEF Abort, stock, TypeOK, StockTypes
  <2> QED
    BY <1>5, <2>1, Finished, FinishedCloses, BooksKept DEF Abort, TypeOK
<1>6. ASSUME NEW r \in Requests, PurchaseStep(r) PROVE TypeOK'
  BY <1>1, <1>6, PurchaseReadTypes, ReceiveTypes, SettleTypes, CancelTypes DEF PurchaseStep
<1>7. CASE UNCHANGED vars
  BY <1>7 DEF vars, TypeOK, StockTypes, RequestTypes, BookTypes, DocumentsExist, wellFormed,
              closes, purchaseOf
<1> QED
  BY <1>2, <1>3, <1>4, <1>5, <1>6, <1>7, StockStepTypes DEF Next

\* Every row keeps its type, and no request writes to a document that is not there.
THEOREM SupplyTypes == Spec => []TypeOK
  BY InitTypes, TypeStep, PTL DEF Spec

(***************************************************************************)
(* The counter and the journal, whatever the interleaving.  A movement     *)
(* about to be written is one of an article that exists, so an article     *)
(* begins with an empty journal.                                           *)
(***************************************************************************)
BeginsEmpty ==
  /\ \A a \in Articles : article[a].state = "absent" =>
       article[a].quantity = 0 /\ journal[a] = <<>>
  /\ \A r \in Requests : At(r, "write") => article[request[r].input.article].state # "absent"

\* A step that records nothing, and lets no movement reach its write.
Quiet ==
  /\ UNCHANGED stock
  /\ \A s \in Requests : request'[s].next = "write" => UNCHANGED request[s]

Computes(r) == MoveRead(r) /\ ~ refused(article[request[r].input.article], request[r].input)

Records(r) == At(r, "write") /\ Record(r) /\ Finish(r)

\* What a step may do to the stock.
LEMMA StepKinds ==
  ASSUME TypeOK, [Next]_vars
  PROVE  \/ Quiet
         \/ \E r \in Requests :
              \/ Records(r) \/ Computes(r)
              \/ \E a \in Articles :
                   \/ \E quantity \in Quantities, averageCost \in Costs :
                        CreateItem(r, a, quantity, averageCost)
                   \/ \E averageCost \in Costs : UpdateItem(r, a, averageCost)
                   \/ RemoveItem(r, a)
<1>1. ASSUME NEW r \in Requests, Finish(r), UNCHANGED stock PROVE Quiet
  BY <1>1 DEF Finish, Idle, Quiet, TypeOK, RequestTypes
<1>2. ASSUME NEW r \in Requests, NEW next, NEW by, NEW input, next # "write",
             Begin(r, next, by, input), UNCHANGED stock
      PROVE Quiet
  BY <1>2 DEF Begin, Quiet, TypeOK, RequestTypes
<1>3. ASSUME NEW r \in Requests, NEW next, NEW input, next # "write",
             GoTo(r, next, input), UNCHANGED stock
      PROVE Quiet
  BY <1>3 DEF GoTo, Quiet, TypeOK, RequestTypes
<1>4. ASSUME NEW r \in Requests, PurchaseStep(r) PROVE Quiet \/ Records(r)
  <2>1. ASSUME NEW p \in Purchases, SettleRead(r, p) \/ SettleExpenseRead(r, p) \/ CancelRead(r, p)
        PROVE Quiet
    BY <1>2, <2>1 DEF SettleRead, SettleExpenseRead, CancelRead
  <2>2. ASSUME NEW p \in Purchases, NEW a \in Articles, NEW quantity \in Quantities,
               NEW lineTotal \in LineTotals, NEW purchasedAt \in Dates \union {NoDate},
               ReceiveRead(r, p, a, quantity, lineTotal, purchasedAt)
        PROVE Quiet
    BY <1>2, <2>2 DEF ReceiveRead
  <2>3. ASSUME NEW status \in {"PENDING", "PAID"}, ReceiveCommit(r, status) PROVE Records(r)
    BY <2>3 DEF ReceiveCommit, Records
  <2>4. CASE SettleCommit(r) \/ PurchaseFollows(r)
    BY <1>1, <2>4 DEF SettleCommit, PurchaseFollows
  <2>5. CASE SettleExpense(r)
    BY <1>3, <2>5 DEF SettleExpense
  <2>6. CASE CancelReturn(r)
    BY <1>1, <1>3, <2>6 DEF CancelReturn
  <2>7. CASE CancelCommit(r)
    BY <2>7 DEF CancelCommit, Records
  <2> QED
    BY <1>4, <2>1, <2>2, <2>3, <2>4, <2>5, <2>6, <2>7 DEF PurchaseStep
<1>5. ASSUME NEW r \in Requests, MoveRead(r) PROVE Quiet \/ Computes(r)
  BY <1>1, <1>5 DEF MoveRead, Computes
<1>6. ASSUME NEW r \in Requests, NEW a \in Articles, NEW type \in MovementTypes,
             NEW quantity \in Quantities, NEW cost \in Costs \union {NoCost},
             NEW occurredAt \in Dates \union {NoDate},
             CreateMovement(r, a, type, quantity, cost, occurredAt)
      PROVE Quiet
  BY <1>2, <1>6 DEF CreateMovement
<1>7. ASSUME NEW r \in Requests, NEW o \in Orders, ConsumeRead(r, o) PROVE Quiet
  BY <1>2, <1>7 DEF ConsumeRead
<1>8. ASSUME NEW r \in Requests, CommitMovement(r) \/ ConsumeCommit(r) PROVE Records(r)
  BY <1>8 DEF CommitMovement, ConsumeCommit, Records
<1>9. ASSUME NEW r \in Requests, Abort(r) PROVE Quiet
  BY <1>1, <1>9 DEF Abort
<1>10. CASE UNCHANGED vars
  BY <1>10 DEF vars, Quiet, stock
<1>11. CASE \E r \in Requests : StockStep(r)
  BY <1>5, <1>6, <1>11 DEF StockStep
<1> QED
  BY <1>4, <1>7, <1>8, <1>9, <1>10, <1>11 DEF Next

\* A journal and its next movement.
LEMMA Appended ==
  ASSUME NEW j \in Seq(Movements), NEW m \in Movements
  PROVE  LET k == Append(j, m) IN
         /\ Len(k) = Len(j) + 1
         /\ quantityBefore(k, Len(k) + 1) = m.after
         /\ k[Len(k)] = m /\ quantityBefore(k, Len(k)) = quantityBefore(j, Len(j) + 1)
         /\ \A n \in 1..Len(j) : k[n] = j[n] /\ quantityBefore(k, n) = quantityBefore(j, n)
BY DEF quantityBefore

LEMMA Recorded ==
  ASSUME TypeOK, NEW r \in Requests, Records(r)
  PROVE  /\ movementOf(r) \in Movements /\ request[r].input.article \in Articles
         /\ \A a \in Articles :
              article'[a].state = article[a].state
                /\ IF a = request[r].input.article
                     THEN /\ article'[a].quantity = movementOf(r).after
                          /\ journal'[a] = Append(journal[a], movementOf(r))
                     ELSE UNCHANGED <<article[a], journal[a]>>
         /\ \A s \in Requests : request'[s].next = "write" => s # r /\ UNCHANGED request[s]
<1>1. /\ request[r].input \in Inputs /\ request[r].input.cost \in Int
      /\ request[r].input.article \in Articles /\ request[r].after \in Int
  BY DEF Records, At, TypeOK, RequestTypes, RequestRows, wellFormed, Inputs
<1>2. movementOf(r) \in Movements
  BY <1>1, MovementIs DEF TypeOK
<1>3. ASSUME NEW a \in Articles
      PROVE article'[a].state = article[a].state
              /\ IF a = request[r].input.article
                   THEN /\ article'[a].quantity = movementOf(r).after
                        /\ journal'[a] = Append(journal[a], movementOf(r))
                   ELSE UNCHANGED <<article[a], journal[a]>>
  BY <1>1 DEF Records, Record, movementOf, TypeOK, StockTypes, ArticleRows
<1>4. \A s \in Requests : request'[s].next = "write" => s # r /\ UNCHANGED request[s]
  BY DEF Records, Finish, Idle, TypeOK, RequestTypes
<1> QED
  BY <1>1, <1>2, <1>3, <1>4

\* What is computed is of an article that exists, and is all that reaches a write.
LEMMA ComputedWrite ==
  ASSUME TypeOK, NEW r \in Requests, Computes(r)
  PROVE  LET input == request[r].input
             item == article[input.article]
         IN
         /\ UNCHANGED <<article, journal>>
         /\ input \in Inputs /\ item \in ArticleRows /\ item.state = "live" /\ ~ refused(item, input)
         /\ \A s \in Requests : s # r => request'[s] = request[s]
         /\ request'[r].input.article = input.article
         /\ movementOf(r)' = [type |-> input.type, quantity |-> movementQuantity(item, input),
                              after |-> quantityAfter(item, input), cost |-> unitCost(item, input),
                              occurredAt |-> dateOr(input.occurredAt, now(input.article)),
                              purchase |-> input.purchase, order |-> input.order]
<1>1. request[r].input \in Inputs
  BY DEF Computes, MoveRead, At, TypeOK, RequestTypes, wellFormed
<1>2. article[request[r].input.article] \in ArticleRows
  BY <1>1 DEF Inputs, TypeOK, StockTypes
<1> DEFINE input == request[r].input
           item == article[input.article]
           computed == [input EXCEPT !.cost = unitCost(item, input),
                                     !.quantity = movementQuantity(item, input)]
           q == [next |-> "write", by |-> request[r].by, input |-> computed,
                 after |-> quantityAfter(item, input),
                 averageCost |-> averageCostAfter(item, input)]
<1>3. UNCHANGED <<article, journal>> /\ item.state = "live" /\ ~ refused(item, input)
  BY DEF Computes, MoveRead, refused, stock
<1>4. request' = [request EXCEPT ![r] = q]
  BY DEF Computes, MoveRead
<1>5. request'[r] = q /\ \A s \in Requests : s # r => request'[s] = request[s]
  <2> HIDE DEF q
  <2> QED
    BY <1>4 DEF TypeOK, RequestTypes
<1>6. /\ computed.article = input.article /\ computed.type = input.type
      /\ computed.purchase = input.purchase /\ computed.order = input.order
      /\ computed.quantity = movementQuantity(item, input)
      /\ computed.cost = unitCost(item, input) /\ computed.occurredAt = input.occurredAt
  BY <1>1 DEF Inputs
<1>7. movementOf(r)' = [type |-> input.type, quantity |-> computed.quantity,
                        after |-> quantityAfter(item, input), cost |-> computed.cost,
                        occurredAt |-> dateOr(input.occurredAt, now(input.article)),
                        purchase |-> input.purchase, order |-> input.order]
  <2>1. now(request[r].input.article)' = now(request'[r].input.article)
    BY <1>3 DEF now
  <2> HIDE DEF input, item, computed
  <2> QED
    BY <1>3, <1>5, <1>6, <2>1 DEF movementOf, now
<1> HIDE DEF computed
<1> QED
  BY <1>1, <1>2, <1>3, <1>5, <1>6, <1>7

LEMMA CounterStep ==
  TypeOK /\ BeginsEmpty /\ CounterEndsJournal /\ [Next]_vars
    => BeginsEmpty' /\ CounterEndsJournal'
<1> SUFFICES ASSUME TypeOK, BeginsEmpty, CounterEndsJournal, [Next]_vars
             PROVE BeginsEmpty' /\ CounterEndsJournal'
  OBVIOUS
<1>1. CASE Quiet
  BY <1>1 DEF Quiet, stock, BeginsEmpty, CounterEndsJournal, At, quantityBefore
<1>2. ASSUME NEW r \in Requests, Records(r) PROVE BeginsEmpty' /\ CounterEndsJournal'
  <2> DEFINE b == request[r].input.article
  <2>1. b \in Articles /\ article[b].state # "absent" /\ movementOf(r) \in Movements
    BY <1>2, Recorded DEF Records, BeginsEmpty
  <2>2. BeginsEmpty'
    <3>1. ASSUME NEW a \in Articles, article'[a].state = "absent"
          PROVE  article'[a].quantity = 0 /\ journal'[a] = <<>>
      BY <1>2, <2>1, <3>1, Recorded DEF BeginsEmpty
    <3>2. ASSUME NEW s \in Requests, request'[s].next = "write"
          PROVE  article'[request'[s].input.article].state # "absent"
      <4>1. UNCHANGED request[s]
        BY <1>2, <3>2, Recorded
      <4>2. request[s].input.article \in Articles
        BY <3>2, <4>1 DEF TypeOK, RequestTypes, wellFormed, Inputs
      <4> QED
        BY <1>2, <3>2, <4>1, <4>2, Recorded DEF BeginsEmpty, At
    <3> QED
      BY <3>1, <3>2 DEF BeginsEmpty, At
  <2>3. ASSUME NEW a \in Articles
        PROVE  article'[a].quantity = quantityBefore(journal'[a], Len(journal'[a]) + 1)
    <3>1. CASE a = b
      <4>1. article'[a].quantity = movementOf(r).after
              /\ journal'[a] = Append(journal[a], movementOf(r))
        BY <1>2, <3>1, Recorded
      <4>2. journal[a] \in Seq(Movements)
        BY DEF TypeOK, StockTypes
      <4> QED
        BY <2>1, <4>1, <4>2, Appended
    <3>2. CASE a # b
      BY <1>2, <3>2, Recorded DEF CounterEndsJournal
    <3> QED
      BY <3>1, <3>2
  <2> QED
    BY <2>2, <2>3 DEF CounterEndsJournal, quantityBefore
<1>3. ASSUME NEW r \in Requests, Computes(r) PROVE BeginsEmpty' /\ CounterEndsJournal'
  BY <1>3, ComputedWrite DEF BeginsEmpty, CounterEndsJournal, At, quantityBefore
<1>4. ASSUME NEW r \in Requests, NEW b \in Articles, NEW quantity \in Quantities,
             NEW averageCost \in Costs, CreateItem(r, b, quantity, averageCost)
      PROVE BeginsEmpty' /\ CounterEndsJournal'
  <2>1. quantity \in Nat
    BY StockAssumption
  <2>2. journal[b] = <<>>
    BY <1>4 DEF CreateItem, BeginsEmpty
  <2>3. BeginsEmpty'
    BY <1>4 DEF CreateItem, BeginAndEnd, BeginsEmpty, At, TypeOK, StockTypes
  <2>4. ASSUME NEW a \in Articles
        PROVE  article'[a].quantity = quantityBefore(journal'[a], Len(journal'[a]) + 1)
    <3>1. CASE a # b
      BY <1>4, <3>1 DEF CreateItem, CounterEndsJournal, TypeOK, StockTypes
    <3>2. CASE a = b /\ quantity = 0
      BY <1>4, <2>2, <3>2 DEF CreateItem, quantityBefore, TypeOK, StockTypes
    <3>3. CASE a = b /\ quantity # 0
      <4> DEFINE m == [type |-> "IN", quantity |-> quantity, after |-> quantity,
                       cost |-> averageCost, occurredAt |-> now(b),
                       purchase |-> NoPurchase, order |-> NoOrder]
      <4>1. journal'[a] = <<m>> /\ article'[a].quantity = quantity
        BY <1>4, <2>2, <3>3 DEF CreateItem, TypeOK, StockTypes
      <4> QED
        BY <4>1 DEF quantityBefore
    <3> QED
      BY <3>1, <3>2, <3>3
  <2> QED
    BY <2>3, <2>4 DEF CounterEndsJournal, quantityBefore
<1>5. ASSUME NEW r \in Requests, NEW b \in Articles,
             RemoveItem(r, b) \/ \E averageCost \in Costs : UpdateItem(r, b, averageCost)
      PROVE BeginsEmpty' /\ CounterEndsJournal'
  <2>1. UNCHANGED <<journal, request>> /\ article[b].state = "live"
    BY <1>5 DEF RemoveItem, UpdateItem, BeginAndEnd
  <2>2. ASSUME NEW a \in Articles
        PROVE  article'[a].quantity = article[a].quantity
                 /\ (article'[a].state = "absent" => article[a].state = "absent")
    <3>1. CASE a = b
      <4>1. article[b] \in ArticleRows
        BY DEF TypeOK, StockTypes
      <4>2. CASE RemoveItem(r, b)
        <5>1. article'[b] = [article[b] EXCEPT !.state = "deleted"]
          BY <4>2 DEF RemoveItem, TypeOK, StockTypes
        <5> QED
          BY <3>1, <4>1, <5>1 DEF ArticleRows
      <4>3. ASSUME NEW averageCost \in Costs, UpdateItem(r, b, averageCost)
            PROVE article'[b].quantity = article[b].quantity /\ article'[b].state = article[b].state
        <5>1. article'[b] = [article[b] EXCEPT !.averageCost = averageCost]
          BY <4>3 DEF UpdateItem, TypeOK, StockTypes
        <5> QED
          BY <4>1, <5>1 DEF ArticleRows
      <4> QED
        BY <1>5, <3>1, <4>2, <4>3
    <3>2. CASE a # b
      BY <1>5, <3>2 DEF RemoveItem, UpdateItem, TypeOK, StockTypes
    <3> QED
      BY <3>1, <3>2
  <2>3. \A r2 \in Requests : At(r2, "write") => request[r2].input.article \in Articles
    BY DEF At, TypeOK, RequestTypes, wellFormed, Inputs
  <2>4. BeginsEmpty'
    BY <2>1, <2>2, <2>3 DEF BeginsEmpty, At
  <2>5. CounterEndsJournal'
    BY <2>1, <2>2 DEF CounterEndsJournal, quantityBefore
  <2> QED
    BY <2>4, <2>5
<1> QED
  BY <1>1, <1>2, <1>3, <1>4, <1>5, StepKinds

LEMMA CounterInvariant == Spec => [](TypeOK /\ BeginsEmpty /\ CounterEndsJournal)
<1>1. Init => BeginsEmpty /\ CounterEndsJournal
  BY DEF Init, InitStock, Idle, BeginsEmpty, CounterEndsJournal, At, quantityBefore
<1> QED
  BY <1>1, InitTypes, TypeStep, CounterStep, PTL DEF Spec

\* The counter of an article is where its latest movement left it, even when
\* movements overwrite each other: the row's lock orders the journal.
THEOREM CounterIsLatest == Spec => []CounterEndsJournal
  BY CounterInvariant, PTL

(***************************************************************************)
(* One request at a time.  The counter does not move between the read and  *)
(* the write of a movement, so what was computed from it is still right.   *)
(***************************************************************************)
OneSlot == \A r, s \in Requests : r = s

Links(before, m) == justified(before, m) /\ staysAbove(before, m)

Chained == \A a \in Articles : \A n \in 1..Len(journal[a]) :
  Links(quantityBefore(journal[a], n), journal[a][n])

WriteLinks == \A r \in Requests : At(r, "write") =>
  Links(article[request[r].input.article].quantity, movementOf(r))

\* What applyMovement computes is justified by what it read.
LEMMA ComputedLinks ==
  ASSUME NEW item \in ArticleRows, NEW input \in Inputs, ~ refused(item, input), NEW date
  PROVE  Links(item.quantity,
               [type |-> input.type, quantity |-> movementQuantity(item, input),
                after |-> quantityAfter(item, input), cost |-> unitCost(item, input),
                occurredAt |-> date, purchase |-> input.purchase, order |-> input.order])
<1>1. item.quantity \in Int /\ input.quantity \in Nat /\ input.type \in MovementTypes
  BY DEF ArticleRows, Inputs
<1>2. CASE input.type = "IN"
  BY <1>1, <1>2 DEF Links, justified, staysAbove, movementQuantity, quantityAfter
<1>3. CASE input.type = "OUT"
  <2>1. quantityAfter(item, input) = item.quantity - input.quantity
    BY <1>3 DEF quantityAfter
  <2>2. input.order = NoOrder => input.quantity <= item.quantity
    BY <1>1, <1>3 DEF refused, allowNegative
  <2> QED
    BY <1>1, <1>3, <2>1, <2>2 DEF Links, justified, staysAbove, movementQuantity
<1>4. CASE input.type = "ADJUSTMENT"
  <2>1. quantityAfter(item, input) = input.quantity
    BY <1>4 DEF quantityAfter
  <2> QED
    BY <1>1, <1>4, <2>1 DEF Links, justified, staysAbove, movementQuantity, distance
<1> QED
  BY <1>1, <1>2, <1>3, <1>4 DEF MovementTypes

LEMMA ChainStep ==
  ASSUME OneSlot, TypeOK, BeginsEmpty, CounterEndsJournal, Chained, WriteLinks, [Next]_vars
  PROVE  Chained' /\ WriteLinks'
<1>1. CASE Quiet
  <2>1. Chained'
    BY <1>1 DEF Quiet, stock, Chained, Links, justified, staysAbove, quantityBefore
  <2>2. ASSUME NEW s \in Requests, At(s, "write")'
        PROVE  Links(article[request[s].input.article].quantity, movementOf(s))'
    <3>1. UNCHANGED request[s] /\ UNCHANGED article
      BY <1>1, <2>2 DEF Quiet, stock, At
    <3> QED
      BY <2>2, <3>1 DEF WriteLinks, At, Links, justified, staysAbove, movementOf
  <2> QED
    BY <2>1, <2>2 DEF WriteLinks
<1>2. ASSUME NEW r \in Requests, Records(r) PROVE Chained' /\ WriteLinks'
  <2> DEFINE b == request[r].input.article
             m == movementOf(r)
  <2>1. b \in Articles /\ m \in Movements /\ Links(article[b].quantity, m)
    BY <1>2, Recorded DEF Records, WriteLinks
  <2>2. WriteLinks'
    BY <1>2, Recorded DEF OneSlot, WriteLinks, At
  <2>3. ASSUME NEW a \in Articles, NEW n \in 1..Len(journal'[a])
        PROVE  Links(quantityBefore(journal'[a], n), journal'[a][n])
    <3> HIDE DEF b, m
    <3>1. CASE a # b
      BY <1>2, <2>3, <3>1, Recorded DEF Chained, b
    <3>2. CASE a = b
      <4>1. journal'[a] = Append(journal[a], m) /\ journal[a] \in Seq(Movements)
        BY <1>2, <3>2, Recorded DEF b, m, TypeOK, StockTypes
      <4>2. n \in 1..Len(journal[a]) \/ n = Len(journal'[a])
        BY <2>1, <4>1
      <4>3. CASE n \in 1..Len(journal[a])
        BY <2>1, <4>1, <4>3, Appended DEF Chained
      <4>4. CASE n = Len(journal'[a])
        BY <2>1, <3>2, <4>1, <4>4, Appended DEF CounterEndsJournal
      <4> QED
        BY <4>2, <4>3, <4>4
    <3> QED
      BY <3>1, <3>2
  <2> QED
    BY <2>2, <2>3 DEF Chained, Links, justified, staysAbove, quantityBefore
<1>3. ASSUME NEW r \in Requests, Computes(r) PROVE Chained' /\ WriteLinks'
  <2> DEFINE input == request[r].input
             item == article[input.article]
             m == [type |-> input.type, quantity |-> movementQuantity(item, input),
                   after |-> quantityAfter(item, input), cost |-> unitCost(item, input),
                   occurredAt |-> dateOr(input.occurredAt, now(input.article)),
                   purchase |-> input.purchase, order |-> input.order]
  <2>1. /\ UNCHANGED <<article, journal>> /\ movementOf(r)' = m
        /\ request'[r].input.article = input.article
    BY <1>3, ComputedWrite
  <2>2. Links(item.quantity, m)
    BY <1>3, ComputedWrite, ComputedLinks
  <2>3. Chained'
    BY <2>1 DEF Chained, Links, justified, staysAbove, quantityBefore
  <2>4. Links(article[request[r].input.article].quantity, movementOf(r))'
    <3> HIDE DEF m
    <3> QED
      BY <2>1, <2>2 DEF Links, justified, staysAbove
  <2>5. \A s \in Requests : s = r
    BY DEF OneSlot
  <2> QED
    BY <2>3, <2>4, <2>5 DEF WriteLinks
<1>4. ASSUME NEW r \in Requests, NEW b \in Articles, NEW quantity \in Quantities,
             NEW averageCost \in Costs, CreateItem(r, b, quantity, averageCost)
      PROVE Chained' /\ WriteLinks'
  <2> DEFINE m == [type |-> "IN", quantity |-> quantity, after |-> quantity,
                   cost |-> averageCost, occurredAt |-> now(b),
                   purchase |-> NoPurchase, order |-> NoOrder]
  <2>1. quantity \in Nat /\ journal[b] = <<>>
    BY <1>4, StockAssumption DEF CreateItem, BeginsEmpty
  <2>2. WriteLinks'
    BY <1>4 DEF CreateItem, BeginAndEnd, OneSlot, WriteLinks, At
  <2>3. ASSUME NEW a \in Articles, NEW n \in 1..Len(journal'[a])
        PROVE  Links(quantityBefore(journal'[a], n), journal'[a][n])
    <3>1. CASE a # b
      BY <1>4, <2>3, <3>1 DEF CreateItem, TypeOK, StockTypes, Chained
    <3>2. CASE a = b
      <4>1. journal'[a] = <<>> \/ journal'[a] = <<m>>
        BY <1>4, <2>1, <3>2 DEF CreateItem, TypeOK, StockTypes
      <4>2. n = 1 /\ journal'[a] = <<m>>
        <5>1. CASE journal'[a] = <<>>
          <6>1. Len(journal'[a]) = 0
            BY <5>1
          <6> QED
            BY <2>3, <6>1
        <5>2. CASE journal'[a] = <<m>>
          <6> HIDE DEF m
          <6>1. Len(journal'[a]) = 1
            BY <5>2
          <6> QED
            BY <2>3, <5>2, <6>1
        <5> QED
          BY <4>1, <5>1, <5>2
      <4> QED
        BY <2>1, <4>2 DEF Links, justified, staysAbove, quantityBefore
    <3> QED
      BY <3>1, <3>2
  <2> QED
    BY <2>2, <2>3 DEF Chained, Links, justified, staysAbove, quantityBefore
<1>5. ASSUME NEW r \in Requests, NEW b \in Articles,
             RemoveItem(r, b) \/ \E averageCost \in Costs : UpdateItem(r, b, averageCost)
      PROVE Chained' /\ WriteLinks'
  <2>1. UNCHANGED <<journal, request>> /\ At(r, "idle")
    BY <1>5 DEF RemoveItem, UpdateItem, BeginAndEnd
  <2>2. Chained'
    BY <2>1 DEF Chained, Links, justified, staysAbove, quantityBefore
  <2>3. WriteLinks'
    BY <2>1 DEF OneSlot, WriteLinks, At
  <2> QED
    BY <2>2, <2>3
<1> QED
  BY <1>1, <1>2, <1>3, <1>4, <1>5, StepKinds

LEMMA ChainInvariant ==
  ASSUME OneSlot
  PROVE  Spec => [](CounterEndsJournal /\ Chained)
<1>1. Init => Chained /\ WriteLinks
  BY DEF Init, InitStock, Idle, Chained, WriteLinks, At
<1>2. TypeOK /\ BeginsEmpty /\ CounterEndsJournal /\ Chained /\ WriteLinks /\ [Next]_vars
        => Chained' /\ WriteLinks'
  BY ChainStep
<1> QED
  BY <1>1, <1>2, CounterInvariant, PTL DEF Spec

\* When requests come one at a time, the counter is the sum of its movements.
THEOREM SumOfMovements == OneSlot => (Spec => []JournalJustifies)
<1> SUFFICES ASSUME OneSlot PROVE Spec => []JournalJustifies
  OBVIOUS
<1>1. CounterEndsJournal /\ Chained => JournalJustifies
  BY DEF Chained, Links, JournalJustifies
<1> QED
  BY <1>1, ChainInvariant, PTL

\* When requests come one at a time, nothing but the deduction of an order
\* leaves an article below zero and below what there was.
THEOREM OrdersAloneGoBelow == OneSlot => (Spec => []PreparationAloneGoesBelow)
<1> SUFFICES ASSUME OneSlot PROVE Spec => []PreparationAloneGoesBelow
  OBVIOUS
<1>1. CounterEndsJournal /\ Chained => PreparationAloneGoesBelow
  BY DEF Chained, Links, PreparationAloneGoesBelow
<1> QED
  BY <1>1, ChainInvariant, PTL

(***************************************************************************)
(* A weighted average, rounded, lies between what was weighed.             *)
(***************************************************************************)
LEMMA Product ==
  ASSUME NEW d \in Nat, NEW x \in Int, NEW y \in Int, x <= y
  PROVE  d * x <= d * y
<1>1. d * y - d * x = d * (y - x)
  OBVIOUS
<1>2. d * (y - x) >= 0
  <2>1. y - x \in Nat
    OBVIOUS
  <2> QED
    BY <2>1
<1> QED
  BY <1>1, <1>2

LEMMA Quotient ==
  ASSUME NEW m \in Int, NEW e \in Nat, e > 0
  PROVE  /\ m \div e \in Int
         /\ e * (m \div e) <= m /\ m < e * (m \div e) + e
<1>1. m \div e \in Int
  OBVIOUS
<1>2. e * (m \div e) + (m % e) = m /\ m % e \in 0..(e - 1)
  OBVIOUS
<1> QED
  BY <1>1, <1>2

LEMMA Rounded ==
  ASSUME NEW n \in Int, NEW d \in Nat, d > 0, NEW low \in Int, NEW high \in Int,
         d * low <= n, n <= d * high
  PROVE  low <= rounded(n, d) /\ rounded(n, d) <= high
<1> DEFINE z == (2 * n + d) \div (2 * d)
<1>1. z \in Int /\ (2 * d) * z <= 2 * n + d /\ 2 * n + d < (2 * d) * z + 2 * d
  BY Quotient
<1>2. rounded(n, d) = z
  BY DEF rounded
<1> HIDE DEF z
<1>3. ASSUME z < low PROVE FALSE
  <2>1. d * (z + 1) <= d * low
    BY <1>1, <1>3, Product
  <2>2. (2 * d) * z + 2 * d = 2 * (d * (z + 1))
    BY <1>1
  <2> QED
    BY <1>1, <2>1, <2>2
<1>4. ASSUME z > high PROVE FALSE
  <2>1. d * (high + 1) <= d * z
    BY <1>1, <1>4, Product
  <2>2. d * (high + 1) = d * high + d /\ (2 * d) * z = 2 * (d * z)
    BY <1>1
  <2> QED
    BY <1>1, <2>1, <2>2
<1> QED
  BY <1>1, <1>2, <1>3, <1>4

\* What is weighed lies between what was weighed.
LEMMA Weighted ==
  ASSUME NEW q \in Nat, NEW k \in Nat, q + k > 0, NEW v \in Int, NEW c \in Int,
         NEW low \in Int, NEW high \in Int,
         low <= v, v <= high, low <= c, c <= high
  PROVE  low <= rounded(q * v + k * c, q + k) /\ rounded(q * v + k * c, q + k) <= high
<1>1. q * low <= q * v /\ q * v <= q * high /\ k * low <= k * c /\ k * c <= k * high
  BY Product
<1>2. (q + k) * low = q * low + k * low /\ (q + k) * high = q * high + k * high
  OBVIOUS
<1>3. /\ q * low \in Int /\ k * low \in Int /\ q * high \in Int /\ k * high \in Int
      /\ q * v \in Int /\ k * c \in Int
  OBVIOUS
<1>4. (q + k) * low <= q * v + k * c /\ q * v + k * c <= (q + k) * high
  BY <1>1, <1>2, <1>3
<1>5. q * v + k * c \in Int /\ q + k \in Nat
  BY <1>3
<1> HIDE <1>1, <1>2, <1>3
<1> QED
  BY <1>4, <1>5, Rounded

(***************************************************************************)
(* The average cost, whatever the interleaving.  A counter that was never  *)
(* below zero weighs an entry with what there was, and the result lies     *)
(* between the two costs; what a request computed stays between the costs  *)
(* given, which are never taken back.                                      *)
(***************************************************************************)
Between(cost, given) == \E low, high \in given : low <= cost /\ cost <= high

\* The costs given for an article once the movement a request holds is written.
givenBy(r) ==
  LET input == request[r].input IN
  typed[input.article] \union (IF input.type = "IN" THEN {input.cost} ELSE {})

ComputedBetween == \A r \in Requests :
  At(r, "write") /\ neverBelow(request[r].input.article) =>
    Between(request[r].averageCost, givenBy(r))

LEMMA MoreGiven ==
  ASSUME NEW given, NEW more, given \subseteq more, NEW cost, Between(cost, given)
  PROVE  Between(cost, more)
  BY DEF Between

\* A weighted average is between the costs given with the new one.
LEMMA EntryBetween ==
  ASSUME NEW given \in SUBSET Int, NEW item \in ArticleRows, NEW input \in Inputs,
         item.quantity >= 0, Between(item.averageCost, given),
         NEW more \in SUBSET Int, given \subseteq more,
         input.type = "IN" => unitCost(item, input) \in more
  PROVE  Between(averageCostAfter(item, input), more)
<1>1. item.quantity \in Nat /\ item.averageCost \in Int /\ input.quantity \in Nat
  BY DEF ArticleRows, Inputs
<1>2. PICK l, h \in given : l <= item.averageCost /\ item.averageCost <= h
  BY DEF Between
<1>3. CASE input.type = "IN" /\ quantityAfter(item, input) > 0
  <2> DEFINE c == unitCost(item, input)
             low == IF l < c THEN l ELSE c
             high == IF c < h THEN h ELSE c
  <2>1. c \in more /\ c \in Int
    BY <1>3
  <2>2. /\ low \in more /\ high \in more /\ low \in Int /\ high \in Int
        /\ low <= item.averageCost /\ item.averageCost <= high /\ low <= c /\ c <= high
    <3> HIDE DEF c
    <3> QED
      BY <1>1, <1>2, <2>1
  <2>3. quantityAfter(item, input) = item.quantity + input.quantity
    BY <1>3 DEF quantityAfter
  <2> HIDE DEF c, low, high
  <2>4. LET z == rounded(item.quantity * item.averageCost + input.quantity * c,
                         item.quantity + input.quantity)
        IN low <= z /\ z <= high
    BY <1>1, <1>3, <2>1, <2>2, <2>3, Weighted
  <2>5. averageCostAfter(item, input)
          = rounded(item.quantity * item.averageCost + input.quantity * c,
                    item.quantity + input.quantity)
    BY <1>3, <2>3 DEF averageCostAfter, c
  <2> QED
    BY <2>2, <2>4, <2>5 DEF Between
<1>4. CASE ~ (input.type = "IN" /\ quantityAfter(item, input) > 0)
  <2>1. averageCostAfter(item, input) = item.averageCost
    BY <1>4 DEF averageCostAfter
  <2> QED
    BY <2>1, MoreGiven
<1> QED
  BY <1>3, <1>4

\* A journal that was never below zero with its next movement was not before it.
LEMMA NeverBelowBefore ==
  ASSUME NEW j \in Seq(Movements), NEW m \in Movements,
         \A n \in 1..Len(Append(j, m)) : Append(j, m)[n].after >= 0
  PROVE  \A n \in 1..Len(j) : j[n].after >= 0
<1> SUFFICES ASSUME NEW n \in 1..Len(j) PROVE j[n].after >= 0
  OBVIOUS
<1>1. n \in 1..Len(Append(j, m)) /\ Append(j, m)[n] = j[n]
  BY Appended
<1> QED
  BY <1>1

\* Where a counter was never below zero, it is not.
LEMMA CounterAbove ==
  ASSUME TypeOK, CounterEndsJournal, NEW a \in Articles, neverBelow(a)
  PROVE  article[a].quantity >= 0
<1>1. journal[a] \in Seq(Movements)
  BY DEF TypeOK, StockTypes
<1>2. article[a].quantity = quantityBefore(journal[a], Len(journal[a]) + 1)
  BY DEF CounterEndsJournal
<1>3. CASE Len(journal[a]) = 0
  BY <1>2, <1>3 DEF quantityBefore
<1>4. CASE Len(journal[a]) # 0
  <2>1. Len(journal[a]) \in 1..Len(journal[a])
    BY <1>1, <1>4
  <2>2. quantityBefore(journal[a], Len(journal[a]) + 1) = journal[a][Len(journal[a])].after
    BY <1>1, <1>4 DEF quantityBefore
  <2> QED
    BY <1>2, <2>1, <2>2 DEF neverBelow
<1> QED
  BY <1>3, <1>4

\* What a recorded movement does to the costs.
LEMMA RecordedCost ==
  ASSUME TypeOK, NEW r \in Requests, Records(r)
  PROVE  LET b == request[r].input.article IN
         /\ article'[b].averageCost = request[r].averageCost /\ typed'[b] = givenBy(r)
         /\ \A a \in Articles : a # b => typed'[a] = typed[a]
<1>1. request[r].input \in Inputs /\ request[r].input.article \in Articles
  BY DEF Records, At, TypeOK, RequestTypes, RequestRows, wellFormed, Inputs
<1>2. article'[request[r].input.article].averageCost = request[r].averageCost
  BY <1>1 DEF Records, Record, TypeOK, StockTypes, ArticleRows
<1>3. /\ typed'[request[r].input.article] = givenBy(r)
      /\ \A a \in Articles : a # request[r].input.article => typed'[a] = typed[a]
  BY <1>1 DEF Records, Record, TypeOK, StockTypes, givenBy
<1> QED
  BY <1>2, <1>3

\* What applyMovement computes, and the costs given with it.
LEMMA ComputedCost ==
  ASSUME TypeOK, NEW r \in Requests, Computes(r)
  PROVE  LET input == request[r].input
             item == article[input.article]
         IN
         /\ typed' = typed /\ request'[r].averageCost = averageCostAfter(item, input)
         /\ givenBy(r)' = typed[input.article] \union
              (IF input.type = "IN" THEN {unitCost(item, input)} ELSE {})
<1>1. request[r].input \in Inputs
  BY DEF Computes, MoveRead, At, TypeOK, RequestTypes, wellFormed
<1> DEFINE input == request[r].input
           item == article[input.article]
           computed == [input EXCEPT !.cost = unitCost(item, input),
                                     !.quantity = movementQuantity(item, input)]
           q == [next |-> "write", by |-> request[r].by, input |-> computed,
                 after |-> quantityAfter(item, input),
                 averageCost |-> averageCostAfter(item, input)]
<1>2. UNCHANGED typed
  BY DEF Computes, MoveRead, stock
<1>3. request' = [request EXCEPT ![r] = q]
  BY DEF Computes, MoveRead
<1>4. request'[r] = q
  <2> HIDE DEF q
  <2> QED
    BY <1>3 DEF TypeOK, RequestTypes
<1>5. /\ computed.article = input.article /\ computed.type = input.type
      /\ computed.cost = unitCost(item, input)
  BY <1>1 DEF Inputs
<1>6. request'[r].input = computed /\ request'[r].averageCost = averageCostAfter(item, input)
  <2> HIDE DEF input, item, computed
  <2> QED
    BY <1>4
<1> HIDE DEF computed
<1> QED
  BY <1>2, <1>5, <1>6 DEF givenBy

\* The costs given are never taken back, and a journal only grows.
OnlyMoreOf(a) == typed[a] \subseteq typed'[a] /\ (neverBelow(a)' => neverBelow(a))

LEMMA OnlyMore ==
  ASSUME TypeOK, BeginsEmpty, [Next]_vars, NEW a \in Articles
  PROVE  OnlyMoreOf(a)
<1>1. ASSUME UNCHANGED <<typed, journal>> PROVE OnlyMoreOf(a)
  BY <1>1 DEF neverBelow, OnlyMoreOf
<1>2. ASSUME NEW r \in Requests, Records(r) PROVE OnlyMoreOf(a)
  <2>1. typed[a] \subseteq typed'[a]
    BY <1>2, RecordedCost DEF givenBy
  <2>2. journal[a] \in Seq(Movements)
    BY DEF TypeOK, StockTypes
  <2>3. UNCHANGED journal[a] \/ journal'[a] = Append(journal[a], movementOf(r))
    BY <1>2, Recorded
  <2>4. movementOf(r) \in Movements
    BY <1>2, Recorded
  <2>5. neverBelow(a)' => neverBelow(a)
    BY <2>2, <2>3, <2>4, NeverBelowBefore DEF neverBelow
  <2> QED
    BY <2>1, <2>5 DEF OnlyMoreOf
<1>3. ASSUME NEW r \in Requests, NEW b \in Articles, NEW quantity \in Quantities,
             NEW averageCost \in Costs, CreateItem(r, b, quantity, averageCost)
      PROVE OnlyMoreOf(a)
  <2>1. typed[a] \subseteq typed'[a] /\ (a # b => UNCHANGED journal[a])
    BY <1>3 DEF CreateItem, TypeOK, StockTypes
  <2>2. a = b => journal[a] = <<>>
    BY <1>3 DEF CreateItem, BeginsEmpty
  <2> QED
    BY <2>1, <2>2 DEF neverBelow, OnlyMoreOf
<1>4. ASSUME NEW r \in Requests, NEW b \in Articles,
             RemoveItem(r, b) \/ \E averageCost \in Costs : UpdateItem(r, b, averageCost)
      PROVE OnlyMoreOf(a)
  <2>1. typed[a] \subseteq typed'[a] /\ UNCHANGED journal
    BY <1>4 DEF RemoveItem, UpdateItem, TypeOK, StockTypes
  <2> QED
    BY <2>1 DEF neverBelow, OnlyMoreOf
<1>5. CASE Quiet
  BY <1>1, <1>5 DEF Quiet, stock
<1>6. ASSUME NEW r \in Requests, Computes(r) PROVE OnlyMoreOf(a)
  BY <1>1, <1>6, ComputedWrite, ComputedCost
<1> QED
  BY <1>2, <1>3, <1>4, <1>5, <1>6, StepKinds

\* What a request computed stays between the costs given.
LEMMA ComputedStays ==
  ASSUME TypeOK, BeginsEmpty, ComputedBetween, [Next]_vars,
         NEW s \in Requests, At(s, "write")', UNCHANGED request[s],
         neverBelow(request[s].input.article)'
  PROVE  Between(request[s].averageCost, givenBy(s))'
<1>1. request[s].input.article \in Articles /\ At(s, "write")
  BY DEF At, TypeOK, RequestTypes, wellFormed, Inputs
<1>2. givenBy(s) \subseteq givenBy(s)' /\ neverBelow(request[s].input.article)
  BY <1>1, OnlyMore DEF givenBy, neverBelow, OnlyMoreOf
<1>3. Between(request[s].averageCost, givenBy(s))
  BY <1>1, <1>2 DEF ComputedBetween
<1>4. Between(request[s].averageCost, givenBy(s)')
  BY <1>2, <1>3, MoreGiven
<1> QED
  BY <1>4 DEF Between

CostKept(a) == article[a].state # "absent" /\ neverBelow(a) => Between(article[a].averageCost, typed[a])

CostsKept == \A a \in Articles : CostKept(a)

LEMMA CostStep ==
  ASSUME TypeOK, TypeOK', BeginsEmpty, CounterEndsJournal, CostsKept, ComputedBetween, [Next]_vars
  PROVE  CostsKept' /\ ComputedBetween'
<1>1. ASSUME NEW a \in Articles, UNCHANGED article[a] PROVE CostKept(a)'
  BY <1>1, OnlyMore, MoreGiven DEF CostKept, CostsKept, Between, OnlyMoreOf
<1>2. ASSUME UNCHANGED article,
             \A s \in Requests : At(s, "write")' => UNCHANGED request[s]
      PROVE  CostsKept' /\ ComputedBetween'
  BY <1>1, <1>2, ComputedStays DEF CostsKept, ComputedBetween, neverBelow
<1>3. CASE Quiet
  BY <1>2, <1>3 DEF Quiet, stock, At, TypeOK, RequestTypes
<1>4. ASSUME NEW r \in Requests, Records(r) PROVE CostsKept' /\ ComputedBetween'
  <2>0. PICK b \in Articles : b = request[r].input.article
    BY <1>4, Recorded
  <2>1. \A s \in Requests : At(s, "write")' => UNCHANGED request[s]
    BY <1>4, Recorded DEF At
  <2>2. ComputedBetween'
    BY <2>1, ComputedStays DEF ComputedBetween, neverBelow
  <2>3. At(r, "write")
    BY <1>4 DEF Records
  <2>4. ASSUME neverBelow(b)'
        PROVE  Between(article'[b].averageCost, typed'[b])
    <3>1. neverBelow(b)
      BY <2>4, OnlyMore DEF OnlyMoreOf
    <3>2. Between(request[r].averageCost, givenBy(r))
      BY <2>0, <2>3, <3>1 DEF ComputedBetween
    <3> QED
      BY <1>4, <2>0, <3>2, RecordedCost
  <2>5. CostKept(b)'
    BY <2>4 DEF CostKept, neverBelow, Between
  <2>6. ASSUME NEW a \in Articles, a # b PROVE CostKept(a)'
    BY <1>1, <1>4, <2>0, <2>6, Recorded
  <2> QED
    BY <2>2, <2>5, <2>6 DEF CostsKept
<1>5. ASSUME NEW r \in Requests, Computes(r) PROVE CostsKept' /\ ComputedBetween'
  <2> DEFINE input == request[r].input
             item == article[input.article]
             more == typed[input.article] \union
                       (IF input.type = "IN" THEN {unitCost(item, input)} ELSE {})
  <2>1. /\ UNCHANGED <<article, journal, typed>>
        /\ input \in Inputs /\ item \in ArticleRows /\ item.state = "live"
        /\ \A s \in Requests : s # r => request'[s] = request[s]
        /\ request'[r].input.article = input.article
        /\ request'[r].averageCost = averageCostAfter(item, input)
        /\ givenBy(r)' = more
    BY <1>5, ComputedWrite, ComputedCost
  <2>2. input.article \in Articles
    BY <2>1 DEF Inputs
  <2>3. CostsKept'
    BY <1>1, <2>1 DEF CostsKept
  <2>4. ASSUME neverBelow(input.article)
        PROVE  Between(averageCostAfter(item, input), more)
    <3>1. item.quantity >= 0 /\ Between(item.averageCost, typed[input.article])
      BY <2>1, <2>2, <2>4, CounterAbove DEF CostsKept, CostKept
    <3>2. unitCost(item, input) \in Int /\ typed[input.article] \in SUBSET Int
      BY <2>1, <2>2 DEF unitCost, Inputs, ArticleRows, TypeOK, StockTypes
    <3> HIDE DEF input, item
    <3> QED
      BY <2>1, <3>1, <3>2, EntryBetween
  <2>5. ASSUME NEW s \in Requests, At(s, "write")', neverBelow(request[s].input.article)'
        PROVE  Between(request[s].averageCost, givenBy(s))'
    <3>1. CASE s = r
      <4>1. neverBelow(input.article)
        BY <2>1, <2>5, <3>1 DEF neverBelow
      <4>2. Between(request'[r].averageCost, givenBy(r)')
        <5> HIDE DEF input, item, more
        <5> QED
          BY <2>1, <2>4, <4>1
      <4> QED
        BY <3>1, <4>2 DEF Between
    <3>2. CASE s # r
      <4>1. UNCHANGED request[s]
        BY <2>1, <3>2
      <4>2. neverBelow(request[s].input.article)'
        BY <2>5
      <4> QED
        BY <2>5, <4>1, <4>2, ComputedStays
    <3> QED
      BY <3>1, <3>2
  <2> QED
    BY <2>3, <2>5 DEF ComputedBetween
<1>6. ASSUME NEW r \in Requests, NEW b \in Articles, NEW quantity \in Quantities,
             NEW averageCost \in Costs, CreateItem(r, b, quantity, averageCost)
      PROVE CostsKept' /\ ComputedBetween'
  <2>1. /\ averageCost \in Int /\ UNCHANGED request
        /\ article'[b].averageCost = averageCost /\ averageCost \in typed'[b]
        /\ \A a \in Articles : a # b => UNCHANGED article[a]
    BY <1>6, StockAssumption DEF CreateItem, BeginAndEnd, TypeOK, StockTypes
  <2>2. CostKept(b)'
    BY <2>1 DEF CostKept, Between
  <2>3. CostsKept'
    BY <1>1, <2>1, <2>2 DEF CostsKept
  <2>4. ComputedBetween'
    BY <2>1, ComputedStays DEF ComputedBetween, neverBelow
  <2> QED
    BY <2>3, <2>4
<1>7. ASSUME NEW r \in Requests, NEW b \in Articles,
             RemoveItem(r, b) \/ \E averageCost \in Costs : UpdateItem(r, b, averageCost)
      PROVE CostsKept' /\ ComputedBetween'
  <2>1. /\ UNCHANGED <<request, journal>> /\ article[b].state = "live"
        /\ \A a \in Articles : a # b => UNCHANGED article[a]
    BY <1>7 DEF RemoveItem, UpdateItem, BeginAndEnd, TypeOK, StockTypes
  <2>2. ASSUME RemoveItem(r, b) PROVE CostKept(b)'
    <3>1. article[b] \in ArticleRows /\ article'[b] = [article[b] EXCEPT !.state = "deleted"]
            /\ typed' = typed
      BY <2>2 DEF RemoveItem, TypeOK, StockTypes
    <3>2. article'[b].averageCost = article[b].averageCost
      BY <3>1 DEF ArticleRows
    <3> QED
      BY <2>1, <3>1, <3>2 DEF CostKept, CostsKept, neverBelow, Between
  <2>3. ASSUME NEW averageCost \in Costs, UpdateItem(r, b, averageCost) PROVE CostKept(b)'
    <3>1. /\ averageCost \in Int /\ averageCost \in typed'[b]
          /\ article'[b].averageCost = averageCost
      BY <2>3, StockAssumption DEF UpdateItem, TypeOK, StockTypes, ArticleRows
    <3> QED
      BY <3>1 DEF CostKept, Between
  <2>4. CostKept(b)'
    BY <1>7, <2>2, <2>3 DEF CostsKept
  <2>5. CostsKept'
    BY <1>1, <2>1, <2>4 DEF CostsKept
  <2>6. ComputedBetween'
    BY <2>1, ComputedStays DEF ComputedBetween, neverBelow
  <2> QED
    BY <2>5, <2>6
<1> QED
  BY <1>3, <1>4, <1>5, <1>6, <1>7, StepKinds

\* As long as the counter of an article was never below zero, its average cost
\* stays between the lowest and the highest cost anybody gave, however the
\* movements of several requests cross.
THEOREM CostsBetweenPrices == Spec => []CostBetweenPrices
<1>1. Init => CostsKept /\ ComputedBetween
  BY DEF Init, InitStock, Idle, CostsKept, CostKept, ComputedBetween, At
<1>2. TypeOK /\ TypeOK' /\ BeginsEmpty /\ CounterEndsJournal /\ CostsKept /\ ComputedBetween
        /\ [Next]_vars => CostsKept' /\ ComputedBetween'
  BY CostStep
<1>3. CostsKept => CostBetweenPrices
  BY DEF CostsKept, CostKept, CostBetweenPrices, Between
<1> QED
  BY <1>1, <1>2, <1>3, CounterInvariant, PTL DEF Spec

(***************************************************************************)
(* One request at a time.  A purchase does not move between the two steps  *)
(* of a request that works for it, so its goods and its money go together. *)
(***************************************************************************)

\* What a request under way may count on: a purchase it writes is not there yet, one
\* it settles or cancels stands, and it gives back no more than was bought.
MayClose(r) ==
  LET q == request[r]
      p == purchaseOf(r)
  IN
  /\ q.next \in {"read", "write"} => q.by \in {"person", "recipe", "purchase", "cancel"}
  /\ q.next # "idle" /\ q.by \in {"person", "recipe"} => p = NoPurchase
  /\ q.next \in {"read", "write"} /\ q.by = "purchase" =>
       q.input.type = "IN" /\ purchase[p] = NoLine
  /\ q.next \in {"settle", "settleExpense", "follow"} => purchase[p].status = "PENDING"
  /\ q.next = "follow" => expense[p].status = "PAID"
  /\ q.next # "idle" /\ q.by = "cancel" =>
       /\ purchase[p].status \in {"PENDING", "PAID"} /\ q.input.type = "OUT"
       /\ q.input.quantity <= purchase[p].quantity
  /\ q.next = "return" => q.by = "cancel"

\* The goods of a purchase: one entry, of what was bought; when it is cancelled, at
\* most one return, of no more.
Goods(p) ==
  LET entries == movementsOf(p, "IN")
      returns == movementsOf(p, "OUT")
  IN
  /\ purchase[p] = NoLine => entries = {} /\ returns = {}
  /\ purchase[p] # NoLine =>
       \E e : entries = {e} /\ journal[e[1]][e[2]].quantity = purchase[p].quantity
  /\ \/ returns = {}
     \/ /\ purchase[p].status = "CANCELLED"
        /\ \E m : returns = {m} /\ journal[m[1]][m[2]].quantity <= purchase[p].quantity

\* A purchase and its expense, case by case.
Paired(p) ==
  \/ purchase[p].status = "absent" /\ expense[p].status = "absent"
  \/ purchase[p].status = "PENDING" /\ expense[p].status \in {"PENDING", "PAID"} /\ ~ expense[p].deleted
  \/ purchase[p].status = "PAID" /\ expense[p].status = "PAID" /\ ~ expense[p].deleted
  \/ purchase[p].status = "CANCELLED" /\ expense[p].status = "CANCELLED" /\ expense[p].deleted

Documents ==
  /\ \A p \in Purchases : Paired(p) /\ Goods(p)
  /\ \A r \in Requests : MayClose(r)

LEMMA PairedCases ==
  ASSUME TypeOK
  PROVE  PurchaseWithItsExpense <=> \A p \in Purchases : Paired(p)
<1>1. \A p \in Purchases : purchase[p].status \in Statuses \union {"absent"}
  BY DEF TypeOK, BookTypes, PurchaseRows, NoLine
<1> QED
  BY <1>1 DEF PurchaseWithItsExpense, Paired, Statuses

\* A purchase that is not there is the one without a line.
LEMMA Line ==
  ASSUME TypeOK, NEW p \in Purchases
  PROVE  /\ purchase[p] = NoLine <=> purchase[p].status = "absent"
         /\ purchase[p] # NoLine => purchase[p] \in [status : Statuses, article : Articles,
                                                     quantity : Nat, unitPrice : Int]
         /\ purchase[p].quantity \in Nat
BY DEF TypeOK, BookTypes, PurchaseRows, NoLine, Statuses

\* What the movements of a purchase are.
LEMMA InMovements ==
  ASSUME NEW p, NEW type, NEW e
  PROVE  e \in movementsOf(p, type) <=>
           \E a \in Articles : \E n \in 1..Len(journal[a]) :
             e = <<a, n>> /\ journal[a][n].purchase = p /\ journal[a][n].type = type
BY DEF movementsOf

LEMMA SameMovements ==
  ASSUME NEW p, NEW type, UNCHANGED journal
  PROVE  movementsOf(p, type)' = movementsOf(p, type)
BY DEF movementsOf

\* A movement more is one of its purchase's, and of no other's.
LEMMA JournalGains ==
  ASSUME TypeOK, NEW b \in Articles, NEW m \in Movements, NEW p, NEW type,
         journal'[b] = Append(journal[b], m),
         \A a \in Articles : a # b => journal'[a] = journal[a]
  PROVE  /\ m.purchase # p \/ m.type # type => movementsOf(p, type)' = movementsOf(p, type)
         /\ m.purchase = p /\ m.type = type =>
              movementsOf(p, type)' = movementsOf(p, type) \union {<<b, Len(journal[b]) + 1>>}
         /\ \A e \in movementsOf(p, type) : journal'[e[1]][e[2]] = journal[e[1]][e[2]]
         /\ journal'[b][Len(journal[b]) + 1] = m
<1> DEFINE new == <<b, Len(journal[b]) + 1>>
<1>1. journal[b] \in Seq(Movements)
  BY DEF TypeOK, StockTypes
<1>2. /\ Len(journal'[b]) = Len(journal[b]) + 1 /\ journal'[b][Len(journal[b]) + 1] = m
      /\ \A n \in 1..Len(journal[b]) : journal'[b][n] = journal[b][n]
      /\ Len(journal[b]) \in Nat
  BY <1>1, Appended
<1>3. \A e \in movementsOf(p, type) : journal'[e[1]][e[2]] = journal[e[1]][e[2]]
  <2> SUFFICES ASSUME NEW a \in Articles, NEW n \in 1..Len(journal[a])
               PROVE  journal'[a][n] = journal[a][n]
    BY InMovements
  <2> QED
    BY <1>2
<1>4. ASSUME NEW e PROVE e \in movementsOf(p, type)' <=>
         e \in movementsOf(p, type) \/ (m.purchase = p /\ m.type = type /\ e = new)
  <2>1. e \in movementsOf(p, type)' <=>
           \E a \in Articles : \E n \in 1..Len(journal'[a]) :
             e = <<a, n>> /\ journal'[a][n].purchase = p /\ journal'[a][n].type = type
    BY DEF movementsOf
  <2>2. ASSUME NEW a \in Articles, NEW n \in 1..Len(journal'[a]), e = <<a, n>>,
               journal'[a][n].purchase = p, journal'[a][n].type = type
        PROVE  e \in movementsOf(p, type) \/ (m.purchase = p /\ m.type = type /\ e = new)
    <3>1. CASE a = b /\ n = Len(journal[b]) + 1
      BY <1>2, <2>2, <3>1
    <3>2. CASE ~ (a = b /\ n = Len(journal[b]) + 1)
      <4>1. n \in 1..Len(journal[a]) /\ journal'[a][n] = journal[a][n]
        BY <1>2, <3>2
      <4> QED
        BY <2>2, <4>1, InMovements
    <3> QED
      BY <3>1, <3>2
  <2>3. ASSUME NEW a \in Articles, NEW n \in 1..Len(journal[a]), e = <<a, n>>,
               journal[a][n].purchase = p, journal[a][n].type = type
        PROVE  e \in movementsOf(p, type)'
    <3>1. n \in 1..Len(journal'[a]) /\ journal'[a][n] = journal[a][n]
      BY <1>2
    <3> QED
      BY <2>1, <2>3, <3>1
  <2>4. ASSUME m.purchase = p, m.type = type, e = new PROVE e \in movementsOf(p, type)'
    <3>1. Len(journal[b]) + 1 \in 1..Len(journal'[b])
      BY <1>2
    <3> QED
      BY <1>2, <2>1, <2>4, <3>1
  <2> QED
    BY <2>1, <2>2, <2>3, <2>4, InMovements
<1>5. /\ m.purchase # p \/ m.type # type => movementsOf(p, type)' = movementsOf(p, type)
      /\ m.purchase = p /\ m.type = type =>
           movementsOf(p, type)' = movementsOf(p, type) \union {new}
  <2> HIDE DEF new
  <2> QED
    BY <1>4
<1> QED
  BY <1>2, <1>3, <1>5

\* The goods of a purchase that only changes its status.
LEMMA GoodsKept ==
  ASSUME NEW p \in Purchases, Goods(p),
         \A type \in {"IN", "OUT"} :
           /\ movementsOf(p, type)' = movementsOf(p, type)
           /\ \A e \in movementsOf(p, type) : journal'[e[1]][e[2]] = journal[e[1]][e[2]],
         purchase'[p] = NoLine <=> purchase[p] = NoLine,
         purchase'[p].quantity = purchase[p].quantity,
         purchase[p].status = "CANCELLED" => purchase'[p].status = "CANCELLED"
  PROVE  Goods(p)'
<1>1. movementsOf(p, "IN")' = movementsOf(p, "IN") /\ movementsOf(p, "OUT")' = movementsOf(p, "OUT")
  OBVIOUS
<1>2. \A e \in movementsOf(p, "IN") \union movementsOf(p, "OUT") :
        journal'[e[1]][e[2]] = journal[e[1]][e[2]]
  OBVIOUS
<1>3. ASSUME purchase'[p] # NoLine
      PROVE  \E e : movementsOf(p, "IN")' = {e} /\ journal'[e[1]][e[2]].quantity = purchase'[p].quantity
  <2>1. PICK e : movementsOf(p, "IN") = {e} /\ journal[e[1]][e[2]].quantity = purchase[p].quantity
    BY <1>3 DEF Goods
  <2> QED
    BY <1>1, <1>2, <2>1
<1>4. ASSUME movementsOf(p, "OUT")' # {}
      PROVE  /\ purchase'[p].status = "CANCELLED"
             /\ \E m : movementsOf(p, "OUT")' = {m}
                         /\ journal'[m[1]][m[2]].quantity <= purchase'[p].quantity
  <2>1. PICK m : movementsOf(p, "OUT") = {m} /\ journal[m[1]][m[2]].quantity <= purchase[p].quantity
    BY <1>1, <1>4 DEF Goods
  <2> QED
    BY <1>1, <1>2, <1>4, <2>1 DEF Goods
<1>5. purchase'[p] = NoLine => movementsOf(p, "IN")' = {} /\ movementsOf(p, "OUT")' = {}
  BY <1>1 DEF Goods
<1> QED
  BY <1>3, <1>4, <1>5 DEF Goods

\* A slot that is idle promises nothing.
LEMMA IdleMay ==
  ASSUME NEW r \in Requests, request'[r].next = "idle"
  PROVE  MayClose(r)'
BY DEF MayClose

LEMMA FinishedMay ==
  ASSUME OneSlot, TypeOK, NEW r \in Requests, Finish(r)
  PROVE  \A s \in Requests : MayClose(s)'
<1>1. request'[r].next = "idle"
  BY DEF Finish, Idle, TypeOK, RequestTypes
<1> QED
  BY <1>1, IdleMay DEF OneSlot

\* Only what the only request promises may change.
LEMMA BooksStand ==
  ASSUME Documents, UNCHANGED <<journal, purchase, expense>>
  PROVE  \A p \in Purchases : Paired(p)' /\ Goods(p)'
<1> SUFFICES ASSUME NEW p \in Purchases PROVE Paired(p)' /\ Goods(p)'
  OBVIOUS
<1>1. Paired(p)'
  BY DEF Documents, Paired
<1>2. Goods(p)'
  BY SameMovements, GoodsKept DEF Documents
<1> QED
  BY <1>1, <1>2

\* A purchase whose status changes, where no movement is recorded.
LEMMA StatusChange ==
  ASSUME Documents, UNCHANGED journal, NEW p \in Purchases, Paired(p)',
         \A o \in Purchases : o # p => UNCHANGED <<purchase[o], expense[o]>>,
         purchase'[p] = NoLine <=> purchase[p] = NoLine,
         purchase'[p].quantity = purchase[p].quantity,
         purchase[p].status = "CANCELLED" => purchase'[p].status = "CANCELLED"
  PROVE  \A o \in Purchases : Paired(o)' /\ Goods(o)'
<1> SUFFICES ASSUME NEW o \in Purchases PROVE Paired(o)' /\ Goods(o)'
  OBVIOUS
<1>1. Paired(o)'
  BY DEF Documents, Paired
<1>2. Goods(o)'
  <2>1. /\ purchase'[o] = NoLine <=> purchase[o] = NoLine
        /\ purchase'[o].quantity = purchase[o].quantity
        /\ purchase[o].status = "CANCELLED" => purchase'[o].status = "CANCELLED"
    BY DEF Documents
  <2> QED
    BY <2>1, SameMovements, GoodsKept DEF Documents
<1> QED
  BY <1>1, <1>2

\* A movement recorded leaves the other purchases' goods as they were.
LEMMA RecordedGoods ==
  ASSUME TypeOK, Documents, NEW r \in Requests, Records(r),
         NEW p \in Purchases, p # purchaseOf(r), UNCHANGED purchase[p]
  PROVE  Goods(p)'
<1>1. PICK b \in Articles, m \in Movements : b = request[r].input.article /\ m = movementOf(r)
  BY Recorded
<1>2. m.purchase = purchaseOf(r)
  BY <1>1 DEF movementOf, purchaseOf
<1>3. /\ journal'[b] = Append(journal[b], m)
      /\ \A a \in Articles : a # b => journal'[a] = journal[a]
  BY <1>1, Recorded
<1>4. ASSUME NEW type
      PROVE  /\ movementsOf(p, type)' = movementsOf(p, type)
             /\ \A e \in movementsOf(p, type) : journal'[e[1]][e[2]] = journal[e[1]][e[2]]
  BY <1>2, <1>3, JournalGains
<1> QED
  BY <1>4, GoodsKept DEF Documents

\* A request that begins, with what it found.
LEMMA BegunMay ==
  ASSUME OneSlot, TypeOK, Documents, NEW r \in Requests, NEW next, NEW by, NEW input,
         Begin(r, next, by, input), UNCHANGED <<stock, books>>,
         LET p == input.purchase IN
         /\ next = "read" => by \in {"person", "recipe", "purchase"}
         /\ next \notin {"write", "follow"} /\ (by = "cancel" => next = "return")
         /\ by \in {"person", "recipe"} => p = NoPurchase
         /\ next = "read" /\ by = "purchase" => input.type = "IN" /\ purchase[p] = NoLine
         /\ next \in {"settle", "settleExpense"} => purchase[p].status = "PENDING"
         /\ by = "cancel" =>
              /\ purchase[p].status \in {"PENDING", "PAID"} /\ input.type = "OUT"
              /\ input.quantity <= purchase[p].quantity
         /\ next = "return" => by = "cancel"
  PROVE  Documents'
<1>1. request'[r] = [next |-> next, by |-> by, input |-> input, after |-> 0, averageCost |-> 0]
  BY DEF Begin, TypeOK, RequestTypes
<1>2. UNCHANGED <<journal, purchase, expense>>
  BY DEF stock, books
<1>3. MayClose(r)'
  BY <1>1, <1>2 DEF MayClose, purchaseOf
<1> QED
  BY <1>2, <1>3, BooksStand DEF Documents, OneSlot

LEMMA DocumentsBegin ==
  ASSUME OneSlot, TypeOK, Documents, NEW r \in Requests
  PROVE  /\ \A a \in Articles, type \in MovementTypes, quantity \in Quantities,
                cost \in Costs \union {NoCost}, occurredAt \in Dates \union {NoDate} :
              CreateMovement(r, a, type, quantity, cost, occurredAt) /\ UNCHANGED books
                => Documents'
         /\ \A o \in Orders : ConsumeRead(r, o) => Documents'
         /\ \A p \in Purchases :
              /\ \A a \in Articles, quantity \in Quantities, lineTotal \in LineTotals,
                    purchasedAt \in Dates \union {NoDate} :
                   ReceiveRead(r, p, a, quantity, lineTotal, purchasedAt) => Documents'
              /\ SettleRead(r, p) \/ SettleExpenseRead(r, p) \/ CancelRead(r, p) => Documents'
<1>1. ASSUME NEW a \in Articles, NEW type \in MovementTypes, NEW quantity \in Quantities,
             NEW cost \in Costs \union {NoCost}, NEW occurredAt \in Dates \union {NoDate},
             CreateMovement(r, a, type, quantity, cost, occurredAt), UNCHANGED books
      PROVE  Documents'
  BY <1>1, BegunMay DEF CreateMovement
<1>2. ASSUME NEW o \in Orders, ConsumeRead(r, o) PROVE Documents'
  BY <1>2, BegunMay DEF ConsumeRead
<1>3. ASSUME NEW p \in Purchases, NEW a \in Articles, NEW quantity \in Quantities,
             NEW lineTotal \in LineTotals, NEW purchasedAt \in Dates \union {NoDate},
             ReceiveRead(r, p, a, quantity, lineTotal, purchasedAt)
      PROVE  Documents'
  BY <1>3, BegunMay DEF ReceiveRead
<1>4. ASSUME NEW p \in Purchases
      PROVE  /\ ForPurchase(p).purchase = p /\ ForPurchase(p).type = "OUT"
             /\ ForPurchase(p).quantity = purchase[p].quantity
  BY DEF ForPurchase
<1>5. ASSUME NEW p \in Purchases, SettleRead(r, p) PROVE Documents'
  <2> DEFINE input == ForPurchase(p)
  <2>1. input.purchase = p
    BY <1>4
  <2>2. Begin(r, "settle", "purchase", input) /\ purchase[p].status = "PENDING"
          /\ UNCHANGED <<stock, books>>
    BY <1>5 DEF SettleRead
  <2> HIDE DEF input
  <2> QED
    BY <2>1, <2>2, BegunMay
<1>6. ASSUME NEW p \in Purchases, SettleExpenseRead(r, p) PROVE Documents'
  <2> DEFINE input == ForPurchase(p)
  <2>1. input.purchase = p
    BY <1>4
  <2>2. Begin(r, "settleExpense", "expense", input) /\ UNCHANGED <<stock, books>>
          /\ expense[p].status = "PENDING"
    BY <1>6 DEF SettleExpenseRead
  <2>3. purchase[p].status = "PENDING"
    BY <2>2 DEF Documents, Paired
  <2> HIDE DEF input
  <2> QED
    BY <2>1, <2>2, <2>3, BegunMay
<1>7. ASSUME NEW p \in Purchases, CancelRead(r, p) PROVE Documents'
  <2> DEFINE input == ForPurchase(p)
  <2>1. input.purchase = p /\ input.type = "OUT" /\ input.quantity <= purchase[p].quantity
    <3>1. purchase[p].quantity \in Nat
      BY Line
    <3> QED
      BY <1>4, <3>1
  <2>2. Begin(r, "return", "cancel", input) /\ UNCHANGED <<stock, books>>
          /\ purchase[p].status \in {"PENDING", "PAID"}
    BY <1>7 DEF CancelRead
  <2> HIDE DEF input
  <2> QED
    BY <2>1, <2>2, BegunMay
<1> QED
  BY <1>1, <1>2, <1>3, <1>5, <1>6, <1>7

\* What was computed of a movement is still what may be written.
LEMMA DocumentsComputed ==
  ASSUME OneSlot, TypeOK, Documents, NEW r \in Requests, MoveRead(r), UNCHANGED books
  PROVE  Documents'
<1>0. UNCHANGED <<journal, purchase, expense>>
  BY DEF MoveRead, stock, books
<1>1. CASE Finish(r)
  BY <1>0, <1>1, BooksStand, FinishedMay DEF Documents
<1>2. CASE Computes(r)
  <2> DEFINE input == request[r].input
             item == article[input.article]
             computed == [input EXCEPT !.cost = unitCost(item, input),
                                       !.quantity = movementQuantity(item, input)]
             q == [next |-> "write", by |-> request[r].by, input |-> computed,
                   after |-> quantityAfter(item, input),
                   averageCost |-> averageCostAfter(item, input)]
  <2>1. input \in Inputs /\ At(r, "read")
    BY <1>2, ComputedWrite DEF Computes, MoveRead
  <2>2. request' = [request EXCEPT ![r] = q]
    BY <1>2 DEF Computes, MoveRead
  <2>3. request'[r] = q
    <3> HIDE DEF q
    <3> QED
      BY <2>2 DEF TypeOK, RequestTypes
  <2>4. /\ computed.type = input.type /\ computed.purchase = input.purchase
        /\ input.type = "OUT" => computed.quantity = input.quantity
    BY <2>1 DEF Inputs, movementQuantity
  <2>5. request'[r].next = "write" /\ request'[r].by = request[r].by /\ request'[r].input = computed
    <3> HIDE DEF computed
    <3> QED
      BY <2>3
  <2> HIDE DEF computed
  <2>6. MayClose(r)
    BY DEF Documents
  <2>7. MayClose(r)'
    BY <1>0, <2>1, <2>4, <2>5, <2>6 DEF MayClose, purchaseOf, At
  <2> QED
    BY <1>0, <2>7, BooksStand DEF Documents, OneSlot
<1> QED
  BY <1>1, <1>2 DEF MoveRead, Computes

\* The requests of one write, idle before and after.
LEMMA DocumentsAtOnce ==
  ASSUME OneSlot, TypeOK, BeginsEmpty, Documents, NEW r \in Requests, UNCHANGED books,
         NEW a \in Articles,
         \/ \E quantity \in Quantities, averageCost \in Costs :
              CreateItem(r, a, quantity, averageCost)
         \/ RemoveItem(r, a) \/ \E averageCost \in Costs : UpdateItem(r, a, averageCost)
  PROVE  Documents'
<1>1. request'[r].next = "idle"
  BY DEF CreateItem, RemoveItem, UpdateItem, BeginAndEnd, At
<1>2. \A s \in Requests : MayClose(s)'
  BY <1>1, IdleMay DEF OneSlot
<1>3. UNCHANGED <<purchase, expense>>
  BY DEF books
<1>4. CASE UNCHANGED journal
  BY <1>2, <1>3, <1>4, BooksStand DEF Documents
<1>5. ASSUME NEW quantity \in Quantities, NEW averageCost \in Costs,
             CreateItem(r, a, quantity, averageCost), quantity # 0
      PROVE  Documents'
  <2> DEFINE m == [type |-> "IN", quantity |-> quantity, after |-> quantity,
                   cost |-> averageCost, occurredAt |-> now(a),
                   purchase |-> NoPurchase, order |-> NoOrder]
  <2>1. m \in Movements /\ m.purchase = NoPurchase
    BY StockAssumption, NowIsNat DEF TypeOK, Movements, MovementTypes
  <2>2. /\ journal'[a] = Append(journal[a], m)
        /\ \A b \in Articles : b # a => journal'[b] = journal[b]
    BY <1>5 DEF CreateItem, TypeOK, StockTypes
  <2> HIDE DEF m
  <2>3. ASSUME NEW p \in Purchases PROVE Paired(p)' /\ Goods(p)'
    <3>1. p # m.purchase
      BY <2>1, StockAssumption
    <3>2. ASSUME NEW type
          PROVE  /\ movementsOf(p, type)' = movementsOf(p, type)
                 /\ \A e \in movementsOf(p, type) : journal'[e[1]][e[2]] = journal[e[1]][e[2]]
      BY <2>1, <2>2, <3>1, JournalGains
    <3>3. Goods(p)'
      BY <1>3, <3>2, GoodsKept DEF Documents
    <3> QED
      BY <1>3, <3>3 DEF Documents, Paired
  <2> QED
    BY <1>2, <2>3 DEF Documents
<1>6. ASSUME NEW quantity \in Quantities, NEW averageCost \in Costs,
             CreateItem(r, a, quantity, averageCost), quantity = 0
      PROVE  UNCHANGED journal
  BY <1>6 DEF CreateItem, TypeOK, StockTypes
<1> QED
  BY <1>4, <1>5, <1>6 DEF RemoveItem, UpdateItem

\* A movement of nobody's purchase.
LEMMA DocumentsMoved ==
  ASSUME OneSlot, TypeOK, Documents, NEW r \in Requests, Records(r),
         request[r].by \in {"person", "recipe"}, UNCHANGED <<purchase, expense>>
  PROVE  Documents'
<1>1. purchaseOf(r) = NoPurchase
  BY DEF Documents, MayClose, Records, At
<1>2. ASSUME NEW p \in Purchases PROVE Paired(p)' /\ Goods(p)'
  <2>1. p # purchaseOf(r)
    BY <1>1, StockAssumption
  <2> QED
    BY <2>1, RecordedGoods DEF Documents, Paired
<1> QED
  BY <1>2, FinishedMay DEF Documents, Records

\* The document, the entry and the expense of a purchase are written together.
LEMMA DocumentsReceived ==
  ASSUME OneSlot, TypeOK, Documents, NEW r \in Requests, NEW status \in {"PENDING", "PAID"},
         ReceiveCommit(r, status)
  PROVE  Documents'
<1>1. At(r, "write") /\ request[r].by = "purchase" /\ Records(r)
  BY DEF ReceiveCommit, Records
<1>2. PICK p \in Purchases : p = purchaseOf(r)
  BY <1>1 DEF At, TypeOK, RequestTypes, wellFormed, purchaseOf
<1>3. purchase[p] = NoLine /\ request[r].input.type = "IN" /\ Goods(p)
  BY <1>1, <1>2 DEF Documents, MayClose, At
<1>4. PICK b \in Articles, m \in Movements : b = request[r].input.article /\ m = movementOf(r)
  BY <1>1, Recorded
<1>5. /\ m.purchase = p /\ m.type = "IN" /\ m.quantity = request[r].input.quantity
      /\ journal'[b] = Append(journal[b], m)
      /\ \A a \in Articles : a # b => journal'[a] = journal[a]
  BY <1>1, <1>2, <1>3, <1>4, Recorded DEF movementOf, purchaseOf
<1>6. /\ purchase'[p] = [status |-> status, article |-> request[r].input.article,
                         quantity |-> request[r].input.quantity, unitPrice |-> request[r].input.cost]
      /\ expense'[p] = [status |-> status, deleted |-> FALSE]
      /\ \A o \in Purchases : o # p => UNCHANGED <<purchase[o], expense[o]>>
  BY <1>2 DEF ReceiveCommit, TypeOK, BookTypes
<1>7. Paired(p)'
  BY <1>6 DEF Paired
<1>8. Goods(p)'
  <2> DEFINE new == <<b, Len(journal[b]) + 1>>
  <2>1. movementsOf(p, "IN")' = {new} /\ journal'[new[1]][new[2]] = m
    BY <1>3, <1>5, JournalGains DEF Goods
  <2>2. movementsOf(p, "OUT")' = {}
    BY <1>3, <1>5, JournalGains DEF Goods
  <2>3. purchase'[p] # NoLine /\ purchase'[p].quantity = m.quantity
    BY <1>5, <1>6 DEF NoLine
  <2> HIDE DEF new
  <2> QED
    BY <2>1, <2>2, <2>3 DEF Goods
<1>9. ASSUME NEW o \in Purchases PROVE Paired(o)' /\ Goods(o)'
  <2>1. CASE o = p
    BY <1>7, <1>8, <2>1
  <2>2. CASE o # p
    BY <1>1, <1>2, <1>6, <2>2, RecordedGoods DEF Documents, Paired
  <2> QED
    BY <2>1, <2>2
<1> QED
  BY <1>1, <1>9, FinishedMay DEF Documents, Records

\* Settling a purchase, from the purchase or from its expense.
LEMMA DocumentsSettled ==
  ASSUME OneSlot, TypeOK, Documents, NEW r \in Requests,
         SettleCommit(r) \/ SettleExpense(r) \/ PurchaseFollows(r)
  PROVE  Documents'
<1>1. PICK p \in Purchases : p = purchaseOf(r)
  BY DEF SettleCommit, SettleExpense, PurchaseFollows, At, TypeOK, RequestTypes, wellFormed,
         closes, purchaseOf
<1>2. /\ purchase[p].status = "PENDING" /\ expense[p].status \in {"PENDING", "PAID"}
      /\ ~ expense[p].deleted /\ MayClose(r) /\ UNCHANGED journal
  BY <1>1 DEF Documents, Paired, MayClose, SettleCommit, SettleExpense, PurchaseFollows, At, stock
<1>3. /\ purchase[p] # NoLine /\ expense[p] \in ExpenseRows
      /\ purchase[p] \in [status : Statuses, article : Articles, quantity : Nat, unitPrice : Int]
  BY <1>2, Line DEF NoLine, TypeOK, BookTypes
<1>4. CASE SettleCommit(r)
  <2>1. /\ purchase'[p] = [purchase[p] EXCEPT !.status = "PAID"]
        /\ expense'[p] = [expense[p] EXCEPT !.status = "PAID"]
        /\ \A o \in Purchases : o # p => UNCHANGED <<purchase[o], expense[o]>>
    BY <1>1, <1>4 DEF SettleCommit, TypeOK, BookTypes
  <2>2. /\ Paired(p)' /\ purchase'[p] # NoLine /\ purchase'[p].quantity = purchase[p].quantity
    BY <1>2, <1>3, <2>1 DEF Paired, ExpenseRows, NoLine
  <2>3. \A o \in Purchases : Paired(o)' /\ Goods(o)'
    BY <1>2, <1>3, <2>1, <2>2, StatusChange
  <2> QED
    BY <1>4, <2>3, FinishedMay DEF Documents, SettleCommit
<1>5. CASE PurchaseFollows(r)
  <2>1. /\ purchase'[p] = [purchase[p] EXCEPT !.status = "PAID"] /\ expense[p].status = "PAID"
        /\ UNCHANGED expense
        /\ \A o \in Purchases : o # p => UNCHANGED <<purchase[o], expense[o]>>
    BY <1>1, <1>2, <1>5 DEF PurchaseFollows, MayClose, At, TypeOK, BookTypes
  <2>2. /\ Paired(p)' /\ purchase'[p] # NoLine /\ purchase'[p].quantity = purchase[p].quantity
    BY <1>2, <1>3, <2>1 DEF Paired, NoLine
  <2>3. \A o \in Purchases : Paired(o)' /\ Goods(o)'
    BY <1>2, <1>3, <2>1, <2>2, StatusChange
  <2> QED
    BY <1>5, <2>3, FinishedMay DEF Documents, PurchaseFollows
<1>6. CASE SettleExpense(r)
  <2>1. /\ expense'[p] = [expense[p] EXCEPT !.status = "PAID"] /\ UNCHANGED purchase
        /\ \A o \in Purchases : o # p => UNCHANGED <<purchase[o], expense[o]>>
    BY <1>1, <1>6 DEF SettleExpense, TypeOK, BookTypes
  <2>2. Paired(p)' /\ expense'[p].status = "PAID"
    BY <1>2, <1>3, <2>1 DEF Paired, ExpenseRows
  <2>3. \A o \in Purchases : Paired(o)' /\ Goods(o)'
    BY <1>2, <1>3, <2>1, <2>2, StatusChange
  <2>4. /\ request'[r].next = "follow" /\ request'[r].by = request[r].by
        /\ request'[r].input = request[r].input
    BY <1>6 DEF SettleExpense, GoTo, TypeOK, RequestTypes
  <2>5. request[r].next = "settleExpense"
    BY <1>6 DEF SettleExpense, At
  <2>6. MayClose(r)'
    BY <1>1, <1>2, <2>1, <2>2, <2>4, <2>5 DEF MayClose, purchaseOf
  <2> QED
    BY <2>3, <2>6 DEF Documents, OneSlot
<1> QED
  BY <1>4, <1>5, <1>6

\* What voiding writes.
LEMMA Voided ==
  ASSUME TypeOK, NEW p \in Purchases, Void(p), purchase[p].status \in {"PENDING", "PAID"}
  PROVE  /\ Paired(p)' /\ purchase[p] # NoLine /\ purchase'[p] # NoLine
         /\ purchase'[p].status = "CANCELLED" /\ purchase'[p].quantity = purchase[p].quantity
         /\ \A o \in Purchases : o # p => UNCHANGED <<purchase[o], expense[o]>>
<1>1. /\ purchase'[p] = [purchase[p] EXCEPT !.status = "CANCELLED"]
      /\ expense'[p] = [status |-> "CANCELLED", deleted |-> TRUE]
      /\ \A o \in Purchases : o # p => UNCHANGED <<purchase[o], expense[o]>>
  BY DEF Void, TypeOK, BookTypes
<1>2. /\ purchase[p] # NoLine
      /\ purchase[p] \in [status : Statuses, article : Articles, quantity : Nat, unitPrice : Int]
  BY Line DEF NoLine
<1> QED
  BY <1>1, <1>2 DEF Paired, NoLine

\* Cancelling, when nothing is left of the goods or before they go back.
LEMMA DocumentsReturning ==
  ASSUME OneSlot, TypeOK, Documents, NEW r \in Requests, CancelReturn(r)
  PROVE  Documents'
<1>1. PICK p \in Purchases : p = purchaseOf(r)
  BY DEF CancelReturn, At, TypeOK, RequestTypes, wellFormed, closes, purchaseOf
<1>2. /\ request[r].next = "return" /\ request[r].input \in Inputs /\ MayClose(r)
      /\ UNCHANGED journal
  BY DEF CancelReturn, At, TypeOK, RequestTypes, wellFormed, Documents, stock
<1>3. /\ request[r].by = "cancel" /\ purchase[p].status \in {"PENDING", "PAID"}
      /\ request[r].input.type = "OUT" /\ request[r].input.quantity <= purchase[p].quantity
  BY <1>1, <1>2 DEF MayClose
<1>4. CASE Void(purchaseOf(r)) /\ Finish(r)
  <2>1. \A o \in Purchases : Paired(o)' /\ Goods(o)'
    BY <1>1, <1>2, <1>3, <1>4, Voided, StatusChange
  <2> QED
    BY <1>4, <2>1, FinishedMay DEF Documents
<1> DEFINE available == article[request[r].input.article].quantity
           returned == [request[r].input EXCEPT !.quantity = least(@, available)]
<1>5. CASE GoTo(r, "read", returned) /\ UNCHANGED books
  <2>1. available \in Int
    BY <1>2 DEF TypeOK, StockTypes, ArticleRows, Inputs
  <2>2. /\ returned.purchase = p /\ returned.type = "OUT" /\ purchase[p].quantity \in Nat
        /\ returned.quantity <= purchase[p].quantity
    <3> HIDE DEF available
    <3>1. /\ returned.purchase = p /\ returned.type = "OUT"
          /\ returned.quantity = least(request[r].input.quantity, available)
      BY <1>1, <1>2, <1>3 DEF Inputs, purchaseOf
    <3>2. request[r].input.quantity \in Nat /\ purchase[p].quantity \in Nat
      BY <1>2, Line DEF Inputs
    <3> QED
      BY <1>3, <2>1, <3>1, <3>2 DEF least
  <2> HIDE DEF returned
  <2>3. /\ request'[r].next = "read" /\ request'[r].by = "cancel"
        /\ request'[r].input = returned /\ UNCHANGED <<purchase, expense>>
    BY <1>3, <1>5 DEF GoTo, TypeOK, RequestTypes, books
  <2>4. MayClose(r)'
    BY <1>3, <2>2, <2>3 DEF MayClose, purchaseOf
  <2> QED
    BY <1>2, <2>3, <2>4, BooksStand DEF Documents, OneSlot
<1> QED
  BY <1>4, <1>5 DEF CancelReturn

\* Cancelling, when goods go back.
LEMMA DocumentsCancelled ==
  ASSUME OneSlot, TypeOK, Documents, NEW r \in Requests, CancelCommit(r)
  PROVE  Documents'
<1>1. At(r, "write") /\ request[r].by = "cancel" /\ Records(r)
  BY DEF CancelCommit, Records
<1>2. PICK p \in Purchases : p = purchaseOf(r)
  BY <1>1 DEF At, TypeOK, RequestTypes, wellFormed, closes, purchaseOf
<1>3. /\ purchase[p].status \in {"PENDING", "PAID"} /\ request[r].input.type = "OUT"
      /\ request[r].input.quantity <= purchase[p].quantity /\ Goods(p)
  BY <1>1, <1>2 DEF Documents, MayClose, At
<1>4. /\ Paired(p)' /\ purchase[p] # NoLine /\ purchase'[p] # NoLine
      /\ purchase'[p].status = "CANCELLED" /\ purchase'[p].quantity = purchase[p].quantity
      /\ \A o \in Purchases : o # p => UNCHANGED <<purchase[o], expense[o]>>
  BY <1>2, <1>3, Voided DEF CancelCommit
<1>5. PICK b \in Articles, m \in Movements : b = request[r].input.article /\ m = movementOf(r)
  BY <1>1, Recorded
<1>6. /\ m.purchase = p /\ m.type = "OUT" /\ m.quantity = request[r].input.quantity
      /\ journal'[b] = Append(journal[b], m)
      /\ \A a \in Articles : a # b => journal'[a] = journal[a]
  BY <1>1, <1>2, <1>3, <1>5, Recorded DEF movementOf, purchaseOf
<1>7. Goods(p)'
  <2> DEFINE new == <<b, Len(journal[b]) + 1>>
  <2>1. PICK e : movementsOf(p, "IN") = {e} /\ journal[e[1]][e[2]].quantity = purchase[p].quantity
    BY <1>3, <1>4 DEF Goods
  <2>2. movementsOf(p, "IN")' = {e} /\ journal'[e[1]][e[2]].quantity = purchase'[p].quantity
    BY <1>4, <1>6, <2>1, JournalGains
  <2>3. movementsOf(p, "OUT") = {}
    BY <1>3 DEF Goods
  <2>4. movementsOf(p, "OUT")' = {new} /\ journal'[new[1]][new[2]] = m
    BY <1>6, <2>3, JournalGains
  <2>5. m.quantity <= purchase'[p].quantity
    BY <1>3, <1>4, <1>6
  <2> HIDE DEF new
  <2> QED
    BY <1>4, <2>2, <2>4, <2>5 DEF Goods
<1>8. ASSUME NEW o \in Purchases PROVE Paired(o)' /\ Goods(o)'
  <2>1. CASE o = p
    BY <1>4, <1>7, <2>1
  <2>2. CASE o # p
    BY <1>1, <1>2, <1>4, <2>2, RecordedGoods DEF Documents, Paired
  <2> QED
    BY <2>1, <2>2
<1> QED
  BY <1>1, <1>8, FinishedMay DEF Documents, Records

LEMMA DocumentsStep ==
  ASSUME OneSlot, TypeOK, BeginsEmpty, Documents, [Next]_vars
  PROVE  Documents'
<1>1. CASE UNCHANGED vars
  <2>1. UNCHANGED <<journal, purchase, expense, request>>
    BY <1>1 DEF vars
  <2>2. \A s \in Requests : MayClose(s)'
    BY <2>1 DEF Documents, MayClose, purchaseOf
  <2> QED
    BY <2>1, <2>2, BooksStand DEF Documents
<1>2. ASSUME NEW r \in Requests, StockStep(r) PROVE Documents'
  BY <1>2, DocumentsAtOnce, DocumentsBegin, DocumentsComputed DEF StockStep
<1>3. ASSUME NEW r \in Requests, PurchaseStep(r) PROVE Documents'
  BY <1>3, DocumentsBegin, DocumentsReceived, DocumentsSettled, DocumentsReturning,
     DocumentsCancelled DEF PurchaseStep
<1>4. ASSUME NEW r \in Requests, CommitMovement(r) \/ ConsumeCommit(r) PROVE Documents'
  BY <1>4, DocumentsMoved DEF CommitMovement, ConsumeCommit, Records, books
<1>5. ASSUME NEW r \in Requests, NEW o \in Orders, ConsumeRead(r, o) PROVE Documents'
  BY <1>5, DocumentsBegin
<1>6. ASSUME NEW r \in Requests, Abort(r) PROVE Documents'
  BY <1>6, BooksStand, FinishedMay DEF Abort, stock, books, Documents
<1> QED
  BY <1>1, <1>2, <1>3, <1>4, <1>5, <1>6 DEF Next

LEMMA DocumentsInit == Init => Documents
<1> SUFFICES ASSUME Init PROVE Documents
  OBVIOUS
<1>1. \A p \in Purchases : Paired(p) /\ purchase[p] = NoLine
  BY DEF Init, Paired, NoLine
<1>2. ASSUME NEW p \in Purchases, NEW type PROVE movementsOf(p, type) = {}
  <2>1. \A a \in Articles : Len(journal[a]) = 0
    BY DEF Init, InitStock
  <2> QED
    BY <2>1, InMovements
<1>3. \A p \in Purchases : Goods(p)
  BY <1>1, <1>2 DEF Goods
<1>4. \A r \in Requests : MayClose(r)
  BY DEF Init, InitStock, Idle, MayClose
<1> QED
  BY <1>1, <1>3, <1>4 DEF Documents

LEMMA DocumentsAccount ==
  ASSUME TypeOK, Documents
  PROVE  PurchaseAccounted
<1>1. PurchaseWithItsExpense
  BY PairedCases DEF Documents
<1>2. ASSUME NEW p \in Purchases
      PROVE  LET entries == movementsOf(p, "IN")
                 returns == movementsOf(p, "OUT")
             IN /\ Cardinality(entries) = IF purchase[p] = NoLine THEN 0 ELSE 1
                /\ Cardinality(returns) <= IF purchase[p].status = "CANCELLED" THEN 1 ELSE 0
                /\ \A e \in entries, m \in returns :
                     journal[m[1]][m[2]].quantity <= journal[e[1]][e[2]].quantity
  <2>1. Goods(p)
    BY DEF Documents
  <2>2. Cardinality({}) = 0 /\ \A x : Cardinality({x}) = 1
    BY FS_EmptySet, FS_Singleton
  <2>3. Cardinality(movementsOf(p, "IN")) = IF purchase[p] = NoLine THEN 0 ELSE 1
    BY <2>1, <2>2 DEF Goods
  <2>4. Cardinality(movementsOf(p, "OUT")) <= IF purchase[p].status = "CANCELLED" THEN 1 ELSE 0
    <3>1. CASE movementsOf(p, "OUT") = {}
      BY <2>2, <3>1
    <3>2. CASE movementsOf(p, "OUT") # {}
      <4>1. purchase[p].status = "CANCELLED" /\ \E m : movementsOf(p, "OUT") = {m}
        BY <2>1, <3>2 DEF Goods
      <4>2. Cardinality(movementsOf(p, "OUT")) = 1
        BY <4>1, FS_Singleton
      <4> QED
        BY <4>1, <4>2
    <3> QED
      BY <3>1, <3>2
  <2>5. ASSUME NEW e \in movementsOf(p, "IN"), NEW m \in movementsOf(p, "OUT")
        PROVE  journal[m[1]][m[2]].quantity <= journal[e[1]][e[2]].quantity
    <3>1. purchase[p] # NoLine
      BY <2>1, <2>5 DEF Goods
    <3> QED
      BY <2>1, <2>5, <3>1 DEF Goods
  <2> QED
    BY <2>3, <2>4, <2>5
<1> QED
  BY <1>1, <1>2 DEF PurchaseAccounted, GoodsReturnedOnce

\* When requests come one at a time, a purchase is accounted for on both sides:
\* its expense says what it says, and its goods came in once and went back at
\* most once, never more of them than came in.
THEOREM PurchasesAccounted == OneSlot => (Spec => []PurchaseAccounted)
<1> SUFFICES ASSUME OneSlot PROVE Spec => []PurchaseAccounted
  OBVIOUS
<1>1. TypeOK /\ BeginsEmpty /\ Documents /\ [Next]_vars => Documents'
  BY DocumentsStep
<1>2. TypeOK /\ Documents => PurchaseAccounted
  BY DocumentsAccount
<1> QED
  BY <1>1, <1>2, DocumentsInit, CounterInvariant, PTL DEF Spec

(***************************************************************************)
(* Recursive functions over the numbers.  An induction is over a set: a    *)
(* set that holds zero, and with each number the next, holds them all.     *)
(***************************************************************************)
LEMMA Climb ==
  ASSUME NEW S, 0 \in S, \A n \in Nat : n \in S => n + 1 \in S
  PROVE  Nat \subseteq S
<1> SUFFICES ASSUME NEW k \in Nat, k \notin S PROVE FALSE
  OBVIOUS
<1> DEFINE T == Nat \ S
           R == OpToRel(<, Nat)
<1>1. R = {ss \in Nat \X Nat : ss[1] < ss[2]}
  BY DEF OpToRel
<1>2. IsWellFoundedOn(R, Nat)
  BY NatLessThanWellFounded
<1> HIDE DEF R
<1>3. PICK n \in T : \A m \in T : <<m, n>> \notin R
  <2>1. T \subseteq Nat /\ T # {}
    OBVIOUS
  <2> QED
    BY <1>2, <2>1, WFMin
<1>4. n # 0 /\ n - 1 \in Nat /\ n - 1 < n
  <2>1. n \in Nat /\ n # 0
    OBVIOUS
  <2> QED
    BY <2>1
<1>5. n - 1 \in S
  BY <1>1, <1>3, <1>4
<1> QED
  BY <1>4, <1>5

\* A step repeated N times from a base.
Repeats(f, N, base, step) ==
  f[0] = base /\ \A n \in 1..N : f[n] = step[n][f[n - 1]]

\* It reaches something.
LEMMA Iterated ==
  ASSUME NEW V, NEW N \in Nat, NEW base \in V, NEW step \in [1..N -> [V -> V]]
  PROVE  \E f \in [0..N -> V] : Repeats(f, N, base, step)
<1> DEFINE S == {k \in Nat : k <= N => \E f \in [0..k -> V] : Repeats(f, k, base, step)}
<1>1. 0 \in S
  <2>1. Repeats([n \in 0..0 |-> base], 0, base, step)
    BY DEF Repeats
  <2> QED
    BY <2>1
<1>2. ASSUME NEW k \in Nat, k \in S PROVE k + 1 \in S
  <2> SUFFICES ASSUME k + 1 <= N
               PROVE  \E f \in [0..(k + 1) -> V] : Repeats(f, k + 1, base, step)
    OBVIOUS
  <2>1. PICK f \in [0..k -> V] : Repeats(f, k, base, step)
    BY <1>2
  <2> DEFINE g == [n \in 0..(k + 1) |-> IF n <= k THEN f[n] ELSE step[k + 1][f[k]]]
  <2>2. f[k] \in V /\ step[k + 1][f[k]] \in V
    OBVIOUS
  <2>3. g \in [0..(k + 1) -> V] /\ g[0] = base
    BY <2>1, <2>2 DEF Repeats
  <2>4. ASSUME NEW n \in 1..(k + 1) PROVE g[n] = step[n][g[n - 1]]
    <3>1. CASE n <= k
      BY <2>1, <3>1 DEF Repeats
    <3>2. CASE n = k + 1
      BY <3>2
    <3> QED
      BY <3>1, <3>2
  <2>5. Repeats(g, k + 1, base, step)
    BY <2>3, <2>4 DEF Repeats
  <2> HIDE DEF g
  <2> QED
    BY <2>3, <2>5
<1> HIDE DEF S
<1>3. N \in S
  BY <1>1, <1>2, Climb
<1> QED
  BY <1>3 DEF S

\* What takes the step wherever the step applies.
Follows(g, N, base, step, V) ==
  g[0] = base /\ \A n \in 1..N : g[n - 1] \in V => g[n] = step[n][g[n - 1]]

\* It reaches it in one way.
LEMMA Determined ==
  ASSUME NEW V, NEW N \in Nat, NEW base \in V, NEW step \in [1..N -> [V -> V]],
         NEW f \in [0..N -> V], Repeats(f, N, base, step),
         NEW g, Follows(g, N, base, step, V)
  PROVE  \A n \in 0..N : g[n] = f[n]
<1> DEFINE S == {n \in Nat : n <= N => g[n] = f[n]}
<1>1. 0 \in S
  BY DEF Repeats, Follows
<1>2. ASSUME NEW n \in Nat, n \in S PROVE n + 1 \in S
  <2> SUFFICES ASSUME n + 1 <= N PROVE g[n + 1] = f[n + 1]
    OBVIOUS
  <2>1. g[n] = f[n] /\ f[n] \in V /\ n + 1 \in 1..N /\ (n + 1) - 1 = n
    BY <1>2
  <2>2. g[n + 1] = step[n + 1][g[n]] /\ f[n + 1] = step[n + 1][f[n]]
    BY <2>1 DEF Repeats, Follows
  <2> QED
    BY <2>1, <2>2
<1>3. Nat \subseteq S
  BY <1>1, <1>2, Climb
<1> QED
  BY <1>3

LEMMA Same ==
  ASSUME NEW V, NEW N \in Nat, NEW base \in V, NEW step \in [1..N -> [V -> V]],
         NEW g, DOMAIN g = 0..N, g = [n \in DOMAIN g |-> g[n]], Follows(g, N, base, step, V)
  PROVE  g \in [0..N -> V] /\ Repeats(g, N, base, step)
<1>1. PICK f \in [0..N -> V] : Repeats(f, N, base, step)
  BY Iterated
<1>2. \A n \in 0..N : g[n] = f[n]
  BY <1>1, Determined
<1>3. g \in [0..N -> V]
  BY <1>2
<1>4. Repeats(g, N, base, step)
  BY <1>2, <1>3 DEF Repeats, Follows
<1> QED
  BY <1>3, <1>4

(***************************************************************************)
(* The lots of a journal.                                                  *)
(***************************************************************************)
LotRows == [purchase : Purchases \union {NoPurchase}, entered : Int, remaining : Int]

LEMMA LotsTyped ==
  ASSUME NEW lots \in Seq(LotRows)
  PROVE  Len(lots) \in Nat /\ \A n \in 1..Len(lots) : lots[n] \in LotRows /\ lots[n].remaining \in Int
<1>1. Len(lots) \in Nat /\ \A n \in 1..Len(lots) : lots[n] \in LotRows
  OBVIOUS
<1> QED
  BY <1>1 DEF LotRows

\* What is left to serve after each lot.
LEMMA LeftToServe ==
  ASSUME NEW lots \in Seq(LotRows), NEW quantity \in Int
  PROVE  LET left == leftToServe(lots, quantity) IN
         /\ left \in [0..Len(lots) -> Int] /\ left[0] = quantity
         /\ \A n \in 1..Len(lots) : left[n] = left[n - 1] - least(lots[n].remaining, left[n - 1])
<1>1. PICK N \in Nat : N = Len(lots)
  BY LotsTyped
<1>2. \A n \in 1..N : lots[n].remaining \in Int
  BY <1>1, LotsTyped
<1>3. PICK V : V = Int
  OBVIOUS
<1>4. PICK step \in [1..N -> [V -> V]] : \A n \in 1..N : \A v \in V :
        step[n][v] = v - least(lots[n].remaining, v)
  <2> DEFINE step == [n \in 1..N |-> [v \in Int |-> v - least(lots[n].remaining, v)]]
  <2>1. step \in [1..N -> [Int -> Int]]
    BY <1>2 DEF least
  <2> QED
    BY <1>3, <2>1
<1>5. quantity \in V
  BY <1>3
<1> DEFINE Is(g) == g = [n \in 0..N |-> IF n = 0 THEN quantity
                                        ELSE g[n - 1] - least(lots[n].remaining, g[n - 1])]
<1>6. PICK f \in [0..N -> V] : Repeats(f, N, quantity, step)
  BY <1>5, Iterated
<1>7. Is(f)
  <2>1. f[0] = quantity /\ \A n \in 1..N : f[n - 1] \in V /\ f[n] = step[n][f[n - 1]]
    BY <1>6 DEF Repeats
  <2>2. \A n \in 1..N : f[n] = f[n - 1] - least(lots[n].remaining, f[n - 1])
    BY <1>4, <2>1
  <2> QED
    BY <2>1, <2>2
<1>8. leftToServe(lots, quantity) = CHOOSE g : Is(g)
  BY <1>1 DEF leftToServe
<1>9. PICK left : left = leftToServe(lots, quantity)
  OBVIOUS
<1>10. Is(left)
  <2> HIDE DEF Is
  <2> QED
    BY <1>7, <1>8, <1>9
<1>11. /\ left[0] = quantity /\ DOMAIN left = 0..N /\ left = [n \in DOMAIN left |-> left[n]]
       /\ \A n \in 1..N : left[n] = left[n - 1] - least(lots[n].remaining, left[n - 1])
  BY <1>10
<1>12. Follows(left, N, quantity, step, V)
  BY <1>4, <1>11 DEF Follows
<1>13. left \in [0..N -> V]
  BY <1>5, <1>11, <1>12, Same
<1> QED
  BY <1>1, <1>3, <1>9, <1>11, <1>13

\* What the first lots hold.
LEMMA RemainingIn ==
  ASSUME NEW lots \in Seq(LotRows)
  PROVE  LET sum == remainingIn(lots) IN
         /\ sum \in [0..Len(lots) -> Int] /\ sum[0] = 0
         /\ \A n \in 1..Len(lots) : sum[n] = sum[n - 1] + lots[n].remaining
<1>1. PICK N \in Nat : N = Len(lots)
  BY LotsTyped
<1>2. \A n \in 1..N : lots[n].remaining \in Int
  BY <1>1, LotsTyped
<1>3. PICK V : V = Int
  OBVIOUS
<1>4. PICK step \in [1..N -> [V -> V]] : \A n \in 1..N : \A v \in V :
        step[n][v] = v + lots[n].remaining
  <2> DEFINE step == [n \in 1..N |-> [v \in Int |-> v + lots[n].remaining]]
  <2>1. step \in [1..N -> [Int -> Int]]
    BY <1>2
  <2> QED
    BY <1>3, <2>1
<1>5. 0 \in V
  BY <1>3
<1> DEFINE Is(g) == g = [n \in 0..N |-> IF n = 0 THEN 0 ELSE g[n - 1] + lots[n].remaining]
<1>6. PICK f \in [0..N -> V] : Repeats(f, N, 0, step)
  BY <1>5, Iterated
<1>7. Is(f)
  <2>1. f[0] = 0 /\ \A n \in 1..N : f[n - 1] \in V /\ f[n] = step[n][f[n - 1]]
    BY <1>6 DEF Repeats
  <2>2. \A n \in 1..N : f[n] = f[n - 1] + lots[n].remaining
    BY <1>4, <2>1
  <2> QED
    BY <2>1, <2>2
<1>8. remainingIn(lots) = CHOOSE g : Is(g)
  BY <1>1 DEF remainingIn
<1>9. PICK sum : sum = remainingIn(lots)
  OBVIOUS
<1>10. Is(sum)
  <2> HIDE DEF Is
  <2> QED
    BY <1>7, <1>8, <1>9
<1>11. /\ sum[0] = 0 /\ DOMAIN sum = 0..N /\ sum = [n \in DOMAIN sum |-> sum[n]]
       /\ \A n \in 1..N : sum[n] = sum[n - 1] + lots[n].remaining
  BY <1>10
<1>12. Follows(sum, N, 0, step, V)
  BY <1>4, <1>11 DEF Follows
<1>13. sum \in [0..N -> V]
  BY <1>5, <1>11, <1>12, Same
<1> QED
  BY <1>1, <1>3, <1>9, <1>11, <1>13

\* Every lot holds something between nothing and what it had, and one is begun
\* only when the older ones are exhausted.
OldestFirst(lots) ==
  /\ \A n \in 1..Len(lots) : 0 <= lots[n].remaining /\ lots[n].remaining <= lots[n].entered
  /\ \A i, k \in 1..Len(lots) :
       i < k /\ lots[k].remaining < lots[k].entered => lots[i].remaining = 0

\* The lots served one after the other, as numbers: what each held, what was left to
\* serve after it, what the first lots held, and what they hold now.
Serves(N, quantity, rem, left, sum, rest) ==
  /\ rem \in [1..N -> Nat] /\ left \in [0..N -> Int] /\ sum \in [0..N -> Int] /\ rest \in [0..N -> Int]
  /\ left[0] = quantity /\ sum[0] = 0 /\ rest[0] = 0
  /\ \A n \in 1..N :
       /\ left[n] = left[n - 1] - least(rem[n], left[n - 1])
       /\ sum[n] = sum[n - 1] + rem[n]
       /\ rest[n] = rest[n - 1] + (rem[n] - (left[n - 1] - left[n]))

\* What there was is served, and the lots before one that is touched are emptied.
EmptiesOldest(N, quantity, rem, left, sum, rest) ==
  /\ quantity <= sum[N] => rest[N] = sum[N] - quantity
  /\ \A n \in 1..N : left[n] <= left[n - 1] /\ left[n - 1] - left[n] <= rem[n]
  /\ \A i, k \in 1..N : i < k /\ left[k] < left[k - 1] => left[i - 1] - left[i] = rem[i]

LEMMA Serving ==
  ASSUME NEW N \in Nat, NEW quantity \in Nat, NEW rem, NEW left, NEW sum, NEW rest,
         Serves(N, quantity, rem, left, sum, rest)
  PROVE  EmptiesOldest(N, quantity, rem, left, sum, rest)
<1>0. /\ rem \in [1..N -> Nat] /\ left \in [0..N -> Int] /\ sum \in [0..N -> Int]
      /\ rest \in [0..N -> Int]
      /\ left[0] = quantity /\ sum[0] = 0 /\ rest[0] = 0
      /\ \A n \in 1..N :
           /\ left[n] = left[n - 1] - least(rem[n], left[n - 1])
           /\ sum[n] = sum[n - 1] + rem[n]
           /\ rest[n] = rest[n - 1] + (rem[n] - (left[n - 1] - left[n]))
  BY DEF Serves
<1>1. ASSUME NEW n \in Nat, n + 1 <= N
      PROVE  /\ n \in 0..N /\ n + 1 \in 1..N /\ (n + 1) - 1 = n
             /\ left[n] \in Int /\ left[n + 1] \in Int /\ rem[n + 1] \in Int /\ rem[n + 1] >= 0
             /\ sum[n] \in Int /\ rest[n] \in Int
             /\ left[n + 1] = left[n] - least(rem[n + 1], left[n])
             /\ sum[n + 1] = sum[n] + rem[n + 1]
             /\ rest[n + 1] = rest[n] + (rem[n + 1] - (left[n] - left[n + 1]))
  <2>1. n \in 0..N /\ n + 1 \in 1..N /\ n + 1 \in 0..N /\ (n + 1) - 1 = n
    BY <1>1
  <2>2. /\ left[n + 1] = left[n] - least(rem[n + 1], left[n])
        /\ sum[n + 1] = sum[n] + rem[n + 1]
        /\ rest[n + 1] = rest[n] + (rem[n + 1] - (left[n] - left[n + 1]))
    BY <1>0, <2>1
  <2>3. rem[n + 1] \in Nat
    BY <1>0, <2>1
  <2> QED
    BY <1>0, <2>1, <2>2, <2>3
<1>8. ASSUME NEW n \in Nat, n + 1 <= N, left[n] >= 0
      PROVE  /\ left[n + 1] >= 0 /\ left[n + 1] <= left[n] /\ left[n] - left[n + 1] <= rem[n + 1]
             /\ left[n + 1] = 0 \/ left[n + 1] = left[n] - rem[n + 1]
             /\ left[n] = 0 => left[n + 1] = 0
             /\ left[n + 1] > 0 => left[n] - left[n + 1] = rem[n + 1]
  <2>1. PICK l \in Int, m \in Int, r \in Int : l = left[n] /\ m = left[n + 1] /\ r = rem[n + 1]
    BY <1>1, <1>8
  <2>2. m = l - (IF r < l THEN r ELSE l) /\ r >= 0 /\ l >= 0
    BY <1>1, <1>8, <2>1 DEF least
  <2>3. /\ m >= 0 /\ m <= l /\ l - m <= r /\ (m = 0 \/ m = l - r)
        /\ (l = 0 => m = 0) /\ (m > 0 => l - m = r)
    BY <2>2
  <2> QED
    BY <2>1, <2>3
<1>2. ASSUME NEW S \in SUBSET Nat, 0 \in S, \A n \in Nat : n + 1 <= N /\ n \in S => n + 1 \in S
      PROVE  \A n \in 0..N : n \in S
  <2> DEFINE T == {n \in Nat : n <= N => n \in S}
  <2>1. 0 \in T
    BY <1>2
  <2>2. ASSUME NEW n \in Nat, n \in T PROVE n + 1 \in T
    BY <1>2, <2>2
  <2> HIDE DEF T
  <2>3. Nat \subseteq T
    BY <2>1, <2>2, Climb
  <2> QED
    BY <2>3 DEF T
<1>3. \A n \in 0..N : left[n] >= 0 /\ (left[n] = 0 \/ left[n] = quantity - sum[n])
                        /\ rest[n] = sum[n] - (quantity - left[n])
  <2> DEFINE Holds(n) == left[n] >= 0 /\ (left[n] = 0 \/ left[n] = quantity - sum[n])
                           /\ rest[n] = sum[n] - (quantity - left[n])
             S == {n \in Nat : Holds(n)}
  <2>1. 0 \in S
    BY <1>0
  <2>2. ASSUME NEW n \in Nat, n + 1 <= N, n \in S PROVE n + 1 \in S
    <3>1. Holds(n)
      BY <2>2
    <3>2. /\ left[n + 1] >= 0 /\ (left[n + 1] = 0 \/ left[n + 1] = left[n] - rem[n + 1])
          /\ (left[n] = 0 => left[n + 1] = 0)
      BY <1>8, <2>2, <3>1
    <3>3. left[n + 1] = 0 \/ left[n + 1] = quantity - sum[n + 1]
      <4>1. PICK l \in Int, m \in Int, r \in Int, s \in Int :
              l = left[n] /\ m = left[n + 1] /\ r = rem[n + 1] /\ s = sum[n]
        BY <1>1, <2>2
      <4>2. /\ l = 0 \/ l = quantity - s
            /\ m = 0 \/ m = l - r
            /\ l = 0 => m = 0
        BY <3>1, <3>2, <4>1
      <4>3. m = 0 \/ m = quantity - (s + r)
        BY <4>2
      <4> QED
        BY <1>1, <2>2, <4>1, <4>3
    <3>4. rest[n + 1] = sum[n + 1] - (quantity - left[n + 1])
      BY <1>1, <2>2, <3>1
    <3> QED
      BY <3>2, <3>3, <3>4
  <2> HIDE DEF S
  <2>3. \A n \in 0..N : n \in S
    <3>1. S \in SUBSET Nat
      BY DEF S
    <3> QED
      BY <1>2, <2>1, <2>2, <3>1
  <2> QED
    BY <2>3 DEF S
<1>4. \A n \in 0..N : left[n] > 0 => \A i \in 0..n : left[i] > 0
  <2> DEFINE S == {n \in Nat : left[n] > 0 => \A i \in 0..n : left[i] > 0}
  <2>1. 0 \in S
    OBVIOUS
  <2>2. ASSUME NEW n \in Nat, n + 1 <= N, n \in S PROVE n + 1 \in S
    <3> SUFFICES ASSUME left[n + 1] > 0 PROVE \A i \in 0..(n + 1) : left[i] > 0
      OBVIOUS
    <3>1. left[n] > 0
      <4>1. left[n] >= 0
        BY <1>1, <1>3, <2>2
      <4>2. left[n + 1] <= left[n]
        BY <1>8, <2>2, <4>1
      <4> QED
        BY <1>1, <2>2, <4>2
    <3>2. \A i \in 0..n : left[i] > 0
      BY <2>2, <3>1
    <3>3. \A i \in 0..(n + 1) : i \in 0..n \/ i = n + 1
      OBVIOUS
    <3> QED
      BY <3>2, <3>3
  <2> HIDE DEF S
  <2>3. \A n \in 0..N : n \in S
    <3>1. S \in SUBSET Nat
      BY DEF S
    <3> QED
      BY <1>2, <2>1, <2>2, <3>1
  <2> QED
    BY <2>3 DEF S
<1>5. ASSUME quantity <= sum[N] PROVE rest[N] = sum[N] - quantity
  <2>1. N \in 0..N /\ sum[N] \in Int /\ left[N] \in Int /\ quantity <= sum[N]
    BY <1>0, <1>5
  <2>2. left[N] = 0
    BY <1>3, <2>1
  <2> QED
    BY <1>3, <2>1, <2>2
<1>6. ASSUME NEW n \in 1..N
      PROVE  /\ left[n - 1] \in Int /\ left[n] \in Int /\ rem[n] \in Int
             /\ left[n - 1] >= 0 /\ left[n] >= 0 /\ left[n] <= left[n - 1]
             /\ left[n - 1] - left[n] <= rem[n]
             /\ left[n] > 0 => left[n - 1] - left[n] = rem[n]
  <2>1. PICK m \in Nat : m = n - 1 /\ n = m + 1 /\ m + 1 <= N
    OBVIOUS
  <2>2. left[m] >= 0
    BY <1>1, <1>3, <2>1
  <2>3. /\ left[m + 1] >= 0 /\ left[m + 1] <= left[m] /\ left[m] - left[m + 1] <= rem[m + 1]
        /\ left[m + 1] > 0 => left[m] - left[m + 1] = rem[m + 1]
    BY <1>8, <2>1, <2>2
  <2> QED
    BY <1>1, <2>1, <2>2, <2>3
<1>7. ASSUME NEW i \in 1..N, NEW k \in 1..N, i < k, left[k] < left[k - 1]
      PROVE  left[i - 1] - left[i] = rem[i]
  <2>1. left[k - 1] > 0 /\ k - 1 \in 0..N /\ i \in 0..(k - 1)
    BY <1>6, <1>7
  <2>2. left[i] > 0
    BY <1>4, <2>1
  <2> QED
    BY <1>6, <2>2
<1> QED
  BY <1>5, <1>6, <1>7 DEF EmptiesOldest

\* What serving writes: each lot gives what is asked of it, or what it has.
LEMMA ServedLots ==
  ASSUME NEW lots \in Seq(LotRows), NEW quantity \in Int
  PROVE  LET served == serve(lots, quantity)
             left == leftToServe(lots, quantity)
         IN
         /\ served \in Seq(LotRows) /\ Len(served) = Len(lots)
         /\ \A n \in 1..Len(lots) :
              /\ served[n].entered = lots[n].entered
              /\ served[n].remaining = lots[n].remaining - (left[n - 1] - left[n])
<1>1. PICK N \in Nat : N = Len(lots) /\ \A n \in 1..N : lots[n] \in LotRows
  BY LotsTyped
<1>2. PICK left \in [0..N -> Int] : left = leftToServe(lots, quantity)
  BY <1>1, LeftToServe
<1>3. PICK served : served = [i \in 1..N |->
                       [lots[i] EXCEPT !.remaining = @ - (left[i - 1] - left[i])]]
  OBVIOUS
<1>4. serve(lots, quantity) = served
  BY <1>1, <1>2, <1>3 DEF serve
<1>5. ASSUME NEW n \in 1..N
      PROVE  /\ served[n] \in LotRows /\ served[n].entered = lots[n].entered
             /\ served[n].remaining = lots[n].remaining - (left[n - 1] - left[n])
  <2>1. PICK row \in LotRows, before \in Int, after \in Int :
          row = lots[n] /\ before = left[n - 1] /\ after = left[n]
    <3>1. n - 1 \in 0..N /\ n \in 0..N
      OBVIOUS
    <3>2. left[n - 1] \in Int /\ left[n] \in Int
      BY <3>1
    <3> QED
      BY <1>1, <3>2
  <2>2. served[n] = [row EXCEPT !.remaining = @ - (before - after)]
    BY <1>3, <2>1
  <2>3. /\ row.entered \in Int /\ row.remaining \in Int
        /\ row.purchase \in Purchases \union {NoPurchase}
        /\ DOMAIN row = {"purchase", "entered", "remaining"}
    BY DEF LotRows
  <2>4. served[n] = [row EXCEPT !.remaining = row.remaining - (before - after)]
    BY <2>2
  <2>5. row.remaining - (before - after) \in Int
    BY <2>3
  <2>6. /\ served[n].entered = row.entered
        /\ served[n].remaining = row.remaining - (before - after)
    BY <2>3, <2>4
  <2>7. served[n] \in LotRows
    BY <2>4, <2>5 DEF LotRows
  <2> QED
    BY <2>1, <2>6, <2>7
<1>6. served \in [1..N -> LotRows]
  BY <1>3, <1>5
<1>7. served \in Seq(LotRows) /\ Len(served) = N
  BY <1>6, SeqDef
<1> QED
  BY <1>1, <1>2, <1>4, <1>5, <1>7

\* Serving takes from the oldest lots, and no more than there is can be served.
LEMMA Served ==
  ASSUME NEW lots \in Seq(LotRows), OldestFirst(lots), NEW quantity \in Nat
  PROVE  /\ OldestFirst(serve(lots, quantity))
         /\ quantity <= sumOf(lots) => sumOf(serve(lots, quantity)) = sumOf(lots) - quantity
<1>1. PICK N \in Nat : N = Len(lots) /\ \A n \in 1..N : lots[n] \in LotRows
  BY LotsTyped
<1>0. quantity \in Int
  OBVIOUS
<1>2. PICK left \in [0..N -> Int] :
        /\ left = leftToServe(lots, quantity) /\ left[0] = quantity
        /\ \A n \in 1..N : left[n] = left[n - 1] - least(lots[n].remaining, left[n - 1])
  BY <1>0, <1>1, LeftToServe
<1>3. PICK sum \in [0..N -> Int] :
        /\ sum[N] = sumOf(lots) /\ sum[0] = 0
        /\ \A n \in 1..N : sum[n] = sum[n - 1] + lots[n].remaining
  BY <1>1, RemainingIn DEF sumOf
<1>4. PICK served : served = serve(lots, quantity)
  OBVIOUS
<1>5. /\ served \in Seq(LotRows) /\ Len(served) = N
      /\ \A n \in 1..N : /\ served[n].entered = lots[n].entered
                         /\ served[n].remaining = lots[n].remaining - (left[n - 1] - left[n])
  <2>1. N = Len(lots)
    BY <1>1
  <2>2. /\ serve(lots, quantity) \in Seq(LotRows) /\ Len(serve(lots, quantity)) = Len(lots)
        /\ \A n \in 1..Len(lots) :
             /\ serve(lots, quantity)[n].entered = lots[n].entered
             /\ serve(lots, quantity)[n].remaining = lots[n].remaining
                  - (leftToServe(lots, quantity)[n - 1] - leftToServe(lots, quantity)[n])
    BY <1>0, ServedLots, Zenon
  <2>3. left = leftToServe(lots, quantity)
    BY <1>2
  <2> QED
    BY <1>4, <2>1, <2>2, <2>3, Zenon
<1>6. PICK rest \in [0..N -> Int] :
        /\ rest[N] = sumOf(served) /\ rest[0] = 0
        /\ \A n \in 1..N : rest[n] = rest[n - 1] + served[n].remaining
  BY <1>5, RemainingIn DEF sumOf
<1>7. PICK rem \in [1..N -> Nat] : \A n \in 1..N :
        lots[n].remaining = rem[n] /\ rem[n] <= lots[n].entered /\ lots[n].entered \in Int
  <2>1. \A n \in 1..N : lots[n].remaining \in Nat /\ lots[n].entered \in Int
                          /\ lots[n].remaining <= lots[n].entered
    BY <1>1 DEF LotRows, OldestFirst
  <2> DEFINE rem == [n \in 1..N |-> lots[n].remaining]
  <2>2. rem \in [1..N -> Nat] /\ \A n \in 1..N : lots[n].remaining = rem[n]
    BY <2>1
  <2> HIDE DEF rem
  <2> QED
    BY <2>1, <2>2
<1>8. Serves(N, quantity, rem, left, sum, rest)
  <2>1. \A n \in 1..N : left[n] = left[n - 1] - least(rem[n], left[n - 1])
    BY <1>2, <1>7
  <2>2. \A n \in 1..N : sum[n] = sum[n - 1] + rem[n]
    BY <1>3, <1>7
  <2>3. \A n \in 1..N : rest[n] = rest[n - 1] + (rem[n] - (left[n - 1] - left[n]))
    BY <1>5, <1>6, <1>7
  <2> QED
    BY <1>2, <1>3, <1>6, <1>7, <2>1, <2>2, <2>3 DEF Serves
<1>9. /\ quantity <= sum[N] => rest[N] = sum[N] - quantity
      /\ \A n \in 1..N : left[n] <= left[n - 1] /\ left[n - 1] - left[n] <= rem[n]
      /\ \A i, k \in 1..N : i < k /\ left[k] < left[k - 1] => left[i - 1] - left[i] = rem[i]
  <2>1. EmptiesOldest(N, quantity, rem, left, sum, rest)
    BY <1>8, Serving
  <2> QED
    BY <2>1 DEF EmptiesOldest
<1>10. quantity <= sumOf(lots) => sumOf(served) = sumOf(lots) - quantity
  BY <1>3, <1>6, <1>9
<1>11. ASSUME NEW n \in 1..N
       PROVE  \E before, after, held, size, has \in Int :
                /\ before = left[n - 1] /\ after = left[n] /\ held = rem[n] /\ size = lots[n].entered
                /\ has = served[n].remaining /\ served[n].entered = size
                /\ has = held - (before - after) /\ after <= before /\ before - after <= held
                /\ held >= 0 /\ held <= size
  <2>1. n - 1 \in 0..N /\ n \in 0..N
    OBVIOUS
  <2>2. left[n - 1] \in Int /\ left[n] \in Int /\ rem[n] \in Nat
    BY <2>1
  <2>3. served[n].remaining = rem[n] - (left[n - 1] - left[n]) /\ lots[n].entered \in Int
          /\ served[n].entered = lots[n].entered /\ rem[n] <= lots[n].entered
    BY <1>5, <1>7
  <2>4. left[n] <= left[n - 1] /\ left[n - 1] - left[n] <= rem[n]
    BY <1>9
  <2>5. served[n].remaining \in Int
    BY <2>2, <2>3
  <2>6. PICK before \in Int, after \in Int : before = left[n - 1] /\ after = left[n]
    BY <2>2
  <2>7. PICK held \in Int : held = rem[n]
    BY <2>2
  <2>8. PICK size \in Int : size = lots[n].entered
    BY <2>3
  <2>9. PICK has \in Int : has = served[n].remaining
    BY <2>5
  <2>10. /\ served[n].entered = size /\ has = held - (before - after) /\ after <= before
        /\ before - after <= held /\ held >= 0 /\ held <= size
    BY <2>2, <2>3, <2>4, <2>6, <2>7, <2>8, <2>9
  <2> QED
    BY <2>6, <2>7, <2>8, <2>9, <2>10
<1>12. ASSUME NEW n \in 1..N
       PROVE  0 <= served[n].remaining /\ served[n].remaining <= served[n].entered
  <2>1. PICK before, after, held, size, has \in Int :
          /\ has = served[n].remaining /\ served[n].entered = size
          /\ has = held - (before - after) /\ after <= before /\ before - after <= held
          /\ held <= size
    BY <1>11
  <2>2. /\ has = held - (before - after) /\ after <= before /\ before - after <= held
        /\ held <= size
    BY <2>1
  <2>3. 0 <= has /\ has <= size
    BY <2>2
  <2> QED
    BY <2>1, <2>3
<1>13. ASSUME NEW i \in 1..N, NEW k \in 1..N, i < k, served[k].remaining < served[k].entered
       PROVE  served[i].remaining = 0
  <2>1. PICK before, after, held, size, has \in Int :
          /\ before = left[k - 1] /\ after = left[k] /\ held = rem[k] /\ size = lots[k].entered
          /\ has = served[k].remaining /\ served[k].entered = size
          /\ has = held - (before - after) /\ after <= before /\ before - after <= held
          /\ held >= 0 /\ held <= size
    BY <1>11
  <2>2. held < size \/ after < before
    <3>1. has < size
      BY <1>13, <2>1
    <3>2. has = held - (before - after) /\ after <= before
      BY <2>1
    <3> QED
      BY <3>1, <3>2
  <2>3. PICK b, a, h \in Int : b = left[i - 1] /\ a = left[i] /\ h = rem[i]
          /\ served[i].remaining = h - (b - a) /\ a <= b /\ b - a <= h
    BY <1>11
  <2>4. CASE held < size
    <3>1. lots[i].remaining = 0
      BY <1>1, <1>7, <1>13, <2>1, <2>4 DEF OldestFirst
    <3>2. h = 0
      BY <1>7, <2>3, <3>1
    <3>3. h - (b - a) = 0
      <4>1. a <= b /\ b - a <= h
        BY <2>3
      <4> QED
        BY <3>2, <4>1
    <3> QED
      BY <2>3, <3>3
  <2>5. CASE after < before
    <3>1. left[k] < left[k - 1]
      BY <2>1, <2>5
    <3>2. b - a = h
      BY <1>9, <1>13, <2>3, <3>1
    <3>3. h - (b - a) = 0
      BY <3>2
    <3> QED
      BY <2>3, <3>3
  <2> QED
    BY <2>2, <2>4, <2>5
<1>14. OldestFirst(served)
  BY <1>5, <1>12, <1>13 DEF OldestFirst
<1> QED
  BY <1>4, <1>10, <1>14

\* A lot more.
LEMMA Opened ==
  ASSUME NEW lots \in Seq(LotRows), NEW lot \in LotRows
  PROVE  /\ Append(lots, lot) \in Seq(LotRows)
         /\ sumOf(Append(lots, lot)) = sumOf(lots) + lot.remaining
         /\ OldestFirst(lots) /\ lot.remaining = lot.entered /\ lot.remaining >= 0
              => OldestFirst(Append(lots, lot))
<1>1. PICK N \in Nat : N = Len(lots) /\ \A n \in 1..N : lots[n] \in LotRows
  BY LotsTyped
<1>0. PICK more : more = Append(lots, lot)
  OBVIOUS
<1>2. /\ more \in Seq(LotRows) /\ more = Append(lots, lot)
      /\ Len(more) = N + 1 /\ more[N + 1] = lot
      /\ \A n \in 1..N : more[n] = lots[n]
  BY <1>0, <1>1
<1>3. PICK sum \in [0..N -> Int] :
        /\ sum[N] = sumOf(lots) /\ sum[0] = 0
        /\ \A n \in 1..N : sum[n] = sum[n - 1] + lots[n].remaining
  BY <1>1, RemainingIn DEF sumOf
<1>4. PICK all \in [0..(N + 1) -> Int] :
        /\ all[N + 1] = sumOf(more) /\ all[0] = 0
        /\ \A n \in 1..(N + 1) : all[n] = all[n - 1] + more[n].remaining
  <2>1. PICK M \in Nat : M = N + 1 /\ Len(more) = M /\ more \in Seq(LotRows)
    BY <1>2
  <2>2. \E all \in [0..M -> Int] :
          /\ all[M] = sumOf(more) /\ all[0] = 0
          /\ \A n \in 1..M : all[n] = all[n - 1] + more[n].remaining
    BY <2>1, RemainingIn DEF sumOf
  <2> QED
    BY <2>1, <2>2
<1>5. all[N] = sum[N]
  <2> DEFINE S == {n \in Nat : n <= N => all[n] = sum[n]}
  <2>1. 0 \in S
    BY <1>3, <1>4
  <2>2. ASSUME NEW n \in Nat, n \in S PROVE n + 1 \in S
    <3> SUFFICES ASSUME n + 1 <= N PROVE all[n + 1] = sum[n + 1]
      OBVIOUS
    <3>1. n + 1 \in 1..N /\ n + 1 \in 1..(N + 1) /\ (n + 1) - 1 = n /\ all[n] = sum[n]
      BY <2>2
    <3> QED
      BY <1>2, <1>3, <1>4, <3>1
  <2> HIDE DEF S
  <2>3. Nat \subseteq S
    BY <2>1, <2>2, Climb
  <2> QED
    BY <2>3 DEF S
<1>6. sumOf(more) = sumOf(lots) + lot.remaining
  <2>1. N + 1 \in 1..(N + 1) /\ (N + 1) - 1 = N
    OBVIOUS
  <2> QED
    BY <1>2, <1>3, <1>4, <1>5, <2>1
<1>7. ASSUME OldestFirst(lots), lot.remaining = lot.entered, lot.remaining >= 0
      PROVE  OldestFirst(more)
  <2>1. lot.remaining \in Int /\ lot.entered \in Int
    BY DEF LotRows
  <2>2. ASSUME NEW n \in 1..(N + 1)
        PROVE  0 <= more[n].remaining /\ more[n].remaining <= more[n].entered
    <3>1. CASE n = N + 1
      BY <1>2, <1>7, <2>1, <3>1
    <3>2. CASE n # N + 1
      <4>1. n \in 1..N
        BY <3>2
      <4> QED
        BY <1>1, <1>2, <1>7, <4>1 DEF OldestFirst
    <3> QED
      BY <3>1, <3>2
  <2>3. ASSUME NEW i \in 1..(N + 1), NEW k \in 1..(N + 1), i < k,
               more[k].remaining < more[k].entered
        PROVE  more[i].remaining = 0
    <3>1. ASSUME k = N + 1 PROVE FALSE
      <4>1. more[k] = lot
        BY <1>2, <3>1
      <4> QED
        BY <1>7, <2>1, <2>3, <4>1
    <3>2. i \in 1..N /\ k \in 1..N
      <4>1. i < k /\ k # N + 1
        BY <2>3, <3>1
      <4> QED
        BY <4>1
    <3> QED
      BY <1>1, <1>2, <1>7, <2>3, <3>2 DEF OldestFirst
  <2> QED
    BY <1>2, <2>2, <2>3 DEF OldestFirst
<1> QED
  BY <1>2, <1>6, <1>7

\* A movement replayed on lots, whatever it is.
LEMMA ReplayedLots ==
  ASSUME NEW lots \in Seq(LotRows), NEW before \in Int, NEW movement \in Movements
  PROVE  replayed(lots, before, movement) \in Seq(LotRows)
<1>1. /\ movement.quantity \in Int /\ movement.after \in Int /\ movement.type \in MovementTypes
      /\ movement.purchase \in Purchases \union {NoPurchase}
  BY DEF Movements
<1>2. \A q \in Int : \A p \in Purchases \union {NoPurchase} : Lot(p, q) \in LotRows
  BY DEF Lot, LotRows
<1>3. \A q \in Int : serve(lots, q) \in Seq(LotRows)
  BY ServedLots
<1>4. \A q \in Int : \A p \in Purchases \union {NoPurchase} : Append(lots, Lot(p, q)) \in Seq(LotRows)
  BY <1>2, Opened
<1>5. CASE movement.type = "IN"
  BY <1>1, <1>4, <1>5 DEF replayed
<1>6. CASE movement.type = "OUT"
  BY <1>1, <1>3, <1>6 DEF replayed
<1>7. CASE movement.type = "ADJUSTMENT"
  <2>1. /\ before - movement.after \in Int /\ movement.after - before \in Int
        /\ NoPurchase \in Purchases \union {NoPurchase}
    BY <1>1
  <2>2. replayed(lots, before, movement) = IF movement.after > before
           THEN Append(lots, Lot(NoPurchase, movement.after - before))
           ELSE serve(lots, before - movement.after)
    BY <1>7 DEF replayed
  <2> QED
    BY <1>3, <1>4, <2>1, <2>2
<1> QED
  BY <1>1, <1>5, <1>6, <1>7 DEF MovementTypes

\* What a movement adds to the reserve.
LEMMA EffectIs ==
  ASSUME NEW before \in Int, NEW movement \in Movements
  PROVE  /\ effect(before, movement) \in Int
         /\ justified(before, movement) => before + effect(before, movement) = movement.after
         /\ movement.type # "ADJUSTMENT" => effect(before, movement) = effect(0, movement)
<1>1. /\ movement.quantity \in Int /\ movement.after \in Int /\ movement.type \in MovementTypes
  BY DEF Movements
<1>2. CASE movement.type = "IN"
  BY <1>1, <1>2 DEF effect, justified
<1>3. CASE movement.type = "OUT"
  BY <1>1, <1>3 DEF effect, justified
<1>4. CASE movement.type = "ADJUSTMENT"
  BY <1>1, <1>4 DEF effect, justified
<1> QED
  BY <1>1, <1>2, <1>3, <1>4 DEF MovementTypes

\* A movement replayed on lots adds to them what it adds to the reserve, where there
\* is enough of them.
LEMMA Replayed ==
  ASSUME NEW lots \in Seq(LotRows), OldestFirst(lots), NEW before \in Int,
         NEW movement \in Movements
  PROVE  LET next == replayed(lots, before, movement)
             level == sumOf(lots) + effect(before, movement)
         IN OldestFirst(next) /\ (level >= 0 => sumOf(next) = level)
<1>1. /\ movement.quantity \in Nat /\ movement.after \in Int /\ movement.type \in MovementTypes
      /\ movement.purchase \in Purchases \union {NoPurchase}
  BY DEF Movements
<1>0. PICK sum \in Int : sum = sumOf(lots)
  BY LotsTyped, RemainingIn DEF sumOf
<1>2. ASSUME NEW q \in Nat, NEW p \in Purchases \union {NoPurchase}
      PROVE  OldestFirst(Append(lots, Lot(p, q))) /\ sumOf(Append(lots, Lot(p, q))) = sum + q
  <2>1. Lot(p, q) \in LotRows /\ Lot(p, q).remaining = q /\ Lot(p, q).entered = q
    BY DEF Lot, LotRows
  <2> QED
    BY <1>0, <2>1, Opened
<1>3. CASE movement.type = "IN"
  <2>1. replayed(lots, before, movement) = Append(lots, Lot(movement.purchase, movement.quantity))
    BY <1>3 DEF replayed
  <2>2. effect(before, movement) = movement.quantity
    BY <1>3 DEF effect
  <2> QED
    BY <1>0, <1>1, <1>2, <2>1, <2>2
<1>4. CASE movement.type = "OUT"
  <2>1. replayed(lots, before, movement) = serve(lots, movement.quantity)
    BY <1>4 DEF replayed
  <2>2. effect(before, movement) = - movement.quantity
    BY <1>4 DEF effect
  <2>3. /\ OldestFirst(serve(lots, movement.quantity))
        /\ movement.quantity <= sum
             => sumOf(serve(lots, movement.quantity)) = sum - movement.quantity
    BY <1>0, <1>1, Served
  <2>4. sum + (- movement.quantity) >= 0 => movement.quantity <= sum
    BY <1>1
  <2>5. sum + (- movement.quantity) = sum - movement.quantity
    BY <1>1
  <2> QED
    BY <1>0, <2>1, <2>2, <2>3, <2>4, <2>5
<1>5. CASE movement.type = "ADJUSTMENT" /\ movement.after > before
  <2>1. replayed(lots, before, movement) = Append(lots, Lot(NoPurchase, movement.after - before))
    BY <1>5 DEF replayed
  <2>2. effect(before, movement) = movement.after - before /\ movement.after - before \in Nat
    BY <1>1, <1>5 DEF effect
  <2> QED
    BY <1>0, <1>2, <2>1, <2>2
<1>6. CASE movement.type = "ADJUSTMENT" /\ ~ (movement.after > before)
  <2>1. replayed(lots, before, movement) = serve(lots, before - movement.after)
    BY <1>6 DEF replayed
  <2>2. PICK q \in Nat : q = before - movement.after
    BY <1>1, <1>6
  <2>3. effect(before, movement) = - q
    <3>1. effect(before, movement) = movement.after - before
      BY <1>6 DEF effect
    <3> QED
      BY <1>1, <2>2, <3>1
  <2>4. OldestFirst(serve(lots, q)) /\ (q <= sum => sumOf(serve(lots, q)) = sum - q)
    BY <1>0, <2>2, Served
  <2>5. (sum + (- q) >= 0 => q <= sum) /\ sum + (- q) = sum - q
    OBVIOUS
  <2> QED
    BY <1>0, <2>1, <2>2, <2>3, <2>4, <2>5
<1> QED
  BY <1>1, <1>3, <1>4, <1>5, <1>6 DEF MovementTypes

(***************************************************************************)
(* The movements in the order of their dates.                              *)
(***************************************************************************)
\* A set of naturals that is not empty has a least element.
LEMMA Least ==
  ASSUME NEW S \in SUBSET Nat, S # {}
  PROVE  \E n \in S : \A m \in S : n <= m
<1> DEFINE T == {n \in Nat : \A m \in S : n <= m}
<1> SUFFICES ASSUME \A n \in S : n \notin T PROVE FALSE
  OBVIOUS
<1>1. 0 \in T
  OBVIOUS
<1>2. ASSUME NEW n \in Nat, n \in T PROVE n + 1 \in T
  <2>1. n \notin S
    BY <1>2
  <2> QED
    BY <1>2, <2>1
<1>3. PICK k : k \in S
  OBVIOUS
<1> HIDE DEF T
<1>4. k + 1 \in T
  BY <1>1, <1>2, <1>3, Climb
<1> QED
  BY <1>3, <1>4 DEF T

LEMMA BeforeIsInt ==
  ASSUME NEW s \in Seq(Movements), NEW n \in 1..(Len(s) + 1)
  PROVE  quantityBefore(s, n) \in Int
<1>1. CASE n = 1
  BY <1>1 DEF quantityBefore
<1>2. CASE n # 1
  <2>1. n - 1 \in 1..Len(s)
    BY <1>2
  <2>2. s[n - 1] \in Movements
    BY <2>1
  <2>3. s[n - 1].after \in Int
    BY <2>2 DEF Movements
  <2> QED
    BY <1>2, <2>3 DEF quantityBefore
<1> QED
  BY <1>1, <1>2

\* What the movements add up to.
LEMMA Levels ==
  ASSUME NEW s \in Seq(Movements)
  PROVE  LET level == levels(s) IN
         /\ level \in [0..Len(s) -> Int] /\ level[0] = 0
         /\ \A n \in 1..Len(s) : level[n] = level[n - 1] + effect(quantityBefore(s, n), s[n])
<1>1. PICK N \in Nat : N = Len(s) /\ \A n \in 1..N : s[n] \in Movements
  OBVIOUS
<1>2. PICK adds \in [1..N -> Int] : \A n \in 1..N : adds[n] = effect(quantityBefore(s, n), s[n])
  <2> DEFINE adds == [n \in 1..N |-> effect(quantityBefore(s, n), s[n])]
  <2>1. ASSUME NEW n \in 1..N PROVE effect(quantityBefore(s, n), s[n]) \in Int
    <3>1. n \in 1..(Len(s) + 1)
      BY <1>1
    <3> QED
      BY <1>1, <3>1, BeforeIsInt, EffectIs
  <2>2. adds \in [1..N -> Int] /\ \A n \in 1..N : adds[n] = effect(quantityBefore(s, n), s[n])
    BY <2>1
  <2> HIDE DEF adds
  <2> QED
    BY <2>2
<1>3. PICK V : V = Int
  OBVIOUS
<1>4. PICK step \in [1..N -> [V -> V]] : \A n \in 1..N : \A v \in V : step[n][v] = v + adds[n]
  <2> DEFINE step == [n \in 1..N |-> [v \in Int |-> v + adds[n]]]
  <2>1. step \in [1..N -> [Int -> Int]]
    OBVIOUS
  <2> QED
    BY <1>3, <2>1
<1>5. 0 \in V
  BY <1>3
<1> DEFINE Is(g) == g = [n \in 0..N |-> IF n = 0 THEN 0
                                        ELSE g[n - 1] + effect(quantityBefore(s, n), s[n])]
<1>6. PICK f \in [0..N -> V] : Repeats(f, N, 0, step)
  BY <1>5, Iterated
<1>7. Is(f)
  <2>1. f[0] = 0 /\ \A n \in 1..N : f[n - 1] \in V /\ f[n] = step[n][f[n - 1]]
    BY <1>6 DEF Repeats
  <2>2. \A n \in 1..N : f[n] = f[n - 1] + effect(quantityBefore(s, n), s[n])
    BY <1>2, <1>4, <2>1
  <2> QED
    BY <2>1, <2>2
<1>8. levels(s) = CHOOSE g : Is(g)
  BY <1>1 DEF levels
<1>9. PICK level : level = levels(s)
  OBVIOUS
<1>10. Is(level)
  <2> HIDE DEF Is
  <2> QED
    BY <1>7, <1>8, <1>9
<1>11. /\ level[0] = 0 /\ DOMAIN level = 0..N /\ level = [n \in DOMAIN level |-> level[n]]
       /\ \A n \in 1..N : level[n] = level[n - 1] + effect(quantityBefore(s, n), s[n])
  <2>1. level[0] = 0 /\ DOMAIN level = 0..N
    BY <1>10
  <2>2. level = [n \in DOMAIN level |-> level[n]]
    BY <1>10, Zenon
  <2>3. ASSUME NEW n \in 1..N
        PROVE  level[n] = level[n - 1] + effect(quantityBefore(s, n), s[n])
    <3>1. n \in 0..N /\ n # 0
      OBVIOUS
    <3>2. level[n] = IF n = 0 THEN 0
                     ELSE level[n - 1] + effect(quantityBefore(s, n), s[n])
      BY <1>10, <3>1, Zenon
    <3> QED
      BY <3>1, <3>2
  <2> QED
    BY <2>1, <2>2, <2>3
<1>12. Follows(level, N, 0, step, V)
  BY <1>2, <1>4, <1>11 DEF Follows
<1>13. level \in [0..N -> V]
  BY <1>5, <1>11, <1>12, Same
<1> QED
  BY <1>1, <1>3, <1>9, <1>11, <1>13

\* Each of them at its place, m at place k.
Inserted(s, m, k, longer) ==
  /\ longer \in Seq(Movements) /\ Len(longer) = Len(s) + 1
  /\ \A n \in 1..(Len(s) + 1) :
       longer[n] = IF n < k THEN s[n] ELSE IF n = k THEN m ELSE s[n - 1]

LEMMA InsertedAt ==
  ASSUME NEW s \in Seq(Movements), NEW m \in Movements, NEW k \in 1..Len(s)
  PROVE  Inserted(s, m, k, InsertAt(s, k, m))
<1>1. PICK N \in Nat : N = Len(s) /\ \A n \in 1..N : s[n] \in Movements
  OBVIOUS
<1>2. PICK before \in Seq(Movements) :
        /\ before = SubSeq(s, 1, k - 1) /\ Len(before) = k - 1
        /\ \A n \in 1..(k - 1) : before[n] = s[n]
  <2>1. PICK h \in Nat : h = k - 1 /\ \A n \in 1..h : s[n] \in Movements
    BY <1>1
  <2>2. /\ SubSeq(s, 1, h) \in Seq(Movements)
        /\ Len(SubSeq(s, 1, h)) = IF 1 <= h THEN h - 1 + 1 ELSE 0
        /\ \A n \in 1..(h - 1 + 1) : SubSeq(s, 1, h)[n] = s[1 + n - 1]
    BY <2>1, SubSeqProperties
  <2>3. /\ Len(SubSeq(s, 1, h)) = h
        /\ \A n \in 1..h : n \in 1..(h - 1 + 1) /\ 1 + n - 1 = n
    BY <2>2
  <2>4. \A n \in 1..h : SubSeq(s, 1, h)[n] = s[n]
    BY <2>2, <2>3
  <2> QED
    BY <2>1, <2>2, <2>3, <2>4
<1>3. PICK after \in Seq(Movements) :
        /\ after = SubSeq(s, k, N) /\ Len(after) = N - k + 1
        /\ \A n \in 1..(N - k + 1) : after[n] = s[k + n - 1]
  <2>1. \A n \in k..N : s[n] \in Movements
    BY <1>1
  <2>2. k \in Int /\ N \in Int /\ k <= N
    BY <1>1
  <2>3. /\ SubSeq(s, k, N) \in Seq(Movements)
        /\ Len(SubSeq(s, k, N)) = IF k <= N THEN N - k + 1 ELSE 0
        /\ \A n \in 1..(N - k + 1) : SubSeq(s, k, N)[n] = s[k + n - 1]
    BY <2>1, <2>2, SubSeqProperties
  <2> QED
    BY <2>2, <2>3
<1>4. PICK front \in Seq(Movements) :
        /\ front = before \o <<m>> /\ Len(front) = k
        /\ front[k] = m /\ \A n \in 1..(k - 1) : front[n] = s[n]
  <2>1. PICK front : front = before \o <<m>>
    OBVIOUS
  <2>2. front \in Seq(Movements) /\ Len(front) = k
    BY <1>2, <2>1
  <2>3. front[k] = m
    BY <1>2, <2>1
  <2>4. \A n \in 1..(k - 1) : front[n] = s[n]
    BY <1>2, <2>1
  <2> QED
    BY <2>1, <2>2, <2>3, <2>4
<1>5. PICK longer : longer = front \o after
  OBVIOUS
<1>6. InsertAt(s, k, m) = longer
  <2>1. InsertAt(s, k, m) = (SubSeq(s, 1, k - 1) \o <<m>>) \o SubSeq(s, k, Len(s))
    BY Zenon DEF InsertAt
  <2> QED
    BY <1>1, <1>2, <1>3, <1>4, <1>5, <2>1, Zenon
<1>7. longer \in Seq(Movements) /\ Len(longer) = N + 1
  BY <1>1, <1>3, <1>4, <1>5
<1>8. ASSUME NEW n \in 1..(N + 1)
      PROVE  longer[n] = IF n < k THEN s[n] ELSE IF n = k THEN m ELSE s[n - 1]
  <2>1. CASE n <= k
    <3>1. longer[n] = front[n]
      BY <1>3, <1>4, <1>5, <2>1
    <3>2. CASE n = k
      BY <1>4, <3>1, <3>2
    <3>3. CASE n # k
      <4>1. n < k /\ n \in 1..(k - 1)
        BY <2>1, <3>3
      <4> QED
        BY <1>4, <3>1, <4>1
    <3> QED
      BY <3>2, <3>3
  <2>2. CASE n > k
    <3>1. n - k \in 1..(N - k + 1) /\ k + (n - k) - 1 = n - 1 /\ ~ (n < k) /\ n # k
      BY <1>1, <2>2
    <3>2. longer[n] = after[n - k]
      <4>1. n \in 1..(Len(front) + Len(after)) /\ ~ (n <= Len(front)) /\ n - Len(front) = n - k
        <5>1. Len(front) = k /\ Len(after) = N - k + 1
          BY <1>3, <1>4
        <5>2. k \in 1..N
          BY <1>1
        <5>3. Len(front) + Len(after) = N + 1
          BY <5>1, <5>2
        <5> QED
          BY <2>2, <5>1, <5>2, <5>3
      <4>2. \A i \in 1..(Len(front) + Len(after)) :
              (front \o after)[i] = IF i <= Len(front) THEN front[i] ELSE after[i - Len(front)]
        BY ConcatProperties
      <4>3. longer[n] = after[n - Len(front)]
        BY <1>5, <4>1, <4>2
      <4> QED
        BY <4>1, <4>3
    <3>3. after[n - k] = s[k + (n - k) - 1]
      BY <1>3, <3>1
    <3> QED
      BY <3>1, <3>2, <3>3
  <2> QED
    BY <2>1, <2>2
<1> QED
  BY <1>1, <1>6, <1>7, <1>8 DEF Inserted

\* A movement is put somewhere among those that were there, and at the end when none
\* of them is later.
LEMMA Placed ==
  ASSUME NEW s \in Seq(Movements), NEW m \in Movements
  PROVE  /\ \E k \in 1..(Len(s) + 1) : Inserted(s, m, k, placed(s, m))
         /\ (\A n \in 1..Len(s) : s[n].occurredAt <= m.occurredAt) => placed(s, m) = Append(s, m)
<1> DEFINE later == {n \in 1..Len(s) : s[n].occurredAt > m.occurredAt}
<1>1. m.occurredAt \in Nat /\ \A n \in 1..Len(s) : s[n].occurredAt \in Nat
  <2>1. \A n \in 1..Len(s) : s[n] \in Movements
    OBVIOUS
  <2>2. \A x \in Movements : x.occurredAt \in Nat
    BY DEF Movements
  <2> QED
    BY <2>1, <2>2
<1>2. CASE later = {}
  <2>1. placed(s, m) = Append(s, m)
    BY <1>2 DEF placed
  <2>2. Inserted(s, m, Len(s) + 1, Append(s, m))
    BY DEF Inserted
  <2>3. Len(s) + 1 \in 1..(Len(s) + 1)
    OBVIOUS
  <2> QED
    BY <2>1, <2>2, <2>3
<1>3. CASE later # {}
  <2>1. placed(s, m) = InsertAt(s, Min(later), m)
    BY <1>3 DEF placed
  <2>2. Min(later) \in later
    <3>1. later \in SUBSET Nat
      OBVIOUS
    <3> HIDE DEF later
    <3>2. \E n \in later : \A i \in later : n <= i
      BY <1>3, <3>1, Least
    <3> QED
      BY <3>2 DEF Min
  <2>3. Min(later) \in 1..Len(s) /\ Min(later) \in 1..(Len(s) + 1)
    BY <2>2
  <2>4. Inserted(s, m, Min(later), placed(s, m))
    BY <2>1, <2>3, InsertedAt
  <2>5. ~ \A n \in 1..Len(s) : s[n].occurredAt <= m.occurredAt
    BY <1>1, <1>3
  <2> QED
    BY <2>3, <2>4, <2>5
<1> QED
  BY <1>2, <1>3

\* What is added somewhere is added in all.
LEMMA Inserting ==
  ASSUME NEW N \in Nat, NEW k \in 1..(N + 1), NEW more \in Int, NEW adds \in [1..N -> Int],
         NEW level \in [0..N -> Int], level[0] = 0,
         \A n \in 1..N : level[n] = level[n - 1] + adds[n],
         NEW after \in [0..(N + 1) -> Int], after[0] = 0,
         \A n \in 1..(N + 1) : after[n] = after[n - 1]
           + (IF n < k THEN adds[n] ELSE IF n = k THEN more ELSE adds[n - 1])
  PROVE  after[N + 1] = level[N] + more
<1> DEFINE Holds(n) == /\ n < k => after[n] = level[n]
                       /\ n >= k => after[n] = level[n - 1] + more
           S == {n \in Nat : n <= N + 1 => Holds(n)}
<1>1. 0 \in S
  OBVIOUS
<1>2. ASSUME NEW n \in Nat, n \in S PROVE n + 1 \in S
  <2> SUFFICES ASSUME n + 1 <= N + 1 PROVE Holds(n + 1)
    OBVIOUS
  <2>1. /\ n + 1 \in 1..(N + 1) /\ n \in 0..(N + 1) /\ n \in 0..N /\ (n + 1) - 1 = n /\ Holds(n)
    BY <1>2
  <2>2. after[n + 1] = after[n] + (IF n + 1 < k THEN adds[n + 1]
                                   ELSE IF n + 1 = k THEN more ELSE adds[n])
    BY <2>1
  <2>3. after[n] \in Int /\ level[n] \in Int
    BY <2>1
  <2>4. CASE n + 1 < k
    <3>1. n + 1 \in 1..N /\ level[n + 1] = level[n] + adds[n + 1] /\ after[n] = level[n]
      BY <2>1, <2>4
    <3> QED
      BY <2>2, <2>4, <3>1
  <2>5. CASE n + 1 = k
    <3>1. after[n] = level[n]
      BY <2>1, <2>5
    <3> QED
      BY <2>1, <2>2, <2>3, <2>5, <3>1
  <2>6. CASE n + 1 > k
    <3>1. n \in 1..N /\ n - 1 \in 0..N /\ after[n] = level[n - 1] + more
      BY <2>1, <2>6
    <3>2. level[n] = level[n - 1] + adds[n] /\ adds[n] \in Int /\ level[n - 1] \in Int
      BY <3>1
    <3>3. after[n + 1] = after[n] + adds[n]
      BY <2>2, <2>6
    <3>4. after[n + 1] = level[n] + more
      BY <3>1, <3>2, <3>3
    <3> QED
      BY <2>1, <2>6, <3>4
  <2> QED
    BY <2>1, <2>4, <2>5, <2>6
<1> HIDE DEF S
<1>3. N + 1 \in S
  BY <1>1, <1>2, Climb
<1> QED
  BY <1>3 DEF S

noneCounted(s) == \A n \in 1..Len(s) : s[n].type # "ADJUSTMENT"

total(s) == levels(s)[Len(s)]

\* Without an inventory, a movement adds the same wherever it is put.
LEMMA InsertedAdds ==
  ASSUME NEW s \in Seq(Movements), NEW m \in Movements, NEW k \in 1..(Len(s) + 1), NEW longer,
         Inserted(s, m, k, longer), noneCounted(s), m.type # "ADJUSTMENT"
  PROVE  noneCounted(longer) /\ total(longer) = total(s) + effect(0, m)
<1>1. PICK N \in Nat : N = Len(s) /\ \A n \in 1..N : s[n] \in Movements
  OBVIOUS
<1>2. /\ longer \in Seq(Movements) /\ Len(longer) = N + 1 /\ k \in 1..(N + 1)
      /\ \A n \in 1..(N + 1) : longer[n] = IF n < k THEN s[n] ELSE IF n = k THEN m ELSE s[n - 1]
  BY <1>1 DEF Inserted
<1>3. PICK adds \in [1..N -> Int] : \A n \in 1..N : adds[n] = effect(0, s[n])
  <2> DEFINE adds == [n \in 1..N |-> effect(0, s[n])]
  <2>0. ASSUME NEW n \in 1..N PROVE effect(0, s[n]) \in Int
    BY <1>1, EffectIs
  <2>1. adds \in [1..N -> Int] /\ \A n \in 1..N : adds[n] = effect(0, s[n])
    BY <2>0
  <2> HIDE DEF adds
  <2> QED
    BY <2>1
<1>4. PICK level \in [0..N -> Int] :
        /\ level[N] = total(s) /\ level[0] = 0
        /\ \A n \in 1..N : level[n] = level[n - 1] + effect(quantityBefore(s, n), s[n])
  BY <1>1, Levels DEF total
<1>5. PICK after \in [0..(N + 1) -> Int] :
        /\ after[N + 1] = total(longer) /\ after[0] = 0
        /\ \A n \in 1..(N + 1) :
             after[n] = after[n - 1] + effect(quantityBefore(longer, n), longer[n])
  <2>1. PICK M \in Nat : M = N + 1 /\ Len(longer) = M /\ longer \in Seq(Movements)
    BY <1>2
  <2>2. \E after \in [0..M -> Int] :
          /\ after[M] = total(longer) /\ after[0] = 0
          /\ \A n \in 1..M :
               after[n] = after[n - 1] + effect(quantityBefore(longer, n), longer[n])
    BY <2>1, Levels DEF total
  <2> QED
    BY <2>1, <2>2
<1>6. ASSUME NEW n \in 1..(N + 1)
      PROVE  /\ longer[n].type # "ADJUSTMENT" /\ longer[n] \in Movements
             /\ effect(0, longer[n]) = IF n < k THEN adds[n]
                                       ELSE IF n = k THEN effect(0, m) ELSE adds[n - 1]
  <2>1. CASE n < k
    <3>1. n \in 1..N
      BY <1>2, <2>1
    <3> QED
      BY <1>1, <1>2, <1>3, <2>1, <3>1 DEF noneCounted
  <2>2. CASE n = k
    BY <1>2, <2>2
  <2>3. CASE n > k
    <3>1. n - 1 \in 1..N
      BY <1>2, <2>3
    <3>2. longer[n] = s[n - 1]
      <4>1. ~ (n < k) /\ n # k
        BY <1>2, <2>3
      <4> QED
        BY <1>2, <4>1
    <3> QED
      BY <1>1, <1>2, <1>3, <2>3, <3>1, <3>2 DEF noneCounted
  <2> QED
    BY <1>2, <2>1, <2>2, <2>3
<1>7. \A n \in 1..N : level[n] = level[n - 1] + adds[n]
  <2> SUFFICES ASSUME NEW n \in 1..N PROVE level[n] = level[n - 1] + adds[n]
    OBVIOUS
  <2>1. n \in 1..(Len(s) + 1) /\ s[n].type # "ADJUSTMENT"
    BY <1>1 DEF noneCounted
  <2>2. effect(quantityBefore(s, n), s[n]) = effect(0, s[n])
    BY <1>1, <2>1, BeforeIsInt, EffectIs
  <2> QED
    BY <1>3, <1>4, <2>2
<1>8. \A n \in 1..(N + 1) : after[n] = after[n - 1]
        + (IF n < k THEN adds[n] ELSE IF n = k THEN effect(0, m) ELSE adds[n - 1])
  <2> SUFFICES ASSUME NEW n \in 1..(N + 1)
               PROVE  after[n] = after[n - 1]
                        + (IF n < k THEN adds[n] ELSE IF n = k THEN effect(0, m) ELSE adds[n - 1])
    OBVIOUS
  <2>1. n \in 1..(Len(longer) + 1)
    BY <1>2
  <2>2. effect(quantityBefore(longer, n), longer[n]) = effect(0, longer[n])
    BY <1>2, <1>6, <2>1, BeforeIsInt, EffectIs
  <2> QED
    BY <1>5, <1>6, <2>2
<1>9. effect(0, m) \in Int
  BY EffectIs
<1>10. after[N + 1] = level[N] + effect(0, m)
  BY <1>2, <1>4, <1>5, <1>7, <1>8, <1>9, Inserting
<1> QED
  BY <1>2, <1>4, <1>5, <1>6, <1>10 DEF noneCounted

\* The movements in the order of their dates are as many; they are the same when they
\* were dated as they were recorded; and without an inventory they add up to the same.
LEMMA ByDate ==
  ASSUME NEW j \in Seq(Movements)
  PROVE  /\ byDate(j) \in Seq(Movements) /\ Len(byDate(j)) = Len(j)
         /\ datedAsRecorded(j) => byDate(j) = j
         /\ noneCounted(j) => total(byDate(j)) = total(j)
<1>1. PICK N \in Nat : N = Len(j) /\ \A n \in 1..N : j[n] \in Movements
  OBVIOUS
<1>3. PICK V : V = Seq(Movements)
  OBVIOUS
<1>4. PICK step \in [1..N -> [V -> V]] : \A n \in 1..N : \A v \in V : step[n][v] = placed(v, j[n])
  <2> DEFINE step == [n \in 1..N |-> [v \in V |-> placed(v, j[n])]]
  <2>1. \A n \in 1..N : \A v \in V : placed(v, j[n]) \in V
    BY <1>1, <1>3, Placed DEF Inserted
  <2>2. step \in [1..N -> [V -> V]]
    BY <2>1
  <2>3. \A n \in 1..N : \A v \in V : step[n][v] = placed(v, j[n])
    OBVIOUS
  <2> HIDE DEF step
  <2> QED
    BY <2>2, <2>3
<1>5. <<>> \in V
  BY <1>3
<1> DEFINE Is(g) == g = [n \in 0..N |-> IF n = 0 THEN <<>> ELSE placed(g[n - 1], j[n])]
<1>6. PICK f \in [0..N -> V] : Repeats(f, N, <<>>, step)
  BY <1>5, Iterated
<1>7. Is(f)
  <2>1. f[0] = <<>> /\ \A n \in 1..N : f[n - 1] \in V /\ f[n] = step[n][f[n - 1]]
    BY <1>6 DEF Repeats
  <2>2. \A n \in 1..N : f[n] = placed(f[n - 1], j[n])
    BY <1>4, <2>1
  <2> QED
    BY <2>1, <2>2
<1>8. byDate(j) = (CHOOSE g : Is(g))[N]
  BY <1>1 DEF byDate
<1>9. PICK dated : dated = CHOOSE g : Is(g)
  OBVIOUS
<1>10. Is(dated)
  <2> HIDE DEF Is
  <2> QED
    BY <1>7, <1>9
<1>11. /\ dated[0] = <<>> /\ DOMAIN dated = 0..N /\ dated = [n \in DOMAIN dated |-> dated[n]]
       /\ \A n \in 1..N : dated[n] = placed(dated[n - 1], j[n])
  <2>1. dated[0] = <<>> /\ DOMAIN dated = 0..N
    BY <1>10
  <2>2. dated = [n \in DOMAIN dated |-> dated[n]]
    BY <1>10, Zenon
  <2>3. ASSUME NEW n \in 1..N PROVE dated[n] = placed(dated[n - 1], j[n])
    <3>1. n \in 0..N /\ n # 0
      OBVIOUS
    <3>2. dated[n] = IF n = 0 THEN <<>> ELSE placed(dated[n - 1], j[n])
      BY <1>10, <3>1, Zenon
    <3> QED
      BY <3>1, <3>2
  <2> QED
    BY <2>1, <2>2, <2>3
<1>12. Follows(dated, N, <<>>, step, V)
  BY <1>4, <1>11 DEF Follows
<1>13. dated \in [0..N -> V]
  BY <1>5, <1>11, <1>12, Same
<1>14. byDate(j) = dated[N]
  <2> HIDE DEF Is
  <2> QED
    BY <1>8, <1>9
<1>15. PICK level \in [0..N -> Int] :
         /\ level[N] = total(j) /\ level[0] = 0
         /\ \A n \in 1..N : level[n] = level[n - 1] + effect(quantityBefore(j, n), j[n])
  BY <1>1, Levels DEF total
<1> DEFINE Holds(n) ==
             /\ Len(dated[n]) = n
             /\ datedAsRecorded(j) => \A i \in 1..n : dated[n][i] = j[i]
             /\ noneCounted(j) => noneCounted(dated[n]) /\ total(dated[n]) = level[n]
           S == {n \in Nat : n <= N => Holds(n)}
<1>16. 0 \in S
  <2>1. <<>> \in Seq(Movements) /\ Len(<<>>) = 0
    OBVIOUS
  <2>2. total(<<>>) = 0
    BY <2>1, Levels DEF total
  <2> QED
    BY <1>11, <1>15, <2>1, <2>2 DEF noneCounted
<1>17. ASSUME NEW n \in Nat, n \in S PROVE n + 1 \in S
  <2> SUFFICES ASSUME n + 1 <= N PROVE Holds(n + 1)
    OBVIOUS
  <2>1. n \in 0..N /\ n + 1 \in 1..N /\ (n + 1) - 1 = n /\ n + 1 \in 1..(N + 1)
    OBVIOUS
  <2>2. PICK m \in Movements : m = j[n + 1]
    BY <1>1, <2>1
  <2>3. PICK s \in Seq(Movements) : s = dated[n]
    BY <1>3, <1>13, <2>1
  <2>4. dated[n + 1] = placed(s, m)
    BY <1>11, <2>1, <2>2, <2>3
  <2>5. /\ Len(s) = n
        /\ datedAsRecorded(j) => \A i \in 1..n : s[i] = j[i]
        /\ noneCounted(j) => noneCounted(s) /\ total(s) = level[n]
    BY <1>17, <2>1, <2>3
  <2>6. PICK k \in 1..(Len(s) + 1) : Inserted(s, m, k, placed(s, m))
    BY Placed
  <2>7. Len(dated[n + 1]) = n + 1
    BY <2>4, <2>5, <2>6 DEF Inserted
  <2>8. ASSUME datedAsRecorded(j), NEW i \in 1..(n + 1) PROVE dated[n + 1][i] = j[i]
    <3>1. \A h \in 1..Len(s) : s[h].occurredAt <= m.occurredAt
      BY <1>1, <2>1, <2>2, <2>5, <2>8 DEF datedAsRecorded
    <3>2. dated[n + 1] = Append(s, m)
      BY <2>4, <3>1, Placed
    <3>3. CASE i = n + 1
      BY <2>2, <2>5, <3>2, <3>3
    <3>4. CASE i # n + 1
      <4>1. i \in 1..n
        BY <3>4
      <4>2. Append(s, m)[i] = s[i]
        BY <2>5, <4>1
      <4> QED
        BY <2>5, <2>8, <3>2, <4>1, <4>2
    <3> QED
      BY <3>3, <3>4
  <2>9. ASSUME noneCounted(j)
        PROVE  noneCounted(dated[n + 1]) /\ total(dated[n + 1]) = level[n + 1]
    <3>1. m.type # "ADJUSTMENT"
      BY <1>1, <2>1, <2>2, <2>9 DEF noneCounted
    <3>2. noneCounted(dated[n + 1]) /\ total(dated[n + 1]) = total(s) + effect(0, m)
      <4>1. noneCounted(s)
        BY <2>5, <2>9
      <4>2. Inserted(s, m, k, dated[n + 1])
        BY <2>4, <2>6
      <4> QED
        BY <3>1, <4>1, <4>2, InsertedAdds
    <3>3. level[n + 1] = level[n] + effect(quantityBefore(j, n + 1), m)
      BY <1>15, <2>1, <2>2
    <3>4. effect(quantityBefore(j, n + 1), m) = effect(0, m)
      BY <1>1, <2>1, <3>1, BeforeIsInt, EffectIs
    <3> QED
      BY <2>5, <2>9, <3>2, <3>3, <3>4
  <2> QED
    BY <2>7, <2>8, <2>9
<1>18. Holds(N)
  <2> HIDE DEF S
  <2>1. N \in S
    BY <1>16, <1>17, Climb
  <2> QED
    BY <2>1 DEF S
<1>19. dated[N] \in Seq(Movements)
  BY <1>3, <1>13
<1>20. datedAsRecorded(j) => dated[N] = j
  BY <1>1, <1>18, <1>19, SeqEqual
<1> QED
  BY <1>1, <1>14, <1>15, <1>18, <1>19, <1>20

\* Movements that say what they did add up to what the counter says.
LEMMA JustifiedTotal ==
  ASSUME NEW j \in Seq(Movements), \A n \in 1..Len(j) : justified(quantityBefore(j, n), j[n])
  PROVE  total(j) = quantityBefore(j, Len(j) + 1)
<1>1. PICK N \in Nat : N = Len(j) /\ \A n \in 1..N : j[n] \in Movements
  OBVIOUS
<1>2. PICK level \in [0..N -> Int] :
        /\ level[N] = total(j) /\ level[0] = 0
        /\ \A n \in 1..N : level[n] = level[n - 1] + effect(quantityBefore(j, n), j[n])
  BY <1>1, Levels DEF total
<1> DEFINE S == {n \in Nat : n <= N => level[n] = quantityBefore(j, n + 1)}
<1>3. 0 \in S
  BY <1>2 DEF quantityBefore
<1>4. ASSUME NEW n \in Nat, n \in S PROVE n + 1 \in S
  <2> SUFFICES ASSUME n + 1 <= N PROVE level[n + 1] = quantityBefore(j, (n + 1) + 1)
    OBVIOUS
  <2>1. n + 1 \in 1..N /\ (n + 1) - 1 = n /\ n + 1 \in 1..(Len(j) + 1)
          /\ ((n + 1) + 1) - 1 = n + 1 /\ (n + 1) + 1 # 1
    BY <1>1
  <2>2. PICK before \in Int : before = quantityBefore(j, n + 1)
    BY <2>1, BeforeIsInt
  <2>3. level[n] = before
    BY <1>4, <2>1, <2>2
  <2>4. level[n + 1] = before + effect(before, j[n + 1])
    BY <1>2, <2>1, <2>2, <2>3
  <2>5. justified(before, j[n + 1]) /\ j[n + 1] \in Movements
    BY <1>1, <2>1, <2>2
  <2>6. level[n + 1] = j[n + 1].after
    BY <2>4, <2>5, EffectIs
  <2> QED
    BY <2>1, <2>6 DEF quantityBefore
<1> HIDE DEF S
<1>5. N \in S
  BY <1>3, <1>4, Climb
<1> QED
  BY <1>1, <1>2, <1>5 DEF S

\* The lots of a journal: the oldest are used up first, and where what goes out by the
\* dates had come in, what is left of them is what its movements add up to.
LEMMA LotsOf ==
  ASSUME NEW j \in Seq(Movements)
  PROVE  LET lots == lotsOf(j) IN
         /\ lots \in Seq(LotRows) /\ OldestFirst(lots)
         /\ neverShort(j) => sumOf(lots) = total(byDate(j))
<1>0. PICK d : d = byDate(j)
  OBVIOUS
<1>1. PICK N \in Nat : N = Len(d) /\ d \in Seq(Movements) /\ \A n \in 1..N : d[n] \in Movements
  BY <1>0, ByDate
<1>2. PICK before \in [1..N -> Int] : \A n \in 1..N : before[n] = quantityBefore(d, n)
  <2> DEFINE before == [n \in 1..N |-> quantityBefore(d, n)]
  <2>1. ASSUME NEW n \in 1..N PROVE quantityBefore(d, n) \in Int
    <3>1. n \in 1..(Len(d) + 1)
      BY <1>1
    <3> QED
      BY <1>1, <3>1, BeforeIsInt
  <2>2. before \in [1..N -> Int] /\ \A n \in 1..N : before[n] = quantityBefore(d, n)
    BY <2>1
  <2> HIDE DEF before
  <2> QED
    BY <2>2
<1>3. PICK V : V = Seq(LotRows)
  OBVIOUS
<1>4. PICK step \in [1..N -> [V -> V]] : \A n \in 1..N : \A v \in V :
        step[n][v] = replayed(v, before[n], d[n])
  <2> DEFINE step == [n \in 1..N |-> [v \in V |-> replayed(v, before[n], d[n])]]
  <2>1. \A n \in 1..N : \A v \in V : replayed(v, before[n], d[n]) \in V
    BY <1>1, <1>3, ReplayedLots
  <2>2. step \in [1..N -> [V -> V]]
    BY <2>1
  <2>3. \A n \in 1..N : \A v \in V : step[n][v] = replayed(v, before[n], d[n])
    OBVIOUS
  <2> HIDE DEF step
  <2> QED
    BY <2>2, <2>3
<1>5. <<>> \in V
  BY <1>3
<1> DEFINE Is(g) == g = [n \in 0..N |-> IF n = 0 THEN <<>>
                           ELSE replayed(g[n - 1], quantityBefore(d, n), d[n])]
<1>6. PICK f \in [0..N -> V] : Repeats(f, N, <<>>, step)
  BY <1>5, Iterated
<1>7. Is(f)
  <2>1. f[0] = <<>> /\ \A n \in 1..N : f[n - 1] \in V /\ f[n] = step[n][f[n - 1]]
    BY <1>6 DEF Repeats
  <2>2. \A n \in 1..N : f[n] = replayed(f[n - 1], quantityBefore(d, n), d[n])
    BY <1>2, <1>4, <2>1
  <2> QED
    BY <2>1, <2>2
<1>8. lotsOf(j) = (CHOOSE g : Is(g))[N]
  BY <1>0, <1>1 DEF lotsOf
<1>9. PICK lots : lots = CHOOSE g : Is(g)
  OBVIOUS
<1>10. Is(lots)
  <2> HIDE DEF Is
  <2> QED
    BY <1>7, <1>9
<1>11. /\ lots[0] = <<>> /\ DOMAIN lots = 0..N /\ lots = [n \in DOMAIN lots |-> lots[n]]
       /\ \A n \in 1..N : lots[n] = replayed(lots[n - 1], before[n], d[n])
  <2>1. lots[0] = <<>> /\ DOMAIN lots = 0..N
    BY <1>10
  <2>2. lots = [n \in DOMAIN lots |-> lots[n]]
    BY <1>10, Zenon
  <2>3. \A n \in 1..N : lots[n] = replayed(lots[n - 1], quantityBefore(d, n), d[n])
    <3> SUFFICES ASSUME NEW n \in 1..N
                 PROVE  lots[n] = replayed(lots[n - 1], quantityBefore(d, n), d[n])
      OBVIOUS
    <3>1. n \in 0..N /\ n # 0
      OBVIOUS
    <3>2. lots[n] = IF n = 0 THEN <<>>
                    ELSE replayed(lots[n - 1], quantityBefore(d, n), d[n])
      <4> HIDE DEF quantityBefore, replayed
      <4> QED
        BY <1>10, <3>1, Zenon
    <3> QED
      BY <3>1, <3>2
  <2> QED
    BY <1>2, <2>1, <2>2, <2>3
<1>12. Follows(lots, N, <<>>, step, V)
  BY <1>4, <1>11 DEF Follows
<1>13. lots \in [0..N -> V]
  BY <1>5, <1>11, <1>12, Same
<1>14. OldestFirst(<<>>) /\ sumOf(<<>>) = 0
  <2>1. <<>> \in Seq(LotRows) /\ Len(<<>>) = 0
    OBVIOUS
  <2>2. sumOf(<<>>) = 0
    BY <2>1, RemainingIn DEF sumOf
  <2> QED
    BY <2>1, <2>2 DEF OldestFirst
<1>15. PICK level \in [0..N -> Int] :
         /\ level = levels(d) /\ level[0] = 0
         /\ \A n \in 1..N : level[n] = level[n - 1] + effect(quantityBefore(d, n), d[n])
  BY <1>1, Levels
<1>16. level[N] = total(d) /\ (neverShort(j) => \A n \in 1..N : level[n] >= 0)
  BY <1>0, <1>1, <1>15 DEF total, neverShort
<1> DEFINE Matches(n) == OldestFirst(lots[n]) /\ (neverShort(j) => sumOf(lots[n]) = level[n])
           S == {n \in Nat : n <= N => Matches(n)}
<1>17. 0 \in S
  BY <1>11, <1>14, <1>15
<1>18. ASSUME NEW n \in Nat, n \in S PROVE n + 1 \in S
  <2> SUFFICES ASSUME n + 1 <= N PROVE Matches(n + 1)
    OBVIOUS
  <2>1. n \in 0..N /\ n + 1 \in 1..N /\ (n + 1) - 1 = n
    OBVIOUS
  <2>2. OldestFirst(lots[n]) /\ (neverShort(j) => sumOf(lots[n]) = level[n])
    BY <1>18, <2>1
  <2>3. lots[n] \in Seq(LotRows)
    BY <1>3, <1>13, <2>1
  <2>4. d[n + 1] \in Movements /\ before[n + 1] \in Int
    BY <1>1, <1>2, <2>1
  <2>5. lots[n + 1] = replayed(lots[n], before[n + 1], d[n + 1])
    BY <1>11, <2>1
  <2>6. level[n + 1] = level[n] + effect(before[n + 1], d[n + 1])
    BY <1>2, <1>15, <2>1
  <2>7. /\ OldestFirst(lots[n + 1])
        /\ sumOf(lots[n]) + effect(before[n + 1], d[n + 1]) >= 0
             => sumOf(lots[n + 1]) = sumOf(lots[n]) + effect(before[n + 1], d[n + 1])
    BY <2>2, <2>3, <2>4, <2>5, Replayed
  <2>8. neverShort(j) => level[n + 1] >= 0
    BY <1>16, <2>1
  <2> QED
    BY <2>2, <2>6, <2>7, <2>8
<1>19. Matches(N)
  <2> HIDE DEF S
  <2>1. N \in S
    BY <1>17, <1>18, Climb
  <2> QED
    BY <2>1 DEF S
<1>20. lots[N] \in Seq(LotRows)
  BY <1>3, <1>13
<1>21. lotsOf(j) = lots[N]
  <2> HIDE DEF Is
  <2> QED
    BY <1>8, <1>9
<1> QED
  BY <1>0, <1>1, <1>16, <1>19, <1>20, <1>21

\* When requests come one at a time, what followLot finds by replaying the journal of
\* an article in the order of the dates people gave uses up the oldest lots first, and
\* leaves in them what the counter says: whatever the dates of an article nobody
\* counted, as long as by these dates nothing went out before it had come in, and of
\* one that was counted, as long as its movements are dated in the order they were made.
THEOREM LotsMatchCounter == OneSlot => (Spec => []LotsMatchStock)
<1> SUFFICES ASSUME OneSlot PROVE Spec => []LotsMatchStock
  OBVIOUS
<1>1. TypeOK /\ CounterEndsJournal /\ Chained => LotsMatchStock
  <2> SUFFICES ASSUME TypeOK, CounterEndsJournal, Chained PROVE LotsMatchStock
    OBVIOUS
  <2>1. ASSUME NEW a \in Articles
        PROVE  journal[a] \in Seq(Movements)
                 /\ \A n \in 1..Len(journal[a]) :
                      justified(quantityBefore(journal[a], n), journal[a][n])
    BY DEF TypeOK, StockTypes, Chained, Links
  <2>2. OldestLotFirst
    BY <2>1, LotsOf DEF OldestLotFirst, OldestFirst
  <2>3. ASSUME NEW a \in Articles, neverShort(journal[a]),
               datedAsRecorded(journal[a]) \/ ~ counted(journal[a])
        PROVE  sumOf(lotsOf(journal[a])) = article[a].quantity
    <3>1. PICK j \in Seq(Movements) : j = journal[a]
      BY <2>1
    <3>2. total(byDate(j)) = total(j)
      <4>1. CASE datedAsRecorded(j)
        BY <4>1, ByDate
      <4>2. CASE ~ counted(j)
        BY <4>2, ByDate DEF counted, noneCounted
      <4> QED
        BY <2>3, <3>1, <4>1, <4>2
    <3>3. total(j) = quantityBefore(j, Len(j) + 1)
      BY <2>1, <3>1, JustifiedTotal
    <3>4. sumOf(lotsOf(j)) = total(byDate(j))
      BY <2>3, <3>1, LotsOf
    <3> QED
      BY <3>1, <3>2, <3>3, <3>4 DEF CounterEndsJournal
  <2> QED
    BY <2>2, <2>3 DEF LotsMatchStock
<1>2. Spec => [](CounterEndsJournal /\ Chained)
  BY ChainInvariant
<1> QED
  BY <1>1, <1>2, SupplyTypes, PTL
=============================================================================
