--------------------------------- MODULE Lots ---------------------------------
(***************************************************************************)
(* PurchasesService.followLot: what is left of each purchase, found by     *)
(* replaying an article's journal in the order of the dates people gave.   *)
(* Each entry opens a lot, and what goes out is served from the oldest     *)
(* lots first.                                                             *)
(***************************************************************************)
EXTENDS Purchases, SequencesExt

\* A movement takes its place after those that occurred before it or with it.
placed(dated, movement) ==
  LET later == {n \in 1..Len(dated) : dated[n].occurredAt > movement.occurredAt}
  IN IF later = {} THEN Append(dated, movement)
     ELSE InsertAt(dated, Min(later), movement)

\* orderBy occurredAt, then createdAt.
byDate(movements) ==
  LET dated[n \in 0..Len(movements)] ==
        IF n = 0 THEN <<>> ELSE placed(dated[n - 1], movements[n])
  IN dated[Len(movements)]

Lot(bought, quantity) == [purchase |-> bought, entered |-> quantity, remaining |-> quantity]

\* What is still to serve when the first n lots have been: each gives what it has.
leftToServe(lots, quantity) ==
  LET left[n \in 0..Len(lots)] ==
        IF n = 0 THEN quantity
        ELSE left[n - 1] - least(lots[n].remaining, left[n - 1])
  IN left

\* Mutant: the latest lot is served first.
serveLatest(lots, quantity) ==
  LET left == leftToServe(Reverse(lots), quantity)
      n == Len(lots)
  IN [i \in 1..n |-> [lots[i] EXCEPT !.remaining = @ - (left[n - i] - left[n - i + 1])]]

serve(lots, quantity) ==
  LET left == leftToServe(lots, quantity)
  IN [i \in 1..Len(lots) |-> [lots[i] EXCEPT !.remaining = @ - (left[i - 1] - left[i])]]

\* One movement, on lots that stood at the quantity before it: an entry or an
\* inventory above the counter opens a lot, the rest is served.
replayed(lots, before, movement) ==
  CASE movement.type = "IN" ->
         Append(lots, Lot(movement.purchase, movement.quantity))
    [] movement.type = "OUT" ->
         serve(lots, movement.quantity)
    [] movement.type = "ADJUSTMENT" ->
         IF movement.after > before
           THEN Append(lots, Lot(NoPurchase, movement.after - before))
           ELSE serve(lots, before - movement.after)

lotsOf(movements) ==
  LET dated == byDate(movements)
      lots[n \in 0..Len(dated)] ==
        IF n = 0 THEN <<>>
        ELSE replayed(lots[n - 1], quantityBefore(dated, n), dated[n])
  IN lots[Len(dated)]

\* What is left of the first n lots.
remainingIn(lots) ==
  LET sum[n \in 0..Len(lots)] == IF n = 0 THEN 0 ELSE sum[n - 1] + lots[n].remaining
  IN sum

sumOf(lots) == remainingIn(lots)[Len(lots)]

\* What a movement adds to the reserve, replayed where the counter stood at before.
effect(before, movement) ==
  CASE movement.type = "IN" -> movement.quantity
    [] movement.type = "OUT" -> - movement.quantity
    [] movement.type = "ADJUSTMENT" -> movement.after - before

\* What the reserve would have held after each movement.
levels(movements) ==
  LET level[n \in 0..Len(movements)] ==
        IF n = 0 THEN 0
        ELSE level[n - 1] + effect(quantityBefore(movements, n), movements[n])
  IN level

\* Read by date, nothing went out before it had come in.
neverShort(movements) ==
  LET dated == byDate(movements) IN \A n \in 1..Len(dated) : levels(dated)[n] >= 0

datedAsRecorded(movements) ==
  \A i, k \in 1..Len(movements) : i < k => movements[i].occurredAt <= movements[k].occurredAt

counted(movements) == \E n \in 1..Len(movements) : movements[n].type = "ADJUSTMENT"

\* "le premier entre est le premier sorti": a lot is begun only when those dated
\* before it are exhausted.
OldestLotFirst ==
  \A a \in Articles :
    LET lots == lotsOf(journal[a]) IN
    \A i, k \in 1..Len(lots) :
      i < k /\ lots[k].remaining < lots[k].entered => lots[i].remaining = 0

\* What is left of all the lots is what the counter says, whatever dates people
\* gave, as long as nothing is dated before what it takes had come in, and no
\* inventory was made of an article whose movements are dated out of order.
LotsMatchStock ==
  /\ OldestLotFirst
  /\ \A a \in Articles :
       /\ neverShort(journal[a])
       /\ datedAsRecorded(journal[a]) \/ ~ counted(journal[a])
       => sumOf(lotsOf(journal[a])) = article[a].quantity

\* The same of any dates, an exit dated before the lot it empties included, of a
\* counter that was never below zero.
LotsMatchWhateverTheDates ==
  \A a \in Articles :
    neverBelow(a) /\ ~ counted(journal[a])
      => sumOf(lotsOf(journal[a])) = article[a].quantity

\* The same of dates in order and a counter that has been below zero.
LotsAlwaysMatchStock ==
  \A a \in Articles :
    article[a].quantity >= 0 /\ datedAsRecorded(journal[a])
      => sumOf(lotsOf(journal[a])) = article[a].quantity

\* The same of an inventory made after what is dated out of order.
LotsMatchInventories ==
  \A a \in Articles :
    neverShort(journal[a]) => sumOf(lotsOf(journal[a])) = article[a].quantity
=============================================================================
