------------------------------ MODULE Profile ------------------------------
(***************************************************************************)
(* What customers keep and say, and what staff offer them: address books   *)
(* (src/src/addresses/addresses.service.ts), promotions                    *)
(* (src/src/promotions/promotions.service.ts) and reviews                  *)
(* (src/src/orders/reviews.service.ts).                                    *)
(***************************************************************************)
EXTENDS Shop

beside == <<house, menuTables, line, pageTables, written>>

(***************************************************************************)
(* Addresses                                                               *)
(***************************************************************************)
\* updateMany isDefault: false.
undefaulted(c) == [a \in Addresses |->
  IF address[a].customer = c THEN [address[a] EXCEPT !.default = FALSE] ELSE address[a]]

\* The first one is the default without being asked.
CreateAddress(q, c, place, default) ==
  /\ Cardinality(booked(c)) < MaxAddresses
  /\ Begin(q, "createAddress", [step |-> "createAddress", customer |-> c, place |-> place,
                                default |-> default \/ booked(c) = {}])
  /\ UNCHANGED <<selfTables, beside>>

CreateAddressTx(q) ==
  LET body == desk[q]
      former == IF body.default THEN undefaulted(body.customer) ELSE address
  IN
  /\ At(q, "createAddress")
  /\ \E a \in Addresses :
       /\ address[a].state = "none"
       /\ \A earlier \in Addresses : earlier < a => address[earlier].state # "none"
       /\ address' = [former EXCEPT ![a] = [state |-> "live", customer |-> body.customer,
                                            place |-> body.place, default |-> body.default]]
  /\ Finish(q)
  /\ UNCHANGED <<promotion, review, note, beside>>

UpdateAddress(q, a, place, default) ==
  /\ live(address[a])
  /\ Begin(q, "updateAddress", [step |-> "updateAddress", address |-> a, place |-> place,
                                default |-> default])
  /\ UNCHANGED <<selfTables, beside>>

\* The body may take the default away as well as give it.
UpdateAddressTx(q) ==
  LET body == desk[q]
      former == IF TRUE \in body.default THEN undefaulted(address[body.address].customer)
                                         ELSE address
  IN
  /\ At(q, "updateAddress")
  /\ address' = [former EXCEPT ![body.address].place = given(body.place, @),
                               ![body.address].default = given(body.default, @)]
  /\ Finish(q)
  /\ UNCHANGED <<promotion, review, note, beside>>

SetDefault(q, a) ==
  /\ live(address[a])
  /\ Begin(q, "setDefault", [step |-> "setDefault", address |-> a])
  /\ UNCHANGED <<selfTables, beside>>

SetDefaultTx(q) ==
  LET a == desk[q].address IN
  /\ At(q, "setDefault")
  /\ address' = [undefaulted(address[a].customer) EXCEPT ![a].default = TRUE]
  /\ Finish(q)
  /\ UNCHANGED <<promotion, review, note, beside>>

RemoveAddress(q, a) ==
  /\ live(address[a])
  /\ Begin(q, "removeAddress", [step |-> "removeAddress", address |-> a,
                                default |-> address[a].default])
  /\ UNCHANGED <<selfTables, beside>>

\* Mutant: nobody takes the place of the default.
RemoveAddressTxAlone(q) ==
  /\ At(q, "removeAddress")
  /\ address' = [address EXCEPT ![desk[q].address].state = "removed",
                                ![desk[q].address].default = FALSE]
  /\ Finish(q)
  /\ UNCHANGED <<promotion, review, note, beside>>

\* The default passes to the most recent of those that stay.
RemoveAddressTx(q) ==
  LET a == desk[q].address
      rest == booked(address[a].customer) \ {a}
      next == CHOOSE b \in rest : \A other \in rest : other <= b
      gone == [address EXCEPT ![a].state = "removed", ![a].default = FALSE]
  IN
  /\ At(q, "removeAddress")
  /\ address' = IF desk[q].default /\ rest # {} THEN [gone EXCEPT ![next].default = TRUE]
                                                ELSE gone
  /\ Finish(q)
  /\ UNCHANGED <<promotion, review, note, beside>>

(***************************************************************************)
(* Promotions                                                              *)
(***************************************************************************)
Types == {"PERCENTAGE", "FIXED", "FREE_DELIVERY"}

PromotionRows == [state : {"none", "live", "removed"}, type : Types, value : Nat,
                  cap : Prices \union {Nothing}, active : BOOLEAN, starts : Nat, ends : Nat]

assertConsistent(type, value, starts, ends) ==
  /\ starts < ends
  /\ type = "PERCENTAGE" => value \in 1..100
  /\ type = "FIXED" => value > 0

\* PricingService.applyPromotion: the discount on a subtotal and its delivery.
discount(p, subtotal, fee) ==
  LET value == promotion[p].value
      cap(amount) == IF promotion[p].cap # Nothing /\ amount > promotion[p].cap
                       THEN promotion[p].cap ELSE amount
  IN CASE promotion[p].type = "PERCENTAGE" -> cap((subtotal * value) \div 100)
       [] promotion[p].type = "FIXED" -> cap(IF value < subtotal THEN value ELSE subtotal)
       [] OTHER -> fee

CreatePromotion(q, p, type, value, cap, ends) ==
  /\ promotion[p].state = "none"
  /\ assertConsistent(type, value, 1, ends)
  /\ Begin(q, "createPromotion", Idle)
  /\ promotion' = [promotion EXCEPT ![p] =
       [state |-> "live", type |-> type, value |-> value, cap |-> cap, active |-> TRUE,
        starts |-> 1, ends |-> ends]]
  /\ UNCHANGED <<address, review, note, beside>>

\* The row as a partial body would have it.
edited(p, body) ==
  [promotion[p] EXCEPT !.type = given(body.type, @), !.value = given(body.value, @),
                       !.starts = given(body.starts, @), !.ends = given(body.ends, @)]

\* Mutant: the value is compared only when the body holds one.
UpdatePromotionLoose(q, p, body) ==
  LET row == edited(p, body) IN
  /\ live(promotion[p])
  /\ body.value # {} => assertConsistent(row.type, row.value, row.starts, row.ends)
  /\ Begin(q, "updatePromotion", [step |-> "updatePromotion", promotion |-> p, row |-> row,
                                  body |-> body])
  /\ UNCHANGED <<selfTables, beside>>

UpdatePromotion(q, p, body) ==
  LET row == edited(p, body) IN
  /\ live(promotion[p])
  /\ assertConsistent(row.type, row.value, row.starts, row.ends)
  /\ Begin(q, "updatePromotion", [step |-> "updatePromotion", promotion |-> p, row |-> row,
                                  body |-> body])
  /\ UNCHANGED <<selfTables, beside>>

\* Type, value and dates are all written, whether sent or read; the cap and the
\* switch only when sent.
UpdatePromotionWrite(q) ==
  LET p == desk[q].promotion
      row == desk[q].row
      body == desk[q].body
  IN
  /\ At(q, "updatePromotion")
  /\ promotion' = [promotion EXCEPT ![p].type = row.type, ![p].value = row.value,
                                    ![p].starts = row.starts, ![p].ends = row.ends,
                                    ![p].cap = given(body.cap, @),
                                    ![p].active = given(body.active, @)]
  /\ Finish(q)
  /\ UNCHANGED <<address, review, note, beside>>

SetPromotionActive(q, p, active) ==
  /\ live(promotion[p])
  /\ Begin(q, "setPromotionActive", Idle)
  /\ promotion' = [promotion EXCEPT ![p].active = active]
  /\ UNCHANGED <<address, review, note, beside>>

RemovePromotion(q, p) ==
  /\ live(promotion[p])
  /\ Begin(q, "removePromotion", Idle)
  /\ promotion' = [promotion EXCEPT ![p].state = "removed", ![p].active = FALSE]
  /\ UNCHANGED <<address, review, note, beside>>

(***************************************************************************)
(* Reviews: one of each delivered order, for its house, its courier and    *)
(* its dishes, with one rating for all of them                             *)
(***************************************************************************)
Subjects == UNION {RatedIn[o] : o \in Orders}

\* One decimal, in tenths, and nothing before enough reviews.
displayedRating(sum, count) ==
  IF count < MinReviews THEN Nothing ELSE (20 * sum + count) \div (2 * count)

\* What _avg divides: the sum of these ratings.
total(ratings) ==
  LET Sum[set \in SUBSET DOMAIN ratings] ==
        IF set = {} THEN 0
        ELSE LET o == CHOOSE any \in set : TRUE IN ratings[o] + Sum[set \ {o}]
  IN Sum[DOMAIN ratings]

\* The aggregate of what is committed, and of the review of this transaction.
aggregate(s, rows) ==
  LET rated   == {o \in Orders : rows[o] # Nothing /\ s \in RatedIn[o]}
      ratings == [o \in rated |-> rows[o]]
  IN [count |-> Cardinality(rated), shown |-> displayedRating(total(ratings), Cardinality(rated))]

withMine(q) == [review EXCEPT ![desk[q].order] = desk[q].rating]

CreateReview(q, o, rating) ==
  /\ review[o] = Nothing
  /\ Begin(q, "createReview", [step |-> "reviewHouse", order |-> o, rating |-> rating])
  /\ UNCHANGED <<selfTables, beside>>

\* The transaction inserts its review (one for an order: else it fails) and
\* reads the average of the house.
ReviewHouse(q) ==
  LET body == desk[q] IN
  /\ At(q, "reviewHouse")
  /\ GoOn(q, IF review[body.order] # Nothing THEN Idle
             ELSE [step |-> "reviewOthers", order |-> body.order, rating |-> body.rating,
                   house |-> aggregate(HouseOf[body.order], withMine(q))])
  /\ UNCHANGED <<selfTables, beside>>

\* It writes the house, once no other transaction holds it, then the others.
locked(h) == \E q \in Desks : At(q, "reviewCommit") /\ HouseOf[desk[q].order] = h

ReviewOthers(q) ==
  /\ At(q, "reviewOthers") /\ ~ locked(HouseOf[desk[q].order])
  /\ GoOn(q, [step |-> "reviewCommit", order |-> desk[q].order, rating |-> desk[q].rating,
              house |-> desk[q].house,
              others |-> [s \in RatedIn[desk[q].order] \ {HouseOf[desk[q].order]} |->
                            aggregate(s, withMine(q))]])
  /\ UNCHANGED <<selfTables, beside>>

\* Mutant: the courier and the dishes keep their averages.
ReviewCommitHouse(q) ==
  LET body == desk[q] IN
  /\ At(q, "reviewCommit")
  /\ review' = withMine(q)
  /\ note' = [note EXCEPT ![HouseOf[body.order]] = body.house]
  /\ Finish(q)
  /\ UNCHANGED <<address, promotion, beside>>

ReviewCommit(q) ==
  LET body == desk[q] IN
  /\ At(q, "reviewCommit")
  /\ IF review[body.order] # Nothing THEN UNCHANGED <<review, note>>
     ELSE /\ review' = withMine(q)
          /\ note' = [s \in Subjects |-> IF s \in DOMAIN body.others THEN body.others[s]
                                         ELSE IF s = HouseOf[body.order] THEN body.house
                                         ELSE note[s]]
  /\ Finish(q)
  /\ UNCHANGED <<address, promotion, beside>>
=============================================================================
