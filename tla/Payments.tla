------------------------------ MODULE Payments ------------------------------
(***************************************************************************)
(* The handlers of src/payments/payments.service.ts and, as an external    *)
(* actor, the mobile-money operator they talk to.                          *)
(***************************************************************************)
EXTENDS Store

(***************************************************************************)
(* doInitiate.  The operation is opened at the operator over the network;  *)
(* then the payment and the order's copy are two writes outside any        *)
(* transaction.                                                            *)
(***************************************************************************)
InitiateRead(r, o) ==
  /\ exists(o)
  /\ order[o].paymentStatus # "PAID"
  /\ order[o].status # "CANCELLED"
  /\ order[o].shape.method # "COD" /\ account(o)
  /\ Begin(r, "initiate", On("initiateWrite", o))
  /\ operator' = [operator EXCEPT ![o].state = "open"]
  /\ UNCHANGED <<orderVars, moneyVars, ledgerVars, fleetVars, kitchenVars, perimees>>

InitiateWrite(r) ==
  LET o == requests[r].order IN
  /\ At(r, "initiateWrite") /\ PaymentUnlocked(o)
  /\ payment' = [payment EXCEPT ![o] = "PROCESSING"]
  /\ Continue(r, On("initiateCopy", o))
  /\ UNCHANGED <<orderVars, everPaid, ledgerVars, fleetVars, kitchenVars,
                 operator, perimees>>

\* Mutant: the order keeps its old copy.
InitiateNoCopy(r) == At(r, "initiateCopy") /\ Finish(r) /\ UNCHANGED tables

InitiateCopy(r) ==
  LET o == requests[r].order IN
  /\ At(r, "initiateCopy")
  /\ order' = [order EXCEPT ![o].paymentStatus = "PROCESSING"]
  /\ Finish(r)
  /\ UNCHANGED <<history, moneyVars, ledgerVars, fleetVars, kitchenVars,
                 operator, perimees>>

(***************************************************************************)
(* confirm, by the operator's callback, the sandbox route or the back      *)
(* office.  Its transaction first updates the payment, which locks the     *)
(* row, then reads the order and decides from what it read.                *)
(***************************************************************************)
confirmable(o) == payment[o] \notin {"PAID", "REFUNDED"}

Confirm(r, o) ==
  /\ exists(o) /\ confirmable(o)
  /\ Begin(r, "confirm", On("confirmTx", o))
  /\ UNCHANGED tables

\* Called from a callback: a refusal here is an exception that ends the request.
ConfirmRead(r) ==
  LET o == requests[r].order IN
  /\ At(r, "confirmRead")
  /\ IF confirmable(o)
       THEN Continue(r, [requests[r] EXCEPT !.next = "confirmTx"])
       ELSE Finish(r)
  /\ UNCHANGED tables

ConfirmTx(r) ==
  LET o == requests[r].order
      annulee == order[o].status = "CANCELLED"
      retablir == annulee /\ cancelledForNonPayment(order[o].reason)
  IN
  /\ At(r, "confirmTx") /\ PaymentUnlocked(o)
  /\ Continue(r, [requests[r] EXCEPT
                    !.next = "confirmCommit",
                    !.seen = (IF annulee THEN {"cancelled"} ELSE {})
                               \union (IF retablir THEN {"revivable"} ELSE {})])
  /\ UNCHANGED tables

\* The order is paid; one closed for want of payment comes back with what its
\* cancellation had given up.
Retablir(o) ==
  /\ order' = [order EXCEPT ![o].paymentStatus = "PAID", ![o].status = "PENDING",
                            ![o].reason = "NONE"]
  /\ history' = [history EXCEPT ![o] = "PENDING"]
  /\ TakeCoupon(o)
  /\ CountCancelled(o, -1)

ConfirmCommit(r) ==
  LET o == requests[r].order
      seen == requests[r].seen
      resteAnnulee == "cancelled" \in seen /\ "revivable" \notin seen
  IN
  /\ At(r, "confirmCommit")
  /\ payment' = [payment EXCEPT ![o] = "PAID"]
  /\ everPaid' = [everPaid EXCEPT ![o] = TRUE]
  /\ IF "revivable" \in seen
       THEN Retablir(o)
       ELSE /\ order' = [order EXCEPT ![o].paymentStatus = "PAID"]
            /\ UNCHANGED <<history, ledgerVars>>
  /\ IF resteAnnulee \/ order[o].shape.method = "COD"
       THEN Return(r)
       ELSE Continue(r, [requests[r] EXCEPT !.next = "announce", !.seen = {}])
  /\ UNCHANGED <<fleetVars, kitchenVars, operator, perimees>>

\* Mutant: the kitchen is not told.
AnnounceNobody(r) == At(r, "announce") /\ Return(r) /\ UNCHANGED tables

\* announceToKitchen, after the commit; creation and counter sales announce too.
Announce(r) ==
  /\ At(r, "announce")
  /\ announced' = [announced EXCEPT ![requests[r].order] = TRUE]
  /\ Return(r)
  /\ UNCHANGED <<orderVars, moneyVars, ledgerVars, fleetVars, deducted, operator, perimees>>

(***************************************************************************)
(* markFailed, by staff or on the operator's word: no guard on the status. *)
(***************************************************************************)
MarkFailed(r, o) ==
  /\ exists(o)
  /\ Begin(r, "markFailed", On("failCommit", o))
  /\ UNCHANGED tables

FailCommit(r) ==
  LET o == requests[r].order IN
  /\ At(r, "failCommit") /\ PaymentUnlocked(o)
  /\ payment' = [payment EXCEPT ![o] = "FAILED"]
  /\ order' = [order EXCEPT ![o].paymentStatus = "FAILED"]
  /\ Return(r)
  /\ UNCHANGED <<history, everPaid, ledgerVars, fleetVars, kitchenVars,
                 operator, perimees>>

(***************************************************************************)
(* refund.                                                                 *)
(***************************************************************************)
RefundRead(r, o) ==
  /\ exists(o) /\ payment[o] = "PAID"
  /\ Begin(r, "refund", On("refundCommit", o))
  /\ UNCHANGED tables

RefundCommit(r) ==
  LET o == requests[r].order IN
  /\ At(r, "refundCommit") /\ PaymentUnlocked(o)
  /\ payment' = [payment EXCEPT ![o] = "REFUNDED"]
  /\ order' = [order EXCEPT ![o].paymentStatus = "REFUNDED"]
  /\ profile' = IF account(o) THEN [profile EXCEPT !.spent = @ - 1] ELSE profile
  /\ Finish(r)
  /\ UNCHANGED <<history, everPaid, coupon, fleetVars, kitchenVars, operator, perimees>>

(***************************************************************************)
(* abandon: the customer closes the payment page.  The operator is asked   *)
(* first; a payment still open then fails, and its pending order with it.  *)
(***************************************************************************)
Abandon(r, o) ==
  /\ exists(o) /\ account(o)
  /\ Begin(r, "abandon", [On("reconcile", o) EXCEPT !.back = "abandonRead"])
  /\ UNCHANGED tables

AbandonRead(r) ==
  LET o == requests[r].order IN
  /\ At(r, "abandonRead")
  /\ Continue(r, On(IF payment[o] \in {"PENDING", "PROCESSING"}
                      THEN "abandonTx" ELSE "reconcile", o))
  /\ UNCHANGED tables

AbandonTx(r) ==
  LET o == requests[r].order IN
  /\ At(r, "abandonTx") /\ PaymentUnlocked(o)
  /\ Continue(r, [On("abandonCommit", o) EXCEPT
                    !.seen = IF order[o].status = "PENDING" THEN {"pending"} ELSE {}])
  /\ UNCHANGED tables

AbandonCommit(r) ==
  LET o == requests[r].order IN
  /\ At(r, "abandonCommit")
  /\ payment' = [payment EXCEPT ![o] = "FAILED"]
  /\ IF "pending" \in requests[r].seen
       THEN /\ order' = [order EXCEPT ![o].status = "CANCELLED", ![o].reason = "ABANDON",
                                      ![o].paymentStatus = "FAILED"]
            /\ history' = [history EXCEPT ![o] = "CANCELLED"]
            /\ ReturnCoupon(o)
            /\ CountCancelled(o, 1)
       ELSE /\ order' = [order EXCEPT ![o].paymentStatus = "FAILED"]
            /\ UNCHANGED <<history, ledgerVars>>
  /\ Finish(r)
  /\ UNCHANGED <<everPaid, fleetVars, kitchenVars, operator, perimees>>

(***************************************************************************)
(* applyChapChapCallback and reconcileWithOperator.  findForOrder, which   *)
(* the application polls, reconciles before it answers.                    *)
(***************************************************************************)
FindForOrder(r, o) ==
  /\ exists(o)
  /\ Begin(r, "poll", On("reconcile", o))
  /\ UNCHANGED tables

Reconcile(r) ==
  /\ At(r, "reconcile")
  /\ IF payment[requests[r].order] = "PROCESSING"
       THEN Continue(r, [requests[r] EXCEPT !.next = "ask"])
       ELSE Return(r)
  /\ UNCHANGED tables

\* The operator may not answer; an operation still open teaches nothing.
Ask(r) ==
  LET state == operator[requests[r].order].state IN
  /\ At(r, "ask")
  /\ \/ Return(r)
     \/ /\ state \in Outcomes
        /\ Continue(r, [requests[r] EXCEPT !.next = "callback", !.target = state])
  /\ UNCHANGED tables

\* The operator may repeat, delay and reorder what it announces.
OperatorCalls(r, o, outcome) ==
  /\ outcome \in operator[o].said
  /\ Begin(r, "callback", Towards("callback", o, outcome))
  /\ UNCHANGED tables

\* Mutant: a late failure undoes a collected payment.
calledBackLate(outcome, status) ==
  IF outcome = "paid" THEN (IF status = "PAID" THEN "nothing" ELSE "confirmRead")
                      ELSE (IF status = "FAILED" THEN "nothing" ELSE "failCommit")

\* What a callback does to a payment in a given status.
calledBack(outcome, status) ==
  IF outcome = "paid"
    THEN IF status = "PAID" THEN "nothing" ELSE "confirmRead"
    ELSE IF status \in {"FAILED", "PAID"} THEN "nothing" ELSE "failCommit"

ApplyCallback(r) ==
  LET then == calledBack(requests[r].target, payment[requests[r].order]) IN
  /\ At(r, "callback")
  /\ IF then = "nothing"
       THEN Return(r)
       ELSE Continue(r, [requests[r] EXCEPT !.next = then, !.target = "none"])
  /\ UNCHANGED tables

OperatorDecides(o, outcome) ==
  /\ operator[o].state = "open"
  /\ operator' = [operator EXCEPT ![o] = [state |-> outcome, said |-> @.said \union {outcome}]]
  /\ UNCHANGED <<orderVars, moneyVars, ledgerVars, fleetVars, kitchenVars,
                 perimees, calls, requests>>

PaymentsNext ==
  \/ \E r \in Requests :
       \/ \E o \in Orders :
            \/ InitiateRead(r, o) \/ Confirm(r, o) \/ MarkFailed(r, o)
            \/ RefundRead(r, o) \/ Abandon(r, o) \/ FindForOrder(r, o)
            \/ \E outcome \in Outcomes : OperatorCalls(r, o, outcome)
       \/ InitiateWrite(r) \/ InitiateCopy(r)
       \/ ConfirmRead(r) \/ ConfirmTx(r) \/ ConfirmCommit(r) \/ Announce(r)
       \/ FailCommit(r) \/ RefundCommit(r)
       \/ AbandonRead(r) \/ AbandonTx(r) \/ AbandonCommit(r)
       \/ Reconcile(r) \/ Ask(r) \/ ApplyCallback(r)
  \/ \E o \in Orders, outcome \in Outcomes : OperatorDecides(o, outcome)
=============================================================================
