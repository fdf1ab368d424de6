------------------------------ MODULE OneAnswer ------------------------------
(***************************************************************************)
(* What an idempotency key promises a client, whatever is retried, crashed *)
(* or run at the same time: as long as the key is remembered, every answer *)
(* it gives is the first one, to the body that obtained it.                *)
(***************************************************************************)
CONSTANTS Keys, Bodies, Runs, NoAnswer

VARIABLES
  kept,     \* the answer remembered for a key: the body, and the run of it
  given     \* the answers clients received for a key since it is remembered

Answers == [body : Bodies, run : Runs]

Init == kept = [k \in Keys |-> NoAnswer] /\ given = [k \in Keys |-> {}]

\* A first execution succeeds: its answer is kept, and given.
Settle(k, answer) ==
  /\ kept[k] = NoAnswer
  /\ kept' = [kept EXCEPT ![k] = answer]
  /\ given' = [given EXCEPT ![k] = {answer}]

Replay(k) ==
  /\ kept[k] # NoAnswer
  /\ given' = [given EXCEPT ![k] = @ \union {kept[k]}]
  /\ UNCHANGED kept

\* The key expires.
Forget(k) ==
  /\ kept' = [kept EXCEPT ![k] = NoAnswer]
  /\ given' = [given EXCEPT ![k] = {}]

Next == \E k \in Keys : \/ \E answer \in Answers : Settle(k, answer)
                        \/ Replay(k) \/ Forget(k)

Spec == Init /\ [][Next]_<<kept, given>>
==============================================================================
