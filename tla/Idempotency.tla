----------------------------- MODULE Idempotency -----------------------------
(***************************************************************************)
(* src/common/services/idempotency.service.ts: the key a client sends with *)
(* the creation of an order or of a payment, so that a retry on a bad      *)
(* network runs the operation once.                                        *)
(*                                                                         *)
(* `execute' is four database calls, outside any transaction, around the   *)
(* handler it protects: insert the key, run the handler, write its answer  *)
(* on the key; or delete the key, when the handler or that write throws.   *)
(* Keys stands for the unique triples (user, endpoint, key).  A request    *)
(* without a key runs its handler directly, and touches nothing here.      *)
(***************************************************************************)
EXTENDS Naturals, FiniteSets

CONSTANTS
  Keys,        \* (user, endpoint, key) triples
  Bodies,      \* request bodies, up to hashPayload
  Requests,    \* handler slots: each serves one request at a time
  NoKey, NoBody, NoAnswer,
  MaxCalls     \* bound: requests received in a behaviour

\* One number for each request, and an answer bears the one that computed it.
Runs == 1..MaxCalls

Answers == [body : Bodies, run : Runs]

ASSUME IdempotencyAssumption ==
  /\ NoKey \notin Keys /\ NoBody \notin Bodies /\ NoAnswer \notin Answers
  /\ MaxCalls \in Nat

VARIABLES
  row,       \* idempotency_keys: absent, or in progress, or completed
  request,   \* what each request holds, and its next step
  runs,      \* ledger: how often a key's operation took effect since its insertion
  unkept,    \* ledger: how many of these effects failed to be answered
  given,     \* ledger: the answers clients received since the key's insertion
  calls      \* requests received, and the number of the latest

vars == <<row, request, runs, unkept, given, calls>>

Absent == [state |-> "absent", body |-> NoBody, answer |-> NoAnswer]

Idle == [next |-> "idle", key |-> NoKey, body |-> NoBody, run |-> 0]

Init ==
  /\ row = [k \in Keys |-> Absent]
  /\ request = [r \in Requests |-> Idle]
  /\ runs = [k \in Keys |-> 0]
  /\ unkept = [k \in Keys |-> 0]
  /\ given = [k \in Keys |-> {}]
  /\ calls = 0

At(r, step) == request[r].next = step

GoTo(r, step) == request' = [request EXCEPT ![r].next = step]

Finish(r) == request' = [request EXCEPT ![r] = Idle]

AnswerOf(r) == [body |-> request[r].body, run |-> request[r].run]

Submit(r, k, b) ==
  /\ At(r, "idle") /\ calls < MaxCalls
  /\ calls' = calls + 1
  /\ request' = [request EXCEPT ![r] = [next |-> "claim", key |-> k, body |-> b,
                                        run |-> calls + 1]]
  /\ UNCHANGED <<row, runs, unkept, given>>

\* Mutant: the row is inserted or taken over, without the unique index.
ClaimUnchecked(r) ==
  /\ At(r, "claim")
  /\ row' = [row EXCEPT ![request[r].key] = [state |-> "inProgress", body |-> request[r].body,
                                             answer |-> NoAnswer]]
  /\ GoTo(r, "handle")
  /\ UNCHANGED <<runs, unkept, given, calls>>

\* create: the unique index refuses a second row for a key.
Claim(r) ==
  LET k == request[r].key IN
  /\ At(r, "claim")
  /\ IF row[k].state = "absent"
       THEN /\ row' = [row EXCEPT ![k] = [state |-> "inProgress", body |-> request[r].body,
                                          answer |-> NoAnswer]]
            /\ GoTo(r, "handle")
       ELSE GoTo(r, "replay") /\ UNCHANGED row
  /\ UNCHANGED <<runs, unkept, given, calls>>

\* Mutant: the body is not compared.
replayableForAnyBody(stored, body) == stored.state = "completed"

\* What replay refuses with a 409: a row gone meanwhile, another body, or an
\* operation still in progress.
replayable(stored, body) == stored.state = "completed" /\ stored.body = body

\* Mutant: a key found in progress is taken for a crashed one, and run again.
ReplayTakesOver(r) ==
  /\ At(r, "replay")
  /\ IF row[request[r].key].state = "inProgress" THEN GoTo(r, "handle") ELSE Finish(r)
  /\ UNCHANGED <<row, runs, unkept, given, calls>>

Replay(r) ==
  LET k == request[r].key IN
  /\ At(r, "replay")
  /\ given' = IF replayable(row[k], request[r].body)
                THEN [given EXCEPT ![k] = @ \union
                        {[body |-> request[r].body, run |-> row[k].answer.run]}]
                ELSE given
  /\ Finish(r)
  /\ UNCHANGED <<row, runs, unkept, calls>>

\* The handler commits what it does; its answer is still in memory.
Handle(r) ==
  /\ At(r, "handle")
  /\ runs' = [runs EXCEPT ![request[r].key] = @ + 1]
  /\ GoTo(r, "complete")
  /\ UNCHANGED <<row, unkept, given, calls>>

\* The handler throws before it commits anything.
HandlerFails(r) ==
  /\ At(r, "handle")
  /\ GoTo(r, "release")
  /\ UNCHANGED <<row, runs, unkept, given, calls>>

\* updateMany by key, then the answer goes to the client.
Complete(r) ==
  LET k == request[r].key IN
  /\ At(r, "complete")
  /\ row' = [row EXCEPT ![k] = IF @.state = "absent" THEN @
                               ELSE [@ EXCEPT !.state = "completed", !.answer = AnswerOf(r)]]
  /\ given' = [given EXCEPT ![k] = @ \union {AnswerOf(r)}]
  /\ Finish(r)
  /\ UNCHANGED <<runs, unkept, calls>>

\* The handler throws after its commit (createOrder still notifies), or the
\* write of the answer does: the same catch, although the operation took place.
FailsAfterEffect(r) ==
  /\ At(r, "complete")
  /\ unkept' = [unkept EXCEPT ![request[r].key] = @ + 1]
  /\ GoTo(r, "release")
  /\ UNCHANGED <<row, runs, given, calls>>

\* deleteMany of the row if it is not completed; its own failure is swallowed.
Release(r) ==
  LET k == request[r].key IN
  /\ At(r, "release")
  /\ \/ row' = [row EXCEPT ![k] = IF @.state = "inProgress" THEN Absent ELSE @]
     \/ UNCHANGED row
  /\ Finish(r)
  /\ UNCHANGED <<runs, unkept, given, calls>>

\* The process stops: the row keeps the state it has reached.
Crash(r) ==
  /\ ~ At(r, "idle")
  /\ Finish(r)
  /\ UNCHANGED <<row, runs, unkept, given, calls>>

\* The requests that hold a key: they inserted its row, and are not finished.
holders(k) == {r \in Requests : request[r].key = k
                                  /\ request[r].next \in {"handle", "complete", "release"}}

\* Mutant: only completed keys are purged.
PurgeCompleted(k) ==
  /\ row[k].state = "completed"
  /\ holders(k) = {}
  /\ row' = [row EXCEPT ![k] = Absent]
  /\ runs' = [runs EXCEPT ![k] = 0]
  /\ unkept' = [unkept EXCEPT ![k] = 0]
  /\ given' = [given EXCEPT ![k] = {}]
  /\ UNCHANGED <<request, calls>>

\* purgeExpired, within the hour that follows the key's 24 hours.  A request
\* lasts seconds: the one that inserted the key is over, but others may be on
\* their way to it.
Purge(k) ==
  /\ row[k].state # "absent"
  /\ holders(k) = {}
  /\ row' = [row EXCEPT ![k] = Absent]
  /\ runs' = [runs EXCEPT ![k] = 0]
  /\ unkept' = [unkept EXCEPT ![k] = 0]
  /\ given' = [given EXCEPT ![k] = {}]
  /\ UNCHANGED <<request, calls>>

Proceed(r) ==
  Claim(r) \/ Replay(r) \/ Handle(r) \/ HandlerFails(r) \/ Complete(r)
    \/ FailsAfterEffect(r) \/ Release(r)

Next ==
  \/ \E r \in Requests :
       \/ \E k \in Keys, b \in Bodies : Submit(r, k, b)
       \/ Proceed(r) \/ Crash(r)
  \/ \E k \in Keys : Purge(k)

Spec == Init /\ [][Next]_vars

\* The event loop runs what has begun, and the cron job purges every hour.
FairSpec == Spec /\ (\A r \in Requests : WF_vars(Proceed(r)))
                 /\ (\A k \in Keys : WF_vars(Purge(k)))

InProgressRows == [state : {"inProgress"}, body : Bodies, answer : {NoAnswer}]

CompletedRows == [state : {"completed"}, body : Bodies, answer : Answers]

RowRows == {Absent} \union InProgressRows \union CompletedRows

Steps == {"idle", "claim", "replay", "handle", "complete", "release"}

RequestRows == [next : Steps, key : Keys \union {NoKey},
                body : Bodies \union {NoBody}, run : 0..MaxCalls]

\* Every row has its type, and a request that has begun has a key and a body.
TypeOK ==
  /\ row \in [Keys -> RowRows]
  /\ request \in [Requests -> RequestRows]
  /\ \A r \in Requests : request[r].next # "idle" =>
       request[r].key \in Keys /\ request[r].body \in Bodies /\ request[r].run \in Runs
  /\ runs \in [Keys -> Nat] /\ unkept \in [Keys -> Nat]
  /\ given \in [Keys -> SUBSET Answers]
  /\ calls \in 0..MaxCalls

\* "une seule execution a la fois": two requests never run the operation of one
\* key at the same time, and the row says so as long as one does.
OneAtATime ==
  \A k \in Keys : \A r, s \in holders(k) : r = s /\ row[k].state = "inProgress"

\* An operation takes effect again only when an earlier effect was not answered:
\* a key in progress has at most one effect nobody answered for, a completed one
\* exactly one.
RunOncePerAnswer ==
  \A k \in Keys :
    /\ runs[k] <= unkept[k] + 1
    /\ row[k].state = "completed" => runs[k] = unkept[k] + 1
    /\ row[k].state = "absent" => runs[k] = unkept[k]

\* A client whose attempt is over, whatever became of it, may use the key again
\* one day: the failed operation frees it, the cron job frees the crashed one.
KeyComesBack ==
  \A k \in Keys : row[k].state = "inProgress" ~> row[k].state # "inProgress"

\* The answer of a key that is remembered: NoAnswer as long as it is in progress.
remembered == [k \in Keys |-> row[k].answer]

Promise == INSTANCE OneAnswer WITH kept <- remembered, given <- given

\* What a key promises: as long as it is remembered, every answer it gives is
\* the first one, and goes to the body that obtained it.
KeepsPromise == Promise!Spec
==============================================================================
