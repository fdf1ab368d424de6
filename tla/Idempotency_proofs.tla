------------------------- MODULE Idempotency_proofs -------------------------
(***************************************************************************)
(* For any number of keys, bodies and requests: two requests never run one *)
(* key's operation together, the operation takes effect again only when an *)
(* effect was not answered, and Idempotency implements OneAnswer.          *)
(***************************************************************************)
EXTENDS Idempotency, TLAPS

(***************************************************************************)
(* The inductive invariant.  A key's row is in progress as long as its     *)
(* holder runs, so nobody else can become its holder, and the holder's     *)
(* step says whether the effect that is not answered yet took place.       *)
(***************************************************************************)
HeldBy(k, r) ==
  /\ row[k].state = "inProgress" /\ row[k].body = request[r].body
  /\ runs[k] = unkept[k] + (IF request[r].next = "complete" THEN 1 ELSE 0)

KeyOK(k) ==
  /\ \A r \in holders(k) : HeldBy(k, r)
  /\ \A r, s \in holders(k) : r = s
  /\ row[k].state = "absent" => runs[k] = unkept[k]
  /\ row[k].state = "inProgress" => runs[k] \in {unkept[k], unkept[k] + 1}
  /\ row[k].state = "completed" => /\ runs[k] = unkept[k] + 1
                                   /\ row[k].answer.body = row[k].body
                                   /\ given[k] \subseteq {row[k].answer}
  /\ row[k].state # "completed" => given[k] = {}

KeysOK == \A k \in Keys : KeyOK(k)

\* The initial state has the types and the invariant.
LEMMA InitOK == Init => TypeOK /\ KeysOK
  BY IdempotencyAssumption
  DEF Init, TypeOK, KeysOK, KeyOK, holders, RowRows, RequestRows, Steps, Absent, Idle

\* A step that only moves a request on keeps the type of the requests.
LEMMA GoToType ==
  ASSUME TypeOK, NEW r \in Requests, NEW step \in Steps, ~ At(r, "idle"), GoTo(r, step)
  PROVE  /\ request' \in [Requests -> RequestRows]
         /\ \A q \in Requests : request'[q].next # "idle" =>
              request'[q].key \in Keys /\ request'[q].body \in Bodies /\ request'[q].run \in Runs
<1>1. [request[r] EXCEPT !.next = step] \in RequestRows
  BY DEF TypeOK, RequestRows
<1> QED
  BY <1>1 DEF TypeOK, GoTo, At

\* So does a step that ends one.
LEMMA FinishType ==
  ASSUME TypeOK, NEW r \in Requests, Finish(r)
  PROVE  /\ request' \in [Requests -> RequestRows]
         /\ \A q \in Requests : request'[q].next # "idle" =>
              request'[q].key \in Keys /\ request'[q].body \in Bodies /\ request'[q].run \in Runs
<1>1. Idle \in RequestRows
  BY IdempotencyAssumption DEF Idle, RequestRows, Steps
<1> QED
  BY <1>1 DEF TypeOK, Finish, Idle

\* Every step keeps the types.
LEMMA TypeStep == TypeOK /\ [Next]_vars => TypeOK'
<1> SUFFICES ASSUME TypeOK, [Next]_vars PROVE TypeOK'
  OBVIOUS
<1> USE IdempotencyAssumption
<1>1. ASSUME NEW r \in Requests, NEW k \in Keys, NEW b \in Bodies, Submit(r, k, b)
      PROVE TypeOK'
  <2>1. calls' \in 0..MaxCalls /\ calls' \in Runs
    BY <1>1 DEF Submit, TypeOK, Runs
  <2>2. [next |-> "claim", key |-> k, body |-> b, run |-> calls'] \in RequestRows
    BY <2>1 DEF RequestRows, Steps
  <2> QED
    BY <1>1, <2>1, <2>2 DEF Submit, TypeOK
<1>2. ASSUME NEW r \in Requests, Claim(r) PROVE TypeOK'
  <2>1. [state |-> "inProgress", body |-> request[r].body, answer |-> NoAnswer] \in RowRows
    BY <1>2 DEF Claim, At, TypeOK, RowRows, InProgressRows
  <2>2. row' \in [Keys -> RowRows]
    BY <1>2, <2>1 DEF Claim, TypeOK
  <2>3. PICK step \in Steps : GoTo(r, step)
    BY <1>2 DEF Claim, Steps
  <2>4. ~ At(r, "idle")
    BY <1>2 DEF Claim, At
  <2> QED
    BY <1>2, <2>2, <2>3, <2>4, GoToType DEF Claim, TypeOK
<1>3. ASSUME NEW r \in Requests, Replay(r) PROVE TypeOK'
  <2>1. given' \in [Keys -> SUBSET Answers]
    <3>1. CASE replayable(row[request[r].key], request[r].body)
      <4>1. row[request[r].key] \in CompletedRows
        BY <1>3, <3>1 DEF Replay, replayable, At, TypeOK, RowRows, Absent, InProgressRows
      <4>2. [body |-> request[r].body, run |-> row[request[r].key].answer.run] \in Answers
        BY <1>3, <4>1 DEF Replay, At, TypeOK, CompletedRows, Answers
      <4> QED
        BY <1>3, <3>1, <4>2 DEF Replay, TypeOK, At
    <3>2. CASE ~ replayable(row[request[r].key], request[r].body)
      BY <1>3, <3>2 DEF Replay, TypeOK
    <3> QED
      BY <3>1, <3>2
  <2> QED
    BY <1>3, <2>1, FinishType DEF Replay, TypeOK
<1>4. ASSUME NEW r \in Requests, Handle(r) \/ HandlerFails(r) PROVE TypeOK'
  <2>1. PICK step \in Steps : GoTo(r, step)
    BY <1>4 DEF Handle, HandlerFails, Steps
  <2>2. ~ At(r, "idle")
    BY <1>4 DEF Handle, HandlerFails, At
  <2>3. runs' \in [Keys -> Nat]
    BY <1>4 DEF Handle, HandlerFails, TypeOK
  <2> QED
    BY <1>4, <2>1, <2>2, <2>3, GoToType DEF Handle, HandlerFails, TypeOK
<1>5. ASSUME NEW r \in Requests, Complete(r) PROVE TypeOK'
  <2>1. request[r].key \in Keys /\ AnswerOf(r) \in Answers
    BY <1>5 DEF Complete, At, TypeOK, AnswerOf, Answers
  <2>2. row' \in [Keys -> RowRows]
    <3>1. ASSUME NEW old \in InProgressRows \union CompletedRows
          PROVE  [old EXCEPT !.state = "completed", !.answer = AnswerOf(r)] \in CompletedRows
      BY <2>1 DEF InProgressRows, CompletedRows
    <3>2. row[request[r].key] \in InProgressRows \union CompletedRows
            \/ row[request[r].key].state = "absent"
      BY <2>1 DEF TypeOK, RowRows, Absent
    <3> QED
      BY <1>5, <2>1, <3>1, <3>2 DEF Complete, TypeOK, RowRows
  <2>3. given' \in [Keys -> SUBSET Answers]
    BY <1>5, <2>1 DEF Complete, TypeOK
  <2> QED
    BY <1>5, <2>2, <2>3, FinishType DEF Complete, TypeOK
<1>6. ASSUME NEW r \in Requests, FailsAfterEffect(r) PROVE TypeOK'
  <2>1. PICK step \in Steps : GoTo(r, step)
    BY <1>6 DEF FailsAfterEffect, Steps
  <2>2. ~ At(r, "idle")
    BY <1>6 DEF FailsAfterEffect, At
  <2>3. unkept' \in [Keys -> Nat]
    <3>1. request[r].key \in Keys
      BY <1>6 DEF FailsAfterEffect, At, TypeOK
    <3>2. unkept[request[r].key] + 1 \in Nat
      BY <3>1 DEF TypeOK
    <3> QED
      BY <1>6, <3>1, <3>2 DEF FailsAfterEffect, TypeOK
  <2> QED
    BY <1>6, <2>1, <2>2, <2>3, GoToType DEF FailsAfterEffect, TypeOK
<1>7. ASSUME NEW r \in Requests, Release(r) \/ Crash(r) PROVE TypeOK'
  <2>1. row' \in [Keys -> RowRows]
    BY <1>7 DEF Release, Crash, TypeOK, RowRows
  <2> QED
    BY <1>7, <2>1, FinishType DEF Release, Crash, TypeOK
<1>8. ASSUME NEW k \in Keys, Purge(k) PROVE TypeOK'
  BY <1>8 DEF Purge, TypeOK, RowRows
<1>9. CASE UNCHANGED vars
  BY <1>9 DEF vars, TypeOK
<1> QED
  BY <1>1, <1>2, <1>3, <1>4, <1>5, <1>6, <1>7, <1>8, <1>9 DEF Next, Proceed

\* The steps of one request leave the other keys, and their holders, alone.
LEMMA OtherKeys ==
  ASSUME TypeOK, KeysOK, NEW r \in Requests, Proceed(r) \/ Crash(r),
         NEW k \in Keys, request[r].key # k
  PROVE  KeyOK(k)'
<1>1. request[r].key \in Keys
  BY DEF Proceed, Crash, Claim, Replay, Handle, HandlerFails, Complete, FailsAfterEffect,
         Release, At, TypeOK
<1>2. /\ row'[k] = row[k] /\ runs'[k] = runs[k] /\ unkept'[k] = unkept[k]
      /\ given'[k] = given[k]
  BY <1>1 DEF Proceed, Crash, Claim, Replay, Handle, HandlerFails, Complete, FailsAfterEffect,
         Release, TypeOK
<1>3. \A q \in Requests : q # r => request'[q] = request[q]
  BY DEF Proceed, Crash, Claim, Replay, Handle, HandlerFails, Complete, FailsAfterEffect,
         Release, TypeOK, GoTo, Finish
<1>4. request'[r].key # k
  BY <1>1, IdempotencyAssumption
  DEF Proceed, Crash, Claim, Replay, Handle, HandlerFails, Complete, FailsAfterEffect,
      Release, TypeOK, RequestRows, GoTo, Finish, Idle
<1>5. holders(k)' = holders(k)
  BY <1>3, <1>4 DEF holders
<1>6. KeyOK(k)
  BY DEF KeysOK
<1> QED
  BY <1>2, <1>3, <1>5, <1>6 DEF KeyOK, HeldBy, holders

\* A request that finishes holds nothing any more.
LEMMA Finished ==
  ASSUME TypeOK, NEW r \in Requests, Finish(r), NEW k \in Keys
  PROVE  /\ holders(k)' = holders(k) \ {r}
         /\ \A q \in holders(k) \ {r} : request'[q] = request[q]
BY IdempotencyAssumption DEF TypeOK, Finish, Idle, holders

\* A request that goes on keeps its key and its body.
LEMMA GoneTo ==
  ASSUME TypeOK, NEW r \in Requests, NEW step \in Steps, GoTo(r, step)
  PROVE  /\ request'[r].next = step
         /\ request'[r].key = request[r].key /\ request'[r].body = request[r].body
         /\ \A q \in Requests : q # r => request'[q] = request[q]
BY DEF TypeOK, RequestRows, GoTo
\* A step of a request keeps the invariant of the key it works on.
LEMMA OwnKey ==
  ASSUME TypeOK, KeysOK, NEW r \in Requests, Proceed(r) \/ Crash(r),
         NEW k \in Keys, request[r].key = k
  PROVE  KeyOK(k)'
<1> USE DEF At
<1>1. KeyOK(k)
  BY DEF KeysOK
<1>2. /\ runs[k] \in Nat /\ unkept[k] \in Nat /\ row[k] \in RowRows
      /\ request[r].next # "idle"
      /\ request[r].next # "idle" => request[r].body \in Bodies /\ request[r].run \in Runs
  BY DEF TypeOK, Proceed, Crash, Claim, Replay, Handle, HandlerFails, Complete,
         FailsAfterEffect, Release
<1>3. CASE Claim(r)
  <2>1. CASE row[k].state = "absent"
    <3>1. holders(k) = {}
      BY <1>1, <2>1 DEF KeyOK, HeldBy
    <3>2. GoTo(r, "handle") /\ "handle" \in Steps
      BY <1>3, <2>1 DEF Claim, Steps
    <3>3. holders(k)' = {r}
      BY <3>1, <3>2, GoneTo DEF holders
    <3>4. row'[k] = [state |-> "inProgress", body |-> request[r].body, answer |-> NoAnswer]
      BY <1>3, <2>1 DEF Claim, TypeOK
    <3>5. UNCHANGED <<runs, unkept, given>>
      BY <1>3 DEF Claim
    <3> QED
      BY <1>1, <1>2, <2>1, <3>2, <3>3, <3>4, <3>5, GoneTo DEF KeyOK, HeldBy
  <2>2. CASE row[k].state # "absent"
    <3>1. GoTo(r, "replay") /\ "replay" \in Steps
      BY <1>3, <2>2 DEF Claim, Steps
    <3>2. holders(k)' = holders(k) /\ r \notin holders(k)
      BY <1>3, <3>1, GoneTo DEF holders, Claim
    <3>3. UNCHANGED <<row, runs, unkept, given>>
      BY <1>3, <2>2 DEF Claim
    <3> QED
      BY <1>1, <3>1, <3>2, <3>3, GoneTo DEF KeyOK, HeldBy, holders
  <2> QED
    BY <2>1, <2>2
<1>4. CASE Replay(r)
  <2>1. r \notin holders(k)
    BY <1>4 DEF Replay, holders
  <2>2. Finish(r) /\ UNCHANGED <<row, runs, unkept>>
    BY <1>4 DEF Replay
  <2>3. holders(k)' = holders(k) /\ \A q \in holders(k) : request'[q] = request[q]
    BY <2>1, <2>2, Finished
  <2>4. CASE replayable(row[k], request[r].body)
    <3>1. row[k] \in CompletedRows /\ row[k].body = request[r].body
      BY <1>2, <2>4 DEF replayable, RowRows, Absent, InProgressRows
    <3>2. [body |-> request[r].body, run |-> row[k].answer.run] = row[k].answer
      BY <1>1, <3>1 DEF KeyOK, CompletedRows, Answers
    <3>3. given'[k] \subseteq given[k] \union {row[k].answer}
      BY <1>4, <2>4, <3>2 DEF Replay, TypeOK
    <3> QED
      BY <1>1, <2>2, <2>3, <2>4, <3>3 DEF KeyOK, HeldBy, replayable
  <2>5. CASE ~ replayable(row[k], request[r].body)
    BY <1>1, <1>4, <2>2, <2>3, <2>5 DEF KeyOK, HeldBy, Replay
  <2> QED
    BY <2>4, <2>5
<1>5. ASSUME NEW step \in Steps, GoTo(r, step),
             request[r].next \in {"handle", "complete", "release"},
             step \in {"handle", "complete", "release"},
             UNCHANGED <<row, given>>,
             runs'[k] \in {unkept'[k], unkept'[k] + 1},
             runs'[k] = unkept'[k] + (IF step = "complete" THEN 1 ELSE 0)
      PROVE  KeyOK(k)'
  <2>1. r \in holders(k)
    BY <1>5 DEF holders
  <2>2. holders(k) = {r} /\ HeldBy(k, r)
    BY <1>1, <2>1 DEF KeyOK
  <2>3. holders(k)' = {r}
    BY <1>5, <2>2, GoneTo DEF holders
  <2> QED
    BY <1>1, <1>5, <2>2, <2>3, GoneTo DEF KeyOK, HeldBy
<1>6. CASE Handle(r)
  <2>1. HeldBy(k, r)
    BY <1>1, <1>6 DEF KeyOK, holders, Handle
  <2>2. runs'[k] = unkept'[k] + 1
    BY <1>2, <1>6, <2>1 DEF Handle, HeldBy, TypeOK
  <2> QED
    BY <1>5, <1>6, <2>2 DEF Handle, Steps
<1>7. CASE HandlerFails(r)
  <2>1. HeldBy(k, r)
    BY <1>1, <1>7 DEF KeyOK, holders, HandlerFails
  <2>2. runs'[k] = unkept'[k]
    BY <1>2, <1>7, <2>1 DEF HandlerFails, HeldBy
  <2> QED
    BY <1>2, <1>5, <1>7, <2>2 DEF HandlerFails, Steps
<1>8. CASE FailsAfterEffect(r)
  <2>1. HeldBy(k, r)
    BY <1>1, <1>8 DEF KeyOK, holders, FailsAfterEffect
  <2>2. runs'[k] = unkept'[k] /\ runs'[k] \in Nat
    BY <1>2, <1>8, <2>1 DEF FailsAfterEffect, HeldBy, TypeOK
  <2> QED
    BY <1>5, <1>8, <2>2 DEF FailsAfterEffect, Steps
<1>9. CASE Complete(r)
  <2>1. holders(k) = {r} /\ HeldBy(k, r)
    BY <1>1, <1>9 DEF KeyOK, holders, Complete
  <2>2. Finish(r) /\ UNCHANGED <<runs, unkept>>
    BY <1>9 DEF Complete
  <2>3. holders(k)' = {}
    BY <2>1, <2>2, Finished
  <2>4. given'[k] = {AnswerOf(r)}
    BY <1>1, <1>9, <2>1 DEF Complete, KeyOK, HeldBy, TypeOK
  <2>5. /\ row'[k].state = "completed" /\ row'[k].body = request[r].body
        /\ row'[k].answer = AnswerOf(r)
    <3>1. row[k] \in InProgressRows
      BY <1>2, <2>1 DEF HeldBy, RowRows, Absent, CompletedRows
    <3> QED
      BY <1>9, <2>1, <3>1 DEF Complete, HeldBy, TypeOK, InProgressRows
  <2>6. runs[k] = unkept[k] + 1
    BY <1>9, <2>1 DEF HeldBy, Complete
  <2> QED
    BY <2>2, <2>3, <2>4, <2>5, <2>6 DEF KeyOK, AnswerOf
<1>10. CASE Release(r)
  <2>1. holders(k) = {r} /\ HeldBy(k, r)
    BY <1>1, <1>10 DEF KeyOK, holders, Release
  <2>2. Finish(r) /\ UNCHANGED <<runs, unkept, given>>
    BY <1>10 DEF Release
  <2>3. holders(k)' = {}
    BY <2>1, <2>2, Finished
  <2>4. row'[k] \in {row[k], Absent}
    BY <1>10 DEF Release, TypeOK
  <2>5. runs[k] = unkept[k]
    BY <1>2, <1>10, <2>1 DEF HeldBy, Release
  <2> QED
    BY <1>1, <1>2, <2>1, <2>2, <2>3, <2>4, <2>5 DEF KeyOK, HeldBy, Absent
<1>11. CASE Crash(r)
  <2>1. holders(k)' \subseteq holders(k) /\ \A q \in holders(k)' : request'[q] = request[q]
    BY <1>11, Finished DEF Crash
  <2> QED
    BY <1>1, <1>11, <2>1 DEF KeyOK, HeldBy, Crash
<1> QED
  BY <1>3, <1>4, <1>6, <1>7, <1>8, <1>9, <1>10, <1>11 DEF Proceed

\* A request that arrives holds nothing yet.
LEMMA SubmitStep ==
  ASSUME TypeOK, KeysOK, NEW r \in Requests, NEW j \in Keys, NEW b \in Bodies, Submit(r, j, b)
  PROVE  KeysOK'
<1> SUFFICES ASSUME NEW k \in Keys PROVE KeyOK(k)'
  BY DEF KeysOK
<1>1. holders(k)' = holders(k) /\ \A q \in holders(k) : request'[q] = request[q]
  BY DEF Submit, At, TypeOK, holders
<1> QED
  BY <1>1 DEF Submit, KeysOK, KeyOK, HeldBy

\* The purge finds no holder, and leaves the row as before any request.
LEMMA PurgeStep ==
  ASSUME TypeOK, KeysOK, NEW j \in Keys, Purge(j)
  PROVE  KeysOK'
<1> SUFFICES ASSUME NEW k \in Keys PROVE KeyOK(k)'
  BY DEF KeysOK
<1>1. holders(k)' = holders(k) /\ UNCHANGED request
  BY DEF Purge, holders
<1>2. CASE k = j
  BY <1>1, <1>2 DEF Purge, TypeOK, KeyOK, Absent
<1>3. CASE k # j
  BY <1>1, <1>3 DEF Purge, TypeOK, KeysOK, KeyOK, HeldBy
<1> QED
  BY <1>2, <1>3

\* Every step keeps the invariant of every key.
LEMMA KeysStep == TypeOK /\ KeysOK /\ [Next]_vars => KeysOK'
<1> SUFFICES ASSUME TypeOK, KeysOK, [Next]_vars PROVE KeysOK'
  OBVIOUS
<1>1. ASSUME NEW r \in Requests, Proceed(r) \/ Crash(r) PROVE KeysOK'
  BY <1>1, OwnKey, OtherKeys DEF KeysOK
<1>2. CASE UNCHANGED vars
  BY <1>2 DEF vars, KeysOK, KeyOK, HeldBy, holders
<1> QED
  BY <1>1, <1>2, SubmitStep, PurgeStep DEF Next

\* The two together are the inductive invariant.
LEMMA Invariant == Spec => [](TypeOK /\ KeysOK)
  BY InitOK, TypeStep, KeysStep, PTL DEF Spec

\* Every row and every request keeps its type; a completed row has its answer.
THEOREM KeyTypes == Spec => []TypeOK
  BY Invariant, PTL

\* One request at a time runs the operation of a key.
THEOREM OneRunAtATime == Spec => []OneAtATime
<1>1. TypeOK /\ KeysOK => OneAtATime
  BY DEF KeysOK, KeyOK, HeldBy, OneAtATime
<1> QED
  BY <1>1, Invariant, PTL

\* The operation of a key takes effect again only when an earlier effect went
\* unanswered.
THEOREM RunsAreAnswered == Spec => []RunOncePerAnswer
<1>1. TypeOK /\ KeysOK => RunOncePerAnswer
  <2> SUFFICES ASSUME TypeOK, KeysOK, NEW k \in Keys
               PROVE  /\ runs[k] <= unkept[k] + 1
                      /\ row[k].state = "completed" => runs[k] = unkept[k] + 1
                      /\ row[k].state = "absent" => runs[k] = unkept[k]
    BY DEF RunOncePerAnswer
  <2>1. KeyOK(k) /\ runs[k] \in Nat /\ unkept[k] \in Nat /\ row[k] \in RowRows
    BY DEF KeysOK, TypeOK
  <2>2. row[k].state \in {"absent", "inProgress", "completed"}
    BY <2>1 DEF RowRows, Absent, InProgressRows, CompletedRows
  <2> QED
    BY <2>1, <2>2 DEF KeyOK
<1> QED
  BY <1>1, Invariant, PTL

(***************************************************************************)
(* The implementation.  Completion settles a key, a replay gives its       *)
(* answer, the purge forgets it; every other step stutters.                *)
(***************************************************************************)
\* No answer is kept, and none given, at first.
LEMMA ImplementsInit == Init => Promise!Init
  BY DEF Init, Promise!Init, remembered, Absent

\* Every step is one of the abstract specification, or changes nothing it sees.
LEMMA ImplementsStep ==
  TypeOK /\ KeysOK /\ [Next]_vars => [Promise!Next]_<<remembered, given>>
<1> SUFFICES ASSUME TypeOK, KeysOK, [Next]_vars PROVE [Promise!Next]_<<remembered, given>>
  OBVIOUS
<1>1. ASSUME NEW r \in Requests, Claim(r) PROVE UNCHANGED <<remembered, given>>
  <2>1. request[r].key \in Keys
    BY <1>1 DEF Claim, At, TypeOK
  <2> QED
    BY <1>1, <2>1 DEF Claim, TypeOK, remembered, RowRows, Absent, InProgressRows, CompletedRows
<1>2. ASSUME NEW r \in Requests, Replay(r) PROVE [Promise!Next]_<<remembered, given>>
  <2> DEFINE k == request[r].key
  <2>1. k \in Keys /\ UNCHANGED remembered
    BY <1>2 DEF Replay, At, TypeOK, remembered
  <2>2. CASE ~ replayable(row[k], request[r].body)
    BY <1>2, <2>1, <2>2 DEF Replay
  <2>3. CASE replayable(row[k], request[r].body)
    <3>1. row[k] \in CompletedRows /\ KeyOK(k)
      BY <2>1, <2>3 DEF replayable, TypeOK, KeysOK, RowRows, Absent, InProgressRows
    <3>2. /\ [body |-> request[r].body, run |-> row[k].answer.run] = remembered[k]
          /\ remembered[k] # NoAnswer
      BY <2>1, <2>3, <3>1, IdempotencyAssumption
      DEF KeyOK, CompletedRows, Answers, remembered, replayable
    <3>3. Promise!Replay(k)
      BY <1>2, <2>1, <2>3, <3>2 DEF Replay, Promise!Replay
    <3> QED
      BY <2>1, <3>3 DEF Promise!Next
  <2> QED
    BY <2>2, <2>3
<1>3. ASSUME NEW r \in Requests,
             Handle(r) \/ HandlerFails(r) \/ FailsAfterEffect(r) \/ Crash(r)
      PROVE  UNCHANGED <<remembered, given>>
  BY <1>3 DEF Handle, HandlerFails, FailsAfterEffect, Crash, remembered
<1>4. ASSUME NEW r \in Requests, Complete(r) PROVE Promise!Next
  <2> DEFINE k == request[r].key
  <2>1. k \in Keys /\ AnswerOf(r) \in Answers /\ AnswerOf(r) \in Promise!Answers
    BY <1>4 DEF Complete, At, TypeOK, AnswerOf, Answers, Promise!Answers
  <2>2. HeldBy(k, r) /\ KeyOK(k)
    BY <1>4, <2>1 DEF Complete, At, KeysOK, KeyOK, holders
  <2>3. row[k] \in InProgressRows
    BY <2>1, <2>2 DEF HeldBy, TypeOK, RowRows, Absent, CompletedRows
  <2>4. remembered[k] = NoAnswer /\ given[k] = {}
    BY <2>1, <2>2, <2>3 DEF remembered, InProgressRows, KeyOK
  <2>5. remembered' = [remembered EXCEPT ![k] = AnswerOf(r)]
    BY <1>4, <2>1, <2>3 DEF Complete, TypeOK, remembered, InProgressRows
  <2>6. given' = [given EXCEPT ![k] = {AnswerOf(r)}]
    BY <1>4, <2>1, <2>4 DEF Complete, TypeOK
  <2>7. Promise!Settle(k, AnswerOf(r))
    BY <2>4, <2>5, <2>6 DEF Promise!Settle
  <2> QED
    BY <2>1, <2>7 DEF Promise!Next
<1>5. ASSUME NEW r \in Requests, Release(r) PROVE UNCHANGED <<remembered, given>>
  <2>1. request[r].key \in Keys
    BY <1>5 DEF Release, At, TypeOK
  <2>2. row[request[r].key].state = "inProgress" => row[request[r].key].answer = NoAnswer
    BY <2>1 DEF TypeOK, RowRows, Absent, InProgressRows, CompletedRows
  <2> QED
    BY <1>5, <2>1, <2>2 DEF Release, TypeOK, remembered, Absent
<1>6. ASSUME NEW k \in Keys, Purge(k) PROVE Promise!Next
  <2>1. Promise!Forget(k)
    BY <1>6 DEF Purge, TypeOK, remembered, Absent, Promise!Forget
  <2> QED
    BY <1>6, <2>1 DEF Promise!Next
<1>7. ASSUME NEW r \in Requests, NEW k \in Keys, NEW b \in Bodies, Submit(r, k, b)
      PROVE UNCHANGED <<remembered, given>>
  BY <1>7 DEF Submit, remembered
<1>8. CASE UNCHANGED vars
  BY <1>8 DEF vars, remembered
<1> QED
  BY <1>1, <1>2, <1>3, <1>4, <1>5, <1>6, <1>7, <1>8 DEF Next, Proceed

\* Whatever is retried, crashed or run together, a key that is remembered gives
\* its first answer only, and only to the body that obtained it.
THEOREM Implements == Spec => KeepsPromise
  BY Invariant, ImplementsInit, ImplementsStep, PTL DEF Spec, KeepsPromise, Promise!Spec
=============================================================================
