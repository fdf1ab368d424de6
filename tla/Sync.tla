--------------------------------- MODULE Sync ---------------------------------
(***************************************************************************)
(* src/sync: the server of the restaurant (LOCAL) and the one online       *)
(* (CLOUD), which copy each other's writes.                                *)
(*                                                                         *)
(* Database triggers journal every write of the application in the         *)
(* outbox.  LOCAL runs the exchange: it pushes what it has not sent yet,   *)
(* then pulls what CLOUD journaled after its cursor; both sides apply a    *)
(* batch with the same code.  A batch is applied a change at a time, each  *)
(* in its own transaction, and between the examination of a change and its *)
(* write the application may write too.                                    *)
(*                                                                         *)
(* The clocks of the two servers agree.  A row is the write it comes from, *)
(* how far the order has gone (0 for a document), and updatedAt.           *)
(***************************************************************************)
EXTENDS Integers, FiniteSets

CONSTANTS
  Orders,       \* orders: SHARED, created by Home
  Documents,    \* rows of one owner: LOCAL's menu and purchases, CLOUD's deliveries...
  Home,         \* the server an order is created on
  Owner,        \* ENTITY_OWNERSHIP of a document
  Writers,      \* the servers whose application writes a document
  Handlers,     \* the runs of apply() there may be at a time
  BatchSize,    \* sync.batchSize
  Gaps,         \* what the clock advances by from a write to the next: 0 is a shared millisecond
  MaxWrites,    \* bound: changes journaled
  MaxStatus,    \* bound: how far an order goes
  MaxOpen,      \* bound: transactions of the application open at once
  MaxCuts,      \* bound: lost requests, timeouts, restarts
  MaxErrors     \* bound: database errors while a change is applied

Nodes == {"LOCAL", "CLOUD"}
Rows == Orders \union Documents

ASSUME SyncAssumption ==
  /\ Orders \intersect Documents = {}
  /\ Home \in [Orders -> Nodes] /\ Owner \in [Documents -> Nodes]
  /\ Writers \in [Documents -> SUBSET Nodes]
  /\ Gaps \subseteq Nat
  /\ BatchSize \in Nat \ {0} /\ MaxWrites \in Nat /\ MaxStatus \in Nat
  /\ MaxOpen \in Nat /\ MaxCuts \in Nat /\ MaxErrors \in Nat

VARIABLES
  rows,        \* the tables of each node
  events,      \* order_status_history of each node
  open,        \* the application's transactions that have not committed
  outbox,      \* sync_outbox of each node
  delivery,    \* what LOCAL knows of each change it journaled
  applied,     \* sync_applied of each node
  conflicts,   \* sync_conflicts of each node: the changes set aside
  cursor,      \* sync_state.cursor of LOCAL
  cycle,       \* LOCAL's exchange under way
  handler,     \* the runs of apply()
  clock, journaled, cuts, errors,
  written      \* ledger: how many times each change was written on the peer

store == <<rows, events, outbox>>
exchange == <<delivery, cursor, cycle>>
bounds == <<journaled, cuts, errors>>
vars == <<rows, events, open, outbox, delivery, applied, conflicts, cursor, cycle, handler,
          clock, journaled, cuts, errors, written>>

Ids == 1..MaxWrites
NoRow == [by |-> 0, status |-> 0, updatedAt |-> 0]
RowValues == [by : Nat, status : Nat, updatedAt : Nat]

\* A change carries the whole row, or the row of history it adds.
Changes == [id : Nat, origin : Nodes, kind : {"row", "event"}, row : Rows, payload : RowValues,
            occurredAt : Nat]
NoChange == [id |-> 0, origin |-> "LOCAL", kind |-> "none", row |-> 0, payload |-> NoRow,
             occurredAt |-> 0]

Statuses == {"PENDING", "SENT", "FAILED"}

peerOf(n) == IF n = "LOCAL" THEN "CLOUD" ELSE "LOCAL"

Free == [node |-> "LOCAL", step |-> "idle", batch |-> {}, todo |-> {}, current |-> NoChange,
         accepted |-> {}, touched |-> {}, latest |-> 0]

Waiting(h) == cycle.step \in {"pushing", "pulling"} /\ cycle.handler = h

\* The row is locked by a transaction of the application.
locked(n, row) ==
  \E t \in open : t.node = n /\ \E c \in t.changes : c.kind = "row" /\ c.row = row

Init ==
  /\ rows = [n \in Nodes |-> [r \in Rows |-> NoRow]]
  /\ events = [n \in Nodes |-> [o \in Orders |-> {}]]
  /\ open = {}
  /\ outbox = [n \in Nodes |-> {}]
  /\ delivery = [i \in Ids |-> "PENDING"]
  /\ applied = [n \in Nodes |-> {}] /\ conflicts = [n \in Nodes |-> {}]
  /\ cursor = 0
  /\ cycle \in {[step |-> "idle", handler |-> h] : h \in Handlers}
  /\ handler = [h \in Handlers |-> Free]
  /\ clock = 0 /\ journaled = 0 /\ cuts = 0 /\ errors = 0
  /\ written = [i \in Ids |-> 0]

-----------------------------------------------------------------------------
(* The application, and the triggers that journal what it writes.           *)

\* A transaction opens with its writes, each at the clock of its trigger, the
\* last one now.
OpenWith(n, changes, last, now) ==
  /\ Cardinality(open) < MaxOpen
  /\ last <= MaxWrites
  /\ open' = open \union {[node |-> n, changes |-> changes]}
  /\ journaled' = last
  /\ clock' = now
  /\ UNCHANGED <<store, exchange, applied, conflicts, handler, cuts, errors, written>>

ChangeOf(n, id, kind, row, status, at) ==
  [id |-> id, origin |-> n, kind |-> kind, row |-> row,
   payload |-> [by |-> id, status |-> status, updatedAt |-> at], occurredAt |-> at]

WriteDocument(n, d, gap) ==
  /\ n \in Writers[d] /\ ~ locked(n, d)
  /\ OpenWith(n, {ChangeOf(n, journaled + 1, "row", d, 0, clock + gap)}, journaled + 1, clock + gap)

DeleteDocument(n, d, gap) ==
  /\ n \in Writers[d] /\ ~ locked(n, d) /\ rows[n][d] # NoRow
  /\ OpenWith(n, {[ChangeOf(n, journaled + 1, "row", d, 0, clock + gap) EXCEPT
                     !.payload = NoRow]}, journaled + 1, clock + gap)

\* A write of an order that leaves its status: its payment, its note...
EditOrder(n, o, gap) ==
  /\ ~ locked(n, o) /\ rows[n][o] # NoRow
  /\ OpenWith(n, {ChangeOf(n, journaled + 1, "row", o, rows[n][o].status, clock + gap)},
              journaled + 1, clock + gap)

\* An order is created, or goes further, with a row of history.
MoveOrder(n, o, gap, next) ==
  LET status == rows[n][o].status + 1 IN
  /\ ~ locked(n, o) /\ status <= MaxStatus
  /\ rows[n][o] = NoRow => n = Home[o]
  /\ OpenWith(n, {ChangeOf(n, journaled + 1, "row", o, status, clock + gap),
                  ChangeOf(n, journaled + 2, "event", o, status, clock + gap + next)},
              journaled + 2, clock + gap + next)

\* What a row becomes with a set of changes, and the history with its events.
rowAfter(before, row, changes) ==
  IF \E c \in changes : c.kind = "row" /\ c.row = row
    THEN (CHOOSE c \in changes : c.kind = "row" /\ c.row = row).payload
    ELSE before

eventsOf(o, changes) == {c.payload : c \in {x \in changes : x.kind = "event" /\ x.row = o}}

Commit(t) ==
  /\ rows' = [rows EXCEPT ![t.node] = [r \in Rows |-> rowAfter(@[r], r, t.changes)]]
  /\ events' = [events EXCEPT ![t.node] = [o \in Orders |-> @[o] \union eventsOf(o, t.changes)]]
  /\ outbox' = [outbox EXCEPT ![t.node] = @ \union t.changes]
  /\ open' = open \ {t}
  /\ UNCHANGED <<exchange, applied, conflicts, handler, clock, bounds, written>>

-----------------------------------------------------------------------------
(* LOCAL's cycle.                                                           *)

\* Mutant: without the ORDER BY.
PagesInAnyOrder(changes, n) ==
  {page \in SUBSET changes :
     Cardinality(page) = IF Cardinality(changes) < n THEN Cardinality(changes) ELSE n}

\* ORDER BY occurredAt LIMIT n: the database orders ties as it likes.
Pages(changes, n) ==
  {page \in SUBSET changes :
     /\ Cardinality(page) = IF Cardinality(changes) < n THEN Cardinality(changes) ELSE n
     /\ \A c \in page, d \in changes \ page : c.occurredAt <= d.occurredAt}

Run(h, n, step, batch) ==
  handler' = [handler EXCEPT ![h] =
    [node |-> n, step |-> step, batch |-> batch, todo |-> batch, current |-> NoChange,
     accepted |-> {}, touched |-> {}, latest |-> 0]]

\* push selects what is pending and what was refused.
toSend == {c \in outbox["LOCAL"] : delivery[c.id] \in {"PENDING", "FAILED"}}

Push(h) ==
  /\ cycle.step = "idle" /\ handler[h].step = "idle"
  /\ toSend # {}
  /\ \E batch \in Pages(toSend, BatchSize) : Run(h, "CLOUD", "travel", batch)
  /\ cycle' = [step |-> "pushing", handler |-> h]
  /\ UNCHANGED <<store, open, delivery, applied, conflicts, cursor, clock, bounds, written>>

NothingToPush ==
  /\ cycle.step = "idle" /\ toSend = {}
  /\ cycle' = [cycle EXCEPT !.step = "pull"]
  /\ UNCHANGED <<store, open, delivery, applied, conflicts, cursor, handler, clock, bounds, written>>

Arrive(h) ==
  /\ handler[h].step = "travel"
  /\ handler' = [handler EXCEPT ![h].step = "next"]
  /\ UNCHANGED <<store, open, exchange, applied, conflicts, clock, bounds, written>>

\* Mutant: the whole batch is marked as sent.
AnsweredAll(h) ==
  LET q == handler[h] IN
  /\ cycle.step = "pushing" /\ cycle.handler = h /\ q.step = "done"
  /\ \E marked \in SUBSET q.batch :
       /\ delivery' = [i \in Ids |-> IF \E c \in marked : c.id = i THEN "SENT" ELSE delivery[i]]
       /\ IF marked = q.batch
            THEN cycle' = [cycle EXCEPT !.step = "pull"] /\ UNCHANGED cuts
            ELSE cuts < MaxCuts /\ cuts' = cuts + 1 /\ cycle' = [cycle EXCEPT !.step = "idle"]
  /\ handler' = [handler EXCEPT ![h] = Free]
  /\ UNCHANGED <<store, open, applied, conflicts, cursor, clock, journaled, errors, written>>

\* The answer arrives, and the changes are marked one by one: LOCAL may stop
\* before the last.
Answered(h) ==
  LET q == handler[h] IN
  /\ cycle.step = "pushing" /\ cycle.handler = h /\ q.step = "done"
  /\ \E marked \in SUBSET q.batch :
       /\ delivery' = [i \in Ids |->
            IF \E c \in marked : c.id = i
              THEN IF i \in q.accepted THEN "SENT" ELSE "FAILED"
              ELSE delivery[i]]
       /\ IF marked = q.batch
            THEN cycle' = [cycle EXCEPT !.step = "pull"] /\ UNCHANGED cuts
            ELSE cuts < MaxCuts /\ cuts' = cuts + 1 /\ cycle' = [cycle EXCEPT !.step = "idle"]
  /\ handler' = [handler EXCEPT ![h] = Free]
  /\ UNCHANGED <<store, open, applied, conflicts, cursor, clock, journaled, errors, written>>

\* changesSince: strictly after the cursor.
toPull == {c \in outbox["CLOUD"] : c.occurredAt > cursor}

Pull(h) ==
  /\ cycle.step = "pull" /\ handler[h].step = "idle"
  /\ toPull # {}
  /\ \E page \in Pages(toPull, BatchSize) : Run(h, "LOCAL", "next", page)
  /\ cycle' = [step |-> "pulling", handler |-> h]
  /\ UNCHANGED <<store, open, delivery, applied, conflicts, cursor, clock, bounds, written>>

NothingToPull ==
  /\ cycle.step = "pull" /\ toPull = {}
  /\ cycle' = [cycle EXCEPT !.step = "idle"]
  /\ UNCHANGED <<store, open, delivery, applied, conflicts, cursor, handler, clock, bounds, written>>

isLast(c, page) == \A d \in page : d.occurredAt <= c.occurredAt

\* Mutant: the cursor is the clock's.
PulledNow(h) ==
  LET q == handler[h] IN
  /\ cycle.step = "pulling" /\ cycle.handler = h /\ q.step = "done"
  /\ cursor' = clock
  /\ cycle' = [cycle EXCEPT !.step = "idle"]
  /\ handler' = [handler EXCEPT ![h] = Free]
  /\ UNCHANGED <<store, open, delivery, applied, conflicts, clock, bounds, written>>

Pulled(h) ==
  LET q == handler[h] IN
  /\ cycle.step = "pulling" /\ cycle.handler = h /\ q.step = "done"
  /\ \E c \in q.batch : isLast(c, q.batch) /\ cursor' = c.occurredAt
  /\ cycle' = [cycle EXCEPT !.step = "idle"]
  /\ handler' = [handler EXCEPT ![h] = Free]
  /\ UNCHANGED <<store, open, delivery, applied, conflicts, clock, bounds, written>>

\* A request that nobody waits for any more.
Ignored(h) ==
  /\ handler[h].step = "done" /\ ~ Waiting(h)
  /\ handler' = [handler EXCEPT ![h] = Free]
  /\ UNCHANGED <<store, open, exchange, applied, conflicts, clock, bounds, written>>

-----------------------------------------------------------------------------
(* SyncApplyService.apply, on either node.                                  *)

\* orderChanges: by rank (an order before its history), then by time.
comesFirst(c, todo) ==
  \A d \in todo :
    IF c.kind = d.kind THEN c.occurredAt <= d.occurredAt ELSE c.kind = "row"

\* judge: history is never refused, an owner hears only itself, and an order is
\* not overwritten by a change older than its last write here.
refusedBy(n, c) ==
  /\ c.kind = "row"
  /\ IF c.row \in Documents
       THEN Owner[c.row] = n
       ELSE rows[n][c.row].updatedAt > c.occurredAt

touching(c) == IF c.kind = "event" THEN {c.row} ELSE {}

\* applyOne, to its transaction: a change already applied is accepted as it is.
Examine(h) ==
  LET q == handler[h] IN
  /\ q.step = "next"
  /\ \E c \in q.todo :
       /\ comesFirst(c, q.todo)
       /\ \/ /\ c.id \in applied[q.node]
             /\ handler' = [handler EXCEPT ![h] =
                  [q EXCEPT !.todo = @ \ {c}, !.accepted = @ \union {c.id},
                            !.touched = @ \union touching(c)]]
             /\ UNCHANGED conflicts
          \/ /\ c.id \notin applied[q.node] /\ refusedBy(q.node, c)
             /\ handler' = [handler EXCEPT ![h].todo = @ \ {c}]
             /\ conflicts' = [conflicts EXCEPT ![q.node] = @ \union {c.id}]
          \/ /\ c.id \notin applied[q.node] /\ ~ refusedBy(q.node, c)
             /\ handler' = [handler EXCEPT ![h] = [q EXCEPT !.step = "write", !.current = c]]
             /\ UNCHANGED conflicts
  /\ UNCHANGED <<store, open, exchange, applied, clock, bounds, written>>

\* Mutant: sync_applied is not a key.
alwaysWritable(n, c) == TRUE

\* The keys the transaction must respect: sync_applied's, and the order of a row
\* of history.
writable(n, c) ==
  /\ c.id \notin applied[n]
  /\ c.kind = "event" => rows[n][c.row] # NoRow

\* The row (or its absence, for a DELETE) and the mark, in one transaction.
Write(h) ==
  LET q == handler[h]
      c == q.current
  IN
  /\ q.step = "write" /\ ~ locked(q.node, c.row) /\ writable(q.node, c)
  /\ IF c.kind = "event"
       THEN /\ events' = [events EXCEPT ![q.node][c.row] = @ \union {c.payload}]
            /\ UNCHANGED rows
       ELSE /\ rows' = [rows EXCEPT ![q.node][c.row] = c.payload]
            /\ UNCHANGED events
  /\ applied' = [applied EXCEPT ![q.node] = @ \union {c.id}]
  /\ written' = [written EXCEPT ![c.id] = @ + 1]
  /\ handler' = [handler EXCEPT ![h] =
       [q EXCEPT !.step = "next", !.current = NoChange, !.todo = @ \ {c},
                 !.accepted = @ \union {c.id}, !.touched = @ \union touching(c)]]
  /\ UNCHANGED <<open, outbox, exchange, conflicts, clock, bounds>>

\* The transaction fails: the change is set aside, and the batch goes on.
SetAside(h) ==
  LET q == handler[h]
      c == q.current
  IN
  /\ handler' = [handler EXCEPT ![h] =
       [q EXCEPT !.step = "next", !.current = NoChange, !.todo = @ \ {c}]]
  /\ conflicts' = [conflicts EXCEPT ![q.node] = @ \union {c.id}]
  /\ UNCHANGED <<store, open, exchange, applied, clock, journaled, cuts, written>>

WriteRefused(h) ==
  /\ handler[h].step = "write" /\ ~ writable(handler[h].node, handler[h].current)
  /\ SetAside(h) /\ UNCHANGED errors

WriteFails(h) ==
  /\ handler[h].step = "write" /\ errors < MaxErrors
  /\ errors' = errors + 1
  /\ SetAside(h)

\* recomputeOrderStatus: the order as its latest event has it.
isLatest(e, all) == \A f \in all : f.updatedAt <= e.updatedAt

Recompute(h) ==
  LET q == handler[h] IN
  /\ q.step = "next" /\ q.todo = {}
  /\ \E o \in q.touched :
       \E e \in {f \in events[q.node][o] : isLatest(f, events[q.node][o])} :
         handler' = [handler EXCEPT ![h] =
           IF rows[q.node][o].status = e.status
             THEN [q EXCEPT !.touched = @ \ {o}]
             ELSE [q EXCEPT !.step = "recompute", !.current = [NoChange EXCEPT !.row = o],
                            !.latest = e.status]]
  /\ UNCHANGED <<store, open, exchange, applied, conflicts, clock, bounds, written>>

\* The write bears the time it is made at, and is not journaled.
RecomputeWrite(h) ==
  LET q == handler[h]
      o == q.current.row
  IN
  /\ q.step = "recompute" /\ ~ locked(q.node, o)
  /\ \E gap \in Gaps :
       /\ clock' = clock + gap
       /\ rows' = [rows EXCEPT ![q.node][o] =
                    [@ EXCEPT !.status = q.latest, !.updatedAt = clock + gap]]
  /\ handler' = [handler EXCEPT ![h] =
       [q EXCEPT !.step = "next", !.current = NoChange, !.touched = @ \ {o}, !.latest = 0]]
  /\ UNCHANGED <<events, outbox, open, exchange, applied, conflicts, bounds, written>>

Finish(h) ==
  /\ handler[h].step = "next" /\ handler[h].todo = {} /\ handler[h].touched = {}
  /\ handler' = [handler EXCEPT ![h].step = "done"]
  /\ UNCHANGED <<store, open, exchange, applied, conflicts, clock, bounds, written>>

-----------------------------------------------------------------------------
(* The line, and the servers.                                               *)

Cut == cuts < MaxCuts /\ cuts' = cuts + 1

\* The push is lost before it arrives, or its answer after it was applied.
Lost(h) ==
  /\ cycle.step = "pushing" /\ cycle.handler = h /\ handler[h].step \in {"travel", "done"}
  /\ Cut
  /\ cycle' = [cycle EXCEPT !.step = "idle"]
  /\ handler' = [handler EXCEPT ![h] = Free]
  /\ UNCHANGED <<store, open, delivery, applied, conflicts, cursor, clock, journaled, errors, written>>

\* Ten seconds without an answer: LOCAL gives up, and CLOUD goes on.
Timeout(h) ==
  /\ cycle.step = "pushing" /\ cycle.handler = h
  /\ Cut
  /\ cycle' = [cycle EXCEPT !.step = "idle"]
  /\ UNCHANGED <<store, open, delivery, applied, conflicts, cursor, handler, clock, journaled, errors,
                 written>>

\* Mutant: running stays true.
PullFailsRunning ==
  /\ cycle.step = "pull"
  /\ Cut
  /\ cycle' = [cycle EXCEPT !.step = "pulling"]
  /\ UNCHANGED <<store, open, delivery, applied, conflicts, cursor, handler, clock, journaled, errors,
                 written>>

PullFails ==
  /\ cycle.step = "pull"
  /\ Cut
  /\ cycle' = [cycle EXCEPT !.step = "idle"]
  /\ UNCHANGED <<store, open, delivery, applied, conflicts, cursor, handler, clock, journaled, errors,
                 written>>

\* A server restarts: what it was doing is lost, what it committed stays.
Restart(n) ==
  /\ Cut
  /\ handler' = [h \in Handlers |->
       IF handler[h].node = n /\ handler[h].step \notin {"idle", "travel"} THEN Free ELSE handler[h]]
  /\ open' = {t \in open : t.node # n}
  /\ cycle' = IF n = "LOCAL" \/ (cycle.step = "pushing" /\ handler[cycle.handler].step # "travel")
                THEN [cycle EXCEPT !.step = "idle"] ELSE cycle
  /\ UNCHANGED <<store, delivery, applied, conflicts, cursor, clock, journaled, errors, written>>

Application ==
  \/ \E n \in Nodes, gap \in Gaps :
       \/ \E d \in Documents : WriteDocument(n, d, gap) \/ DeleteDocument(n, d, gap)
       \/ \E o \in Orders :
            \/ EditOrder(n, o, gap)
            \/ \E next \in Gaps : MoveOrder(n, o, gap, next)

Apply(h) ==
  Arrive(h) \/ Examine(h) \/ Write(h) \/ WriteRefused(h) \/ Recompute(h) \/ RecomputeWrite(h)
  \/ Finish(h) \/ Ignored(h)

Exchange ==
  NothingToPush \/ NothingToPull
  \/ \E h \in Handlers : Push(h) \/ Answered(h) \/ Pull(h) \/ Pulled(h)

Next ==
  \/ Application \/ (\E t \in open : Commit(t)) \/ Exchange
  \/ (\E h \in Handlers : Apply(h) \/ WriteFails(h) \/ Lost(h) \/ Timeout(h))
  \/ PullFails \/ (\E n \in Nodes : Restart(n))

Spec == Init /\ [][Next]_vars

\* A transaction ends, apply() goes on, and the timer runs the cycle again and
\* again.
Fairness ==
  /\ WF_vars(\E t \in open : Commit(t))
  /\ WF_vars(Exchange)
  /\ \A h \in Handlers : WF_vars(Apply(h))

FairSpec == Spec /\ Fairness

-----------------------------------------------------------------------------
(* Properties.                                                              *)

\* The step of a run that works on no change: the order recomputed, or nothing.
NoChanges == [id : {0}, origin : {"LOCAL"}, kind : {"none"}, row : Orders \union {0},
              payload : {NoRow}, occurredAt : {0}]

HandlerRows == [node : Nodes, step : {"idle", "travel", "next", "write", "recompute", "done"},
                batch : SUBSET Changes, todo : SUBSET Changes,
                current : Changes \union NoChanges,
                accepted : SUBSET Ids, touched : SUBSET Orders, latest : Nat]

\* A change that n journaled.
journaledBy(n, c) ==
  /\ c \in Changes /\ c.origin = n /\ c.id \in 1..journaled /\ c.occurredAt <= clock
  /\ c.kind = "event" => c.row \in Orders

TablesOK ==
  /\ rows \in [Nodes -> [Rows -> RowValues]]
  /\ events \in [Nodes -> [Orders -> SUBSET RowValues]]
  /\ \A t \in open : t.node \in Nodes /\ \A c \in t.changes : journaledBy(t.node, c)
  /\ outbox \in [Nodes -> SUBSET Changes]
  /\ \A n \in Nodes : \A c \in outbox[n] : journaledBy(n, c)
  /\ applied \in [Nodes -> SUBSET Ids] /\ conflicts \in [Nodes -> SUBSET Ids]
  /\ clock \in Nat /\ journaled \in 0..MaxWrites
  /\ written \in [Ids -> Nat]

ExchangeOK ==
  /\ delivery \in [Ids -> Statuses]
  /\ cursor \in Nat /\ cursor <= clock
  /\ cycle \in [step : {"idle", "pushing", "pull", "pulling"}, handler : Handlers]
  /\ cuts \in 0..MaxCuts /\ errors \in 0..MaxErrors

\* A run works on what the peer journaled.
wellFormed(q) ==
  /\ q.batch \subseteq outbox[peerOf(q.node)] /\ q.todo \subseteq q.batch
  /\ q.step = "write" => q.current \in q.todo
  /\ q.step = "recompute" => q.current.row \in Orders

RunsOK ==
  /\ handler \in [Handlers -> HandlerRows]
  /\ \A h \in Handlers : wellFormed(handler[h])

\* The type of every table, and of every batch: LOCAL applies what CLOUD wrote,
\* and CLOUD what LOCAL did.
TypeOK == TablesOK /\ ExchangeOK /\ RunsOK

\* "Une vente ne peut pas etre comptee deux fois parce que le reseau a hoquete":
\* a change is written once on the peer, however often it is sent, by however
\* many batches at a time.
WrittenOnce == \A i \in Ids : written[i] <= 1

\* What LOCAL believes sent is on CLOUD: an answer that is lost, late, or of a
\* batch sent twice never marks what was not written.
SentWasApplied ==
  \A c \in outbox["LOCAL"] : delivery[c.id] = "SENT" => c.id \in applied["CLOUD"]

\* "Le curseur n'avance que sur ce qui a ete traite": LOCAL has applied, or set
\* aside, all that CLOUD wrote up to the cursor.
NothingSkipped ==
  \A c \in outbox["CLOUD"] : c.occurredAt <= cursor =>
    c.id \in applied["LOCAL"] \union conflicts["LOCAL"]

\* The peer has received what the owner of d wrote of it, as far as LOCAL's marks
\* or the cursor say.
received(d) ==
  IF Owner[d] = "LOCAL"
    THEN \A c \in outbox["LOCAL"] : c.row = d => delivery[c.id] = "SENT"
    ELSE \A c \in outbox["CLOUD"] : c.row = d => c.occurredAt <= cursor

\* A document that only its owner writes is the same on both sides when all of
\* it was received: no resend and no late batch has put an older version back.
OwnedCopyFollows ==
  \A d \in Documents : Writers[d] = {Owner[d]} /\ received(d) =>
    rows[peerOf(Owner[d])][d] = rows[Owner[d]][d]

\* The change i is the owner's word on a document.
ownersWord(i) ==
  \E n \in Nodes : \E c \in outbox[n] : c.id = i /\ c.row \in Documents /\ Owner[c.row] = n

\* What CLOUD refused, and LOCAL sends again before c, fills LOCAL's page.
heldUp(i) ==
  \E c \in outbox["LOCAL"] : c.id = i /\
    BatchSize <= Cardinality({d \in toSend : delivery[d.id] = "FAILED"
                                              /\ d.occurredAt < c.occurredAt})

\* The line comes back: what the owner of a document writes of it is applied by
\* the peer, through lost and late answers and beside changes refused for good,
\* unless these are enough to fill a page of LOCAL's.
Arrives ==
  \A i \in Ids : ownersWord(i) ~> (\E n \in Nodes : i \in applied[n]) \/ heldUp(i)

\* "Elle ... ne repart pas indefiniment": what is refused holds nothing up.
EveryWordArrives ==
  \A i \in Ids : ownersWord(i) ~> (\E n \in Nodes : i \in applied[n])

\* "On n'ecrase jamais en silence": applying a change never replaces a version of
\* an order that is more recent.
NeverOverNewer ==
  [][\A h \in Handlers :
       handler[h].step = "write" /\ handler'[h].step = "next" /\ handler[h].current.kind = "row"
         /\ handler[h].current.row \in Orders
         /\ rows'[handler[h].node] # rows[handler[h].node]
       => rows[handler[h].node][handler[h].current.row].updatedAt
            <= handler[h].current.occurredAt]_vars

\* "Il n'est pas replique mais recalcule depuis son historique": with nothing
\* under way, an order is where the latest row of its history says.
StatusFollowsHistory ==
  cycle.step = "idle" /\ (\A h \in Handlers : handler[h].step = "idle") =>
    \A n \in Nodes, o \in Orders :
      events[n][o] # {} =>
        \E e \in events[n][o] : isLatest(e, events[n][o]) /\ rows[n][o].status = e.status

\* "Elle est marquee en echec, avec son motif, et attend un examen": a change the
\* peer refused is not sent again.
SetAsideWaits ==
  [][\A h \in Handlers : handler[h].step = "idle" /\ handler'[h].step = "travel" =>
       \A c \in handler'[h].batch : delivery[c.id] # "FAILED"]_vars
=============================================================================
