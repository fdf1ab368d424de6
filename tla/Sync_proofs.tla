----------------------------- MODULE Sync_proofs -----------------------------
(***************************************************************************)
(* For any number of orders, documents, batches at a time and changes: a   *)
(* change is written once on the peer, what is marked as sent was applied, *)
(* and, when the writes of the application do not overlap and never share  *)
(* a millisecond, the cursor skips nothing; when no write fails on the     *)
(* peer either, the copy of a document of one writer follows it.           *)
(***************************************************************************)
EXTENDS Sync, TLAPS, FiniteSetTheorems

-----------------------------------------------------------------------------
(* The types.                                                               *)

LEMMA FreeIsARun == Free \in HandlerRows /\ wellFormed(Free)
<1>1. NoChange \in NoChanges
  BY DEF NoChange, NoChanges
<1> QED
  BY <1>1 DEF Free, HandlerRows, wellFormed, Nodes

\* A run replaced by a well-formed one.
LEMMA NewRun ==
  ASSUME RunsOK, NEW h \in Handlers, NEW q \in HandlerRows, wellFormed(q),
         handler' = [handler EXCEPT ![h] = q], UNCHANGED outbox
  PROVE  RunsOK'
<1>1. handler' \in [Handlers -> HandlerRows]
  BY DEF RunsOK
<1>2. ASSUME NEW g \in Handlers PROVE wellFormed(handler[g])'
  <2>1. handler'[g] = IF g = h THEN q ELSE handler[g]
    BY DEF RunsOK
  <2>2. wellFormed(handler'[g])
    BY <2>1 DEF RunsOK
  <2> QED
    BY <2>2 DEF wellFormed
<1> QED
  BY <1>1, <1>2 DEF RunsOK

\* The tables are as they were.
LEMMA SameTables ==
  ASSUME TablesOK, UNCHANGED <<store, open, applied, conflicts, clock, journaled, written>>
  PROVE  TablesOK'
BY DEF TablesOK, store, journaledBy

\* A transaction of n opens, and journals changes that come after the last one (a
\* document alone, and by a server that may); later than it, each, unless two writes
\* may share a millisecond.
Fresh(n, changes, last, now) ==
  /\ journaled <= last /\ clock <= now
  /\ \A c \in changes : /\ c \in Changes /\ c.origin = n /\ c.id \in (journaled + 1)..last
                        /\ c.occurredAt <= now /\ (c.kind = "event" => c.row \in Orders)
                        /\ c.row \in Documents => changes = {c} /\ n \in Writers[c.row]
  /\ 0 \notin Gaps => /\ \A c \in changes : clock < c.occurredAt
                      /\ \A c, d \in changes : c.occurredAt = d.occurredAt => c = d

Opens == \E n \in Nodes, last \in Nat, now \in Nat : \E changes :
           Fresh(n, changes, last, now) /\ OpenWith(n, changes, last, now)

LEMMA OpensTypes ==
  ASSUME TypeOK, Opens
  PROVE  TypeOK'
<1> PICK n \in Nodes, last \in Nat, now \in Nat :
      \E changes : Fresh(n, changes, last, now) /\ OpenWith(n, changes, last, now)
  BY DEF Opens
<1>0. PICK changes : Fresh(n, changes, last, now) /\ OpenWith(n, changes, last, now)
  OBVIOUS
<1> USE SyncAssumption
<1>1. /\ open' = open \union {[node |-> n, changes |-> changes]}
      /\ journaled' = last /\ last <= MaxWrites /\ clock' = now
      /\ UNCHANGED <<rows, events, outbox, delivery, cursor, cycle, applied, conflicts, handler,
                     cuts, errors, written>>
  BY <1>0 DEF OpenWith, store, exchange
<1>2. ASSUME NEW m \in Nodes, NEW c, journaledBy(m, c) PROVE journaledBy(m, c)'
  BY <1>0, <1>1, <1>2 DEF journaledBy, Fresh, TypeOK, TablesOK, Changes
<1>3. ASSUME NEW t \in open' PROVE (t.node \in Nodes /\ \A c \in t.changes : journaledBy(t.node, c))'
  <2>1. CASE t \in open
    BY <1>2, <2>1 DEF TypeOK, TablesOK
  <2>2. CASE t = [node |-> n, changes |-> changes]
    <3>1. \A c \in changes : c.id \in 1..last
      BY <1>0 DEF Fresh, TypeOK, TablesOK
    <3> QED
      BY <1>0, <1>1, <2>2, <3>1 DEF journaledBy, Fresh
  <2> QED
    BY <1>1, <2>1, <2>2
<1>4. (\A m \in Nodes : \A c \in outbox[m] : journaledBy(m, c))'
  <2>1. \A m \in Nodes : \A c \in outbox[m] : journaledBy(m, c)'
    BY <1>2 DEF TypeOK, TablesOK
  <2> QED
    BY <1>1, <2>1
<1>5. TablesOK'
  <2>1. journaled' \in 0..MaxWrites /\ clock' \in Nat
    BY <1>1
  <2> QED
    BY <1>1, <1>3, <1>4, <2>1 DEF TypeOK, TablesOK
<1>6. ExchangeOK' /\ RunsOK'
  BY <1>0, <1>1 DEF Fresh, TypeOK, TablesOK, ExchangeOK, RunsOK, wellFormed
<1> QED
  BY <1>5, <1>6 DEF TypeOK

LEMMA WritesOpen ==
  ASSUME TypeOK, NEW n \in Nodes, NEW gap \in Gaps,
         \/ \E d \in Documents : WriteDocument(n, d, gap) \/ DeleteDocument(n, d, gap)
         \/ \E o \in Orders : EditOrder(n, o, gap)
  PROVE  Opens
<1> USE SyncAssumption
<1> DEFINE id == journaled + 1
           now == clock + gap
<1>1. /\ id \in Nat /\ now \in Nat /\ clock <= now /\ journaled <= id /\ id \in (journaled + 1)..id
      /\ 0 \notin Gaps => clock < now
  <2>1. journaled \in Nat /\ clock \in Nat /\ gap \in Nat
    BY DEF TypeOK, TablesOK
  <2> QED
    BY <2>1
<1>2. NoRow \in RowValues
  BY DEF NoRow, RowValues
<1>3. CASE \E d \in Documents : WriteDocument(n, d, gap)
  <2>1. PICK d \in Documents : WriteDocument(n, d, gap)
    BY <1>3
  <2> DEFINE c == ChangeOf(n, id, "row", d, 0, now)
  <2>2. c \in Changes /\ c.origin = n /\ c.id = id /\ c.occurredAt = now /\ c.kind = "row" /\ c.row = d
    BY <1>1 DEF ChangeOf, Changes, RowValues, Rows
  <2>3. OpenWith(n, {c}, id, now) /\ n \in Writers[d]
    BY <2>1 DEF WriteDocument
  <2> HIDE DEF c, id, now
  <2> QED
    BY <1>1, <2>2, <2>3 DEF Opens, Fresh
<1>4. CASE \E d \in Documents : DeleteDocument(n, d, gap)
  <2>1. PICK d \in Documents : DeleteDocument(n, d, gap)
    BY <1>4
  <2> DEFINE b == ChangeOf(n, id, "row", d, 0, now)
             c == [b EXCEPT !.payload = NoRow]
  <2>2. b \in Changes /\ b.origin = n /\ b.id = id /\ b.occurredAt = now /\ b.kind = "row" /\ b.row = d
    BY <1>1 DEF ChangeOf, Changes, RowValues, Rows
  <2>3. OpenWith(n, {c}, id, now) /\ n \in Writers[d]
    BY <2>1 DEF DeleteDocument
  <2> HIDE DEF b
  <2>4. c \in Changes /\ c.origin = n /\ c.id = id /\ c.occurredAt = now /\ c.kind = "row" /\ c.row = d
    BY <1>2, <2>2 DEF Changes
  <2> HIDE DEF c, id, now
  <2> QED
    BY <1>1, <2>3, <2>4 DEF Opens, Fresh
<1>5. CASE \E o \in Orders : EditOrder(n, o, gap)
  <2>1. PICK o \in Orders : EditOrder(n, o, gap)
    BY <1>5
  <2> DEFINE c == ChangeOf(n, id, "row", o, rows[n][o].status, now)
  <2>2. rows[n][o].status \in Nat
    BY DEF TypeOK, TablesOK, Rows, RowValues
  <2>3. c \in Changes /\ c.origin = n /\ c.id = id /\ c.occurredAt = now /\ c.kind = "row" /\ c.row = o
    BY <1>1, <2>2 DEF ChangeOf, Changes, RowValues, Rows
  <2>4. OpenWith(n, {c}, id, now) /\ o \notin Documents
    BY <2>1 DEF EditOrder
  <2> HIDE DEF c, id, now
  <2> QED
    BY <1>1, <2>3, <2>4 DEF Opens, Fresh
<1> QED
  BY <1>3, <1>4, <1>5

LEMMA MovesOpen ==
  ASSUME TypeOK, NEW n \in Nodes, NEW gap \in Gaps, NEW next \in Gaps, NEW o \in Orders,
         MoveOrder(n, o, gap, next)
  PROVE  Opens
<1> USE SyncAssumption
<1> DEFINE id == journaled + 1
           last == journaled + 2
           at == clock + gap
           now == clock + gap + next
           status == rows[n][o].status + 1
           c == ChangeOf(n, id, "row", o, status, at)
           e == ChangeOf(n, last, "event", o, status, now)
<1>1. /\ id \in (journaled + 1)..last /\ last \in (journaled + 1)..last /\ id \in Nat /\ last \in Nat /\ journaled <= last
      /\ at \in Nat /\ now \in Nat /\ clock <= now /\ at <= now
      /\ 0 \notin Gaps => clock < at /\ at < now
  <2>1. journaled \in Nat /\ clock \in Nat /\ gap \in Nat /\ next \in Nat
    BY DEF TypeOK, TablesOK
  <2> QED
    BY <2>1
<1>2. status \in Nat
  BY DEF TypeOK, TablesOK, Rows, RowValues
<1>3. /\ c \in Changes /\ c.origin = n /\ c.id = id /\ c.occurredAt = at /\ c.kind = "row" /\ c.row = o
      /\ e \in Changes /\ e.origin = n /\ e.id = last /\ e.occurredAt = now /\ e.row = o
  BY <1>1, <1>2 DEF ChangeOf, Changes, RowValues, Rows
<1>4. OpenWith(n, {c, e}, last, now)
  BY DEF MoveOrder
<1> HIDE DEF c, e, id, last, at, now, status
<1>5. \A x \in {c, e} : /\ x \in Changes /\ x.origin = n /\ x.id \in (journaled + 1)..last
                       /\ x.occurredAt <= now /\ (x.kind = "event" => x.row \in Orders)
                       /\ x.row \notin Documents
  BY <1>1, <1>3
<1>6. ASSUME 0 \notin Gaps
      PROVE  /\ \A x \in {c, e} : clock < x.occurredAt
             /\ \A x, y \in {c, e} : x.occurredAt = y.occurredAt => x = y
  <2>1. clock < at /\ at < now /\ clock \in Nat
    BY <1>1, <1>6 DEF TypeOK, TablesOK
  <2>2. clock < now /\ at # now
    BY <1>1, <2>1
  <2> QED
    BY <1>3, <2>1, <2>2
<1>7. Fresh(n, {c, e}, last, now)
  BY <1>1, <1>5, <1>6 DEF Fresh
<1> QED
  BY <1>1, <1>4, <1>7 DEF Opens

\* A transaction commits what it journaled, and nothing else moves.
LEMMA Commits ==
  ASSUME TypeOK, NEW t \in open, Commit(t)
  PROVE  TypeOK'
<1> USE SyncAssumption
<1>1. t.node \in Nodes /\ \A c \in t.changes : journaledBy(t.node, c)
  BY DEF TypeOK, TablesOK
<1>2. UNCHANGED <<exchange, applied, conflicts, handler, clock, bounds, written>>
  BY DEF Commit
<1>3. ASSUME NEW m \in Nodes, NEW c, journaledBy(m, c) PROVE journaledBy(m, c)'
  BY <1>2, <1>3 DEF journaledBy, bounds
<1>4. rows' \in [Nodes -> [Rows -> RowValues]]
  <2>1. \A r \in Rows : rowAfter(rows[t.node][r], r, t.changes) \in RowValues
    BY <1>1 DEF rowAfter, journaledBy, Changes, TypeOK, TablesOK
  <2> QED
    BY <1>1, <2>1 DEF Commit, TypeOK, TablesOK
<1>5. events' \in [Nodes -> [Orders -> SUBSET RowValues]]
  <2>1. \A o \in Orders : eventsOf(o, t.changes) \subseteq RowValues
    BY <1>1 DEF eventsOf, journaledBy, Changes
  <2> QED
    BY <1>1, <2>1 DEF Commit, TypeOK, TablesOK
<1>6. /\ outbox' \in [Nodes -> SUBSET Changes]
      /\ \A m \in Nodes : outbox[m] \subseteq outbox'[m]
      /\ \A m \in Nodes : \A c \in outbox'[m] : journaledBy(m, c)
  <2>1. outbox' = [outbox EXCEPT ![t.node] = @ \union t.changes]
    BY DEF Commit
  <2>2. t.changes \subseteq Changes
    BY <1>1 DEF journaledBy
  <2> QED
    BY <1>1, <2>1, <2>2 DEF TypeOK, TablesOK
<1>7. TablesOK'
  <2>1. (\A m \in Nodes : \A c \in outbox[m] : journaledBy(m, c))'
    <3>1. \A m \in Nodes : \A c \in outbox'[m] : journaledBy(m, c)'
      BY <1>3, <1>6
    <3> QED
      BY <3>1
  <2>2. (\A s \in open : s.node \in Nodes /\ \A c \in s.changes : journaledBy(s.node, c))'
    <3>1. \A s \in open : s.node \in Nodes /\ \A c \in s.changes : journaledBy(s.node, c)'
      BY <1>3 DEF TypeOK, TablesOK
    <3> QED
      BY <3>1 DEF Commit
  <2> QED
    BY <1>2, <1>4, <1>5, <1>6, <2>1, <2>2 DEF TypeOK, TablesOK, bounds
<1>8. ExchangeOK'
  BY <1>2 DEF TypeOK, ExchangeOK, exchange, bounds
<1>9. RunsOK'
  <2>1. ASSUME NEW h \in Handlers PROVE wellFormed(handler[h])'
    <3>1. peerOf(handler[h].node) \in Nodes
      BY DEF peerOf, Nodes
    <3> QED
      BY <1>2, <1>6, <3>1 DEF wellFormed, TypeOK, RunsOK
  <2> QED
    BY <1>2, <2>1 DEF TypeOK, RunsOK
<1> QED
  BY <1>7, <1>8, <1>9 DEF TypeOK

\* A step of the exchange that writes to no table.
LEMMA ExchangeStep ==
  ASSUME TypeOK, UNCHANGED <<store, open, applied, conflicts, clock, journaled, written>>,
         ExchangeOK', RunsOK'
  PROVE  TypeOK'
BY SameTables DEF TypeOK

LEMMA RunType ==
  ASSUME NEW n \in Nodes, NEW step \in {"travel", "next"}, NEW batch \in SUBSET Changes,
         batch \subseteq outbox[peerOf(n)]
  PROVE  LET q == [node |-> n, step |-> step, batch |-> batch, todo |-> batch,
                   current |-> NoChange, accepted |-> {}, touched |-> {}, latest |-> 0]
         IN  q \in HandlerRows /\ wellFormed(q)
<1>1. NoChange \in NoChanges
  BY DEF NoChange, NoChanges
<1> QED
  BY <1>1 DEF HandlerRows, wellFormed

\* A page of a journal goes to a run.
LEMMA OfAPage ==
  ASSUME TypeOK, NEW n \in Nodes, NEW size, NEW selected, selected \subseteq outbox[n],
         NEW page \in Pages(selected, size)
  PROVE  page \subseteq outbox[n] /\ page \subseteq selected /\ page \in SUBSET Changes
BY DEF Pages, TypeOK, TablesOK

LEMMA CycleType ==
  ASSUME TypeOK, NEW step \in {"idle", "pushing", "pull", "pulling"}
  PROVE  /\ [cycle EXCEPT !.step = step]
              \in [step : {"idle", "pushing", "pull", "pulling"}, handler : Handlers]
         /\ \A h \in Handlers : [step |-> step, handler |-> h]
              \in [step : {"idle", "pushing", "pull", "pulling"}, handler : Handlers]
BY DEF TypeOK, ExchangeOK

LEMMA Sends ==
  ASSUME TypeOK, NEW h \in Handlers, Push(h) \/ Pull(h)
  PROVE  TypeOK'
<1>1. CASE Push(h)
  <2>1. PICK batch \in Pages(toSend, BatchSize) : Run(h, "CLOUD", "travel", batch)
    BY <1>1 DEF Push
  <2>2. batch \subseteq outbox["LOCAL"] /\ batch \in SUBSET Changes
    BY <2>1, OfAPage DEF toSend, Nodes
  <2>3. RunsOK'
    <3>1. peerOf("CLOUD") = "LOCAL" /\ "CLOUD" \in Nodes
      BY DEF peerOf, Nodes
    <3>2. UNCHANGED outbox
      BY <1>1 DEF Push, store
    <3> QED
      BY <2>1, <2>2, <3>1, <3>2, RunType, NewRun DEF Run, TypeOK
  <2>4. ExchangeOK'
    BY <1>1, CycleType DEF Push, TypeOK, ExchangeOK, bounds
  <2> QED
    BY <1>1, <2>3, <2>4, ExchangeStep DEF Push, bounds
<1>2. CASE Pull(h)
  <2>1. PICK page \in Pages(toPull, BatchSize) : Run(h, "LOCAL", "next", page)
    BY <1>2 DEF Pull
  <2>2. page \subseteq outbox["CLOUD"] /\ page \in SUBSET Changes
    BY <2>1, OfAPage DEF toPull, Nodes
  <2>3. RunsOK'
    <3>1. peerOf("LOCAL") = "CLOUD" /\ "LOCAL" \in Nodes
      BY DEF peerOf, Nodes
    <3>2. UNCHANGED outbox
      BY <1>2 DEF Pull, store
    <3> QED
      BY <2>1, <2>2, <3>1, <3>2, RunType, NewRun DEF Run, TypeOK
  <2>4. ExchangeOK'
    BY <1>2, CycleType DEF Pull, TypeOK, ExchangeOK, bounds
  <2> QED
    BY <1>2, <2>3, <2>4, ExchangeStep DEF Pull, bounds
<1> QED
  BY <1>1, <1>2

\* The steps that only move LOCAL's cycle.
LEMMA Idles ==
  ASSUME TypeOK, NothingToPush \/ NothingToPull \/ PullFails \/ \E h \in Handlers : Timeout(h)
  PROVE  TypeOK'
<1>1. UNCHANGED <<store, open, delivery, applied, conflicts, cursor, handler, clock, journaled,
                  errors, written>>
  BY DEF NothingToPush, NothingToPull, PullFails, Timeout, bounds
<1>2. cuts' \in 0..MaxCuts
  BY SyncAssumption DEF NothingToPush, NothingToPull, PullFails, Timeout, Cut, bounds, TypeOK, ExchangeOK
<1>3. cycle' = [cycle EXCEPT !.step = "pull"] \/ cycle' = [cycle EXCEPT !.step = "idle"]
  BY DEF NothingToPush, NothingToPull, PullFails, Timeout
<1>4. ExchangeOK'
  BY <1>1, <1>2, <1>3, CycleType DEF TypeOK, ExchangeOK
<1>5. RunsOK'
  BY <1>1 DEF TypeOK, RunsOK, wellFormed, store
<1> QED
  BY <1>1, <1>4, <1>5, ExchangeStep

\* The steps that free a run.
LEMMA Frees ==
  ASSUME TypeOK, NEW h \in Handlers, Answered(h) \/ Pulled(h) \/ Ignored(h) \/ Lost(h)
  PROVE  TypeOK'
<1>1. /\ UNCHANGED <<store, open, applied, conflicts, clock, journaled, errors, written>>
      /\ handler' = [handler EXCEPT ![h] = Free]
  BY DEF Answered, Pulled, Ignored, Lost, bounds, exchange
<1>2. RunsOK'
  BY <1>1, FreeIsARun, NewRun DEF TypeOK, store
<1>3. cuts' \in 0..MaxCuts
  BY SyncAssumption DEF Answered, Pulled, Ignored, Lost, Cut, bounds, TypeOK, ExchangeOK
<1>4. cycle' \in {cycle, [cycle EXCEPT !.step = "pull"], [cycle EXCEPT !.step = "idle"]}
  BY DEF Answered, Pulled, Ignored, Lost, exchange
<1>5. delivery' \in [Ids -> Statuses]
  <2>1. UNCHANGED delivery \/ Answered(h)
    BY DEF Pulled, Ignored, Lost, exchange
  <2>2. CASE Answered(h)
    BY <2>2 DEF Answered, TypeOK, ExchangeOK, Statuses
  <2> QED
    BY <2>1, <2>2 DEF TypeOK, ExchangeOK
<1>6. cursor' \in Nat /\ cursor' <= clock
  <2>1. UNCHANGED cursor \/ Pulled(h)
    BY DEF Answered, Ignored, Lost, exchange
  <2>2. CASE Pulled(h)
    <3>1. PICK c \in handler[h].batch : cursor' = c.occurredAt
      BY <2>2 DEF Pulled
    <3>2. handler[h].batch \subseteq outbox[peerOf(handler[h].node)]
      BY DEF TypeOK, RunsOK, wellFormed
    <3>3. peerOf(handler[h].node) \in Nodes
      BY DEF peerOf, Nodes
    <3>4. journaledBy(peerOf(handler[h].node), c)
      BY <3>1, <3>2, <3>3 DEF TypeOK, TablesOK
    <3> QED
      BY <3>1, <3>4 DEF journaledBy, Changes
  <2> QED
    BY <2>1, <2>2 DEF TypeOK, ExchangeOK
<1>7. ExchangeOK'
  BY <1>1, <1>3, <1>4, <1>5, <1>6, CycleType DEF TypeOK, ExchangeOK
<1> QED
  BY <1>1, <1>2, <1>7, ExchangeStep

\* What a run becomes when its step alone changes, and when it is done with a
\* change.
LEMMA StepMoves ==
  ASSUME TypeOK, NEW h \in Handlers, NEW q \in HandlerRows, wellFormed(q),
         NEW step \in {"next", "done"}
  PROVE  [q EXCEPT !.step = step] \in HandlerRows /\ wellFormed([q EXCEPT !.step = step])
BY DEF HandlerRows, wellFormed

LEMMA RunAt ==
  ASSUME TypeOK, NEW h \in Handlers
  PROVE  /\ handler[h] \in HandlerRows /\ wellFormed(handler[h])
         /\ handler[h].node \in Nodes /\ peerOf(handler[h].node) \in Nodes
         /\ \A c \in handler[h].batch : /\ c \in Changes /\ c.id \in Ids /\ c.row \in Rows
                                        /\ c.kind = "event" => c.row \in Orders
<1>1. handler[h] \in HandlerRows /\ wellFormed(handler[h])
  BY DEF TypeOK, RunsOK
<1>2. handler[h].node \in Nodes /\ peerOf(handler[h].node) \in Nodes
  BY <1>1 DEF HandlerRows, peerOf, Nodes
<1>3. ASSUME NEW c \in handler[h].batch
      PROVE  /\ c \in Changes /\ c.id \in Ids /\ c.row \in Rows
             /\ c.kind = "event" => c.row \in Orders
  <2>1. journaledBy(peerOf(handler[h].node), c)
    BY <1>1, <1>2 DEF wellFormed, TypeOK, TablesOK
  <2> QED
    BY <2>1, SyncAssumption DEF journaledBy, TypeOK, TablesOK, Changes, Ids
<1> QED
  BY <1>1, <1>2, <1>3

LEMMA Steps ==
  ASSUME TypeOK, NEW h \in Handlers, Arrive(h) \/ Finish(h)
  PROVE  TypeOK'
<1>1. /\ UNCHANGED <<store, open, exchange, applied, conflicts, clock, bounds, written>>
      /\ \/ handler' = [handler EXCEPT ![h].step = "next"]
         \/ handler' = [handler EXCEPT ![h].step = "done"]
  BY DEF Arrive, Finish
<1>2. PICK step \in {"next", "done"} :
        handler' = [handler EXCEPT ![h] = [handler[h] EXCEPT !.step = step]]
  BY <1>1
<1>3. RunsOK'
  BY <1>1, <1>2, RunAt, StepMoves, NewRun DEF TypeOK, store
<1>4. ExchangeOK'
  BY <1>1 DEF TypeOK, ExchangeOK, exchange, bounds
<1> QED
  BY <1>1, <1>3, <1>4, ExchangeStep DEF bounds

LEMMA Examines ==
  ASSUME TypeOK, NEW h \in Handlers, Examine(h)
  PROVE  TypeOK'
<1> DEFINE q == handler[h]
<1>1. UNCHANGED <<store, open, exchange, applied, clock, bounds, written>>
  BY DEF Examine
<1>2. q \in HandlerRows /\ wellFormed(q) /\ q.todo \subseteq q.batch
  BY RunAt DEF wellFormed
<1>3. PICK c \in q.todo :
        \/ /\ handler' = [handler EXCEPT ![h] =
                [q EXCEPT !.todo = @ \ {c}, !.accepted = @ \union {c.id},
                          !.touched = @ \union touching(c)]]
           /\ UNCHANGED conflicts
        \/ /\ handler' = [handler EXCEPT ![h].todo = @ \ {c}]
           /\ conflicts' = [conflicts EXCEPT ![q.node] = @ \union {c.id}]
        \/ /\ handler' = [handler EXCEPT ![h] = [q EXCEPT !.step = "write", !.current = c]]
           /\ UNCHANGED conflicts
  BY DEF Examine
<1>4. q.step = "next"
  BY DEF Examine
<1>5. c \in Changes /\ c.id \in Ids /\ touching(c) \subseteq Orders
  BY <1>2, RunAt DEF touching
<1>6. \E p \in HandlerRows : wellFormed(p) /\ handler' = [handler EXCEPT ![h] = p]
  <2>1. CASE handler' = [handler EXCEPT ![h] =
               [q EXCEPT !.todo = @ \ {c}, !.accepted = @ \union {c.id},
                         !.touched = @ \union touching(c)]]
    <3> DEFINE p == [q EXCEPT !.todo = @ \ {c}, !.accepted = @ \union {c.id},
                              !.touched = @ \union touching(c)]
    <3>1. p \in HandlerRows /\ wellFormed(p)
      BY <1>2, <1>4, <1>5 DEF HandlerRows, wellFormed
    <3> QED
      BY <2>1, <3>1
  <2>2. CASE handler' = [handler EXCEPT ![h].todo = @ \ {c}]
    <3> DEFINE p == [q EXCEPT !.todo = @ \ {c}]
    <3>1. p \in HandlerRows /\ wellFormed(p)
      BY <1>2, <1>4, <1>5 DEF HandlerRows, wellFormed
    <3>2. handler' = [handler EXCEPT ![h] = p]
      BY <2>2
    <3> QED
      BY <3>1, <3>2
  <2>3. CASE handler' = [handler EXCEPT ![h] = [q EXCEPT !.step = "write", !.current = c]]
    <3> DEFINE p == [q EXCEPT !.step = "write", !.current = c]
    <3>1. p \in HandlerRows /\ wellFormed(p)
      BY <1>2, <1>4, <1>5 DEF HandlerRows, wellFormed
    <3> QED
      BY <2>3, <3>1
  <2> QED
    BY <1>3, <2>1, <2>2, <2>3
<1>7. RunsOK'
  BY <1>1, <1>6, NewRun DEF TypeOK, store
<1>8. TablesOK'
  <2>1. conflicts' \in [Nodes -> SUBSET Ids]
    BY <1>3, <1>5, RunAt DEF TypeOK, TablesOK
  <2> QED
    BY <1>1, <2>1 DEF TypeOK, TablesOK, store, bounds, journaledBy
<1> QED
  BY <1>1, <1>7, <1>8 DEF TypeOK, ExchangeOK, exchange, bounds

\* What a run becomes when it is done with the change it had begun.
LEMMA Passes ==
  ASSUME TypeOK, NEW h \in Handlers, NEW accepted \in SUBSET Ids, NEW touched \in SUBSET Orders,
         handler' = [handler EXCEPT ![h] =
           [handler[h] EXCEPT !.step = "next", !.current = NoChange, !.todo = @ \ {handler[h].current},
                              !.accepted = @ \union accepted, !.touched = @ \union touched]],
         UNCHANGED outbox
  PROVE  RunsOK'
<1> DEFINE q == handler[h]
           p == [q EXCEPT !.step = "next", !.current = NoChange, !.todo = @ \ {q.current},
                          !.accepted = @ \union accepted, !.touched = @ \union touched]
<1>1. NoChange \in NoChanges
  BY DEF NoChange, NoChanges
<1>2. q \in HandlerRows /\ wellFormed(q)
  BY RunAt
<1>3. p \in HandlerRows /\ wellFormed(p)
  BY <1>1, <1>2 DEF HandlerRows, wellFormed
<1> QED
  BY <1>3, NewRun DEF TypeOK

LEMMA Writes ==
  ASSUME TypeOK, NEW h \in Handlers, Write(h)
  PROVE  TypeOK'
<1> DEFINE q == handler[h]
           c == q.current
<1>1. /\ UNCHANGED <<open, outbox, exchange, conflicts, clock, bounds>>
      /\ applied' = [applied EXCEPT ![q.node] = @ \union {c.id}]
      /\ written' = [written EXCEPT ![c.id] = @ + 1]
      /\ handler' = [handler EXCEPT ![h] =
           [q EXCEPT !.step = "next", !.current = NoChange, !.todo = @ \ {c},
                     !.accepted = @ \union {c.id}, !.touched = @ \union touching(c)]]
  BY DEF Write
<1>2. c \in q.batch
  BY RunAt DEF Write, wellFormed
<1>3. /\ c \in Changes /\ c.id \in Ids /\ c.row \in Rows /\ (c.kind = "event" => c.row \in Orders)
      /\ q.node \in Nodes /\ touching(c) \in SUBSET Orders /\ {c.id} \in SUBSET Ids
  BY <1>2, RunAt DEF touching
<1>4. RunsOK'
  BY <1>1, <1>3, Passes
<1>5. rows' \in [Nodes -> [Rows -> RowValues]] /\ events' \in [Nodes -> [Orders -> SUBSET RowValues]]
  <2>1. c.payload \in RowValues
    BY <1>3 DEF Changes
  <2>2. CASE c.kind = "event"
    <3>1. events' = [events EXCEPT ![q.node][c.row] = @ \union {c.payload}] /\ UNCHANGED rows
      BY <2>2 DEF Write
    <3> QED
      BY <1>3, <2>1, <2>2, <3>1 DEF TypeOK, TablesOK
  <2>3. CASE c.kind # "event"
    <3>1. rows' = [rows EXCEPT ![q.node][c.row] = c.payload] /\ UNCHANGED events
      BY <2>3 DEF Write
    <3> QED
      BY <1>3, <2>1, <3>1 DEF TypeOK, TablesOK
  <2> QED
    BY <2>2, <2>3
<1>6. applied' \in [Nodes -> SUBSET Ids] /\ written' \in [Ids -> Nat]
  BY <1>1, <1>3 DEF TypeOK, TablesOK
<1>7. TablesOK'
  BY <1>1, <1>5, <1>6 DEF TypeOK, TablesOK, bounds, journaledBy
<1> QED
  BY <1>1, <1>4, <1>7 DEF TypeOK, ExchangeOK, exchange, bounds

LEMMA Refusals ==
  ASSUME TypeOK, NEW h \in Handlers, WriteRefused(h) \/ WriteFails(h)
  PROVE  TypeOK'
<1> DEFINE q == handler[h]
           c == q.current
           p == [q EXCEPT !.step = "next", !.current = NoChange, !.todo = @ \ {c}]
<1>1. /\ UNCHANGED <<store, open, exchange, applied, clock, journaled, cuts, written>>
      /\ handler' = [handler EXCEPT ![h] = p]
      /\ conflicts' = [conflicts EXCEPT ![q.node] = @ \union {c.id}]
      /\ q.step = "write"
  BY DEF WriteRefused, WriteFails, SetAside
<1>2. q \in HandlerRows /\ wellFormed(q)
  BY RunAt
<1>3. c.id \in Ids /\ q.node \in Nodes
  BY <1>1, RunAt DEF wellFormed
<1>4. RunsOK'
  <2>1. NoChange \in NoChanges
    BY DEF NoChange, NoChanges
  <2>2. p \in HandlerRows /\ wellFormed(p)
    BY <1>2, <2>1 DEF HandlerRows, wellFormed
  <2> QED
    BY <1>1, <2>2, NewRun DEF TypeOK, store
<1>5. TablesOK'
  <2>1. conflicts' \in [Nodes -> SUBSET Ids]
    BY <1>1, <1>3 DEF TypeOK, TablesOK
  <2> QED
    BY <1>1, <2>1 DEF TypeOK, TablesOK, store, journaledBy
<1>6. errors' \in 0..MaxErrors
  BY SyncAssumption DEF WriteRefused, WriteFails, TypeOK, ExchangeOK
<1> QED
  BY <1>1, <1>4, <1>5, <1>6 DEF TypeOK, ExchangeOK, exchange

LEMMA Recomputes ==
  ASSUME TypeOK, NEW h \in Handlers, Recompute(h)
  PROVE  TypeOK'
<1> DEFINE q == handler[h]
<1>1. UNCHANGED <<store, open, exchange, applied, conflicts, clock, bounds, written>> /\ q.step = "next"
  BY DEF Recompute
<1>2. PICK o \in q.touched : \E e \in events[q.node][o] :
        handler' = [handler EXCEPT ![h] =
           IF rows[q.node][o].status = e.status
             THEN [q EXCEPT !.touched = @ \ {o}]
             ELSE [q EXCEPT !.step = "recompute", !.current = [NoChange EXCEPT !.row = o],
                            !.latest = e.status]]
  BY DEF Recompute
<1>3. q \in HandlerRows /\ wellFormed(q) /\ q.node \in Nodes /\ o \in Orders
  BY <1>2, RunAt DEF HandlerRows
<1>4. PICK e \in events[q.node][o] :
        handler' = [handler EXCEPT ![h] =
           IF rows[q.node][o].status = e.status
             THEN [q EXCEPT !.touched = @ \ {o}]
             ELSE [q EXCEPT !.step = "recompute", !.current = [NoChange EXCEPT !.row = o],
                            !.latest = e.status]]
  BY <1>2
<1>5. e.status \in Nat
  BY <1>3 DEF TypeOK, TablesOK, RowValues
<1> DEFINE mark == [NoChange EXCEPT !.row = o]
<1>6. mark \in NoChanges /\ mark.row = o
  BY <1>3 DEF NoChange, NoChanges
<1>7. [q EXCEPT !.touched = @ \ {o}] \in HandlerRows /\ wellFormed([q EXCEPT !.touched = @ \ {o}])
  BY <1>3 DEF HandlerRows, wellFormed
<1> HIDE DEF mark
<1> DEFINE p == [q EXCEPT !.step = "recompute", !.current = mark, !.latest = e.status]
<1>8. p \in HandlerRows /\ wellFormed(p)
  BY <1>3, <1>5, <1>6 DEF HandlerRows, wellFormed
<1>9. handler' = [handler EXCEPT ![h] = [q EXCEPT !.touched = @ \ {o}]]
      \/ handler' = [handler EXCEPT ![h] = p]
  BY <1>4 DEF mark
<1>10. RunsOK'
  BY <1>1, <1>7, <1>8, <1>9, NewRun DEF TypeOK, store
<1>11. ExchangeOK'
  BY <1>1 DEF TypeOK, ExchangeOK, exchange, bounds
<1> QED
  BY <1>1, <1>10, <1>11, ExchangeStep DEF bounds

LEMMA RecomputesWrite ==
  ASSUME TypeOK, NEW h \in Handlers, RecomputeWrite(h)
  PROVE  TypeOK'
<1> DEFINE q == handler[h]
           o == q.current.row
           p == [q EXCEPT !.step = "next", !.current = NoChange, !.touched = @ \ {o}, !.latest = 0]
<1>1. /\ UNCHANGED <<events, outbox, open, exchange, applied, conflicts, bounds, written>>
      /\ handler' = [handler EXCEPT ![h] = p]
      /\ q.step = "recompute"
  BY DEF RecomputeWrite
<1>2. PICK gap \in Gaps :
        /\ clock' = clock + gap
        /\ rows' = [rows EXCEPT ![q.node][o] =
                     [@ EXCEPT !.status = q.latest, !.updatedAt = clock + gap]]
  BY DEF RecomputeWrite
<1>3. q \in HandlerRows /\ wellFormed(q) /\ q.node \in Nodes /\ o \in Rows /\ q.latest \in Nat
  BY <1>1, RunAt DEF HandlerRows, wellFormed, Rows
<1>4. clock' \in Nat /\ clock <= clock'
  <2>1. gap \in Nat /\ clock \in Nat
    BY SyncAssumption DEF TypeOK, TablesOK
  <2> QED
    BY <1>2, <2>1
<1>5. rows' \in [Nodes -> [Rows -> RowValues]]
  <2> DEFINE before == rows[q.node][o]
             after == [before EXCEPT !.status = q.latest, !.updatedAt = clock + gap]
  <2>1. before \in RowValues
    BY <1>3 DEF TypeOK, TablesOK
  <2>2. after \in RowValues
    <3>1. clock + gap \in Nat
      BY <1>2, <1>4
    <3> QED
      BY <1>3, <2>1, <3>1 DEF RowValues
  <2>3. rows' = [rows EXCEPT ![q.node][o] = after]
    BY <1>2
  <2> HIDE DEF after
  <2> QED
    BY <1>3, <2>2, <2>3 DEF TypeOK, TablesOK
<1>6. RunsOK'
  <2>1. NoChange \in NoChanges
    BY DEF NoChange, NoChanges
  <2>2. p \in HandlerRows /\ wellFormed(p)
    BY <1>1, <1>3, <2>1 DEF HandlerRows, wellFormed
  <2> QED
    BY <1>1, <2>2, NewRun DEF TypeOK
<1>7. ASSUME NEW m \in Nodes, NEW c, journaledBy(m, c) PROVE journaledBy(m, c)'
  BY <1>1, <1>4, <1>7 DEF journaledBy, bounds, TypeOK, TablesOK, Changes
<1>8. TablesOK'
  <2>1. \A m \in Nodes : \A c \in outbox[m] : journaledBy(m, c)'
    BY <1>7 DEF TypeOK, TablesOK
  <2>2. \A t \in open : t.node \in Nodes /\ \A c \in t.changes : journaledBy(t.node, c)'
    BY <1>7 DEF TypeOK, TablesOK
  <2> QED
    BY <1>1, <1>4, <1>5, <2>1, <2>2 DEF TypeOK, TablesOK, bounds
<1>9. ExchangeOK'
  BY <1>1, <1>4 DEF TypeOK, TablesOK, ExchangeOK, exchange, bounds
<1> QED
  BY <1>6, <1>8, <1>9 DEF TypeOK

LEMMA Restarts ==
  ASSUME TypeOK, NEW n \in Nodes, Restart(n)
  PROVE  TypeOK'
<1>1. /\ UNCHANGED <<store, delivery, applied, conflicts, cursor, clock, journaled, errors, written>>
      /\ open' \subseteq open
      /\ cuts' \in 0..MaxCuts
  BY SyncAssumption DEF Restart, Cut, TypeOK, ExchangeOK
<1>2. cycle' \in {cycle, [cycle EXCEPT !.step = "idle"]}
  BY DEF Restart
<1>3. /\ handler' \in [Handlers -> HandlerRows]
      /\ \A h \in Handlers : handler'[h] \in {Free, handler[h]}
  BY FreeIsARun DEF Restart, TypeOK, RunsOK
<1>4. RunsOK'
  <2>1. \A h \in Handlers : wellFormed(handler'[h])
    BY <1>3, FreeIsARun, RunAt
  <2> QED
    BY <1>1, <1>3, <2>1 DEF RunsOK, wellFormed, store
<1>5. TablesOK'
  BY <1>1 DEF TypeOK, TablesOK, store, journaledBy
<1>6. ExchangeOK'
  BY <1>1, <1>2, CycleType DEF TypeOK, ExchangeOK
<1> QED
  BY <1>4, <1>5, <1>6 DEF TypeOK

\* A step is one of these.
LEMMA StepKinds ==
  ASSUME [Next]_vars
  PROVE  \/ UNCHANGED vars
         \/ \E n \in Nodes, gap \in Gaps :
              \/ \E d \in Documents : WriteDocument(n, d, gap) \/ DeleteDocument(n, d, gap)
              \/ \E o \in Orders : EditOrder(n, o, gap)
         \/ \E n \in Nodes, gap \in Gaps, o \in Orders, next \in Gaps : MoveOrder(n, o, gap, next)
         \/ \E t \in open : Commit(t)
         \/ \E h \in Handlers : Push(h) \/ Pull(h)
         \/ NothingToPush \/ NothingToPull \/ PullFails \/ \E h \in Handlers : Timeout(h)
         \/ \E h \in Handlers : Answered(h) \/ Pulled(h) \/ Ignored(h) \/ Lost(h)
         \/ \E h \in Handlers : Arrive(h) \/ Finish(h)
         \/ \E h \in Handlers : Examine(h)
         \/ \E h \in Handlers : Write(h)
         \/ \E h \in Handlers : WriteRefused(h) \/ WriteFails(h)
         \/ \E h \in Handlers : Recompute(h)
         \/ \E h \in Handlers : RecomputeWrite(h)
         \/ \E n \in Nodes : Restart(n)
BY DEF Next, Application, Exchange, Apply

LEMMA TypeInit == Init => TypeOK
<1> SUFFICES ASSUME Init PROVE TypeOK
  OBVIOUS
<1> USE SyncAssumption
<1>1. NoRow \in RowValues
  BY DEF NoRow, RowValues
<1>2. TablesOK
  BY <1>1 DEF Init, TablesOK, Ids
<1>3. ExchangeOK
  BY DEF Init, ExchangeOK, Statuses
<1>4. RunsOK
  BY FreeIsARun DEF Init, RunsOK
<1> QED
  BY <1>2, <1>3, <1>4 DEF TypeOK

LEMMA TypeStep ==
  ASSUME TypeOK, [Next]_vars
  PROVE  TypeOK'
<1>1. CASE UNCHANGED vars
  BY <1>1 DEF vars, TypeOK, TablesOK, ExchangeOK, RunsOK, journaledBy, wellFormed
<1> QED
  BY <1>1, StepKinds, OpensTypes, WritesOpen, MovesOpen, Commits, Sends, Idles, Frees, Steps, Examines, Writes,
     Refusals, Recomputes, RecomputesWrite, Restarts

\* Every table and every batch keeps its type, and a batch is of what the peer
\* journaled.
THEOREM SyncTypes == Spec => []TypeOK
BY TypeInit, TypeStep, PTL DEF Spec

-----------------------------------------------------------------------------
(* A change is written once, and what is marked as sent was applied.        *)

wrote(n, i) ==
  \/ \E c \in outbox[n] : c.id = i
  \/ \E t \in open : t.node = n /\ \E c \in t.changes : c.id = i

\* The two servers do not share an identifier.
Apart == \A i \in Ids : ~ (wrote("LOCAL", i) /\ wrote("CLOUD", i))

\* A server applied what the other journaled.
FromPeer == \A n \in Nodes : \A i \in applied[n] : \E c \in outbox[peerOf(n)] : c.id = i

Counted == \A i \in Ids :
  written[i] <= 1 /\ (written[i] = 1 => i \in applied["LOCAL"] \union applied["CLOUD"])

Believed == \A i \in Ids : delivery[i] = "SENT" => i \in applied["CLOUD"]

Accepted == \A h \in Handlers : handler[h].accepted \subseteq applied[handler[h].node]

\* The run LOCAL waits for is on the side it should be.
Assigned ==
  /\ cycle.step = "pushing" => handler[cycle.handler].node = "CLOUD"
  /\ cycle.step = "pulling" => handler[cycle.handler].node = "LOCAL"

Ledger == Apart /\ FromPeer /\ Counted /\ Believed /\ Accepted /\ Assigned

\* Which steps touch the journals, and what was applied.
LEMMA JournalSteps ==
  ASSUME TypeOK, [Next]_vars
  PROVE  \/ Opens
         \/ \E t \in open : Commit(t)
         \/ UNCHANGED outbox /\ open' \subseteq open
BY StepKinds, WritesOpen, MovesOpen
   DEF vars, store, bounds, Push, Pull, NothingToPush, NothingToPull, PullFails, Timeout, Answered,
       Pulled, Ignored, Lost, Arrive, Finish, Examine, Write, WriteRefused, WriteFails, SetAside,
       Recompute, RecomputeWrite, Restart

LEMMA AppliedSteps ==
  ASSUME TypeOK, [Next]_vars
  PROVE  \/ \E h \in Handlers : Write(h)
         \/ UNCHANGED <<applied, written>>
BY StepKinds, WritesOpen, MovesOpen
   DEF vars, store, bounds, Push, Pull, NothingToPush, NothingToPull, PullFails, Timeout, Answered,
       Pulled, Ignored, Lost, Arrive, Finish, Examine, WriteRefused, WriteFails, SetAside,
       Recompute, RecomputeWrite, Restart, Opens, OpenWith, Commit

LEMMA ApartStep ==
  ASSUME TypeOK, Apart, [Next]_vars
  PROVE  Apart'
<1> SUFFICES ASSUME NEW i \in Ids PROVE ~ (wrote("LOCAL", i) /\ wrote("CLOUD", i))'
  BY DEF Apart, Ids
<1>1. ~ (wrote("LOCAL", i) /\ wrote("CLOUD", i))
  BY DEF Apart
<1>2. CASE Opens
  <2> PICK n \in Nodes, last \in Nat, now \in Nat :
        \E changes : Fresh(n, changes, last, now) /\ OpenWith(n, changes, last, now)
    BY <1>2 DEF Opens
  <2>1. PICK changes : Fresh(n, changes, last, now) /\ OpenWith(n, changes, last, now)
    OBVIOUS
  <2>2. UNCHANGED outbox /\ open' = open \union {[node |-> n, changes |-> changes]}
    BY <2>1 DEF OpenWith, store
  <2>3. \A m \in Nodes : wrote(m, i) => i <= journaled
    BY DEF wrote, TypeOK, TablesOK, journaledBy
  <2>4. \A c \in changes : c.id = i => ~ (i <= journaled)
    BY <2>1 DEF Fresh, TypeOK, TablesOK
  <2>5. \A m \in Nodes : wrote(m, i)' => wrote(m, i) \/ (m = n /\ \E c \in changes : c.id = i)
    BY <2>2 DEF wrote
  <2> QED
    BY <1>1, <2>3, <2>4, <2>5 DEF Nodes
<1>3. CASE \E t \in open : Commit(t)
  <2>1. PICK t \in open : Commit(t)
    BY <1>3
  <2>2. /\ outbox' = [outbox EXCEPT ![t.node] = @ \union t.changes]
        /\ open' = open \ {t}
    BY <2>1 DEF Commit
  <2>3. \A m \in Nodes : wrote(m, i)' => wrote(m, i)
    BY <2>1, <2>2 DEF wrote, TypeOK, TablesOK
  <2> QED
    BY <1>1, <2>3 DEF Nodes
<1>4. CASE UNCHANGED outbox /\ open' \subseteq open
  <2>1. \A m \in Nodes : wrote(m, i)' => wrote(m, i)
    BY <1>4 DEF wrote
  <2> QED
    BY <1>1, <2>1 DEF Nodes
<1> QED
  BY <1>2, <1>3, <1>4, JournalSteps

\* What a write does to the two ledgers.
LEMMA WriteLedger ==
  ASSUME TypeOK, Apart, FromPeer, Counted, NEW h \in Handlers, Write(h)
  PROVE  FromPeer' /\ Counted'
<1> DEFINE q == handler[h]
           c == q.current
<1>1. /\ UNCHANGED outbox
      /\ applied' = [applied EXCEPT ![q.node] = @ \union {c.id}]
      /\ written' = [written EXCEPT ![c.id] = @ + 1]
      /\ c.id \notin applied[q.node]
  BY DEF Write, writable
<1>2. c \in outbox[peerOf(q.node)] /\ c.id \in Ids /\ q.node \in Nodes
  BY RunAt DEF Write, wellFormed
<1>3. FromPeer'
  BY <1>1, <1>2 DEF FromPeer, TypeOK, TablesOK
<1>4. written[c.id] = 0
  <2>1. c.id \notin applied[peerOf(q.node)]
    <3>1. SUFFICES ASSUME c.id \in applied[peerOf(q.node)] PROVE FALSE
      OBVIOUS
    <3>2. peerOf(q.node) \in Nodes /\ peerOf(peerOf(q.node)) = q.node
      BY <1>2 DEF peerOf, Nodes
    <3>3. wrote(q.node, c.id)
      BY <3>1, <3>2 DEF FromPeer, wrote
    <3>4. wrote(peerOf(q.node), c.id)
      BY <1>2 DEF wrote
    <3> QED
      BY <1>2, <3>3, <3>4 DEF Apart, peerOf, Nodes
  <2>2. c.id \notin applied["LOCAL"] \union applied["CLOUD"]
    BY <1>1, <1>2, <2>1 DEF peerOf, Nodes
  <2>3. written[c.id] \in Nat
    BY <1>2 DEF TypeOK, TablesOK
  <2>4. written[c.id] <= 1 /\ written[c.id] # 1
    BY <1>2, <2>2 DEF Counted
  <2> QED
    BY <2>3, <2>4
<1>5. Counted'
  <2> SUFFICES ASSUME NEW i \in Ids
               PROVE  written'[i] <= 1
                      /\ (written'[i] = 1 => i \in applied'["LOCAL"] \union applied'["CLOUD"])
    BY DEF Counted, Ids
  <2>1. CASE i = c.id
    BY <1>1, <1>2, <1>4, <2>1 DEF TypeOK, TablesOK, Nodes
  <2>2. CASE i # c.id
    <3>1. written'[i] = written[i]
      BY <1>1, <2>2 DEF TypeOK, TablesOK
    <3>2. \A n \in Nodes : applied[n] \subseteq applied'[n]
      BY <1>1 DEF TypeOK, TablesOK
    <3>3. "LOCAL" \in Nodes /\ "CLOUD" \in Nodes
      BY DEF Nodes
    <3> QED
      BY <3>1, <3>2, <3>3 DEF Counted
  <2> QED
    BY <2>1, <2>2
<1> QED
  BY <1>3, <1>5

LEMMA LedgerStep ==
  ASSUME TypeOK, Apart, FromPeer, Counted, [Next]_vars
  PROVE  FromPeer' /\ Counted' /\ \A n \in Nodes : applied[n] \subseteq applied'[n]
<1>1. CASE \E h \in Handlers : Write(h)
  <2>1. PICK h \in Handlers : Write(h)
    BY <1>1
  <2>2. applied' = [applied EXCEPT ![handler[h].node] = @ \union {handler[h].current.id}]
    BY <2>1 DEF Write
  <2>3. \A n \in Nodes : applied[n] \subseteq applied'[n]
    BY <2>2 DEF TypeOK, TablesOK
  <2> QED
    BY <2>1, <2>3, WriteLedger
<1>2. CASE UNCHANGED <<applied, written>>
  <2>1. \A n \in Nodes : outbox[n] \subseteq outbox'[n]
    <3>1. CASE Opens
      BY <3>1 DEF Opens, OpenWith, store
    <3>2. CASE \E t \in open : Commit(t)
      BY <3>2 DEF Commit, TypeOK, TablesOK
    <3> QED
      BY <3>1, <3>2, JournalSteps
  <2>2. \A n \in Nodes : peerOf(n) \in Nodes
    BY DEF peerOf, Nodes
  <2>3. FromPeer'
    BY <1>2, <2>1, <2>2 DEF FromPeer
  <2> QED
    BY <1>2, <2>3 DEF Counted
<1> QED
  BY <1>1, <1>2, AppliedSteps

LEMMA BelievedStep ==
  ASSUME TypeOK, Believed, Accepted, Assigned, [Next]_vars,
         \A n \in Nodes : applied[n] \subseteq applied'[n]
  PROVE  Believed'
<1>1. UNCHANGED delivery \/ \E h \in Handlers : Answered(h)
  BY StepKinds, WritesOpen, MovesOpen
     DEF vars, exchange, Push, Pull, NothingToPush, NothingToPull, PullFails, Timeout,
         Pulled, Ignored, Lost, Arrive, Finish, Examine, Write, WriteRefused, WriteFails, SetAside,
         Recompute, RecomputeWrite, Restart, Opens, OpenWith, Commit
<1>2. CASE UNCHANGED delivery
  BY <1>2 DEF Believed, Nodes
<1>3. CASE \E h \in Handlers : Answered(h)
  <2>1. PICK h \in Handlers : Answered(h)
    BY <1>3
  <2>2. handler[h].accepted \subseteq applied["CLOUD"]
    BY <2>1 DEF Answered, Accepted, Assigned
  <2>3. \A i \in Ids : delivery'[i] = "SENT" => delivery[i] = "SENT" \/ i \in handler[h].accepted
    BY <2>1 DEF Answered
  <2> QED
    BY <2>2, <2>3 DEF Believed, Nodes
<1> QED
  BY <1>1, <1>2, <1>3

\* A run goes on where it is, and accepts what is applied there.
Continues(h) ==
  /\ handler'[h].node = handler[h].node
  /\ handler'[h].accepted \subseteq handler[h].accepted \union applied'[handler[h].node]

OthersStay(h) == \A g \in Handlers \ {h} : handler'[g] = handler[g]

LEMMA RunContinues ==
  ASSUME RunsOK, NEW h \in Handlers, NEW p, handler' = [handler EXCEPT ![h] = p],
         p.node = handler[h].node,
         p.accepted \subseteq handler[h].accepted \union applied'[handler[h].node]
  PROVE  Continues(h) /\ OthersStay(h)
BY DEF Continues, OthersStay, RunsOK

LEMMA StepStarts ==
  ASSUME TypeOK, NEW h \in Handlers,
         Push(h) \/ Pull(h) \/ Answered(h) \/ Pulled(h) \/ Ignored(h) \/ Lost(h)
  PROVE  handler'[h].accepted = {} /\ OthersStay(h)
<1>1. handler \in [Handlers -> HandlerRows]
  BY DEF TypeOK, RunsOK
<1>2. CASE Push(h) \/ Pull(h)
  BY <1>1, <1>2 DEF Push, Pull, Run, OthersStay
<1>3. CASE Answered(h) \/ Pulled(h) \/ Ignored(h) \/ Lost(h)
  BY <1>1, <1>3 DEF Answered, Pulled, Ignored, Lost, OthersStay, Free
<1> QED
  BY <1>2, <1>3

LEMMA StepContinues ==
  ASSUME TypeOK, NEW h \in Handlers,
         \/ Arrive(h) \/ Finish(h) \/ Examine(h) \/ Write(h) \/ WriteRefused(h) \/ WriteFails(h)
         \/ Recompute(h) \/ RecomputeWrite(h)
  PROVE  Continues(h) /\ OthersStay(h)
<1> DEFINE q == handler[h]
<1>1. q \in HandlerRows /\ handler \in [Handlers -> HandlerRows]
  BY RunAt DEF TypeOK, RunsOK
<1>4. CASE Arrive(h) \/ Finish(h)
  BY <1>1, <1>4 DEF Arrive, Finish, Continues, OthersStay, HandlerRows
<1>5. CASE Examine(h)
  <2>1. PICK c \in q.todo :
          \/ /\ c.id \in applied[q.node]
             /\ handler' = [handler EXCEPT ![h] =
                  [q EXCEPT !.todo = @ \ {c}, !.accepted = @ \union {c.id},
                            !.touched = @ \union touching(c)]]
          \/ handler' = [handler EXCEPT ![h].todo = @ \ {c}]
          \/ handler' = [handler EXCEPT ![h] = [q EXCEPT !.step = "write", !.current = c]]
    BY <1>5 DEF Examine
  <2>2. UNCHANGED applied
    BY <1>5 DEF Examine
  <2> DEFINE known == [q EXCEPT !.todo = @ \ {c}, !.accepted = @ \union {c.id},
                                !.touched = @ \union touching(c)]
             refused == [q EXCEPT !.todo = @ \ {c}]
             begun == [q EXCEPT !.step = "write", !.current = c]
  <2>3. /\ known.node = q.node /\ known.accepted = q.accepted \union {c.id}
        /\ refused.node = q.node /\ refused.accepted = q.accepted
        /\ begun.node = q.node /\ begun.accepted = q.accepted
    BY <1>1 DEF HandlerRows
  <2>4. \/ handler' = [handler EXCEPT ![h] = known] /\ c.id \in applied[q.node]
        \/ handler' = [handler EXCEPT ![h] = refused]
        \/ handler' = [handler EXCEPT ![h] = begun]
    BY <2>1
  <2> HIDE DEF known, refused, begun
  <2> QED
    BY <2>2, <2>3, <2>4, RunContinues DEF TypeOK
<1>6. CASE Write(h)
  <2>1. /\ applied' = [applied EXCEPT ![q.node] = @ \union {q.current.id}]
        /\ handler' = [handler EXCEPT ![h] =
             [q EXCEPT !.step = "next", !.current = NoChange, !.todo = @ \ {q.current},
                       !.accepted = @ \union {q.current.id},
                       !.touched = @ \union touching(q.current)]]
    BY <1>6 DEF Write
  <2>2. q.current.id \in applied'[q.node]
    BY <1>1, <2>1 DEF TypeOK, TablesOK, HandlerRows
  <2> QED
    BY <1>1, <2>1, <2>2 DEF Continues, OthersStay, HandlerRows
<1>7. CASE WriteRefused(h) \/ WriteFails(h)
  <2> DEFINE p == [q EXCEPT !.step = "next", !.current = NoChange, !.todo = @ \ {q.current}]
  <2>1. handler' = [handler EXCEPT ![h] = p]
    BY <1>7 DEF WriteRefused, WriteFails, SetAside
  <2>2. p.node = q.node /\ p.accepted = q.accepted
    BY <1>1 DEF HandlerRows
  <2> HIDE DEF p
  <2> QED
    BY <2>1, <2>2, RunContinues DEF TypeOK
<1>8. CASE Recompute(h)
  <2>1. PICK p : /\ handler' = [handler EXCEPT ![h] = p]
                 /\ p.node = q.node /\ p.accepted = q.accepted
    <3>1. PICK o, e : handler' = [handler EXCEPT ![h] =
             IF rows[q.node][o].status = e.status
               THEN [q EXCEPT !.touched = @ \ {o}]
               ELSE [q EXCEPT !.step = "recompute", !.current = [NoChange EXCEPT !.row = o],
                              !.latest = e.status]]
      BY <1>8 DEF Recompute
    <3> DEFINE mark == [NoChange EXCEPT !.row = o]
               first == [q EXCEPT !.touched = @ \ {o}]
               second == [q EXCEPT !.step = "recompute", !.current = mark, !.latest = e.status]
    <3>2. handler' = [handler EXCEPT ![h] = first] \/ handler' = [handler EXCEPT ![h] = second]
      BY <3>1
    <3> HIDE DEF mark
    <3>3. first.node = q.node /\ first.accepted = q.accepted
      BY <1>1 DEF HandlerRows
    <3>4. second.node = q.node /\ second.accepted = q.accepted
      BY <1>1 DEF HandlerRows
    <3> HIDE DEF first, second
    <3> QED
      BY <3>2, <3>3, <3>4
  <2> QED
    BY <1>1, <2>1 DEF Continues, OthersStay
<1>9. CASE RecomputeWrite(h)
  BY <1>1, <1>9 DEF RecomputeWrite, Continues, OthersStay, HandlerRows
<1> QED
  BY <1>4, <1>5, <1>6, <1>7, <1>8, <1>9

\* A step of the run h, or a step that leaves every run but those a server loses.
LEMMA RunSteps ==
  ASSUME TypeOK, [Next]_vars
  PROVE  \/ \E h \in Handlers :
              \/ Push(h) \/ Pull(h) \/ Answered(h) \/ Pulled(h) \/ Ignored(h) \/ Lost(h) \/ Arrive(h)
              \/ Finish(h) \/ Examine(h) \/ Write(h) \/ WriteRefused(h) \/ WriteFails(h)
              \/ Recompute(h) \/ RecomputeWrite(h)
         \/ UNCHANGED handler
         \/ \E n \in Nodes : Restart(n)
BY StepKinds, WritesOpen, MovesOpen
   DEF vars, NothingToPush, NothingToPull, PullFails, Timeout, Opens, OpenWith, Commit

LEMMA AcceptedStep ==
  ASSUME TypeOK, Accepted, [Next]_vars, \A n \in Nodes : applied[n] \subseteq applied'[n]
  PROVE  Accepted'
<1>1. \A h \in Handlers : handler[h].node \in Nodes
  BY RunAt
<1>2. CASE \E n \in Nodes : Restart(n)
  <2>1. \A h \in Handlers : handler'[h].accepted = {} \/ handler'[h] = handler[h]
    BY <1>2 DEF Restart, Free
  <2> QED
    BY <1>1, <2>1 DEF Accepted
<1>3. CASE UNCHANGED handler
  BY <1>1, <1>3 DEF Accepted
<1>4. ASSUME NEW h \in Handlers, OthersStay(h), handler'[h].accepted = {} \/ Continues(h)
      PROVE  Accepted'
  BY <1>1, <1>4 DEF Accepted, OthersStay, Continues
<1> QED
  BY <1>2, <1>3, <1>4, RunSteps, StepStarts, StepContinues

LEMMA AssignedStep ==
  ASSUME TypeOK, Assigned, [Next]_vars
  PROVE  Assigned'
<1>1. cycle.handler \in Handlers /\ handler \in [Handlers -> HandlerRows]
      /\ cycle \in [step : {"idle", "pushing", "pull", "pulling"}, handler : Handlers]
  BY DEF TypeOK, ExchangeOK, RunsOK
<1>2. ASSUME NEW h \in Handlers, Push(h) \/ Pull(h) PROVE Assigned'
  BY <1>1, <1>2 DEF Push, Pull, Run, Assigned
<1>3. ASSUME cycle' = [cycle EXCEPT !.step = "idle"] \/ cycle' = [cycle EXCEPT !.step = "pull"]
      PROVE  Assigned'
  BY <1>1, <1>3 DEF Assigned
<1>4. ASSUME NEW h \in Handlers, Answered(h) \/ Pulled(h) \/ Lost(h) PROVE Assigned'
  BY <1>3, <1>4 DEF Answered, Pulled, Lost
<1>5. ASSUME NEW h \in Handlers, Ignored(h) PROVE Assigned'
  <2>1. UNCHANGED cycle /\ ~ Waiting(h)
    BY <1>5 DEF Ignored, exchange
  <2>2. OthersStay(h)
    BY <1>5, StepStarts
  <2> QED
    BY <1>1, <2>1, <2>2 DEF Assigned, Waiting, OthersStay
<1>6. ASSUME NEW h \in Handlers,
             \/ Arrive(h) \/ Finish(h) \/ Examine(h) \/ Write(h) \/ WriteRefused(h) \/ WriteFails(h)
             \/ Recompute(h) \/ RecomputeWrite(h)
      PROVE  Assigned'
  <2>1. UNCHANGED cycle
    BY <1>6 DEF Arrive, Finish, Examine, Write, WriteRefused, WriteFails, SetAside, Recompute,
                RecomputeWrite, exchange
  <2>2. Continues(h) /\ OthersStay(h)
    BY <1>6, StepContinues
  <2> QED
    BY <1>1, <2>1, <2>2 DEF Assigned, Continues, OthersStay
<1>7. ASSUME NEW n \in Nodes, Restart(n) PROVE Assigned'
  <2>1. CASE cycle' = [cycle EXCEPT !.step = "idle"]
    BY <1>3, <2>1
  <2>2. CASE cycle' # [cycle EXCEPT !.step = "idle"]
    <3>1. UNCHANGED cycle /\ n # "LOCAL" /\ ~ (cycle.step = "pushing" /\ handler[cycle.handler].step # "travel")
      BY <1>7, <2>2 DEF Restart
    <3>2. cycle.step \in {"pushing", "pulling"} => handler'[cycle.handler] = handler[cycle.handler]
      BY <1>1, <1>7, <3>1 DEF Restart, Assigned
    <3> QED
      BY <3>1, <3>2 DEF Assigned
  <2> QED
    BY <2>1, <2>2
<1>8. ASSUME UNCHANGED handler PROVE Assigned'
  <2>1. \/ UNCHANGED cycle \/ cycle' = [cycle EXCEPT !.step = "idle"]
        \/ cycle' = [cycle EXCEPT !.step = "pull"] \/ \E h \in Handlers : Push(h) \/ Pull(h)
        \/ \E n \in Nodes : Restart(n)
    BY StepKinds, WritesOpen, MovesOpen
       DEF vars, exchange, NothingToPush, NothingToPull, PullFails, Timeout,
         Answered, Pulled, Lost, Ignored, Arrive, Finish, Examine, Write, WriteRefused, WriteFails,
         SetAside, Recompute, RecomputeWrite, Opens, OpenWith, Commit
  <2> QED
    BY <1>2, <1>3, <1>7, <1>8, <2>1 DEF Assigned
<1> QED
  BY <1>2, <1>4, <1>5, <1>6, <1>7, <1>8, RunSteps

LEMMA LedgerInvariant == Spec => [](TypeOK /\ Ledger)
<1>1. Init => Ledger
  BY SyncAssumption DEF Init, Ledger, Apart, wrote, FromPeer, Counted, Believed, Accepted, Assigned,
     Nodes, Ids, Free, peerOf
<1>2. TypeOK /\ Ledger /\ [Next]_vars => Ledger'
  BY ApartStep, LedgerStep, BelievedStep, AcceptedStep, AssignedStep DEF Ledger
<1> QED
  BY <1>1, <1>2, SyncTypes, PTL DEF Spec

\* A change is written once on the peer, however often it is sent, whatever is
\* lost, and however many batches are applied at a time.
THEOREM EachChangeOnce == Spec => []WrittenOnce
<1>1. Ledger => WrittenOnce
  BY DEF Ledger, Counted, WrittenOnce
<1> QED
  BY <1>1, LedgerInvariant, PTL

\* What LOCAL marks as sent, CLOUD has applied.
THEOREM SentIsApplied == Spec => []SentWasApplied
<1>1. TypeOK /\ Ledger => SentWasApplied
  <2>1. TypeOK => \A c \in outbox["LOCAL"] : c.id \in Ids
    BY SyncAssumption DEF TypeOK, TablesOK, journaledBy, Ids, Nodes, Changes
  <2> QED
    BY <2>1 DEF Ledger, Believed, SentWasApplied
<1> QED
  BY <1>1, LedgerInvariant, PTL

-----------------------------------------------------------------------------
(* What the cursor needs to skip nothing: that the writes of the            *)
(* application do not overlap, and that no two share a millisecond.         *)

Alone == MaxOpen <= 1 /\ 0 \notin Gaps

OneOpen == IsFiniteSet(open) /\ \A t, u \in open : t = u

\* What CLOUD has yet to commit comes after what it committed, and the cursor.
ComesLater ==
  \A t \in open : t.node = "CLOUD" =>
    /\ \A c \in t.changes : cursor < c.occurredAt
                            /\ \A d \in outbox["CLOUD"] : d.occurredAt < c.occurredAt
    /\ \A c, d \in t.changes : c.occurredAt = d.occurredAt => c = d

Instants == \A c, d \in outbox["CLOUD"] : c.occurredAt = d.occurredAt => c = d

handled(n, i) == i \in applied[n] \union conflicts[n]

\* A run of LOCAL has before it all that it has not handled up to its last change.
WholePage ==
  cycle.step = "pulling" =>
    \A c \in outbox["CLOUD"] : \A d \in handler[cycle.handler].batch :
      c.occurredAt <= d.occurredAt => handled("LOCAL", c.id) \/ c \in handler[cycle.handler].todo

DoneIsDone == \A h \in Handlers : handler[h].step = "done" => handler[h].todo = {}

Cursors == OneOpen /\ ComesLater /\ Instants /\ WholePage /\ DoneIsDone /\ NothingSkipped

LEMMA OneOpenStep ==
  ASSUME TypeOK, Alone, OneOpen, [Next]_vars
  PROVE  OneOpen' /\ (Opens => open = {})
<1>1. ASSUME Opens PROVE OneOpen' /\ open = {}
  <2> PICK n \in Nodes, last \in Nat, now \in Nat : \E changes : OpenWith(n, changes, last, now)
    BY <1>1 DEF Opens
  <2>1. PICK changes : OpenWith(n, changes, last, now)
    OBVIOUS
  <2>2. Cardinality(open) < MaxOpen /\ MaxOpen <= 1 /\ MaxOpen \in Nat
    BY <2>1, SyncAssumption DEF OpenWith, Alone
  <2>3. Cardinality(open) \in Nat
    BY FS_CardinalityType DEF OneOpen
  <2>4. Cardinality(open) = 0
    BY <2>2, <2>3
  <2>5. open = {}
    BY <2>4, FS_EmptySet DEF OneOpen
  <2>6. open' = {[node |-> n, changes |-> changes]}
    BY <2>1, <2>5 DEF OpenWith
  <2>7. IsFiniteSet(open')
    BY <2>6, FS_Singleton
  <2> QED
    BY <2>5, <2>6, <2>7 DEF OneOpen
<1>2. ASSUME open' \subseteq open PROVE OneOpen'
  <2>1. IsFiniteSet(open')
    BY <1>2, FS_Subset DEF OneOpen
  <2> QED
    BY <1>2, <2>1 DEF OneOpen
<1>3. ASSUME \E t \in open : Commit(t) PROVE open' \subseteq open
  BY <1>3 DEF Commit
<1> QED
  BY <1>1, <1>2, <1>3, JournalSteps

\* The cursor only moves when LOCAL has pulled, and to a change of CLOUD.
LEMMA CursorMoves ==
  ASSUME TypeOK, Assigned, [Next]_vars
  PROVE  \/ UNCHANGED cursor
         \/ \E h \in Handlers :
              /\ Pulled(h) /\ handler[h].node = "LOCAL" /\ handler[h].batch \subseteq outbox["CLOUD"]
              /\ UNCHANGED <<store, open, applied, conflicts>>
<1>1. UNCHANGED cursor \/ \E h \in Handlers : Pulled(h)
  BY StepKinds, WritesOpen, MovesOpen
     DEF vars, exchange, Push, Pull, NothingToPush, NothingToPull, PullFails, Timeout,
         Answered, Ignored, Lost, Arrive, Finish, Examine, Write, WriteRefused, WriteFails, SetAside,
         Recompute, RecomputeWrite, Restart, Opens, OpenWith, Commit
<1>2. ASSUME NEW h \in Handlers, Pulled(h)
      PROVE  /\ handler[h].node = "LOCAL" /\ handler[h].batch \subseteq outbox["CLOUD"]
             /\ UNCHANGED <<store, open, applied, conflicts>>
  <2>1. handler[h].node = "LOCAL" /\ UNCHANGED <<store, open, applied, conflicts>>
    BY <1>2 DEF Pulled, Assigned
  <2> QED
    BY <2>1, RunAt DEF wellFormed, peerOf
<1> QED
  BY <1>1, <1>2

\* What CLOUD's journal gains in a step comes after what it had, and the cursor.
LEMMA JournalGrows ==
  ASSUME TypeOK, OneOpen, ComesLater, Instants, [Next]_vars
  PROVE  /\ Instants'
         /\ \A c \in outbox'["CLOUD"] : c \in outbox["CLOUD"]
              \/ /\ cursor < c.occurredAt /\ UNCHANGED <<cursor, handler, cycle, applied, conflicts>>
                 /\ \A d \in outbox["CLOUD"] : d.occurredAt < c.occurredAt
<1>1. CASE UNCHANGED outbox
  BY <1>1 DEF Instants
<1>2. CASE \E t \in open : Commit(t)
  <2>1. PICK t \in open : Commit(t)
    BY <1>2
  <2>2. /\ outbox' = [outbox EXCEPT ![t.node] = @ \union t.changes]
        /\ UNCHANGED <<cursor, handler, cycle, applied, conflicts>>
    BY <2>1 DEF Commit, exchange
  <2>3. CASE t.node # "CLOUD"
    <3>1. outbox'["CLOUD"] = outbox["CLOUD"]
      BY <2>2, <2>3 DEF TypeOK, TablesOK, Nodes
    <3> QED
      BY <3>1 DEF Instants
  <2>4. CASE t.node = "CLOUD"
    <3>1. outbox'["CLOUD"] = outbox["CLOUD"] \union t.changes
      BY <2>2, <2>4 DEF TypeOK, TablesOK, Nodes
    <3>2. \A c \in t.changes : cursor < c.occurredAt
                               /\ \A d \in outbox["CLOUD"] : d.occurredAt < c.occurredAt
      BY <2>1, <2>4 DEF ComesLater
    <3>3. \A c, d \in t.changes : c.occurredAt = d.occurredAt => c = d
      BY <2>1, <2>4 DEF ComesLater
    <3>4. \A c \in outbox'["CLOUD"] : c.occurredAt \in Nat
      <4>1. \A c \in outbox["CLOUD"] : c.occurredAt \in Nat
        BY DEF TypeOK, TablesOK, Nodes, Changes
      <4>2. \A c \in t.changes : c.occurredAt \in Nat
        BY <2>1 DEF TypeOK, TablesOK, journaledBy, Changes
      <4> QED
        BY <3>1, <4>1, <4>2
    <3>5. Instants'
      <4> SUFFICES ASSUME NEW c \in outbox'["CLOUD"], NEW d \in outbox'["CLOUD"],
                          c.occurredAt = d.occurredAt
                   PROVE  c = d
        BY DEF Instants
      <4>1. CASE c \in outbox["CLOUD"] /\ d \in outbox["CLOUD"]
        BY <4>1 DEF Instants
      <4>2. CASE c \in t.changes /\ d \in t.changes
        BY <3>3, <4>2
      <4>3. CASE c \in outbox["CLOUD"] /\ d \in t.changes
        BY <3>2, <3>4, <4>3
      <4>4. CASE c \in t.changes /\ d \in outbox["CLOUD"]
        BY <3>2, <3>4, <4>4
      <4> QED
        BY <3>1, <4>1, <4>2, <4>3, <4>4
    <3> QED
      BY <2>2, <3>1, <3>2, <3>5
  <2> QED
    BY <2>3, <2>4
<1>3. UNCHANGED outbox \/ \E t \in open : Commit(t)
  BY JournalSteps DEF Opens, OpenWith, store
<1> QED
  BY <1>1, <1>2, <1>3

LEMMA ComesLaterStep ==
  ASSUME TypeOK, Alone, Assigned, OneOpen, ComesLater, [Next]_vars
  PROVE  ComesLater'
<1>1. CASE Opens
  <2>1. open = {}
    BY <1>1, OneOpenStep
  <2> PICK n \in Nodes, last \in Nat, now \in Nat :
        \E changes : Fresh(n, changes, last, now) /\ OpenWith(n, changes, last, now)
    BY <1>1 DEF Opens
  <2>2. PICK changes : Fresh(n, changes, last, now) /\ OpenWith(n, changes, last, now)
    OBVIOUS
  <2>3. open' = {[node |-> n, changes |-> changes]} /\ UNCHANGED <<outbox, cursor>>
    BY <2>1, <2>2 DEF OpenWith, store, exchange
  <2>4. /\ \A c \in changes : clock < c.occurredAt /\ c.occurredAt \in Nat
        /\ \A c, d \in changes : c.occurredAt = d.occurredAt => c = d
    BY <2>2 DEF Fresh, Alone, Changes
  <2>5. \A d \in outbox["CLOUD"] : d.occurredAt <= clock /\ d.occurredAt \in Nat
    BY DEF TypeOK, TablesOK, journaledBy, Nodes, Changes
  <2>6. cursor \in Nat /\ clock \in Nat /\ cursor <= clock
    BY DEF TypeOK, TablesOK, ExchangeOK
  <2>7. \A c \in changes : cursor < c.occurredAt /\ \A d \in outbox["CLOUD"] : d.occurredAt < c.occurredAt
    BY <2>4, <2>5, <2>6
  <2> QED
    BY <2>3, <2>4, <2>7 DEF ComesLater
<1>2. CASE \E t \in open : Commit(t)
  <2>1. open' = {}
    BY <1>2 DEF Commit, OneOpen
  <2> QED
    BY <2>1 DEF ComesLater
<1>3. CASE UNCHANGED outbox /\ open' \subseteq open
  <2>1. CASE UNCHANGED cursor
    BY <1>3, <2>1 DEF ComesLater
  <2>2. ASSUME NEW h \in Handlers, Pulled(h), handler[h].batch \subseteq outbox["CLOUD"]
        PROVE  ComesLater'
    <3>1. \E d \in outbox["CLOUD"] : cursor' = d.occurredAt
      BY <2>2 DEF Pulled
    <3> QED
      BY <1>3, <3>1 DEF ComesLater
  <2> QED
    BY <2>1, <2>2, CursorMoves
<1> QED
  BY <1>1, <1>2, <1>3, JournalSteps

\* A run that goes on keeps its batch, and lets go of a change when it is
\* handled; it is done when it has let go of all.
Advances(h) ==
  /\ handler'[h].batch = handler[h].batch
  /\ \A c \in handler[h].todo :
       c \in handler'[h].todo \/ c.id \in applied'[handler[h].node] \union conflicts'[handler[h].node]
  /\ handler'[h].step = "done" => handler'[h].todo = {}

LEMMA RunAdvances ==
  ASSUME RunsOK, NEW h \in Handlers, NEW p, handler' = [handler EXCEPT ![h] = p],
         p.batch = handler[h].batch, p.step # "done",
         \A c \in handler[h].todo :
           c \in p.todo \/ c.id \in applied'[handler[h].node] \union conflicts'[handler[h].node]
  PROVE  Advances(h)
BY DEF Advances, RunsOK

LEMMA StepAdvances ==
  ASSUME TypeOK, NEW h \in Handlers,
         \/ Arrive(h) \/ Finish(h) \/ Examine(h) \/ Write(h) \/ WriteRefused(h) \/ WriteFails(h)
         \/ Recompute(h) \/ RecomputeWrite(h)
  PROVE  Advances(h)
<1> DEFINE q == handler[h]
<1>1. q \in HandlerRows /\ handler \in [Handlers -> HandlerRows] /\ q.node \in Nodes
  BY RunAt DEF TypeOK, RunsOK
<1>2. CASE Arrive(h) \/ Finish(h)
  BY <1>1, <1>2 DEF Arrive, Finish, Advances, HandlerRows
<1>3. CASE Examine(h)
  <2>1. PICK c \in q.todo :
          \/ /\ c.id \in applied[q.node]
             /\ handler' = [handler EXCEPT ![h] =
                  [q EXCEPT !.todo = @ \ {c}, !.accepted = @ \union {c.id},
                            !.touched = @ \union touching(c)]]
          \/ /\ handler' = [handler EXCEPT ![h].todo = @ \ {c}]
             /\ conflicts' = [conflicts EXCEPT ![q.node] = @ \union {c.id}]
          \/ handler' = [handler EXCEPT ![h] = [q EXCEPT !.step = "write", !.current = c]]
    BY <1>3 DEF Examine
  <2>2. UNCHANGED applied /\ q.step = "next"
    BY <1>3 DEF Examine
  <2> DEFINE known == [q EXCEPT !.todo = @ \ {c}, !.accepted = @ \union {c.id},
                                !.touched = @ \union touching(c)]
             refused == [q EXCEPT !.todo = @ \ {c}]
             begun == [q EXCEPT !.step = "write", !.current = c]
  <2>3. /\ known.batch = q.batch /\ known.step = "next" /\ known.todo = q.todo \ {c}
        /\ refused.batch = q.batch /\ refused.step = "next" /\ refused.todo = q.todo \ {c}
        /\ begun.batch = q.batch /\ begun.step = "write" /\ begun.todo = q.todo
    BY <1>1, <2>2 DEF HandlerRows
  <2>4. \/ handler' = [handler EXCEPT ![h] = known] /\ c.id \in applied'[q.node]
        \/ handler' = [handler EXCEPT ![h] = refused] /\ c.id \in conflicts'[q.node]
        \/ handler' = [handler EXCEPT ![h] = begun]
    BY <1>1, <2>1, <2>2 DEF TypeOK, TablesOK
  <2> HIDE DEF known, refused, begun
  <2> QED
    BY <2>3, <2>4, RunAdvances DEF TypeOK
<1>4. CASE Write(h)
  <2> DEFINE p == [q EXCEPT !.step = "next", !.current = NoChange, !.todo = @ \ {q.current},
                            !.accepted = @ \union {q.current.id},
                            !.touched = @ \union touching(q.current)]
  <2>1. /\ applied' = [applied EXCEPT ![q.node] = @ \union {q.current.id}]
        /\ handler' = [handler EXCEPT ![h] = p]
    BY <1>4 DEF Write
  <2>2. q.current.id \in applied'[q.node]
    BY <1>1, <2>1 DEF TypeOK, TablesOK
  <2>3. p.batch = q.batch /\ p.step = "next" /\ p.todo = q.todo \ {q.current}
    BY <1>1 DEF HandlerRows
  <2> HIDE DEF p
  <2> QED
    BY <2>1, <2>2, <2>3, RunAdvances DEF TypeOK
<1>5. CASE WriteRefused(h) \/ WriteFails(h)
  <2> DEFINE p == [q EXCEPT !.step = "next", !.current = NoChange, !.todo = @ \ {q.current}]
  <2>1. /\ conflicts' = [conflicts EXCEPT ![q.node] = @ \union {q.current.id}]
        /\ handler' = [handler EXCEPT ![h] = p]
    BY <1>5 DEF WriteRefused, WriteFails, SetAside
  <2>2. q.current.id \in conflicts'[q.node]
    BY <1>1, <2>1 DEF TypeOK, TablesOK
  <2>3. p.batch = q.batch /\ p.step = "next" /\ p.todo = q.todo \ {q.current}
    BY <1>1 DEF HandlerRows
  <2> HIDE DEF p
  <2> QED
    BY <2>1, <2>2, <2>3, RunAdvances DEF TypeOK
<1>6. CASE Recompute(h)
  <2>1. PICK o, e : handler' = [handler EXCEPT ![h] =
           IF rows[q.node][o].status = e.status
             THEN [q EXCEPT !.touched = @ \ {o}]
             ELSE [q EXCEPT !.step = "recompute", !.current = [NoChange EXCEPT !.row = o],
                            !.latest = e.status]]
    BY <1>6 DEF Recompute
  <2> DEFINE mark == [NoChange EXCEPT !.row = o]
             first == [q EXCEPT !.touched = @ \ {o}]
             second == [q EXCEPT !.step = "recompute", !.current = mark, !.latest = e.status]
  <2>2. handler' = [handler EXCEPT ![h] = first] \/ handler' = [handler EXCEPT ![h] = second]
    BY <2>1
  <2>3. q.step = "next"
    BY <1>6 DEF Recompute
  <2> HIDE DEF mark
  <2>4. first.batch = q.batch /\ first.step = "next" /\ first.todo = q.todo
    BY <1>1, <2>3 DEF HandlerRows
  <2>5. second.batch = q.batch /\ second.step = "recompute" /\ second.todo = q.todo
    BY <1>1 DEF HandlerRows
  <2> HIDE DEF first, second
  <2> QED
    BY <2>2, <2>4, <2>5, RunAdvances DEF TypeOK
<1>7. CASE RecomputeWrite(h)
  <2> DEFINE o == q.current.row
             p == [q EXCEPT !.step = "next", !.current = NoChange, !.touched = @ \ {o}, !.latest = 0]
  <2>1. handler' = [handler EXCEPT ![h] = p]
    BY <1>7 DEF RecomputeWrite
  <2>2. p.batch = q.batch /\ p.step = "next" /\ p.todo = q.todo
    BY <1>1 DEF HandlerRows
  <2> HIDE DEF p
  <2> QED
    BY <2>1, <2>2, RunAdvances DEF TypeOK
<1> QED
  BY <1>2, <1>3, <1>4, <1>5, <1>6, <1>7

LEMMA HandledGrows ==
  ASSUME TypeOK, [Next]_vars, NEW n \in Nodes, NEW i, handled(n, i)
  PROVE  handled(n, i)'
<1>1. applied[n] \subseteq applied'[n]
  <2>1. CASE UNCHANGED applied
    BY <2>1
  <2>2. CASE \E h \in Handlers : Write(h)
    BY <2>2 DEF Write, TypeOK, TablesOK
  <2> QED
    BY <2>1, <2>2, AppliedSteps
<1>2. conflicts[n] \subseteq conflicts'[n]
  <2>1. \/ UNCHANGED conflicts
        \/ \E h \in Handlers : conflicts' = [conflicts EXCEPT ![handler[h].node] =
                                               @ \union {handler[h].current.id}]
        \/ \E h \in Handlers : Examine(h)
    BY StepKinds, WritesOpen, MovesOpen
       DEF vars, Push, Pull, NothingToPush, NothingToPull, PullFails, Timeout,
           Answered, Pulled, Ignored, Lost, Arrive, Finish, Write, WriteRefused, WriteFails,
           SetAside, Recompute, RecomputeWrite, Restart, Opens, OpenWith, Commit
  <2>2. ASSUME NEW h \in Handlers, Examine(h) PROVE conflicts[n] \subseteq conflicts'[n]
    BY <2>2 DEF Examine, TypeOK, TablesOK
  <2>3. ASSUME NEW h \in Handlers,
               conflicts' = [conflicts EXCEPT ![handler[h].node] = @ \union {handler[h].current.id}]
        PROVE  conflicts[n] \subseteq conflicts'[n]
    BY <2>3 DEF TypeOK, TablesOK
  <2> QED
    BY <2>1, <2>2, <2>3
<1> QED
  BY <1>1, <1>2 DEF handled

LEMMA DoneStep ==
  ASSUME TypeOK, DoneIsDone, [Next]_vars
  PROVE  DoneIsDone'
<1>1. handler \in [Handlers -> HandlerRows]
  BY DEF TypeOK, RunsOK
<1>2. ASSUME NEW h \in Handlers, Push(h) \/ Pull(h) \/ Answered(h) \/ Pulled(h) \/ Ignored(h) \/ Lost(h)
      PROVE  DoneIsDone'
  <2>1. handler'[h].step # "done"
    BY <1>1, <1>2 DEF Push, Pull, Run, Answered, Pulled, Ignored, Lost, Free
  <2>2. OthersStay(h)
    BY <1>2, StepStarts
  <2> QED
    BY <2>1, <2>2 DEF DoneIsDone, OthersStay
<1>3. ASSUME NEW h \in Handlers, Advances(h), OthersStay(h) PROVE DoneIsDone'
  BY <1>3 DEF DoneIsDone, Advances, OthersStay
<1>4. CASE UNCHANGED handler
  BY <1>4 DEF DoneIsDone
<1>5. CASE \E n \in Nodes : Restart(n)
  BY <1>5 DEF Restart, Free, DoneIsDone
<1> QED
  BY <1>2, <1>3, <1>4, <1>5, RunSteps, StepAdvances, StepContinues

\* A page holds all that CLOUD journaled between the cursor and its last change.
LEMMA PullTakesAll ==
  ASSUME TypeOK, Instants, NothingSkipped, NEW h \in Handlers, Pull(h)
  PROVE  WholePage'
<1>1. PICK page \in Pages(toPull, BatchSize) : Run(h, "LOCAL", "next", page)
  BY DEF Pull
<1>2. cycle' = [step |-> "pulling", handler |-> h] /\ UNCHANGED <<outbox, applied, conflicts>>
  BY DEF Pull, store
<1>3. handler'[h].batch = page /\ handler'[h].todo = page
  BY <1>1 DEF Run, TypeOK, RunsOK
<1>4. \A c \in outbox["CLOUD"] : c.occurredAt \in Nat
  BY DEF TypeOK, TablesOK, Nodes, Changes
<1>5. cursor \in Nat
  BY DEF TypeOK, ExchangeOK
<1>6. ASSUME NEW c \in outbox["CLOUD"], NEW d \in page, c.occurredAt <= d.occurredAt
      PROVE  handled("LOCAL", c.id) \/ c \in page
  <2>1. CASE c \in toPull
    <3>1. d \in outbox["CLOUD"]
      BY <1>1, <1>6 DEF Pages, toPull
    <3>2. c \notin page => d.occurredAt <= c.occurredAt
      BY <1>1, <1>6, <2>1 DEF Pages
    <3>3. c \notin page => c = d
      <4>1. c.occurredAt \in Nat /\ d.occurredAt \in Nat
        BY <1>4, <3>1
      <4>2. c \notin page => c.occurredAt = d.occurredAt
        BY <1>6, <3>2, <4>1
      <4> QED
        BY <3>1, <4>2 DEF Instants
    <3> QED
      BY <1>6, <3>3
  <2>2. CASE c \notin toPull
    <3>1. c.occurredAt <= cursor
      BY <1>4, <1>5, <2>2 DEF toPull
    <3> QED
      BY <3>1 DEF NothingSkipped, handled
  <2> QED
    BY <2>1, <2>2
<1> QED
  BY <1>2, <1>3, <1>6 DEF WholePage, handled

LEMMA WholePageStep ==
  ASSUME TypeOK, Assigned, Cursors, [Next]_vars
  PROVE  WholePage'
<1>1. cycle.handler \in Handlers /\ handler \in [Handlers -> HandlerRows]
      /\ cycle \in [step : {"idle", "pushing", "pull", "pulling"}, handler : Handlers]
  BY DEF TypeOK, ExchangeOK, RunsOK
<1>2. CASE \E h \in Handlers : Pull(h)
  BY <1>2, PullTakesAll DEF Cursors
<1>3. CASE cycle'.step # "pulling"
  BY <1>3 DEF WholePage
<1>4. CASE UNCHANGED cycle /\ cycle.step = "pulling"
  <2> DEFINE h == cycle.handler
             q == handler[h]
  <2>1. \/ handler'[h] = q
        \/ Advances(h) /\ handler'[h].node = q.node
    <3>1. ASSUME NEW g \in Handlers, Push(g) \/ Answered(g) \/ Pulled(g) \/ Ignored(g) \/ Lost(g)
          PROVE  handler'[h] = q
      <4>1. g # h
        <5>1. ~ Push(g) /\ ~ Answered(g) /\ ~ Lost(g)
          BY <1>4 DEF Push, Answered, Lost
        <5>2. ~ Pulled(g)
          BY <1>1, <1>4 DEF Pulled
        <5> QED
          BY <1>4, <3>1, <5>1, <5>2 DEF Ignored, Waiting
      <4> QED
        BY <1>1, <3>1, <4>1, StepStarts DEF OthersStay
    <3>2. ASSUME NEW n \in Nodes, Restart(n) PROVE handler'[h] = q
      <4>1. n # "LOCAL"
        BY <1>1, <1>4, <3>2 DEF Restart
      <4> QED
        BY <1>1, <1>4, <3>2, <4>1 DEF Restart, Assigned
    <3>3. ASSUME NEW g \in Handlers, Advances(g), Continues(g), OthersStay(g)
          PROVE  handler'[h] = q \/ (Advances(h) /\ handler'[h].node = q.node)
      BY <1>1, <3>3 DEF OthersStay, Continues
    <3>4. ASSUME NEW g \in Handlers, Pull(g) PROVE FALSE
      BY <1>4, <3>4 DEF Pull
    <3> QED
      BY <3>1, <3>2, <3>3, <3>4, RunSteps, StepAdvances, StepContinues
  <2>2. q.node = "LOCAL" /\ q.batch \subseteq outbox["CLOUD"]
    BY <1>1, <1>4, RunAt DEF Assigned, wellFormed, peerOf
  <2>3. handler'[h].batch = q.batch
    BY <2>1 DEF Advances
  <2>4. ASSUME NEW c \in q.todo PROVE c \in handler'[h].todo \/ handled("LOCAL", c.id)'
    BY <2>1, <2>2, <2>4 DEF Advances, handled
  <2>5. ASSUME NEW c \in outbox'["CLOUD"], NEW d \in q.batch, c.occurredAt <= d.occurredAt
        PROVE  handled("LOCAL", c.id)' \/ c \in handler'[h].todo
    <3>1. CASE c \in outbox["CLOUD"]
      <4>1. handled("LOCAL", c.id) \/ c \in q.todo
        BY <1>4, <2>5, <3>1 DEF Cursors, WholePage
      <4> QED
        BY <2>4, <4>1, HandledGrows DEF Nodes
    <3>2. CASE c \notin outbox["CLOUD"]
      <4>1. d \in outbox["CLOUD"]
        BY <2>2, <2>5
      <4>2. d.occurredAt < c.occurredAt
        BY <3>2, <4>1, <2>5, JournalGrows DEF Cursors
      <4>3. c.occurredAt \in Nat /\ d.occurredAt \in Nat
        <5>1. TypeOK'
          BY TypeStep
        <5> QED
          BY <2>5, <4>1, <5>1 DEF TypeOK, TablesOK, Nodes, Changes
      <4> QED
        BY <2>5, <4>2, <4>3
    <3> QED
      BY <3>1, <3>2
  <2> QED
    BY <1>4, <2>3, <2>5 DEF WholePage
<1>5. \/ \E h \in Handlers : Pull(h)
      \/ cycle'.step # "pulling"
      \/ UNCHANGED cycle
  <2>1. ASSUME NEW h \in Handlers,
               Push(h) \/ NothingToPush \/ NothingToPull \/ PullFails \/ Timeout(h) \/ Pulled(h) \/ Lost(h)
        PROVE  cycle'.step # "pulling"
    BY <1>1, <2>1 DEF Push, NothingToPush, NothingToPull, PullFails, Timeout, Pulled, Lost
  <2>2. ASSUME NEW h \in Handlers, Answered(h) PROVE cycle'.step # "pulling"
    BY <1>1, <2>2 DEF Answered
  <2>3. ASSUME NEW n \in Nodes, Restart(n) PROVE cycle'.step # "pulling" \/ UNCHANGED cycle
    BY <1>1, <2>3 DEF Restart
  <2>4. ASSUME NEW h \in Handlers,
               Ignored(h) \/ Arrive(h) \/ Finish(h) \/ Examine(h) \/ Write(h) \/ WriteRefused(h)
                 \/ WriteFails(h) \/ Recompute(h) \/ RecomputeWrite(h)
        PROVE  UNCHANGED cycle
    BY <2>4 DEF exchange, Ignored, Arrive, Finish, Examine, Write, WriteRefused, WriteFails,
         SetAside, Recompute, RecomputeWrite
  <2>5. ASSUME UNCHANGED vars \/ Opens \/ \E t \in open : Commit(t) PROVE UNCHANGED cycle
    BY <2>5 DEF vars, exchange, Opens, OpenWith, Commit
  <2> QED
    BY <1>1, StepKinds, WritesOpen, MovesOpen, <2>1, <2>2, <2>3, <2>4, <2>5
<1> QED
  BY <1>2, <1>3, <1>4, <1>5

LEMMA SkipStep ==
  ASSUME TypeOK, Assigned, Cursors, [Next]_vars
  PROVE  NothingSkipped'
<1>1. ASSUME UNCHANGED cursor, NEW c \in outbox'["CLOUD"], c.occurredAt <= cursor
      PROVE  handled("LOCAL", c.id)'
  <2>1. CASE c \in outbox["CLOUD"]
    <3>1. handled("LOCAL", c.id)
      BY <1>1, <2>1 DEF Cursors, NothingSkipped, handled
    <3> QED
      BY <3>1, HandledGrows DEF Nodes
  <2>2. CASE c \notin outbox["CLOUD"]
    <3>1. cursor < c.occurredAt
      BY <1>1, <2>2, JournalGrows DEF Cursors
    <3>2. TypeOK'
      BY TypeStep
    <3>3. cursor \in Nat /\ c.occurredAt \in Nat
      BY <1>1, <3>2 DEF TypeOK, ExchangeOK, TablesOK, Nodes, Changes
    <3> QED
      BY <1>1, <3>1, <3>3
  <2> QED
    BY <2>1, <2>2
<1>2. ASSUME NEW h \in Handlers, Pulled(h), handler[h].batch \subseteq outbox["CLOUD"],
             UNCHANGED <<store, open, applied, conflicts>>
      PROVE  NothingSkipped'
  <2>1. PICK d \in handler[h].batch : cursor' = d.occurredAt
    BY <1>2 DEF Pulled
  <2>2. cycle.step = "pulling" /\ cycle.handler = h /\ handler[h].todo = {}
    BY <1>2 DEF Pulled, Cursors, DoneIsDone
  <2>3. \A c \in outbox["CLOUD"] : c.occurredAt <= cursor' => handled("LOCAL", c.id)
    BY <2>1, <2>2 DEF Cursors, WholePage
  <2> QED
    BY <1>2, <2>3 DEF NothingSkipped, handled, store
<1> QED
  BY <1>1, <1>2, CursorMoves DEF NothingSkipped, handled

LEMMA CursorInvariant ==
  ASSUME Alone
  PROVE  Spec => [](TypeOK /\ Ledger /\ Cursors)
<1>1. Init => Cursors
  <2> SUFFICES ASSUME Init PROVE Cursors
    OBVIOUS
  <2>1. OneOpen
    BY FS_EmptySet DEF Init, OneOpen
  <2>2. ComesLater /\ Instants /\ NothingSkipped
    BY DEF Init, ComesLater, Instants, NothingSkipped, Nodes
  <2>3. WholePage /\ DoneIsDone
    BY DEF Init, WholePage, DoneIsDone, Free
  <2> QED
    BY <2>1, <2>2, <2>3 DEF Cursors
<1>2. TypeOK /\ Ledger /\ Cursors /\ [Next]_vars => Cursors'
  <2> SUFFICES ASSUME TypeOK, Ledger, Cursors, [Next]_vars PROVE Cursors'
    OBVIOUS
  <2>1. Assigned /\ OneOpen /\ ComesLater /\ Instants /\ DoneIsDone
    BY DEF Ledger, Cursors
  <2>2. OneOpen' /\ ComesLater' /\ Instants' /\ DoneIsDone'
    BY <2>1, OneOpenStep, ComesLaterStep, JournalGrows, DoneStep
  <2>3. WholePage' /\ NothingSkipped'
    BY <2>1, WholePageStep, SkipStep
  <2> QED
    BY <2>2, <2>3 DEF Cursors
<1> QED
  BY <1>1, <1>2, LedgerInvariant, PTL DEF Spec

\* When no two transactions of the application overlap and no two writes share
\* a millisecond, the cursor passes nothing that was not applied or set aside.
THEOREM CursorSkipsNothing == Alone => (Spec => []NothingSkipped)
<1> SUFFICES ASSUME Alone PROVE Spec => []NothingSkipped
  OBVIOUS
<1>1. Cursors => NothingSkipped
  BY DEF Cursors
<1> QED
  BY <1>1, CursorInvariant, PTL

-----------------------------------------------------------------------------
(* When no write fails on the peer either, a document of one writer is the  *)
(* same on both sides once all was received: the peer applies its changes   *)
(* in the order they were made in, whichever run brings them.               *)

Steady == Alone /\ MaxErrors = 0

owns(n, row) == row \in Documents /\ Owner[row] = n /\ Writers[row] = {n}

of(n, d) == {c \in outbox[n] : c.row = d}

\* Those the peer has applied.
landed(n, d) == {c \in of(n, d) : c.id \in applied[peerOf(n)]}

\* The writes that made a document what a change finds.
earlier(n, c) ==
  {e \in outbox[n] : owns(n, c.row) /\ e.row = c.row /\ e.occurredAt < c.occurredAt}

\* A row is what the last of some changes made of it.
shows(row, changes) ==
  \/ changes = {} /\ row = NoRow
  \/ \E c \in changes : isLast(c, changes) /\ row = c.payload

\* What a transaction journals comes after what its server journaled, and a write
\* of a document is alone in it, by a server that may.
WritesApart ==
  /\ \A t \in open : \A c \in t.changes :
       /\ \A e \in outbox[t.node] : e.occurredAt < c.occurredAt /\ e.id # c.id
       /\ c.row \in Documents => t.changes = {c} /\ t.node \in Writers[c.row]
  /\ \A n \in Nodes : \A c \in outbox[n] : c.row \in Documents =>
       /\ n \in Writers[c.row]
       /\ \A e \in outbox[n] : c.id = e.id \/ c.occurredAt = e.occurredAt => c = e

SetAsideFromPeer == \A n \in Nodes : \A i \in conflicts[n] : \E c \in outbox[peerOf(n)] : c.id = i

\* Both copies of a document, and what the peer has applied of it: its first
\* writes, and all that it has set aside.
Follows(n, d) ==
  /\ shows(rows[n][d], of(n, d))
  /\ shows(rows[peerOf(n)][d], landed(n, d))
  /\ \A c \in landed(n, d) : \A e \in earlier(n, c) : e.id \in applied[peerOf(n)]
  /\ \A c \in of(n, d) : c.id \in conflicts[peerOf(n)] => c.id \in applied[peerOf(n)]

BothFollow == \A n \in Nodes, d \in Documents : owns(n, d) => Follows(n, d)

\* A run takes the writes of a document in their order: those before one it has yet
\* to apply are applied, or are its own too; before the one it has begun, applied.
InOrder(q) ==
  /\ \A c \in q.todo : \A e \in earlier(peerOf(q.node), c) :
       e.id \in applied[q.node] \/ e \in q.todo
  /\ q.step = "write" =>
       \A e \in earlier(peerOf(q.node), q.current) : e.id \in applied[q.node]

Copies ==
  /\ WritesApart /\ SetAsideFromPeer /\ BothFollow
  /\ \A h \in Handlers : InOrder(handler[h])

LEMMA PeerIsANode ==
  ASSUME NEW n \in Nodes
  PROVE  peerOf(n) \in Nodes /\ peerOf(n) # n /\ peerOf(peerOf(n)) = n
BY DEF peerOf, Nodes

LEMMA JournaledChange ==
  ASSUME TypeOK, NEW n \in Nodes, NEW c \in outbox[n]
  PROVE  /\ c \in Changes /\ c.id \in Ids /\ c.occurredAt \in Nat /\ c.occurredAt <= clock
         /\ c.id <= journaled
         /\ c.row \in Documents => c.kind = "row"
<1>1. journaledBy(n, c)
  BY DEF TypeOK, TablesOK
<1>2. c \in Changes /\ c.id \in 1..journaled /\ c.occurredAt <= clock
      /\ (c.kind = "event" => c.row \in Orders)
  BY <1>1 DEF journaledBy
<1>3. journaled \in 0..MaxWrites /\ MaxWrites \in Nat
  BY SyncAssumption DEF TypeOK, TablesOK
<1>4. c.id \in Ids /\ c.id <= journaled
  BY <1>2, <1>3 DEF Ids
<1>5. c.row \in Documents => c.kind = "row"
  BY <1>2, SyncAssumption DEF Changes
<1> QED
  BY <1>2, <1>4, <1>5 DEF Changes

\* A transaction of the application commits one write of a document, or writes no
\* document at all.
LEMMA WritesApartStep ==
  ASSUME TypeOK, Steady, OneOpen, WritesApart, [Next]_vars
  PROVE  WritesApart'
<1>1. CASE Opens
  <2>1. open = {}
    BY <1>1, OneOpenStep DEF Steady
  <2> PICK n \in Nodes, last \in Nat, now \in Nat :
        \E changes : Fresh(n, changes, last, now) /\ OpenWith(n, changes, last, now)
    BY <1>1 DEF Opens
  <2>2. PICK changes : Fresh(n, changes, last, now) /\ OpenWith(n, changes, last, now)
    OBVIOUS
  <2>3. open' = {[node |-> n, changes |-> changes]} /\ UNCHANGED outbox
    BY <2>1, <2>2 DEF OpenWith, store
  <2>4. \A c \in changes : /\ clock < c.occurredAt /\ c.occurredAt \in Nat
                           /\ c.id \in (journaled + 1)..last
                           /\ c.row \in Documents => changes = {c} /\ n \in Writers[c.row]
    BY <2>2 DEF Fresh, Steady, Alone, Changes
  <2>5. clock \in Nat /\ journaled \in Nat
    BY DEF TypeOK, TablesOK
  <2>6. ASSUME NEW c \in changes, NEW e \in outbox[n] PROVE e.occurredAt < c.occurredAt /\ e.id # c.id
    <3>1. e.occurredAt \in Nat /\ e.occurredAt <= clock /\ e.id \in Nat /\ e.id <= journaled
      BY JournaledChange DEF Changes
    <3>2. c.occurredAt \in Nat /\ clock < c.occurredAt /\ c.id \in (journaled + 1)..last
      BY <2>4
    <3>3. e.occurredAt < c.occurredAt
      BY <2>5, <3>1, <3>2
    <3>4. e.id # c.id
      BY <2>5, <3>1, <3>2
    <3> QED
      BY <3>3, <3>4
  <2>7. \A t \in open' : \A c \in t.changes :
          /\ \A e \in outbox'[t.node] : e.occurredAt < c.occurredAt /\ e.id # c.id
          /\ c.row \in Documents => t.changes = {c} /\ t.node \in Writers[c.row]
    BY <2>3, <2>4, <2>6
  <2> QED
    BY <2>3, <2>7 DEF WritesApart
<1>2. CASE \E t \in open : Commit(t)
  <2>1. PICK t \in open : Commit(t)
    BY <1>2
  <2>2. open' = {}
    BY <2>1 DEF Commit, OneOpen
  <2>3. t.node \in Nodes /\ outbox' = [outbox EXCEPT ![t.node] = @ \union t.changes]
        /\ outbox \in [Nodes -> SUBSET Changes]
    BY <2>1 DEF Commit, TypeOK, TablesOK
  <2>4. \A c \in t.changes :
          /\ \A e \in outbox[t.node] : e.occurredAt < c.occurredAt /\ e.id # c.id
          /\ c.row \in Documents => t.changes = {c} /\ t.node \in Writers[c.row]
    BY <2>1 DEF WritesApart
  <2>5. \A c \in t.changes : c.occurredAt \in Nat
    BY <2>1 DEF TypeOK, TablesOK, journaledBy, Changes
  <2>6. ASSUME NEW n \in Nodes, NEW c \in outbox'[n], c.row \in Documents
        PROVE  /\ n \in Writers[c.row]
               /\ \A e \in outbox'[n] : c.id = e.id \/ c.occurredAt = e.occurredAt => c = e
    <3>1. CASE n # t.node
      <4>1. outbox'[n] = outbox[n]
        BY <2>3, <3>1
      <4> QED
        BY <2>6, <4>1 DEF WritesApart
    <3>2. CASE n = t.node
      <4>1. outbox'[n] = outbox[n] \union t.changes
        BY <2>3, <3>2
      <4>2. n \in Writers[c.row]
        BY <2>4, <2>6, <3>2, <4>1 DEF WritesApart
      <4>3. ASSUME NEW e \in outbox'[n], c.id = e.id \/ c.occurredAt = e.occurredAt PROVE c = e
        <5>1. CASE c \in outbox[n] /\ e \in outbox[n]
          BY <2>6, <4>3, <5>1 DEF WritesApart
        <5>2. CASE c \in t.changes /\ e \in t.changes
          BY <2>4, <2>6, <5>2
        <5>3. CASE c \in outbox[n] /\ e \in t.changes
          <6>1. c.occurredAt < e.occurredAt /\ c.id # e.id /\ c.occurredAt \in Nat /\ e.occurredAt \in Nat
            BY <2>4, <2>5, <3>2, <5>3, JournaledChange
          <6> QED
            BY <4>3, <6>1
        <5>4. CASE c \in t.changes /\ e \in outbox[n]
          <6>1. e.occurredAt < c.occurredAt /\ c.id # e.id /\ c.occurredAt \in Nat /\ e.occurredAt \in Nat
            BY <2>4, <2>5, <3>2, <5>4, JournaledChange
          <6> QED
            BY <4>3, <6>1
        <5> QED
          BY <4>1, <5>1, <5>2, <5>3, <5>4
      <4> QED
        BY <4>2, <4>3
    <3> QED
      BY <3>1, <3>2
  <2> QED
    BY <2>2, <2>6 DEF WritesApart
<1>3. CASE UNCHANGED outbox /\ open' \subseteq open
  BY <1>3 DEF WritesApart
<1> QED
  BY <1>1, <1>2, <1>3, JournalSteps

\* What a journal gains comes after what it had: no earlier write appears.
LEMMA EarlierStays ==
  ASSUME TypeOK, WritesApart, [Next]_vars, NEW n \in Nodes, NEW c \in outbox[n]
  PROVE  /\ outbox[n] \subseteq outbox'[n]
         /\ \A e \in outbox'[n] : e.occurredAt < c.occurredAt => e \in outbox[n]
<1>1. CASE UNCHANGED outbox
  BY <1>1
<1>2. CASE \E t \in open : Commit(t)
  <2>1. PICK t \in open : Commit(t)
    BY <1>2
  <2>2. t.node \in Nodes /\ outbox' = [outbox EXCEPT ![t.node] = @ \union t.changes]
        /\ outbox \in [Nodes -> SUBSET Changes]
    BY <2>1 DEF Commit, TypeOK, TablesOK
  <2>3. ASSUME NEW e \in t.changes, n = t.node PROVE ~ (e.occurredAt < c.occurredAt)
    <3>1. c.occurredAt < e.occurredAt
      BY <2>1, <2>3 DEF WritesApart
    <3>2. c.occurredAt \in Nat /\ e.occurredAt \in Nat
      BY <2>1, <2>3, JournaledChange DEF TypeOK, TablesOK, journaledBy, Changes
    <3> QED
      BY <3>1, <3>2
  <2> QED
    BY <2>2, <2>3
<1> QED
  BY <1>1, <1>2, JournalSteps DEF Opens, OpenWith, store

\* What a run has set aside, or is about to, the peer journaled.
LEMMA ConflictSteps ==
  ASSUME TypeOK, [Next]_vars
  PROVE  \/ UNCHANGED conflicts
         \/ \E h \in Handlers :
              /\ Examine(h) \/ WriteRefused(h) \/ WriteFails(h)
              /\ \E c \in handler[h].todo :
                   /\ conflicts' = [conflicts EXCEPT ![handler[h].node] = @ \union {c.id}]
                   /\ \/ Examine(h) /\ refusedBy(handler[h].node, c)
                      \/ (WriteRefused(h) \/ WriteFails(h)) /\ c = handler[h].current
<1>1. \/ UNCHANGED conflicts
      \/ \E h \in Handlers : Examine(h) \/ WriteRefused(h) \/ WriteFails(h)
  BY StepKinds, WritesOpen, MovesOpen
     DEF vars, Push, Pull, NothingToPush, NothingToPull, PullFails, Timeout, Answered, Pulled,
         Ignored, Lost, Arrive, Finish, Write, Recompute, RecomputeWrite, Restart, Opens, OpenWith,
         Commit
<1>2. ASSUME NEW h \in Handlers, Examine(h)
      PROVE  \/ UNCHANGED conflicts
             \/ \E c \in handler[h].todo :
                  /\ conflicts' = [conflicts EXCEPT ![handler[h].node] = @ \union {c.id}]
                  /\ refusedBy(handler[h].node, c)
  BY <1>2 DEF Examine
<1>3. ASSUME NEW h \in Handlers, WriteRefused(h) \/ WriteFails(h)
      PROVE  /\ handler[h].current \in handler[h].todo
             /\ conflicts' = [conflicts EXCEPT ![handler[h].node] = @ \union {handler[h].current.id}]
  BY <1>3, RunAt DEF WriteRefused, WriteFails, SetAside, wellFormed
<1> QED
  BY <1>1, <1>2, <1>3

LEMMA JournalKept ==
  ASSUME TypeOK, [Next]_vars, NEW n \in Nodes
  PROVE  outbox[n] \subseteq outbox'[n]
<1>1. CASE \E t \in open : Commit(t)
  BY <1>1 DEF Commit, TypeOK, TablesOK
<1> QED
  BY <1>1, JournalSteps DEF Opens, OpenWith, store

LEMMA SetAsideStep ==
  ASSUME TypeOK, SetAsideFromPeer, [Next]_vars
  PROVE  SetAsideFromPeer'
<1> SUFFICES ASSUME NEW n \in Nodes, NEW i \in conflicts'[n]
             PROVE  \E c \in outbox'[peerOf(n)] : c.id = i
  BY DEF SetAsideFromPeer
<1>1. outbox[peerOf(n)] \subseteq outbox'[peerOf(n)]
  BY PeerIsANode, JournalKept
<1>2. CASE i \in conflicts[n]
  BY <1>1, <1>2 DEF SetAsideFromPeer
<1>3. CASE i \notin conflicts[n]
  <2>0. PICK h \in Handlers : \E c \in handler[h].todo :
          conflicts' = [conflicts EXCEPT ![handler[h].node] = @ \union {c.id}]
    BY <1>3, ConflictSteps
  <2>1. PICK c \in handler[h].todo :
          conflicts' = [conflicts EXCEPT ![handler[h].node] = @ \union {c.id}]
    BY <2>0
  <2>2. handler[h].node = n /\ i = c.id
    BY <1>3, <2>1 DEF TypeOK, TablesOK
  <2>3. c \in outbox[peerOf(n)]
    BY <2>2, RunAt DEF wellFormed
  <2> QED
    BY <1>1, <2>2, <2>3
<1> QED
  BY <1>2, <1>3

\* Who writes the rows of documents, and what is applied.
LEMMA CopySteps ==
  ASSUME TypeOK, [Next]_vars
  PROVE  \/ \E t \in open : Commit(t)
         \/ \E h \in Handlers : Write(h)
         \/ /\ UNCHANGED <<outbox, applied>>
            /\ \A n \in Nodes, d \in Documents : rows'[n][d] = rows[n][d]
<1>1. ASSUME NEW h \in Handlers, RecomputeWrite(h)
      PROVE  /\ UNCHANGED <<outbox, applied>>
             /\ \A n \in Nodes, d \in Documents : rows'[n][d] = rows[n][d]
  <2>1. handler[h].current.row \in Orders /\ handler[h].node \in Nodes
    BY <1>1, RunAt DEF RecomputeWrite, wellFormed
  <2>2. PICK new : rows' = [rows EXCEPT ![handler[h].node][handler[h].current.row] = new]
    BY <1>1 DEF RecomputeWrite
  <2>3. UNCHANGED <<outbox, applied>>
    BY <1>1 DEF RecomputeWrite
  <2>4. rows \in [Nodes -> [Rows -> RowValues]] /\ Orders \intersect Documents = {}
    BY SyncAssumption DEF TypeOK, TablesOK
  <2>5. ASSUME NEW n \in Nodes, NEW d \in Documents PROVE rows'[n][d] = rows[n][d]
    BY <2>1, <2>2, <2>4 DEF Rows
  <2> QED
    BY <2>3, <2>5
<1>2. \/ \E t \in open : Commit(t)
      \/ \E h \in Handlers : Write(h) \/ RecomputeWrite(h)
      \/ UNCHANGED <<rows, outbox, applied>>
  BY StepKinds, WritesOpen, MovesOpen
     DEF vars, store, Push, Pull, NothingToPush, NothingToPull, PullFails, Timeout, Answered, Pulled,
         Ignored, Lost, Arrive, Finish, Examine, WriteRefused, WriteFails, SetAside, Recompute,
         Restart, Opens, OpenWith
<1> QED
  BY <1>1, <1>2

\* The three first parts of Follows: the copies, and what was applied of them.
Shown(n, d) ==
  /\ shows(rows[n][d], of(n, d))
  /\ shows(rows[peerOf(n)][d], landed(n, d))
  /\ \A c \in landed(n, d) : \A e \in earlier(n, c) : e.id \in applied[peerOf(n)]

\* The owner writes its document: it shows its last write, the peer's copy stays.
LEMMA OwnerWrites ==
  ASSUME TypeOK, WritesApart, FromPeer, NEW n \in Nodes, NEW d \in Documents, owns(n, d),
         Shown(n, d), NEW t \in open, Commit(t)
  PROVE  Shown(n, d)'
<1> DEFINE p == peerOf(n)
<1>0. p \in Nodes /\ p # n /\ d \in Rows /\ t.node \in Nodes
  BY PeerIsANode DEF Rows, TypeOK, TablesOK
<1>1. /\ rows' = [rows EXCEPT ![t.node] = [r \in Rows |-> rowAfter(@[r], r, t.changes)]]
      /\ outbox' = [outbox EXCEPT ![t.node] = @ \union t.changes]
      /\ UNCHANGED applied
  BY DEF Commit
<1>2. \A c \in t.changes : c.row = d => t.changes = {c} /\ t.node = n
  BY DEF WritesApart, owns
<1>3. rows \in [Nodes -> [Rows -> RowValues]] /\ outbox \in [Nodes -> SUBSET Changes]
  BY DEF TypeOK, TablesOK
<1>4. rows'[p][d] = rows[p][d]
  BY <1>0, <1>1, <1>2, <1>3 DEF rowAfter
<1>5. CASE \A c \in t.changes : c.row # d
  <2>1. rows'[n][d] = rows[n][d]
    BY <1>0, <1>1, <1>3, <1>5 DEF rowAfter
  <2>2. of(n, d)' = of(n, d)
    BY <1>0, <1>1, <1>3, <1>5 DEF of
  <2>3. landed(n, d)' = landed(n, d)
    BY <1>1, <2>2 DEF landed
  <2>4. ASSUME NEW c \in landed(n, d), NEW e \in outbox'[n], owns(n, c.row), e.row = c.row,
               e.occurredAt < c.occurredAt
        PROVE  e.id \in applied[p]
    <3>1. e \in of(n, d)
      BY <2>2, <2>4 DEF of, landed
    <3> QED
      BY <2>4, <3>1 DEF Shown, earlier, of
  <2>5. \A c \in landed(n, d) : \A e \in earlier(n, c)' : e.id \in applied'[p]
    BY <1>1, <2>4 DEF earlier, owns
  <2> QED
    BY <1>4, <2>1, <2>2, <2>3, <2>5 DEF Shown, shows
<1>6. CASE \E c \in t.changes : c.row = d
  <2>1. PICK c \in t.changes : c.row = d
    BY <1>6
  <2>2. t.changes = {c} /\ t.node = n
    BY <1>2, <2>1
  <2>3. \A e \in outbox[n] : e.occurredAt < c.occurredAt /\ e.id # c.id
    BY <2>2 DEF WritesApart
  <2>4. c \in Changes /\ c.occurredAt \in Nat /\ c.kind = "row"
    BY <2>1, SyncAssumption DEF TypeOK, TablesOK, journaledBy, Changes
  <2>5. \A e \in outbox[n] : e.occurredAt \in Nat
    BY JournaledChange
  <2>6. rows'[n][d] = c.payload
    BY <1>0, <1>1, <1>3, <2>1, <2>2, <2>4 DEF rowAfter
  <2>7. of(n, d)' = of(n, d) \union {c}
    BY <1>0, <1>1, <1>3, <2>1, <2>2 DEF of
  <2>8. c.id \notin applied[p]
    BY <1>0, <2>3, PeerIsANode DEF FromPeer
  <2>9. landed(n, d)' = landed(n, d)
    BY <1>1, <2>7, <2>8 DEF landed
  <2>10. shows(rows[n][d], of(n, d))'
    <3>1. \A e \in of(n, d) \union {c} : e.occurredAt <= c.occurredAt
      BY <2>3, <2>4, <2>5 DEF of
    <3> QED
      BY <2>6, <2>7, <3>1 DEF shows, isLast
  <2>11. ASSUME NEW x \in landed(n, d), NEW e \in outbox'[n], owns(n, x.row), e.row = x.row,
                e.occurredAt < x.occurredAt
         PROVE  e.id \in applied[p]
    <3>1. x \in outbox[n]
      BY DEF landed, of
    <3>2. e # c
      BY <2>3, <2>4, <2>5, <2>11, <3>1
    <3>3. e \in outbox[n]
      BY <1>0, <1>1, <1>3, <2>2, <3>2
    <3> QED
      BY <2>11, <3>3 DEF Shown, earlier
  <2>12. \A x \in landed(n, d) : \A e \in earlier(n, x)' : e.id \in applied'[p]
    BY <1>1, <2>11 DEF earlier, owns
  <2> QED
    BY <1>4, <2>9, <2>10, <2>12 DEF Shown, shows
<1> QED
  BY <1>5, <1>6

\* The peer applies a change, with all the earlier ones behind it: its copy shows
\* it; a change of another row, or of another server, leaves both copies.
LEMMA PeerApplies ==
  ASSUME TypeOK, WritesApart, NEW n \in Nodes, NEW d \in Documents, owns(n, d), Shown(n, d),
         NEW h \in Handlers, InOrder(handler[h]), Write(h)
  PROVE  Shown(n, d)'
<1> DEFINE p == peerOf(n)
           q == handler[h]
           c == q.current
<1>0. p \in Nodes /\ p # n /\ peerOf(p) = n /\ d \in Rows /\ q.node \in Nodes
  BY PeerIsANode, RunAt DEF Rows
<1>1. /\ UNCHANGED outbox
      /\ applied' = [applied EXCEPT ![q.node] = @ \union {c.id}]
      /\ c.id \notin applied[q.node] /\ q.step = "write"
      /\ c.kind # "event" => rows' = [rows EXCEPT ![q.node][c.row] = c.payload]
      /\ c.kind = "event" => UNCHANGED rows
  BY DEF Write, writable
<1>2. c \in q.todo /\ c \in outbox[peerOf(q.node)] /\ c.row \in Rows
  BY <1>1, RunAt DEF wellFormed
<1>3. /\ rows \in [Nodes -> [Rows -> RowValues]] /\ applied \in [Nodes -> SUBSET Ids]
      /\ peerOf(q.node) \in Nodes
  BY PeerIsANode, <1>0 DEF TypeOK, TablesOK
<1>4. of(n, d)' = of(n, d) /\ \A x : earlier(n, x)' = earlier(n, x)
  BY <1>1 DEF of, earlier, owns
<1>5. \A x \in of(n, d) : \A e \in outbox[n] : x.id = e.id \/ x.occurredAt = e.occurredAt => x = e
  BY DEF of, WritesApart
<1>6. CASE c.row = d
  <2>1. q.node = p
    <3>1. peerOf(q.node) \in Writers[d]
      BY <1>2, <1>3, <1>6 DEF WritesApart
    <3> QED
      BY <1>0, <3>1 DEF owns, peerOf, Nodes
  <2>2. c \in of(n, d) /\ c.kind = "row"
    BY <1>0, <1>2, <1>6, <2>1, JournaledChange DEF of
  <2>3. rows'[n][d] = rows[n][d] /\ rows'[p][d] = c.payload
    BY <1>0, <1>1, <1>3, <1>6, <2>1, <2>2
  <2>4. landed(n, d)' = landed(n, d) \union {c}
    <3>1. applied'[p] = applied[p] \union {c.id}
      BY <1>0, <1>1, <1>3, <2>1
    <3>2. \A x \in of(n, d) : x.id = c.id => x = c
      BY <1>5, <2>2 DEF of
    <3> QED
      BY <1>4, <2>2, <3>1, <3>2 DEF landed
  <2>5. \A e \in earlier(n, c) : e.id \in applied[p]
    BY <1>0, <1>1, <2>1 DEF InOrder
  <2>6. \A x \in landed(n, d) : x.occurredAt <= c.occurredAt
    <3> SUFFICES ASSUME NEW x \in landed(n, d), ~ (x.occurredAt <= c.occurredAt) PROVE FALSE
      OBVIOUS
    <3>1. x.occurredAt \in Nat /\ c.occurredAt \in Nat
      BY <2>2, JournaledChange DEF landed, of
    <3>2. c.occurredAt < x.occurredAt
      BY <3>1
    <3>3. c \in earlier(n, x)
      BY <2>2, <3>2 DEF earlier, landed, of
    <3>4. c.id \in applied[p]
      BY <3>3 DEF Shown
    <3> QED
      BY <1>1, <2>1, <3>4
  <2>7. shows(rows[p][d], landed(n, d))'
    <3>1. c.occurredAt \in Nat
      BY <2>2, JournaledChange DEF of
    <3>2. \A x \in landed(n, d) \union {c} : x.occurredAt <= c.occurredAt
      BY <2>6, <3>1
    <3> QED
      BY <2>3, <2>4, <3>2 DEF shows, isLast
  <2>8. \A x \in landed(n, d)' : \A e \in earlier(n, x)' : e.id \in applied'[p]
    <3>1. applied[p] \subseteq applied'[p]
      BY <1>1, <1>3, <1>0
    <3> QED
      BY <1>4, <2>4, <2>5, <3>1 DEF Shown
  <2>9. shows(rows[n][d], of(n, d))'
    BY <1>4, <2>3 DEF Shown, shows
  <2> QED
    BY <2>7, <2>8, <2>9 DEF Shown
<1>7. CASE c.row # d
  <2>1. rows'[n][d] = rows[n][d] /\ rows'[p][d] = rows[p][d]
    BY <1>0, <1>1, <1>2, <1>3, <1>7
  <2>2. \A x \in of(n, d) : x.id \in applied'[p] <=> x.id \in applied[p]
    <3> SUFFICES ASSUME NEW x \in of(n, d), q.node = p, x.id = c.id PROVE FALSE
      BY <1>0, <1>1, <1>3
    <3>1. x = c
      BY <1>0, <1>2, <1>5
    <3> QED
      BY <1>7, <3>1 DEF of
  <2>3. landed(n, d)' = landed(n, d)
    BY <1>4, <2>2 DEF landed
  <2>4. applied[p] \subseteq applied'[p]
    BY <1>0, <1>1, <1>3
  <2>5. shows(rows[n][d], of(n, d))' /\ shows(rows[p][d], landed(n, d))'
    BY <1>4, <2>1, <2>3 DEF Shown, shows
  <2>6. \A x \in landed(n, d)' : \A e \in earlier(n, x)' : e.id \in applied'[p]
    BY <1>4, <2>3, <2>4 DEF Shown
  <2> QED
    BY <2>5, <2>6 DEF Shown
<1> QED
  BY <1>6, <1>7

\* What the peer sets aside of a document it does not own, it has applied: it is
\* refused as already applied, or not at all.
LEMMA OnlyAppliedSetAside ==
  ASSUME TypeOK, Steady, WritesApart, SetAsideFromPeer, [Next]_vars,
         NEW n \in Nodes, NEW d \in Documents, owns(n, d), Follows(n, d), NEW c \in of(n, d)',
         c.id \in conflicts'[peerOf(n)]
  PROVE  c.id \in applied'[peerOf(n)]
<1> DEFINE p == peerOf(n)
<1>0. p \in Nodes /\ peerOf(p) = n
  BY PeerIsANode
<1>1. applied[p] \subseteq applied'[p]
  <2>1. CASE \E h \in Handlers : Write(h)
    BY <2>1 DEF Write, TypeOK, TablesOK
  <2> QED
    BY <2>1, AppliedSteps
<1>2. \E e \in outbox[n] : e.id = c.id
  <2>1. CASE c.id \in conflicts[p]
    BY <1>0, <2>1 DEF SetAsideFromPeer
  <2>2. CASE c.id \notin conflicts[p]
    <3>1. PICK h \in Handlers : \E x \in handler[h].todo :
            conflicts' = [conflicts EXCEPT ![handler[h].node] = @ \union {x.id}]
      BY <2>2, ConflictSteps
    <3>2. PICK x \in handler[h].todo :
            conflicts' = [conflicts EXCEPT ![handler[h].node] = @ \union {x.id}]
      BY <3>1
    <3>3. handler[h].node = p /\ c.id = x.id
      BY <2>2, <3>2 DEF TypeOK, TablesOK
    <3> QED
      BY <1>0, <3>3, RunAt DEF wellFormed
  <2> QED
    BY <2>1, <2>2
<1>3. c \in of(n, d)
  <2>1. PICK e \in outbox[n] : e.id = c.id
    BY <1>2
  <2>2. c \in outbox[n]
    <3>1. CASE UNCHANGED outbox
      BY <3>1 DEF of
    <3>2. CASE \E t \in open : Commit(t)
      <4>1. PICK t \in open : Commit(t)
        BY <3>2
      <4>2. outbox' = [outbox EXCEPT ![t.node] = @ \union t.changes]
        BY <4>1 DEF Commit
      <4>3. c \in outbox[n] \/ (t.node = n /\ c \in t.changes)
        BY <4>2 DEF TypeOK, TablesOK, of
      <4>4. ~ (t.node = n /\ c \in t.changes)
        BY <2>1, <4>1 DEF WritesApart
      <4> QED
        BY <4>3, <4>4
    <3> QED
      BY <3>1, <3>2, JournalSteps DEF Opens, OpenWith, store
  <2> QED
    BY <2>2 DEF of
<1>4. CASE c.id \in conflicts[p]
  BY <1>1, <1>3, <1>4 DEF Follows
<1>5. CASE c.id \notin conflicts[p]
  <2>1. PICK h \in Handlers :
          /\ Examine(h) \/ WriteRefused(h) \/ WriteFails(h)
          /\ \E x \in handler[h].todo :
               /\ conflicts' = [conflicts EXCEPT ![handler[h].node] = @ \union {x.id}]
               /\ \/ Examine(h) /\ refusedBy(handler[h].node, x)
                  \/ (WriteRefused(h) \/ WriteFails(h)) /\ x = handler[h].current
    BY <1>5, ConflictSteps
  <2>2. PICK x \in handler[h].todo :
          /\ conflicts' = [conflicts EXCEPT ![handler[h].node] = @ \union {x.id}]
          /\ \/ Examine(h) /\ refusedBy(handler[h].node, x)
             \/ (WriteRefused(h) \/ WriteFails(h)) /\ x = handler[h].current
    BY <2>1
  <2>3. handler[h].node = p /\ c.id = x.id
    BY <1>5, <2>2 DEF TypeOK, TablesOK
  <2>4. x = c
    <3>1. x \in outbox[n]
      BY <1>0, <2>3, RunAt DEF wellFormed
    <3> QED
      BY <1>3, <2>3, <3>1 DEF WritesApart, of
  <2>5. c.row = d /\ c.kind = "row"
    BY <1>3, JournaledChange DEF of
  <2>6. ~ refusedBy(p, c)
    BY <2>5, <1>0, PeerIsANode DEF refusedBy, owns
  <2>7. ~ WriteFails(h)
    BY SyncAssumption DEF WriteFails, Steady, TypeOK, ExchangeOK
  <2>8. WriteRefused(h) /\ c = handler[h].current
    BY <2>2, <2>3, <2>4, <2>6, <2>7
  <2>9. c.id \in applied[p]
    BY <2>3, <2>5, <2>8 DEF WriteRefused, writable
  <2> QED
    BY <1>1, <2>9
<1> QED
  BY <1>4, <1>5

LEMMA FollowStep ==
  ASSUME TypeOK, Steady, Ledger, Copies, [Next]_vars
  PROVE  BothFollow'
<1> SUFFICES ASSUME NEW n \in Nodes, NEW d \in Documents, owns(n, d)' PROVE Follows(n, d)'
  BY DEF BothFollow
<1>1. owns(n, d) /\ Follows(n, d) /\ Shown(n, d) /\ WritesApart /\ SetAsideFromPeer /\ FromPeer
  BY DEF owns, Copies, BothFollow, Follows, Shown, Ledger
<1>2. Shown(n, d)'
  <2>1. CASE \E t \in open : Commit(t)
    BY <1>1, <2>1, OwnerWrites
  <2>2. CASE \E h \in Handlers : Write(h)
    BY <1>1, <2>2, PeerApplies DEF Copies
  <2>3. CASE /\ UNCHANGED <<outbox, applied>>
             /\ \A m \in Nodes, e \in Documents : rows'[m][e] = rows[m][e]
    <3>1. rows'[n][d] = rows[n][d] /\ rows'[peerOf(n)][d] = rows[peerOf(n)][d]
      BY <2>3, PeerIsANode
    <3>2. /\ of(n, d)' = of(n, d) /\ landed(n, d)' = landed(n, d)
          /\ \A x : earlier(n, x)' = earlier(n, x)
      BY <2>3 DEF of, landed, earlier, owns
    <3> QED
      BY <1>1, <2>3, <3>1, <3>2 DEF Shown, shows
  <2> QED
    BY <2>1, <2>2, <2>3, CopySteps
<1>3. \A c \in of(n, d)' : c.id \in conflicts'[peerOf(n)] => c.id \in applied'[peerOf(n)]
  BY <1>1, OnlyAppliedSetAside
<1> QED
  BY <1>2, <1>3 DEF Follows, Shown

\* The run of h goes on with the same changes or fewer, and those it let go of are
\* applied or set aside.
LEMMA TodoShrinks ==
  ASSUME TypeOK, NEW h \in Handlers,
         \/ Arrive(h) \/ Finish(h) \/ Examine(h) \/ Write(h) \/ WriteRefused(h) \/ WriteFails(h)
         \/ Recompute(h) \/ RecomputeWrite(h)
  PROVE  /\ handler'[h].todo \subseteq handler[h].todo
         /\ handler'[h].step = "write" =>
              Examine(h) /\ handler'[h].todo = handler[h].todo
              /\ handler'[h].current \in handler[h].todo /\ comesFirst(handler'[h].current, handler[h].todo)
<1> DEFINE q == handler[h]
<1>1. q \in HandlerRows /\ handler \in [Handlers -> HandlerRows]
  BY RunAt DEF TypeOK, RunsOK
<1>2. CASE Arrive(h) \/ Finish(h)
  BY <1>1, <1>2 DEF Arrive, Finish, HandlerRows
<1>3. CASE Examine(h)
  <2>1. PICK c \in q.todo :
          /\ comesFirst(c, q.todo)
          /\ \/ handler' = [handler EXCEPT ![h] =
                  [q EXCEPT !.todo = @ \ {c}, !.accepted = @ \union {c.id},
                            !.touched = @ \union touching(c)]]
             \/ handler' = [handler EXCEPT ![h].todo = @ \ {c}]
             \/ handler' = [handler EXCEPT ![h] = [q EXCEPT !.step = "write", !.current = c]]
    BY <1>3 DEF Examine
  <2>2. q.step = "next"
    BY <1>3 DEF Examine
  <2> DEFINE known == [q EXCEPT !.todo = @ \ {c}, !.accepted = @ \union {c.id},
                                !.touched = @ \union touching(c)]
             refused == [q EXCEPT !.todo = @ \ {c}]
             begun == [q EXCEPT !.step = "write", !.current = c]
  <2>3. /\ known.step = "next" /\ known.todo \subseteq q.todo
        /\ refused.step = "next" /\ refused.todo \subseteq q.todo
        /\ begun.todo = q.todo /\ begun.current = c
    BY <1>1, <2>2 DEF HandlerRows
  <2>4. handler'[h] \in {known, refused, begun}
    BY <1>1, <2>1
  <2> HIDE DEF known, refused, begun
  <2> QED
    BY <1>3, <2>1, <2>3, <2>4
<1>4. CASE Write(h)
  <2> DEFINE p == [q EXCEPT !.step = "next", !.current = NoChange, !.todo = @ \ {q.current},
                            !.accepted = @ \union {q.current.id},
                            !.touched = @ \union touching(q.current)]
  <2>1. handler'[h] = p
    BY <1>1, <1>4 DEF Write
  <2>2. p.step = "next" /\ p.todo \subseteq q.todo
    BY <1>1 DEF HandlerRows
  <2> HIDE DEF p
  <2> QED
    BY <2>1, <2>2
<1>5. CASE WriteRefused(h) \/ WriteFails(h)
  <2> DEFINE p == [q EXCEPT !.step = "next", !.current = NoChange, !.todo = @ \ {q.current}]
  <2>1. handler'[h] = p
    BY <1>1, <1>5 DEF WriteRefused, WriteFails, SetAside
  <2>2. p.step = "next" /\ p.todo \subseteq q.todo
    BY <1>1 DEF HandlerRows
  <2> HIDE DEF p
  <2> QED
    BY <2>1, <2>2
<1>6. CASE Recompute(h)
  <2>1. PICK o, e : handler' = [handler EXCEPT ![h] =
           IF rows[q.node][o].status = e.status
             THEN [q EXCEPT !.touched = @ \ {o}]
             ELSE [q EXCEPT !.step = "recompute", !.current = [NoChange EXCEPT !.row = o],
                            !.latest = e.status]]
    BY <1>6 DEF Recompute
  <2> DEFINE mark == [NoChange EXCEPT !.row = o]
             first == [q EXCEPT !.touched = @ \ {o}]
             second == [q EXCEPT !.step = "recompute", !.current = mark, !.latest = e.status]
  <2>2. handler'[h] \in {first, second}
    BY <1>1, <2>1
  <2>3. q.step = "next"
    BY <1>6 DEF Recompute
  <2> HIDE DEF mark
  <2>4. first.step = "next" /\ first.todo = q.todo
    BY <1>1, <2>3 DEF HandlerRows
  <2>5. second.step = "recompute" /\ second.todo = q.todo
    BY <1>1 DEF HandlerRows
  <2> HIDE DEF first, second
  <2> QED
    BY <2>2, <2>4, <2>5
<1>7. CASE RecomputeWrite(h)
  <2> DEFINE o == q.current.row
             p == [q EXCEPT !.step = "next", !.current = NoChange, !.touched = @ \ {o}, !.latest = 0]
  <2>1. handler'[h] = p
    BY <1>1, <1>7 DEF RecomputeWrite
  <2>2. p.step = "next" /\ p.todo = q.todo
    BY <1>1 DEF HandlerRows
  <2> HIDE DEF p
  <2> QED
    BY <2>1, <2>2
<1> QED
  BY <1>2, <1>3, <1>4, <1>5, <1>6, <1>7

\* A page holds, of a document, its first writes that were not received.
LEMMA PagesInOrder ==
  ASSUME TypeOK, Ledger, Cursors, BothFollow, NEW h \in Handlers, Push(h) \/ Pull(h)
  PROVE  InOrder(handler[h])'
<1>1. handler \in [Handlers -> HandlerRows]
  BY DEF TypeOK, RunsOK
<1>2. ASSUME NEW n \in Nodes, NEW all, all \subseteq outbox[n], NEW batch \in Pages(all, BatchSize),
             NEW c \in batch, NEW e \in earlier(n, c)
      PROVE  e \in batch \/ e \notin all
  <2>1. c \in outbox[n] /\ e \in outbox[n] /\ e.occurredAt < c.occurredAt
    BY <1>2 DEF Pages, earlier
  <2>2. ~ (c.occurredAt <= e.occurredAt)
    BY <2>1, JournaledChange
  <2> QED
    BY <1>2, <2>2 DEF Pages
<1>3. CASE Push(h)
  <2>1. PICK batch \in Pages(toSend, BatchSize) : Run(h, "CLOUD", "travel", batch)
    BY <1>3 DEF Push
  <2>2. /\ handler'[h].node = "CLOUD" /\ handler'[h].todo = batch /\ handler'[h].step = "travel"
        /\ UNCHANGED <<outbox, applied>>
    BY <1>1, <1>3, <2>1 DEF Push, Run, store
  <2>3. peerOf("CLOUD") = "LOCAL" /\ "LOCAL" \in Nodes /\ toSend \subseteq outbox["LOCAL"]
    BY DEF peerOf, Nodes, toSend
  <2>4. ASSUME NEW c \in batch, NEW e \in earlier("LOCAL", c)
        PROVE  e.id \in applied["CLOUD"] \/ e \in batch
    <3>1. e \in batch \/ e \notin toSend
      BY <1>2, <2>1, <2>3
    <3>2. e \in outbox["LOCAL"] /\ e.id \in Ids
      BY <2>3, JournaledChange DEF earlier
    <3>3. e \notin toSend => delivery[e.id] = "SENT"
      BY <3>2 DEF toSend, TypeOK, ExchangeOK, Statuses
    <3> QED
      BY <3>1, <3>2, <3>3 DEF Ledger, Believed
  <2> QED
    BY <2>2, <2>3, <2>4 DEF InOrder, earlier, owns
<1>4. CASE Pull(h)
  <2>1. PICK page \in Pages(toPull, BatchSize) : Run(h, "LOCAL", "next", page)
    BY <1>4 DEF Pull
  <2>2. /\ handler'[h].node = "LOCAL" /\ handler'[h].todo = page /\ handler'[h].step = "next"
        /\ UNCHANGED <<outbox, applied>>
    BY <1>1, <1>4, <2>1 DEF Pull, Run, store
  <2>3. /\ peerOf("LOCAL") = "CLOUD" /\ "CLOUD" \in Nodes /\ peerOf("CLOUD") = "LOCAL"
        /\ toPull \subseteq outbox["CLOUD"]
    BY DEF peerOf, Nodes, toPull
  <2>4. ASSUME NEW c \in page, NEW e \in earlier("CLOUD", c)
        PROVE  e.id \in applied["LOCAL"] \/ e \in page
    <3>1. e \in page \/ e \notin toPull
      BY <1>2, <2>1, <2>3
    <3>2. e \in outbox["CLOUD"] /\ e.occurredAt \in Nat /\ cursor \in Nat
      BY <2>3, JournaledChange DEF earlier, TypeOK, ExchangeOK
    <3>3. e \notin toPull => e.occurredAt <= cursor
      BY <3>2 DEF toPull
    <3>4. e \notin toPull => e.id \in applied["LOCAL"] \union conflicts["LOCAL"]
      BY <3>2, <3>3 DEF Cursors, NothingSkipped
    <3>5. owns("CLOUD", e.row) /\ e.row \in Documents
      BY DEF earlier, owns
    <3>6. e.id \in conflicts["LOCAL"] => e.id \in applied["LOCAL"]
      BY <2>3, <3>2, <3>5 DEF BothFollow, Follows, of
    <3> QED
      BY <3>1, <3>4, <3>6
  <2> QED
    BY <2>2, <2>3, <2>4 DEF InOrder, earlier, owns
<1> QED
  BY <1>3, <1>4

\* A run whose changes stay, or are applied, stays in order.
LEMMA StaysInOrder ==
  ASSUME TypeOK, WritesApart, BothFollow', [Next]_vars, NEW h \in Handlers, InOrder(handler[h]),
         handler'[h].node = handler[h].node, handler'[h].todo \subseteq handler[h].todo,
         \A n \in Nodes : applied[n] \subseteq applied'[n],
         \A e \in handler[h].todo : \/ e \in handler'[h].todo
                                    \/ e.id \in applied'[handler[h].node] \union conflicts'[handler[h].node],
         handler'[h].step = "write" =>
           \/ handler[h].step = "write" /\ handler'[h].current = handler[h].current
           \/ /\ handler'[h].todo = handler[h].todo /\ handler'[h].current \in handler[h].todo
              /\ comesFirst(handler'[h].current, handler[h].todo) /\ UNCHANGED applied
  PROVE  InOrder(handler[h])'
<1> DEFINE q == handler[h]
           n == peerOf(q.node)
<1>0. n \in Nodes /\ q.node \in Nodes /\ peerOf(n) = q.node /\ q.todo \subseteq outbox[n]
  BY PeerIsANode, RunAt DEF wellFormed
<1>1. outbox[n] \subseteq outbox'[n]
  BY <1>0, JournalKept
<1>2. ASSUME NEW c \in outbox[n], NEW e \in outbox'[n], owns(n, c.row), e.row = c.row,
             e.occurredAt < c.occurredAt
      PROVE  e \in earlier(n, c)
  BY <1>0, <1>2, EarlierStays DEF earlier
<1>3. applied[q.node] \subseteq applied'[q.node]
  BY <1>0
<1>4. ASSUME NEW c \in handler'[h].todo, NEW e \in outbox'[n], owns(n, c.row), e.row = c.row,
             e.occurredAt < c.occurredAt
      PROVE  e.id \in applied'[q.node] \/ e \in handler'[h].todo
  <2>1. e \in earlier(n, c)
    BY <1>0, <1>2, <1>4
  <2>2. e.id \in applied[q.node] \/ e \in q.todo
    BY <2>1 DEF InOrder
  <2>3. e.id \in conflicts'[q.node] => e.id \in applied'[q.node]
    BY <1>0, <1>4 DEF BothFollow, Follows, of, owns
  <2> QED
    BY <1>3, <2>2, <2>3
<1>5. ASSUME handler'[h].step = "write", NEW e \in outbox'[n], owns(n, handler'[h].current.row),
             e.row = handler'[h].current.row, e.occurredAt < handler'[h].current.occurredAt
      PROVE  e.id \in applied'[q.node]
  <2> DEFINE c == handler'[h].current
  <2>1. CASE q.step = "write" /\ c = q.current
    <3>1. c \in outbox[n]
      BY <1>0, <2>1, RunAt DEF wellFormed
    <3>2. e \in earlier(n, c)
      BY <1>2, <1>5, <3>1
    <3> QED
      BY <1>3, <2>1, <3>2 DEF InOrder
  <2>2. CASE /\ c \in q.todo /\ comesFirst(c, q.todo)
    <3>1. c \in outbox[n]
      BY <1>0, <2>2
    <3>2. e \in earlier(n, c)
      BY <1>2, <1>5, <3>1
    <3>3. e \in outbox[n] /\ e.row \in Documents /\ c.row \in Documents
      BY <1>5, <3>2 DEF earlier, owns
    <3>4. e.kind = c.kind /\ ~ (c.occurredAt <= e.occurredAt)
      BY <1>0, <1>5, <3>1, <3>3, JournaledChange
    <3>5. e \notin q.todo
      BY <2>2, <3>4 DEF comesFirst
    <3> QED
      BY <1>3, <2>2, <3>2, <3>5 DEF InOrder
  <2> QED
    BY <1>5, <2>1, <2>2
<1>6. \A c \in handler'[h].todo : \A e \in outbox'[n] :
        owns(n, c.row) /\ e.row = c.row /\ e.occurredAt < c.occurredAt =>
          e.id \in applied'[q.node] \/ e \in handler'[h].todo
  BY <1>4
<1>7. handler'[h].step = "write" => \A e \in outbox'[n] :
        owns(n, handler'[h].current.row) /\ e.row = handler'[h].current.row
          /\ e.occurredAt < handler'[h].current.occurredAt => e.id \in applied'[q.node]
  BY <1>5
<1> QED
  BY <1>6, <1>7 DEF InOrder, earlier, owns

LEMMA InOrderStep ==
  ASSUME TypeOK, Ledger, Cursors, Copies, BothFollow', [Next]_vars, NEW g \in Handlers
  PROVE  InOrder(handler[g])'
<1>0. /\ \A n \in Nodes : applied[n] \subseteq applied'[n]
      /\ WritesApart /\ InOrder(handler[g]) /\ handler \in [Handlers -> HandlerRows]
  BY LedgerStep DEF Ledger, Copies, TypeOK, RunsOK
<1>1. ASSUME handler'[g] = handler[g] PROVE InOrder(handler[g])'
  BY <1>0, <1>1, StaysInOrder
<1>2. ASSUME handler'[g] = Free PROVE InOrder(handler[g])'
  BY <1>2 DEF InOrder, Free
<1>3. CASE UNCHANGED handler
  BY <1>1, <1>3
<1>4. CASE \E n \in Nodes : Restart(n)
  BY <1>1, <1>2, <1>4 DEF Restart
<1>5. ASSUME NEW h \in Handlers,
             \/ Push(h) \/ Pull(h) \/ Answered(h) \/ Pulled(h) \/ Ignored(h) \/ Lost(h) \/ Arrive(h)
             \/ Finish(h) \/ Examine(h) \/ Write(h) \/ WriteRefused(h) \/ WriteFails(h)
             \/ Recompute(h) \/ RecomputeWrite(h)
      PROVE  InOrder(handler[g])'
  <2>1. CASE g # h
    <3>1. OthersStay(h)
      BY <1>5, StepStarts, StepContinues
    <3> QED
      BY <1>1, <2>1, <3>1 DEF OthersStay
  <2>2. CASE g = h /\ (Push(h) \/ Pull(h))
    BY <2>2, PagesInOrder DEF Copies
  <2>3. CASE g = h /\ (Answered(h) \/ Pulled(h) \/ Ignored(h) \/ Lost(h))
    <3>1. handler'[g] = Free
      BY <1>0, <2>3 DEF Answered, Pulled, Ignored, Lost
    <3> QED
      BY <1>2, <3>1
  <2>4. CASE /\ g = h
             /\ \/ Arrive(h) \/ Finish(h) \/ Examine(h) \/ Write(h) \/ WriteRefused(h)
                \/ WriteFails(h) \/ Recompute(h) \/ RecomputeWrite(h)
    <3>1. /\ handler'[g].node = handler[g].node
          /\ \A e \in handler[g].todo :
               \/ e \in handler'[g].todo
               \/ e.id \in applied'[handler[g].node] \union conflicts'[handler[g].node]
      BY <2>4, StepContinues, StepAdvances DEF Continues, Advances
    <3>2. /\ handler'[g].todo \subseteq handler[g].todo
          /\ handler'[g].step = "write" =>
               Examine(g) /\ handler'[g].todo = handler[g].todo
               /\ handler'[g].current \in handler[g].todo /\ comesFirst(handler'[g].current, handler[g].todo)
      BY <2>4, TodoShrinks
    <3>3. Examine(g) => UNCHANGED applied
      BY DEF Examine
    <3> QED
      BY <1>0, <3>1, <3>2, <3>3, StaysInOrder
  <2> QED
    BY <1>5, <2>1, <2>2, <2>3, <2>4
<1> QED
  BY <1>3, <1>4, <1>5, RunSteps

LEMMA CopiesStep ==
  ASSUME TypeOK, Steady, Ledger, Cursors, Copies, [Next]_vars
  PROVE  Copies'
<1>1. WritesApart' /\ SetAsideFromPeer'
  BY WritesApartStep, SetAsideStep DEF Copies, Cursors
<1>2. BothFollow'
  BY FollowStep
<1>3. \A h \in Handlers : InOrder(handler[h])'
  BY <1>2, InOrderStep
<1> QED
  BY <1>1, <1>2, <1>3 DEF Copies

LEMMA CopiesInit == Init => Copies
<1> SUFFICES ASSUME Init PROVE Copies
  OBVIOUS
<1>1. WritesApart /\ SetAsideFromPeer
  BY DEF Init, WritesApart, SetAsideFromPeer
<1>2. ASSUME NEW n \in Nodes, NEW d \in Documents PROVE Follows(n, d)
  <2>1. of(n, d) = {} /\ landed(n, d) = {}
    BY <1>2 DEF Init, of, landed
  <2>2. rows[n][d] = NoRow /\ rows[peerOf(n)][d] = NoRow
    BY <1>2, PeerIsANode DEF Init, Rows
  <2> QED
    BY <2>1, <2>2 DEF Follows, shows
<1>3. \A h \in Handlers : InOrder(handler[h])
  BY DEF Init, InOrder, Free
<1> QED
  BY <1>1, <1>2, <1>3 DEF Copies, BothFollow

\* What was all received was all applied: both copies show the last write.
LEMMA ReceivedIsShown ==
  ASSUME TypeOK, Ledger, Cursors, Copies
  PROVE  OwnedCopyFollows
<1> SUFFICES ASSUME NEW d \in Documents, Writers[d] = {Owner[d]}, received(d)
             PROVE  rows[peerOf(Owner[d])][d] = rows[Owner[d]][d]
  BY DEF OwnedCopyFollows
<1> DEFINE n == Owner[d]
           p == peerOf(n)
<1>1. n \in Nodes /\ owns(n, d) /\ Follows(n, d)
  BY SyncAssumption DEF owns, Copies, BothFollow
<1>2. ASSUME NEW c \in of(n, d) PROVE c.id \in applied[p]
  <2>1. c \in outbox[n] /\ c.id \in Ids
    BY <1>1, JournaledChange DEF of
  <2>2. CASE n = "LOCAL"
    BY <2>1, <2>2 DEF received, of, Ledger, Believed, peerOf
  <2>3. CASE n # "LOCAL"
    <3>1. n = "CLOUD" /\ p = "LOCAL"
      BY <1>1, <2>3 DEF Nodes, peerOf
    <3>2. c.id \in applied[p] \union conflicts[p]
      BY <2>1, <3>1 DEF received, of, Cursors, NothingSkipped
    <3> QED
      BY <1>1, <3>2 DEF Follows
  <2> QED
    BY <2>2, <2>3
<1>3. landed(n, d) = of(n, d)
  BY <1>2 DEF landed
<1>4. shows(rows[n][d], of(n, d)) /\ shows(rows[p][d], of(n, d))
  BY <1>1, <1>3 DEF Follows
<1>5. ASSUME NEW c \in of(n, d), NEW e \in of(n, d), isLast(c, of(n, d)), isLast(e, of(n, d))
      PROVE  c = e
  <2>1. c \in outbox[n] /\ e \in outbox[n] /\ c.row \in Documents
    BY DEF of
  <2>2. c.occurredAt <= e.occurredAt /\ e.occurredAt <= c.occurredAt
    BY <1>5 DEF isLast
  <2>3. c.occurredAt = e.occurredAt
    BY <1>1, <2>1, <2>2, JournaledChange
  <2> QED
    BY <1>1, <2>1, <2>3 DEF Copies, WritesApart
<1> QED
  BY <1>4, <1>5 DEF shows

\* When no two transactions of the application overlap, no two writes share a
\* millisecond and no write fails on the peer, a document that only its owner writes
\* is the same on both servers as soon as all was received, whatever was lost, sent
\* twice or brought by several runs at a time.
THEOREM OwnedCopies == Steady => (Spec => []OwnedCopyFollows)
<1> SUFFICES ASSUME Steady PROVE Spec => []OwnedCopyFollows
  OBVIOUS
<1>1. Alone
  BY DEF Steady
<1>2. Init => Copies
  BY CopiesInit
<1>3. TypeOK /\ Ledger /\ Cursors /\ Copies /\ [Next]_vars => Copies'
  BY CopiesStep
<1>4. TypeOK /\ Ledger /\ Cursors /\ Copies => OwnedCopyFollows
  BY ReceivedIsShown
<1>5. Spec => [](TypeOK /\ Ledger /\ Cursors)
  BY <1>1, CursorInvariant
<1> QED
  BY <1>2, <1>3, <1>4, <1>5, PTL DEF Spec
=============================================================================
