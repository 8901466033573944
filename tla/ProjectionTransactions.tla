------------------------ MODULE ProjectionTransactions -------------------------
(* Several event workers project batches at the same time, each in one READ     *)
(* COMMITTED transaction: the members of a consumer group, whose partitions of  *)
(* different topics carry the same call, or a worker that lost its partitions   *)
(* and still works on the batch that the next owner has fetched again. Here a   *)
(* transaction is the sequence of its blocking statements, and what Postgres    *)
(* makes of two of them is part of the model: a row written by an open          *)
(* transaction blocks every other writer, a statement sees what was committed   *)
(* when it began, and a cycle of waiting transactions loses a member.           *)
(*                                                                              *)
(* An event is a record [key, kind, call, topic, offset, cost]. Statements that *)
(* only insert rows of their own event (timeline, metric, outbox) or only read  *)
(* (prices, the final record) block nobody and are left out.                    *)
EXTENDS Naturals, Sequences, FiniteSets, FiniteSetsExt, SequencesExt, Relation

CONSTANTS
  Workers,
  Plans,        \* who fetches what: worker -> a sequence of sequences of events
  Known,        \* the calls whose row create_call has written before
  MaxFaults     \* bound: statements that fail or time out, commits without an answer

(* The events that the workers of a plan fetch.                                 *)
EventsOf(plan) == UNION {ToSet(b) : b \in UNION {ToSet(plan[w]) : w \in Workers}}

IsSequence(s) == Len(s) \in Nat /\ DOMAIN s = 1..Len(s)

ASSUME TransactionsAssumption ==
  /\ MaxFaults \in Nat
  /\ \A plan \in Plans :
       /\ DOMAIN plan = Workers
       /\ \A w \in Workers :
            /\ IsSequence(plan[w])
            /\ \A b \in DOMAIN plan[w] : IsSequence(plan[w][b]) /\ Len(plan[w][b]) > 0
       /\ \A e \in EventsOf(plan) : e.offset \in Nat /\ e.cost \in Nat

(* What Kafka and the producers make of it. A key names one event. The session  *)
(* says call.started before anything else of its call, in the same partition.   *)
(* And a consumer fetches a topic in the order of its offsets, from the first   *)
(* that is not committed: in a plan, which tells everything since the topics    *)
(* began, from the first of all, whoever has the topic besides.                 *)
ASSUME LogAssumption ==
  \A plan \in Plans :
    /\ \A e, f \in EventsOf(plan) :
         /\ e.key = f.key => e = f
         /\ e.kind = "started" /\ f.kind = "failed" /\ e.call = f.call =>
              e.topic = f.topic /\ e.offset < f.offset
    /\ \A w \in Workers : \A b \in DOMAIN plan[w] : \A i \in DOMAIN plan[w][b] :
         \A e \in EventsOf(plan) :
           e.topic = plan[w][b][i].topic /\ e.offset <= plan[w][b][i].offset =>
             \E c \in 1..b : \E j \in DOMAIN plan[w][c] :
               /\ plan[w][c][j] = e
               /\ c < b \/ j <= i

VARIABLES
  batches,      \* the plan of this behaviour
  db,           \* the committed rows: <<table, id>> -> contents
  mine,         \* worker -> the rows its open transaction has written, and so locks
  batch, item,  \* worker -> the batch it works on, and the event (or topic) of it
  at,           \* worker -> its next statement
  seen,         \* worker -> the sum its UPDATE of call_billing has read
  queue,        \* the workers whose statement waits for a row, in order
  faults

vars == <<batches, db, mine, batch, item, at, seen, queue, faults>>

Events   == EventsOf(batches)
CallIds  == {e.call : e \in Events}
TopicIds == {e.topic : e \in Events}

Active(w) == batch[w] \in DOMAIN batches[w]
Batch(w)  == batches[w][batch[w]]
Event(w)  == Batch(w)[item[w]]

(* The keys of the dictionary watermarks, in the order of their insertion.      *)
Marks(w) ==
  FoldLeft(LAMBDA ts, e : IF Contains(ts, e.topic) THEN ts ELSE Append(ts, e.topic),
           <<>>, Batch(w))

(* Rows, and those of others that they do not replace.                          *)
Over(new, old) ==
  [r \in DOMAIN new \cup DOMAIN old |-> IF r \in DOMAIN new THEN new[r] ELSE old[r]]

(* What a statement of w reads: the committed rows and its own.                 *)
Visible(w) == Over(mine[w], db)

(* SUM(cost_usd) of a call over the usage_records among some rows.              *)
SumOf(rows, c) ==
  MapThenSumSet(LAMBDA r : rows[r].cost,
                {r \in DOMAIN rows : r[1] = "record" /\ rows[r].call = c})

Row(w, table) == <<table, Event(w).call>>

(* Mutant of Matches: call.ended does not look at the status of the row.        *)
MatchesAny(w) == Row(w, "call") \in DOMAIN Visible(w)

(* The row of calls that the UPDATE of _project_call finds.                     *)
Matches(w) ==
  LET row == Row(w, "call")
  IN  /\ row \in DOMAIN Visible(w)
      /\ Event(w).kind = "ended" => Visible(w)[row] # "CALL_FAILED"

--------------------------------------------------------------------------------
(* The rows a statement after the first must have for itself.                   *)
Needed(w) ==
  CASE at[w] = "call"     -> IF Event(w).kind = "started" \/ Matches(w)
                             THEN {Row(w, "call")} ELSE {}
    [] at[w] = "rollup"   -> {Row(w, "rollup")}
    [] at[w] = "manifest" -> {Row(w, "manifest")}
    [] at[w] = "insert"   -> IF Row(w, "bill") \in DOMAIN db THEN {} ELSE {Row(w, "bill")}
    [] at[w] \in {"close", "cost"} -> {Row(w, "bill")}
    [] at[w] = "mark"     -> {<<"watermark", Marks(w)[item[w]]>>}
    [] OTHER              -> {}

(* The rows the next statement must have for itself.                            *)
Needs(w) == IF at[w] = "key" THEN {<<"key", Event(w).key>>} ELSE Needed(w)

WaitsFor(w, v) == v # w /\ Active(w) /\ Needs(w) \cap DOMAIN mine[v] # {}
Waiting(w)     == Contains(queue, w)

(* A row that becomes free belongs to the statement that waited first; who has  *)
(* it already does not queue.                                                   *)
Ahead(w) ==
  {v \in ToSet(queue) \ {w} :
     /\ ~Waiting(w) \/ IndexFirstSubSeq(<<v>>, queue) < IndexFirstSubSeq(<<w>>, queue)
     /\ (Needs(v) \cap Needs(w)) \ DOMAIN mine[w] # {}}

Unblocked(w) == Ahead(w) = {} /\ \A v \in Workers : ~WaitsFor(w, v)

Deadlocked(w) ==
  LET holds == [p \in Workers \X Workers |->
                  Waiting(p[1]) /\ (WaitsFor(p[1], p[2]) \/ p[2] \in Ahead(p[1]))]
  IN  TransitiveClosure(holds, Workers)[w, w]

--------------------------------------------------------------------------------
Init ==
  /\ batches \in Plans
  /\ db = [r \in {"call"} \X Known |-> "CALL_STARTED"]
  /\ mine  = [w \in Workers |-> <<>>]
  /\ batch = [w \in Workers |-> 1]
  /\ item  = [w \in Workers |-> 1]
  /\ at    = [w \in Workers |-> "key"]
  /\ seen  = [w \in Workers |-> 0]
  /\ queue = <<>>
  /\ faults = 0

Goto(w, statement, i) ==
  /\ at' = [at EXCEPT ![w] = statement]
  /\ item' = [item EXCEPT ![w] = i]

NextEvent(w) ==
  IF item[w] < Len(Batch(w)) THEN Goto(w, "key", item[w] + 1) ELSE Goto(w, "mark", 1)

Write(w, row, contents) == mine' = [mine EXCEPT ![w] = Over([r \in {row} |-> contents], @)]

(* A statement of an open transaction: it runs once its rows are free.          *)
At(w, statement) ==
  /\ Active(w) /\ at[w] = statement /\ Unblocked(w)
  /\ queue' = RemoveFirst(queue, w)
  /\ UNCHANGED batches

Wait(w) ==
  /\ Active(w) /\ ~Unblocked(w) /\ ~Waiting(w)
  /\ queue' = Append(queue, w)
  /\ UNCHANGED <<batches, db, mine, batch, item, at, seen, faults>>

Keep == UNCHANGED <<db, batch, faults>>

(* INSERT INTO idempotency_keys ... ON CONFLICT DO NOTHING RETURNING TRUE.      *)
InsertKey(w) ==
  LET key == <<"key", Event(w).key>>
  IN  /\ At(w, "key")
      /\ IF key \in DOMAIN Visible(w)
         THEN NextEvent(w) /\ UNCHANGED mine
         ELSE Write(w, key, Event(w).call) /\ Goto(w, "call", item[w])
      /\ UNCHANGED seen /\ Keep

(* The status that _project_call gives the row of calls.                        *)
NewStatus(w) ==
  LET old == Visible(w)[Row(w, "call")]
  IN  CASE Event(w).kind = "started" -> "CALL_STARTED"
        [] Event(w).kind = "ended"   -> "CALL_COMPLETED"
        [] Event(w).kind = "failed"  -> "CALL_FAILED"
        [] OTHER -> IF old = "CALL_STARTED" THEN "IN_PROGRESS" ELSE old

(* _project_call: every event of the call but the billing event updates its     *)
(* row, if there is one; the condition is looked at again after a wait.         *)
UpdateCall(w) ==
  LET written == Event(w).kind = "started" \/ Matches(w)
  IN  /\ At(w, "call")
      /\ IF written THEN Write(w, Row(w, "call"), NewStatus(w)) ELSE UNCHANGED mine
      /\ CASE Event(w).kind = "usage"   -> Goto(w, "rollup", item[w])
           [] Event(w).kind = "barrier" -> Goto(w, "manifest", item[w])
           [] Event(w).kind = "failed" \/ (Event(w).kind = "ended" /\ written)
                                        -> Goto(w, "insert", item[w])
           [] OTHER                     -> NextEvent(w)
      /\ UNCHANGED seen /\ Keep

(* The usage_records row, unique by its event, and the increment of the rollup. *)
AddUsage(w) ==
  LET row  == Row(w, "rollup")
      old  == IF row \in DOMAIN Visible(w) THEN Visible(w)[row] ELSE 0
      more == <<"record", Event(w).key>>
  IN  /\ At(w, "rollup")
      /\ mine' = [mine EXCEPT ![w] =
                    Over([r \in {row, more} |->
                            IF r = row THEN old + Event(w).cost
                            ELSE [call |-> Event(w).call, cost |-> Event(w).cost]], @)]
      /\ Goto(w, "insert", item[w])
      /\ UNCHANGED seen /\ Keep

UpsertManifest(w) ==
  /\ At(w, "manifest")
  /\ Write(w, Row(w, "manifest"), Event(w).key)
  /\ NextEvent(w)
  /\ UNCHANGED seen /\ Keep

(* Mutant of InsertBill: the status is set together with the cost.              *)
InsertBillThenSum(w) ==
  /\ At(w, "insert")
  /\ IF Row(w, "bill") \in DOMAIN Visible(w) THEN UNCHANGED mine
     ELSE Write(w, Row(w, "bill"), [cost |-> 0, status |-> "OPEN"])
  /\ Goto(w, "sum", item[w])
  /\ UNCHANGED seen /\ Keep

(* _update_call_billing: INSERT ... ON CONFLICT DO NOTHING waits only for a row *)
(* that is not committed yet; the status is set when the call is over.          *)
InsertBill(w) ==
  /\ At(w, "insert")
  /\ IF Row(w, "bill") \in DOMAIN Visible(w) THEN UNCHANGED mine
     ELSE Write(w, Row(w, "bill"), [cost |-> 0, status |-> "OPEN"])
  /\ Goto(w, IF Event(w).kind = "usage" THEN "sum" ELSE "close", item[w])
  /\ UNCHANGED seen /\ Keep

CloseBill(w) ==
  /\ At(w, "close")
  /\ Write(w, Row(w, "bill"), [Visible(w)[Row(w, "bill")] EXCEPT !.status = "FINALIZED"])
  /\ Goto(w, "sum", item[w])
  /\ UNCHANGED seen /\ Keep

(* The last UPDATE begins: its subquery reads what is committed now, although   *)
(* the row itself may only be free later.                                       *)
SumRecords(w) ==
  /\ At(w, "sum")
  /\ seen' = [seen EXCEPT ![w] = SumOf(Visible(w), Event(w).call)]
  /\ Goto(w, "cost", item[w])
  /\ UNCHANGED mine /\ Keep

WriteCost(w) ==
  /\ At(w, "cost")
  /\ Write(w, Row(w, "bill"), [Visible(w)[Row(w, "bill")] EXCEPT !.cost = seen[w]])
  /\ seen' = [seen EXCEPT ![w] = 0]
  /\ NextEvent(w)
  /\ Keep

(* GREATEST(last_projected_offset, EXCLUDED.last_projected_offset)              *)
LaterOf(old, offset) == IF old > offset THEN old ELSE offset

(* Mutant of LastOffset: the offset to fetch next, as Kafka counts.             *)
LastOffsetNext(w, topic) ==
  1 + Max({e.offset : e \in {e \in ToSet(Batch(w)) : e.topic = topic}})

(* What the dictionary has of a topic when the last event is projected.         *)
LastOffset(w, topic) ==
  Max({e.offset : e \in {e \in ToSet(Batch(w)) : e.topic = topic}})

(* The upserts of projection_watermarks, one for each topic of the batch.       *)
MarkTopic(w) ==
  LET topic == Marks(w)[item[w]]
      row   == <<"watermark", topic>>
      old   == IF row \in DOMAIN Visible(w) THEN Visible(w)[row] ELSE 0
  IN  /\ At(w, "mark")
      /\ Write(w, row, LaterOf(old, LastOffset(w, topic)))
      /\ IF item[w] < Len(Marks(w)) THEN Goto(w, "mark", item[w] + 1) ELSE Goto(w, "commit", 1)
      /\ UNCHANGED seen /\ Keep

Committed(w) == db' = Visible(w) /\ mine' = [mine EXCEPT ![w] = <<>>]

Commit(w) ==
  /\ At(w, "commit")
  /\ Committed(w)
  /\ batch' = [batch EXCEPT ![w] = @ + 1]
  /\ Goto(w, "key", 1)
  /\ UNCHANGED <<seen, faults>>

--------------------------------------------------------------------------------
(* Mutant of BeginAgain: a batch whose transaction failed is left behind.       *)
BeginNext(w) ==
  /\ Goto(w, "key", 1)
  /\ batch' = [batch EXCEPT ![w] = @ + 1]
  /\ seen' = [seen EXCEPT ![w] = 0]
  /\ UNCHANGED batches

(* _retry begins the transaction again; after three attempts a new consumer     *)
(* fetches the same records again.                                              *)
BeginAgain(w) ==
  /\ Goto(w, "key", 1)
  /\ seen' = [seen EXCEPT ![w] = 0]
  /\ UNCHANGED <<batches, batch>>

(* Postgres aborts a member of a cycle of waiting transactions.                 *)
DeadlockDetected(w) ==
  /\ Deadlocked(w)
  /\ mine' = [mine EXCEPT ![w] = <<>>]
  /\ queue' = RemoveFirst(queue, w)
  /\ BeginAgain(w)
  /\ UNCHANGED <<db, faults>>

(* A statement fails, or waits longer than the command timeout.                 *)
StatementFails(w) ==
  /\ Active(w)
  /\ faults < MaxFaults
  /\ faults' = faults + 1
  /\ mine' = [mine EXCEPT ![w] = <<>>]
  /\ queue' = RemoveFirst(queue, w)
  /\ BeginAgain(w)
  /\ UNCHANGED db

(* The transaction is committed and its acknowledgement lost.                   *)
CommitUnanswered(w) ==
  /\ At(w, "commit")
  /\ faults < MaxFaults
  /\ faults' = faults + 1
  /\ Committed(w)
  /\ BeginAgain(w)

(* No batch is left: the workers wait for the next.                             *)
Idle == (\A w \in Workers : ~Active(w)) /\ UNCHANGED vars

Statement(w) ==
  \/ InsertKey(w) \/ UpdateCall(w) \/ AddUsage(w) \/ UpsertManifest(w) \/ InsertBill(w)
  \/ CloseBill(w) \/ SumRecords(w) \/ WriteCost(w) \/ MarkTopic(w) \/ Commit(w)

Next ==
  \/ \E w \in Workers : \/ Statement(w) \/ Wait(w) \/ DeadlockDetected(w)
                        \/ StatementFails(w) \/ CommitUnanswered(w)
  \/ Idle

Spec == Init /\ [][Next]_vars

(* A statement that is not blocked is executed, one that is blocked waits, and  *)
(* Postgres looks for deadlocks after deadlock_timeout.                         *)
FairSpec ==
  Spec /\ \A w \in Workers :
            WF_vars(Statement(w)) /\ WF_vars(Wait(w)) /\ WF_vars(DeadlockDetected(w))

--------------------------------------------------------------------------------
(* The shape of the rows and of the transactions: an open one has exactly the   *)
(* rows it wrote, and no row has two writers (what the row locks are for).      *)
TypeOK ==
  /\ \A r \in DOMAIN db : r[1] \in {"key", "call", "record", "rollup", "bill", "manifest",
                                    "watermark"}
  /\ \A w \in Workers :
       /\ batch[w] \in 1..(Len(batches[w]) + 1)
       /\ at[w] \in {"key", "call", "rollup", "manifest", "insert", "close", "sum", "cost",
                     "mark", "commit"}
       /\ seen[w] \in Nat
       /\ ~Active(w) => mine[w] = <<>>
  /\ IsInjective(queue) /\ ToSet(queue) \subseteq Workers
  /\ faults \in 0..MaxFaults
  /\ \A w, v \in Workers : w # v => DOMAIN mine[w] \cap DOMAIN mine[v] = {}

(* No increment is lost and none is made twice: a committed rollup is the sum   *)
(* of the committed usage records of its call, whoever projected them.          *)
CountedOnce ==
  \A c \in CallIds :
    SumOf(db, c) = IF <<"rollup", c>> \in DOMAIN db THEN db[<<"rollup", c>>] ELSE 0

(* The cost of a call is recomputed, not incremented, by a statement that may   *)
(* have read before it waited. What it writes is still the cost of the records: *)
(* whoever adds one has updated the rollup of the call first, and whoever adds  *)
(* none has taken the bill before it read.                                      *)
CostIsSum ==
  \A c \in CallIds : <<"bill", c>> \in DOMAIN db => db[<<"bill", c>>].cost = SumOf(db, c)

(* A call that failed stays failed, whatever other workers commit later.        *)
FailedIsFinal ==
  [][\A c \in CallIds :
       LET row == <<"call", c>>
       IN  row \in DOMAIN db /\ db[row] = "CALL_FAILED" => db'[row] = "CALL_FAILED"]_vars

(* The watermark of a topic never goes back, and every event up to it has been  *)
(* projected: the finalization of a bill waits for nothing else.                *)
WatermarkMeansProjected ==
  \A e \in Events :
    LET row == <<"watermark", e.topic>>
    IN  row \in DOMAIN db /\ db[row] >= e.offset => <<"key", e.key>> \in DOMAIN db

WatermarkAdvances ==
  [][\A t \in TopicIds :
       LET row == <<"watermark", t>>
       IN  row \in DOMAIN db => db'[row] >= db[row]]_vars

(* The shape of the state, and what a watermark in it says.                   *)
Inv == TypeOK /\ WatermarkMeansProjected

(* The incremented sums and the recomputed ones are the sums of the same      *)
(* records.                                                                   *)
SumsAreRight == CountedOnce /\ CostIsSum

(* Transactions of other workers that commit late take back neither a verdict *)
(* nor a watermark.                                                           *)
NeverGoesBack == FailedIsFinal /\ WatermarkAdvances

(* Transactions may deadlock, because a batch takes the rows of its calls in    *)
(* the order of its events; every event is projected nevertheless.              *)
EveryEventIsProjected == <>[](\A e \in Events : <<"key", e.key>> \in DOMAIN db)
================================================================================
