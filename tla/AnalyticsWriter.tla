---------------------------- MODULE AnalyticsWriter ----------------------------
(* The ClickHouse analytics worker: a Kafka consumer of its own group that      *)
(* normalizes a batch, inserts its rows through a buffering writer, retries     *)
(* with growing delays while ClickHouse is unavailable, and commits. After the  *)
(* delays are used up, or at a record it cannot decode, the process ends; unlike*)
(* the event worker it has no loop that starts it again.                        *)
EXTENDS Naturals, Sequences, FiniteSets, SequencesExt

CONSTANTS
  Events,             \* how many events the topics get
  Rejected,           \* those the normalizer rejects
  Undecodable,        \* those that are no PipelineEvent
  BatchSize,          \* batch_size of the consumer
  MaxRows,            \* max_rows of the writer, made of the same setting
  MaxRetrySeconds,    \* clickhouse_max_retry_seconds
  MaxFaults,          \* bound: lost answers and crashes
  MaxOutages          \* bound: times ClickHouse becomes unavailable

(* What the constants are.                                                      *)
AnalyticsAssumption ==
  /\ {Events, MaxFaults, MaxOutages} \subseteq Nat
  /\ {BatchSize, MaxRows, MaxRetrySeconds} \subseteq Nat \ {0}
  /\ BatchSize <= MaxRows
  /\ Rejected \subseteq 1..Events /\ Undecodable \subseteq (1..Events) \ Rejected

(* Where a process that has ended is: by what it was ended.                     *)
Ended == {"crashed", "outlasted", "undecodable", "unreachable"}

VARIABLES
  sent,               \* events published so far: 1..sent
  committed,          \* the offset of the consumer group
  at,                 \* where the worker is
  position,           \* the last event it fetched
  rows,               \* the normalized rows of its batch
  todo,               \* those not yet added in this attempt
  buffer,             \* _rows of the writer
  sending,            \* the rows of the insert that is running
  delay,
  up,                 \* whether ClickHouse answers
  table,              \* event -> how often voice_events has its row
  hit,                \* event -> faults and failures that met its batch
  faults, outages

worker == <<at, position, rows, todo, buffer, sending, delay>>
bounds == <<faults, outages>>
vars   == <<sent, committed, worker, up, table, hit, bounds>>

Init ==
  /\ sent = 0 /\ committed = 0
  /\ at = "starting" /\ position = 0
  /\ rows = <<>> /\ todo = <<>> /\ buffer = <<>> /\ sending = <<>> /\ delay = 1
  /\ up = TRUE
  /\ table = [e \in 1..Events |-> 0]
  /\ hit = [e \in 1..Events |-> 0]
  /\ faults = 0 /\ outages = 0

Publish ==
  /\ sent < Events
  /\ sent' = sent + 1
  /\ UNCHANGED <<committed, worker, up, table, hit, bounds>>

Down ==
  /\ up /\ outages < MaxOutages
  /\ up' = FALSE /\ outages' = outages + 1
  /\ UNCHANGED <<sent, committed, worker, table, hit, faults>>

Recover ==
  /\ ~up /\ up' = TRUE
  /\ UNCHANGED <<sent, committed, worker, table, hit, bounds>>

--------------------------------------------------------------------------------
(* An operator starts a worker that has ended; nothing in the repository does.  *)
Run ==
  /\ at \in Ended
  /\ at' = "starting"
  /\ rows' = <<>> /\ todo' = <<>> /\ buffer' = <<>> /\ sending' = <<>> /\ delay' = 1
  /\ UNCHANGED <<sent, committed, position, up, table, hit, bounds>>

(* The ping is answered, and the consumer starts at the group's offset.         *)
Ping ==
  /\ at = "starting" /\ up
  /\ at' = "polling" /\ position' = committed
  /\ UNCHANGED <<sent, committed, rows, todo, buffer, sending, delay, up, table, hit, bounds>>

PingFails ==
  /\ at = "starting" /\ ~up
  /\ at' = "unreachable"
  /\ UNCHANGED <<sent, committed, position, rows, todo, buffer, sending, delay, up, table, hit, bounds>>

Fetched(n) == (position + 1)..(position + n)
Fetches    == {n \in 1..BatchSize : position + n <= sent}

(* What is fetched becomes a batch when all of it is decoded.                   *)
Batches == {n \in Fetches : Fetched(n) \cap Undecodable = {}}

(* Else the consumer raises, and what it had buffered goes with it.             *)
DecodeFails ==
  /\ at = "polling" /\ Fetches \ Batches # {}
  /\ at' = "undecodable"
  /\ UNCHANGED <<sent, committed, position, rows, todo, buffer, sending, delay, up, table, hit, bounds>>

(* The rows of the next n events in their order, as the one member of a set.    *)
Normalized(n) ==
  LET S == Fetched(n) \ Rejected
  IN  {s \in [1..Cardinality(S) -> S] :
         Range(s) = S /\ \A i, j \in DOMAIN s : i < j => s[i] < s[j]}

(* Mutant of Poll: the offset is committed as the batch is taken.               *)
PollCommitting ==
  /\ at = "polling"
  /\ \E n \in Batches : \E new \in Normalized(n) :
       /\ position' = position + n /\ committed' = position + n
       /\ rows' = new /\ todo' = new
       /\ at' = IF new = <<>> THEN "committing" ELSE "adding"
  /\ delay' = 1
  /\ UNCHANGED <<sent, buffer, sending, up, table, hit, bounds>>

(* handle_batch leaves rejected events out; without any row it returns at once. *)
Poll ==
  /\ at = "polling"
  /\ \E n \in Batches : \E new \in Normalized(n) :
       /\ position' = position + n
       /\ rows' = new /\ todo' = new
       /\ at' = IF new = <<>> THEN "committing" ELSE "adding"
  /\ delay' = 1
  /\ UNCHANGED <<sent, committed, buffer, sending, up, table, hit, bounds>>

(* Rows are added until the buffer has max_rows or the batch is at its end; the *)
(* flush takes them out of the buffer before it inserts them. Nothing awaits in *)
(* between, so the buffer is empty whenever the worker can be interrupted.      *)
Flush ==
  LET n == Min({MaxRows - Len(buffer), Len(todo)})
  IN  /\ at = "adding"
      /\ sending' = buffer \o SubSeq(todo, 1, n)
      /\ todo' = SubSeq(todo, n + 1, Len(todo))
      /\ at' = IF sending' = <<>> THEN "committing" ELSE "inserting"
      /\ buffer' = <<>>
      /\ UNCHANGED <<sent, committed, position, rows, delay, up, table, hit, bounds>>

Stored(seq) ==
  [e \in 1..Events |-> table[e] + Cardinality({i \in DOMAIN seq : seq[i] = e})]

Inserted ==
  /\ at = "inserting" /\ up
  /\ table' = Stored(sending)
  /\ sending' = <<>>
  /\ at' = "adding"
  /\ UNCHANGED <<sent, committed, position, rows, todo, buffer, delay, up, hit, bounds>>

Meets == hit' = [e \in 1..Events |-> IF Contains(rows, e) THEN hit[e] + 1 ELSE hit[e]]

(* The exception handler: the whole batch again after the delay, or the end of  *)
(* the process. What close flushes then is an empty buffer.                     *)
Retry ==
  /\ sending' = <<>>
  /\ IF delay > MaxRetrySeconds
     THEN at' = "outlasted" /\ UNCHANGED <<todo, delay>>
     ELSE at' = "adding" /\ delay' = 2 * delay /\ todo' = rows

InsertFails ==
  /\ at = "inserting" /\ ~up
  /\ Retry
  /\ UNCHANGED <<sent, committed, position, rows, buffer, up, table, hit, bounds>>

Fault == faults < MaxFaults /\ faults' = faults + 1

(* ClickHouse takes the rows and the answer is late.                            *)
InsertUnanswered ==
  /\ at = "inserting" /\ up
  /\ Fault /\ Meets
  /\ table' = Stored(sending)
  /\ Retry
  /\ UNCHANGED <<sent, committed, position, rows, buffer, up, outages>>

Commit ==
  /\ at = "committing"
  /\ committed' = position
  /\ at' = "polling"
  /\ UNCHANGED <<sent, position, rows, todo, buffer, sending, delay, up, table, hit, bounds>>

(* The process is stopped, or the commit is refused or not answered. The insert *)
(* runs in a thread that nothing interrupts.                                    *)
Crash ==
  /\ at \notin Ended
  /\ Fault /\ Meets
  /\ at' = "crashed"
  /\ table' \in {table, Stored(sending)}
  /\ committed' \in {committed} \cup (IF at = "committing" THEN {position} ELSE {})
  /\ UNCHANGED <<sent, position, rows, todo, buffer, sending, delay, up, outages>>

Step == Ping \/ PingFails \/ Poll \/ DecodeFails \/ Flush \/ Inserted \/ InsertFails \/ Commit
Next == Publish \/ Down \/ Recover \/ Run \/ Step \/ InsertUnanswered \/ Crash
Spec == Init /\ [][Next]_vars

(* The worker runs on, and an outage ends. Nothing obliges anybody to start the *)
(* worker again.                                                                *)
FairSpec == Spec /\ WF_vars(Step) /\ WF_vars(Recover)

--------------------------------------------------------------------------------
(* Every variable has its type.                                                 *)
TypeOK ==
  /\ sent \in 0..Events /\ committed \in 0..sent /\ position \in 0..sent
  /\ at \in Ended \cup {"starting", "polling", "adding", "inserting", "committing"}
  /\ {rows, todo, buffer, sending} \subseteq Seq(1..Events)
  /\ at = "inserting" => sending # <<>>
  /\ delay \in 1..(2 * MaxRetrySeconds)
  /\ \A e \in 1..Events : table[e] \in Nat /\ hit[e] \in 0..MaxFaults

(* An offset is committed only after ClickHouse has the row of every event      *)
(* below it that normalizes (handle_batch returns before _commit_batch).        *)
CommittedIsStored == \A e \in (1..committed) \ Rejected : table[e] > 0

(* At least once: an event has another row only for a crash or a lost answer    *)
(* that met its batch; a failed insert that is retried adds none.               *)
RepeatsAreExplained == \A e \in 1..Events : table[e] <= 1 + hit[e]

(* Although a flush empties the buffer before the insert and a retry adds the   *)
(* batch from its start, an insert carries the rows of one batch, once each and *)
(* in order.                                                                    *)
InsertIsBatch == at = "inserting" => sending = rows

(* What no undecodable record can hold back: it keeps up to a batch in front of *)
(* it from being handled, and everything behind it.                             *)
Ahead == {e \in 1..sent : \A u \in Undecodable \cap (1..sent) : e + BatchSize <= u}

(* The process has ended, and something went wrong before.                      *)
Broken == at \in Ended /\ (faults > 0 \/ outages > 0 \/ Undecodable \cap (1..sent) # {})

(* As long as the worker is there, or is started whenever it has ended, all that*)
(* normalizes in front of an undecodable record reaches ClickHouse: again and   *)
(* again there is none that has not. Else the process has ended for good, which *)
(* takes a crash, an outage or an undecodable record.                           *)
EventuallyStored ==
  <>[]Broken \/ []<>(\A e \in Ahead \ Rejected : table[e] > 0)
================================================================================
