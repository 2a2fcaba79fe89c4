----------------------------- MODULE AuditStore ------------------------------
(***************************************************************************)
(* The audit trail of a backend (crates/guard-audit/src/lib.rs): callers   *)
(* put records into a bounded channel and never wait; one writer thread    *)
(* commits them to SQLite in batches and keeps the newest ones.            *)
(*                                                                         *)
(* committed is every row ever inserted, in order, so that the position of *)
(* a row is its AUTOINCREMENT id; rows up to Pruned are deleted again.  A  *)
(* row is the decision it records, which is all that readers filter by.    *)
(***************************************************************************)
EXTENDS Naturals, Sequences, SequencesExt, FiniteSetsExt

CONSTANTS
  ChannelSize,      \* commands the channel holds
  BatchSize,        \* records the writer commits at once
  Retained,         \* MAX_PERSISTED_EVENTS
  Limit,            \* rows of one page
  MaxFailures       \* bound: transactions that fail

VARIABLES
  channel,          \* the decision of each record on its way, or Flush
  batch,            \* what the writer holds
  committed,
  dropped,          \* the counter of records that were lost
  recorded,         \* history: calls of record
  flushed,          \* the acknowledgement the IPC thread waits for
  failures

audit == <<channel, batch, committed, dropped, recorded, flushed, failures>>

Flush == "flush"
Decision == {"allow", "deny"}

\* Clients ask for 100 rows, of the 1000 that are kept.
ASSUME PageAssumption == Retained \in Nat /\ Limit \in 1..Retained

AuditInit ==
  /\ channel = <<>> /\ batch = <<>> /\ committed = <<>>
  /\ dropped = 0 /\ recorded = 0 /\ failures = 0
  /\ flushed = FALSE

\* AuditStore::record
Record(decision) ==
  /\ recorded' = recorded + 1
  /\ IF Len(channel) < ChannelSize
       THEN channel' = Append(channel, decision) /\ UNCHANGED dropped
       ELSE dropped' = dropped + 1 /\ UNCHANGED channel
  /\ UNCHANGED <<batch, committed, flushed, failures>>

\* AuditStore::flush waits for room in the channel, and then for the answer.
SendFlush ==
  /\ Len(channel) < ChannelSize
  /\ channel' = Append(channel, Flush)
  /\ UNCHANGED <<batch, committed, dropped, recorded, flushed, failures>>

TakeFlushed == flushed /\ flushed' = FALSE

\* A batch that cannot be committed is given up.
Discard(records) ==
  /\ dropped' = dropped + Len(records)
  /\ batch' = <<>>
  /\ UNCHANGED committed

\* commit_batch, and what the writer does when it fails
Commit(records) ==
  \/ /\ committed' = committed \o records
     /\ batch' = <<>>
     /\ UNCHANGED <<dropped, failures>>
  \/ /\ records # <<>> /\ failures < MaxFailures
     /\ failures' = failures + 1
     /\ Discard(records)

\* One turn of writer_loop.
WriteRecord ==
  /\ channel # <<>> /\ Head(channel) # Flush
  /\ channel' = Tail(channel)
  /\ LET records == Append(batch, Head(channel)) IN
       IF Len(records) >= BatchSize
         THEN Commit(records)
         ELSE batch' = records /\ UNCHANGED <<committed, dropped, failures>>
  /\ UNCHANGED <<recorded, flushed>>

WriteFlush ==
  /\ channel # <<>> /\ Head(channel) = Flush
  /\ channel' = Tail(channel)
  /\ Commit(batch)
  /\ flushed' = TRUE
  /\ UNCHANGED recorded

Writer == WriteRecord \/ WriteFlush

-----------------------------------------------------------------------------
\* Queries

\* prune_events: ids up to this one are gone.
Pruned == IF Len(committed) > Retained THEN Len(committed) - Retained ELSE 0

Ids == (Pruned + 1)..Len(committed)

\* Release builds show denials only (event_visible_in_build).
Visible(ids) == {i \in ids : committed[i] = "deny"}

Newest(ids) == {i \in ids : Cardinality({j \in ids : j > i}) < Limit}
Oldest(ids) == {i \in ids : Cardinality({j \in ids : j < i}) < Limit}

\* ORDER BY id ASC
Ascending(ids) ==
  [k \in 1..Cardinality(ids) |-> CHOOSE i \in ids : Cardinality({j \in ids : j < i}) = k - 1]

\* Mutant: a page after a cursor is the newest one, too.
PageAfterNewest(cursor) == Ascending(Visible(Newest({i \in Ids : i > cursor})))

\* query_events_cursor with after_id: the page that follows the cursor.  The
\* limit is applied before hidden rows are left out.
PageAfter(cursor) == Ascending(Visible(Oldest({i \in Ids : i > cursor})))

\* ... without a cursor: the newest page, the newest row first
FirstPage == Reverse(Ascending(Visible(Newest(Ids))))

=============================================================================
