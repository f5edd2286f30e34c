---------------------------- MODULE EventBuffer ----------------------------
(***************************************************************************)
(* The agent's local SQLite queue (src/agent/buffer.py, class EventBuffer).*)
(*                                                                         *)
(* The table `events` is two sets of rows, one for each value of its       *)
(* column `state`: `ready` (0) and `inflight` (1).  A row is its           *)
(* autoincrement id and its source_id; the payload and the bookkeeping     *)
(* columns (attempts, created_at, last_attempt_at) are read by nothing     *)
(* that decides anything, and are left out.  Every method body runs under  *)
(* `_lock` in one BEGIN IMMEDIATE transaction (`_tx`), so each is a single *)
(* action.                                                                 *)
(***************************************************************************)
EXTENDS Integers, FiniteSets

CONSTANTS Source,      \* the source ids collectors give to events
          MaxEvents,   \* EventBuffer.max_events
          MaxId        \* bound: rows ever inserted (no bound in the code)

ASSUME BufferAssumption == MaxEvents \in Nat /\ MaxId \in Nat

VARIABLES ready,       \* rows with state = 0
          inflight,    \* rows with state = 1
          nextId       \* the next AUTOINCREMENT id

bufferVars == <<ready, inflight, nextId>>

Row == [id : Nat, src : Source]
Rows == ready \cup inflight
Sources(R) == {r.src : r \in R}
Ids(R) == {r.id : r \in R}

BufferInit == ready = {} /\ inflight = {} /\ nextId = 1
-----------------------------------------------------------------------------
(***************************************************************************)
(* Selections.                                                             *)
(***************************************************************************)

\* Mutated form: ORDER BY id DESC.
Newest(R, n) == {r \in R : Cardinality({q \in R : q.id > r.id}) < n}

\* SELECT ... ORDER BY id ASC LIMIT n
Oldest(R, n) == {r \in R : Cardinality({q \in R : q.id < r.id}) < n}

\* Mutated form: the eviction leaves one row too many.
OverflowButOne(R) == Oldest(R, Cardinality(R) - MaxEvents - 1)

\* The rows an insert evicts: as many of the oldest as exceed max_events,
\* ready or in flight (no row when the count is within the limit).
Overflow(R) == Oldest(R, Cardinality(R) - MaxEvents)
-----------------------------------------------------------------------------
(***************************************************************************)
(* Producer operations (called by collectors).                             *)
(***************************************************************************)

\* Insert the new rows N, then evict the overflow.
Insert(N) ==
  LET gone == Overflow(Rows \cup N)
  IN  /\ ready' = (ready \cup N) \ gone
      /\ inflight' = inflight \ gone
      /\ nextId' = nextId + Cardinality(N)

\* Mutated form: without the UNIQUE constraint on source_id.
EnqueueDuplicates(s) ==
  /\ nextId <= MaxId
  /\ Insert({[id |-> nextId, src |-> s]})

\* enqueue: the UNIQUE constraint makes a duplicate raise IntegrityError,
\* which rolls the transaction back and returns False (no action here).
Enqueue(s) ==
  /\ s \notin Sources(Rows)
  /\ nextId <= MaxId
  /\ Insert({[id |-> nextId, src |-> s]})

\* enqueue_many: INSERT OR IGNORE row by row, in the caller's order, then one
\* eviction for the whole batch.
EnqueueMany(batch) ==
  LET fresh == batch \ Sources(Rows)
      ids   == nextId .. nextId + Cardinality(fresh) - 1
  IN  /\ batch # {}
      /\ nextId + Cardinality(fresh) <= MaxId + 1
      /\ \E order \in [fresh -> ids] :
           /\ \A s, t \in fresh : order[s] = order[t] => s = t
           /\ Insert({[id |-> order[s], src |-> s] : s \in fresh})
-----------------------------------------------------------------------------
(***************************************************************************)
(* Consumer operations (called by the flusher and the final flush).        *)
(***************************************************************************)

\* Mutated form: SELECT without the UPDATE that takes the rows out of `ready`.
ClaimUnmarked(limit) ==
  /\ inflight' = inflight \cup Oldest(ready, limit)
  /\ UNCHANGED <<ready, nextId>>

\* claim: what it returns is Oldest(ready, limit), which it marks in flight.
Claim(limit) ==
  LET claimed == Oldest(ready, limit)
  IN  /\ ready' = ready \ claimed
      /\ inflight' = inflight \cup claimed
      /\ UNCHANGED nextId

\* ack: DELETE ... WHERE id IN ids
Ack(ids) ==
  /\ ready' = {r \in ready : r.id \notin ids}
  /\ inflight' = {r \in inflight : r.id \notin ids}
  /\ UNCHANGED nextId

\* nack: UPDATE ... SET state = 0 WHERE id IN ids
Nack(ids) ==
  LET back == {r \in inflight : r.id \in ids}
  IN  /\ ready' = ready \cup back
      /\ inflight' = inflight \ back
      /\ UNCHANGED nextId

\* reset_in_flight: UPDATE ... SET state = 0 WHERE state = 1
ResetInFlight ==
  /\ ready' = ready \cup inflight
  /\ inflight' = {}
  /\ UNCHANGED nextId
-----------------------------------------------------------------------------
(***************************************************************************)
(* The buffer under a client that calls any operation at any time: an ack  *)
(* or a nack may name ids that were evicted or acknowledged long ago, or   *)
(* none that there ever were.                                              *)
(***************************************************************************)
BufferNext ==
  \/ \E s \in Source : Enqueue(s)
  \/ \E batch \in SUBSET Source : IsFiniteSet(batch) /\ EnqueueMany(batch)
  \/ \E limit \in Nat : Claim(limit)
  \/ \E ids \in SUBSET Nat : Ack(ids) \/ Nack(ids)
  \/ ResetInFlight

BufferSpec == BufferInit /\ [][BufferNext]_bufferVars
-----------------------------------------------------------------------------
(***************************************************************************)
(* Properties.                                                             *)
(***************************************************************************)

\* The table holds well-formed rows, and ids below the next one.
BufferTypeOK ==
  /\ nextId \in Nat \ {0}
  /\ IsFiniteSet(Rows)
  /\ ready \subseteq Row /\ inflight \subseteq Row
  /\ \A r \in Rows : r.id \in 1 .. nextId - 1

\* The table never holds more than max_events rows between two calls, whatever
\* mix of single and bulk inserts, evictions and re-queues led there.
WithinCapacity == Cardinality(Rows) <= MaxEvents

\* A row is either ready or in flight, and both its id and its source_id
\* identify it: an ack or nack by id can only hit the row that was claimed, even
\* when the event was evicted and emitted again in between.
RowsIdentified ==
  /\ ready \cap inflight = {}
  /\ \A r, q \in Rows : (r.id = q.id \/ r.src = q.src) => r = q

\* Eviction drops the oldest events first: an id that an insert removes, or
\* issues without keeping its row, is older than every row that survives it
\* (buffer.py: "evicting the oldest rows first").
EvictsOldestFirst ==
  [][nextId' # nextId =>
       \A i \in (Ids(Rows) \cup (nextId .. nextId' - 1)) \ Ids(Rows'), q \in Rows' :
         i < q.id]_bufferVars

\* Claims are FIFO: a row that goes in flight is older than every row left ready.
ClaimsInOrder ==
  [][\A r \in inflight' \ inflight, q \in ready' : r.id < q.id]_bufferVars
=============================================================================
