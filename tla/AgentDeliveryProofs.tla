------------------------ MODULE AgentDeliveryProofs ------------------------
(***************************************************************************)
(* First EventBuffer for every set of sources, every max_events and every  *)
(* mix of calls: the table stays within its capacity, its rows stay        *)
(* identified by id and by source, eviction removes the oldest rows and    *)
(* claims take them first.                                                 *)
(*                                                                         *)
(* Then AgentDelivery for every batch size too: it uses the buffer as the  *)
(* buffer's specification allows, its own safety properties, and that it   *)
(* implements Delivery.                                                    *)
(***************************************************************************)
EXTENDS AgentDelivery, Functions, FiniteSetTheorems, TLAPS

(***************************************************************************)
(* "ORDER BY id LIMIT n": facts about Oldest.                              *)
(***************************************************************************)

\* A finite set of rows that their ids tell apart, as a table is.
Table(R) ==
  /\ IsFiniteSet(R)
  /\ \A r \in R : r.id \in Nat
  /\ \A r, q \in R : r.id = q.id => r = q

\* How many rows of R are older than r.
Rank(R, r) == Cardinality({q \in R : q.id < r.id})

\* An older row has the smaller rank, and ranks are below the number of rows.
LEMMA RankOrder ==
  ASSUME NEW R, Table(R), NEW r \in R, NEW q \in R
  PROVE  /\ Rank(R, r) \in 0 .. Cardinality(R) - 1
         /\ r.id < q.id => Rank(R, r) < Rank(R, q)
         /\ r.id <= q.id => Rank(R, r) <= Rank(R, q)
<1> DEFINE Older(x) == {y \in R : y.id < x.id}
<1>1. \A x \in R : /\ IsFiniteSet(Older(x)) /\ Cardinality(Older(x)) \in Nat
                   /\ IsFiniteSet(Older(x) \cup {x})
                   /\ Cardinality(Older(x) \cup {x}) = Cardinality(Older(x)) + 1
                   /\ Older(x) \cup {x} \subseteq R
  <2> TAKE x \in R
  <2>1. x \notin Older(x) /\ Older(x) \in SUBSET R
    BY DEF Table
  <2>2. IsFiniteSet(Older(x))
    BY <2>1, FS_Subset DEF Table
  <2> QED
    BY <2>1, <2>2, FS_AddElement, FS_CardinalityType
<1>2. Cardinality(R) \in Nat
  BY FS_CardinalityType DEF Table
<1>3. Cardinality(Older(r) \cup {r}) <= Cardinality(R)
  BY <1>1, FS_Subset DEF Table
<1>4. r.id < q.id => Cardinality(Older(r) \cup {r}) <= Cardinality(Older(q))
  <2> HAVE r.id < q.id
  <2>1. Older(r) \cup {r} \in SUBSET Older(q)
    BY DEF Table
  <2> QED
    BY <2>1, <1>1, FS_Subset
<1>5. r.id <= q.id => Cardinality(Older(r)) <= Cardinality(Older(q))
  <2> HAVE r.id <= q.id
  <2>1. Older(r) \in SUBSET Older(q)
    BY DEF Table
  <2> QED
    BY <2>1, <1>1, FS_Subset
<1>6. /\ Cardinality(Older(r)) \in Nat /\ Cardinality(Older(q)) \in Nat
      /\ Cardinality(Older(r) \cup {r}) = Cardinality(Older(r)) + 1
  BY <1>1
<1>7. /\ Rank(R, r) = Cardinality(Older(r))
      /\ Rank(R, q) = Cardinality(Older(q))
  BY DEF Rank
<1> HIDE DEF Older
<1>8. Rank(R, r) \in 0 .. Cardinality(R) - 1
  BY <1>2, <1>3, <1>6, <1>7
<1>9. r.id < q.id => Rank(R, r) < Rank(R, q)
  BY <1>4, <1>6, <1>7
<1> QED
  BY <1>5, <1>7, <1>8, <1>9

\* Rows that are selected are older than rows that are not.
LEMMA OldestFirst ==
  ASSUME NEW R, Table(R), NEW n \in Int,
         NEW r \in Oldest(R, n), NEW q \in R \ Oldest(R, n)
  PROVE  r.id < q.id
<1>1. Rank(R, r) < n /\ ~(Rank(R, q) < n) /\ r \in R
  BY DEF Oldest, Rank
<1>2. Rank(R, r) \in Int /\ Rank(R, q) \in Int
  BY <1>1, RankOrder
<1>3. ~(q.id <= r.id)
  <2> SUFFICES ASSUME q.id <= r.id PROVE FALSE
    OBVIOUS
  <2>1. Rank(R, q) <= Rank(R, r)
    BY <1>1, RankOrder
  <2> QED
    BY <1>1, <1>2, <2>1
<1> QED
  BY <1>1, <1>3 DEF Table

\* LIMIT n selects exactly n rows of a table that has as many.
LEMMA OldestCardinality ==
  ASSUME NEW R, Table(R), NEW n \in 0 .. Cardinality(R)
  PROVE  Cardinality(Oldest(R, n)) = n
<1> DEFINE rank == [r \in R |-> Rank(R, r)]
           card == Cardinality(R)
           Sel == Oldest(R, n)
           part == [r \in Sel |-> Rank(R, r)]
<1>1. card \in Nat /\ n \in Nat /\ n <= card
  BY FS_CardinalityType DEF Table
<1>2. rank \in [R -> 0 .. card - 1]
  BY RankOrder
<1>3. \A r, q \in R : Rank(R, r) = Rank(R, q) => r = q
  <2> SUFFICES ASSUME NEW r \in R, NEW q \in R, r # q
               PROVE  Rank(R, r) # Rank(R, q)
    OBVIOUS
  <2>1. r.id < q.id \/ q.id < r.id
    BY DEF Table
  <2>2. Rank(R, r) \in Int /\ Rank(R, q) \in Int
    BY RankOrder
  <2>3. Rank(R, r) < Rank(R, q) \/ Rank(R, q) < Rank(R, r)
    BY <2>1, RankOrder
  <2> QED
    BY <2>2, <2>3
<1>4. rank \in Injection(R, 0 .. card - 1)
  BY <1>2, <1>3 DEF Injection, IsInjective
<1>5. IsFiniteSet(0 .. card - 1) /\ Cardinality(0 .. card - 1) = card
  <2> HIDE DEF card
  <2>1. /\ IsFiniteSet(0 .. card - 1)
        /\ Cardinality(0 .. card - 1)
             = IF 0 > card - 1 THEN 0 ELSE card - 1 - 0 + 1
    BY <1>1, FS_Interval
  <2> QED
    BY <1>1, <2>1
<1>6. rank \in Surjection(R, 0 .. card - 1)
  BY <1>4, <1>5, FS_Injection
<1>7. \A k \in 0 .. card - 1 : \E r \in R : Rank(R, r) = k
  BY <1>6 DEF Surjection
<1>8. \A r \in R : r \in Sel <=> Rank(R, r) < n
  BY DEF Oldest, Rank
<1>9. Sel \subseteq R
  BY DEF Oldest
<1>10. part \in [Sel -> 0 .. n - 1]
  <2> SUFFICES ASSUME NEW r \in Sel PROVE Rank(R, r) \in 0 .. n - 1
    OBVIOUS
  <2>1. Rank(R, r) \in 0 .. card - 1
    BY <1>9, RankOrder
  <2> QED
    BY <2>1, <1>1, <1>8, <1>9
<1>11. part \in Injection(Sel, 0 .. n - 1)
  BY <1>3, <1>9, <1>10 DEF Injection, IsInjective
<1>12. part \in Surjection(Sel, 0 .. n - 1)
  <2> SUFFICES ASSUME NEW k \in 0 .. n - 1
               PROVE  \E r \in Sel : part[r] = k
    BY <1>10 DEF Surjection
  <2>1. k \in 0 .. card - 1 /\ k < n
    BY <1>1
  <2>2. PICK r \in R : Rank(R, r) = k
    BY <2>1, <1>7
  <2> QED
    BY <2>1, <2>2, <1>8
<1>13. IsFiniteSet(Sel)
  BY <1>9, FS_Subset DEF Table
<1>14. ExistsBijection(Sel, 0 .. n - 1)
  BY <1>11, <1>12 DEF ExistsBijection, Bijection
<1>15. Cardinality(0 .. n - 1) = Cardinality(Sel)
  BY <1>13, <1>14, FS_Bijection
<1>16. Cardinality(0 .. n - 1) = n
  BY <1>1, FS_Interval
<1> QED
  BY <1>15, <1>16
-----------------------------------------------------------------------------
(***************************************************************************)
(* Inserting.                                                              *)
(***************************************************************************)

\* What survives an eviction fits into the table.
LEMMA EvictionFits ==
  ASSUME NEW T, Table(T)
  PROVE  /\ IsFiniteSet(T \ Overflow(T))
         /\ Cardinality(T \ Overflow(T)) <= MaxEvents
<1> DEFINE card == Cardinality(T)
           gone == Oldest(T, card - MaxEvents)
<1>1. card \in Nat /\ MaxEvents \in Nat /\ IsFiniteSet(T)
  BY FS_CardinalityType, BufferAssumption DEF Table
<1>2. gone \subseteq T
  BY DEF Oldest
<1>3. /\ IsFiniteSet(T \ gone)
      /\ Cardinality(T \ gone) = card - Cardinality(T \cap gone)
  BY <1>1, FS_Difference
<1>4. T \cap gone = gone /\ IsFiniteSet(gone) /\ Cardinality(gone) \in Nat
  BY <1>1, <1>2, FS_Subset, FS_CardinalityType
<1>5. card > MaxEvents => Cardinality(gone) = card - MaxEvents
  <2> HAVE card > MaxEvents
  <2>1. card - MaxEvents \in 0 .. card
    BY <1>1
  <2> QED
    BY <2>1, OldestCardinality
<1>6. Cardinality(T \ gone) <= MaxEvents
  <2>1. Cardinality(T \ gone) = card - Cardinality(gone)
    BY <1>3, <1>4
  <2> HIDE DEF card, gone
  <2>2. CASE card > MaxEvents
    BY <2>2, <2>1, <1>1, <1>4, <1>5
  <2>3. CASE card <= MaxEvents
    BY <2>3, <2>1, <1>1, <1>4
  <2> QED
    BY <2>2, <2>3, <1>1
<1> QED
  BY <1>3, <1>6 DEF Overflow

\* New rows as the inserts make them: fresh consecutive ids, and sources that
\* the table does not hold.
FreshRows(N) ==
  /\ IsFiniteSet(N) /\ N \subseteq Row
  /\ \A r \in N : r.id \in nextId .. nextId + Cardinality(N) - 1
  /\ \A r, q \in N : (r.id = q.id \/ r.src = q.src) => r = q
  /\ \A r \in N, q \in Rows : r.src # q.src

\* The inductive invariant of the buffer.
BufferInv == BufferTypeOK /\ WithinCapacity /\ RowsIdentified

\* The table with its new rows is a table whose rows are identified.
LEMMA FreshTable ==
  ASSUME BufferInv, NEW N, FreshRows(N)
  PROVE  /\ Table(Rows \cup N)
         /\ \A r, q \in Rows \cup N : (r.id = q.id \/ r.src = q.src) => r = q
         /\ \A r \in Rows, q \in N : r.id < q.id
         /\ \A r \in Rows \cup N : r.id \in 1 .. nextId + Cardinality(N) - 1
<1>1. /\ IsFiniteSet(Rows) /\ IsFiniteSet(N) /\ nextId \in Nat \ {0}
      /\ Rows \subseteq Row /\ N \subseteq Row
      /\ \A r \in Rows : r.id \in 1 .. nextId - 1
      /\ Cardinality(N) \in Nat
  BY FS_CardinalityType DEF BufferInv, BufferTypeOK, FreshRows, Rows
<1>2. \A r \in Rows, q \in N : r.id < q.id /\ r.src # q.src
  <2> TAKE r \in Rows, q \in N
  <2>1. r.id \in 1 .. nextId - 1 /\ q.id \in nextId .. nextId + Cardinality(N) - 1
    BY <1>1 DEF FreshRows
  <2> QED
    BY <2>1, <1>1 DEF FreshRows
<1>3. \A r \in Rows \cup N : r.id \in 1 .. nextId + Cardinality(N) - 1
  BY <1>1 DEF FreshRows
<1>4. \A r, q \in Rows \cup N : (r.id = q.id \/ r.src = q.src) => r = q
  <2> SUFFICES ASSUME NEW r \in Rows \cup N, NEW q \in Rows \cup N,
                      r.id = q.id \/ r.src = q.src
               PROVE  r = q
    OBVIOUS
  <2>1. CASE r \in Rows /\ q \in Rows
    BY <2>1 DEF BufferInv, RowsIdentified
  <2>2. CASE r \in N /\ q \in N
    BY <2>2 DEF FreshRows
  <2>3. r.id \in Int /\ q.id \in Int
    BY <1>3
  <2>4. CASE r \in Rows /\ q \in N
    BY <2>3, <2>4, <1>2
  <2>5. CASE r \in N /\ q \in Rows
    <3>1. q.id < r.id /\ q.src # r.src
      BY <2>5, <1>2
    <3> QED
      BY <3>1, <2>3
  <2> QED
    BY <2>1, <2>2, <2>4, <2>5
<1>5. IsFiniteSet(Rows \cup N)
  BY <1>1, FS_Union
<1>6. \A r \in Rows \cup N : r.id \in Nat
  BY <1>1 DEF Row
<1> QED
  BY <1>2, <1>3, <1>4, <1>5, <1>6 DEF Table

\* An insert preserves the invariant.
LEMMA InsertInv ==
  ASSUME BufferInv, NEW N, FreshRows(N), Insert(N)
  PROVE  BufferInv'
<1> DEFINE gone == Overflow(Rows \cup N)
<1>1. Rows' = (Rows \cup N) \ gone
  BY DEF Insert, Rows
<1>2. Table(Rows \cup N)
  BY FreshTable
<1>3. IsFiniteSet(Rows') /\ Cardinality(Rows') <= MaxEvents
  BY <1>1, <1>2, EvictionFits
<1>4. ready' \subseteq Row /\ inflight' \subseteq Row
  BY DEF Insert, FreshRows, BufferInv, BufferTypeOK
<1>5. /\ nextId \in Nat /\ Cardinality(N) \in Nat
      /\ nextId' \in Nat \ {0} /\ nextId' = nextId + Cardinality(N)
  BY FS_CardinalityType DEF Insert, FreshRows, BufferInv, BufferTypeOK
<1>6. \A r \in Rows' : r.id \in 1 .. nextId' - 1
  <2>1. \A r \in Rows \cup N : r.id \in 1 .. nextId + Cardinality(N) - 1
    BY FreshTable
  <2>2. 1 .. nextId' - 1 = 1 .. nextId + Cardinality(N) - 1
    BY <1>5
  <2> QED
    BY <2>1, <2>2, <1>1
<1>7. ready' \cap inflight' = {}
  <2>1. N \cap inflight = {}
    BY DEF FreshRows, Rows
  <2> QED
    BY <2>1 DEF Insert, BufferInv, RowsIdentified
<1>8. \A r, q \in Rows' : (r.id = q.id \/ r.src = q.src) => r = q
  BY <1>1, FreshTable
<1> QED
  BY <1>3, <1>4, <1>5, <1>6, <1>7, <1>8
  DEF BufferInv, BufferTypeOK, WithinCapacity, RowsIdentified

\* One new row with the next id is fresh.
LEMMA EnqueueFresh ==
  ASSUME BufferInv, NEW s \in Source, Enqueue(s)
  PROVE  LET N == {[id |-> nextId, src |-> s]}
         IN  FreshRows(N) /\ Insert(N)
<1> DEFINE row == [id |-> nextId, src |-> s]
<1>1. nextId \in Nat
  BY DEF BufferInv, BufferTypeOK
<1>2. IsFiniteSet({row}) /\ Cardinality({row}) = 1
  BY FS_Singleton
<1>3. row \in Row
  BY <1>1 DEF Row
<1>4. row.id \in nextId .. nextId + 1 - 1
  BY <1>1
<1>5. \A q \in Rows : row.src # q.src
  BY DEF Enqueue, Sources
<1> QED
  BY <1>2, <1>3, <1>4, <1>5 DEF FreshRows, Enqueue

\* Numbering distinct sources one-to-one gives fresh rows.
LEMMA EnqueueManyFresh ==
  ASSUME BufferInv, NEW bunch \in SUBSET Source, IsFiniteSet(bunch),
         EnqueueMany(bunch)
  PROVE  \E N : FreshRows(N) /\ Insert(N)
<1> DEFINE fresh == bunch \ Sources(Rows)
           ids == nextId .. nextId + Cardinality(fresh) - 1
<1>1. PICK order \in [fresh -> ids] :
        /\ \A s, t \in fresh : order[s] = order[t] => s = t
        /\ Insert({[id |-> order[s], src |-> s] : s \in fresh})
  BY DEF EnqueueMany
<1> DEFINE N == {[id |-> order[s], src |-> s] : s \in fresh}
           number == [s \in fresh |-> [id |-> order[s], src |-> s]]
<1>2. IsFiniteSet(fresh) /\ Cardinality(fresh) \in Nat /\ nextId \in Nat
  BY FS_Difference, FS_CardinalityType DEF BufferInv, BufferTypeOK
<1>3. number \in Bijection(fresh, N)
  <2>1. number \in [fresh -> N]
    OBVIOUS
  <2>2. \A s, t \in fresh : number[s] = number[t] => s = t
    OBVIOUS
  <2>3. \A r \in N : \E s \in fresh : number[s] = r
    OBVIOUS
  <2> QED
    BY <2>1, <2>2, <2>3 DEF Bijection, Injection, Surjection, IsInjective
<1>4. IsFiniteSet(N) /\ Cardinality(N) = Cardinality(fresh)
  BY <1>2, <1>3, FS_Bijection DEF ExistsBijection
<1>5. \A s \in fresh : order[s] \in Nat /\ order[s] \in ids
  <2>1. \A s \in fresh : order[s] \in ids
    OBVIOUS
  <2>2. ids \subseteq Nat
    BY <1>2
  <2> HIDE DEF ids, fresh
  <2> QED
    BY <2>1, <2>2
<1>6. N \subseteq Row
  BY <1>5 DEF Row
<1>7. \A r \in N : r.id \in ids
  BY <1>5
<1>8. \A r, q \in N : (r.id = q.id \/ r.src = q.src) => r = q
  BY <1>1
<1>9. \A r \in N, q \in Rows : r.src # q.src
  BY DEF Sources
<1>10. FreshRows(N)
  BY <1>4, <1>6, <1>7, <1>8, <1>9 DEF FreshRows
<1> QED
  BY <1>1, <1>10
-----------------------------------------------------------------------------
(***************************************************************************)
(* The other operations only move or delete rows.                          *)
(***************************************************************************)
LEMMA ShrinkInv ==
  ASSUME BufferInv, nextId' = nextId,
         ready' \subseteq Rows, inflight' \subseteq Rows,
         ready' \cap inflight' = {}
  PROVE  BufferInv'
<1>1. Rows' \subseteq Rows
  BY DEF Rows
<1>2. /\ IsFiniteSet(Rows) /\ Cardinality(Rows) <= MaxEvents
      /\ Cardinality(Rows) \in Nat /\ MaxEvents \in Nat
  BY FS_CardinalityType, BufferAssumption
  DEF BufferInv, BufferTypeOK, WithinCapacity
<1>3. IsFiniteSet(Rows') /\ Cardinality(Rows') <= Cardinality(Rows)
  BY <1>1, <1>2, FS_Subset
<1>4. Cardinality(Rows') <= MaxEvents
  BY <1>2, <1>3, FS_CardinalityType
<1>5. ready' \subseteq Row /\ inflight' \subseteq Row
  BY DEF BufferInv, BufferTypeOK, Rows
<1>6. nextId' \in Nat \ {0} /\ \A r \in Rows' : r.id \in 1 .. nextId' - 1
  BY <1>1 DEF BufferInv, BufferTypeOK
<1>7. \A r, q \in Rows' : (r.id = q.id \/ r.src = q.src) => r = q
  BY <1>1 DEF BufferInv, RowsIdentified
<1> QED
  BY <1>3, <1>4, <1>5, <1>6, <1>7
  DEF BufferInv, BufferTypeOK, WithinCapacity, RowsIdentified

\* claim, ack, nack and reset_in_flight preserve the invariant.
LEMMA MoveInv ==
  ASSUME BufferInv,
         \/ \E limit : Claim(limit)
         \/ \E ids : Ack(ids) \/ Nack(ids)
         \/ ResetInFlight
  PROVE  BufferInv'
<1>1. ready \cap inflight = {}
  BY DEF BufferInv, RowsIdentified
<1>2. /\ ready' \subseteq Rows /\ inflight' \subseteq Rows
      /\ ready' \cap inflight' = {} /\ nextId' = nextId
  <2>1. ASSUME NEW limit, Claim(limit) PROVE <1>2
    BY <1>1, <2>1 DEF Claim, Oldest, Rows
  <2>2. ASSUME NEW ids, Ack(ids) PROVE <1>2
    BY <1>1, <2>2 DEF Ack, Rows
  <2>3. ASSUME NEW ids, Nack(ids) PROVE <1>2
    BY <1>1, <2>3 DEF Nack, Rows
  <2>4. CASE ResetInFlight
    BY <2>4 DEF ResetInFlight, Rows
  <2> QED
    BY <2>1, <2>2, <2>3, <2>4
<1> QED
  BY <1>2, ShrinkInv
-----------------------------------------------------------------------------
(***************************************************************************)
(* The theorems.                                                           *)
(***************************************************************************)
LEMMA BufferInitInv == BufferInit => BufferInv
<1> HAVE BufferInit
<1>1. Rows = {} /\ IsFiniteSet({}) /\ Cardinality({}) = 0
  BY FS_EmptySet DEF BufferInit, Rows
<1> QED
  BY <1>1, BufferAssumption
  DEF BufferInit, BufferInv, BufferTypeOK, WithinCapacity, RowsIdentified

LEMMA BufferStepInv ==
  ASSUME BufferInv, [BufferNext]_bufferVars
  PROVE  BufferInv'
<1>1. ASSUME NEW s \in Source, Enqueue(s) PROVE BufferInv'
  BY <1>1, EnqueueFresh, InsertInv
<1>2. ASSUME NEW bunch \in SUBSET Source, IsFiniteSet(bunch),
             EnqueueMany(bunch)
      PROVE  BufferInv'
  BY <1>2, EnqueueManyFresh, InsertInv
<1>3. ASSUME NEW limit, Claim(limit) PROVE BufferInv'
  BY <1>3, MoveInv
<1>4. ASSUME NEW ids, Ack(ids) \/ Nack(ids) PROVE BufferInv'
  BY <1>4, MoveInv
<1>5. CASE ResetInFlight
  BY <1>5, MoveInv
<1>6. CASE UNCHANGED bufferVars
  BY <1>6, ShrinkInv DEF bufferVars, Rows, BufferInv, RowsIdentified
<1> QED
  BY <1>1, <1>2, <1>3, <1>4, <1>5, <1>6 DEF BufferNext

\* The table is well typed, within max_events, and identified by id and source
\* after every sequence of calls (buffer.py, EventBuffer).
THEOREM BufferCorrect ==
  BufferSpec => [](BufferTypeOK /\ WithinCapacity /\ RowsIdentified)
<1>1. BufferInit => BufferInv
  BY BufferInitInv
<1>2. BufferInv /\ [BufferNext]_bufferVars => BufferInv'
  BY BufferStepInv
<1>3. BufferInv => BufferTypeOK /\ WithinCapacity /\ RowsIdentified
  BY DEF BufferInv
<1> QED
  BY <1>1, <1>2, <1>3, PTL DEF BufferSpec

\* Fresh rows use up the ids that are issued to them.
LEMMA FreshIds ==
  ASSUME BufferInv, NEW N, FreshRows(N)
  PROVE  Ids(N) = nextId .. nextId + Cardinality(N) - 1
<1> DEFINE n == Cardinality(N)
           ids == nextId .. nextId + n - 1
           idOf == [r \in N |-> r.id]
<1>1. n \in Nat /\ nextId \in Nat
  BY FS_CardinalityType DEF FreshRows, BufferInv, BufferTypeOK
<1>2. idOf \in Injection(N, ids)
  BY DEF FreshRows, Injection, IsInjective
<1>3. IsFiniteSet(ids) /\ Cardinality(ids) = n
  <2> HIDE DEF n
  <2>1. /\ IsFiniteSet(nextId .. nextId + n - 1)
        /\ Cardinality(nextId .. nextId + n - 1)
             = IF nextId > nextId + n - 1 THEN 0 ELSE nextId + n - 1 - nextId + 1
    BY <1>1, FS_Interval
  <2> QED
    BY <1>1, <2>1
<1>4. idOf \in Surjection(N, ids)
  BY <1>2, <1>3, FS_Injection
<1> QED
  BY <1>4 DEF Surjection, Ids

\* What an insert evicts is older than every row that remains.
LEMMA InsertEvictsOldest ==
  ASSUME BufferInv, NEW N, FreshRows(N), Insert(N),
         NEW i \in (Ids(Rows) \cup (nextId .. nextId' - 1)) \ Ids(Rows'),
         NEW q \in Rows'
  PROVE  i < q.id
<1> DEFINE T == Rows \cup N
<1>1. Rows' = T \ Overflow(T)
  BY DEF Insert, Rows
<1>2. Table(T)
  BY FreshTable
<1>3. Cardinality(T) - MaxEvents \in Int
  BY <1>2, FS_CardinalityType, BufferAssumption DEF Table
<1>4. PICK r \in T : r.id = i
  <2>1. nextId' = nextId + Cardinality(N)
    BY DEF Insert
  <2>2. Ids(N) = nextId .. nextId + Cardinality(N) - 1
    BY FreshIds
  <2>3. Ids(N) = nextId .. nextId' - 1
    <3>1. nextId \in Nat /\ Cardinality(N) \in Nat
      BY FS_CardinalityType DEF FreshRows, BufferInv, BufferTypeOK
    <3>2. nextId' - 1 = nextId + Cardinality(N) - 1
      BY <2>1, <3>1
    <3> QED
      BY <2>2, <3>2
  <2>4. i \in Ids(Rows) \cup Ids(N)
    BY <2>3
  <2> QED
    BY <2>4 DEF Ids
<1>5. r \in Overflow(T)
  BY <1>1, <1>4 DEF Ids
<1> QED
  BY <1>1, <1>2, <1>3, <1>4, <1>5, OldestFirst DEF Overflow

\* Eviction drops the oldest rows first (buffer.py, enqueue and enqueue_many).
THEOREM EvictionOrder == BufferSpec => EvictsOldestFirst
<1> DEFINE Gone == (Ids(Rows) \cup (nextId .. nextId' - 1)) \ Ids(Rows')
<1>1. BufferInv /\ [BufferNext]_bufferVars
        => [nextId' # nextId => \A i \in Gone, q \in Rows' : i < q.id]_bufferVars
  <2> SUFFICES ASSUME BufferInv, BufferNext, nextId' # nextId
               PROVE  \A i \in Gone, q \in Rows' : i < q.id
    OBVIOUS
  <2>1. ASSUME NEW s \in Source, Enqueue(s)
        PROVE  \E N : FreshRows(N) /\ Insert(N)
    BY <2>1, EnqueueFresh
  <2>2. ASSUME NEW bunch \in SUBSET Source, IsFiniteSet(bunch),
               EnqueueMany(bunch)
        PROVE  \E N : FreshRows(N) /\ Insert(N)
    BY <2>2, EnqueueManyFresh
  <2>3. \E N : FreshRows(N) /\ Insert(N)
    BY <2>1, <2>2 DEF BufferNext, Claim, Ack, Nack, ResetInFlight
  <2> QED
    BY <2>3, InsertEvictsOldest
<1>2. BufferSpec => []BufferInv
  BY BufferInitInv, BufferStepInv, PTL DEF BufferSpec
<1> QED
  BY <1>1, <1>2, PTL DEF BufferSpec, EvictsOldestFirst

\* Claims are FIFO: a claim leaves no ready row older than one it takes
\* (buffer.py, claim).
THEOREM ClaimOrder == BufferSpec => ClaimsInOrder
<1>1. BufferInv /\ [BufferNext]_bufferVars
        => [\A r \in inflight' \ inflight, q \in ready' : r.id < q.id]_bufferVars
  <2> SUFFICES ASSUME BufferInv, BufferNext,
                      NEW r \in inflight' \ inflight, NEW q \in ready'
               PROVE  r.id < q.id
    OBVIOUS
  <2>1. PICK limit \in Nat : Claim(limit)
    BY DEF BufferNext, Enqueue, EnqueueMany, Insert, Ack, Nack, ResetInFlight
  <2>2. Table(ready)
    <3>1. ready \subseteq Rows
      BY DEF Rows
    <3>2. IsFiniteSet(ready)
      BY <3>1, FS_Subset DEF BufferInv, BufferTypeOK
    <3> QED
      BY <3>1, <3>2 DEF Table, BufferInv, BufferTypeOK, RowsIdentified, Row
  <2>3. r \in Oldest(ready, limit) /\ q \in ready \ Oldest(ready, limit)
    BY <2>1 DEF Claim
  <2> QED
    BY <2>2, <2>3, OldestFirst
<1>2. BufferSpec => []BufferInv
  BY BufferInitInv, BufferStepInv, PTL DEF BufferSpec
<1> QED
  BY <1>1, <1>2, PTL DEF BufferSpec, ClaimsInOrder
-----------------------------------------------------------------------------
(***************************************************************************)
(* The inductive invariant.                                                *)
(***************************************************************************)

\* What a caller of claim holds is still what the table holds under those ids,
\* or is no longer in the table: an ack or a nack by id hits nothing else.
BatchesCurrent ==
  \A c \in Caller : \A r \in batch[c] :
    /\ r.id < nextId
    /\ \A q \in Rows : q.id = r.id => q = r

\* A job or a final flush that is about to ack holds events the server settled.
Settled ==
  /\ loop = "send" /\ answer["loop"] = "ok"
       => Sources(batch["loop"]) \subseteq stored
  /\ loop = "send" /\ answer["loop"] = "permanent"
       => Sources(batch["loop"]) \subseteq refused
  /\ loop = "ack" => Sources(batch["loop"]) \subseteq stored
  /\ loop = "drop" => Sources(batch["loop"]) \subseteq refused
  /\ proc = "flushing" /\ answer["final"] \in {"ok", "partial"}
       => Sources(batch["final"]) \subseteq stored \cup failed
  /\ proc = "acking" => Sources(batch["final"]) \subseteq stored \cup failed

\* Who holds no batch and waits for no answer.
Idle ==
  /\ loop \in {"claim", "gone"} => batch["loop"] = {}
  /\ proc \in {"down", "up", "draining"}
       => batch["final"] = {} /\ answer["final"] = "none"
  /\ proc = "down" => loop = "gone"
  /\ loop = "send" => proc = "up"

\* Only what collectors emitted travels.
Emitted ==
  /\ Sources(Rows) \subseteq accepted
  /\ \A c \in Caller : Sources(batch[c]) \subseteq accepted
  /\ late \subseteq accepted

DeliveryInv ==
  /\ TypeOK /\ WithinCapacity /\ RowsIdentified
  /\ BatchesCurrent /\ Settled /\ Idle /\ Emitted
  /\ NothingLost /\ InFlightOwned /\ ClaimedOnce
-----------------------------------------------------------------------------
(***************************************************************************)
(* What each operation does to the rows of the table.                      *)
(***************************************************************************)

\* An ack by the ids of a held batch deletes no row outside that batch.
LEMMA AckRows ==
  ASSUME DeliveryInv, NEW c \in Caller, Ack(Ids(batch[c]))
  PROVE  /\ ready' = ready \ batch[c] /\ inflight' = inflight \ batch[c]
         /\ nextId' = nextId
<1>1. \A q \in Rows : q.id \in Ids(batch[c]) <=> q \in batch[c]
  BY DEF DeliveryInv, BatchesCurrent, Ids
<1> QED
  BY <1>1 DEF Ack, Rows

\* A nack by the ids of a held batch requeues exactly its rows in flight.
LEMMA NackRows ==
  ASSUME DeliveryInv, NEW c \in Caller, Nack(Ids(batch[c]))
  PROVE  /\ ready' = ready \cup (inflight \cap batch[c])
         /\ inflight' = inflight \ batch[c]
         /\ Rows' = Rows /\ nextId' = nextId
<1>1. \A q \in Rows : q.id \in Ids(batch[c]) <=> q \in batch[c]
  BY DEF DeliveryInv, BatchesCurrent, Ids
<1> QED
  BY <1>1 DEF Nack, Rows

\* A claim moves rows from ready to in flight.
LEMMA ClaimRows ==
  ASSUME NEW limit, Claim(limit)
  PROVE  /\ Oldest(ready, limit) \subseteq ready
         /\ ready' = ready \ Oldest(ready, limit)
         /\ inflight' = inflight \cup Oldest(ready, limit)
         /\ Rows' = Rows /\ nextId' = nextId
BY DEF Claim, Oldest, Rows

\* An emitted event is a new row, and what it evicts is gone.
LEMMA EmitRows ==
  ASSUME BufferInv, NEW s \in Source, Enqueue(s)
  PROVE  LET row == [id |-> nextId, src |-> s]
         IN  /\ Rows' = (Rows \cup {row}) \ Overflow(Rows \cup {row})
             /\ ready' \subseteq ready \cup {row} /\ inflight' \subseteq inflight
             /\ nextId' = nextId + 1 /\ row.id = nextId /\ row.src = s
<1>1. Cardinality({[id |-> nextId, src |-> s]}) = 1
  BY FS_Singleton
<1> QED
  BY <1>1 DEF Enqueue, Insert, Rows

LEMMA SourcesMonotone ==
  ASSUME NEW R, NEW Q, R \subseteq Q
  PROVE  Sources(R) \subseteq Sources(Q)
BY DEF Sources

LEMMA SourcesUnion ==
  ASSUME NEW R, NEW Q
  PROVE  Sources(R \cup Q) = Sources(R) \cup Sources(Q)
BY DEF Sources

LEMMA SourcesTyped ==
  ASSUME NEW R \in SUBSET Row
  PROVE  Sources(R) \subseteq Source
BY DEF Sources, Row
-----------------------------------------------------------------------------
(***************************************************************************)
(* The buffer's own invariant.                                             *)
(***************************************************************************)
LEMMA DeliveryBuffer ==
  ASSUME DeliveryInv, [Next]_vars
  PROVE  BufferInv'
<1>1. BufferInv
  BY DEF DeliveryInv, TypeOK, BufferInv
<1>2. ASSUME NEW s \in Source, Emit(s) PROVE BufferInv'
  BY <1>1, <1>2, EnqueueFresh, InsertInv DEF Emit
<1>3. CASE LoopClaim \/ FinalClaim
  BY <1>1, <1>3, MoveInv DEF LoopClaim, FinalClaim
<1>4. CASE LoopAcks \/ FinalAcks \/ LoopNacks
  BY <1>1, <1>4, MoveInv DEF LoopAcks, FinalAcks, LoopNacks
<1>5. CASE Start \/ StartRefused
  BY <1>1, <1>5, MoveInv DEF Start, StartRefused
<1>6. CASE UNCHANGED bufferVars
  BY <1>1, <1>6, ShrinkInv DEF bufferVars, Rows, BufferInv, RowsIdentified
<1>7. ASSUME NEW c \in Caller,
             AnswerBatch(c) \/ AnswerPermanent(c) \/ AnswerRevoked(c)
      PROVE  UNCHANGED bufferVars
  BY <1>7 DEF AnswerBatch, AnswerPermanent, AnswerRevoked
<1>8. ASSUME \/ LateRequest \/ Revoke \/ LoopAnswered \/ LoopRevoked
             \/ LoopSendFails \/ LoopAckFails \/ LoopDies \/ Stop
             \/ FinalAnswered \/ FinalSkipped \/ FinalFails \/ Crash
             \/ UNCHANGED vars
      PROVE  UNCHANGED bufferVars
  BY <1>8 DEF LateRequest, Revoke, LoopAnswered, LoopRevoked, LoopSendFails,
              LoopAckFails, LoopDies, Stop, FinalAnswered, FinalSkipped,
              FinalFails, Crash, vars, bufferVars
<1> QED
  BY <1>2, <1>3, <1>4, <1>5, <1>6, <1>7, <1>8 DEF Next
-----------------------------------------------------------------------------
(***************************************************************************)
(* Every step preserves the invariant: one lemma for each group of actions *)
(* that touch the same state.                                              *)
(***************************************************************************)

\* The parts of the invariant beyond the buffer's own.
ProtocolInv ==
  /\ TypeOK /\ BatchesCurrent /\ Settled /\ Idle /\ Emitted
  /\ NothingLost /\ InFlightOwned /\ ClaimedOnce

\* The server's answers, late requests and revocation leave the agent alone.
LEMMA ServerStep ==
  ASSUME DeliveryInv, BufferInv',
         \/ \E c \in Caller : \/ AnswerBatch(c) \/ AnswerPermanent(c)
                              \/ AnswerRevoked(c)
         \/ LateRequest \/ Revoke
  PROVE  ProtocolInv'
<1>1. /\ Rows' = Rows /\ ready' = ready /\ inflight' = inflight
      /\ nextId' = nextId
      /\ proc' = proc /\ loop' = loop /\ batch' = batch
      /\ accepted' = accepted /\ evicted' = evicted /\ late' \subseteq late
  BY DEF AnswerBatch, AnswerPermanent, AnswerRevoked, LateRequest, Revoke,
         bufferVars, server, history, Rows
<1>2. \A c \in Caller : Sources(batch[c]) \subseteq Source
  BY SourcesTyped DEF DeliveryInv, TypeOK
<1>3. TypeOK'
  <2>1. BufferTypeOK'
    BY DEF BufferInv
  <2>2. ASSUME NEW c \in Caller,
               AnswerBatch(c) \/ AnswerPermanent(c) \/ AnswerRevoked(c)
        PROVE  TypeOK'
    BY <1>1, <1>2, <2>1, <2>2
    DEF AnswerBatch, AnswerPermanent, AnswerRevoked, DeliveryInv, TypeOK,
        server, history
  <2>3. CASE LateRequest \/ Revoke
    BY <1>1, <2>1, <2>3
    DEF LateRequest, Revoke, DeliveryInv, TypeOK, server, history
  <2> QED
    BY <2>2, <2>3
<1>4. Settled'
  <2>1. ASSUME NEW c \in Caller, AnswerBatch(c)
        PROVE  Settled'
    BY <1>1, <2>1 
    DEF AnswerBatch, DeliveryInv, TypeOK, Settled, Sending, Caller, server, history
  <2>2. ASSUME NEW c \in Caller, AnswerPermanent(c) \/ AnswerRevoked(c)
        PROVE  Settled'
    BY <1>1, <2>2
    DEF AnswerPermanent, AnswerRevoked, DeliveryInv, TypeOK, Settled, Sending,
        Caller, server, history
  <2>3. CASE LateRequest \/ Revoke
    BY <1>1, <2>3 DEF LateRequest, Revoke, DeliveryInv, Settled, history, server
  <2> QED
    BY <2>1, <2>2, <2>3
<1>5. Idle'
  BY <1>1 DEF AnswerBatch, AnswerPermanent, AnswerRevoked, LateRequest, Revoke,
              DeliveryInv, Idle, TypeOK, Sending, Caller
<1>6. NothingLost'
  <2>1. /\ stored \subseteq stored' /\ refused \subseteq refused'
        /\ failed \subseteq failed'
    BY DEF AnswerBatch, AnswerPermanent, AnswerRevoked, LateRequest, Revoke,
           server, history
  <2> QED
    BY <1>1, <2>1 DEF DeliveryInv, NothingLost
<1> QED
  BY <1>1, <1>3, <1>4, <1>5, <1>6
  DEF ProtocolInv, DeliveryInv, BatchesCurrent, Emitted, InFlightOwned,
      ClaimedOnce

\* Steps of the flusher and of run() that only hand a batch on or give it up.
LEMMA HandOverStep ==
  ASSUME DeliveryInv, BufferInv',
         \/ LoopAnswered \/ LoopRevoked \/ LoopSendFails \/ LoopAckFails
         \/ LoopDies \/ Stop \/ FinalAnswered
  PROVE  ProtocolInv'
<1>1. /\ Rows' = Rows /\ ready' = ready /\ inflight' = inflight
      /\ nextId' = nextId
      /\ revoked' = revoked /\ stored' = stored /\ accepted' = accepted
      /\ evicted' = evicted /\ refused' = refused /\ failed' = failed
  BY DEF LoopAnswered, LoopRevoked, LoopSendFails, LoopAckFails, LoopDies,
         Stop, FinalAnswered, bufferVars, server, history, Rows
<1>2. \A c \in Caller : batch'[c] \in {batch[c], {}}
  BY DEF LoopAnswered, LoopRevoked, LoopSendFails, LoopAckFails, LoopDies,
         Stop, FinalAnswered, LoopGoto, DeliveryInv, TypeOK, Caller
<1>3. \A c \in Caller : Unanswered(c) \subseteq Sources(batch[c])
  BY DEF Unanswered
<1>4. \A c \in Caller : Sources(batch[c]) \subseteq Source \cap accepted
  BY SourcesTyped DEF DeliveryInv, TypeOK, Emitted
<1>5. late' \subseteq late \cup Unanswered("loop")
  BY DEF LoopAnswered, LoopRevoked, LoopSendFails, LoopAckFails, LoopDies,
         Stop, FinalAnswered
<1>6. late' \subseteq Source \cap accepted
  BY <1>3, <1>4, <1>5 DEF DeliveryInv, TypeOK, Emitted, Caller
<1>7. TypeOK'
  <2>1. BufferTypeOK'
    BY DEF BufferInv
  <2>2. /\ proc' \in {"down", "up", "draining", "flushing", "acking"}
        /\ loop' \in {"claim", "send", "ack", "drop", "nack", "gone"}
        /\ batch' \in [Caller -> SUBSET Row]
        /\ answer' \in [Caller -> {"none", "ok", "partial", "permanent",
                                   "revoked"}]
    BY DEF LoopAnswered, LoopRevoked, LoopSendFails, LoopAckFails, LoopDies,
           Stop, FinalAnswered, LoopGoto, JobAfter, DeliveryInv, TypeOK, Caller
  <2> QED
    BY <1>1, <1>6, <2>1, <2>2 DEF DeliveryInv, TypeOK
<1>8. BatchesCurrent'
  BY <1>1, <1>2 DEF DeliveryInv, BatchesCurrent
<1>9. Settled'
  <2>1. CASE LoopAnswered
    BY <1>1, <2>1 DEF LoopAnswered, LoopGoto, JobAfter, DeliveryInv, TypeOK,
                      Settled, Caller
  <2>2. CASE LoopRevoked \/ LoopSendFails \/ LoopAckFails \/ LoopDies
    BY <1>1, <2>2 DEF LoopRevoked, LoopSendFails, LoopAckFails, LoopDies,
                      LoopGoto, DeliveryInv, TypeOK, Settled, Caller
  <2>3. CASE Stop \/ FinalAnswered
    BY <1>1, <2>3 DEF Stop, FinalAnswered, DeliveryInv, TypeOK, Settled, Caller
  <2> QED
    BY <2>1, <2>2, <2>3
<1>10. Idle'
  BY DEF LoopAnswered, LoopRevoked, LoopSendFails, LoopAckFails, LoopDies,
         Stop, FinalAnswered, LoopGoto, JobAfter, DeliveryInv, TypeOK, Idle,
         Caller
<1>11. Emitted'
  <2>1. \A c \in Caller : Sources(batch'[c]) \subseteq accepted
    BY <1>2, <1>4 DEF Sources
  <2> QED
    BY <1>1, <1>6, <2>1 DEF DeliveryInv, Emitted
<1>12. InFlightOwned'
  BY <1>1 DEF LoopAnswered, LoopRevoked, LoopSendFails, LoopAckFails, LoopDies,
              Stop, FinalAnswered, LoopGoto, JobAfter, DeliveryInv, TypeOK,
              InFlightOwned, Caller
<1>13. ClaimedOnce'
  BY <1>1, <1>2 DEF DeliveryInv, ClaimedOnce, Caller
<1> QED
  BY <1>1, <1>7, <1>8, <1>9, <1>10, <1>11, <1>12, <1>13
  DEF ProtocolInv, DeliveryInv, NothingLost

\* The flusher and the final flush claim a batch.
LEMMA ClaimStep ==
  ASSUME DeliveryInv, BufferInv', LoopClaim \/ FinalClaim
  PROVE  ProtocolInv'
<1> DEFINE claimed == Oldest(ready, BatchMax)
<1>1. /\ claimed \subseteq ready /\ Rows' = Rows /\ nextId' = nextId
      /\ ready' = ready \ claimed /\ inflight' = inflight \cup claimed
  BY ClaimRows DEF LoopClaim, FinalClaim
<1>2. /\ late' = late /\ revoked' = revoked /\ stored' = stored
      /\ accepted' = accepted /\ evicted' = evicted /\ refused' = refused
      /\ failed' = failed
  BY DEF LoopClaim, FinalClaim, server, history
<1>3. \E c \in Caller : \E B \in {claimed, {}} : batch' = [batch EXCEPT ![c] = B]
  BY DEF LoopClaim, FinalClaim, LoopGoto, Caller
<1>4. claimed \subseteq Row /\ claimed \subseteq Rows
  BY <1>1 DEF DeliveryInv, TypeOK, BufferTypeOK, Rows
<1> HIDE DEF claimed
<1>5. batch' \in [Caller -> SUBSET Row]
  BY <1>3, <1>4 DEF DeliveryInv, TypeOK
<1>6. TypeOK'
  <2>1. BufferTypeOK'
    BY DEF BufferInv
  <2>2. /\ proc' \in {"down", "up", "draining", "flushing", "acking"}
        /\ loop' \in {"claim", "send", "ack", "drop", "nack", "gone"}
        /\ answer' \in [Caller -> {"none", "ok", "partial", "permanent",
                                   "revoked"}]
    BY DEF LoopClaim, FinalClaim, LoopGoto, DeliveryInv, TypeOK, Caller
  <2> QED
    BY <1>2, <1>5, <2>1, <2>2 DEF DeliveryInv, TypeOK
<1>7. BatchesCurrent'
  <2>1. \A r \in claimed : /\ r.id < nextId
                           /\ \A q \in Rows : q.id = r.id => q = r
    BY <1>4 DEF DeliveryInv, TypeOK, BufferTypeOK, RowsIdentified
  <2>2. \A c \in Caller : batch'[c] \subseteq batch[c] \cup claimed
    BY <1>3 DEF DeliveryInv, TypeOK
  <2> QED
    BY <1>1, <2>1, <2>2 DEF DeliveryInv, BatchesCurrent
<1>8. Settled'
  BY <1>2 DEF LoopClaim, FinalClaim, LoopGoto, DeliveryInv, TypeOK, Settled,
              Idle, Caller
<1>9. Idle'
  BY DEF LoopClaim, FinalClaim, LoopGoto, DeliveryInv, TypeOK, Idle, Caller
<1>10. Emitted'
  <2>1. Sources(claimed) \subseteq accepted
    BY <1>4, SourcesMonotone DEF DeliveryInv, Emitted
  <2>2. \A c \in Caller : Sources(batch'[c]) \subseteq accepted
    BY <1>3, <2>1 DEF DeliveryInv, TypeOK, Emitted, Sources
  <2> QED
    BY <1>1, <1>2, <2>2 DEF DeliveryInv, Emitted
<1>11. InFlightOwned'
  BY <1>1 DEF LoopClaim, FinalClaim, LoopGoto, DeliveryInv, TypeOK, Idle,
              InFlightOwned, Caller, claimed
<1>12. ClaimedOnce'
  BY <1>1, <1>3 DEF DeliveryInv, TypeOK, ClaimedOnce, Caller
<1>13. NothingLost'
  BY <1>1, <1>2 DEF DeliveryInv, NothingLost
<1> QED
  BY <1>6, <1>7, <1>8, <1>9, <1>10, <1>11, <1>12, <1>13 DEF ProtocolInv

\* A collector emits an event, which may evict rows of any batch.
LEMMA EmitStep ==
  ASSUME DeliveryInv, BufferInv', NEW s \in Source, Emit(s)
  PROVE  ProtocolInv'
<1> DEFINE row == [id |-> nextId, src |-> s]
           Kept == (Rows \cup {row}) \ Overflow(Rows \cup {row})
<1>1. /\ proc' = proc /\ loop' = loop /\ batch' = batch /\ answer' = answer
      /\ late' = late /\ revoked' = revoked /\ stored' = stored
      /\ accepted' = accepted \cup {s} /\ refused' = refused /\ failed' = failed
      /\ evicted' = evicted \cup ((Sources(Rows) \cup {s}) \ Sources(Rows'))
  BY DEF Emit, server
<1>2. /\ Rows' = Kept /\ ready' \subseteq ready \cup {row}
      /\ inflight' \subseteq inflight
      /\ nextId' = nextId + 1 /\ nextId \in Nat /\ row.id = nextId /\ row.src = s
  BY EmitRows DEF Emit, DeliveryInv, TypeOK, BufferTypeOK, BufferInv
<1>3. Rows' \subseteq Rows \cup {row}
  BY <1>2
<1> HIDE DEF row, Kept
<1>4. \A c \in Caller : \A r \in batch[c] : r.id \in Nat /\ r.id < nextId /\ r # row
  BY <1>2 DEF DeliveryInv, TypeOK, BatchesCurrent, Row
<1>5. TypeOK'
  <2>1. BufferTypeOK'
    BY DEF BufferInv
  <2>2. Sources(Rows) \subseteq Source
    BY SourcesTyped DEF DeliveryInv, TypeOK, BufferTypeOK, Rows
  <2> QED
    BY <1>1, <2>1, <2>2 DEF DeliveryInv, TypeOK
<1>6. BatchesCurrent'
  <2> SUFFICES ASSUME NEW c \in Caller, NEW r \in batch[c]
               PROVE  r.id < nextId' /\ \A q \in Rows' : q.id = r.id => q = r
    BY <1>1 DEF BatchesCurrent
  <2>1. r.id < nextId'
    BY <1>2, <1>4
  <2>2. ASSUME NEW q \in Rows', q.id = r.id PROVE q = r
    <3>1. q # row
      BY <2>2, <1>2, <1>4
    <3>2. q \in Rows
      BY <1>3, <3>1
    <3> QED
      BY <2>2, <3>2 DEF DeliveryInv, BatchesCurrent
  <2> QED
    BY <2>1, <2>2
<1>7. Sources(Rows') \subseteq Sources(Rows) \cup {s}
  BY <1>2, <1>3 DEF Sources
<1>8. Emitted'
  BY <1>1, <1>7 DEF DeliveryInv, Emitted
<1>9. NothingLost'
  BY <1>1 DEF DeliveryInv, NothingLost
<1>10. ClaimedOnce'
  BY <1>1, <1>2, <1>4 DEF DeliveryInv, ClaimedOnce, Caller
<1>11. Settled' /\ Idle' /\ InFlightOwned'
  BY <1>1, <1>2 DEF DeliveryInv, Settled, Idle, InFlightOwned
<1> QED
  BY <1>5, <1>6, <1>8, <1>9, <1>10, <1>11 DEF ProtocolInv

\* The flusher's next ack or nack job runs, or its last one after a stop.
LEMMA LoopJobStep ==
  ASSUME DeliveryInv, BufferInv', LoopAcks \/ LoopNacks
  PROVE  ProtocolInv'
<1> DEFINE B == batch["loop"]
<1>1. /\ inflight' = inflight \ B /\ nextId' = nextId
      /\ ready' \subseteq ready \cup (inflight \cap B)
      /\ Rows \ B \subseteq Rows' /\ Rows' \subseteq Rows
  <2>1. CASE LoopAcks
    BY <2>1, AckRows DEF LoopAcks, Caller, Rows
  <2>2. CASE LoopNacks
    BY <2>2, NackRows DEF LoopNacks, Caller
  <2> QED
    BY <2>1, <2>2
<1>2. LoopNacks => Rows' = Rows
  BY NackRows DEF LoopNacks, Caller
<1>3. /\ proc' = proc /\ late' = late /\ revoked' = revoked /\ stored' = stored
      /\ accepted' = accepted /\ evicted' = evicted /\ refused' = refused
      /\ failed' = failed
  BY DEF LoopAcks, LoopNacks, server, history
<1>4. /\ batch' = [batch EXCEPT !["loop"] = {}]
      /\ answer' = [answer EXCEPT !["loop"] = "none"]
      /\ loop' = IF proc = "up" THEN "claim" ELSE "gone"
  BY DEF LoopAcks, LoopNacks, LoopGoto
<1>5. TypeOK'
  <2>1. BufferTypeOK'
    BY DEF BufferInv
  <2> QED
    BY <2>1, <1>3, <1>4 DEF DeliveryInv, TypeOK
<1>6. \A c \in Caller : batch'[c] \in {batch[c], {}}
  BY <1>4 DEF DeliveryInv, TypeOK
<1>7. BatchesCurrent'
  BY <1>1, <1>6 DEF DeliveryInv, BatchesCurrent
<1>8. Settled' /\ Idle'
  BY <1>3, <1>4 DEF DeliveryInv, TypeOK, Settled, Idle, Caller
<1>9. Emitted'
  <2>1. Sources(Rows') \subseteq Sources(Rows)
    BY <1>1, SourcesMonotone
  <2>2. \A c \in Caller : Sources(batch'[c]) \subseteq accepted
    BY <1>6 DEF Sources, DeliveryInv, Emitted
  <2> QED
    BY <1>3, <2>1, <2>2 DEF DeliveryInv, Emitted
<1>10. NothingLost'
  <2>1. Sources(Rows) \subseteq Sources(Rows') \cup Sources(B)
    BY <1>1 DEF Sources
  <2>2. CASE LoopAcks
    BY <2>1, <2>2, <1>3 DEF LoopAcks, DeliveryInv, Settled, NothingLost
  <2>3. CASE LoopNacks
    BY <2>3, <1>2, <1>3 DEF DeliveryInv, NothingLost
  <2> QED
    BY <2>2, <2>3
<1>11. InFlightOwned'
  BY <1>1, <1>3, <1>4
  DEF LoopAcks, LoopNacks, DeliveryInv, TypeOK, InFlightOwned, Caller
<1>12. ClaimedOnce'
  BY <1>1, <1>4 DEF DeliveryInv, TypeOK, ClaimedOnce, Caller
<1> QED
  BY <1>5, <1>7, <1>8, <1>9, <1>10, <1>11, <1>12 DEF ProtocolInv

\* The process starts, or finds itself revoked and stays down.
LEMMA StartStep ==
  ASSUME DeliveryInv, BufferInv', Start \/ StartRefused
  PROVE  ProtocolInv'
<1>1. /\ Rows' = Rows /\ inflight' = {} /\ nextId' = nextId
      /\ batch' = batch /\ answer' = answer /\ late' = late
      /\ revoked' = revoked /\ stored' = stored /\ accepted' = accepted
      /\ evicted' = evicted /\ refused' = refused /\ failed' = failed
  BY DEF Start, StartRefused, ResetInFlight, Rows, server, history
<1>2. \A c \in Caller : batch[c] = {}
  BY DEF Start, StartRefused, DeliveryInv, Idle, Caller
<1>3. TypeOK'
  BY <1>1 DEF Start, StartRefused, DeliveryInv, TypeOK, BufferInv
<1>4. Settled' /\ Idle'
  BY <1>1 DEF Start, StartRefused, DeliveryInv, Settled, Idle
<1> QED
  BY <1>1, <1>2, <1>3, <1>4
  DEF ProtocolInv, DeliveryInv, BatchesCurrent, Emitted, NothingLost,
      InFlightOwned, ClaimedOnce, Caller

\* The process ends: after a final flush, after one that failed, or killed.
LEMMA ExitStep ==
  ASSUME DeliveryInv, BufferInv',
         FinalAcks \/ FinalSkipped \/ FinalFails \/ Crash
  PROVE  ProtocolInv'
<1>1. Exit
  BY DEF FinalAcks, FinalSkipped, FinalFails, Crash
<1>2. /\ revoked' = revoked /\ stored' = stored /\ accepted' = accepted
      /\ evicted' = evicted /\ refused' = refused /\ failed' = failed
      /\ proc' = "down" /\ loop' = "gone"
      /\ batch' = [c \in Caller |-> {}] /\ answer' = [c \in Caller |-> "none"]
  BY <1>1 DEF Exit, server, history
<1>3. /\ Rows' \subseteq Rows
      /\ Sources(Rows) \subseteq Sources(Rows') \cup stored \cup failed
  <2>1. CASE FinalAcks
    <3>1. Rows' = Rows \ batch["final"]
      BY <2>1, AckRows DEF FinalAcks, Caller, Rows
    <3>2. Sources(Rows) \subseteq Sources(Rows') \cup Sources(batch["final"])
      BY <3>1 DEF Sources
    <3> QED
      BY <2>1, <3>1, <3>2 DEF FinalAcks, DeliveryInv, Settled
  <2>2. CASE FinalSkipped \/ FinalFails \/ Crash
    BY <2>2 DEF FinalSkipped, FinalFails, Crash, bufferVars, Rows
  <2> QED
    BY <2>1, <2>2
<1>4. late' \subseteq Source \cap accepted
  <2>1. \A c \in Caller : Sources(batch[c]) \subseteq Source \cap accepted
    BY SourcesTyped DEF DeliveryInv, TypeOK, Emitted
  <2>2. \A c \in Caller : Unanswered(c) \subseteq Source \cap accepted
    BY <2>1 DEF Unanswered
  <2> QED
    BY <1>1, <2>2 DEF Exit, DeliveryInv, TypeOK, Emitted, Caller
<1>5. TypeOK'
  <2>1. BufferTypeOK'
    BY DEF BufferInv
  <2> QED
    BY <2>1, <1>2, <1>4 DEF DeliveryInv, TypeOK
<1>6. Emitted'
  <2>1. Sources(Rows') \subseteq Sources(Rows) /\ Sources({}) = {}
    BY <1>3 DEF Sources
  <2> QED
    BY <2>1, <1>2, <1>4 DEF DeliveryInv, Emitted
<1>7. NothingLost'
  BY <1>2, <1>3 DEF DeliveryInv, NothingLost
<1> QED
  BY <1>2, <1>5, <1>6, <1>7
  DEF ProtocolInv, BatchesCurrent, Settled, Idle, InFlightOwned, ClaimedOnce,
      Caller
-----------------------------------------------------------------------------
(***************************************************************************)
(* The safety theorems.                                                    *)
(***************************************************************************)
LEMMA DeliveryInitInv == Init => DeliveryInv
<1> HAVE Init
<1>1. BufferInv
  BY BufferInitInv DEF Init
<1>2. Rows = {} /\ Sources({}) = {}
  BY DEF Init, BufferInit, Rows, Sources
<1>3. TypeOK
  BY <1>1 DEF Init, TypeOK, BufferInv, Caller
<1>4. BatchesCurrent /\ Settled /\ Idle
  BY DEF Init, BatchesCurrent, Settled, Idle, Caller
<1>5. Emitted /\ NothingLost /\ InFlightOwned /\ ClaimedOnce
  BY <1>2 DEF Init, BufferInit, Emitted, NothingLost, InFlightOwned,
              ClaimedOnce, Caller
<1> QED
  BY <1>1, <1>3, <1>4, <1>5 DEF DeliveryInv, BufferInv

LEMMA DeliveryStepInv ==
  ASSUME DeliveryInv, [Next]_vars
  PROVE  DeliveryInv'
<1>1. BufferInv'
  BY DeliveryBuffer
<1>2. ASSUME NEW s \in Source, Emit(s) PROVE ProtocolInv'
  BY <1>1, <1>2, EmitStep
<1>3. ASSUME \/ \E c \in Caller : \/ AnswerBatch(c) \/ AnswerPermanent(c)
                                  \/ AnswerRevoked(c)
             \/ LateRequest \/ Revoke
      PROVE  ProtocolInv'
  BY <1>1, <1>3, ServerStep
<1>4. ASSUME \/ LoopAnswered \/ LoopRevoked \/ LoopSendFails \/ LoopAckFails
             \/ LoopDies \/ Stop \/ FinalAnswered
      PROVE  ProtocolInv'
  BY <1>1, <1>4, HandOverStep
<1>5. ASSUME LoopClaim \/ FinalClaim PROVE ProtocolInv'
  BY <1>1, <1>5, ClaimStep
<1>6. ASSUME LoopAcks \/ LoopNacks PROVE ProtocolInv'
  BY <1>1, <1>6, LoopJobStep
<1>7. ASSUME Start \/ StartRefused PROVE ProtocolInv'
  BY <1>1, <1>7, StartStep
<1>8. ASSUME FinalAcks \/ FinalSkipped \/ FinalFails \/ Crash PROVE ProtocolInv'
  BY <1>1, <1>8, ExitStep
<1>9. CASE UNCHANGED vars
  BY <1>9 DEF vars, DeliveryInv, TypeOK, BufferTypeOK, WithinCapacity,
              RowsIdentified, BatchesCurrent, Settled, Idle, Emitted,
              NothingLost, InFlightOwned, ClaimedOnce, Rows, Sources
<1>10. ProtocolInv' => DeliveryInv'
  BY <1>1 DEF ProtocolInv, DeliveryInv, BufferInv
<1> QED
  BY <1>2, <1>3, <1>4, <1>5, <1>6, <1>7, <1>8, <1>9, <1>10 DEF Next

LEMMA DeliveryInductive == Spec => []DeliveryInv
BY DeliveryInitInv, DeliveryStepInv, PTL DEF Spec

\* The agent's state and the buffer stay well typed (service.py, buffer.py).
THEOREM DeliveryTyped == Spec => []TypeOK
BY DeliveryInductive, PTL DEF DeliveryInv

\* No event is lost silently by a crash, a restart, a cancelled task, a lost
\* answer or a stale ack (service.py, _flusher_loop and the final flush).
THEOREM NoSilentLoss == Spec => []NothingLost
BY DeliveryInductive, PTL DEF DeliveryInv

\* While the flusher lives it holds every row in flight: none is stranded by an
\* earlier run or a cancelled job (service.py, reset_in_flight at startup).
THEOREM NoStrandedRow == Spec => []InFlightOwned
BY DeliveryInductive, PTL DEF DeliveryInv

\* No row is worked on by the flusher's last job and the final flush at once.
THEOREM NoDoubleClaim == Spec => []ClaimedOnce
BY DeliveryInductive, PTL DEF DeliveryInv
-----------------------------------------------------------------------------
(***************************************************************************)
(* The service is a client of the buffer like any other: what holds of the *)
(* buffer under any mix of calls holds of it here.                         *)
(***************************************************************************)
LEMMA DeliveryStepsBuffer ==
  ASSUME DeliveryInv, [Next]_vars
  PROVE  [BufferNext]_bufferVars
<1>1. ASSUME NEW s \in Source, Emit(s) PROVE BufferNext
  BY <1>1 DEF Emit, BufferNext
<1>2. CASE LoopClaim \/ FinalClaim
  <2>1. Claim(BatchMax) /\ BatchMax \in Nat
    BY <1>2, DeliveryAssumption DEF LoopClaim, FinalClaim
  <2> QED
    BY <2>1 DEF BufferNext
<1>3. ASSUME NEW c \in Caller PROVE Ids(batch[c]) \in SUBSET Nat
  <2>1. batch[c] \subseteq Row
    BY DEF DeliveryInv, TypeOK
  <2> QED
    BY <2>1 DEF Ids, Row
<1>4. CASE LoopAcks \/ FinalAcks \/ LoopNacks
  <2>1. PICK c \in Caller : Ack(Ids(batch[c])) \/ Nack(Ids(batch[c]))
    BY <1>4 DEF LoopAcks, FinalAcks, LoopNacks, Caller
  <2> QED
    BY <1>3, <2>1 DEF BufferNext
<1>5. CASE Start \/ StartRefused
  BY <1>5 DEF Start, StartRefused, BufferNext
<1>6. ASSUME NEW c \in Caller,
             AnswerBatch(c) \/ AnswerPermanent(c) \/ AnswerRevoked(c)
      PROVE  UNCHANGED bufferVars
  BY <1>6 DEF AnswerBatch, AnswerPermanent, AnswerRevoked
<1>7. ASSUME \/ LateRequest \/ Revoke \/ LoopAnswered \/ LoopRevoked
             \/ LoopSendFails \/ LoopAckFails \/ LoopDies \/ Stop
             \/ FinalAnswered \/ FinalSkipped \/ FinalFails \/ Crash
             \/ UNCHANGED vars
      PROVE  UNCHANGED bufferVars
  BY <1>7 DEF LateRequest, Revoke, LoopAnswered, LoopRevoked, LoopSendFails,
              LoopAckFails, LoopDies, Stop, FinalAnswered, FinalSkipped,
              FinalFails, Crash, vars, bufferVars
<1> QED
  BY <1>1, <1>2, <1>4, <1>5, <1>6, <1>7 DEF Next

\* Collectors, flusher, final flush and restarts only ever call the buffer's
\* methods (service.py, buffer.py): a batch they hold names ids, never rows.
THEOREM DeliveryUsesBuffer == Spec => BufferSpec
<1>1. Init => BufferInit
  BY DEF Init, BufferInit
<1> QED
  BY <1>1, DeliveryInductive, DeliveryStepsBuffer, PTL DEF Spec, BufferSpec

\* The buffer never holds more than max_events rows while the agent runs
\* (buffer.py:111, in enqueue and enqueue_many).
THEOREM AgentWithinCapacity == Spec => []WithinCapacity
BY DeliveryUsesBuffer, BufferCorrect, PTL

\* An ack or a nack, however stale, hits the rows that were claimed and no
\* others, whatever was evicted and emitted again since (buffer.py, ack).
THEOREM AgentRowsIdentified == Spec => []RowsIdentified
BY DeliveryUsesBuffer, BufferCorrect, PTL

\* Whatever the agent's inserts evict is older than all that stays.
THEOREM AgentEvictsOldest == Spec => EvictsOldestFirst
BY DeliveryUsesBuffer, EvictionOrder, PTL

\* Whatever flusher and final flush claim is older than all they leave.
THEOREM AgentClaimsInOrder == Spec => ClaimsInOrder
BY DeliveryUsesBuffer, ClaimOrder, PTL
-----------------------------------------------------------------------------
(***************************************************************************)
(* The refinement of Delivery.                                             *)
(***************************************************************************)

\* An eviction that removes anything leaves exactly max_events rows.
LEMMA EvictionExact ==
  ASSUME NEW T, Table(T), Overflow(T) # {}
  PROVE  Cardinality(T \ Overflow(T)) = MaxEvents
<1> DEFINE card == Cardinality(T)
           gone == Oldest(T, card - MaxEvents)
<1>1. card \in Nat /\ MaxEvents \in Nat /\ IsFiniteSet(T)
  BY FS_CardinalityType, BufferAssumption DEF Table
<1>2. gone \subseteq T /\ T \cap gone = gone
  BY DEF Oldest
<1>3. Cardinality(T \ gone) = card - Cardinality(gone)
  BY <1>1, <1>2, FS_Difference
<1>4. card - MaxEvents \in 0 .. card
  <2>1. PICK r \in gone : TRUE
    BY DEF Overflow
  <2>2. Rank(T, r) < card - MaxEvents
    BY <2>1 DEF Oldest, Rank
  <2>3. Rank(T, r) \in 0 .. card - 1
    BY <1>2, <2>1, RankOrder
  <2> HIDE DEF card, gone
  <2> QED
    BY <1>1, <2>2, <2>3
<1>5. Cardinality(gone) = card - MaxEvents
  BY <1>4, OldestCardinality
<1> HIDE DEF card, gone
<1>6. Cardinality(T \ gone) = MaxEvents
  BY <1>1, <1>3, <1>5
<1> QED
  BY <1>6 DEF Overflow, card, gone

\* Identified rows are as many as their sources.
LEMMA SourcesCardinality ==
  ASSUME NEW R, IsFiniteSet(R), \A r, q \in R : r.src = q.src => r = q
  PROVE  Cardinality(Sources(R)) = Cardinality(R)
<1> DEFINE src == [r \in R |-> r.src]
<1>1. src \in [R -> Sources(R)]
  BY DEF Sources
<1>2. src \in Bijection(R, Sources(R))
  BY <1>1 DEF Bijection, Injection, Surjection, IsInjective, Sources
<1> QED
  BY <1>2, FS_Bijection DEF ExistsBijection

LEMMA PromiseCardinality ==
  ASSUME NEW S
  PROVE  Promise!Cardinality(S) = Cardinality(S)
BY DEF Promise!Cardinality, Cardinality

\* Emit is Accept of the abstract queue.
LEMMA EmitAccepts ==
  ASSUME DeliveryInv, BufferInv', NEW s \in Source, Emit(s)
  PROVE  Promise!Accept(s)
<1> DEFINE row == [id |-> nextId, src |-> s]
           T == Rows \cup {row}
           gone == (Sources(Rows) \cup {s}) \ Sources(Rows')
<1>1. BufferInv /\ Enqueue(s)
  BY DEF Emit, DeliveryInv, TypeOK, BufferInv
<1>2. Rows' = T \ Overflow(T)
  BY <1>1, EmitRows
<1>3. Sources(T) = Sources(Rows) \cup {s}
  <2>1. row.src = s
    OBVIOUS
  <2> HIDE DEF row
  <2> QED
    BY <2>1 DEF Sources
<1>4. Sources(Rows') \subseteq Sources(Rows) \cup {s}
  BY <1>2, <1>3, SourcesMonotone
<1>5. gone # {} => Cardinality(Sources(Rows')) = MaxEvents
  <2> HAVE gone # {}
  <2>1. Overflow(T) # {}
    BY <1>2, <1>3
  <2>2. Table(T)
    BY <1>1, EnqueueFresh, FreshTable
  <2>3. Cardinality(Rows') = MaxEvents
    BY <1>2, <2>1, <2>2, EvictionExact
  <2>4. Cardinality(Sources(Rows')) = Cardinality(Rows')
    BY SourcesCardinality DEF BufferInv, BufferTypeOK, RowsIdentified
  <2> QED
    BY <2>3, <2>4
<1>6. (Sources(Rows) \cup {s}) \ gone = Sources(Rows')
  BY <1>4
<1>7. s \notin Sources(Rows)
  BY <1>1 DEF Enqueue
<1>8. /\ accepted' = accepted \cup {s} /\ evicted' = evicted \cup gone
      /\ stored' = stored /\ refused' = refused /\ failed' = failed
  BY DEF Emit, server
<1> HIDE DEF row, T
<1>9. /\ gone \in SUBSET (Sources(Rows) \cup {s})
      /\ gone # {} => Cardinality((Sources(Rows) \cup {s}) \ gone) = MaxEvents
      /\ Sources(Rows)' = (Sources(Rows) \cup {s}) \ gone
  BY <1>5, <1>6
<1> QED
  BY <1>7, <1>8, <1>9, PromiseCardinality DEF Promise!Accept

\* What an ack job or the final ack deletes was settled by the server.
LEMMA AckForgets ==
  ASSUME DeliveryInv, LoopAcks \/ FinalAcks
  PROVE  \E S \in SUBSET Source : Promise!Forget(S)
<1>1. PICK c \in Caller : /\ Ack(Ids(batch[c]))
                          /\ Sources(batch[c]) \subseteq stored \cup refused \cup failed
  BY DEF LoopAcks, FinalAcks, DeliveryInv, Settled, Caller
<1> DEFINE S == Sources(Rows) \ Sources(Rows')
<1>2. Rows' = Rows \ batch[c]
  BY <1>1, AckRows DEF Rows
<1>3. S \subseteq Sources(batch[c])
  BY <1>2 DEF Sources
<1>4. Sources(Rows)' = Sources(Rows) \ S
  BY <1>2 DEF Sources
<1>5. S \in SUBSET Source
  BY SourcesTyped DEF DeliveryInv, TypeOK, BufferTypeOK, Rows
<1>6. UNCHANGED <<accepted, stored, refused, failed, evicted>>
  BY DEF LoopAcks, FinalAcks, Exit, server, history
<1> QED
  BY <1>1, <1>3, <1>4, <1>5, <1>6 DEF Promise!Forget

\* A server's answer, or a late request, is Process.
LEMMA ServerProcesses ==
  ASSUME DeliveryInv,
         \/ \E c \in Caller : AnswerBatch(c) \/ AnswerPermanent(c)
         \/ LateRequest
  PROVE  \E S, J \in SUBSET Source : Promise!Process(S, J)
<1>1. \A c \in Caller : Sources(batch[c]) \subseteq Source \cap accepted
  BY SourcesTyped DEF DeliveryInv, TypeOK, Emitted
<1>2. /\ Sources(Rows)' = Sources(Rows) /\ accepted' = accepted
      /\ evicted' = evicted
  BY DEF AnswerBatch, AnswerPermanent, LateRequest, bufferVars, history,
         Rows, Sources
<1>3. ASSUME NEW c \in Caller, AnswerBatch(c)
      PROVE  \E S, J \in SUBSET Source : Promise!Process(S, J)
  <2>1. PICK ok \in SUBSET Sources(batch[c]) :
           /\ stored' = stored \cup ok
           /\ failed' = failed \cup (Sources(batch[c]) \ ok)
    BY <1>3 DEF AnswerBatch
  <2>2. refused' = refused
    BY <1>3 DEF AnswerBatch
  <2>3. Promise!Process(ok, Sources(batch[c]) \ ok)
    BY <1>1, <1>2, <2>1, <2>2 DEF Promise!Process
  <2> QED
    BY <1>1, <2>3
<1>4. ASSUME NEW c \in Caller, AnswerPermanent(c)
      PROVE  \E S, J \in SUBSET Source : Promise!Process(S, J)
  <2>1. Promise!Process({}, Sources(batch[c]))
    BY <1>1, <1>2, <1>4 DEF AnswerPermanent, Promise!Process, server
  <2> QED
    BY <1>1, <2>1
<1>5. CASE LateRequest
  <2>1. PICK S \in SUBSET late : stored' = stored \cup S
    BY <1>5 DEF LateRequest
  <2>2. Promise!Process(S, {})
    BY <1>2, <1>5, <2>1
    DEF LateRequest, Promise!Process, DeliveryInv, Emitted, history
  <2> QED
    BY <2>1, <2>2 DEF DeliveryInv, TypeOK
<1> QED
  BY <1>3, <1>4, <1>5

\* Every other step leaves the abstract queue alone.
LEMMA OthersStutter ==
  ASSUME DeliveryInv,
         \/ \E c \in Caller : AnswerRevoked(c)
         \/ Revoke \/ LoopClaim \/ LoopAnswered \/ LoopRevoked \/ LoopSendFails
         \/ LoopNacks \/ LoopAckFails \/ LoopDies \/ Start \/ StartRefused
         \/ Stop \/ FinalClaim \/ FinalAnswered \/ FinalSkipped \/ FinalFails
         \/ Crash \/ UNCHANGED vars
  PROVE  UNCHANGED Promise!vars
<1>1. Rows' = Rows
  <2>1. CASE LoopClaim \/ FinalClaim
    BY <2>1, ClaimRows DEF LoopClaim, FinalClaim
  <2>2. CASE LoopNacks
    BY <2>2, NackRows DEF LoopNacks, Caller
  <2>3. CASE Start \/ StartRefused
    BY <2>3 DEF Start, StartRefused, ResetInFlight, Rows
  <2> QED
    BY <2>1, <2>2, <2>3
    DEF AnswerRevoked, Revoke, LoopAnswered, LoopRevoked, LoopSendFails,
        LoopAckFails, LoopDies, Stop, FinalAnswered, FinalSkipped, FinalFails,
        Crash, vars, bufferVars, Rows
<1>2. /\ accepted' = accepted /\ stored' = stored /\ evicted' = evicted
      /\ refused' = refused /\ failed' = failed
  BY DEF AnswerRevoked, Revoke, LoopClaim, LoopAnswered, LoopRevoked,
         LoopSendFails, LoopNacks, LoopAckFails, LoopDies, Start, StartRefused,
         Stop, FinalClaim, FinalAnswered, FinalSkipped, FinalFails, Crash,
         Exit, LoopGoto, server, history, vars
<1> QED
  BY <1>1, <1>2 DEF Promise!vars, Sources

\* The delivery protocol implements Delivery: whatever crashes, restarts or
\* loses answers, an event leaves the agent only when the server has settled it
\* or a full queue has to make room (service.py and buffer.py).
THEOREM DeliveryRefines == Spec => DeliversAsPromised
<1>1. Init => Promise!Init
  BY DEF Init, BufferInit, Promise!Init, Rows, Sources
<1>2. DeliveryInv /\ [Next]_vars => [Promise!Next]_(Promise!vars)
  <2> SUFFICES ASSUME DeliveryInv, [Next]_vars
               PROVE  Promise!Next \/ UNCHANGED Promise!vars
    OBVIOUS
  <2>1. BufferInv'
    BY DeliveryBuffer
  <2>2. ASSUME NEW s \in Source, Emit(s) PROVE Promise!Next
    BY <2>1, <2>2, EmitAccepts DEF Promise!Next
  <2>3. ASSUME \/ \E c \in Caller : AnswerBatch(c) \/ AnswerPermanent(c)
               \/ LateRequest
        PROVE  Promise!Next
    BY <2>3, ServerProcesses DEF Promise!Next
  <2>4. ASSUME LoopAcks \/ FinalAcks PROVE Promise!Next
    BY <2>4, AckForgets DEF Promise!Next
  <2> QED
    BY <2>2, <2>3, <2>4, OthersStutter DEF Next
<1> QED
  BY <1>1, <1>2, DeliveryInductive, PTL
  DEF Spec, DeliversAsPromised, Promise!Spec
=============================================================================
