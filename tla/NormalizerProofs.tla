-------------------------- MODULE NormalizerProofs --------------------------
(***************************************************************************)
(* Normalizer for any number of logs, replicas and users: what holds of    *)
(* event_logs, of normalized_event_id and of the scoring, and that a lone  *)
(* replica's lock keeps its ticks apart.                                   *)
(***************************************************************************)
EXTENDS Normalizer, FiniteSetTheorems, TLAPS

Ingested == {s \in Source : raw[s] # 0}

\* Rows are numbered without gaps or repetitions, and a tick works on rows.
RowsNumbered ==
  /\ \A s \in Source : raw[s] \in 0 .. Cardinality(Ingested)
  /\ \A s, t \in Ingested : raw[s] = raw[t] => s = t
  /\ \A w \in Worker : todo[w] \subseteq Ingested

\* The event row in hand is one for the log in hand, and once its insert is
\* over it is committed.
HoldsRight(w) ==
  /\ pc[w] \in {"insert", "commit", "mark", "direct"} => hold[w] \in Event
  /\ pc[w] \in {"insert", "commit", "mark"} =>
       \A s \in Source : Current(w, s) => KeyOf[hold[w].src] = KeyOf[s]
  /\ pc[w] = "mark" => \E e \in events : e.src = hold[w].src

HoldRight == \A w \in Worker : HoldsRight(w)

NormalizerInv ==
  /\ TypeOK /\ RowsNumbered /\ HoldRight
  /\ MarksRight /\ ScoredOrDue
-----------------------------------------------------------------------------
(***************************************************************************)
(* Facts about the operators.                                              *)
(***************************************************************************)

\* The row in hand is unique.
LEMMA CurrentUnique ==
  ASSUME NormalizerInv, NEW w \in Worker, NEW s, NEW t,
         Current(w, s), Current(w, t)
  PROVE  s = t
<1>1. s \in Ingested /\ t \in Ingested /\ raw[s] \in Nat /\ raw[t] \in Nat
  BY DEF NormalizerInv, RowsNumbered, Current, Ingested, TypeOK
<1>2. raw[s] <= raw[t] /\ raw[t] <= raw[s]
  BY DEF Current
<1>3. raw[s] = raw[t]
  BY <1>1, <1>2
<1> QED
  BY <1>1, <1>3 DEF NormalizerInv, RowsNumbered

\* An upsert stores its row and loses no source.
LEMMA StoredRows ==
  ASSUME TypeOK, NEW e \in Event
  PROVE  /\ e \in Stored(e) /\ Stored(e) \subseteq Event
         /\ \A f \in events : \E g \in Stored(e) : g.src = f.src
BY DEF Stored, TypeOK

\* The next row gets the next number.
LEMMA NumberNext ==
  ASSUME NormalizerInv, NEW s \in Source, Ingest(s)
  PROVE  RowsNumbered'
<1> DEFINE n == Cardinality(Ingested)
<1>1. IsFiniteSet(Ingested) /\ n \in Nat
  BY NormalizerAssumption, FS_Subset, FS_CardinalityType DEF Ingested
<1>2. raw' = [raw EXCEPT ![s] = 1 + n] /\ raw[s] = 0 /\ todo' = todo
  BY DEF Ingest, Ingested, tick
<1>3. raw \in [Source -> Nat]
  BY DEF NormalizerInv, TypeOK
<1>4. s \notin Ingested
  BY <1>2 DEF Ingested
<1>5. Cardinality(Ingested \cup {s}) = n + 1
  BY <1>1, <1>4, FS_AddElement
<1>6. \A t \in Source : raw[t] \in 0 .. n
  BY DEF NormalizerInv, RowsNumbered
<1> HIDE DEF n
<1>7. Ingested' = Ingested \cup {s}
  BY <1>1, <1>2, <1>3 DEF Ingested
<1>8. \A t \in Source : raw'[t] \in 0 .. n + 1
  BY <1>1, <1>2, <1>3, <1>6
<1>9. \A t \in Ingested : raw'[t] = raw[t] /\ raw'[t] # raw'[s]
  BY <1>1, <1>2, <1>3, <1>4, <1>6 DEF Ingested
<1>10. \A t, u \in Ingested' : raw'[t] = raw'[u] => t = u
  BY <1>7, <1>9 DEF NormalizerInv, RowsNumbered
<1>11. \A w \in Worker : todo'[w] \subseteq Ingested'
  BY <1>2, <1>7 DEF NormalizerInv, RowsNumbered
<1> QED
  BY <1>5, <1>7, <1>8, <1>10, <1>11 DEF RowsNumbered

\* A worker that does not move keeps what HoldRight says of it.
LEMMA OthersHold ==
  ASSUME NormalizerInv, NEW v \in Worker,
         pc'[v] = pc[v], hold'[v] = hold[v], todo'[v] = todo[v],
         \A s \in Ingested : raw'[s] = raw[s],
         \A f \in events : \E g \in events' : g.src = f.src
  PROVE  HoldsRight(v)'
<1>1. HoldsRight(v) /\ todo[v] \subseteq Ingested
  BY DEF NormalizerInv, HoldRight, RowsNumbered
<1>2. \A s \in Source : Current(v, s)' => Current(v, s)
  BY <1>1 DEF Current
<1> QED
  BY <1>1, <1>2 DEF HoldsRight
-----------------------------------------------------------------------------
(***************************************************************************)
(* Each step keeps the invariant: the requests.                            *)
(***************************************************************************)
LEMMA RequestStep ==
  ASSUME NormalizerInv,
         \/ \E s \in Source : Ingest(s)
         \/ \E u \in User : RegisterUser(u)
         \/ \E d \in Device : RegisterDevice(d)
  PROVE  NormalizerInv'
<1> USE DEF tick, history
<1>0. /\ \A s \in Ingested : raw'[s] = raw[s]
      /\ UNCHANGED <<mark, events, pc, todo, hold, touched, scored, shut, dropped>>
  BY DEF Ingest, RegisterUser, RegisterDevice, Ingested, NormalizerInv, TypeOK
<1>1. TypeOK'
  <2>1. CASE \E s \in Source : Ingest(s)
    <3>1. Cardinality({t \in Source : raw[t] # 0}) \in Nat
      BY NormalizerAssumption, FS_Subset, FS_CardinalityType
    <3> QED BY <2>1, <3>1 DEF Ingest, TypeOK, NormalizerInv
  <2> QED
    BY <2>1 DEF RegisterUser, RegisterDevice, TypeOK, NormalizerInv
<1>2. RowsNumbered'
  <2>1. CASE \E s \in Source : Ingest(s)
    BY <2>1, NumberNext
  <2> QED
    BY <2>1 DEF RegisterUser, RegisterDevice, RowsNumbered, Ingested, NormalizerInv
<1>3. HoldRight'
  BY <1>0, OthersHold DEF HoldRight
<1> QED
  BY <1>0, <1>1, <1>2, <1>3
     DEF NormalizerInv, MarksRight, ScoredOrDue, Considered

\* The direct insert and its commit.
LEMMA DirectStep ==
  ASSUME NormalizerInv, NEW w \in Worker,
         (\E s \in Source : DirectInsert(w, s)) \/ DirectCommit(w)
  PROVE  NormalizerInv'
<1> USE DEF history
<1>0. /\ UNCHANGED <<raw, mark, users, devices, todo, touched, scored, shut, dropped>>
      /\ \A v \in Worker \ {w} : pc'[v] = pc[v] /\ hold'[v] = hold[v]
  BY DEF DirectInsert, DirectCommit, NormalizerInv, TypeOK
<1>1. CASE \E s \in Source : DirectInsert(w, s)
  <2>1. PICK s \in Source : DirectInsert(w, s)
    BY <1>1
  <2>2. [src |-> s, dev |-> DeviceOf[s]] \in Event
    BY NormalizerAssumption DEF Event
  <2>3. UNCHANGED events /\ pc'[w] = "direct" /\ hold'[w] \in Event
    BY <2>1, <2>2 DEF DirectInsert, NormalizerInv, TypeOK
  <2>4. TypeOK'
    BY <2>1, <2>2 DEF DirectInsert, NormalizerInv, TypeOK
  <2>5. HoldRight'
    <3> SUFFICES ASSUME NEW v \in Worker PROVE HoldsRight(v)'
      BY DEF HoldRight
    <3>1. CASE v = w
      BY <3>1, <2>3 DEF HoldsRight
    <3> QED
      BY <3>1, <1>0, <2>3, OthersHold
  <2> QED
    BY <1>0, <2>3, <2>4, <2>5
       DEF NormalizerInv, RowsNumbered, Ingested, MarksRight,
           ScoredOrDue, Considered
<1>2. CASE DirectCommit(w)
  <2>1. /\ events' = Stored(hold[w]) /\ hold[w] \in Event
        /\ pc'[w] = "idle" /\ hold'[w] = None
    BY <1>2 DEF DirectCommit, NormalizerInv, TypeOK, HoldRight, HoldsRight
  <2>2. /\ events' \subseteq Event
        /\ \A f \in events : \E g \in events' : g.src = f.src
    BY <2>1, StoredRows DEF NormalizerInv
  <2>3. TypeOK'
    BY <1>2, <2>2 DEF DirectCommit, NormalizerInv, TypeOK
  <2>4. HoldRight'
    <3> SUFFICES ASSUME NEW v \in Worker PROVE HoldsRight(v)'
      BY DEF HoldRight
    <3>1. CASE v = w
      BY <3>1, <2>1 DEF HoldsRight
    <3> QED
      BY <3>1, <1>0, <2>2, OthersHold
  <2>5. MarksRight'
    BY <1>0, <2>2 DEF NormalizerInv, MarksRight
  <2> QED
    BY <1>0, <2>2, <2>3, <2>4, <2>5
       DEF NormalizerInv, RowsNumbered, Ingested, ScoredOrDue, Considered
<1> QED
  BY <1>1, <1>2
-----------------------------------------------------------------------------
(***************************************************************************)
(* Each step keeps the invariant: the tick.                                *)
(***************************************************************************)
LEMMA BeginStep ==
  ASSUME NormalizerInv, NEW w \in Worker, AdminCalls(w) \/ Begin(w)
  PROVE  NormalizerInv'
<1> USE DEF history
<1>0. /\ UNCHANGED <<raw, mark, events, users, devices, hold, touched, scored,
                     shut, dropped>>
      /\ pc' \in [Worker -> Inside \cup {"idle", "wait", "direct", "score"}]
      /\ pc'[w] \in {"wait", "score", "look"}
      /\ todo' \in [Worker -> SUBSET Source]
      /\ todo'[w] \subseteq Ingested
      /\ \A v \in Worker \ {w} : pc'[v] = pc[v] /\ todo'[v] = todo[v]
  <2>1. CASE AdminCalls(w)
    BY <2>1 DEF AdminCalls, NormalizerInv, TypeOK, RowsNumbered, Inside
  <2>2. CASE Begin(w)
    <3>1. \A n : Batch(n) \subseteq Source /\ Batch(n) \subseteq Ingested
      BY DEF Batch, Pending, Ingested
    <3>2. PICK n \in Sizes(w) : todo' = [todo EXCEPT ![w] = Batch(n)]
      BY <2>2 DEF Begin
    <3> QED
      BY <2>2, <3>1, <3>2 DEF Begin, NormalizerInv, TypeOK, Inside
  <2> QED
    BY <2>1, <2>2
<1>1. TypeOK'
  BY <1>0 DEF NormalizerInv, TypeOK
<1>2. RowsNumbered'
  BY <1>0 DEF NormalizerInv, RowsNumbered, Ingested
<1>3. HoldRight'
  <2> SUFFICES ASSUME NEW v \in Worker PROVE HoldsRight(v)'
    BY DEF HoldRight
  <2>1. CASE v = w
    BY <2>1, <1>0 DEF HoldsRight
  <2> QED
    BY <2>1, <1>0, OthersHold
<1> QED
  BY <1>0, <1>1, <1>2, <1>3
     DEF NormalizerInv, MarksRight, ScoredOrDue, Considered

\* What the row in hand becomes.
LEMMA LookStep ==
  ASSUME NormalizerInv, NEW w \in Worker, NEW s \in Source, Look(w, s)
  PROVE  NormalizerInv'
<1> USE DEF history
<1>0. /\ UNCHANGED <<raw, mark, events, users, devices, todo, touched, scored,
                     shut, dropped>>
      /\ \A v \in Worker \ {w} : pc'[v] = pc[v] /\ hold'[v] = hold[v]
      /\ Current(w, s) /\ pc[w] = "look"
  BY DEF Look, NormalizerInv, TypeOK
<1>1. \/ /\ pc'[w] = "insert" /\ hold'[w] \in Event /\ hold'[w].src = s
      \/ /\ pc'[w] = "mark" /\ hold'[w] \in events /\ hold'[w].src = s
  <2> DEFINE dev == IF DeviceOf[s] \in devices THEN DeviceOf[s] ELSE NoDevice
             found == {e \in events : e.src = s}
  <2>0. [src |-> s, dev |-> dev] \in Event
    BY NormalizerAssumption DEF Event
  <2>1. CASE found = {}
    BY <2>0, <2>1 DEF Look, NormalizerInv, TypeOK
  <2>2. CASE found # {}
    BY <2>2 DEF Look, NormalizerInv, TypeOK
  <2> QED
    BY <2>1, <2>2
<1>2. TypeOK'
  <2>1. hold'[w] \in Event
    BY <1>1 DEF NormalizerInv, TypeOK
  <2>2. /\ hold' = [hold EXCEPT ![w] = hold'[w]]
        /\ pc' = [pc EXCEPT ![w] = pc'[w]]
    BY DEF Look, NormalizerInv, TypeOK
  <2> QED
    BY <1>0, <1>1, <2>1, <2>2 DEF NormalizerInv, TypeOK, Inside
<1>3. HoldsRight(w)'
  <2>1. \A t \in Source : Current(w, t)' => t = s
    BY <1>0, CurrentUnique DEF Current
  <2> QED
    BY <1>0, <1>1, <2>1 DEF HoldsRight, NormalizerInv, TypeOK
<1>4. HoldRight'
  BY <1>0, <1>3, OthersHold DEF HoldRight
<1> QED
  BY <1>0, <1>2, <1>4
     DEF NormalizerInv, RowsNumbered, Ingested, MarksRight,
         ScoredOrDue, Considered

LEMMA InsertStep ==
  ASSUME NormalizerInv, NEW w \in Worker, NEW s \in Source, Insert(w, s)
  PROVE  NormalizerInv'
<1> USE DEF history
<1>0. /\ UNCHANGED <<raw, mark, events, users, devices, todo, touched, scored,
                     shut, dropped>>
      /\ \A v \in Worker \ {w} : pc'[v] = pc[v] /\ hold'[v] = hold[v]
      /\ Current(w, s) /\ pc[w] = "insert"
      /\ hold[w] \in Event /\ KeyOf[hold[w].src] = KeyOf[s]
  BY DEF Insert, NormalizerInv, TypeOK, HoldRight, HoldsRight
<1>1. /\ hold'[w] \in Event /\ KeyOf[hold'[w].src] = KeyOf[s]
      /\ pc'[w] = "commit" \/ (pc'[w] = "mark" /\ hold'[w] \in events)
  <2>1. CASE Same(hold[w]) = {}
    <3>1. pc' = [pc EXCEPT ![w] = "commit"] /\ hold' = hold
      BY <2>1 DEF Insert
    <3> QED
      BY <1>0, <3>1 DEF NormalizerInv, TypeOK
  <2>2. CASE Same(hold[w]) # {}
    <3>1. PICK e \in Same(hold[w]) : hold' = [hold EXCEPT ![w] = e]
      BY <2>2 DEF Insert
    <3>2. e \in events /\ e \in Event /\ KeyOf[e.src] = KeyOf[s]
      BY <1>0, <3>1 DEF Same, NormalizerInv, TypeOK
    <3> QED
      BY <2>2, <3>1, <3>2 DEF Insert, NormalizerInv, TypeOK
  <2> QED
    BY <2>1, <2>2
<1>2. TypeOK'
  <2>1. /\ hold' = [hold EXCEPT ![w] = hold'[w]]
        /\ pc' = [pc EXCEPT ![w] = pc'[w]]
    BY DEF Insert, NormalizerInv, TypeOK
  <2> QED
    BY <1>0, <1>1, <2>1 DEF NormalizerInv, TypeOK, Inside
<1>3. HoldsRight(w)'
  <2>1. \A t \in Source : Current(w, t)' => t = s
    BY <1>0, CurrentUnique DEF Current
  <2> QED
    BY <1>0, <1>1, <2>1 DEF HoldsRight
<1>4. HoldRight'
  BY <1>0, <1>3, OthersHold DEF HoldRight
<1> QED
  BY <1>0, <1>2, <1>4
     DEF NormalizerInv, RowsNumbered, Ingested, MarksRight,
         ScoredOrDue, Considered

LEMMA CommitStep ==
  ASSUME NormalizerInv, NEW w \in Worker, Commit(w)
  PROVE  NormalizerInv'
<1> USE DEF history
<1>0. /\ UNCHANGED <<raw, mark, users, devices, todo, hold, touched, scored,
                     shut, dropped>>
      /\ \A v \in Worker \ {w} : pc'[v] = pc[v]
      /\ pc[w] = "commit" /\ pc' = [pc EXCEPT ![w] = "mark"]
      /\ events' = Stored(hold[w]) /\ hold[w] \in Event
  BY DEF Commit, NormalizerInv, TypeOK, HoldRight, HoldsRight
<1>1. /\ events' \subseteq Event /\ hold[w] \in events'
      /\ \A f \in events : \E g \in events' : g.src = f.src
  BY <1>0, StoredRows DEF NormalizerInv
<1>2. TypeOK'
  BY <1>0, <1>1 DEF NormalizerInv, TypeOK, Inside
<1>3. HoldsRight(w)'
  BY <1>0, <1>1 DEF NormalizerInv, HoldRight, HoldsRight, Current, TypeOK
<1>4. HoldRight'
  BY <1>0, <1>1, <1>3, OthersHold DEF HoldRight
<1>5. MarksRight'
  BY <1>0, <1>1 DEF NormalizerInv, MarksRight
<1> QED
  BY <1>0, <1>1, <1>2, <1>4, <1>5
     DEF NormalizerInv, RowsNumbered, Ingested, ScoredOrDue, Considered

LEMMA MarkStep ==
  ASSUME NormalizerInv, NEW w \in Worker, NEW s \in Source, Mark(w, s)
  PROVE  NormalizerInv'
<1> USE DEF history
<1>0. /\ UNCHANGED <<raw, events, users, devices, scored, shut, dropped>>
      /\ \A v \in Worker \ {w} :
           pc'[v] = pc[v] /\ hold'[v] = hold[v] /\ todo'[v] = todo[v]
      /\ todo'[w] \subseteq todo[w]
      /\ pc'[w] \in {"score", "look"}
  BY DEF Mark, NextRow, NormalizerInv, TypeOK
<1>1. PICK e \in events : e.src = hold[w].src /\ KeyOf[e.src] = KeyOf[s]
  BY DEF Mark, NormalizerInv, HoldRight, HoldsRight
<1>2. hold[w].src \in Source
  BY <1>1 DEF NormalizerInv, TypeOK, Event
<1>3. TypeOK'
  BY <1>0, <1>2 DEF Mark, NextRow, NormalizerInv, TypeOK, Inside
<1>4. HoldsRight(w)'
  BY <1>0 DEF HoldsRight, Mark, NextRow
<1>5. HoldRight'
  BY <1>0, <1>4, OthersHold DEF HoldRight
<1>6. MarksRight'
  BY <1>0, <1>1 DEF Mark, NormalizerInv, MarksRight, TypeOK
<1>7. RowsNumbered'
  BY <1>0 DEF NormalizerInv, RowsNumbered, Ingested
<1>8. ScoredOrDue'
  <2> SUFFICES ASSUME NEW t \in Source, mark'[t] # None, UserOf[t] # NoUser
               PROVE  \/ mark'[t] \in Considered' \/ t \in dropped'
                      \/ \E v \in Worker : t \in touched'[v]
    BY DEF ScoredOrDue
  <2>1. CASE t = s
    BY <2>1 DEF Mark, NormalizerInv, TypeOK
  <2>2. CASE t # s
    BY <1>0, <2>2 DEF Mark, NormalizerInv, TypeOK, ScoredOrDue, Considered
  <2> QED
    BY <2>1, <2>2
<1> QED
  BY <1>0, <1>3, <1>5, <1>6, <1>7, <1>8 DEF NormalizerInv

LEMMA FailStep ==
  ASSUME NormalizerInv, NEW w \in Worker, NEW s \in Source,
         RowFails(w, s) \/ DatabaseFails(w, s)
  PROVE  NormalizerInv'
<1> USE DEF history
<1>0. /\ UNCHANGED <<raw, mark, users, devices, touched, scored, shut, dropped>>
      /\ \A v \in Worker \ {w} :
           pc'[v] = pc[v] /\ hold'[v] = hold[v] /\ todo'[v] = todo[v]
      /\ todo'[w] \subseteq todo[w]
      /\ pc'[w] \in {"score", "look"}
      /\ pc' = [pc EXCEPT ![w] = pc'[w]]
      /\ todo' = [todo EXCEPT ![w] = @ \ {s}]
      /\ hold' = [hold EXCEPT ![w] = None]
  BY DEF RowFails, DatabaseFails, NextRow, NormalizerInv, TypeOK
<1>1. \/ events' = events
      \/ events' = Stored(hold[w]) /\ hold[w] \in Event
  <2>1. CASE RowFails(w, s)
    BY <2>1 DEF RowFails
  <2>2. CASE DatabaseFails(w, s)
    <3>1. pc[w] = "commit" => hold[w] \in Event
      BY DEF NormalizerInv, HoldRight, HoldsRight
    <3> QED
      BY <2>2, <3>1 DEF DatabaseFails
  <2> QED
    BY <2>1, <2>2
<1>2. /\ events' \subseteq Event
      /\ \A f \in events : \E g \in events' : g.src = f.src
  BY <1>1, StoredRows DEF NormalizerInv, TypeOK
<1>3. TypeOK'
  BY <1>0, <1>2 DEF NormalizerInv, TypeOK, Inside
<1>4. HoldRight'
  <2>1. HoldsRight(w)'
    BY <1>0 DEF HoldsRight
  <2> QED
    BY <1>0, <1>2, <2>1, OthersHold DEF HoldRight
<1>5. MarksRight'
  BY <1>0, <1>2 DEF NormalizerInv, MarksRight
<1>6. RowsNumbered'
  BY <1>0 DEF NormalizerInv, RowsNumbered, Ingested
<1> QED
  BY <1>0, <1>2, <1>3, <1>4, <1>5, <1>6 DEF NormalizerInv, ScoredOrDue, Considered

\* A log whose scoring is done has been scored with the event it is marked with.
LEMMA ScoreStep ==
  ASSUME NormalizerInv, NEW w \in Worker,
         (\E u \in User : Score(w, u) \/ ScoreFails(w, u)) \/ SkipScoring(w) \/ End(w)
  PROVE  NormalizerInv'
<1> USE DEF history
<1>0. /\ UNCHANGED <<raw, mark, events, users, devices, todo, hold>>
      /\ \A v \in Worker \ {w} : pc'[v] = pc[v] /\ touched'[v] = touched[v]
      /\ pc[w] = "score" /\ pc'[w] \in {"score", "idle"}
      /\ Considered \subseteq Considered' /\ dropped \subseteq dropped'
  BY DEF Score, ScoreFails, SkipScoring, End, NormalizerInv, TypeOK, Considered
<1>1. TypeOK'
  <2>1. CASE \E u \in User : Score(w, u)
    <3>1. PICK u \in User : Score(w, u)
      BY <2>1
    <3>2. EventsOf(u) \subseteq Source
      BY DEF EventsOf, LogsOf
    <3> QED
      BY <3>1, <3>2 DEF Score, NormalizerInv, TypeOK
  <2>2. CASE \E u \in User : ScoreFails(w, u)
    BY <2>2 DEF ScoreFails, NormalizerInv, TypeOK
  <2>3. CASE SkipScoring(w) \/ End(w)
    BY <2>3 DEF SkipScoring, End, NormalizerInv, TypeOK
  <2> QED
    BY <2>1, <2>2, <2>3
<1>2. HoldRight'
  <2> SUFFICES ASSUME NEW v \in Worker PROVE HoldsRight(v)'
    BY DEF HoldRight
  <2>1. CASE v = w
    BY <2>1, <1>0 DEF HoldsRight
  <2> QED
    BY <2>1, <1>0, OthersHold
<1>3. \A t \in touched[w] \ touched'[w] :
        mark[t] # None => mark[t] \in Considered' \/ t \in dropped'
  <2>1. CASE \E u \in User : Score(w, u)
    <3>1. PICK u \in User : Score(w, u)
      BY <2>1
    <3> SUFFICES ASSUME NEW t \in touched[w] \ touched'[w], mark[t] # None
                 PROVE  mark[t] \in Considered'
      OBVIOUS
    <3>2. t \in Source /\ UserOf[t] = u
      BY <3>1 DEF Score, LogsOf, NormalizerInv, TypeOK
    <3>3. PICK e \in events : e.src = mark[t] /\ KeyOf[e.src] = KeyOf[t]
      BY <3>2 DEF NormalizerInv, MarksRight
    <3>4. e.src \in Source
      BY <3>3 DEF NormalizerInv, TypeOK, Event
    <3>5. UserOf[e.src] = u
      BY <3>2, <3>3, <3>4, NormalizerAssumption
    <3>6. mark[t] \in EventsOf(u)
      BY <3>3, <3>4, <3>5 DEF EventsOf, LogsOf
    <3>7. \A R : EventsOf(u) \subseteq R \cup (EventsOf(u) \ R)
      OBVIOUS
    <3> QED
      BY <3>1, <3>6, <3>7 DEF Score, Considered
  <2>2. CASE \E u \in User : ScoreFails(w, u)
    BY <2>2 DEF ScoreFails, NormalizerInv, TypeOK
  <2>3. CASE SkipScoring(w) \/ End(w)
    BY <2>3 DEF SkipScoring, End, NormalizerInv, TypeOK
  <2> QED
    BY <2>1, <2>2, <2>3
<1>4. ScoredOrDue'
  BY <1>0, <1>3 DEF NormalizerInv, ScoredOrDue
<1> QED
  BY <1>0, <1>1, <1>2, <1>4
     DEF NormalizerInv, RowsNumbered, Ingested, MarksRight

\* What a dead tick still had to score counts as given up.
LEMMA RestartStep ==
  ASSUME NormalizerInv, NEW r \in Replica, Restart(r)
  PROVE  NormalizerInv'
<1> DEFINE mine == {w \in Worker : w[1] = r}
<1>0. /\ UNCHANGED <<raw, mark, events, users, devices, scored, shut>>
      /\ pc' = [w \in Worker |-> IF w \in mine THEN "idle" ELSE pc[w]]
      /\ todo' = [w \in Worker |-> IF w \in mine THEN {} ELSE todo[w]]
      /\ hold' = [w \in Worker |-> IF w \in mine THEN None ELSE hold[w]]
      /\ touched' = [w \in Worker |-> IF w \in mine THEN {} ELSE touched[w]]
      /\ dropped' = dropped \cup UNION {touched[w] : w \in mine}
  BY DEF Restart
<1>1. UNION {touched[w] : w \in mine} \subseteq Source
  BY DEF NormalizerInv, TypeOK
<1>2. \A w \in mine : touched[w] \subseteq dropped'
  BY <1>0
<1> HIDE DEF mine
<1>3. TypeOK'
  BY <1>0, <1>1 DEF NormalizerInv, TypeOK
<1>4. HoldRight'
  <2> SUFFICES ASSUME NEW v \in Worker PROVE HoldsRight(v)'
    BY DEF HoldRight
  <2>1. CASE v \in mine
    BY <2>1, <1>0 DEF HoldsRight
  <2>2. CASE v \notin mine
    BY <2>2, <1>0, OthersHold
  <2> QED
    BY <2>1, <2>2
<1>5. ScoredOrDue'
  BY <1>0, <1>2 DEF NormalizerInv, ScoredOrDue, Considered
<1>6. RowsNumbered'
  BY <1>0 DEF NormalizerInv, RowsNumbered, Ingested
<1> QED
  BY <1>0, <1>3, <1>4, <1>5, <1>6
     DEF NormalizerInv, MarksRight
-----------------------------------------------------------------------------
(***************************************************************************)
(* The invariant and what follows from it.                                 *)
(***************************************************************************)
LEMMA NormalizerInitInv ==
  ASSUME Init
  PROVE  NormalizerInv
<1>1. Ingested = {} /\ Cardinality({}) = 0
  BY FS_EmptySet DEF Init, Ingested
<1> QED
  BY <1>1 DEF Init, NormalizerInv, TypeOK, RowsNumbered, HoldRight, HoldsRight,
     MarksRight, ScoredOrDue, Considered

LEMMA NormalizerStepInv ==
  ASSUME NormalizerInv, [Next]_vars
  PROVE  NormalizerInv'
<1>1. CASE UNCHANGED vars
  <2>1. HoldRight'
    BY <1>1, OthersHold DEF vars, HoldRight
  <2> QED
    BY <1>1, <2>1
       DEF vars, NormalizerInv, TypeOK, RowsNumbered, Ingested,
           MarksRight, ScoredOrDue, Considered
<1>2. CASE \/ \E s \in Source : Ingest(s)
           \/ \E u \in User : RegisterUser(u)
           \/ \E d \in Device : RegisterDevice(d)
  BY <1>2, RequestStep
<1>3. CASE \E w \in Worker : \/ AdminCalls(w) \/ Begin(w) \/ Work(w) \/ End(w)
                             \/ \E s \in Direct : DirectInsert(w, s)
                             \/ \E u \in User : Score(w, u)
  <2>1. PICK w \in Worker : \/ AdminCalls(w) \/ Begin(w) \/ Work(w) \/ End(w)
                            \/ \E s \in Direct : DirectInsert(w, s)
                            \/ \E u \in User : Score(w, u)
    BY <1>3
  <2>2. CASE Work(w)
    BY <2>2, LookStep, InsertStep, MarkStep, FailStep, CommitStep, DirectStep
       DEF Work
  <2>3. CASE \E s \in Direct : DirectInsert(w, s)
    BY <2>3, DirectStep, NormalizerAssumption
  <2>4. CASE AdminCalls(w) \/ Begin(w)
    BY <2>4, BeginStep
  <2>5. CASE End(w) \/ \E u \in User : Score(w, u)
    BY <2>5, ScoreStep
  <2> QED
    BY <2>1, <2>2, <2>3, <2>4, <2>5
<1>4. CASE Fault
  BY <1>4, FailStep, ScoreStep, RestartStep DEF Fault
<1> QED
  BY <1>1, <1>2, <1>3, <1>4 DEF Next

LEMMA NormalizerInductive ==
  Spec => []NormalizerInv
BY NormalizerInitInv, NormalizerStepInv, PTL DEF Spec

\* The tables and the ticks stay well typed.
THEOREM NormalizerTyped ==
  Spec => []TypeOK
BY NormalizerInductive, PTL DEF NormalizerInv

\* normalized_event_id always names a committed event with the log's own
\* logical key.
THEOREM MarksNameEvents ==
  Spec => []MarksRight
BY NormalizerInductive, PTL DEF NormalizerInv

\* However many replicas, ticks and crashes there are: a scoring of its user
\* follows the event of every normalized log, but for a fault that gave it up.
THEOREM NoneLeftUnscored ==
  Spec => []ScoredOrDue
BY NormalizerInductive, PTL DEF NormalizerInv
-----------------------------------------------------------------------------
(***************************************************************************)
(* The lock: a tick has rows in hand only inside it, and one tick of a     *)
(* replica is inside at a time.                                            *)
(***************************************************************************)
LockInv ==
  /\ pc \in [Worker -> Inside \cup {"idle", "wait", "direct", "score"}]
  /\ todo \in [Worker -> SUBSET Source]
  /\ \A w \in Worker : todo[w] # {} => pc[w] \in Inside
  /\ \A v, w \in Worker :
       v # w /\ v[1] = w[1] /\ pc[v] \in Inside => pc[w] \notin Inside

\* Steps that leave the rows alone and take nobody inside, and steps of a tick
\* that is inside.
LEMMA LockKept ==
  ASSUME LockInv, NEW w \in Worker,
         \A v \in Worker \ {w} : pc'[v] = pc[v] /\ todo'[v] = todo[v],
         pc' \in [Worker -> Inside \cup {"idle", "wait", "direct", "score"}],
         todo' \in [Worker -> SUBSET Source],
         todo'[w] # {} => pc'[w] \in Inside,
         pc'[w] \in Inside => pc[w] \in Inside
  PROVE  LockInv'
BY DEF LockInv

LEMMA LockBegin ==
  ASSUME LockInv, NEW w \in Worker, Begin(w)
  PROVE  LockInv'
<1>1. PICK n \in Sizes(w) : todo' = [todo EXCEPT ![w] = Batch(n)]
  BY DEF Begin
<1>2. Batch(n) \subseteq Source /\ (Pending = {} => Batch(n) = {})
  BY DEF Batch, Pending
<1>3. /\ pc' = [pc EXCEPT ![w] = IF Pending = {} THEN "score" ELSE "look"]
      /\ \A v \in Worker : v[1] = w[1] => pc[v] \notin Inside
  BY DEF Begin
<1>4. "look" \in Inside /\ "score" \notin Inside
  BY DEF Inside
<1> QED
  BY <1>1, <1>2, <1>3, <1>4 DEF LockInv

LEMMA LockRow ==
  ASSUME LockInv, NEW w \in Worker, NEW s \in Source,
         pc[w] \in Inside, NextRow(w, s)
  PROVE  LockInv'
<1>1. "look" \in Inside /\ "score" \notin Inside
  BY DEF Inside
<1>2. todo[w] = {s} => todo[w] \ {s} = {}
  OBVIOUS
<1> QED
  BY <1>1, <1>2, LockKept DEF LockInv, NextRow

\* A move between two places inside, or between two places outside.
LEMMA LockMove ==
  ASSUME LockInv, NEW w \in Worker, NEW p, UNCHANGED todo,
         pc' = [pc EXCEPT ![w] = p],
         p \in Inside \cup {"idle", "wait", "direct", "score"},
         p \in Inside <=> pc[w] \in Inside
  PROVE  LockInv'
BY LockKept DEF LockInv

LEMMA LockStepInv ==
  ASSUME LockInv, [Next]_vars
  PROVE  LockInv'
<1>1. CASE UNCHANGED <<pc, todo>>
  BY <1>1 DEF LockInv
<1>2. ASSUME NEW w \in Worker,
             \/ AdminCalls(w) \/ DirectCommit(w) \/ SkipScoring(w) \/ End(w)
             \/ \E s \in Source : DirectInsert(w, s)
      PROVE  LockInv'
  <2>1. UNCHANGED todo /\ pc[w] \notin Inside
    BY <1>2 DEF AdminCalls, DirectCommit, SkipScoring, End, DirectInsert, Inside
  <2>2. \E p \in {"wait", "idle", "direct"} : pc' = [pc EXCEPT ![w] = p]
    BY <1>2 DEF AdminCalls, DirectCommit, SkipScoring, End, DirectInsert
  <2> QED
    BY <2>1, <2>2, LockMove DEF Inside
<1>3. ASSUME NEW w \in Worker,
             Commit(w) \/ \E s \in Source : Look(w, s) \/ Insert(w, s)
      PROVE  LockInv'
  <2>1. UNCHANGED todo /\ pc[w] \in Inside
    BY <1>3 DEF Commit, Look, Insert, Inside
  <2>2. \E p \in {"insert", "commit", "mark"} : pc' = [pc EXCEPT ![w] = p]
    BY <1>3 DEF Commit, Look, Insert
  <2> QED
    BY <2>1, <2>2, LockMove DEF Inside
<1>4. ASSUME NEW w \in Worker, NEW s \in Source,
             Mark(w, s) \/ RowFails(w, s) \/ DatabaseFails(w, s)
      PROVE  LockInv'
  BY <1>4, LockRow DEF Mark, RowFails, DatabaseFails, Unfit, Inside
<1>5. ASSUME NEW r \in Replica, Restart(r)
      PROVE  LockInv'
  BY <1>5 DEF Restart, LockInv, Inside
<1>6. CASE UNCHANGED vars
  BY <1>1, <1>6 DEF vars
<1>7. CASE \/ \E s \in Source : Ingest(s)
           \/ \E u \in User : RegisterUser(u)
           \/ \E d \in Device : RegisterDevice(d)
  BY <1>1, <1>7 DEF Ingest, RegisterUser, RegisterDevice, tick
<1>8. ASSUME NEW w \in Worker, NEW u \in User, Score(w, u) \/ ScoreFails(w, u)
      PROVE  LockInv'
  BY <1>1, <1>8 DEF Score, ScoreFails
<1>9. ASSUME NEW w \in Worker, Work(w)
      PROVE  LockInv'
  BY <1>2, <1>3, <1>4, <1>9 DEF Work
<1>10. CASE Fault
  BY <1>2, <1>4, <1>5, <1>8, <1>10 DEF Fault
<1> QED
  BY <1>2, <1>6, <1>7, <1>8, <1>9, <1>10, LockBegin, NormalizerAssumption
     DEF Next

\* The ticks of one replica never work on the same row: its lock makes it so.
THEOREM LockSeparatesTicks == Spec => []ProcessedByOne
<1>1. Init => LockInv
  BY DEF Init, LockInv, Inside
<1>2. LockInv => ProcessedByOne
  BY DEF LockInv, ProcessedByOne
<1> QED
  BY <1>1, <1>2, LockStepInv, PTL DEF Spec
=============================================================================
