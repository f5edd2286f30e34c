---------------------------- MODULE Normalizer ----------------------------
(***************************************************************************)
(* The normalizer (src/backend/app/services/normalizer.py): raw_user_logs  *)
(* rows become event_logs rows, and the users concerned are scored.        *)
(*                                                                         *)
(* A replica of the backend is one process with one event loop, which      *)
(* serves requests one at a time and runs the admin endpoint's tick        *)
(* itself, and one worker thread at a time for the background loop's tick. *)
(* The `Normalizer._lock` of a replica spans a whole tick.  Each helper of *)
(* db/session.py is a transaction of its own, so other threads and other   *)
(* replicas come between any two of them; an insert is visible to others   *)
(* only when it commits.  Rows are never deleted.                          *)
(***************************************************************************)
EXTENDS Integers, FiniteSets

CONSTANTS Source,      \* source_id of raw logs and of event logs
          Direct,      \* source ids posted straight to /logs/ingest
          Replica,     \* backend processes on the one database
          User, Device, NoUser, NoDevice, None,
          KeyOf,       \* (timestamp, user_id, event_type, resource) of a log
          UserOf,      \* its user_id
          DeviceOf,    \* its device_id
          TimeOf,      \* its timestamp
          Malformed,   \* logs that normalize_raw_log cannot map
          BatchSize,   \* normalizer_batch_size
          Since,       \* times at which the look-back of a scoring may start
          Limit        \* rows that score_user reads at most

ASSUME NormalizerAssumption ==
  /\ IsFiniteSet(Source) /\ None \notin Source /\ Direct \subseteq Source
  /\ NoUser \notin User /\ NoDevice \notin Device
  /\ UserOf \in [Source -> User \cup {NoUser}]
  /\ DeviceOf \in [Source -> Device \cup {NoDevice}]
  /\ TimeOf \in [Source -> Nat] /\ Since \subseteq Nat
  /\ \A s, t \in Source : KeyOf[s] = KeyOf[t] =>
       UserOf[s] = UserOf[t] /\ TimeOf[s] = TimeOf[t]
  /\ BatchSize \in Nat \ {0} /\ Limit \in Nat \ {0}

VARIABLES raw,         \* id of each log's raw_user_logs row, 0 without one
          mark,        \* the event its normalized_event_id names, or None
          events,      \* committed event_logs rows
          users, devices

VARIABLES pc, todo,    \* a tick: its place and the rows it still has to do
          hold,        \* the event row of the log in hand
          touched      \* logs normalized by this tick, their users to score

\* History: events that a scoring of their user read, events that were there but
\* that its look-back or its limit shut out, and logs whose scoring was given up.
VARIABLES scored, shut, dropped

vars == <<raw, mark, events, users, devices, pc, todo, hold, touched, scored,
          shut, dropped>>

\* A replica's background tick and its event loop.
Worker == Replica \X {"loop", "web"}
Event == [src : Source, dev : Device \cup {NoDevice}]
Inside == {"look", "insert", "commit", "mark"}

Init ==
  /\ raw = [s \in Source |-> 0] /\ mark = [s \in Source |-> None]
  /\ events = {} /\ users = {} /\ devices = {}
  /\ pc = [w \in Worker |-> "idle"] /\ todo = [w \in Worker |-> {}]
  /\ hold = [w \in Worker |-> None] /\ touched = [w \in Worker |-> {}]
  /\ scored = {} /\ shut = {} /\ dropped = {}

tick == <<pc, todo, hold, touched>>
history == <<scored, shut, dropped>>
-----------------------------------------------------------------------------
(***************************************************************************)
(* Requests served by an event loop.                                       *)
(***************************************************************************)
Serving == \E r \in Replica : pc[<<r, "web">>] = "idle"

\* ingest_raw_log and batch_ingest_raw_logs: an upsert by source_id, which
\* never touches normalized_event_id.
Ingest(s) ==
  /\ Serving /\ raw[s] = 0
  /\ raw' = [raw EXCEPT ![s] = 1 + Cardinality({t \in Source : raw[t] # 0})]
  /\ UNCHANGED <<mark, events, users, devices, tick, history>>

RegisterUser(u) ==
  /\ Serving /\ u \notin users
  /\ users' = users \cup {u}
  /\ UNCHANGED <<raw, mark, events, devices, tick, history>>

RegisterDevice(d) ==
  /\ Serving /\ d \notin devices
  /\ devices' = devices \cup {d}
  /\ UNCHANGED <<raw, mark, events, users, tick, history>>
-----------------------------------------------------------------------------
(***************************************************************************)
(* database.ingest_event.                                                  *)
(***************************************************************************)
HasUser(s) == UserOf[s] = NoUser \/ UserOf[s] \in users

\* Committed rows with the logical key of row e.
Same(e) == {f \in events : KeyOf[f.src] = KeyOf[e.src] /\ f.dev = e.dev}

\* ON CONFLICT(source_id) DO UPDATE
Stored(e) == {f \in events : f.src # e.src} \cup {e}

\* A worker that has inserted e but not committed holds the unique index entry
\* of its source_id, and whoever inserts that source_id next waits.
Blocked(w, e) ==
  \E v \in Worker \ {w} : pc[v] \in {"commit", "direct"} /\ hold[v].src = e.src

\* POST /logs/ingest: the user and the device must exist.
DirectInsert(w, s) ==
  LET e == [src |-> s, dev |-> DeviceOf[s]]
  IN  /\ w[2] = "web" /\ pc[w] = "idle"
      /\ HasUser(s) /\ DeviceOf[s] \in devices \cup {NoDevice}
      /\ ~Blocked(w, e) /\ Same(e) = {}
      /\ pc' = [pc EXCEPT ![w] = "direct"]
      /\ hold' = [hold EXCEPT ![w] = e]
      /\ UNCHANGED <<raw, mark, events, users, devices, todo, touched, history>>

DirectCommit(w) ==
  /\ pc[w] = "direct"
  /\ events' = Stored(hold[w])
  /\ pc' = [pc EXCEPT ![w] = "idle"]
  /\ hold' = [hold EXCEPT ![w] = None]
  /\ UNCHANGED <<raw, mark, users, devices, todo, touched, history>>
-----------------------------------------------------------------------------
(***************************************************************************)
(* Normalizer.run_once.                                                    *)
(***************************************************************************)
Pending == {s \in Source : raw[s] # 0 /\ mark[s] = None}

\* list_pending_raw_logs: ORDER BY id ASC LIMIT n
Batch(n) == {s \in Pending : Cardinality({t \in Pending : raw[t] < raw[s]}) < n}

\* The admin endpoint's batch_size parameter overrides the setting.
Sizes(w) == IF w[2] = "web" THEN 1 .. Cardinality(Source) ELSE {BatchSize}

\* The row in hand: rows are processed in the order of their ids.
Current(w, s) == s \in todo[w] /\ \A t \in todo[w] : raw[s] <= raw[t]

\* The loop's coroutine goes on only when the event loop is not running an
\* admin tick or waiting for the lock.
LoopFree(w) == w[2] = "web" \/ pc[<<w[1], "web">>] = "idle"

\* POST /admin/run-normalizer: the event loop waits for the lock.
AdminCalls(w) ==
  /\ w[2] = "web" /\ pc[w] = "idle"
  /\ pc' = [pc EXCEPT ![w] = "wait"]
  /\ UNCHANGED <<raw, mark, events, users, devices, todo, hold, touched, history>>

\* Mutated form: without `with self._lock`.
BeginUnlocked(w) ==
  /\ pc[w] = IF w[2] = "web" THEN "wait" ELSE "idle"
  /\ \E n \in Sizes(w) : todo' = [todo EXCEPT ![w] = Batch(n)]
  /\ pc' = [pc EXCEPT ![w] = IF Pending = {} THEN "score" ELSE "look"]
  /\ UNCHANGED <<raw, mark, events, users, devices, hold, touched, history>>

\* The lock is taken and the batch listed.
Begin(w) ==
  /\ pc[w] = IF w[2] = "web" THEN "wait" ELSE "idle"
  /\ \A v \in Worker : v[1] = w[1] => pc[v] \notin Inside
  /\ \E n \in Sizes(w) : todo' = [todo EXCEPT ![w] = Batch(n)]
  /\ pc' = [pc EXCEPT ![w] = IF Pending = {} THEN "score" ELSE "look"]
  /\ UNCHANGED <<raw, mark, events, users, devices, hold, touched, history>>

\* Row s is done, with or without success.
NextRow(w, s) ==
  /\ todo' = [todo EXCEPT ![w] = @ \ {s}]
  /\ pc' = [pc EXCEPT ![w] = IF todo[w] = {s} THEN "score" ELSE "look"]
  /\ hold' = [hold EXCEPT ![w] = None]

\* normalize_raw_log, which drops a device that is not registered, and
\* find_event_log_by_source_id.
Look(w, s) ==
  LET dev   == IF DeviceOf[s] \in devices THEN DeviceOf[s] ELSE NoDevice
      found == {e \in events : e.src = s}
  IN  /\ pc[w] = "look" /\ Current(w, s) /\ s \notin Malformed
      /\ IF found = {}
         THEN /\ hold' = [hold EXCEPT ![w] = [src |-> s, dev |-> dev]]
              /\ pc' = [pc EXCEPT ![w] = "insert"]
         ELSE /\ \E e \in found : hold' = [hold EXCEPT ![w] = e]
              /\ pc' = [pc EXCEPT ![w] = "mark"]
      /\ UNCHANGED <<raw, mark, events, users, devices, todo, touched, history>>

\* Mutated form: a logical duplicate returns the payload instead of the row
\* that is there.
InsertUnread(w, s) ==
  /\ pc[w] = "insert" /\ Current(w, s)
  /\ HasUser(s) /\ ~Blocked(w, hold[w])
  /\ pc' = [pc EXCEPT ![w] = IF Same(hold[w]) = {} THEN "commit" ELSE "mark"]
  /\ UNCHANGED <<raw, mark, events, users, devices, todo, hold, touched, history>>

\* ingest_event: the statement runs, or finds a logical duplicate and returns
\* that row.
Insert(w, s) ==
  /\ pc[w] = "insert" /\ Current(w, s)
  /\ HasUser(s) /\ ~Blocked(w, hold[w])
  /\ IF Same(hold[w]) = {}
     THEN pc' = [pc EXCEPT ![w] = "commit"] /\ UNCHANGED hold
     ELSE /\ \E e \in Same(hold[w]) : hold' = [hold EXCEPT ![w] = e]
          /\ pc' = [pc EXCEPT ![w] = "mark"]
  /\ UNCHANGED <<raw, mark, events, users, devices, todo, touched, history>>

Commit(w) ==
  /\ pc[w] = "commit"
  /\ events' = Stored(hold[w])
  /\ pc' = [pc EXCEPT ![w] = "mark"]
  /\ UNCHANGED <<raw, mark, users, devices, todo, hold, touched, history>>

\* Mutated form: the tick scores only users whose event it inserted itself.
MarkOnlyNew(w, s) ==
  /\ pc[w] = "mark" /\ Current(w, s)
  /\ mark' = [mark EXCEPT ![s] = hold[w].src]
  /\ touched' = [touched EXCEPT ![w] =
                   IF UserOf[s] = NoUser \/ hold[w].src # s THEN @ ELSE @ \cup {s}]
  /\ NextRow(w, s)
  /\ UNCHANGED <<raw, events, users, devices, history>>

\* mark_raw_log_normalized.
Mark(w, s) ==
  /\ pc[w] = "mark" /\ Current(w, s)
  /\ mark' = [mark EXCEPT ![s] = hold[w].src]
  /\ touched' = [touched EXCEPT ![w] =
                   IF UserOf[s] = NoUser THEN @ ELSE @ \cup {s}]
  /\ NextRow(w, s)
  /\ UNCHANGED <<raw, events, users, devices, history>>

\* A malformed log, or one whose user does not exist (foreign key).
Unfit(w, s) ==
  \/ pc[w] = "look" /\ s \in Malformed
  \/ pc[w] = "insert" /\ ~HasUser(s)

\* Mutated form: the tick gives up at the first row that fails.
RowFailsAborting(w, s) ==
  /\ Current(w, s) /\ Unfit(w, s)
  /\ todo' = [todo EXCEPT ![w] = {}]
  /\ pc' = [pc EXCEPT ![w] = "score"]
  /\ hold' = [hold EXCEPT ![w] = None]
  /\ UNCHANGED <<raw, mark, events, users, devices, touched, history>>

\* The row stays pending, and the tick goes on.
RowFails(w, s) ==
  /\ Current(w, s) /\ Unfit(w, s)
  /\ NextRow(w, s)
  /\ UNCHANGED <<raw, mark, events, users, devices, touched, history>>

\* The database fails on a row that was fit: it stays pending, even if its event
\* was committed.
DatabaseFails(w, s) ==
  /\ pc[w] \in Inside /\ Current(w, s) /\ ~Unfit(w, s)
  /\ \/ pc[w] = "commit" /\ events' = Stored(hold[w])
     \/ UNCHANGED events
  /\ NextRow(w, s)
  /\ UNCHANGED <<raw, mark, users, devices, touched, history>>
-----------------------------------------------------------------------------
(***************************************************************************)
(* After the lock is released: the users are scored one by one.            *)
(***************************************************************************)
LogsOf(u) == {s \in Source : UserOf[s] = u}

EventsOf(u) == {s \in LogsOf(u) : \E e \in events : e.src = s}

\* list_event_logs_for_user: of the events since then the oldest, up to Limit.
Oldest(u, since, R) ==
  LET open == {s \in EventsOf(u) : TimeOf[s] >= since}
  IN  /\ R \subseteq open
      /\ \A s \in R, t \in open \ R : TimeOf[s] <= TimeOf[t]
      /\ IF R = open THEN Cardinality(R) <= Limit ELSE Cardinality(R) = Limit

\* score_user scores what it reads; with nothing to read it does nothing.
Score(w, u) ==
  /\ pc[w] = "score" /\ touched[w] \cap LogsOf(u) # {} /\ LoopFree(w)
  /\ \E since \in Since, R \in SUBSET EventsOf(u) :
       /\ Oldest(u, since, R)
       /\ scored' = scored \cup R
       /\ shut' = shut \cup (EventsOf(u) \ R)
  /\ touched' = [touched EXCEPT ![w] = @ \ LogsOf(u)]
  /\ UNCHANGED <<raw, mark, events, users, devices, pc, todo, hold, dropped>>

\* It raises or returns an error, which nobody looks at.
ScoreFails(w, u) ==
  /\ pc[w] = "score" /\ touched[w] \cap LogsOf(u) # {} /\ LoopFree(w)
  /\ dropped' = dropped \cup (touched[w] \cap LogsOf(u))
  /\ touched' = [touched EXCEPT ![w] = @ \ LogsOf(u)]
  /\ UNCHANGED <<raw, mark, events, users, devices, pc, todo, hold, scored, shut>>

\* trigger_scoring = False: the callback does nothing.
SkipScoring(w) ==
  /\ pc[w] = "score" /\ w[2] = "web" /\ touched[w] # {}
  /\ dropped' = dropped \cup touched[w]
  /\ touched' = [touched EXCEPT ![w] = {}]
  /\ pc' = [pc EXCEPT ![w] = "idle"]
  /\ UNCHANGED <<raw, mark, events, users, devices, todo, hold, scored, shut>>

End(w) ==
  /\ pc[w] = "score" /\ touched[w] = {} /\ LoopFree(w)
  /\ pc' = [pc EXCEPT ![w] = "idle"]
  /\ UNCHANGED <<raw, mark, events, users, devices, todo, hold, touched, history>>

\* The process is restarted in the middle of its work: its ticks are forgotten,
\* its transactions rolled back.
Restart(r) ==
  LET mine == {w \in Worker : w[1] = r}
  IN  /\ \E w \in mine : pc[w] \notin {"idle", "score"} \/ touched[w] # {}
      /\ pc' = [w \in Worker |-> IF w \in mine THEN "idle" ELSE pc[w]]
      /\ todo' = [w \in Worker |-> IF w \in mine THEN {} ELSE todo[w]]
      /\ hold' = [w \in Worker |-> IF w \in mine THEN None ELSE hold[w]]
      /\ touched' = [w \in Worker |-> IF w \in mine THEN {} ELSE touched[w]]
      /\ dropped' = dropped \cup UNION {touched[w] : w \in mine}
      /\ UNCHANGED <<raw, mark, events, users, devices, scored, shut>>
-----------------------------------------------------------------------------
\* A step of a tick that needs nothing but a working database.
Work(w) ==
  \/ \E s \in Source :
       Look(w, s) \/ Insert(w, s) \/ Mark(w, s) \/ RowFails(w, s)
  \/ Commit(w) \/ DirectCommit(w)

\* What the environment does against a tick.
Fault ==
  \/ \E w \in Worker : \/ \E s \in Source : DatabaseFails(w, s)
                       \/ \E u \in User : ScoreFails(w, u)
                       \/ SkipScoring(w)
  \/ \E r \in Replica : Restart(r)

Next ==
  \/ \E s \in Source : Ingest(s)
  \/ \E u \in User : RegisterUser(u)
  \/ \E d \in Device : RegisterDevice(d)
  \/ \E w \in Worker : \/ AdminCalls(w) \/ Begin(w) \/ Work(w) \/ End(w)
                       \/ \E s \in Direct : DirectInsert(w, s)
                       \/ \E u \in User : Score(w, u)
  \/ Fault

Spec == Init /\ [][Next]_vars

\* Threads and the database make progress, and the event loop serves its
\* callbacks in turn, however often an administrator calls (strong fairness
\* where an admin tick may come between).
Fairness ==
  \A w \in Worker :
    /\ WF_vars(Work(w)) /\ SF_vars(Begin(w))
    /\ \A u \in User : SF_vars(Score(w, u))
    /\ SF_vars(End(w))

FairSpec == Spec /\ Fairness
-----------------------------------------------------------------------------
(***************************************************************************)
(* Properties.                                                             *)
(***************************************************************************)
TypeOK ==
  /\ raw \in [Source -> Nat] /\ mark \in [Source -> Source \cup {None}]
  /\ events \subseteq Event /\ users \subseteq User /\ devices \subseteq Device
  /\ pc \in [Worker -> Inside \cup {"idle", "wait", "direct", "score"}]
  /\ todo \in [Worker -> SUBSET Source]
  /\ hold \in [Worker -> Event \cup {None}]
  /\ touched \in [Worker -> SUBSET Source]
  /\ scored \subseteq Source /\ shut \subseteq Source /\ dropped \subseteq Source

\* A log that counts as normalized names a committed event of its own source,
\* or one with its logical key: normalized_event_id never dangles.
MarksRight ==
  \A s \in Source : mark[s] # None =>
    \E e \in events : e.src = mark[s] /\ KeyOf[e.src] = KeyOf[s]

\* A scoring of the event's user came after the event was committed.  Whether it
\* read the event is up to its look-back and its limit (user_scoring.py:174-177).
Considered == scored \cup shut

\* Once a log is normalized, its user is scored after the log's event was
\* committed, or a live tick still has to score them, or a fault gave the scoring
\* up: also when an earlier tick inserted the event and died before marking the
\* log, and when the event is another source's.
ScoredOrDue ==
  \A s \in Source : mark[s] # None /\ UserOf[s] # NoUser =>
    \/ mark[s] \in Considered \/ s \in dropped
    \/ \E w \in Worker : s \in touched[w]

\* No raw log is in the hands of two ticks of one process (normalizer.py:
\* "process-safe via a lock").  Nothing keeps two replicas apart.
ProcessedByOne ==
  \A v, w \in Worker : v # w /\ v[1] = w[1] => todo[v] \cap todo[w] = {}

\* A log that the normalizer can convert now.
Convertible(s) == raw[s] # 0 /\ s \notin Malformed /\ HasUser(s)

\* A log is an event, and its user scored after it or the scoring given up.
Done(s) ==
  /\ mark[s] # None
  /\ UserOf[s] = NoUser \/ mark[s] \in Considered \/ s \in dropped

\* The pending rows that cannot be converted fill whole batches.
Clogged == Cardinality({s \in Pending : ~Convertible(s)}) >= BatchSize

\* Once faults cease, every convertible log becomes an event and its user is
\* scored after that, unless rows that keep failing fill every batch.
ConvertedAndScored ==
  <>[][~Fault]_vars =>
    \A s \in Source : Convertible(s) ~> (Done(s) \/ Clogged)
=============================================================================
