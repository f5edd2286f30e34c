---------------------------- MODULE EventTables ----------------------------
(***************************************************************************)
(* The tables of the event store that the dataset loaders share with the   *)
(* server (db/session.py): users, devices, event_logs, the alerts that     *)
(* name an event, and what a start of the server seeds.                    *)
(*                                                                         *)
(* The rows of the data files are numbered in the order of their           *)
(* timestamps.  Event types, actions, resources and payloads follow from   *)
(* the row: two stored events are logical duplicates iff they came from    *)
(* the same row and carry the timestamp in the same format.  A risk score  *)
(* is abstracted to whether it reaches the 45 an alert needs.              *)
(***************************************************************************)
EXTENDS Naturals, FiniteSets, FiniteSetsExt

CONSTANTS User, Device,     \* numbered: rankings break ties by identifier
          NoUser, NoDevice, \* an absent user or device of a row, an unset owner
          Missing,          \* the owner of a device that is not registered
          LastRow,          \* the rows of all data files are 1..LastRow
          UserOf, DeviceOf, \* whom a row names
          Bad,              \* rows without a timestamp
          TopUsers,         \* ranks whose score reaches the threshold
          TopDevices

Row == 1..LastRow
Prefix == {"cert-r42", "cert-r4.2", "mock", "agent"}
Event == [prefix : Prefix, row : Row, iso : BOOLEAN]

ASSUME TablesAssumption ==
  /\ User \subseteq Nat /\ Device \subseteq Nat /\ LastRow \in Nat
  /\ NoUser \notin User /\ Missing \notin User \cup {NoUser} /\ NoDevice \notin Device
  /\ UserOf \in [Row -> User \cup {NoUser}]
  /\ DeviceOf \in [Row -> Device \cup {NoDevice}] /\ Bad \subseteq Row
  /\ TopUsers \in Nat /\ TopDevices \in Nat

VARIABLES users,   \* ids in users
          owner,   \* assigned_user_id of each device
          events,  \* event_logs
          alerts,  \* alerts with an event_log_id
          risky,   \* users and
          hot,     \* devices whose risk_score is at least 45
          link,    \* the user whose app_account_id is the employee account
          active   \* admin@demo.com.is_active

tables == <<users, owner, events, alerts, risky, hot, link, active>>

TablesInit ==
  /\ users = {} /\ owner = [d \in Device |-> Missing] /\ events = {}
  /\ alerts = {} /\ risky = {} /\ hot = {} /\ link = NoUser /\ active = TRUE

Known == {d \in Device : owner[d] # Missing}
UsersIn(R) == {UserOf[r] : r \in R} \ {NoUser}
DevicesIn(R) == {DeviceOf[r] : r \in R} \ {NoDevice}
Key(e) == [prefix |-> e.prefix, row |-> e.row]
RowsOf(E) == {e.row : e \in E}
Id(a) == [event |-> a.event, by |-> a.by]
Ids(A) == {Id(a) : a \in A}
-----------------------------------------------------------------------------
(***************************************************************************)
(* initialize_database, one transaction at every start of the server and   *)
(* of most loaders: the demo accounts are active again, and the employee   *)
(* account is linked to a user of the highest risk if it has none.         *)
(***************************************************************************)
Bootstrap ==
  /\ active' = TRUE
  /\ IF link # NoUser \/ users = {} THEN UNCHANGED link
     ELSE link' \in IF risky = {} THEN users ELSE risky

Startup == Bootstrap /\ UNCHANGED <<users, owner, events, alerts, risky, hot>>
-----------------------------------------------------------------------------
(***************************************************************************)
(* The endpoints loaders and people use.                                   *)
(***************************************************************************)
\* POST /users; an id that exists is a 409.
CreateUser(u) ==
  /\ users' = IF active THEN users \cup {u} ELSE users
  /\ UNCHANGED <<owner, events, alerts, risky, hot, link, active>>

\* POST /devices; 409 for a device that exists, 422 for an owner that does not.
CreateDevice(d, u) ==
  /\ owner' = IF active /\ d \notin Known /\ u \in users \cup {NoUser}
                THEN [owner EXCEPT ![d] = u] ELSE owner
  /\ UNCHANGED <<users, events, alerts, risky, hot, link, active>>

Acceptable(r) ==
  /\ active
  /\ UserOf[r] \in users \cup {NoUser} /\ DeviceOf[r] \in Known \cup {NoDevice}

\* ingest_event: a logical duplicate is answered with the row that is there.
Ingested(p, r) ==
  IF \E e \in events : e.row = r /\ e.iso THEN events
  ELSE {e \in events : ~(e.prefix = p /\ e.row = r)}
         \cup {[prefix |-> p, row |-> r, iso |-> TRUE]}

\* PATCH /devices/{device_id}; a null takes the device from its owner.
Assign(d, u) ==
  /\ d \in Known /\ u \in users \cup {NoUser}
  /\ owner' = [owner EXCEPT ![d] = u]
  /\ UNCHANGED <<users, events, alerts, risky, hot, link, active>>

\* PATCH /alerts/{alert_id}/status.
Triage(a) ==
  /\ a \in alerts
  /\ alerts' = (alerts \ {a}) \cup {[a EXCEPT !.triaged = TRUE]}
  /\ UNCHANGED <<users, owner, events, risky, hot, link, active>>

\* PATCH /admin/accounts/{account_id} by another administrator.
Lock(locked) ==
  /\ active' = ~locked
  /\ UNCHANGED <<users, owner, events, alerts, risky, hot, link>>
-----------------------------------------------------------------------------
(***************************************************************************)
(* The statements the loaders share, as the tables they leave.             *)
(***************************************************************************)
\* Mutated form: the loader's owner comes first.
CoalescedNew(D, own) ==
  [d \in Device |->
     IF d \in D /\ (own[d] # NoUser \/ owner[d] = Missing) THEN own[d] ELSE owner[d]]

\* _upsert_devices: COALESCE(devices.assigned_user_id, excluded...).
Coalesced(D, own) ==
  [d \in Device |->
     IF d \in D /\ owner[d] \in {Missing, NoUser} THEN own[d] ELSE owner[d]]

\* ON CONFLICT(source_id) DO UPDATE.
Upserted(p, iso, R) ==
  {e \in events : ~(e.prefix = p /\ e.row \in R)}
    \cup {[prefix |-> p, row |-> r, iso |-> iso] : r \in R}

\* _recalculate_risk_scores: by number of events, then by identifier.
Count(f, E, x) == Cardinality({e \in E : f[e.row] = x})
Before(f, E, x, y) ==
  \/ Count(f, E, x) > Count(f, E, y)
  \/ Count(f, E, x) = Count(f, E, y) /\ x < y

Top(f, E, X, n) ==
  {x \in X : Cardinality({y \in X : Before(f, E, y, x)}) < n}

RiskyIn(E) ==
  LET U == UsersIn(RowsOf(E)) IN (risky \ U) \cup Top(UserOf, E, U, TopUsers)
HotIn(E) ==
  LET D == DevicesIn(RowsOf(E)) IN (hot \ D) \cup Top(DeviceOf, E, D, TopDevices)

\* One UPDATE per user and then per device, in the order of the ranks: the
\* scores after some of them.
Heads(f, E, X) == {Top(f, E, X, n) : n \in 0..Cardinality(X)}
PartlyScored(E) ==
  LET U == UsersIn(RowsOf(E))
  IN  \E P \in Heads(UserOf, E, U), Q \in Heads(DeviceOf, E, DevicesIn(RowsOf(E))) :
        /\ P = U \/ Q = {}
        /\ risky' = (risky \ P) \cup (RiskyIn(E) \cap P)
        /\ hot' = (hot \ Q) \cup (HotIn(E) \cap Q)

\* Timestamps are compared as text: one that was not converted to ISO is older,
\* and an empty one the oldest.
Stamp(e) == IF e.row \in Bad THEN 0 ELSE IF e.iso THEN LastRow + e.row ELSE e.row
Newest(E, u) ==
  LET mine == {e \in E : UserOf[e.row] = u}
  IN  {e \in mine : \A f \in mine : Stamp(f) <= Stamp(e)}

\* _create_alerts_from_events, the SELECT: the newest event of each user, if
\* the user or the device is risky enough.
Selections(E, ris, hots) ==
  LET U == UsersIn(RowsOf(E))
      risk(e) == UserOf[e.row] \in ris \/ DeviceOf[e.row] \in hots
  IN  {{Key(pick[u]) : u \in {v \in U : risk(pick[v])}} :
         pick \in {f \in [U -> E] : \A u \in U : f[u] \in Newest(E, u)}}

\* ... and the rows of the INSERTs of run n.
Raised(n, keys) == {[event |-> k, by |-> n, triaged |-> FALSE] : k \in keys}
=============================================================================
