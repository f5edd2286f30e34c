------------------------------ MODULE Datasets ------------------------------
(***************************************************************************)
(* The dataset loaders at work on the event store:                         *)
(*                                                                         *)
(*   "all"      src/database/load_all_data.py, in batches                  *)
(*   "full"     scripts/import_cert_full.py, in batches                    *)
(*   "demo"     src/database/load_demo_data.py, in one transaction         *)
(*   "seed"     src/database/seed_mock_data.py, in one transaction         *)
(*   "direct"   scripts/import_mock_data.py --direct, in one transaction   *)
(*   "certapi"  src/database/load_cert_data.py, over the HTTP interface    *)
(*   "mockapi"  scripts/import_mock_data.py, over the HTTP interface       *)
(*                                                                         *)
(* A step is a transaction, which takes effect when it commits, but the    *)
(* transactions that make the alerts again are taken statement by          *)
(* statement: each statement sees what was committed when it began.  A     *)
(* loader may be killed, time out or fail anywhere (Crash), which rolls    *)
(* its open transaction back, or be stopped by Ctrl-C between two          *)
(* statements (Interrupt), which commits what it has written.  A           *)
(* transaction that writes a row another one has written waits for that    *)
(* one to end.                                                             *)
(***************************************************************************)
EXTENDS EventTables, Sequences

CONSTANTS Loader,      \* loader processes
          Kind,        \* what they may run
          Files,       \* per kind, its files: sequences of rows, empty if missing
          Profiles,    \* users of psychometric.csv and LDAP
          BatchSize,
          MaxStarts,   \* bound: loaders ever started
          LiveRows,    \* bound: events that come from agents
          Assignees,   \* bound: whom administrators assign devices to
          Watched      \* bound: users whose alerts analysts triage

ASSUME LoadersAssumption ==
  /\ Kind \subseteq {"all", "full", "demo", "seed", "direct", "certapi", "mockapi"}
  /\ Files \in [Kind -> Seq(Seq(Row)) \ {<<>>}]
  /\ Profiles \subseteq User /\ BatchSize \in Nat \ {0} /\ MaxStarts \in Nat
  /\ LiveRows \subseteq Row /\ Assignees \subseteq User \cup {NoUser}
  /\ Watched \subseteq User

VARIABLES loader,      \* what each process stands at
          starts,      \* loaders started
          raced        \* history: starts during whose alert transaction another committed

vars == <<tables, loader, starts, raced>>

\* counted are the rows it reports as imported, gone (history) those of them
\* that the reset of another loader has deleted since.  Of its open transaction,
\* doomed are the alerts its DELETE deletes, picked the events it is yet to
\* insert an alert for, made those it has, risky and hot the scores it has
\* written, and aborted says that a statement failed.
Idle == [pc |-> "idle"]
Fresh(k, n, pc) ==
  [pc |-> pc, kind |-> k, start |-> n, file |-> 1, pos |-> 0, counted |-> {},
   gone |-> {}, picked |-> {}, made |-> {}, doomed |-> {}, risky |-> {}, hot |-> {},
   aborted |-> FALSE]

Init ==
  /\ TablesInit
  /\ loader = [l \in Loader |-> Idle] /\ starts = 0 /\ raced = {}

Ended(l) == loader[l].pc \in {"idle", "done", "dead", "fk"}
At(l, pc) == loader[l].pc = pc
Goto(l, pc) == loader' = [loader EXCEPT ![l].pc = pc]
Is(l, kinds) == ~Ended(l) /\ loader[l].kind \in kinds

FilesOf(l) == Files[loader[l].kind]
File(l) == FilesOf(l)[loader[l].file]
FirstFiles(k, n) == UNION {{Files[k][f][i] : i \in DOMAIN Files[k][f]} : f \in 1..n}
AllRows(k) == FirstFiles(k, Len(Files[k]))
DemoRows == AllRows("demo") \ Bad

\* What an open transaction holds: load_all_data and load_demo_data, which make
\* the alerts again in the transaction of the scores, the users and devices;
\* load_demo_data the rows it has written too; and all three the alerts they
\* have deleted and the events they have made alerts for.
Holds(l) == Is(l, {"all", "demo"}) /\ loader[l].pc \in {"alerts", "deleting", "inserting"}
WriteFree(l) == \A m \in Loader \ {l} : ~Holds(m)
Written(l) == IF Holds(l) /\ loader[l].kind = "demo" THEN DemoRows ELSE {}
Deleting(l) == IF At(l, "inserting") THEN loader[l].doomed ELSE {}
Altering(l) == loader[l].pc \in {"deleting", "inserting"}

\* initialize_database alters users: it waits for every transaction open on it.
Open(m) ==
  Holds(m) \/ At(m, "inserting") \/ (Is(m, {"seed", "direct"}) /\ loader[m].file > 1)
NoneOpen == \A m \in Loader : ~Open(m)
-----------------------------------------------------------------------------
FirstPc(k) ==
  CASE k \in {"all", "full"} -> "reset"
    [] k \in {"demo", "seed", "direct"} -> k
    [] k \in {"certapi", "mockapi"} -> "users"

\* initialize_database, or a log in where the script uses the HTTP interface.
Start(l, k) ==
  /\ Ended(l) /\ starts < MaxStarts
  /\ starts' = starts + 1
  /\ loader' = [loader EXCEPT ![l] = Fresh(k, starts + 1, FirstPc(k))]
  /\ IF k \in {"certapi", "mockapi"}
       THEN active /\ UNCHANGED <<link, active>>
       ELSE NoneOpen /\ Bootstrap
  /\ UNCHANGED <<users, owner, events, alerts, risky, hot, raced>>

\* Only import_cert_full calls init_pool: the other scripts end here unless a
\* process whose pool is open calls their main, as POST /datasets/.../import
\* does with load_demo_data.
StartFails(l) ==
  /\ Ended(l) /\ starts < MaxStarts
  /\ starts' = starts + 1
  /\ loader' = [loader EXCEPT ![l] = Idle]
  /\ UNCHANGED <<tables, raced>>

\* End of a run: nothing of an open transaction is left.
Ends(r, pc) ==
  [r EXCEPT !.pc = pc, !.picked = {}, !.made = {}, !.doomed = {}, !.risky = {}, !.hot = {}]

Crash(l) ==
  /\ ~Ended(l) /\ loader' = [loader EXCEPT ![l] = Ends(@, "dead")]
  /\ UNCHANGED <<tables, starts, raced>>
-----------------------------------------------------------------------------
(***************************************************************************)
(* load_all_data and import_cert_full: --reset-cert-events, the profiles,  *)
(* the files batch by batch, the scores and the alerts.                    *)
(***************************************************************************)
Cert(E) == {e \in E : e.prefix = "cert-r42"}

\* A reset waits for the events another one has written or has made an alert
\* for, and for the alerts it deletes.  An alert made meanwhile then fails it
\* (Crash); else it is as if it came later.
ResetFree ==
  \A m \in Loader :
    /\ Written(m) \cap RowsOf(Cert(events)) = {}
    /\ At(m, "inserting") => loader[m].made \cap {Key(e) : e \in Cert(events)} = {}
    /\ \A a \in alerts : a.event.prefix = "cert-r42" => Id(a) \notin Deleting(m)

\* The loader that has counted the rows reports them all the same.
Lost(r) == [r EXCEPT !.gone = @ \cup (r.counted \ RowsOf(events \ Cert(events)))]

\* Alerts of the events go first: alerts.event_log_id refers to them.  The rows
\* of a transaction still open are not there to be deleted.
Reset(l) ==
  /\ At(l, "reset") /\ ResetFree
  /\ events' = events \ Cert(events)
  /\ alerts' = {a \in alerts : a.event.prefix # "cert-r42"}
  /\ loader' = [m \in Loader |->
       IF m = l THEN [loader[l] EXCEPT !.pc = "profiles"]
       ELSE IF loader[m] = Idle \/ Is(m, {"seed", "direct"}) THEN loader[m]
       ELSE Lost(loader[m])]
  /\ UNCHANGED <<users, owner, risky, hot, link, active, starts, raced>>

NoReset(l) ==
  /\ At(l, "reset") /\ Goto(l, "profiles")
  /\ UNCHANGED <<tables, starts, raced>>

\* load_all_data commits the users of the profiles with its first batch.
LoadProfiles(l) ==
  /\ At(l, "profiles") /\ Goto(l, "files")
  /\ IF loader[l].kind = "full"
       THEN WriteFree(l) /\ users' = users \cup Profiles ELSE UNCHANGED users
  /\ UNCHANGED <<owner, events, alerts, risky, hot, link, active, starts, raced>>

\* The file is read up to the row that fills the batch, or to its end.
BatchEnd(l) ==
  LET good(n) == {i \in (loader[l].pos + 1)..n : File(l)[i] \notin Bad}
      full == {n \in loader[l].pos..Len(File(l)) : Cardinality(good(n)) = BatchSize}
  IN  IF full = {} THEN Len(File(l)) ELSE Min(full)

Between(l, i, j) == {File(l)[n] : n \in i..j} \ Bad
Batch(l) == Between(l, loader[l].pos + 1, BatchEnd(l))

\* Rows read so far, in this file or an earlier one, and the first of them on
\* a device that names a user: files are compared before positions.
Read(l) ==
  ((UNION {{FilesOf(l)[f][i] : i \in DOMAIN FilesOf(l)[f]} :
             f \in 1..(loader[l].file - 1)}) \ Bad)
    \cup Between(l, 1, BatchEnd(l))

Spots(k, R, d) ==
  {p \in UNION {{f} \X DOMAIN Files[k][f] : f \in DOMAIN Files[k]} :
     LET r == Files[k][p[1]][p[2]]
     IN  r \in R /\ DeviceOf[r] = d /\ UserOf[r] # NoUser}

Earlier(p, q) == p[1] < q[1] \/ (p[1] = q[1] /\ p[2] <= q[2])

FirstSeen(k, R, d) ==
  LET spots == Spots(k, R, d)
      p == CHOOSE p \in spots : \A q \in spots : Earlier(p, q)
  IN  IF spots = {} THEN NoUser ELSE UserOf[Files[k][p[1]][p[2]]]

\* Mutated form: the users of the batch are written with the next one.
BatchUsersLate(l) ==
  IF loader[l].kind = "all" THEN Profiles \cup UsersIn(Read(l) \ Batch(l))
  ELSE UsersIn(Read(l) \ Batch(l))

\* load_all_data writes every user and device seen so far with each batch,
\* import_cert_full those of the batch.
BatchUsers(l) ==
  IF loader[l].kind = "all" THEN Profiles \cup UsersIn(Read(l)) ELSE UsersIn(Batch(l))

BatchDevices(l) ==
  IF loader[l].kind = "all" THEN DevicesIn(Read(l)) ELSE DevicesIn(Batch(l))

Resolve(us, ds, own, R) ==
  /\ UsersIn(R) \cup ({own[d] : d \in ds} \ {NoUser}) \subseteq users \cup us
  /\ DevicesIn(R) \subseteq Known \cup ds

\* The three upserts of a batch, a file or a data set.
Store(us, ds, own, iso, R) ==
  /\ users' = users \cup us
  /\ owner' = Coalesced(ds, own)
  /\ events' = Upserted("cert-r42", iso, R)

Advance(l, done) ==
  LET end == BatchEnd(l) = Len(File(l))
      last == loader[l].file = Len(FilesOf(l))
  IN  loader' = [loader EXCEPT
        ![l].pos = IF end THEN 0 ELSE BatchEnd(l),
        ![l].file = IF end /\ ~last THEN @ + 1 ELSE @,
        ![l].pc = IF end /\ last THEN "scores" ELSE @,
        ![l].counted = @ \cup done,
        ![l].gone = @ \ done]

\* Mutated form: commits at the end of the file and counts at each batch.
FlushPerFile(l) ==
  LET own == [d \in Device |-> FirstSeen(loader[l].kind, Read(l), d)]
      R == Between(l, 1, BatchEnd(l))
  IN  /\ At(l, "files") /\ WriteFree(l) /\ Advance(l, Batch(l))
      /\ IF BatchEnd(l) < Len(File(l)) THEN UNCHANGED <<users, owner, events>>
         ELSE /\ users' = users \cup Profiles \cup UsersIn(Read(l))
              /\ owner' = Coalesced(DevicesIn(Read(l)), own)
              /\ events' = Upserted("cert-r42", TRUE, R)
      /\ UNCHANGED <<alerts, risky, hot, link, active, starts, raced>>

Flush(l) ==
  LET own == [d \in Device |-> FirstSeen(loader[l].kind, Read(l), d)]
      us == BatchUsers(l)
      ds == BatchDevices(l)
  IN  /\ At(l, "files") /\ WriteFree(l)
      /\ IF Batch(l) = {}
           THEN Advance(l, {}) /\ UNCHANGED <<users, owner, events>>
         ELSE IF Resolve(us, ds, own, Batch(l))
           THEN Store(us, ds, own, TRUE, Batch(l)) /\ Advance(l, Batch(l))
         ELSE Goto(l, "fk") /\ UNCHANGED <<users, owner, events>>
      /\ UNCHANGED <<alerts, risky, hot, link, active, starts, raced>>

\* import_cert_full commits the scores; load_all_data keeps them, and its locks
\* on users and devices, until the alerts are written.
Score(l) ==
  /\ At(l, "scores") /\ WriteFree(l)
  /\ IF loader[l].kind = "full"
       THEN risky' = RiskyIn(events) /\ hot' = HotIn(events) /\ Goto(l, "alerts")
       ELSE /\ loader' = [loader EXCEPT ![l].pc = "alerts", ![l].risky = RiskyIn(events),
                                        ![l].hot = HotIn(events)]
            /\ UNCHANGED <<risky, hot>>
  /\ UNCHANGED <<users, owner, events, alerts, link, active, starts, raced>>
-----------------------------------------------------------------------------
(***************************************************************************)
(* The alerts are made again: load_all_data and load_demo_data do so in    *)
(* the transaction of the scores, import_cert_full in one of its own.      *)
(***************************************************************************)
\* What its statements see of events, risky and hot.
View(l) ==
  IF loader[l].kind = "demo" THEN Upserted("cert-r42", TRUE, DemoRows) ELSE events
RiskyOf(l) == IF Holds(l) THEN loader[l].risky ELSE risky
HotOf(l) == IF Holds(l) THEN loader[l].hot ELSE hot

\* Mutated form: keeps the alerts an analyst has looked at.
DeleteUntriaged(l) ==
  /\ ~Ended(l) /\ At(l, "alerts")
  /\ loader' = [loader EXCEPT ![l].pc = "deleting",
                              ![l].doomed = Ids({a \in alerts : ~a.triaged})]
  /\ UNCHANGED <<tables, starts, raced>>

\* The DELETE deletes the alerts that are committed when it begins, however long
\* it then waits for another one that is deleting them.
DeleteAlerts(l) ==
  /\ ~Ended(l) /\ At(l, "alerts")
  /\ loader' = [loader EXCEPT ![l].pc = "deleting", ![l].doomed = Ids(alerts)]
  /\ UNCHANGED <<tables, starts, raced>>

PickAlerts(l) ==
  /\ At(l, "deleting")
  /\ \A m \in Loader \ {l} : Deleting(m) \cap loader[l].doomed \cap Ids(alerts) = {}
  /\ \E keys \in Selections(View(l), RiskyOf(l), HotOf(l)) :
       loader' = [loader EXCEPT ![l].pc = "inserting", ![l].picked = keys]
  /\ UNCHANGED <<tables, starts, raced>>

Left(l) == {a \in alerts : Id(a) \notin loader[l].doomed}

\* INSERT ... WHERE NOT EXISTS; refused (Crash) once a reset took the event.
InsertAlert(l) ==
  /\ At(l, "inserting")
  /\ \E k \in loader[l].picked \cap {Key(e) : e \in View(l)} :
       LET new == {k} \ {a.event : a \in Left(l)}
       IN  loader' = [loader EXCEPT ![l].picked = @ \ {k}, ![l].made = @ \cup new]
  /\ UNCHANGED <<tables, starts, raced>>

\* load_demo_data has written all its rows by then.
StoreDemo ==
  Store(UsersIn(DemoRows), DevicesIn(DemoRows),
        [d \in Device |-> FirstSeen("demo", DemoRows, d)], TRUE, DemoRows)

\* Runs whose open alert transactions another one overtakes by committing.
Overtaken(l) == {loader[m].start : m \in {m \in Loader \ {l} : Altering(m)}}

Alerted(l) ==
  /\ alerts' = Left(l) \cup Raised(loader[l].start, loader[l].made)
  /\ raced' = raced \cup Overtaken(l)
  /\ IF Holds(l) THEN risky' = loader[l].risky /\ hot' = loader[l].hot
     ELSE UNCHANGED <<risky, hot>>
  /\ IF loader[l].kind = "demo" THEN StoreDemo ELSE UNCHANGED <<users, owner, events>>

CommitAlerts(l) ==
  LET end == Ends(loader[l], "done")
      rows == IF loader[l].kind = "demo" THEN DemoRows ELSE end.counted
  IN  /\ At(l, "inserting") /\ loader[l].picked = {}
      /\ Alerted(l)
      /\ loader' = [loader EXCEPT ![l] = [end EXCEPT !.counted = rows]]
      /\ UNCHANGED <<link, active, starts>>
-----------------------------------------------------------------------------
(***************************************************************************)
(* load_demo_data: all of the above in one transaction, up to the scores   *)
(* here.                                                                   *)
(***************************************************************************)
Demo(l) ==
  LET E == Upserted("cert-r42", TRUE, DemoRows)
  IN  /\ At(l, "demo") /\ WriteFree(l)
      /\ loader' = [loader EXCEPT ![l].pc = "alerts", ![l].risky = RiskyIn(E),
                                  ![l].hot = HotIn(E)]
      /\ UNCHANGED <<tables, starts, raced>>
-----------------------------------------------------------------------------
(***************************************************************************)
(* seed_mock_data and import_mock_data --direct: one transaction, whose    *)
(* errors are caught per file or per row.  After an error the server       *)
(* refuses every statement, and the commit at the end is a rollback.       *)
(***************************************************************************)
FileDone(l, done, failed) ==
  loader' = [loader EXCEPT ![l].file = @ + 1, ![l].counted = @ \cup done,
                           ![l].aborted = @ \/ failed]

FilesLeft(l) == loader[l].file <= Len(FilesOf(l))
FileRows(l) == {File(l)[i] : i \in DOMAIN File(l)} \ Bad

\* A file is counted when all of it is written.
SeedFile(l) ==
  /\ At(l, "seed") /\ FilesLeft(l) /\ ~loader[l].aborted
  /\ FileDone(l, FileRows(l), FALSE) /\ UNCHANGED <<tables, starts, raced>>

\* It cannot be read, or a statement fails.
SeedFileFails(l) ==
  /\ At(l, "seed") /\ FilesLeft(l)
  /\ \E failed \in BOOLEAN : FileDone(l, {}, failed)
  /\ UNCHANGED <<tables, starts, raced>>

Nobody == [d \in Device |-> NoUser]

\* Timestamps are stored as the file has them; an existing device keeps its row.
SeedEnd(l) ==
  LET R == loader[l].counted
  IN  /\ At(l, "seed") /\ ~FilesLeft(l) /\ WriteFree(l) /\ Goto(l, "done")
      /\ IF loader[l].aborted THEN UNCHANGED <<users, owner, events>>
         ELSE Store(UsersIn(R), DevicesIn(R), Nobody, FALSE, R)
      /\ UNCHANGED <<alerts, risky, hot, link, active, starts, raced>>

\* _load_devices: the first by name of the users any file names.
SmallestUser(k, d) ==
  LET named == UsersIn({r \in AllRows(k) : DeviceOf[r] = d})
  IN  IF named = {} THEN NoUser ELSE Min(named)
MockDevices(k) == {d \in Device : SmallestUser(k, d) # NoUser}

\* The rows up to some statement that fails, if one does.
DirectFile(l) ==
  /\ At(l, "direct") /\ FilesLeft(l)
  /\ \E n \in 0..Len(File(l)) :
       IF loader[l].aborted THEN n = 0 /\ FileDone(l, {}, TRUE)
       ELSE FileDone(l, {File(l)[i] : i \in 1..n}, n < Len(File(l)))
  /\ UNCHANGED <<tables, starts, raced>>

\* The check for a logical duplicate compares with "=", so that a row without
\* a user or a device never has one.
Twinned(r) ==
  /\ UserOf[r] # NoUser /\ DeviceOf[r] # NoDevice
  /\ \E e \in events : e.row = r /\ e.iso

StoreMock(us, ds, own, R) ==
  /\ users' = users \cup us
  /\ owner' = [d \in Device |-> IF d \in ds THEN own[d] ELSE owner[d]]
  /\ events' = Upserted("mock", TRUE, {r \in R : ~Twinned(r)})

DirectEnd(l) ==
  LET R == loader[l].counted
      own == [d \in Device |-> SmallestUser("direct", d)]
      failed == loader[l].aborted \/ ~Resolve(Profiles, MockDevices("direct"), own, R)
  IN  /\ At(l, "direct") /\ ~FilesLeft(l) /\ WriteFree(l)
      /\ loader' = [loader EXCEPT ![l].pc = "done", ![l].aborted = failed]
      /\ IF failed THEN UNCHANGED <<users, owner, events>>
         ELSE StoreMock(Profiles, MockDevices("direct"), own, R)
      /\ UNCHANGED <<alerts, risky, hot, link, active, starts, raced>>
-----------------------------------------------------------------------------
(***************************************************************************)
(* load_cert_data and import_mock_data over the HTTP interface: one        *)
(* request, and one transaction, per user, device and row.  What the       *)
(* server refuses is reported and skipped.                                 *)
(***************************************************************************)
Api == {"certapi", "mockapi"}
ApiPrefix(k) == IF k = "certapi" THEN "cert-r4.2" ELSE "mock"

PostUsers(l) ==
  /\ Is(l, Api) /\ At(l, "users")
  /\ \/ /\ \E u \in Profiles \ users :
             CreateUser(u) /\ \A m \in Loader : u \notin UsersIn(Written(m))
        /\ UNCHANGED loader
     \/ Goto(l, "devices") /\ UNCHANGED tables
  /\ UNCHANGED <<starts, raced>>

\* The user of the first row of logon.csv, the first file, that names the
\* device; left out if the LDAP users do not have it.
CertOwner(d) ==
  LET logon == Files["certapi"][1]
      u == UserOf[logon[Min({i \in DOMAIN logon : DeviceOf[logon[i]] = d})]]
  IN  IF u \in Profiles THEN u ELSE NoUser

CertDevices == DevicesIn(FirstFiles("certapi", 1))

PostDevices(l) ==
  /\ Is(l, Api) /\ At(l, "devices")
  /\ \/ /\ \E d \in Device \ Known :
             /\ \A m \in Loader : d \notin DevicesIn(Written(m))
             /\ IF loader[l].kind = "certapi"
                  THEN d \in CertDevices /\ CreateDevice(d, CertOwner(d))
                  ELSE /\ d \in MockDevices("mockapi")
                       /\ CreateDevice(d, SmallestUser("mockapi", d))
        /\ UNCHANGED loader
     \/ Goto(l, "rows") /\ UNCHANGED tables
  /\ UNCHANGED <<starts, raced>>

NextRow(l) ==
  LET end == loader[l].pos + 1 >= Len(File(l))
      last == loader[l].file = Len(FilesOf(l))
  IN  [loader[l] EXCEPT !.pos = IF end THEN 0 ELSE @ + 1,
                        !.file = IF end /\ ~last THEN @ + 1 ELSE @,
                        !.pc = IF end /\ last THEN "done" ELSE @]

PostRow(l) ==
  LET r == File(l)[loader[l].pos + 1]
  IN  /\ Is(l, Api) /\ At(l, "rows")
      /\ \/ /\ loader[l].pos < Len(File(l)) /\ Acceptable(r)
            /\ events' = Ingested(ApiPrefix(loader[l].kind), r)
            /\ loader' = [loader EXCEPT ![l] = [NextRow(l) EXCEPT !.counted = @ \cup {r},
                                                                 !.gone = @ \ {r}]]
         \/ loader' = [loader EXCEPT ![l] = NextRow(l)] /\ UNCHANGED events
      /\ UNCHANGED <<users, owner, alerts, risky, hot, link, active, starts, raced>>
-----------------------------------------------------------------------------
(***************************************************************************)
(* Ctrl-C between two statements.  get_connection rolls back on Exception  *)
(* alone, and the reset of the pool then commits what the transaction has  *)
(* written so far.  A statement that is cut short rolls back (Crash).      *)
(***************************************************************************)
HalfReset(l) ==
  /\ At(l, "reset") /\ ResetFree
  /\ alerts' = {a \in alerts : a.event.prefix # "cert-r42"}
  /\ UNCHANGED <<users, owner, events, risky, hot, raced>>

\* The users of a batch, with its devices or without, or all but its count.
HalfBatch(l) ==
  LET own == [d \in Device |-> FirstSeen(loader[l].kind, Read(l), d)]
  IN  /\ At(l, "files") /\ WriteFree(l) /\ Batch(l) # {}
      /\ \E ds \in {{}, BatchDevices(l)}, R \in {{}, Batch(l)} :
           /\ ds = BatchDevices(l) \/ R = {}
           /\ Resolve(BatchUsers(l), ds, own, R)
           /\ Store(BatchUsers(l), ds, own, TRUE, R)
      /\ UNCHANGED <<alerts, risky, hot, raced>>

HalfScored(l) ==
  /\ At(l, "scores") /\ WriteFree(l)
  /\ PartlyScored(events)
  /\ UNCHANGED <<users, owner, events, alerts, raced>>

HalfAlerted(l) == (At(l, "inserting") \/ (Holds(l) /\ At(l, "alerts"))) /\ Alerted(l)

FileLeft(l) == IF FilesLeft(l) THEN File(l) ELSE <<>>

\* The rows R1 of earlier files and, of one more, the users, the devices, and
\* some of the rows.
HalfFile(file, R1, iso) ==
  \E U \in {R1, R1 \cup ({file[i] : i \in DOMAIN file} \ Bad)}, n \in 0..Len(file) :
    \E D \in {R1, U} :
      LET R == R1 \cup ({file[i] : i \in 1..n} \ Bad)
          own == [d \in Device |-> IF iso THEN FirstSeen("demo", D, d) ELSE NoUser]
      IN  R \subseteq D /\ Store(UsersIn(U), DevicesIn(D), own, iso, R)

HalfDemo(l) ==
  /\ At(l, "demo") /\ WriteFree(l)
  /\ \/ /\ \E f \in DOMAIN Files["demo"] :
             HalfFile(Files["demo"][f], FirstFiles("demo", f - 1) \ Bad, TRUE)
        /\ UNCHANGED <<risky, hot>>
     \/ StoreDemo /\ PartlyScored(Upserted("cert-r42", TRUE, DemoRows))
  /\ UNCHANGED <<alerts, raced>>

HalfSeed(l) ==
  /\ At(l, "seed") /\ WriteFree(l) /\ ~loader[l].aborted
  /\ HalfFile(FileLeft(l), loader[l].counted, FALSE)
  /\ UNCHANGED <<alerts, risky, hot, raced>>

\* The profiles one by one, then the devices, then the rows.
HalfDirect(l) ==
  LET own == [d \in Device |-> SmallestUser("direct", d)]
  IN  /\ At(l, "direct") /\ WriteFree(l) /\ ~loader[l].aborted
      /\ \E us \in SUBSET Profiles, ds \in SUBSET MockDevices("direct"),
            n \in 0..Len(FileLeft(l)) :
           LET R == loader[l].counted \cup {FileLeft(l)[i] : i \in 1..n}
           IN  /\ us = Profiles \/ ds = {}
               /\ ds = MockDevices("direct") \/ R = {}
               /\ Resolve(us, ds, own, R)
               /\ StoreMock(us, ds, own, R)
      /\ UNCHANGED <<alerts, risky, hot, raced>>

Interrupt(l) ==
  /\ ~Ended(l) /\ loader' = [loader EXCEPT ![l] = Ends(@, "dead")]
  /\ \/ HalfReset(l) \/ HalfBatch(l) \/ HalfScored(l) \/ HalfAlerted(l)
     \/ HalfDemo(l) \/ HalfSeed(l) \/ HalfDirect(l)
  /\ UNCHANGED <<link, active, starts>>
-----------------------------------------------------------------------------
\* The normalizer stores an event of an agent.
Arrive(r) ==
  /\ r \in LiveRows /\ UserOf[r] \in users /\ DeviceOf[r] \in Known \cup {NoDevice}
  /\ r \notin RowsOf(events)
  /\ events' = Ingested("agent", r)
  /\ UNCHANGED <<users, owner, alerts, risky, hot, link, active>>

Unlocked == \A l \in Loader : ~Holds(l)

\* Bound: accounts are locked while a loader uses one.
Others ==
  /\ \/ NoneOpen /\ Startup
     \/ Unlocked /\ \E d \in Device, u \in Assignees : Assign(d, u)
     \/ \E a \in alerts :
          /\ UserOf[a.event.row] \in Watched /\ \A l \in Loader : Id(a) \notin Deleting(l)
          /\ Triage(a)
     \/ (\E l \in Loader : Is(l, Api)) /\ \E locked \in BOOLEAN : Lock(locked)
     \/ \E r \in LiveRows : Arrive(r)
  /\ UNCHANGED <<loader, starts, raced>>

BatchLoader(l) ==
  \/ Reset(l) \/ NoReset(l) \/ LoadProfiles(l) \/ Flush(l)
  \/ Score(l)

AlertLoader(l) ==
  DeleteAlerts(l) \/ PickAlerts(l) \/ InsertAlert(l) \/ CommitAlerts(l)

OneTransaction(l) ==
  \/ Demo(l)
  \/ SeedFile(l) \/ SeedFileFails(l) \/ SeedEnd(l)
  \/ DirectFile(l) \/ DirectEnd(l)

ApiLoader(l) == PostUsers(l) \/ PostDevices(l) \/ PostRow(l)

Next ==
  \/ \E l \in Loader, k \in Kind : Start(l, k)
  \/ \E l \in Loader :
       BatchLoader(l) \/ AlertLoader(l) \/ OneTransaction(l) \/ ApiLoader(l)
  \/ \E l \in Loader : StartFails(l) \/ Crash(l) \/ Interrupt(l)
  \/ Others

Spec == Init /\ [][Next]_vars
-----------------------------------------------------------------------------
(***************************************************************************)
(* What a loader has counted as imported is in the store, whatever killed  *)
(* it, however it was interrupted and whatever the other one did, but for  *)
(* two cases.  The rows another loader's --reset-cert-events has deleted   *)
(* since are gone, and it reports them still.  And where it ran as one     *)
(* transaction and an error in it was swallowed, seed_mock_data and        *)
(* import_mock_data --direct report rows that were rolled back.            *)
(***************************************************************************)
CountedRowsStored ==
  \A l \in Loader :
    \/ loader[l] = Idle
    \/ loader[l].kind \in {"seed", "direct"}
         /\ (loader[l].pc # "done" \/ loader[l].aborted)
    \/ loader[l].counted \ loader[l].gone \subseteq RowsOf(events)

(***************************************************************************)
(* No reference is broken, whichever statements of a transaction are       *)
(* committed, and load_all_data and import_cert_full hand the database no  *)
(* event whose user or device they have not registered before or with it:  *)
(* batches can be committed one by one.  What import_mock_data --direct is *)
(* refused, it swallows.                                                   *)
(***************************************************************************)
KeysResolve ==
  /\ \A l \in Loader : loader[l].pc # "fk"
  /\ UsersIn(RowsOf(events)) \subseteq users /\ DevicesIn(RowsOf(events)) \subseteq Known
  /\ \A d \in Known : owner[d] \in users \cup {NoUser}
  /\ {a.event : a \in alerts} \subseteq {Key(e) : e \in events}
  /\ link \in users \cup {NoUser}

(***************************************************************************)
(* The alerts are those of one import: however often and by whatever       *)
(* loader they are made again, however far a loader came that was stopped, *)
(* and whatever analysts and agents do meanwhile, a user has at most one.  *)
(* Only a loader that another one overtook, by committing alerts between   *)
(* its DELETE and its commit, may leave more: the DELETE does not see      *)
(* them, not even when it waited for that commit.                          *)
(***************************************************************************)
OneAlertPerUser ==
  \A a, b \in alerts :
    (UserOf[a.event.row] = UserOf[b.event.row] /\ a # b) => {a.by, b.by} \cap raced # {}

(***************************************************************************)
(* A device that has an owner keeps it, and so does the employee account   *)
(* its user, through every import and every start of the server; only an   *)
(* administrator and import_mock_data --direct give a device away.         *)
(***************************************************************************)
AssignmentsKept ==
  [][/\ link # NoUser => link' = link
     /\ \A d \in Device : (owner[d] \in User /\ owner'[d] # owner[d]) =>
          \/ \E u \in User \cup {NoUser} : Assign(d, u)
          \/ \E l \in Loader : DirectEnd(l) \/ HalfDirect(l)]_vars
=============================================================================
