------------------------- MODULE DatasetsProofs -----------------------------
(***************************************************************************)
(* The loaders, for any data files, batches, users and devices and however *)
(* many of them run at once: what they count is stored, every reference is *)
(* good, and the alerts are those of one import.                           *)
(***************************************************************************)
EXTENDS Datasets, WellFoundedInduction, TLAPS

Keys(E) == {Key(e) : e \in E}
KeyRecord == [prefix : Prefix, row : Row]
IdRecord == [event : KeyRecord, by : Nat]
AlertRecord == [event : KeyRecord, by : Nat, triaged : BOOLEAN]
OnePerUser(K) == \A j, k \in K : UserOf[j.row] = UserOf[k.row] => j = k

TablesInv ==
  /\ users \subseteq User /\ owner \in [Device -> User \cup {NoUser, Missing}]
  /\ events \subseteq Event /\ alerts \subseteq AlertRecord
  /\ risky \subseteq users /\ hot \subseteq Device
  /\ UsersIn(RowsOf(events)) \subseteq users /\ DevicesIn(RowsOf(events)) \subseteq Known
  /\ \A d \in Known : owner[d] \in users \cup {NoUser}
  /\ {a.event : a \in alerts} \subseteq Keys(events)
  /\ link \in users \cup {NoUser}
  /\ OneAlertPerUser

Pc == {"reset", "profiles", "files", "scores", "alerts", "deleting", "inserting", "demo",
       "seed", "direct", "users", "devices", "rows", "done", "dead"}
RunRecord ==
  [pc : Pc, kind : Kind, start : Nat, file : Nat \ {0}, pos : Nat, counted : SUBSET Row,
   gone : SUBSET Row, picked : SUBSET KeyRecord, made : SUBSET KeyRecord,
   doomed : SUBSET IdRecord, risky : SUBSET User, hot : SUBSET Device, aborted : BOOLEAN]

\* The kinds whose errors are swallowed go from their only step to the end.
KindFits(r) ==
  /\ r.kind \in {"seed", "direct"} => r.pc \in {r.kind, "done", "dead"}
  /\ r.pc \in {"seed", "direct", "demo"} => r.kind = r.pc

\* What is counted is stored, as CountedRowsStored says of a run.
Stored(r, E) ==
  \/ r.kind \in {"seed", "direct"} /\ (r.pc # "done" \/ r.aborted)
  \/ r.counted \ r.gone \subseteq RowsOf(E)

\* A run stands within a file of its kind.
WithinFile(r) ==
  r.file \in DOMAIN Files[r.kind] /\ r.pos \in 0..Len(Files[r.kind][r.file])

\* The rows it has read, up to where it stands.
RowsRead(r) ==
  ((UNION {{Files[r.kind][f][i] : i \in DOMAIN Files[r.kind][f]} :
             f \in 1..(r.file - 1)}) \ Bad)
    \cup ({Files[r.kind][r.file][n] : n \in 1..r.pos} \ Bad)

\* What a run that works in one transaction has written of users and events
\* before it scores them.
OwnUsers(k) == IF k = "demo" THEN UsersIn(DemoRows) ELSE {}
OwnKeys(k) ==
  IF k = "demo" THEN {[prefix |-> "cert-r42", row |-> x] : x \in DemoRows} ELSE {}

\* An open alert transaction deletes all alerts there are, unless another one
\* has overtaken it; and makes alerts of events that are stored.
Deletes(r, A, N) == r.start \in N \/ Ids(A) \subseteq r.doomed
Inserts(r, E) ==
  r.made \subseteq Keys(E) \cup OwnKeys(r.kind) /\ OnePerUser(r.picked \cup r.made)

RunFits(r, us, E, A, N) ==
  /\ r \in RunRecord /\ KindFits(r) /\ r.risky \subseteq us \cup OwnUsers(r.kind)
  /\ Stored(r, E) /\ (r.pc = "reset" => r.counted = {})
  /\ r.pc \in {"reset", "profiles", "files", "users", "devices", "rows"} => WithinFile(r)
  /\ r.pc \in {"reset", "profiles", "files"} => UsersIn(RowsRead(r)) \subseteq us
  /\ r.pc \in {"deleting", "inserting"} => Deletes(r, A, N)
  /\ IF r.pc = "inserting" THEN Inserts(r, E) ELSE r.made = {}

DataInv ==
  /\ TablesInv /\ starts \in Nat /\ loader \in [Loader -> {Idle} \cup RunRecord]
  /\ \A l \in Loader : loader[l] # Idle => RunFits(loader[l], users, events, alerts, raced)
-----------------------------------------------------------------------------
(***************************************************************************)
(* The data files.                                                         *)
(***************************************************************************)
LEMMA Least ==
  ASSUME NEW S \in SUBSET Nat, S # {}
  PROVE  \E n \in S : \A m \in S : n <= m
<1>1. PICK n \in S : \A m \in S : ~(<<m, n>> \in OpToRel(<, Nat))
  BY NatLessThanWellFounded, WFMin
<1>2. \A m \in S : ~(m < n)
  BY <1>1 DEF OpToRel
<1> QED BY <1>2

LEMMA FilesTyped ==
  ASSUME NEW k \in Kind
  PROVE  /\ Files[k] \in Seq(Seq(Row)) /\ 1 \in DOMAIN Files[k]
         /\ Len(Files[k]) \in Nat /\ DOMAIN Files[k] = 1..Len(Files[k])
         /\ \A f \in DOMAIN Files[k] :
              /\ f \in Nat /\ Files[k][f] \in Seq(Row) /\ DOMAIN Files[k][f] \subseteq Nat
              /\ Len(Files[k][f]) \in Nat /\ DOMAIN Files[k][f] = 1..Len(Files[k][f])
              /\ \A i \in DOMAIN Files[k][f] : Files[k][f][i] \in Row
         /\ \A f \in DOMAIN Files[k] : \A g \in 1..(f - 1) : g \in DOMAIN Files[k]
<1>1. Files[k] \in Seq(Seq(Row)) /\ Files[k] # <<>>
  BY LoadersAssumption
<1>2. Len(Files[k]) \in Nat /\ Len(Files[k]) # 0 /\ DOMAIN Files[k] = 1..Len(Files[k])
  BY <1>1
<1>3. ASSUME NEW f \in DOMAIN Files[k]
      PROVE  /\ f \in Nat /\ Files[k][f] \in Seq(Row) /\ DOMAIN Files[k][f] \subseteq Nat
             /\ Len(Files[k][f]) \in Nat /\ DOMAIN Files[k][f] = 1..Len(Files[k][f])
             /\ \A i \in DOMAIN Files[k][f] : Files[k][f][i] \in Row
  <2>1. f \in Nat /\ Files[k][f] \in Seq(Row)
    BY <1>1, <1>2
  <2> QED BY <2>1
<1>4. \A f \in DOMAIN Files[k] : \A g \in 1..(f - 1) : g \in DOMAIN Files[k]
  BY <1>2
<1>5. 1 \in DOMAIN Files[k]
  BY <1>2
<1> QED BY <1>1, <1>2, <1>3, <1>4, <1>5

\* The first of the rows that name a device's user, file by file.
LEMMA FirstSpot ==
  ASSUME NEW k \in Kind, NEW R, NEW d, Spots(k, R, d) # {}
  PROVE  \E p \in Spots(k, R, d) : \A q \in Spots(k, R, d) : Earlier(p, q)
<1> DEFINE spots == Spots(k, R, d)
           at == {f \in Nat : \E p \in spots : p[1] = f}
<1>1. \A p \in spots : p[1] \in Nat /\ p[2] \in Nat
  <2> SUFFICES ASSUME NEW p \in spots PROVE p[1] \in Nat /\ p[2] \in Nat
    OBVIOUS
  <2>1. PICK f \in DOMAIN Files[k] : p \in {f} \X DOMAIN Files[k][f]
    BY DEF Spots
  <2> QED BY <2>1, FilesTyped
<1> HIDE DEF spots
<1>2. PICK f \in at : \A g \in at : f <= g
  <2>1. at \in SUBSET Nat /\ at # {}
    BY <1>1 DEF spots
  <2> HIDE DEF at
  <2> QED BY <2>1, Least
<1> DEFINE in == {i \in Nat : \E p \in spots : p[1] = f /\ p[2] = i}
<1>3. PICK i \in in : \A j \in in : i <= j
  <2>1. in \in SUBSET Nat /\ in # {}
    BY <1>1, <1>2
  <2> HIDE DEF in
  <2> QED BY <2>1, Least
<1>4. PICK p \in spots : p[1] = f /\ p[2] = i
  BY <1>3
<1>5. \A q \in spots : Earlier(p, q)
  <2> SUFFICES ASSUME NEW q \in spots PROVE Earlier(p, q)
    OBVIOUS
  <2>1. f <= q[1] /\ (q[1] = f => i <= q[2])
    BY <1>1, <1>2, <1>3
  <2> QED BY <1>1, <1>4, <2>1 DEF Earlier
<1> QED BY <1>4, <1>5 DEF spots

LEMMA SeenUser ==
  ASSUME NEW k \in Kind, NEW R, NEW d
  PROVE  FirstSeen(k, R, d) \in UsersIn(R) \cup {NoUser}
<1>1. CASE Spots(k, R, d) = {}
  BY <1>1 DEF FirstSeen
<1>2. CASE Spots(k, R, d) # {}
  <2> DEFINE p == CHOOSE p \in Spots(k, R, d) : \A q \in Spots(k, R, d) : Earlier(p, q)
  <2>1. p \in Spots(k, R, d)
    BY <1>2, FirstSpot
  <2>2. FirstSeen(k, R, d) = UserOf[Files[k][p[1]][p[2]]]
    BY <1>2 DEF FirstSeen
  <2> HIDE DEF p
  <2>3. Files[k][p[1]][p[2]] \in R /\ UserOf[Files[k][p[1]][p[2]]] # NoUser
    BY <2>1 DEF Spots
  <2> QED BY <2>2, <2>3 DEF UsersIn
<1> QED BY <1>1, <1>2

LEMMA RowsName ==
  ASSUME NEW R \in SUBSET Row
  PROVE  UsersIn(R) \subseteq User /\ DevicesIn(R) \subseteq Device
BY TablesAssumption DEF UsersIn, DevicesIn

LEMMA FirstFilesTyped ==
  ASSUME NEW k \in Kind, NEW n \in Nat, n <= Len(Files[k])
  PROVE  FirstFiles(k, n) \subseteq Row
<1>1. \A f \in 1..n : f \in DOMAIN Files[k]
  BY FilesTyped
<1>2. \A f \in 1..n : \A i \in DOMAIN Files[k][f] : Files[k][f][i] \in Row
  BY <1>1, FilesTyped
<1> QED BY <1>2 DEF FirstFiles

LEMMA AllRowsTyped ==
  ASSUME NEW k \in Kind
  PROVE  AllRows(k) \subseteq Row
<1>1. Len(Files[k]) \in Nat /\ Len(Files[k]) <= Len(Files[k])
  BY FilesTyped
<1> QED BY <1>1, FirstFilesTyped DEF AllRows

LEMMA DemoRowsTyped ==
  ASSUME "demo" \in Kind
  PROVE  DemoRows \in SUBSET Row
BY AllRowsTyped DEF DemoRows

-----------------------------------------------------------------------------
(***************************************************************************)
(* The statements.                                                         *)
(***************************************************************************)
LEMMA UpsertedRows ==
  ASSUME events \subseteq Event, NEW p \in Prefix, NEW iso \in BOOLEAN, NEW R \in SUBSET Row
  PROVE  /\ Upserted(p, iso, R) \subseteq Event
         /\ RowsOf(Upserted(p, iso, R)) = RowsOf(events) \cup R
         /\ Keys(events) \subseteq Keys(Upserted(p, iso, R))
         /\ Keys(Upserted(p, iso, R)) = Keys(events) \cup {[prefix |-> p, row |-> x] : x \in R}
<1> DEFINE old == {e \in events : ~(e.prefix = p /\ e.row \in R)}
           rec(r) == [prefix |-> p, row |-> r, iso |-> iso]
           new == {rec(r) : r \in R}
<1>1. Upserted(p, iso, R) = old \cup new
  BY DEF Upserted
<1>2. \A r \in R : rec(r) \in Event /\ rec(r).row = r /\ rec(r).prefix = p
  BY DEF Event
<1>3. old \cup new \subseteq Event
  BY <1>2
<1>4. \A e \in events : (e \notin old) => e.row \in R /\ e.prefix = p
  OBVIOUS
<1>5. RowsOf(old \cup new) = RowsOf(events) \cup R
  <2>1. \A r \in R : \E e \in old \cup new : e.row = r
    BY <1>2
  <2>2. \A e \in events : \E f \in old \cup new : f.row = e.row
    BY <1>4, <2>1
  <2>3. \A f \in old \cup new : f.row \in RowsOf(events) \cup R
    BY <1>2 DEF RowsOf
  <2> HIDE DEF old, new
  <2>4. RowsOf(old \cup new) \subseteq RowsOf(events) \cup R
    BY <2>3 DEF RowsOf
  <2>5. \A r \in RowsOf(events) \cup R : r \in RowsOf(old \cup new)
    BY <2>1, <2>2 DEF RowsOf
  <2> QED BY <2>4, <2>5
<1>6. \A e \in events : \E f \in old \cup new : Key(f) = Key(e)
  <2> SUFFICES ASSUME NEW e \in events, e \notin old
               PROVE  \E f \in old \cup new : Key(f) = Key(e)
    OBVIOUS
  <2>1. rec(e.row) \in new /\ Key(rec(e.row)) = Key(e)
    BY <1>2, <1>4 DEF Key
  <2> QED BY <2>1
<1>7. Keys(events) \subseteq Keys(old \cup new)
  BY <1>6 DEF Keys
<1>8. Keys(old \cup new) = Keys(events) \cup {[prefix |-> p, row |-> x] : x \in R}
  <2>1. \A x \in R : Key(rec(x)) = [prefix |-> p, row |-> x]
    BY <1>2 DEF Key
  <2>2. \A f \in new : \E x \in R : Key(f) = [prefix |-> p, row |-> x]
    BY <2>1
  <2>3. \A x \in R : \E f \in new : Key(f) = [prefix |-> p, row |-> x]
    BY <2>1
  <2>4. old \subseteq events
    OBVIOUS
  <2> HIDE DEF old, new
  <2>5. Keys(old \cup new) \subseteq Keys(events) \cup {[prefix |-> p, row |-> x] : x \in R}
    BY <2>2, <2>4 DEF Keys
  <2>6. \A x \in R : [prefix |-> p, row |-> x] \in Keys(old \cup new)
    BY <2>3 DEF Keys
  <2> QED BY <1>7, <2>5, <2>6
<1> QED BY <1>1, <1>3, <1>5, <1>7, <1>8

LEMMA IngestedRows ==
  ASSUME events \subseteq Event, NEW p \in Prefix, NEW r \in Row
  PROVE  /\ Ingested(p, r) \subseteq Event
         /\ RowsOf(Ingested(p, r)) = RowsOf(events) \cup {r}
         /\ Keys(events) \subseteq Keys(Ingested(p, r))
<1>1. CASE \E e \in events : e.row = r /\ e.iso
  <2>1. Ingested(p, r) = events
    BY <1>1 DEF Ingested
  <2> QED BY <1>1, <2>1 DEF RowsOf
<1>2. CASE ~ \E e \in events : e.row = r /\ e.iso
  <2>1. Ingested(p, r) = Upserted(p, TRUE, {r})
    BY <1>2 DEF Ingested, Upserted
  <2>2. p \in Prefix /\ TRUE \in BOOLEAN /\ {r} \in SUBSET Row
    OBVIOUS
  <2>3. /\ Upserted(p, TRUE, {r}) \subseteq Event
        /\ RowsOf(Upserted(p, TRUE, {r})) = RowsOf(events) \cup {r}
        /\ Keys(events) \subseteq Keys(Upserted(p, TRUE, {r}))
    BY <2>2, UpsertedRows
  <2> QED BY <2>1, <2>3
<1> QED BY <1>1, <1>2

\* Devices D are registered for users us.
Registers(D, own, us) ==
  /\ D \subseteq Device /\ users \subseteq us /\ us \subseteq User
  /\ \A d \in D : own[d] \in us \cup {NoUser}
  /\ owner' = Coalesced(D, own)

\* Known devices stay known, and the devices of D become so.
LEMMA CoalescedOwners ==
  ASSUME owner \in [Device -> User \cup {NoUser, Missing}],
         \A d \in Known : owner[d] \in users \cup {NoUser},
         NEW D, NEW own, NEW us, Registers(D, own, us)
  PROVE  /\ owner' \in [Device -> User \cup {NoUser, Missing}]
         /\ Known' = Known \cup D
         /\ \A d \in Known' : owner'[d] \in us \cup {NoUser}
<1>1. \A d \in Device :
        owner'[d] = IF d \in D /\ owner[d] \in {Missing, NoUser} THEN own[d] ELSE owner[d]
  BY DEF Registers, Coalesced
<1>2. owner' \in [Device -> User \cup {NoUser, Missing}]
  BY <1>1 DEF Registers, Coalesced
<1>3. Known' = Known \cup D
  BY <1>1, TablesAssumption DEF Registers, Known
<1> QED BY <1>1, <1>2, <1>3, TablesAssumption DEF Registers, Known

\* An event is picked for one user at most.
LEMMA SelectedKeys ==
  ASSUME NEW E \in SUBSET Event, NEW ris, NEW hots, NEW keys \in Selections(E, ris, hots)
  PROVE  keys \subseteq Keys(E) /\ keys \subseteq KeyRecord /\ OnePerUser(keys)
<1> DEFINE U == UsersIn(RowsOf(E))
<1>1. PICK pick \in [U -> E] :
        /\ \A u \in U : pick[u] \in Newest(E, u)
        /\ \E V \in SUBSET U : keys = {Key(pick[u]) : u \in V}
  BY DEF Selections
<1>2. \A u \in U : pick[u] \in E /\ UserOf[pick[u].row] = u
  BY <1>1 DEF Newest
<1> HIDE DEF U
<1>3. \A j \in keys : \E u \in U : j = Key(pick[u]) /\ UserOf[j.row] = u
  BY <1>1, <1>2 DEF Key
<1>4. OnePerUser(keys)
  BY <1>3 DEF OnePerUser
<1>5. keys \subseteq Keys(E)
  BY <1>2, <1>3 DEF Keys
<1>6. Keys(E) \subseteq KeyRecord
  BY DEF Keys, Key, KeyRecord, Event
<1> QED BY <1>4, <1>5, <1>6

LEMMA RaisedAlerts ==
  ASSUME NEW keys \in SUBSET KeyRecord, OnePerUser(keys), NEW n \in Nat
  PROVE  /\ Raised(n, keys) \subseteq AlertRecord
         /\ {a.event : a \in Raised(n, keys)} \subseteq keys
         /\ \A a \in Raised(n, keys) : a.by = n
         /\ \A a, b \in Raised(n, keys) :
              UserOf[a.event.row] = UserOf[b.event.row] => a = b
<1> DEFINE rec(k) == [event |-> k, by |-> n, triaged |-> FALSE]
<1>1. \A a \in Raised(n, keys) : \E k \in keys : a = rec(k)
  BY DEF Raised
<1>2. \A k \in keys : rec(k) \in AlertRecord /\ rec(k).event = k /\ rec(k).by = n
  BY DEF AlertRecord
<1> HIDE DEF rec
<1>3. \A a \in Raised(n, keys) : a \in AlertRecord /\ a.event \in keys /\ a.by = n
  BY <1>1, <1>2
<1>4. \A a, b \in Raised(n, keys) : UserOf[a.event.row] = UserOf[b.event.row] => a = b
  <2> SUFFICES ASSUME NEW a \in Raised(n, keys), NEW b \in Raised(n, keys),
                      UserOf[a.event.row] = UserOf[b.event.row]
               PROVE  a = b
    OBVIOUS
  <2>1. PICK j \in keys : a = rec(j)
    BY <1>1
  <2>2. PICK k \in keys : b = rec(k)
    BY <1>1
  <2>3. j = k
    BY <1>2, <2>1, <2>2 DEF OnePerUser
  <2> QED BY <2>1, <2>2, <2>3
<1>5. {a.event : a \in Raised(n, keys)} \subseteq keys
  BY <1>3
<1> QED BY <1>3, <1>4, <1>5

\* The scores are of users and devices that are registered.
LEMMA ScoresTyped ==
  ASSUME NEW E \in SUBSET Event
  PROVE  /\ RiskyIn(E) \subseteq risky \cup UsersIn(RowsOf(E))
         /\ HotIn(E) \subseteq hot \cup Device
<1>1. RowsOf(E) \subseteq Row
  BY DEF RowsOf, Event
<1> QED BY <1>1, RowsName DEF RiskyIn, HotIn, Top

LEMMA PartlyTyped ==
  ASSUME NEW E \in SUBSET Event, PartlyScored(E)
  PROVE  /\ risky' \subseteq risky \cup UsersIn(RowsOf(E))
         /\ hot' \subseteq hot \cup Device
<1>1. PICK P, Q : /\ risky' = (risky \ P) \cup (RiskyIn(E) \cap P)
                  /\ hot' = (hot \ Q) \cup (HotIn(E) \cap Q)
  BY DEF PartlyScored
<1> QED BY <1>1, ScoresTyped
-----------------------------------------------------------------------------
(***************************************************************************)
(* The runs.                                                               *)
(***************************************************************************)
LEMMA RunTyped ==
  ASSUME NEW r \in RunRecord
  PROVE  /\ r # Idle /\ r.pc # "idle" /\ r.pc # "fk" /\ r.pc \in Pc /\ r.kind \in Kind
         /\ r.start \in Nat /\ r.file \in Nat \ {0} /\ r.pos \in Nat
         /\ r.counted \subseteq Row /\ r.gone \subseteq Row /\ r.picked \subseteq KeyRecord
         /\ r.made \subseteq KeyRecord /\ r.doomed \subseteq IdRecord
         /\ r.risky \subseteq User /\ r.hot \subseteq Device /\ r.aborted \in BOOLEAN
BY DEF RunRecord, Pc, Idle

\* A record of a run with one field set: it is one, and has the other fields.
LEMMA SetPc ==
  ASSUME NEW r \in RunRecord, NEW x \in Pc
  PROVE  LET q == [r EXCEPT !.pc = x]
         IN  /\ q \in RunRecord /\ q.pc = x
             /\ q.kind = r.kind /\ q.start = r.start /\ q.file = r.file /\ q.pos = r.pos
             /\ q.counted = r.counted /\ q.gone = r.gone /\ q.picked = r.picked /\ q.made = r.made
             /\ q.doomed = r.doomed /\ q.risky = r.risky /\ q.hot = r.hot /\ q.aborted = r.aborted
<1> DEFINE q == [r EXCEPT !.pc = x]
<1>1. q \in RunRecord
  BY DEF RunRecord
<1>2. q.pc = x
  BY DEF RunRecord
<1>3. q.kind = r.kind /\ q.start = r.start /\ q.file = r.file /\ q.pos = r.pos
  BY DEF RunRecord
<1>4. q.counted = r.counted /\ q.gone = r.gone /\ q.picked = r.picked /\ q.made = r.made
  BY DEF RunRecord
<1>5. q.doomed = r.doomed /\ q.risky = r.risky /\ q.hot = r.hot /\ q.aborted = r.aborted
  BY DEF RunRecord
<1> QED BY <1>1, <1>2, <1>3, <1>4, <1>5

LEMMA SetFile ==
  ASSUME NEW r \in RunRecord, NEW x \in Nat \ {0}
  PROVE  LET q == [r EXCEPT !.file = x]
         IN  /\ q \in RunRecord /\ q.file = x
             /\ q.pc = r.pc /\ q.kind = r.kind /\ q.start = r.start /\ q.pos = r.pos
             /\ q.counted = r.counted /\ q.gone = r.gone /\ q.picked = r.picked /\ q.made = r.made
             /\ q.doomed = r.doomed /\ q.risky = r.risky /\ q.hot = r.hot /\ q.aborted = r.aborted
<1> DEFINE q == [r EXCEPT !.file = x]
<1>1. q \in RunRecord
  BY DEF RunRecord
<1>2. q.file = x
  BY DEF RunRecord
<1>3. q.pc = r.pc /\ q.kind = r.kind /\ q.start = r.start /\ q.pos = r.pos
  BY DEF RunRecord
<1>4. q.counted = r.counted /\ q.gone = r.gone /\ q.picked = r.picked /\ q.made = r.made
  BY DEF RunRecord
<1>5. q.doomed = r.doomed /\ q.risky = r.risky /\ q.hot = r.hot /\ q.aborted = r.aborted
  BY DEF RunRecord
<1> QED BY <1>1, <1>2, <1>3, <1>4, <1>5

LEMMA SetPos ==
  ASSUME NEW r \in RunRecord, NEW x \in Nat
  PROVE  LET q == [r EXCEPT !.pos = x]
         IN  /\ q \in RunRecord /\ q.pos = x
             /\ q.pc = r.pc /\ q.kind = r.kind /\ q.start = r.start /\ q.file = r.file
             /\ q.counted = r.counted /\ q.gone = r.gone /\ q.picked = r.picked /\ q.made = r.made
             /\ q.doomed = r.doomed /\ q.risky = r.risky /\ q.hot = r.hot /\ q.aborted = r.aborted
<1> DEFINE q == [r EXCEPT !.pos = x]
<1>1. q \in RunRecord
  BY DEF RunRecord
<1>2. q.pos = x
  BY DEF RunRecord
<1>3. q.pc = r.pc /\ q.kind = r.kind /\ q.start = r.start /\ q.file = r.file
  BY DEF RunRecord
<1>4. q.counted = r.counted /\ q.gone = r.gone /\ q.picked = r.picked /\ q.made = r.made
  BY DEF RunRecord
<1>5. q.doomed = r.doomed /\ q.risky = r.risky /\ q.hot = r.hot /\ q.aborted = r.aborted
  BY DEF RunRecord
<1> QED BY <1>1, <1>2, <1>3, <1>4, <1>5

LEMMA SetCounted ==
  ASSUME NEW r \in RunRecord, NEW x \in SUBSET Row
  PROVE  LET q == [r EXCEPT !.counted = x]
         IN  /\ q \in RunRecord /\ q.counted = x
             /\ q.pc = r.pc /\ q.kind = r.kind /\ q.start = r.start /\ q.file = r.file
             /\ q.pos = r.pos /\ q.gone = r.gone /\ q.picked = r.picked /\ q.made = r.made
             /\ q.doomed = r.doomed /\ q.risky = r.risky /\ q.hot = r.hot /\ q.aborted = r.aborted
<1> DEFINE q == [r EXCEPT !.counted = x]
<1>1. q \in RunRecord
  BY DEF RunRecord
<1>2. q.counted = x
  BY DEF RunRecord
<1>3. q.pc = r.pc /\ q.kind = r.kind /\ q.start = r.start /\ q.file = r.file
  BY DEF RunRecord
<1>4. q.pos = r.pos /\ q.gone = r.gone /\ q.picked = r.picked /\ q.made = r.made
  BY DEF RunRecord
<1>5. q.doomed = r.doomed /\ q.risky = r.risky /\ q.hot = r.hot /\ q.aborted = r.aborted
  BY DEF RunRecord
<1> QED BY <1>1, <1>2, <1>3, <1>4, <1>5

LEMMA SetGone ==
  ASSUME NEW r \in RunRecord, NEW x \in SUBSET Row
  PROVE  LET q == [r EXCEPT !.gone = x]
         IN  /\ q \in RunRecord /\ q.gone = x
             /\ q.pc = r.pc /\ q.kind = r.kind /\ q.start = r.start /\ q.file = r.file
             /\ q.pos = r.pos /\ q.counted = r.counted /\ q.picked = r.picked /\ q.made = r.made
             /\ q.doomed = r.doomed /\ q.risky = r.risky /\ q.hot = r.hot /\ q.aborted = r.aborted
<1> DEFINE q == [r EXCEPT !.gone = x]
<1>1. q \in RunRecord
  BY DEF RunRecord
<1>2. q.gone = x
  BY DEF RunRecord
<1>3. q.pc = r.pc /\ q.kind = r.kind /\ q.start = r.start /\ q.file = r.file
  BY DEF RunRecord
<1>4. q.pos = r.pos /\ q.counted = r.counted /\ q.picked = r.picked /\ q.made = r.made
  BY DEF RunRecord
<1>5. q.doomed = r.doomed /\ q.risky = r.risky /\ q.hot = r.hot /\ q.aborted = r.aborted
  BY DEF RunRecord
<1> QED BY <1>1, <1>2, <1>3, <1>4, <1>5

LEMMA SetPicked ==
  ASSUME NEW r \in RunRecord, NEW x \in SUBSET KeyRecord
  PROVE  LET q == [r EXCEPT !.picked = x]
         IN  /\ q \in RunRecord /\ q.picked = x
             /\ q.pc = r.pc /\ q.kind = r.kind /\ q.start = r.start /\ q.file = r.file
             /\ q.pos = r.pos /\ q.counted = r.counted /\ q.gone = r.gone /\ q.made = r.made
             /\ q.doomed = r.doomed /\ q.risky = r.risky /\ q.hot = r.hot /\ q.aborted = r.aborted
<1> DEFINE q == [r EXCEPT !.picked = x]
<1>1. q \in RunRecord
  BY DEF RunRecord
<1>2. q.picked = x
  BY DEF RunRecord
<1>3. q.pc = r.pc /\ q.kind = r.kind /\ q.start = r.start /\ q.file = r.file
  BY DEF RunRecord
<1>4. q.pos = r.pos /\ q.counted = r.counted /\ q.gone = r.gone /\ q.made = r.made
  BY DEF RunRecord
<1>5. q.doomed = r.doomed /\ q.risky = r.risky /\ q.hot = r.hot /\ q.aborted = r.aborted
  BY DEF RunRecord
<1> QED BY <1>1, <1>2, <1>3, <1>4, <1>5

LEMMA SetMade ==
  ASSUME NEW r \in RunRecord, NEW x \in SUBSET KeyRecord
  PROVE  LET q == [r EXCEPT !.made = x]
         IN  /\ q \in RunRecord /\ q.made = x
             /\ q.pc = r.pc /\ q.kind = r.kind /\ q.start = r.start /\ q.file = r.file
             /\ q.pos = r.pos /\ q.counted = r.counted /\ q.gone = r.gone /\ q.picked = r.picked
             /\ q.doomed = r.doomed /\ q.risky = r.risky /\ q.hot = r.hot /\ q.aborted = r.aborted
<1> DEFINE q == [r EXCEPT !.made = x]
<1>1. q \in RunRecord
  BY DEF RunRecord
<1>2. q.made = x
  BY DEF RunRecord
<1>3. q.pc = r.pc /\ q.kind = r.kind /\ q.start = r.start /\ q.file = r.file
  BY DEF RunRecord
<1>4. q.pos = r.pos /\ q.counted = r.counted /\ q.gone = r.gone /\ q.picked = r.picked
  BY DEF RunRecord
<1>5. q.doomed = r.doomed /\ q.risky = r.risky /\ q.hot = r.hot /\ q.aborted = r.aborted
  BY DEF RunRecord
<1> QED BY <1>1, <1>2, <1>3, <1>4, <1>5

LEMMA SetDoomed ==
  ASSUME NEW r \in RunRecord, NEW x \in SUBSET IdRecord
  PROVE  LET q == [r EXCEPT !.doomed = x]
         IN  /\ q \in RunRecord /\ q.doomed = x
             /\ q.pc = r.pc /\ q.kind = r.kind /\ q.start = r.start /\ q.file = r.file
             /\ q.pos = r.pos /\ q.counted = r.counted /\ q.gone = r.gone /\ q.picked = r.picked
             /\ q.made = r.made /\ q.risky = r.risky /\ q.hot = r.hot /\ q.aborted = r.aborted
<1> DEFINE q == [r EXCEPT !.doomed = x]
<1>1. q \in RunRecord
  BY DEF RunRecord
<1>2. q.doomed = x
  BY DEF RunRecord
<1>3. q.pc = r.pc /\ q.kind = r.kind /\ q.start = r.start /\ q.file = r.file
  BY DEF RunRecord
<1>4. q.pos = r.pos /\ q.counted = r.counted /\ q.gone = r.gone /\ q.picked = r.picked
  BY DEF RunRecord
<1>5. q.made = r.made /\ q.risky = r.risky /\ q.hot = r.hot /\ q.aborted = r.aborted
  BY DEF RunRecord
<1> QED BY <1>1, <1>2, <1>3, <1>4, <1>5

LEMMA SetRisky ==
  ASSUME NEW r \in RunRecord, NEW x \in SUBSET User
  PROVE  LET q == [r EXCEPT !.risky = x]
         IN  /\ q \in RunRecord /\ q.risky = x
             /\ q.pc = r.pc /\ q.kind = r.kind /\ q.start = r.start /\ q.file = r.file
             /\ q.pos = r.pos /\ q.counted = r.counted /\ q.gone = r.gone /\ q.picked = r.picked
             /\ q.made = r.made /\ q.doomed = r.doomed /\ q.hot = r.hot /\ q.aborted = r.aborted
<1> DEFINE q == [r EXCEPT !.risky = x]
<1>1. q \in RunRecord
  BY DEF RunRecord
<1>2. q.risky = x
  BY DEF RunRecord
<1>3. q.pc = r.pc /\ q.kind = r.kind /\ q.start = r.start /\ q.file = r.file
  BY DEF RunRecord
<1>4. q.pos = r.pos /\ q.counted = r.counted /\ q.gone = r.gone /\ q.picked = r.picked
  BY DEF RunRecord
<1>5. q.made = r.made /\ q.doomed = r.doomed /\ q.hot = r.hot /\ q.aborted = r.aborted
  BY DEF RunRecord
<1> QED BY <1>1, <1>2, <1>3, <1>4, <1>5

LEMMA SetHot ==
  ASSUME NEW r \in RunRecord, NEW x \in SUBSET Device
  PROVE  LET q == [r EXCEPT !.hot = x]
         IN  /\ q \in RunRecord /\ q.hot = x
             /\ q.pc = r.pc /\ q.kind = r.kind /\ q.start = r.start /\ q.file = r.file
             /\ q.pos = r.pos /\ q.counted = r.counted /\ q.gone = r.gone /\ q.picked = r.picked
             /\ q.made = r.made /\ q.doomed = r.doomed /\ q.risky = r.risky /\ q.aborted = r.aborted
<1> DEFINE q == [r EXCEPT !.hot = x]
<1>1. q \in RunRecord
  BY DEF RunRecord
<1>2. q.hot = x
  BY DEF RunRecord
<1>3. q.pc = r.pc /\ q.kind = r.kind /\ q.start = r.start /\ q.file = r.file
  BY DEF RunRecord
<1>4. q.pos = r.pos /\ q.counted = r.counted /\ q.gone = r.gone /\ q.picked = r.picked
  BY DEF RunRecord
<1>5. q.made = r.made /\ q.doomed = r.doomed /\ q.risky = r.risky /\ q.aborted = r.aborted
  BY DEF RunRecord
<1> QED BY <1>1, <1>2, <1>3, <1>4, <1>5

LEMMA SetAborted ==
  ASSUME NEW r \in RunRecord, NEW x \in BOOLEAN
  PROVE  LET q == [r EXCEPT !.aborted = x]
         IN  /\ q \in RunRecord /\ q.aborted = x
             /\ q.pc = r.pc /\ q.kind = r.kind /\ q.start = r.start /\ q.file = r.file
             /\ q.pos = r.pos /\ q.counted = r.counted /\ q.gone = r.gone /\ q.picked = r.picked
             /\ q.made = r.made /\ q.doomed = r.doomed /\ q.risky = r.risky /\ q.hot = r.hot
<1> DEFINE q == [r EXCEPT !.aborted = x]
<1>1. q \in RunRecord
  BY DEF RunRecord
<1>2. q.aborted = x
  BY DEF RunRecord
<1>3. q.pc = r.pc /\ q.kind = r.kind /\ q.start = r.start /\ q.file = r.file
  BY DEF RunRecord
<1>4. q.pos = r.pos /\ q.counted = r.counted /\ q.gone = r.gone /\ q.picked = r.picked
  BY DEF RunRecord
<1>5. q.made = r.made /\ q.doomed = r.doomed /\ q.risky = r.risky /\ q.hot = r.hot
  BY DEF RunRecord
<1> QED BY <1>1, <1>2, <1>3, <1>4, <1>5

LEMMA KeysOfRows ==
  ASSUME NEW E, NEW F, Keys(E) \subseteq Keys(F)
  PROVE  RowsOf(E) \subseteq RowsOf(F)
<1> SUFFICES ASSUME NEW e \in E PROVE e.row \in RowsOf(F)
  BY DEF RowsOf
<1>1. PICK f \in F : Key(f) = Key(e)
  BY DEF Keys
<1>2. Key(f).row = f.row /\ Key(e).row = e.row
  BY DEF Key
<1> QED BY <1>1, <1>2 DEF RowsOf

\* A run still fits tables that only gained users and events, unless alerts came
\* while it was deleting them.
LEMMA FitsGrown ==
  ASSUME NEW r, NEW us, NEW us2, NEW E, NEW E2, NEW A, NEW A2, NEW N, NEW N2,
         RunFits(r, us, E, A, N), us \subseteq us2, Keys(E) \subseteq Keys(E2), N \subseteq N2,
         r.pc \in {"deleting", "inserting"} => (Ids(A2) \subseteq Ids(A) \/ r.start \in N2)
  PROVE  RunFits(r, us2, E2, A2, N2)
<1>1. RowsOf(E) \subseteq RowsOf(E2)
  BY KeysOfRows
<1>2. Stored(r, E2)
  BY <1>1 DEF RunFits, Stored
<1>3. r.pc \in {"deleting", "inserting"} => Deletes(r, A2, N2)
  BY DEF RunFits, Deletes
<1>4. IF r.pc = "inserting" THEN Inserts(r, E2) ELSE r.made = {}
  BY DEF RunFits, Inserts
<1> QED BY <1>2, <1>3, <1>4 DEF RunFits

\* The tables with more users, devices and events, which name rows of R.
Grown(R) ==
  /\ users \subseteq users' /\ users' \subseteq User
  /\ owner' \in [Device -> User \cup {NoUser, Missing}] /\ Known \subseteq Known'
  /\ \A d \in Known' : owner'[d] \in users' \cup {NoUser}
  /\ events' \subseteq Event /\ RowsOf(events') \subseteq RowsOf(events) \cup R
  /\ Keys(events) \subseteq Keys(events')
  /\ UsersIn(R) \subseteq users' /\ DevicesIn(R) \subseteq Known'

LEMMA NoneGrown ==
  ASSUME TablesInv, UNCHANGED <<users, owner, events>>
  PROVE  Grown({})
<1>1. UsersIn({}) = {} /\ DevicesIn({}) = {} /\ Known' = Known
  BY DEF UsersIn, DevicesIn, Known
<1> QED BY <1>1 DEF TablesInv, Grown, Known

\* ... and with other scores and alerts.
LEMMA TablesAlerted ==
  ASSUME TablesInv, NEW R \in SUBSET Row, Grown(R), UNCHANGED link,
         risky' \subseteq users', hot' \subseteq Device, alerts' \subseteq AlertRecord,
         {a.event : a \in alerts'} \subseteq Keys(events'), OneAlertPerUser'
  PROVE  TablesInv'
<1>1. UsersIn(RowsOf(events')) \subseteq users'
  BY DEF TablesInv, Grown, UsersIn
<1>2. DevicesIn(RowsOf(events')) \subseteq Known'
  BY DEF TablesInv, Grown, DevicesIn
<1>3. link' \in users' \cup {NoUser}
  BY DEF TablesInv, Grown
<1> QED BY <1>1, <1>2, <1>3 DEF TablesInv, Grown, Known, RowsOf, UsersIn, DevicesIn, Keys

LEMMA TablesScored ==
  ASSUME TablesInv, NEW R \in SUBSET Row, Grown(R), UNCHANGED <<alerts, link, raced>>,
         risky' \subseteq users', hot' \subseteq Device
  PROVE  TablesInv'
<1>1. alerts' \subseteq AlertRecord /\ {a.event : a \in alerts'} \subseteq Keys(events')
  BY DEF TablesInv, Grown
<1>2. OneAlertPerUser'
  BY DEF TablesInv, OneAlertPerUser
<1> QED BY <1>1, <1>2, TablesAlerted

LEMMA TablesGrow ==
  ASSUME TablesInv, NEW R \in SUBSET Row, Grown(R),
         UNCHANGED <<alerts, risky, hot, link, raced>>
  PROVE  TablesInv'
<1>1. risky' \subseteq users' /\ hot' \subseteq Device
  BY DEF TablesInv, Grown
<1> QED BY <1>1, TablesScored

\* The upserts of rows whose users, devices and owners resolve.
LEMMA Storing ==
  ASSUME TablesInv, NEW us \in SUBSET User, NEW ds \in SUBSET Device, NEW own,
         NEW iso \in BOOLEAN, NEW R \in SUBSET Row,
         Resolve(us, ds, own, R), Store(us, ds, own, iso, R)
  PROVE  /\ Grown(R) /\ R \subseteq RowsOf(events')
         /\ Keys(events') = Keys(events) \cup {[prefix |-> "cert-r42", row |-> x] : x \in R}
<1>1. /\ users' = users \cup us /\ owner' = Coalesced(ds, own)
      /\ events' = Upserted("cert-r42", iso, R)
  BY DEF Store
<1>2. users \subseteq users' /\ users' \subseteq User
  BY <1>1 DEF TablesInv
<1>3. /\ UsersIn(R) \subseteq users' /\ DevicesIn(R) \subseteq Known \cup ds
      /\ \A d \in ds : own[d] \in users' \cup {NoUser}
  BY <1>1 DEF Resolve
<1>4. /\ owner' \in [Device -> User \cup {NoUser, Missing}] /\ Known' = Known \cup ds
      /\ \A d \in Known' : owner'[d] \in users' \cup {NoUser}
  <2>1. /\ owner \in [Device -> User \cup {NoUser, Missing}]
        /\ \A d \in Known : owner[d] \in users \cup {NoUser}
    BY DEF TablesInv
  <2>2. Registers(ds, own, users')
    BY <1>1, <1>2, <1>3 DEF Registers
  <2> QED BY <2>1, <2>2, CoalescedOwners
<1>5. /\ events' \subseteq Event /\ RowsOf(events') = RowsOf(events) \cup R
      /\ Keys(events) \subseteq Keys(events')
      /\ Keys(events') = Keys(events) \cup {[prefix |-> "cert-r42", row |-> x] : x \in R}
  <2>1. "cert-r42" \in Prefix /\ events \subseteq Event
    BY DEF Prefix, TablesInv
  <2> QED BY <1>1, <2>1, UpsertedRows
<1> QED BY <1>2, <1>3, <1>4, <1>5 DEF Grown

LEMMA DemoStored ==
  ASSUME TablesInv, "demo" \in Kind, StoreDemo
  PROVE  /\ Grown(DemoRows) /\ DemoRows \subseteq RowsOf(events')
         /\ OwnUsers("demo") \subseteq users'
         /\ Keys(events') = Keys(events) \cup OwnKeys("demo")
<1> DEFINE R == DemoRows
           own == [d \in Device |-> FirstSeen("demo", R, d)]
<1>1. R \in SUBSET Row /\ UsersIn(R) \in SUBSET User /\ DevicesIn(R) \in SUBSET Device
  BY DemoRowsTyped, RowsName
<1>2. \A d \in DevicesIn(R) : own[d] \in UsersIn(R) \cup {NoUser}
  BY <1>1, SeenUser
<1>3. Store(UsersIn(R), DevicesIn(R), own, TRUE, R)
  BY DEF StoreDemo
<1> HIDE DEF own, R
<1>4. Resolve(UsersIn(R), DevicesIn(R), own, R)
  BY <1>2 DEF Resolve
<1>5. /\ Grown(R) /\ R \subseteq RowsOf(events')
      /\ Keys(events') = Keys(events) \cup {[prefix |-> "cert-r42", row |-> x] : x \in R}
  BY <1>1, <1>3, <1>4, Storing
<1> QED BY <1>5 DEF OwnUsers, OwnKeys, Grown, R

\* The statements of import_mock_data, where they resolve.
LEMMA Mocking ==
  ASSUME TablesInv, NEW us \in SUBSET User, NEW ds \in SUBSET Device, NEW own,
         NEW R \in SUBSET Row, Resolve(us, ds, own, R), StoreMock(us, ds, own, R)
  PROVE  Grown(R) /\ R \subseteq RowsOf(events')
<1>1. /\ users' = users \cup us
      /\ owner' = [d \in Device |-> IF d \in ds THEN own[d] ELSE owner[d]]
      /\ events' = Upserted("mock", TRUE, {x \in R : ~Twinned(x)})
  BY DEF StoreMock
<1>2. users \subseteq users' /\ users' \subseteq User
  BY <1>1 DEF TablesInv
<1>3. \A d \in ds : own[d] \in users' \cup {NoUser}
  BY <1>1 DEF Resolve
<1>4. /\ owner' \in [Device -> User \cup {NoUser, Missing}] /\ Known' = Known \cup ds
      /\ \A d \in Known' : owner'[d] \in users' \cup {NoUser}
  <2>1. \A d \in Device : owner'[d] = IF d \in ds THEN own[d] ELSE owner[d]
    BY <1>1
  <2>2. owner' \in [Device -> User \cup {NoUser, Missing}]
    BY <1>1, <1>2, <1>3 DEF TablesInv
  <2>3. \A d \in ds : owner'[d] # Missing /\ owner'[d] \in users' \cup {NoUser}
    BY <1>2, <1>3, <2>1, TablesAssumption
  <2>4. \A d \in Device \ ds : owner'[d] = owner[d]
    BY <2>1
  <2>5. Known' = Known \cup ds
    BY <2>3, <2>4 DEF Known
  <2>6. \A d \in Known : owner[d] \in users' \cup {NoUser}
    BY <1>2 DEF TablesInv
  <2>7. \A d \in Known' : owner'[d] \in users' \cup {NoUser}
    BY <2>3, <2>4, <2>5, <2>6 DEF Known
  <2> QED BY <2>2, <2>5, <2>7
<1>5. UsersIn(R) \subseteq users' /\ DevicesIn(R) \subseteq Known'
  BY <1>1, <1>4 DEF Resolve
<1>6. /\ events' \subseteq Event /\ Keys(events) \subseteq Keys(events')
      /\ RowsOf(events') = RowsOf(events) \cup {x \in R : ~Twinned(x)}
  <2>1. "mock" \in Prefix /\ TRUE \in BOOLEAN /\ events \subseteq Event
        /\ {x \in R : ~Twinned(x)} \in SUBSET Row
    BY DEF Prefix, TablesInv
  <2> QED BY <1>1, <2>1, UpsertedRows
<1>7. R \subseteq RowsOf(events') /\ RowsOf(events') \subseteq RowsOf(events) \cup R
  <2>1. \A x \in R : Twinned(x) => x \in RowsOf(events)
    BY DEF Twinned, RowsOf
  <2> QED BY <1>6, <2>1
<1> QED BY <1>2, <1>4, <1>5, <1>6, <1>7 DEF Grown

\* The step of one loader.
LEMMA RunMoves ==
  ASSUME DataInv, NEW l \in Loader, NEW r, loader' = [loader EXCEPT ![l] = r],
         RunFits(r, users', events', alerts', raced'), TablesInv', starts' \in Nat,
         users \subseteq users', Keys(events) \subseteq Keys(events'), raced \subseteq raced',
         alerts' \subseteq alerts
           \/ \A m \in Loader \ {l} : Altering(m) => loader[m].start \in raced'
  PROVE  DataInv'
<1>1. r \in RunRecord
  BY DEF RunFits
<1>2. loader' \in [Loader -> {Idle} \cup RunRecord]
  BY <1>1 DEF DataInv
<1>3. loader'[l] = r /\ \A m \in Loader : m # l => loader'[m] = loader[m]
  BY DEF DataInv
<1>4. alerts' \subseteq alerts => Ids(alerts') \subseteq Ids(alerts)
  BY DEF Ids
<1>5. ASSUME NEW m \in Loader, loader'[m] # Idle
      PROVE  RunFits(loader'[m], users', events', alerts', raced')
  <2>1. CASE m = l
    BY <1>3, <2>1
  <2>2. CASE m # l
    <3>1. RunFits(loader[m], users, events, alerts, raced) /\ loader'[m] = loader[m]
      BY <1>3, <1>5, <2>2 DEF DataInv
    <3>2. loader[m].pc \in {"deleting", "inserting"} =>
            (Ids(alerts') \subseteq Ids(alerts) \/ loader[m].start \in raced')
      BY <1>4, <2>2 DEF Altering
    <3> QED BY <3>1, <3>2, FitsGrown
  <2> QED BY <2>1, <2>2
<1> QED BY <1>2, <1>5 DEF DataInv

\* A step that leaves the tables alone.
LEMMA RunGoes ==
  ASSUME DataInv, NEW l \in Loader, NEW r, loader' = [loader EXCEPT ![l] = r],
         RunFits(r, users, events, alerts, raced), UNCHANGED <<tables, raced>>, starts' \in Nat
  PROVE  DataInv'
<1>1. /\ UNCHANGED <<users, owner, events, alerts, risky, hot, link, raced>>
  BY DEF tables
<1>2. TablesInv'
  BY <1>1 DEF DataInv, TablesInv, Known, RowsOf, UsersIn, DevicesIn, Keys, OneAlertPerUser
<1>3. RunFits(r, users', events', alerts', raced')
  BY <1>1
<1> QED BY <1>1, <1>2, <1>3, RunMoves DEF Keys

LEMMA RunHas ==
  ASSUME DataInv, NEW l \in Loader, loader[l].pc # "idle"
  PROVE  /\ loader[l] \in RunRecord /\ loader[l].kind \in Kind
         /\ RunFits(loader[l], users, events, alerts, raced)
<1>1. loader[l] # Idle
  BY DEF Idle
<1> QED BY <1>1, RunTyped DEF DataInv, RunFits
-----------------------------------------------------------------------------
(***************************************************************************)
(* Every step keeps the inductive invariant: one lemma an action.          *)
(***************************************************************************)
LEMMA TablesLinked ==
  ASSUME TablesInv, link' \in users \cup {NoUser},
         UNCHANGED <<users, owner, events, alerts, risky, hot, raced>>
  PROVE  TablesInv'
BY DEF TablesInv, Known, RowsOf, UsersIn, DevicesIn, Keys, OneAlertPerUser

LEMMA BootstrapLinks ==
  ASSUME TablesInv, Bootstrap
  PROVE  link' \in users \cup {NoUser}
BY DEF TablesInv, Bootstrap

LEMMA StartKeeps ==
  ASSUME DataInv, NEW l \in Loader, NEW k \in Kind, Start(l, k)
  PROVE  DataInv'
<1> DEFINE x == FirstPc(k)
           r == Fresh(k, starts + 1, x)
<1>1. x \in {"reset", "demo", "seed", "direct", "users"}
      /\ (k \in {"seed", "direct"} => x = k) /\ (x \in {"seed", "direct", "demo"} => k = x)
  BY LoadersAssumption DEF FirstPc
<1>2. starts + 1 \in Nat /\ starts' = starts + 1
  BY DEF DataInv, Start
<1>3. /\ r.pc = x /\ r.kind = k /\ r.file = 1 /\ r.pos = 0 /\ r.counted = {} /\ r.risky = {}
      /\ r.start = starts + 1 /\ r.picked = {} /\ r.doomed = {} /\ r.hot = {}
      /\ r.gone = {} /\ r.made = {} /\ r.aborted = FALSE
  BY DEF Fresh
<1>4. r \in RunRecord
  BY <1>1, <1>2 DEF Fresh, RunRecord, Pc
<1>5. loader' = [loader EXCEPT ![l] = r]
  BY DEF Start
<1> HIDE DEF x, r
<1>6. KindFits(r) /\ Stored(r, events)
  BY <1>1, <1>3 DEF KindFits, Stored
<1>7. WithinFile(r)
  <2>1. Len(Files[k][1]) \in Nat
    BY FilesTyped
  <2> QED BY <1>3, <2>1, FilesTyped DEF WithinFile
<1>8. UsersIn(RowsRead(r)) \subseteq users
  BY <1>3 DEF RowsRead, UsersIn
<1>9. RunFits(r, users, events, alerts, raced)
  BY <1>1, <1>3, <1>4, <1>6, <1>7, <1>8 DEF RunFits
<1>10. UNCHANGED <<users, owner, events, alerts, risky, hot, raced>>
  BY DEF Start
<1>11. TablesInv'
  <2>1. link' \in users \cup {NoUser}
    BY BootstrapLinks DEF Start, DataInv, TablesInv
  <2> QED BY <1>10, <2>1, TablesLinked DEF DataInv
<1>12. RunFits(r, users', events', alerts', raced')
  BY <1>9, <1>10
<1>13. starts' \in Nat /\ alerts' \subseteq alerts /\ users \subseteq users'
       /\ Keys(events) \subseteq Keys(events') /\ raced \subseteq raced'
  BY <1>2, <1>10
<1> QED BY <1>5, <1>11, <1>12, <1>13, RunMoves

LEMMA StartFailsKeeps ==
  ASSUME DataInv, NEW l \in Loader, StartFails(l)
  PROVE  DataInv'
<1>1. /\ UNCHANGED <<users, owner, events, alerts, risky, hot, link, raced>>
      /\ loader' = [loader EXCEPT ![l] = Idle] /\ starts' = starts + 1
  BY DEF StartFails, tables
<1>2. TablesInv'
  BY <1>1 DEF DataInv, TablesInv, Known, RowsOf, UsersIn, DevicesIn, Keys, OneAlertPerUser
<1>3. starts' \in Nat /\ loader' \in [Loader -> {Idle} \cup RunRecord]
  BY <1>1 DEF DataInv
<1>4. \A m \in Loader : loader'[m] # Idle => loader'[m] = loader[m] /\ loader[m] # Idle
  BY <1>1 DEF DataInv
<1>5. \A m \in Loader : loader'[m] # Idle =>
        RunFits(loader'[m], users', events', alerts', raced')
  BY <1>1, <1>4 DEF DataInv
<1> QED BY <1>2, <1>3, <1>5 DEF DataInv

\* The end of a run, whatever its kind.
LEMMA EndTyped ==
  ASSUME NEW r \in RunRecord, NEW x \in {"done", "dead"}
  PROVE  LET q == Ends(r, x)
         IN  /\ q \in RunRecord /\ q.pc = x /\ q.kind = r.kind /\ q.counted = r.counted
             /\ q.gone = r.gone /\ q.aborted = r.aborted /\ q.risky = {} /\ q.made = {}
<1> DEFINE r1 == [r EXCEPT !.pc = x]
           r2 == [r1 EXCEPT !.picked = {}]
           r3 == [r2 EXCEPT !.made = {}]
           r4 == [r3 EXCEPT !.doomed = {}]
           r5 == [r4 EXCEPT !.risky = {}]
           r6 == [r5 EXCEPT !.hot = {}]
           Same(q) == /\ q.kind = r.kind /\ q.counted = r.counted /\ q.gone = r.gone
                      /\ q.aborted = r.aborted
<1>1. Ends(r, x) = r6
  BY DEF Ends
<1>2. r1 \in RunRecord /\ r1.pc = x /\ Same(r1)
  <2>1. x \in Pc
    BY DEF Pc
  <2> QED BY <2>1, SetPc
<1> HIDE DEF r1
<1>3. r2 \in RunRecord /\ r2.pc = x /\ Same(r2)
  BY <1>2, SetPicked
<1> HIDE DEF r2
<1>4. r3 \in RunRecord /\ r3.pc = x /\ Same(r3) /\ r3.made = {}
  BY <1>3, SetMade
<1> HIDE DEF r3
<1>5. r4 \in RunRecord /\ r4.pc = x /\ Same(r4) /\ r4.made = {}
  BY <1>4, SetDoomed
<1> HIDE DEF r4
<1>6. r5 \in RunRecord /\ r5.pc = x /\ Same(r5) /\ r5.made = {} /\ r5.risky = {}
  BY <1>5, SetRisky
<1> HIDE DEF r5
<1>7. r6 \in RunRecord /\ r6.pc = x /\ Same(r6) /\ r6.made = {} /\ r6.risky = {}
  BY <1>6, SetHot
<1> HIDE DEF r6
<1> QED BY <1>1, <1>7

LEMMA DeadFits ==
  ASSUME NEW r \in RunRecord, NEW us, NEW E, NEW A, NEW N, Stored(r, E)
  PROVE  RunFits(Ends(r, "dead"), us, E, A, N)
<1> DEFINE q == Ends(r, "dead")
<1>1. /\ q \in RunRecord /\ q.pc = "dead" /\ q.kind = r.kind /\ q.counted = r.counted
      /\ q.gone = r.gone /\ q.aborted = r.aborted /\ q.risky = {} /\ q.made = {}
  BY EndTyped
<1> HIDE DEF q
<1>2. KindFits(q) /\ Stored(q, E)
  BY <1>1 DEF KindFits, Stored
<1>3. RunFits(q, us, E, A, N)
  BY <1>1, <1>2 DEF RunFits
<1> QED BY <1>3 DEF q

\* A run that is stopped leaves what it has committed.
LEMMA StopKeeps ==
  ASSUME DataInv, NEW l \in Loader, loader[l].pc # "idle",
         loader' = [loader EXCEPT ![l] = Ends(@, "dead")],
         TablesInv', starts' \in Nat, users \subseteq users',
         Keys(events) \subseteq Keys(events'), raced \subseteq raced',
         alerts' \subseteq alerts
           \/ \A m \in Loader \ {l} : Altering(m) => loader[m].start \in raced'
  PROVE  DataInv'
<1>1. loader[l] \in RunRecord /\ Stored(loader[l], events)
  BY RunHas DEF RunFits
<1>2. Stored(loader[l], events')
  BY <1>1, KeysOfRows DEF Stored
<1>3. RunFits(Ends(loader[l], "dead"), users', events', alerts', raced')
  BY <1>1, <1>2, DeadFits
<1>4. loader' = [loader EXCEPT ![l] = Ends(loader[l], "dead")]
  OBVIOUS
<1> QED BY <1>3, <1>4, RunMoves

LEMMA CrashKeeps ==
  ASSUME DataInv, NEW l \in Loader, Crash(l)
  PROVE  DataInv'
<1>1. loader[l].pc # "idle" /\ loader' = [loader EXCEPT ![l] = Ends(@, "dead")]
  BY DEF Crash, Ended
<1>2. UNCHANGED <<users, owner, events, alerts, risky, hot, link, raced>> /\ starts' \in Nat
  BY DEF Crash, DataInv, tables
<1>3. TablesInv'
  BY <1>2, TablesLinked DEF DataInv, TablesInv
<1> QED BY <1>1, <1>2, <1>3, StopKeeps

\* A run goes on to x with the same rows.
LEMMA GotoFits ==
  ASSUME NEW r \in RunRecord, NEW x \in Pc, NEW us, NEW E, NEW A, NEW N,
         RunFits(r, us, E, A, N), KindFits([r EXCEPT !.pc = x]),
         r.kind \notin {"seed", "direct"} \/ x # "done", r.pc # "inserting",
         x \notin {"reset", "deleting", "inserting"},
         x \in {"profiles", "files", "users", "devices", "rows"} =>
           r.pc \in {"reset", "profiles", "users", "devices"},
         x \in {"profiles", "files"} => r.pc \in {"reset", "profiles"}
  PROVE  RunFits([r EXCEPT !.pc = x], us, E, A, N)
<1> DEFINE q == [r EXCEPT !.pc = x]
<1>1. q \in RunRecord /\ KindFits(q)
  BY SetPc
<1>2. /\ q.pc = x /\ q.kind = r.kind /\ q.file = r.file /\ q.pos = r.pos
      /\ q.counted = r.counted /\ q.gone = r.gone
  BY DEF RunRecord
<1>3. q.risky = r.risky /\ q.aborted = r.aborted /\ q.made = r.made
  BY DEF RunRecord
<1> HIDE DEF q
<1>4. Stored(q, E)
  BY <1>2, <1>3 DEF RunFits, Stored
<1>5. WithinFile(r) => WithinFile(q)
  BY <1>2 DEF WithinFile
<1>6. RowsRead(q) = RowsRead(r)
  BY <1>2 DEF RowsRead
<1>7. RunFits(q, us, E, A, N)
  BY <1>1, <1>2, <1>3, <1>4, <1>5, <1>6 DEF RunFits
<1> QED BY <1>7 DEF q

LEMMA NoResetKeeps ==
  ASSUME DataInv, NEW l \in Loader, NoReset(l)
  PROVE  DataInv'
<1> DEFINE r == loader[l]
           q == [r EXCEPT !.pc = "profiles"]
<1>1. r.pc = "reset" /\ loader' = [loader EXCEPT ![l] = q]
  BY DEF NoReset, At, Goto
<1>2. r \in RunRecord /\ RunFits(r, users, events, alerts, raced)
  BY <1>1, RunHas
<1>3. KindFits(q) /\ r.kind \notin {"seed", "direct"}
  BY <1>1, <1>2 DEF RunFits, KindFits, RunRecord
<1>4. RunFits(q, users, events, alerts, raced)
  BY <1>1, <1>2, <1>3, GotoFits DEF Pc
<1> QED BY <1>1, <1>4, RunGoes DEF NoReset, DataInv

LEMMA LoadProfilesKeeps ==
  ASSUME DataInv, NEW l \in Loader, LoadProfiles(l)
  PROVE  DataInv'
<1> DEFINE r == loader[l]
           q == [r EXCEPT !.pc = "files"]
<1>1. r.pc = "profiles" /\ loader' = [loader EXCEPT ![l] = q]
  BY DEF LoadProfiles, At, Goto
<1>2. r \in RunRecord /\ RunFits(r, users, events, alerts, raced)
  BY <1>1, RunHas
<1>3. KindFits(q) /\ r.kind \notin {"seed", "direct"}
  BY <1>1, <1>2 DEF RunFits, KindFits, RunRecord
<1>4. RunFits(q, users, events, alerts, raced)
  BY <1>1, <1>2, <1>3, GotoFits DEF Pc
<1>5. /\ users \subseteq users' /\ users' \subseteq User
      /\ UNCHANGED <<owner, events, alerts, risky, hot, link, starts, raced>>
  BY LoadersAssumption DEF LoadProfiles, DataInv, TablesInv
<1>6. TablesInv'
  BY <1>5 DEF DataInv, TablesInv, Known, RowsOf, UsersIn, DevicesIn, Keys, OneAlertPerUser
<1>7. /\ Keys(events) \subseteq Keys(events') /\ alerts' \subseteq alerts
      /\ raced \subseteq raced' /\ starts' \in Nat
  BY <1>5 DEF DataInv
<1>8. RunFits(q, users', events', alerts', raced')
  BY <1>4, <1>5, <1>7, FitsGrown
<1> QED BY <1>1, <1>5, <1>6, <1>7, <1>8, RunMoves

LEMMA ResetKeeps ==
  ASSUME DataInv, NEW l \in Loader, Reset(l)
  PROVE  DataInv'
<1> DEFINE E == events \ Cert(events)
           lost(m) == [loader[m] EXCEPT !.gone = @ \cup (loader[m].counted \ RowsOf(E))]
<1>1. /\ events' = E /\ alerts' = {a \in alerts : a.event.prefix # "cert-r42"}
      /\ UNCHANGED <<users, owner, risky, hot, link, starts, raced>>
  BY DEF Reset
<1>2. loader[l].pc = "reset" /\ ResetFree
  BY DEF Reset, At
<1>3. E \subseteq events /\ \A e \in events : e.prefix # "cert-r42" => e \in E
  BY DEF Cert
<1>4. {a.event : a \in alerts'} \subseteq Keys(events')
  <2> SUFFICES ASSUME NEW a \in alerts, a.event.prefix # "cert-r42"
               PROVE  a.event \in Keys(E)
    BY <1>1
  <2>1. PICK e \in events : a.event = Key(e)
    BY DEF DataInv, TablesInv, Keys
  <2>2. e.prefix # "cert-r42"
    BY <2>1 DEF Key
  <2> QED BY <1>3, <2>1, <2>2 DEF Keys
<1>5. TablesInv'
  <2>1. events' \subseteq Event /\ alerts' \subseteq alerts
    BY <1>1, <1>3 DEF DataInv, TablesInv
  <2>2. RowsOf(events') \subseteq RowsOf(events)
    BY <1>1, <1>3 DEF RowsOf
  <2>3. /\ UsersIn(RowsOf(events')) \subseteq users'
        /\ DevicesIn(RowsOf(events')) \subseteq Known'
    BY <1>1, <2>2 DEF DataInv, TablesInv, UsersIn, DevicesIn, Known
  <2>4. OneAlertPerUser'
    BY <1>1, <2>1 DEF DataInv, TablesInv, OneAlertPerUser
  <2>5. \A d \in Known' : owner'[d] \in users' \cup {NoUser}
    BY <1>1 DEF DataInv, TablesInv, Known
  <2>6. /\ users' \subseteq User /\ owner' \in [Device -> User \cup {NoUser, Missing}]
        /\ risky' \subseteq users' /\ hot' \subseteq Device /\ link' \in users' \cup {NoUser}
        /\ alerts' \subseteq AlertRecord
    BY <1>1, <2>1 DEF DataInv, TablesInv
  <2> QED BY <1>4, <2>1, <2>3, <2>4, <2>5, <2>6
          DEF TablesInv, UsersIn, DevicesIn, RowsOf, Keys
<1>6. \A m \in Loader :
        \/ m = l /\ loader'[m] = [loader[m] EXCEPT !.pc = "profiles"]
        \/ m # l /\ loader'[m] = loader[m]
             /\ (loader[m] = Idle \/ Is(m, {"seed", "direct"}))
        \/ m # l /\ loader[m] # Idle /\ loader'[m] = lost(m)
  <2> SUFFICES ASSUME NEW m \in Loader
               PROVE  \/ m = l /\ loader'[m] = [loader[m] EXCEPT !.pc = "profiles"]
                      \/ m # l /\ loader'[m] = loader[m]
                           /\ (loader[m] = Idle \/ Is(m, {"seed", "direct"}))
                      \/ m # l /\ loader[m] # Idle /\ loader'[m] = lost(m)
    OBVIOUS
  <2>1. loader'[m] = IF m = l THEN [loader[l] EXCEPT !.pc = "profiles"]
                     ELSE IF loader[m] = Idle \/ Is(m, {"seed", "direct"}) THEN loader[m]
                     ELSE lost(m)
    BY DEF Reset, Lost
  <2> HIDE DEF lost
  <2> QED BY <2>1
<1>7. Ids(alerts') \subseteq Ids(alerts)
  BY <1>1 DEF Ids
\* The events another one has made alerts for stay.
<1>8. \A m \in Loader : loader[m].pc = "inserting" =>
        loader[m].made \cap Keys(events) \subseteq Keys(E)
  <2> SUFFICES ASSUME NEW m \in Loader, loader[m].pc = "inserting",
                      NEW e \in events, Key(e) \in loader[m].made
               PROVE  Key(e) \in Keys(E)
    BY DEF Keys
  <2>1. loader[m].made \cap {Key(f) : f \in Cert(events)} = {}
    BY <1>2 DEF ResetFree, At
  <2>2. e \notin Cert(events)
    BY <2>1
  <2> QED BY <2>2 DEF Keys
<1>9. ASSUME NEW m \in Loader, loader[m] # Idle
      PROVE  RunFits(loader'[m], users', events', alerts', raced')
  <2> DEFINE r == loader[m]
  <2>1. RunFits(r, users, events, alerts, raced) /\ r \in RunRecord
    BY <1>9 DEF DataInv, RunFits
  <2>2. CASE m = l /\ loader'[m] = [r EXCEPT !.pc = "profiles"]
    <3> DEFINE q == [r EXCEPT !.pc = "profiles"]
    <3>1. r.kind \notin {"seed", "direct"} /\ KindFits(q) /\ r.counted = {} /\ r.pc = "reset"
      BY <1>2, <2>1, <2>2 DEF RunFits, KindFits, RunRecord
    <3>2. RunFits(q, users, events, alerts, raced)
      BY <2>1, <3>1, GotoFits DEF Pc
    <3>3. q.counted = {} /\ q.pc = "profiles"
      BY <2>1, <3>1 DEF RunRecord
    <3> HIDE DEF q
    <3>4. Stored(q, events')
      BY <3>3 DEF Stored
    <3>5. RunFits(q, users', events', alerts', raced')
      BY <1>1, <3>2, <3>3, <3>4 DEF RunFits
    <3> QED BY <2>2, <3>5 DEF q
  <2>3. CASE loader'[m] = r /\ Is(m, {"seed", "direct"})
    <3>1. Stored(r, events') /\ r.pc \notin {"deleting", "inserting"}
      BY <2>1, <2>3 DEF Stored, Is, Ended, RunFits, KindFits
    <3> QED BY <1>1, <2>1, <2>3, <3>1 DEF RunFits
  <2>4. CASE loader'[m] = lost(m)
    <3> DEFINE G == r.gone \cup (r.counted \ RowsOf(E))
               q == [r EXCEPT !.gone = G]
    <3>1. loader'[m] = q /\ G \in SUBSET Row /\ r.counted \ G \subseteq RowsOf(E)
      BY <2>1, <2>4, RunTyped
    <3> HIDE DEF G
    <3>2. /\ q \in RunRecord /\ q.gone = G /\ q.pc = r.pc /\ q.kind = r.kind
          /\ q.start = r.start /\ q.file = r.file /\ q.pos = r.pos
          /\ q.counted = r.counted /\ q.picked = r.picked /\ q.made = r.made
          /\ q.doomed = r.doomed /\ q.risky = r.risky
      BY <2>1, <3>1, SetGone
    <3> HIDE DEF q
    <3>3. Stored(q, events') /\ KindFits(q) /\ (q.pc = "reset" => q.counted = {})
      BY <1>1, <2>1, <3>1, <3>2 DEF Stored, KindFits, RunFits
    <3>4. (WithinFile(r) => WithinFile(q)) /\ RowsRead(q) = RowsRead(r)
      BY <3>2 DEF WithinFile, RowsRead
    <3>5. q.pc \in {"deleting", "inserting"} => Deletes(q, alerts', raced')
      BY <1>1, <1>7, <2>1, <3>2 DEF RunFits, Deletes
    <3>6. IF q.pc = "inserting" THEN Inserts(q, events') ELSE q.made = {}
      BY <1>1, <1>8, <2>1, <3>2 DEF RunFits, Inserts
    <3>7. RunFits(q, users', events', alerts', raced')
      BY <1>1, <2>1, <3>2, <3>3, <3>4, <3>5, <3>6 DEF RunFits
    <3> QED BY <3>1, <3>7
  <2> QED BY <1>6, <1>9, <2>2, <2>3, <2>4
<1>10. \A m \in Loader : loader[m] = Idle => loader'[m] = Idle
  <2>1. loader[l] # Idle
    BY <1>2 DEF Idle
  <2> HIDE DEF lost
  <2> QED BY <1>6, <2>1
<1>11. loader' \in [Loader -> {Idle} \cup RunRecord]
  <2>1. loader' = [m \in Loader |-> loader'[m]]
    BY DEF Reset
  <2>2. \A m \in Loader : loader'[m] \in {Idle} \cup RunRecord
    BY <1>9, <1>10 DEF RunFits
  <2> QED BY <2>1, <2>2
<1> QED BY <1>1, <1>5, <1>9, <1>10, <1>11 DEF DataInv

\* Where the batch of a file ends.
LEMMA BatchEnds ==
  ASSUME NEW l \in Loader, loader[l] \in RunRecord, WithinFile(loader[l])
  PROVE  BatchEnd(l) \in loader[l].pos..Len(File(l)) /\ Len(File(l)) \in Nat
<1> DEFINE n == Len(File(l))
           good(i) == {j \in (loader[l].pos + 1)..i : File(l)[j] \notin Bad}
           full == {i \in loader[l].pos..n : Cardinality(good(i)) = BatchSize}
<1>1. n \in Nat /\ loader[l].pos \in 0..n
  BY FilesTyped, RunTyped DEF WithinFile, File, FilesOf
<1>2. BatchEnd(l) = IF full = {} THEN n ELSE Min(full)
  BY DEF BatchEnd
<1> HIDE DEF good
<1>3. full \subseteq loader[l].pos..n /\ full \in SUBSET Nat
  BY <1>1
<1> HIDE DEF full
<1>4. CASE full = {}
  BY <1>1, <1>2, <1>4
<1>5. CASE full # {}
  <2>1. \E i \in full : \A j \in full : i <= j
    BY <1>3, <1>5, Least
  <2>2. Min(full) \in full
    BY <2>1 DEF Min
  <2> QED BY <1>1, <1>2, <1>3, <1>5, <2>2
<1> QED BY <1>1, <1>4, <1>5

LEMMA BatchRead ==
  ASSUME NEW l \in Loader, loader[l] \in RunRecord, WithinFile(loader[l])
  PROVE  /\ Read(l) \subseteq Row /\ Batch(l) \subseteq Read(l)
         /\ Read(l) \subseteq RowsRead(loader[l]) \cup Batch(l)
<1> DEFINE r == loader[l]
           n == Len(File(l))
           e == BatchEnd(l)
           before == (UNION {{FilesOf(l)[f][i] : i \in DOMAIN FilesOf(l)[f]} :
                                f \in 1..(r.file - 1)}) \ Bad
           span(i, j) == {File(l)[m] : m \in i..j} \ Bad
<1>1. /\ r.kind \in Kind /\ r.file \in DOMAIN Files[r.kind] /\ r.pos \in Nat
      /\ n \in Nat /\ e \in r.pos..n /\ DOMAIN File(l) = 1..n
      /\ File(l) \in Seq(Row) /\ File(l) = Files[r.kind][r.file] /\ FilesOf(l) = Files[r.kind]
  <2>1. e \in r.pos..n
    BY BatchEnds
  <2> QED BY <2>1, FilesTyped, RunTyped DEF WithinFile, File, FilesOf
<1>2. Read(l) = before \cup span(1, e) /\ Batch(l) = span(r.pos + 1, e)
      /\ RowsRead(r) = before \cup span(1, r.pos)
  BY <1>1 DEF Read, Batch, Between, RowsRead
<1>3. before \subseteq Row
  <2>1. \A f \in 1..(r.file - 1) : f \in DOMAIN Files[r.kind]
    BY <1>1, FilesTyped
  <2>2. \A f \in 1..(r.file - 1) : \A i \in DOMAIN Files[r.kind][f] :
          Files[r.kind][f][i] \in Row
    BY <1>1, <2>1, FilesTyped
  <2> QED BY <1>1, <2>2
<1>4. \A m \in 1..e : File(l)[m] \in Row
  BY <1>1
<1>5. span(1, e) \subseteq Row
  BY <1>4
<1>6. (r.pos + 1)..e \subseteq 1..e /\ 1..e \subseteq (1..r.pos) \cup ((r.pos + 1)..e)
  BY <1>1
<1>7. span(r.pos + 1, e) \subseteq span(1, e)
      /\ span(1, e) \subseteq span(1, r.pos) \cup span(r.pos + 1, e)
  BY <1>6
<1> QED BY <1>2, <1>3, <1>5, <1>7

\* A run goes on to the next batch, file or step.
LEMMA Advanced ==
  ASSUME NEW l \in Loader, loader[l] \in RunRecord, loader[l].pc = "files",
         RunFits(loader[l], users, events, alerts, raced),
         NEW done \in SUBSET Row, Advance(l, done), users \subseteq users',
         UsersIn(Read(l)) \subseteq users', Keys(events) \subseteq Keys(events'),
         done \subseteq RowsOf(events')
  PROVE  \E q : /\ loader' = [loader EXCEPT ![l] = q]
                /\ RunFits(q, users', events', alerts', raced')
<1> DEFINE r == loader[l]
           n == Len(File(l))
           e == BatchEnd(l)
           end == e = n
           last == r.file = Len(FilesOf(l))
           pos == IF end THEN 0 ELSE e
           file == IF end /\ ~last THEN r.file + 1 ELSE r.file
           pc == IF end /\ last THEN "scores" ELSE r.pc
           C == r.counted \cup done
           r1 == [r EXCEPT !.pos = pos]
           r2 == [r1 EXCEPT !.file = file]
           r3 == [r2 EXCEPT !.pc = pc]
           G == r.gone \ done
           r4 == [r3 EXCEPT !.counted = C]
           q == [r4 EXCEPT !.gone = G]
           Same(p) == /\ p.kind = r.kind /\ p.risky = r.risky /\ p.made = r.made
<1>1. loader' = [loader EXCEPT ![l] = q]
  BY DEF Advance
<1>2. /\ WithinFile(r) /\ r.kind \in Kind /\ FilesOf(l) = Files[r.kind]
      /\ File(l) = Files[r.kind][r.file] /\ r.risky \subseteq users \cup OwnUsers(r.kind)
      /\ r.made = {} /\ r.counted \subseteq Row /\ r.gone \subseteq Row /\ r.file \in Nat \ {0} /\ r.pos \in Nat
      /\ KindFits(r) /\ Stored(r, events) /\ UsersIn(RowsRead(r)) \subseteq users
  BY RunTyped DEF RunFits, FilesOf, File
<1>3. e \in r.pos..n /\ n \in Nat /\ r.file \in 1..Len(Files[r.kind])
      /\ Len(Files[r.kind]) \in Nat
  <2>1. e \in r.pos..n /\ n \in Nat
    BY <1>2, BatchEnds
  <2> QED BY <1>2, <2>1, FilesTyped DEF WithinFile
<1>4. pos \in Nat /\ file \in Nat \ {0} /\ pc \in Pc /\ C \in SUBSET Row
      /\ G \in SUBSET Row
  BY <1>2, <1>3 DEF Pc
<1> HIDE DEF C, G, file, pos, pc
<1>5. r1 \in RunRecord /\ r1.pos = pos /\ r1.pc = r.pc /\ Same(r1)
      /\ r1.file = r.file /\ r1.counted = r.counted /\ r1.gone = r.gone
  BY <1>4, SetPos
<1> HIDE DEF r1
<1>6. r2 \in RunRecord /\ r2.pos = pos /\ r2.pc = r.pc /\ Same(r2)
      /\ r2.file = file /\ r2.counted = r.counted /\ r2.gone = r.gone
  BY <1>4, <1>5, SetFile
<1> HIDE DEF r2
<1>7. r3 \in RunRecord /\ r3.pos = pos /\ r3.pc = pc /\ Same(r3)
      /\ r3.file = file /\ r3.counted = r.counted /\ r3.gone = r.gone
  BY <1>4, <1>6, SetPc
<1> HIDE DEF r3
<1>8. /\ q \in RunRecord /\ q.pos = pos /\ q.pc = pc /\ q.file = file /\ q.counted = C
      /\ q.gone = G /\ q.kind = r.kind /\ q.risky = r.risky /\ q.made = r.made
  <2>1. r4 \in RunRecord /\ r4.pos = pos /\ r4.pc = pc /\ Same(r4)
        /\ r4.file = file /\ r4.counted = C
    BY <1>4, <1>7, SetCounted
  <2> HIDE DEF r4
  <2> QED BY <1>4, <2>1, SetGone
<1> HIDE DEF q
<1>9. r.kind \notin {"seed", "direct"} /\ pc \in {"files", "scores"}
  BY <1>2 DEF KindFits, pc
<1>10. KindFits(q) /\ Stored(q, events')
  <2>1. r.counted \ r.gone \subseteq RowsOf(events')
    BY <1>2, <1>9, KeysOfRows DEF Stored
  <2>2. C \ G \subseteq RowsOf(events')
    BY <2>1 DEF C, G
  <2> QED BY <1>8, <1>9, <2>2 DEF KindFits, Stored
<1>11. pc = "files" => WithinFile(q) /\ UsersIn(RowsRead(q)) \subseteq users'
  <2>1. CASE ~end
    <3>1. pos = e /\ file = r.file
      BY <2>1 DEF pos, file
    <3>2. WithinFile(q)
      BY <1>2, <1>3, <1>8, <3>1 DEF WithinFile
    <3>3. RowsRead(q) = Read(l)
      BY <1>2, <1>8, <3>1 DEF RowsRead, Read, Between
    <3> QED BY <3>2, <3>3
  <2>2. CASE end /\ last
    BY <2>2 DEF pc
  <2>3. CASE end /\ ~last
    <3>1. pos = 0 /\ file = r.file + 1 /\ file \in DOMAIN Files[r.kind]
      <4>1. pos = 0 /\ file = r.file + 1 /\ r.file # Len(Files[r.kind])
        BY <1>2, <2>3 DEF pos, file
      <4>2. file \in 1..Len(Files[r.kind])
        BY <1>3, <4>1
      <4> QED BY <1>2, <4>1, <4>2, FilesTyped
    <3>2. WithinFile(q)
      <4>1. Len(Files[r.kind][file]) \in Nat
        BY <1>2, <3>1, FilesTyped
      <4> QED BY <1>8, <3>1, <4>1 DEF WithinFile
    <3>3. DOMAIN File(l) = 1..e
      BY <1>2, <2>3, FilesTyped DEF WithinFile
    <3>4. 1..(file - 1) = (1..(r.file - 1)) \cup {r.file} /\ 1..pos = {}
      BY <1>2, <3>1
    <3>5. RowsRead(q) \subseteq Read(l)
      <4> SUFFICES ASSUME NEW x \in RowsRead(q) PROVE x \in Read(l)
        OBVIOUS
      <4> DEFINE before(k, m) ==
                   UNION {{Files[k][f][i] : i \in DOMAIN Files[k][f]} : f \in 1..(m - 1)}
                 upto(k, m, j) == {Files[k][m][i] : i \in 1..j}
      <4>0. /\ RowsRead(q) = (before(r.kind, file) \ Bad) \cup (upto(r.kind, file, pos) \ Bad)
            /\ Read(l) = (before(r.kind, r.file) \ Bad) \cup Between(l, 1, e)
        <5>1. /\ RowsRead(q) = (before(q.kind, q.file) \ Bad)
                                 \cup (upto(q.kind, q.file, q.pos) \ Bad)
              /\ Read(l) = (before(r.kind, r.file) \ Bad) \cup Between(l, 1, e)
          BY DEF RowsRead, Read, FilesOf
        <5> HIDE DEF before, upto
        <5> QED BY <1>8, <5>1
      <4>1. x \in before(r.kind, file) /\ x \notin Bad
        <5>1. upto(r.kind, file, pos) = {}
          BY <3>4
        <5> HIDE DEF before, upto
        <5> QED BY <4>0, <5>1
      <4>2. PICK f \in (1..(r.file - 1)) \cup {r.file} : \E i \in DOMAIN Files[r.kind][f] :
                              x = Files[r.kind][f][i]
        BY <3>4, <4>1
      <4>3. CASE f \in 1..(r.file - 1)
        <5>1. x \in before(r.kind, r.file)
          BY <4>2, <4>3
        <5> HIDE DEF before, upto
        <5> QED BY <4>0, <4>1, <5>1
      <4>4. CASE f = r.file
        <5>1. \E i \in 1..e : x = File(l)[i]
          BY <1>2, <3>3, <4>2, <4>4
        <5> QED BY <4>1, <5>1 DEF Read, Between
      <4> QED BY <4>2, <4>3, <4>4
    <3>6. UsersIn(RowsRead(q)) \subseteq UsersIn(Read(l))
      BY <3>5 DEF UsersIn
    <3> QED BY <3>2, <3>6
  <2> QED BY <2>1, <2>2, <2>3
<1>12. RunFits(q, users', events', alerts', raced')
  BY <1>2, <1>8, <1>9, <1>10, <1>11 DEF RunFits
<1> QED BY <1>1, <1>12

LEMMA FlushKeeps ==
  ASSUME DataInv, NEW l \in Loader, Flush(l)
  PROVE  DataInv'
<1> DEFINE r == loader[l]
           own == [d \in Device |-> FirstSeen(r.kind, Read(l), d)]
           us == BatchUsers(l)
           ds == BatchDevices(l)
           B == Batch(l)
<1>1. /\ r.pc = "files" /\ r \in RunRecord /\ r.kind \in Kind
      /\ RunFits(r, users, events, alerts, raced) /\ WithinFile(r)
      /\ UsersIn(RowsRead(r)) \subseteq users
  <2>1. r.pc = "files"
    BY DEF Flush, At
  <2> QED BY <2>1, RunHas DEF RunFits
<1>2. B \subseteq Read(l) /\ Read(l) \subseteq Row /\ B \subseteq Row
      /\ UsersIn(Read(l)) \subseteq users \cup UsersIn(B)
  <2>1. /\ Read(l) \subseteq Row /\ B \subseteq Read(l)
        /\ Read(l) \subseteq RowsRead(r) \cup B
    BY <1>1, BatchRead
  <2>2. UsersIn(Read(l)) \subseteq UsersIn(RowsRead(r)) \cup UsersIn(B)
    BY <2>1 DEF UsersIn
  <2> QED BY <1>1, <2>1, <2>2
<1>3. UNCHANGED <<alerts, risky, hot, link, starts, raced>> /\ starts' \in Nat
  BY DEF Flush, DataInv
<1>4. CASE B = {}
  <2>1. Advance(l, {}) /\ UNCHANGED <<users, owner, events>>
    BY <1>4 DEF Flush
  <2>2. UsersIn(Read(l)) \subseteq users'
    BY <1>2, <1>4, <2>1 DEF UsersIn
  <2>3. PICK q : /\ loader' = [loader EXCEPT ![l] = q]
                 /\ RunFits(q, users', events', alerts', raced')
    BY <1>1, <2>1, <2>2, Advanced
  <2>4. RunFits(q, users, events, alerts, raced) /\ UNCHANGED <<users, owner, events>>
    BY <1>3, <2>1, <2>3
  <2>5. TablesInv'
    BY <1>3, <2>1, TablesLinked DEF DataInv, TablesInv
  <2> QED BY <1>3, <2>1, <2>3, <2>5, RunMoves
<1>5. CASE B # {}
  <2>1. UsersIn(B) \subseteq us /\ DevicesIn(B) \subseteq ds /\ us \subseteq User
        /\ ds \subseteq Device
    <3>1. /\ UsersIn(B) \subseteq UsersIn(Read(l)) /\ DevicesIn(B) \subseteq DevicesIn(Read(l))
          /\ UsersIn(Read(l)) \subseteq User /\ DevicesIn(Read(l)) \subseteq Device
          /\ UsersIn(B) \subseteq User /\ DevicesIn(B) \subseteq Device
      <4>1. UsersIn(B) \subseteq UsersIn(Read(l)) /\ DevicesIn(B) \subseteq DevicesIn(Read(l))
        BY <1>2 DEF UsersIn, DevicesIn
      <4> QED BY <1>2, <4>1, RowsName
    <3> QED BY <3>1, LoadersAssumption DEF BatchUsers, BatchDevices
  <2>2. \A d \in ds : own[d] \in (users \cup us) \cup {NoUser}
    <3>1. \A d \in ds : own[d] = FirstSeen(r.kind, Read(l), d)
      BY <2>1
    <3> HIDE DEF own
    <3>2. \A d \in ds : FirstSeen(r.kind, Read(l), d) \in UsersIn(Read(l)) \cup {NoUser}
      BY <1>1, SeenUser
    <3> QED BY <1>2, <2>1, <3>1, <3>2
  <2> HIDE DEF own
  <2>3. Resolve(us, ds, own, B)
    BY <2>1, <2>2 DEF Resolve
  <2>4. Store(us, ds, own, TRUE, B) /\ Advance(l, B)
    BY <1>5, <2>3 DEF Flush, own
  <2> HIDE DEF us, ds
  <2>5. Grown(B) /\ B \subseteq RowsOf(events') /\ B \in SUBSET Row
    BY <1>2, <2>1, <2>3, <2>4, Storing DEF DataInv
  <2>6. TablesInv'
    BY <1>3, <2>5, TablesGrow DEF DataInv
  <2>7. users \subseteq users' /\ Keys(events) \subseteq Keys(events')
        /\ UsersIn(Read(l)) \subseteq users'
    BY <1>2, <2>5 DEF Grown
  <2>8. PICK q : /\ loader' = [loader EXCEPT ![l] = q]
                 /\ RunFits(q, users', events', alerts', raced')
    BY <1>1, <2>4, <2>5, <2>7, Advanced
  <2> QED BY <1>3, <2>6, <2>7, <2>8, RunMoves
<1> QED BY <1>4, <1>5

\* The scores of a transaction still open are kept with its run.
LEMMA ScoredFits ==
  ASSUME NEW r \in RunRecord, NEW us, NEW E, NEW A, NEW N, RunFits(r, us, E, A, N),
         r.pc \in {"scores", "demo"}, NEW X \in SUBSET User, NEW Y \in SUBSET Device,
         X \subseteq us \cup OwnUsers(r.kind)
  PROVE  RunFits([[[r EXCEPT !.pc = "alerts"] EXCEPT !.risky = X] EXCEPT !.hot = Y],
                 us, E, A, N)
<1> DEFINE r1 == [r EXCEPT !.pc = "alerts"]
           r2 == [r1 EXCEPT !.risky = X]
           q == [r2 EXCEPT !.hot = Y]
           Same(p) == /\ p.kind = r.kind /\ p.counted = r.counted /\ p.gone = r.gone
                      /\ p.aborted = r.aborted /\ p.made = r.made
<1>1. r1 \in RunRecord /\ r1.pc = "alerts" /\ Same(r1)
  <2>1. "alerts" \in Pc
    BY DEF Pc
  <2> QED BY <2>1, SetPc
<1> HIDE DEF r1
<1>2. r2 \in RunRecord /\ r2.pc = "alerts" /\ Same(r2) /\ r2.risky = X
  BY <1>1, SetRisky
<1> HIDE DEF r2
<1>3. q \in RunRecord /\ q.pc = "alerts" /\ Same(q) /\ q.risky = X
  BY <1>2, SetHot
<1> HIDE DEF q
<1>4. KindFits(q) /\ Stored(q, E) /\ q.made = {}
  BY <1>3 DEF RunFits, KindFits, Stored
<1>5. RunFits(q, us, E, A, N)
  BY <1>3, <1>4 DEF RunFits
<1> QED BY <1>5 DEF q, r2, r1

LEMMA ScoreKeeps ==
  ASSUME DataInv, NEW l \in Loader, Score(l)
  PROVE  DataInv'
<1> DEFINE r == loader[l]
           q == [r EXCEPT !.pc = "alerts"]
           q1 == [q EXCEPT !.risky = RiskyIn(events)]
           q2 == [q1 EXCEPT !.hot = HotIn(events)]
<1>1. r.pc = "scores" /\ UNCHANGED <<users, owner, events, alerts, link, starts, raced>>
  BY DEF Score, At
<1>2. r \in RunRecord /\ RunFits(r, users, events, alerts, raced)
  BY <1>1, RunHas
<1>3. RiskyIn(events) \subseteq users /\ HotIn(events) \subseteq Device /\ users \subseteq User
  BY ScoresTyped DEF DataInv, TablesInv
<1>4. starts' \in Nat
  BY <1>1 DEF DataInv
<1>5. CASE r.kind = "full"
  <2>1. /\ risky' = RiskyIn(events) /\ hot' = HotIn(events)
        /\ loader' = [loader EXCEPT ![l] = q]
    BY <1>5 DEF Score, Goto
  <2>2. TablesInv'
    <3>1. Grown({}) /\ {} \in SUBSET Row
      BY <1>1, NoneGrown DEF DataInv
    <3>2. risky' \subseteq users' /\ hot' \subseteq Device
      BY <1>1, <1>3, <2>1
    <3> QED BY <1>1, <3>1, <3>2, TablesScored DEF DataInv
  <2>3. KindFits(q) /\ r.kind \notin {"seed", "direct"}
    BY <1>1, <1>2 DEF RunFits, KindFits, RunRecord
  <2>4. RunFits(q, users, events, alerts, raced)
    BY <1>1, <1>2, <2>3, GotoFits DEF Pc
  <2>5. RunFits(q, users', events', alerts', raced')
    BY <1>1, <2>4
  <2> QED BY <1>1, <1>4, <2>1, <2>2, <2>5, RunMoves
<1>6. CASE r.kind # "full"
  <2>1. loader' = [loader EXCEPT ![l] = q2] /\ UNCHANGED <<risky, hot>>
    BY <1>6 DEF Score
  <2>2. RunFits(q2, users, events, alerts, raced)
    BY <1>1, <1>2, <1>3, ScoredFits
  <2> HIDE DEF q2
  <2>3. UNCHANGED <<users, owner, events, alerts, risky, hot, link, raced>>
    BY <1>1, <2>1
  <2>4. RunFits(q2, users', events', alerts', raced')
    BY <2>2, <2>3
  <2>5. TablesInv'
    BY <2>3, TablesLinked DEF DataInv, TablesInv
  <2> QED BY <1>4, <2>1, <2>3, <2>4, <2>5, RunMoves
<1> QED BY <1>5, <1>6

LEMMA DemoKeeps ==
  ASSUME DataInv, NEW l \in Loader, Demo(l)
  PROVE  DataInv'
<1> DEFINE r == loader[l]
           E == Upserted("cert-r42", TRUE, DemoRows)
           q == [[[r EXCEPT !.pc = "alerts"] EXCEPT !.risky = RiskyIn(E)]
                  EXCEPT !.hot = HotIn(E)]
<1>1. r.pc = "demo" /\ UNCHANGED <<tables, starts, raced>>
  BY DEF Demo, At
<1>2. loader' = [loader EXCEPT ![l] = q]
  BY DEF Demo
<1>3. r \in RunRecord /\ RunFits(r, users, events, alerts, raced) /\ r.kind = "demo"
      /\ "demo" \in Kind
  <2>1. r \in RunRecord /\ RunFits(r, users, events, alerts, raced) /\ r.kind \in Kind
    BY <1>1, RunHas
  <2> QED BY <1>1, <2>1 DEF RunFits, KindFits
<1>4. DemoRows \in SUBSET Row /\ UsersIn(DemoRows) \subseteq User
  BY <1>3, DemoRowsTyped, RowsName
<1>5. E \in SUBSET Event /\ RowsOf(E) = RowsOf(events) \cup DemoRows
  <2>1. "cert-r42" \in Prefix /\ events \subseteq Event
    BY DEF Prefix, DataInv, TablesInv
  <2> QED BY <1>4, <2>1, UpsertedRows
<1> HIDE DEF E
<1>6. RiskyIn(E) \subseteq users \cup UsersIn(DemoRows) /\ HotIn(E) \in SUBSET Device
  <2>1. RiskyIn(E) \subseteq risky \cup UsersIn(RowsOf(E)) /\ HotIn(E) \subseteq hot \cup Device
    BY <1>5, ScoresTyped
  <2>2. UsersIn(RowsOf(E)) \subseteq UsersIn(RowsOf(events)) \cup UsersIn(DemoRows)
    BY <1>5 DEF UsersIn
  <2> QED BY <2>1, <2>2 DEF DataInv, TablesInv
<1>7. RiskyIn(E) \in SUBSET User /\ RiskyIn(E) \subseteq users \cup OwnUsers(r.kind)
  BY <1>3, <1>4, <1>6 DEF OwnUsers, DataInv, TablesInv
<1>8. RunFits(q, users, events, alerts, raced)
  BY <1>1, <1>3, <1>6, <1>7, ScoredFits
<1> HIDE DEF q
<1> QED BY <1>1, <1>2, <1>8, RunGoes DEF DataInv

LEMMA OvertakenRaced ==
  ASSUME NEW l \in Loader, raced' = raced \cup Overtaken(l)
  PROVE  /\ raced \subseteq raced'
         /\ \A m \in Loader \ {l} : Altering(m) => loader[m].start \in raced'
BY DEF Overtaken

LEMMA DeleteAlertsKeeps ==
  ASSUME DataInv, NEW l \in Loader, DeleteAlerts(l)
  PROVE  DataInv'
<1> DEFINE r == loader[l]
           r1 == [r EXCEPT !.pc = "deleting"]
           q == [r1 EXCEPT !.doomed = Ids(alerts)]
           Same(p) == /\ p.kind = r.kind /\ p.counted = r.counted /\ p.gone = r.gone
                      /\ p.aborted = r.aborted /\ p.made = r.made /\ p.risky = r.risky
<1>1. r.pc = "alerts" /\ UNCHANGED <<tables, starts, raced>>
      /\ loader' = [loader EXCEPT ![l] = q]
  BY DEF DeleteAlerts, At
<1>2. r \in RunRecord /\ RunFits(r, users, events, alerts, raced)
  BY <1>1, RunHas
<1>3. Ids(alerts) \in SUBSET IdRecord
  <2>1. \A a \in AlertRecord : Id(a) \in IdRecord
    BY DEF Id, IdRecord, AlertRecord
  <2> QED BY <2>1 DEF Ids, DataInv, TablesInv
<1>4. r1 \in RunRecord /\ r1.pc = "deleting" /\ Same(r1)
  <2>1. "deleting" \in Pc
    BY DEF Pc
  <2> QED BY <1>2, <2>1, SetPc
<1> HIDE DEF r1
<1>5. q \in RunRecord /\ q.pc = "deleting" /\ Same(q) /\ q.doomed = Ids(alerts)
  BY <1>3, <1>4, SetDoomed
<1> HIDE DEF q
<1>6. KindFits(q) /\ Stored(q, events) /\ Deletes(q, alerts, raced) /\ q.made = {}
  BY <1>1, <1>2, <1>5 DEF RunFits, KindFits, Stored, Deletes
<1>7. RunFits(q, users, events, alerts, raced)
  BY <1>2, <1>5, <1>6 DEF RunFits
<1> QED BY <1>1, <1>7, RunGoes DEF DataInv

\* The events it sees are stored, or its own.
LEMMA ViewTyped ==
  ASSUME DataInv, NEW l \in Loader, loader[l].kind \in Kind
  PROVE  /\ View(l) \in SUBSET Event
         /\ Keys(View(l)) \subseteq Keys(events) \cup OwnKeys(loader[l].kind)
<1>1. events \subseteq Event /\ "cert-r42" \in Prefix
  BY DEF DataInv, TablesInv, Prefix
<1>2. CASE loader[l].kind = "demo"
  <2>1. DemoRows \in SUBSET Row
    BY <1>2, DemoRowsTyped
  <2> QED BY <1>1, <1>2, <2>1, UpsertedRows DEF View, OwnKeys
<1>3. CASE loader[l].kind # "demo"
  BY <1>1, <1>3 DEF View
<1> QED BY <1>2, <1>3

LEMMA PickAlertsKeeps ==
  ASSUME DataInv, NEW l \in Loader, PickAlerts(l)
  PROVE  DataInv'
<1> DEFINE r == loader[l]
<1>1. r.pc = "deleting" /\ UNCHANGED <<tables, starts, raced>>
  BY DEF PickAlerts, At
<1>2. r \in RunRecord /\ r.kind \in Kind /\ RunFits(r, users, events, alerts, raced)
  BY <1>1, RunHas
<1>3. PICK keys \in Selections(View(l), RiskyOf(l), HotOf(l)) :
        loader' = [loader EXCEPT ![l].pc = "inserting", ![l].picked = keys]
  BY DEF PickAlerts
<1>4. keys \in SUBSET KeyRecord /\ OnePerUser(keys)
  BY <1>2, ViewTyped, SelectedKeys
<1> DEFINE r1 == [r EXCEPT !.pc = "inserting"]
           q == [r1 EXCEPT !.picked = keys]
           Same(p) == /\ p.kind = r.kind /\ p.counted = r.counted /\ p.gone = r.gone
                      /\ p.aborted = r.aborted /\ p.made = r.made /\ p.risky = r.risky
                      /\ p.doomed = r.doomed /\ p.start = r.start
<1>5. loader' = [loader EXCEPT ![l] = q]
  BY <1>3
<1>6. r1 \in RunRecord /\ r1.pc = "inserting" /\ Same(r1)
  <2>1. "inserting" \in Pc
    BY DEF Pc
  <2> QED BY <1>2, <2>1, SetPc
<1> HIDE DEF r1
<1>7. q \in RunRecord /\ q.pc = "inserting" /\ Same(q) /\ q.picked = keys
  BY <1>4, <1>6, SetPicked
<1> HIDE DEF q
<1>8. KindFits(q) /\ Stored(q, events) /\ Deletes(q, alerts, raced)
  BY <1>1, <1>2, <1>7 DEF RunFits, KindFits, Stored, Deletes
<1>9. Inserts(q, events)
  <2>1. q.made = {} /\ q.picked \cup q.made = keys
    BY <1>1, <1>2, <1>7 DEF RunFits
  <2> QED BY <1>4, <2>1 DEF Inserts
<1>10. RunFits(q, users, events, alerts, raced)
  BY <1>2, <1>7, <1>8, <1>9 DEF RunFits
<1> QED BY <1>1, <1>5, <1>10, RunGoes DEF DataInv

LEMMA InsertAlertKeeps ==
  ASSUME DataInv, NEW l \in Loader, InsertAlert(l)
  PROVE  DataInv'
<1> DEFINE r == loader[l]
<1>1. r.pc = "inserting" /\ UNCHANGED <<tables, starts, raced>>
  BY DEF InsertAlert, At
<1>2. r \in RunRecord /\ r.kind \in Kind /\ RunFits(r, users, events, alerts, raced)
  BY <1>1, RunHas
<1>3. PICK k \in r.picked \cap Keys(View(l)) : \E new \in SUBSET {k} :
        loader' = [loader EXCEPT ![l].picked = @ \ {k}, ![l].made = @ \cup new]
  BY DEF InsertAlert, Keys
<1>4. PICK new \in SUBSET {k} :
        loader' = [loader EXCEPT ![l].picked = @ \ {k}, ![l].made = @ \cup new]
  BY <1>3
<1> DEFINE P == r.picked \ {k}
           M == r.made \cup new
           r1 == [r EXCEPT !.picked = P]
           q == [r1 EXCEPT !.made = M]
           Same(p) == /\ p.kind = r.kind /\ p.counted = r.counted /\ p.gone = r.gone
                      /\ p.aborted = r.aborted /\ p.risky = r.risky /\ p.pc = r.pc
                      /\ p.doomed = r.doomed /\ p.start = r.start
<1>5. loader' = [loader EXCEPT ![l] = q]
  BY <1>4
<1>6. P \in SUBSET KeyRecord /\ M \in SUBSET KeyRecord /\ P \cup M \subseteq r.picked \cup r.made
  BY <1>2, RunTyped
<1>7. M \subseteq Keys(events) \cup OwnKeys(r.kind) /\ OnePerUser(P \cup M)
  <2>1. Inserts(r, events)
    BY <1>1, <1>2 DEF RunFits
  <2>2. k \in Keys(events) \cup OwnKeys(r.kind)
    BY <1>2, <1>3, ViewTyped
  <2> QED BY <1>6, <2>1, <2>2 DEF Inserts, OnePerUser
<1> HIDE DEF P, M
<1>8. r1 \in RunRecord /\ r1.picked = P /\ Same(r1)
  BY <1>2, <1>6, SetPicked
<1> HIDE DEF r1
<1>9. q \in RunRecord /\ q.picked = P /\ Same(q) /\ q.made = M
  BY <1>6, <1>8, SetMade
<1> HIDE DEF q
<1>10. KindFits(q) /\ Stored(q, events) /\ Deletes(q, alerts, raced) /\ Inserts(q, events)
  BY <1>1, <1>2, <1>7, <1>9 DEF RunFits, KindFits, Stored, Deletes, Inserts
<1>11. RunFits(q, users, events, alerts, raced)
  BY <1>1, <1>2, <1>9, <1>10 DEF RunFits
<1> QED BY <1>1, <1>5, <1>11, RunGoes DEF DataInv

\* An alert transaction commits.  What it deletes are all alerts, or another one
\* came between, or it has made none.
LEMMA AlertedKeeps ==
  ASSUME DataInv, NEW l \in Loader, loader[l].pc \in {"alerts", "inserting"}, Alerted(l),
         UNCHANGED link
  PROVE  /\ TablesInv' /\ users \subseteq users' /\ Keys(events) \subseteq Keys(events')
         /\ raced \subseteq raced'
         /\ \A m \in Loader \ {l} : Altering(m) => loader[m].start \in raced'
         /\ loader[l].kind = "demo" => DemoRows \subseteq RowsOf(events')
<1> DEFINE r == loader[l]
           new == Raised(r.start, r.made)
<1>1. alerts' = Left(l) \cup new /\ raced' = raced \cup Overtaken(l)
  BY DEF Alerted
<1>2. /\ r \in RunRecord /\ r.kind \in Kind /\ RunFits(r, users, events, alerts, raced)
      /\ r.start \in Nat /\ r.made \in SUBSET KeyRecord /\ r.hot \subseteq Device
      /\ r.risky \subseteq users \cup OwnUsers(r.kind)
  <2>1. r \in RunRecord /\ r.kind \in Kind /\ RunFits(r, users, events, alerts, raced)
    BY RunHas
  <2> QED BY <2>1, RunTyped DEF RunFits
<1>3. /\ r.made \subseteq Keys(events) \cup OwnKeys(r.kind) /\ OnePerUser(r.made)
      /\ r.made = {} \/ r.start \in raced \/ Ids(alerts) \subseteq r.doomed
  BY <1>2 DEF RunFits, Inserts, Deletes, OnePerUser
<1>4. PICK R \in SUBSET Row :
        /\ Grown(R) /\ OwnUsers(r.kind) \subseteq users'
        /\ Keys(events) \cup OwnKeys(r.kind) \subseteq Keys(events')
        /\ r.kind = "demo" => DemoRows \subseteq RowsOf(events')
  <2>1. CASE r.kind = "demo"
    <3>1. StoreDemo /\ "demo" \in Kind /\ TablesInv
      BY <1>2, <2>1 DEF Alerted, DataInv
    <3> QED BY <2>1, <3>1, DemoStored, DemoRowsTyped
  <2>2. CASE r.kind # "demo"
    <3>1. UNCHANGED <<users, owner, events>> /\ TablesInv
      BY <2>2 DEF Alerted, DataInv
    <3>2. Grown({}) /\ OwnUsers(r.kind) = {} /\ OwnKeys(r.kind) = {}
      BY <2>2, <3>1, NoneGrown DEF OwnUsers, OwnKeys
    <3> QED BY <2>2, <3>1, <3>2 DEF Keys
  <2> QED BY <2>1, <2>2
<1>5. /\ new \subseteq AlertRecord /\ {a.event : a \in new} \subseteq r.made
      /\ \A a \in new : a.by = r.start
      /\ \A a, b \in new : UserOf[a.event.row] = UserOf[b.event.row] => a = b
  BY <1>2, <1>3, RaisedAlerts
<1> HIDE DEF new
<1>6. raced \subseteq raced'
      /\ \A m \in Loader \ {l} : Altering(m) => loader[m].start \in raced'
  BY <1>1, OvertakenRaced
<1>7. Left(l) \subseteq alerts /\ (new = {} \/ r.start \in raced \/ Left(l) = {})
  <2>1. Ids(alerts) \subseteq r.doomed => Left(l) = {}
    BY DEF Left, Ids
  <2>2. r.made = {} => new = {}
    BY <1>5
  <2> QED BY <1>3, <2>1, <2>2 DEF Left
<1>8. OneAlertPerUser'
  <2> SUFFICES ASSUME NEW a \in alerts', NEW b \in alerts', a # b,
                      UserOf[a.event.row] = UserOf[b.event.row]
               PROVE  {a.by, b.by} \cap raced' # {}
    BY DEF OneAlertPerUser
  <2>1. CASE a \in new /\ b \in new
    BY <1>5, <2>1
  <2>2. CASE a \in Left(l) /\ b \in Left(l)
    <3>1. {a.by, b.by} \cap raced # {}
      BY <1>7, <2>2 DEF DataInv, TablesInv, OneAlertPerUser
    <3> QED BY <1>6, <3>1
  <2>3. CASE a \in Left(l) /\ b \in new
    BY <1>5, <1>6, <1>7, <2>3
  <2>4. CASE b \in Left(l) /\ a \in new
    BY <1>5, <1>6, <1>7, <2>4
  <2> QED BY <1>1, <2>1, <2>2, <2>3, <2>4
<1>9. alerts' \subseteq AlertRecord /\ {a.event : a \in alerts'} \subseteq Keys(events')
  <2>1. alerts \subseteq AlertRecord /\ {a.event : a \in alerts} \subseteq Keys(events)
    BY DEF DataInv, TablesInv
  <2> QED BY <1>1, <1>3, <1>4, <1>5, <1>7, <2>1
<1>10. risky' \subseteq users' /\ hot' \subseteq Device
  <2>1. users \subseteq users'
    BY <1>4 DEF Grown
  <2>2. CASE risky' = r.risky /\ hot' = r.hot
    BY <1>2, <1>4, <2>1, <2>2
  <2>3. CASE UNCHANGED <<risky, hot>>
    BY <2>1, <2>3 DEF DataInv, TablesInv
  <2> QED BY <2>2, <2>3 DEF Alerted
<1>11. TablesInv'
  BY <1>4, <1>8, <1>9, <1>10, TablesAlerted DEF DataInv
<1> QED BY <1>4, <1>6, <1>11 DEF Grown

LEMMA CommitAlertsKeeps ==
  ASSUME DataInv, NEW l \in Loader, CommitAlerts(l)
  PROVE  DataInv'
<1> DEFINE r == loader[l]
           e == Ends(r, "done")
           C == IF r.kind = "demo" THEN DemoRows ELSE e.counted
           q == [e EXCEPT !.counted = C]
<1>1. r.pc = "inserting" /\ Alerted(l) /\ UNCHANGED <<link, starts>>
      /\ loader' = [loader EXCEPT ![l] = q]
  BY DEF CommitAlerts, At
<1>2. r \in RunRecord /\ r.kind \in Kind /\ RunFits(r, users, events, alerts, raced)
      /\ r.counted \subseteq Row
  BY <1>1, RunHas, RunTyped
<1>3. /\ TablesInv' /\ users \subseteq users' /\ Keys(events) \subseteq Keys(events')
      /\ raced \subseteq raced'
      /\ \A m \in Loader \ {l} : Altering(m) => loader[m].start \in raced'
      /\ r.kind = "demo" => DemoRows \subseteq RowsOf(events')
  BY <1>1, AlertedKeeps
<1>4. /\ e \in RunRecord /\ e.pc = "done" /\ e.kind = r.kind /\ e.counted = r.counted
      /\ e.gone = r.gone /\ e.risky = {} /\ e.made = {}
  BY <1>2, EndTyped
<1> HIDE DEF e
<1>5. C \in SUBSET Row /\ C \ e.gone \subseteq RowsOf(events')
  <2>1. r.counted \ r.gone \subseteq RowsOf(events) /\ r.kind \notin {"seed", "direct"}
    BY <1>1, <1>2 DEF RunFits, Stored, KindFits
  <2>2. RowsOf(events) \subseteq RowsOf(events')
    BY <1>3, KeysOfRows
  <2>3. r.kind = "demo" => DemoRows \in SUBSET Row
    BY <1>2, DemoRowsTyped
  <2> QED BY <1>2, <1>3, <1>4, <2>1, <2>2, <2>3
<1> HIDE DEF C
<1>6. /\ q \in RunRecord /\ q.counted = C /\ q.pc = "done" /\ q.kind = r.kind
      /\ q.gone = e.gone /\ q.risky = {} /\ q.made = {}
  BY <1>4, <1>5, SetCounted
<1> HIDE DEF q
<1>7. KindFits(q) /\ Stored(q, events')
  BY <1>1, <1>2, <1>5, <1>6 DEF RunFits, KindFits, Stored
<1>8. RunFits(q, users', events', alerts', raced')
  BY <1>6, <1>7 DEF RunFits
<1>9. starts' \in Nat
  BY <1>1 DEF DataInv
<1> QED BY <1>1, <1>3, <1>8, <1>9, RunMoves

\* One transaction counts the rows of a file before it commits them.
LEMMA FileDoneKeeps ==
  ASSUME DataInv, NEW l \in Loader, loader[l].pc \in {"seed", "direct"},
         NEW done \in SUBSET Row, NEW failed \in BOOLEAN, FileDone(l, done, failed),
         UNCHANGED <<tables, starts, raced>>
  PROVE  DataInv'
<1> DEFINE r == loader[l]
           file == r.file + 1
           C == r.counted \cup done
           ab == r.aborted \/ failed
           r1 == [r EXCEPT !.file = file]
           r2 == [r1 EXCEPT !.counted = C]
           q == [r2 EXCEPT !.aborted = ab]
<1>1. loader' = [loader EXCEPT ![l] = q]
  BY DEF FileDone
<1>2. r \in RunRecord /\ RunFits(r, users, events, alerts, raced)
  BY RunHas
<1>3. file \in Nat \ {0} /\ C \in SUBSET Row /\ ab \in BOOLEAN /\ r.kind = r.pc
      /\ r.risky \subseteq users \cup OwnUsers(r.kind) /\ r.made = {}
  BY <1>2, RunTyped DEF RunFits, KindFits
<1> HIDE DEF file, C, ab
<1>4. r1 \in RunRecord /\ r1.pc = r.pc /\ r1.kind = r.kind /\ r1.risky = r.risky
      /\ r1.made = r.made
  BY <1>2, <1>3, SetFile
<1> HIDE DEF r1
<1>5. r2 \in RunRecord /\ r2.pc = r.pc /\ r2.kind = r.kind /\ r2.risky = r.risky
      /\ r2.made = r.made
  BY <1>3, <1>4, SetCounted
<1> HIDE DEF r2
<1>6. q \in RunRecord /\ q.pc = r.pc /\ q.kind = r.kind /\ q.risky = r.risky
      /\ q.made = r.made
  BY <1>3, <1>5, SetAborted
<1> HIDE DEF q
<1>7. RunFits(q, users, events, alerts, raced)
  BY <1>3, <1>6 DEF RunFits, KindFits, Stored
<1> QED BY <1>1, <1>7, RunGoes DEF DataInv

LEMMA FileLeftTyped ==
  ASSUME NEW l \in Loader, loader[l] \in RunRecord, FilesLeft(l)
  PROVE  File(l) \in Seq(Row) /\ \A i \in 1..Len(File(l)) : File(l)[i] \in Row
<1>1. loader[l].kind \in Kind /\ loader[l].file \in Nat \ {0}
  BY RunTyped
<1>2. loader[l].file \in DOMAIN Files[loader[l].kind]
  BY <1>1, FilesTyped DEF FilesLeft, FilesOf
<1> QED BY <1>1, <1>2, FilesTyped DEF File, FilesOf

LEMMA SeedFileKeeps ==
  ASSUME DataInv, NEW l \in Loader, SeedFile(l) \/ SeedFileFails(l)
  PROVE  DataInv'
<1>1. loader[l].pc = "seed" /\ FilesLeft(l) /\ UNCHANGED <<tables, starts, raced>>
  BY DEF SeedFile, SeedFileFails, At
<1>2. FileRows(l) \in SUBSET Row
  <2>1. File(l) \in Seq(Row) /\ \A i \in 1..Len(File(l)) : File(l)[i] \in Row
    BY <1>1, RunHas, FileLeftTyped
  <2> QED BY <2>1 DEF FileRows
<1>3. \E done \in SUBSET Row, failed \in BOOLEAN : FileDone(l, done, failed)
  BY <1>2 DEF SeedFile, SeedFileFails
<1> QED BY <1>1, <1>3, FileDoneKeeps

LEMMA DirectFileKeeps ==
  ASSUME DataInv, NEW l \in Loader, DirectFile(l)
  PROVE  DataInv'
<1>1. loader[l].pc = "direct" /\ FilesLeft(l) /\ UNCHANGED <<tables, starts, raced>>
  BY DEF DirectFile, At
<1>2. PICK n \in 0..Len(File(l)) :
        \/ FileDone(l, {}, TRUE)
        \/ FileDone(l, {File(l)[i] : i \in 1..n}, n < Len(File(l)))
  BY DEF DirectFile
<1>3. {File(l)[i] : i \in 1..n} \in SUBSET Row /\ (n < Len(File(l))) \in BOOLEAN
  <2>1. File(l) \in Seq(Row) /\ \A i \in 1..Len(File(l)) : File(l)[i] \in Row
    BY <1>1, RunHas, FileLeftTyped
  <2>2. \A i \in 1..n : i \in 1..Len(File(l))
    BY <2>1
  <2> QED BY <2>1, <2>2
<1>4. \E done \in SUBSET Row, failed \in BOOLEAN : FileDone(l, done, failed)
  <2>1. CASE FileDone(l, {}, TRUE)
    BY <2>1
  <2>2. CASE FileDone(l, {File(l)[i] : i \in 1..n}, n < Len(File(l)))
    BY <1>3, <2>2
  <2> QED BY <1>2, <2>1, <2>2
<1> QED BY <1>1, <1>4, FileDoneKeeps

\* The commit of such a run, which an error before it turned into a rollback.
LEMMA CommitFits ==
  ASSUME NEW r \in RunRecord, NEW ab \in BOOLEAN, NEW us, NEW E, NEW A, NEW N,
         r.risky \subseteq us, r.made = {}, r.kind \in {"seed", "direct"},
         ab \/ r.counted \subseteq RowsOf(E)
  PROVE  /\ RunFits([[r EXCEPT !.pc = "done"] EXCEPT !.aborted = ab], us, E, A, N)
         /\ r.aborted = ab => RunFits([r EXCEPT !.pc = "done"], us, E, A, N)
<1> DEFINE q1 == [r EXCEPT !.pc = "done"]
           q == [q1 EXCEPT !.aborted = ab]
<1>1. q1 \in RunRecord /\ q1.pc = "done" /\ q1.kind = r.kind /\ q1.counted = r.counted
      /\ q1.gone = r.gone /\ q1.risky = r.risky /\ q1.made = r.made /\ q1.aborted = r.aborted
  <2>1. "done" \in Pc
    BY DEF Pc
  <2> QED BY <2>1, SetPc
<1> HIDE DEF q1
<1>2. q \in RunRecord /\ q.pc = "done" /\ q.kind = r.kind /\ q.counted = r.counted
      /\ q.gone = r.gone /\ q.risky = r.risky /\ q.made = r.made /\ q.aborted = ab
  BY <1>1, SetAborted
<1> HIDE DEF q
<1>3. RunFits(q, us, E, A, N)
  BY <1>2 DEF RunFits, KindFits, Stored
<1>4. r.aborted = ab => RunFits(q1, us, E, A, N)
  BY <1>1 DEF RunFits, KindFits, Stored
<1> QED BY <1>3, <1>4 DEF q, q1

LEMMA SeedEndKeeps ==
  ASSUME DataInv, NEW l \in Loader, SeedEnd(l)
  PROVE  DataInv'
<1> DEFINE r == loader[l]
           R == r.counted
           q == [r EXCEPT !.pc = "done"]
<1>1. r.pc = "seed" /\ loader' = [loader EXCEPT ![l] = q]
      /\ UNCHANGED <<alerts, risky, hot, link, starts, raced>>
  BY DEF SeedEnd, At, Goto
<1>2. r \in RunRecord /\ RunFits(r, users, events, alerts, raced) /\ r.kind = "seed"
      /\ R \in SUBSET Row /\ r.aborted \in BOOLEAN /\ r.risky \subseteq users
      /\ r.made = {}
  <2>1. r \in RunRecord /\ RunFits(r, users, events, alerts, raced)
    BY <1>1, RunHas
  <2> QED BY <1>1, <2>1, RunTyped DEF RunFits, KindFits, OwnUsers
<1>3. CASE r.aborted
  <2>1. UNCHANGED <<users, owner, events>>
    BY <1>3 DEF SeedEnd
  <2>2. TablesInv'
    BY <1>1, <2>1, TablesLinked DEF DataInv, TablesInv
  <2>3. RunFits(q, users', events', alerts', raced')
    BY <1>2, <1>3, <2>1, CommitFits
  <2> QED BY <1>1, <2>1, <2>2, <2>3, RunMoves DEF DataInv
<1>4. CASE ~r.aborted
  <2>1. Store(UsersIn(R), DevicesIn(R), Nobody, FALSE, R)
    BY <1>4 DEF SeedEnd
  <2>2. UsersIn(R) \in SUBSET User /\ DevicesIn(R) \in SUBSET Device
    BY <1>2, RowsName
  <2>3. Resolve(UsersIn(R), DevicesIn(R), Nobody, R)
    BY <2>2 DEF Resolve, Nobody
  <2>4. Grown(R) /\ R \subseteq RowsOf(events')
    BY <1>2, <2>1, <2>2, <2>3, Storing DEF DataInv
  <2>5. TablesInv'
    BY <1>1, <1>2, <2>4, TablesGrow DEF DataInv
  <2>6. users \subseteq users' /\ Keys(events) \subseteq Keys(events')
    BY <2>4 DEF Grown
  <2>7. RunFits(q, users', events', alerts', raced')
    <3>1. r.risky \subseteq users' /\ r.counted \subseteq RowsOf(events')
      BY <1>2, <2>4, <2>6
    <3> QED BY <1>2, <1>4, <3>1, CommitFits
  <2> QED BY <1>1, <2>5, <2>6, <2>7, RunMoves DEF DataInv
<1> QED BY <1>3, <1>4

LEMMA DirectEndKeeps ==
  ASSUME DataInv, NEW l \in Loader, DirectEnd(l)
  PROVE  DataInv'
<1> DEFINE r == loader[l]
           R == r.counted
           own == [d \in Device |-> SmallestUser("direct", d)]
           D == MockDevices("direct")
           failed == r.aborted \/ ~Resolve(Profiles, D, own, R)
           q == [[r EXCEPT !.pc = "done"] EXCEPT !.aborted = failed]
<1>1. r.pc = "direct" /\ loader' = [loader EXCEPT ![l] = q]
      /\ UNCHANGED <<alerts, risky, hot, link, starts, raced>>
  BY DEF DirectEnd, At
<1>2. r \in RunRecord /\ RunFits(r, users, events, alerts, raced) /\ r.kind = "direct"
      /\ R \in SUBSET Row /\ r.aborted \in BOOLEAN /\ r.risky \subseteq users
      /\ r.made = {}
  <2>1. r \in RunRecord /\ RunFits(r, users, events, alerts, raced)
    BY <1>1, RunHas
  <2> QED BY <1>1, <2>1, RunTyped DEF RunFits, KindFits, OwnUsers
<1>3. failed \in BOOLEAN
  BY <1>2
<1>4. CASE failed
  <2>1. UNCHANGED <<users, owner, events>>
    BY <1>4 DEF DirectEnd
  <2>2. TablesInv'
    BY <1>1, <2>1, TablesLinked DEF DataInv, TablesInv
  <2> HIDE DEF failed
  <2>3. RunFits(q, users', events', alerts', raced')
    BY <1>2, <1>3, <1>4, <2>1, CommitFits
  <2> QED BY <1>1, <2>1, <2>2, <2>3, RunMoves DEF DataInv
<1>5. CASE ~failed
  <2>1. StoreMock(Profiles, D, own, R) /\ Resolve(Profiles, D, own, R)
    BY <1>5 DEF DirectEnd
  <2>2. Profiles \in SUBSET User /\ D \in SUBSET Device
    BY LoadersAssumption DEF MockDevices
  <2> HIDE DEF own, failed, D
  <2>3. Grown(R) /\ R \subseteq RowsOf(events')
    BY <1>2, <2>1, <2>2, Mocking DEF DataInv
  <2>4. TablesInv'
    BY <1>1, <1>2, <2>3, TablesGrow DEF DataInv
  <2>5. users \subseteq users' /\ Keys(events) \subseteq Keys(events')
    BY <2>3 DEF Grown
  <2>6. RunFits(q, users', events', alerts', raced')
    <3>1. r.risky \subseteq users' /\ r.counted \subseteq RowsOf(events')
      BY <1>2, <2>3, <2>5
    <3> QED BY <1>2, <1>3, <3>1, CommitFits
  <2> QED BY <1>1, <2>4, <2>5, <2>6, RunMoves DEF DataInv
<1> QED BY <1>4, <1>5

\* A step that leaves the loaders alone.
LEMMA TablesMove ==
  ASSUME DataInv, UNCHANGED <<loader, starts, raced>>, TablesInv', users \subseteq users',
         Keys(events) \subseteq Keys(events'),
         Ids(alerts') \subseteq Ids(alerts)
  PROVE  DataInv'
<1>1. ASSUME NEW m \in Loader, loader'[m] # Idle
      PROVE  RunFits(loader'[m], users', events', alerts', raced')
  <2>1. RunFits(loader[m], users, events, alerts, raced) /\ loader'[m] = loader[m]
    BY <1>1 DEF DataInv
  <2> QED BY <2>1, FitsGrown
<1> QED BY <1>1 DEF DataInv

LEMMA PostUsersKeeps ==
  ASSUME DataInv, NEW l \in Loader, PostUsers(l)
  PROVE  DataInv'
<1> DEFINE r == loader[l]
           q == [r EXCEPT !.pc = "devices"]
<1>1. r.pc = "users" /\ r.kind \in Api /\ UNCHANGED <<starts, raced>>
  BY DEF PostUsers, Is, At
<1>2. CASE (\E u \in Profiles \ users : CreateUser(u)) /\ UNCHANGED loader
  <2>1. /\ UNCHANGED <<owner, events, alerts, risky, hot, link>>
        /\ users \subseteq users' /\ users' \subseteq User
    BY <1>2, LoadersAssumption DEF CreateUser, DataInv, TablesInv
  <2>2. TablesInv'
    BY <1>1, <2>1 DEF DataInv, TablesInv, Known, RowsOf, UsersIn, DevicesIn, Keys,
                      OneAlertPerUser
  <2> QED BY <1>1, <1>2, <2>1, <2>2, TablesMove
<1>3. CASE Goto(l, "devices") /\ UNCHANGED tables
  <2>1. r \in RunRecord /\ RunFits(r, users, events, alerts, raced)
    BY <1>1, RunHas
  <2>2. KindFits(q) /\ r.kind \notin {"seed", "direct"}
    BY <1>1, <2>1 DEF RunFits, KindFits, RunRecord, Api
  <2>3. RunFits(q, users, events, alerts, raced)
    BY <1>1, <2>1, <2>2, GotoFits DEF Pc
  <2>4. loader' = [loader EXCEPT ![l] = q] /\ UNCHANGED <<tables, raced>> /\ starts' \in Nat
    BY <1>1, <1>3 DEF Goto, DataInv
  <2> QED BY <2>3, <2>4, RunGoes
<1> QED BY <1>2, <1>3 DEF PostUsers

\* POST /devices refuses an owner that is not registered.
LEMMA CreatedDevice ==
  ASSUME TablesInv, NEW d \in Device, NEW u, CreateDevice(d, u), UNCHANGED raced
  PROVE  TablesInv' /\ UNCHANGED <<users, events, alerts>>
<1>1. UNCHANGED <<users, events, alerts, risky, hot, link>>
  BY DEF CreateDevice
<1>2. CASE u \in users \cup {NoUser} /\ owner' = [owner EXCEPT ![d] = u]
  <2>1. owner' \in [Device -> User \cup {NoUser, Missing}]
    BY <1>2 DEF TablesInv
  <2>2. owner'[d] = u /\ u # Missing /\ \A x \in Device : x # d => owner'[x] = owner[x]
    BY <1>2, TablesAssumption DEF TablesInv
  <2>3. Known' = Known \cup {d}
    BY <2>2 DEF Known
  <2>4. \A x \in Known' : owner'[x] \in users' \cup {NoUser}
    BY <1>1, <1>2, <2>2, <2>3 DEF TablesInv, Known
  <2>5. {} \in SUBSET Row /\ UsersIn({}) = {} /\ DevicesIn({}) = {}
    BY DEF UsersIn, DevicesIn
  <2>6. /\ users \subseteq users' /\ users' \subseteq User /\ Known \subseteq Known'
        /\ events' \subseteq Event /\ RowsOf(events') \subseteq RowsOf(events) \cup {}
        /\ Keys(events) \subseteq Keys(events')
    BY <1>1, <2>3 DEF TablesInv
  <2>7. UsersIn({}) \subseteq users' /\ DevicesIn({}) \subseteq Known'
    BY <2>5
  <2>8. Grown({})
    BY <2>1, <2>4, <2>6, <2>7 DEF Grown
  <2> QED BY <1>1, <2>5, <2>8, TablesGrow
<1>3. CASE owner' = owner
  BY <1>1, <1>3, TablesLinked DEF TablesInv
<1> QED BY <1>1, <1>2, <1>3 DEF CreateDevice

LEMMA PostDevicesKeeps ==
  ASSUME DataInv, NEW l \in Loader, PostDevices(l)
  PROVE  DataInv'
<1> DEFINE r == loader[l]
           q == [r EXCEPT !.pc = "rows"]
<1>1. r.pc = "devices" /\ r.kind \in Api /\ UNCHANGED <<starts, raced>>
  BY DEF PostDevices, Is, At
<1>2. r \in RunRecord /\ r.kind \in Kind /\ RunFits(r, users, events, alerts, raced)
  BY <1>1, RunHas
<1>3. CASE UNCHANGED loader /\ \E d \in Device : \E u : CreateDevice(d, u)
  <2>2. PICK d \in Device : \E u : CreateDevice(d, u)
    BY <1>3
  <2>3. TablesInv' /\ UNCHANGED <<users, events, alerts>>
    BY <1>1, <2>2, CreatedDevice DEF DataInv
  <2> QED BY <1>1, <1>3, <2>3, TablesMove
<1>4. CASE Goto(l, "rows") /\ UNCHANGED tables
  <2>2. KindFits(q) /\ r.kind \notin {"seed", "direct"}
    BY <1>1, <1>2 DEF RunFits, KindFits, RunRecord, Api
  <2>3. RunFits(q, users, events, alerts, raced)
    BY <1>1, <1>2, <2>2, GotoFits DEF Pc
  <2>4. loader' = [loader EXCEPT ![l] = q] /\ UNCHANGED <<tables, raced>> /\ starts' \in Nat
    BY <1>1, <1>4 DEF Goto, DataInv
  <2> QED BY <2>3, <2>4, RunGoes
<1>5. \/ UNCHANGED loader /\ \E d \in Device : \E u : CreateDevice(d, u)
      \/ Goto(l, "rows") /\ UNCHANGED tables
  BY DEF PostDevices
<1> QED BY <1>3, <1>4, <1>5

LEMMA IngestKeeps ==
  ASSUME TablesInv, NEW p \in Prefix, NEW x \in Row, events' = Ingested(p, x),
         UserOf[x] \in users \cup {NoUser}, DeviceOf[x] \in Known \cup {NoDevice},
         UNCHANGED <<users, owner, alerts, risky, hot, link, raced>>
  PROVE  TablesInv' /\ Keys(events) \subseteq Keys(events') /\ x \in RowsOf(events')
<1>1. /\ events' \subseteq Event /\ RowsOf(events') = RowsOf(events) \cup {x}
      /\ Keys(events) \subseteq Keys(events')
  <2>1. events \subseteq Event
    BY DEF TablesInv
  <2> QED BY <2>1, IngestedRows
<1>2. {x} \in SUBSET Row /\ UsersIn({x}) \subseteq users' /\ DevicesIn({x}) \subseteq Known'
  BY DEF UsersIn, DevicesIn, Known
<1>3. /\ users \subseteq users' /\ users' \subseteq User /\ Known \subseteq Known'
      /\ owner' \in [Device -> User \cup {NoUser, Missing}]
      /\ \A d \in Known' : owner'[d] \in users' \cup {NoUser}
  BY DEF TablesInv, Known
<1>4. Grown({x})
  BY <1>1, <1>2, <1>3 DEF Grown
<1> QED BY <1>1, <1>2, <1>4, TablesGrow

\* The next row, with it or without it counted.
LEMMA NextRowFits ==
  ASSUME NEW l \in Loader, loader[l].pc = "rows", loader[l].kind \in Api,
         RunFits(loader[l], users, events, alerts, raced), NEW C \in SUBSET Row,
         NEW G \in SUBSET Row, NEW us, NEW E, NEW A, NEW N, users \subseteq us,
         C \ G \subseteq RowsOf(E)
  PROVE  /\ RunFits([[NextRow(l) EXCEPT !.counted = C] EXCEPT !.gone = G], us, E, A, N)
         /\ loader[l].counted \ loader[l].gone \subseteq RowsOf(E) =>
              RunFits(NextRow(l), us, E, A, N)
<1> DEFINE r == loader[l]
           n == Len(File(l))
           end == r.pos + 1 >= n
           last == r.file = Len(FilesOf(l))
           pos == IF end THEN 0 ELSE r.pos + 1
           file == IF end /\ ~last THEN r.file + 1 ELSE r.file
           pc == IF end /\ last THEN "done" ELSE r.pc
           r1 == [r EXCEPT !.pos = pos]
           r2 == [r1 EXCEPT !.file = file]
           r3 == [r2 EXCEPT !.pc = pc]
           r4 == [r3 EXCEPT !.counted = C]
           q == [r4 EXCEPT !.gone = G]
<1>1. NextRow(l) = r3
  BY DEF NextRow
<1>2. /\ r \in RunRecord /\ WithinFile(r) /\ r.kind \in Kind /\ FilesOf(l) = Files[r.kind]
      /\ File(l) = Files[r.kind][r.file] /\ r.risky \subseteq us \cup OwnUsers(r.kind)
      /\ r.made = {} /\ r.file \in Nat \ {0} /\ r.pos \in Nat /\ r.kind \notin {"seed", "direct", "demo"}
  BY RunTyped DEF RunFits, FilesOf, File, Api
<1>3. r.pos \in 0..n /\ n \in Nat /\ r.file \in 1..Len(Files[r.kind])
      /\ Len(Files[r.kind]) \in Nat
  <2>1. r.file \in DOMAIN Files[r.kind] /\ r.pos \in 0..n
    BY <1>2 DEF WithinFile
  <2> QED BY <1>2, <2>1, FilesTyped
<1>4. pos \in Nat /\ file \in Nat \ {0} /\ pc \in {"rows", "done"} /\ pc \in Pc
  BY <1>2, <1>3 DEF Pc
<1>5. pc = "rows" => file \in DOMAIN Files[r.kind] /\ pos \in 0..Len(Files[r.kind][file])
  <2>1. CASE ~end
    BY <1>2, <1>3, <2>1 DEF WithinFile
  <2>2. CASE end /\ last
    BY <2>2
  <2>3. CASE end /\ ~last
    <3>1. file \in DOMAIN Files[r.kind] /\ pos = 0
      <4>1. file = r.file + 1 /\ pos = 0 /\ r.file # Len(Files[r.kind])
        BY <1>2, <2>3
      <4>2. file \in 1..Len(Files[r.kind])
        BY <1>3, <4>1
      <4> QED BY <1>2, <4>1, <4>2, FilesTyped
    <3>2. Len(Files[r.kind][file]) \in Nat
      BY <1>2, <3>1, FilesTyped
    <3> QED BY <3>1, <3>2
  <2> QED BY <2>1, <2>2, <2>3
<1> HIDE DEF file, pos, pc
<1> DEFINE Same(t) == /\ t.kind = r.kind /\ t.risky = r.risky /\ t.made = {}
                      /\ t.aborted = r.aborted
<1>6. r1 \in RunRecord /\ r1.pos = pos /\ r1.pc = r.pc /\ r1.file = r.file
      /\ r1.counted = r.counted /\ r1.gone = r.gone /\ Same(r1)
  BY <1>2, <1>4, SetPos
<1> HIDE DEF r1
<1>7. r2 \in RunRecord /\ r2.pos = pos /\ r2.pc = r.pc /\ r2.file = file
      /\ r2.counted = r.counted /\ r2.gone = r.gone /\ Same(r2)
  BY <1>4, <1>6, SetFile
<1> HIDE DEF r2
<1>8. r3 \in RunRecord /\ r3.pos = pos /\ r3.pc = pc /\ r3.file = file
      /\ r3.counted = r.counted /\ r3.gone = r.gone /\ Same(r3)
  BY <1>4, <1>7, SetPc
<1> HIDE DEF r3
<1>9. r4 \in RunRecord /\ r4.pos = pos /\ r4.pc = pc /\ r4.file = file
      /\ r4.counted = C /\ Same(r4)
  BY <1>8, SetCounted
<1> HIDE DEF r4
<1>10. q \in RunRecord /\ q.pos = pos /\ q.pc = pc /\ q.file = file
       /\ q.counted = C /\ q.gone = G /\ Same(q)
  BY <1>9, SetGone
<1> HIDE DEF q
<1>11. KindFits(q) /\ Stored(q, E)
  BY <1>2, <1>4, <1>10 DEF KindFits, Stored
<1>12. RunFits(q, us, E, A, N)
  BY <1>2, <1>4, <1>5, <1>10, <1>11 DEF RunFits, WithinFile
<1>13. ASSUME r.counted \ r.gone \subseteq RowsOf(E)
       PROVE  RunFits(r3, us, E, A, N)
  <2>1. KindFits(r3) /\ Stored(r3, E)
    BY <1>2, <1>4, <1>8, <1>13 DEF KindFits, Stored
  <2> QED BY <1>2, <1>4, <1>5, <1>8, <2>1 DEF RunFits, WithinFile
<1> QED BY <1>1, <1>12, <1>13 DEF q, r4

LEMMA PostRowKeeps ==
  ASSUME DataInv, NEW l \in Loader, PostRow(l)
  PROVE  DataInv'
<1> DEFINE r == loader[l]
           x == File(l)[r.pos + 1]
           C == r.counted \cup {x}
           G == r.gone \ {x}
<1>1. r.pc = "rows" /\ r.kind \in Api
      /\ UNCHANGED <<users, owner, alerts, risky, hot, link, starts, raced>>
  BY DEF PostRow, Is, At
<1>2. r \in RunRecord /\ r.kind \in Kind /\ RunFits(r, users, events, alerts, raced)
      /\ WithinFile(r) /\ r.counted \ r.gone \subseteq RowsOf(events)
      /\ r.counted \subseteq Row /\ r.gone \subseteq Row /\ r.pos \in Nat
  <2>1. r \in RunRecord /\ r.kind \in Kind /\ RunFits(r, users, events, alerts, raced)
    BY <1>1, RunHas
  <2> QED BY <1>1, <2>1, RunTyped DEF RunFits, Stored, Api
<1>3. CASE /\ r.pos < Len(File(l)) /\ Acceptable(x)
           /\ events' = Ingested(ApiPrefix(r.kind), x)
           /\ loader' = [loader EXCEPT ![l] = [NextRow(l) EXCEPT !.counted = @ \cup {x},
                                                                  !.gone = @ \ {x}]]
  <2>1. x \in Row
    <3>1. File(l) \in Seq(Row)
      BY <1>2, FilesTyped DEF WithinFile, File, FilesOf
    <3> QED BY <1>2, <1>3, <3>1
  <2>2. /\ TablesInv' /\ Keys(events) \subseteq Keys(events') /\ x \in RowsOf(events')
    <3>1. ApiPrefix(r.kind) \in Prefix
      BY DEF ApiPrefix, Prefix
    <3> QED BY <1>1, <1>3, <2>1, <3>1, IngestKeeps DEF Acceptable, DataInv
  <2>3. C \in SUBSET Row /\ G \in SUBSET Row /\ C \ G \subseteq RowsOf(events')
    BY <1>2, <2>1, <2>2, KeysOfRows
  <2>4. [NextRow(l) EXCEPT !.counted = @ \cup {x}, !.gone = @ \ {x}]
          = [[NextRow(l) EXCEPT !.counted = C] EXCEPT !.gone = G]
    <3>1. NextRow(l).counted = r.counted /\ NextRow(l).gone = r.gone
      BY <1>2 DEF NextRow, RunRecord
    <3> QED BY <3>1
  <2>5. RunFits([[NextRow(l) EXCEPT !.counted = C] EXCEPT !.gone = G], users', events', alerts',
                raced')
    BY <1>1, <1>2, <2>3, NextRowFits
  <2>6. loader' = [loader EXCEPT ![l] = [[NextRow(l) EXCEPT !.counted = C] EXCEPT !.gone = G]]
    BY <1>3, <2>4
  <2> QED BY <1>1, <2>2, <2>5, <2>6, RunMoves DEF DataInv
<1>4. CASE loader' = [loader EXCEPT ![l] = NextRow(l)] /\ UNCHANGED events
  <2>1. TablesInv'
    BY <1>1, <1>4, TablesLinked DEF DataInv, TablesInv
  <2>2. {} \in SUBSET Row /\ {} \ {} \subseteq RowsOf(events')
    OBVIOUS
  <2>3. RunFits(NextRow(l), users', events', alerts', raced')
    BY <1>1, <1>2, <1>4, <2>2, NextRowFits
  <2> QED BY <1>1, <1>4, <2>1, <2>3, RunMoves DEF DataInv
<1> QED BY <1>3, <1>4 DEF PostRow
-----------------------------------------------------------------------------
(***************************************************************************)
(* Ctrl-C between two statements: what is committed then.                  *)
(***************************************************************************)
\* The rows of some files, with the users and devices that come before them.
LEMMA HalfFileGrows ==
  ASSUME TablesInv, NEW file \in Seq(Row), NEW R1 \in SUBSET Row, NEW iso \in BOOLEAN,
         iso => "demo" \in Kind, HalfFile(file, R1, iso)
  PROVE  \E R \in SUBSET Row : Grown(R)
<1> DEFINE own(D) == [d \in Device |-> IF iso THEN FirstSeen("demo", D, d) ELSE NoUser]
           HalfFrom(U, D, n) ==
             /\ R1 \cup ({file[i] : i \in 1..n} \ Bad) \subseteq D
             /\ Store(UsersIn(U), DevicesIn(D), own(D), iso,
                      R1 \cup ({file[i] : i \in 1..n} \ Bad))
<1>1. PICK U \in {R1, R1 \cup ({file[i] : i \in DOMAIN file} \ Bad)},
           n \in 0..Len(file) :
        \E D \in {R1, U} : HalfFrom(U, D, n)
  BY DEF HalfFile
<1>2. PICK D \in {R1, U} : HalfFrom(U, D, n)
  BY <1>1
<1> DEFINE R == R1 \cup ({file[i] : i \in 1..n} \ Bad)
<1>3. U \in SUBSET Row /\ D \subseteq U
  <2>1. \A i \in DOMAIN file : file[i] \in Row
    OBVIOUS
  <2> QED BY <1>1, <1>2, <2>1
<1>4. R \subseteq D
  BY <1>2
<1> HIDE DEF R
<1>5. R \in SUBSET Row /\ D \in SUBSET Row
  BY <1>3, <1>4
<1>6. UsersIn(U) \in SUBSET User /\ DevicesIn(D) \in SUBSET Device
  BY <1>3, <1>5, RowsName
<1>7. UsersIn(R) \subseteq UsersIn(U) /\ UsersIn(D) \subseteq UsersIn(U)
  BY <1>3, <1>4 DEF UsersIn
<1>8. DevicesIn(R) \subseteq DevicesIn(D)
  BY <1>4 DEF DevicesIn
<1>9. \A d \in DevicesIn(D) : own(D)[d] \in UsersIn(D) \cup {NoUser}
  <2>1. iso => \A d \in DevicesIn(D) : FirstSeen("demo", D, d) \in UsersIn(D) \cup {NoUser}
    BY SeenUser
  <2> QED BY <1>6, <2>1
<1>10. Store(UsersIn(U), DevicesIn(D), own(D), iso, R)
  BY <1>2 DEF R
<1> HIDE DEF own
<1>11. Resolve(UsersIn(U), DevicesIn(D), own(D), R)
  BY <1>7, <1>8, <1>9 DEF Resolve
<1>12. Grown(R)
  BY <1>5, <1>6, <1>10, <1>11, Storing
<1> QED BY <1>5, <1>12

LEMMA HalfResetKeeps ==
  ASSUME DataInv, NEW l \in Loader, HalfReset(l), UNCHANGED link
  PROVE  TablesInv' /\ users \subseteq users' /\ Keys(events) \subseteq Keys(events')
         /\ raced \subseteq raced' /\ alerts' \subseteq alerts
<1>1. alerts' \subseteq alerts /\ UNCHANGED <<users, owner, events, risky, hot, raced>>
  BY DEF HalfReset
<1>2. Grown({}) /\ {} \in SUBSET Row
  BY <1>1, NoneGrown DEF DataInv
<1>3. alerts' \subseteq AlertRecord /\ {a.event : a \in alerts'} \subseteq Keys(events')
  BY <1>1 DEF DataInv, TablesInv
<1>4. OneAlertPerUser'
  BY <1>1 DEF DataInv, TablesInv, OneAlertPerUser
<1>5. risky' \subseteq users' /\ hot' \subseteq Device
  BY <1>1 DEF DataInv, TablesInv
<1>6. TablesInv'
  BY <1>2, <1>3, <1>4, <1>5, TablesAlerted DEF DataInv
<1> QED BY <1>1, <1>6

LEMMA HalfBatchKeeps ==
  ASSUME DataInv, NEW l \in Loader, HalfBatch(l), UNCHANGED link
  PROVE  TablesInv' /\ users \subseteq users' /\ Keys(events) \subseteq Keys(events')
         /\ raced \subseteq raced' /\ alerts' \subseteq alerts
<1> DEFINE r == loader[l]
           own == [d \in Device |-> FirstSeen(r.kind, Read(l), d)]
<1>1. r.pc = "files" /\ UNCHANGED <<alerts, risky, hot, raced>>
  BY DEF HalfBatch, At
<1>2. PICK ds \in {{}, BatchDevices(l)}, R \in {{}, Batch(l)} :
        Resolve(BatchUsers(l), ds, own, R) /\ Store(BatchUsers(l), ds, own, TRUE, R)
  BY DEF HalfBatch
<1>3. r \in RunRecord /\ WithinFile(r)
  BY <1>1, RunHas DEF RunFits
<1>4. Batch(l) \in SUBSET Row /\ BatchUsers(l) \in SUBSET User
      /\ BatchDevices(l) \in SUBSET Device
  <2>1. Read(l) \in SUBSET Row /\ Batch(l) \in SUBSET Row
    BY <1>3, BatchRead
  <2>2. /\ UsersIn(Read(l)) \subseteq User /\ DevicesIn(Read(l)) \subseteq Device
        /\ UsersIn(Batch(l)) \subseteq User /\ DevicesIn(Batch(l)) \subseteq Device
    BY <2>1, RowsName
  <2> QED BY <2>1, <2>2, LoadersAssumption DEF BatchUsers, BatchDevices
<1>5. ds \in SUBSET Device /\ R \in SUBSET Row
  BY <1>4
<1> HIDE DEF own
<1>6. Grown(R)
  BY <1>2, <1>4, <1>5, Storing DEF DataInv
<1>7. TablesInv'
  BY <1>1, <1>5, <1>6, TablesGrow DEF DataInv
<1> QED BY <1>1, <1>6, <1>7 DEF Grown

LEMMA HalfScoredKeeps ==
  ASSUME DataInv, NEW l \in Loader, HalfScored(l), UNCHANGED link
  PROVE  TablesInv' /\ users \subseteq users' /\ Keys(events) \subseteq Keys(events')
         /\ raced \subseteq raced' /\ alerts' \subseteq alerts
<1>1. UNCHANGED <<users, owner, events, alerts, raced>> /\ PartlyScored(events)
  BY DEF HalfScored
<1>2. Grown({}) /\ {} \in SUBSET Row
  BY <1>1, NoneGrown DEF DataInv
<1>3. risky' \subseteq users' /\ hot' \subseteq Device
  BY <1>1, PartlyTyped DEF DataInv, TablesInv
<1>4. TablesInv'
  BY <1>1, <1>2, <1>3, TablesScored DEF DataInv
<1> QED BY <1>1, <1>4

LEMMA HalfDemoKeeps ==
  ASSUME DataInv, NEW l \in Loader, HalfDemo(l), UNCHANGED link
  PROVE  TablesInv' /\ users \subseteq users' /\ Keys(events) \subseteq Keys(events')
         /\ raced \subseteq raced' /\ alerts' \subseteq alerts
<1>1. loader[l].pc = "demo" /\ UNCHANGED <<alerts, raced>>
  BY DEF HalfDemo, At
<1>2. "demo" \in Kind
  <2>1. loader[l].kind \in Kind /\ KindFits(loader[l])
    BY <1>1, RunHas DEF RunFits
  <2> QED BY <1>1, <2>1 DEF KindFits
<1>3. CASE /\ \E f \in DOMAIN Files["demo"] :
                HalfFile(Files["demo"][f], FirstFiles("demo", f - 1) \ Bad, TRUE)
           /\ UNCHANGED <<risky, hot>>
  <2>1. PICK f \in DOMAIN Files["demo"] :
          HalfFile(Files["demo"][f], FirstFiles("demo", f - 1) \ Bad, TRUE)
    BY <1>3
  <2>2. Files["demo"][f] \in Seq(Row) /\ FirstFiles("demo", f - 1) \ Bad \in SUBSET Row
    <3>1. /\ Files["demo"][f] \in Seq(Row) /\ f \in 1..Len(Files["demo"])
          /\ Len(Files["demo"]) \in Nat
      BY <1>2, FilesTyped
    <3>2. f - 1 \in Nat /\ f - 1 <= Len(Files["demo"])
      BY <3>1
    <3>3. FirstFiles("demo", f - 1) \subseteq Row
      BY <1>2, <3>2, FirstFilesTyped
    <3> QED BY <3>1, <3>3
  <2>3. PICK R \in SUBSET Row : Grown(R)
    BY <1>2, <2>1, <2>2, HalfFileGrows DEF DataInv
  <2>4. TablesInv'
    BY <1>1, <1>3, <2>3, TablesGrow DEF DataInv
  <2> QED BY <1>1, <2>3, <2>4 DEF Grown
<1>4. CASE StoreDemo /\ PartlyScored(Upserted("cert-r42", TRUE, DemoRows))
  <2>1. DemoRows \in SUBSET Row /\ Grown(DemoRows)
    BY <1>2, <1>4, DemoRowsTyped, DemoStored DEF DataInv
  <2>2. /\ Upserted("cert-r42", TRUE, DemoRows) \in SUBSET Event
        /\ RowsOf(Upserted("cert-r42", TRUE, DemoRows)) = RowsOf(events) \cup DemoRows
    <3>1. "cert-r42" \in Prefix /\ events \subseteq Event
      BY DEF Prefix, DataInv, TablesInv
    <3> QED BY <2>1, <3>1, UpsertedRows
  <2>3. /\ risky' \subseteq risky \cup UsersIn(RowsOf(events) \cup DemoRows)
        /\ hot' \subseteq hot \cup Device
    BY <1>4, <2>2, PartlyTyped
  <2>4. UsersIn(RowsOf(events) \cup DemoRows) \subseteq users'
    <3>1. UsersIn(RowsOf(events)) \subseteq users' /\ UsersIn(DemoRows) \subseteq users'
      BY <2>1 DEF Grown, DataInv, TablesInv
    <3> QED BY <3>1 DEF UsersIn
  <2>5. risky' \subseteq users' /\ hot' \subseteq Device
    BY <2>1, <2>3, <2>4 DEF Grown, DataInv, TablesInv
  <2>6. TablesInv'
    BY <1>1, <2>1, <2>5, TablesScored DEF DataInv
  <2> QED BY <1>1, <2>1, <2>6 DEF Grown
<1> QED BY <1>3, <1>4 DEF HalfDemo

LEMMA HalfSeedKeeps ==
  ASSUME DataInv, NEW l \in Loader, HalfSeed(l), UNCHANGED link
  PROVE  TablesInv' /\ users \subseteq users' /\ Keys(events) \subseteq Keys(events')
         /\ raced \subseteq raced' /\ alerts' \subseteq alerts
<1>1. /\ loader[l].pc = "seed" /\ UNCHANGED <<alerts, risky, hot, raced>>
      /\ HalfFile(FileLeft(l), loader[l].counted, FALSE)
  BY DEF HalfSeed, At
<1>2. loader[l] \in RunRecord /\ loader[l].counted \in SUBSET Row
  BY <1>1, RunHas, RunTyped
<1>3. FileLeft(l) \in Seq(Row)
  BY <1>2, FileLeftTyped DEF FileLeft
<1>4. PICK R \in SUBSET Row : Grown(R)
  BY <1>1, <1>2, <1>3, HalfFileGrows DEF DataInv
<1>5. TablesInv'
  BY <1>1, <1>4, TablesGrow DEF DataInv
<1> QED BY <1>1, <1>4, <1>5 DEF Grown

LEMMA HalfDirectKeeps ==
  ASSUME DataInv, NEW l \in Loader, HalfDirect(l), UNCHANGED link
  PROVE  TablesInv' /\ users \subseteq users' /\ Keys(events) \subseteq Keys(events')
         /\ raced \subseteq raced' /\ alerts' \subseteq alerts
<1> DEFINE own == [d \in Device |-> SmallestUser("direct", d)]
<1>1. loader[l].pc = "direct" /\ UNCHANGED <<alerts, risky, hot, raced>>
  BY DEF HalfDirect, At
<1> DEFINE Rows(n) == loader[l].counted \cup {FileLeft(l)[i] : i \in 1..n}
<1>2. PICK us \in SUBSET Profiles, ds \in SUBSET MockDevices("direct"),
           n \in 0..Len(FileLeft(l)) :
        Resolve(us, ds, own, Rows(n)) /\ StoreMock(us, ds, own, Rows(n))
  BY DEF HalfDirect
<1> DEFINE R == Rows(n)
<1>3. R \in SUBSET Row
  <2>1. loader[l].counted \in SUBSET Row /\ FileLeft(l) \in Seq(Row)
    BY <1>1, RunHas, RunTyped, FileLeftTyped DEF FileLeft
  <2>2. \A i \in 1..n : FileLeft(l)[i] \in Row
    BY <2>1
  <2> QED BY <2>1, <2>2
<1>4. us \in SUBSET User /\ ds \in SUBSET Device
  BY <1>2, LoadersAssumption DEF MockDevices
<1>5. Resolve(us, ds, own, R) /\ StoreMock(us, ds, own, R)
  BY <1>2
<1> HIDE DEF own, R
<1>6. Grown(R)
  BY <1>3, <1>4, <1>5, Mocking DEF DataInv
<1>7. TablesInv'
  BY <1>1, <1>3, <1>6, TablesGrow DEF DataInv
<1> QED BY <1>1, <1>6, <1>7 DEF Grown

LEMMA InterruptKeeps ==
  ASSUME DataInv, NEW l \in Loader, Interrupt(l)
  PROVE  DataInv'
<1>1. /\ loader[l].pc # "idle" /\ loader' = [loader EXCEPT ![l] = Ends(@, "dead")]
      /\ UNCHANGED link /\ starts' \in Nat
  BY DEF Interrupt, Ended, DataInv
<1>2. CASE HalfAlerted(l)
  <2>1. loader[l].pc \in {"alerts", "inserting"} /\ Alerted(l)
    BY <1>2 DEF HalfAlerted, At
  <2> QED BY <1>1, <2>1, AlertedKeeps, StopKeeps
<1>3. CASE HalfReset(l)
  BY <1>1, <1>3, HalfResetKeeps, StopKeeps
<1>4. CASE HalfBatch(l)
  BY <1>1, <1>4, HalfBatchKeeps, StopKeeps
<1>5. CASE HalfScored(l)
  BY <1>1, <1>5, HalfScoredKeeps, StopKeeps
<1>6. CASE HalfDemo(l)
  BY <1>1, <1>6, HalfDemoKeeps, StopKeeps
<1>7. CASE HalfSeed(l)
  BY <1>1, <1>7, HalfSeedKeeps, StopKeeps
<1>8. CASE HalfDirect(l)
  BY <1>1, <1>8, HalfDirectKeeps, StopKeeps
<1> QED BY <1>2, <1>3, <1>4, <1>5, <1>6, <1>7, <1>8 DEF Interrupt
-----------------------------------------------------------------------------
(***************************************************************************)
(* The server, administrators, analysts and agents.                        *)
(***************************************************************************)
LEMMA StartupKeeps ==
  ASSUME DataInv, Startup, UNCHANGED <<loader, starts, raced>>
  PROVE  DataInv'
<1>1. UNCHANGED <<users, owner, events, alerts, risky, hot>> /\ Bootstrap
  BY DEF Startup
<1>2. TablesInv'
  BY <1>1, BootstrapLinks, TablesLinked DEF DataInv
<1> QED BY <1>1, <1>2, TablesMove

LEMMA LockKeeps ==
  ASSUME DataInv, NEW locked \in BOOLEAN, Lock(locked), UNCHANGED <<loader, starts, raced>>
  PROVE  DataInv'
<1>1. UNCHANGED <<users, owner, events, alerts, risky, hot, link>>
  BY DEF Lock
<1>2. TablesInv'
  BY <1>1, TablesLinked DEF DataInv, TablesInv
<1> QED BY <1>1, <1>2, TablesMove

LEMMA AssignKeeps ==
  ASSUME DataInv, NEW d \in Device, NEW u \in User \cup {NoUser}, Assign(d, u),
         UNCHANGED <<loader, starts, raced>>
  PROVE  DataInv'
<1>1. /\ d \in Known /\ u \in users \cup {NoUser} /\ owner' = [owner EXCEPT ![d] = u]
      /\ UNCHANGED <<users, events, alerts, risky, hot, link>>
  BY DEF Assign
<1>2. owner'[d] = u /\ u # Missing /\ \A x \in Device : x # d => owner'[x] = owner[x]
  BY <1>1, TablesAssumption DEF DataInv, TablesInv
<1>3. owner' \in [Device -> User \cup {NoUser, Missing}]
  BY <1>1 DEF DataInv, TablesInv
<1>4. Known' = Known
  BY <1>1, <1>2 DEF Known
<1>5. \A x \in Known' : owner'[x] \in users' \cup {NoUser}
  BY <1>1, <1>2, <1>4 DEF DataInv, TablesInv, Known
<1>6. {} \in SUBSET Row /\ UsersIn({}) = {} /\ DevicesIn({}) = {}
  BY DEF UsersIn, DevicesIn
<1>7. /\ users \subseteq users' /\ users' \subseteq User /\ Known \subseteq Known'
      /\ events' \subseteq Event /\ RowsOf(events') \subseteq RowsOf(events) \cup {}
      /\ Keys(events) \subseteq Keys(events')
  BY <1>1, <1>4 DEF DataInv, TablesInv
<1>8. UsersIn({}) \subseteq users' /\ DevicesIn({}) \subseteq Known'
  BY <1>6
<1>9. Grown({})
  BY <1>3, <1>5, <1>7, <1>8 DEF Grown
<1>10. TablesInv'
  BY <1>1, <1>6, <1>9, TablesGrow DEF DataInv
<1> QED BY <1>1, <1>7, <1>10, TablesMove

\* An alert that is looked at keeps its event and its import.
LEMMA TriageKeeps ==
  ASSUME DataInv, NEW a, Triage(a), UNCHANGED <<loader, starts, raced>>
  PROVE  DataInv'
<1> DEFINE b == [a EXCEPT !.triaged = TRUE]
<1>1. /\ a \in alerts /\ alerts' = (alerts \ {a}) \cup {b}
      /\ UNCHANGED <<users, owner, events, risky, hot, link>>
  BY DEF Triage
<1>2. a \in AlertRecord /\ alerts \subseteq AlertRecord
  BY <1>1 DEF DataInv, TablesInv
<1>3. b \in AlertRecord /\ b.event = a.event /\ b.by = a.by
  BY <1>2 DEF AlertRecord
<1> HIDE DEF b
<1>4. alerts' \subseteq AlertRecord
  BY <1>1, <1>2, <1>3
<1>5. {x.event : x \in alerts'} \subseteq Keys(events)
  BY <1>1, <1>3 DEF DataInv, TablesInv
<1>6. OneAlertPerUser'
  <2>1. OneAlertPerUser
    BY DEF DataInv, TablesInv
  <2>2. ASSUME NEW x \in alerts', NEW y \in alerts', x # y,
               UserOf[x.event.row] = UserOf[y.event.row]
        PROVE  {x.by, y.by} \cap raced # {}
    <3>1. CASE x = b
      <4>1. y \in alerts /\ y # a /\ UserOf[a.event.row] = UserOf[y.event.row]
        BY <1>1, <1>3, <2>2, <3>1
      <4>2. {a.by, y.by} \cap raced # {}
        BY <1>1, <2>1, <4>1 DEF OneAlertPerUser
      <4> QED BY <1>3, <3>1, <4>2
    <3>2. CASE y = b
      <4>1. x \in alerts /\ x # a /\ UserOf[a.event.row] = UserOf[x.event.row]
        BY <1>1, <1>3, <2>2, <3>2
      <4>2. {a.by, x.by} \cap raced # {}
        BY <1>1, <2>1, <4>1 DEF OneAlertPerUser
      <4> QED BY <1>3, <3>2, <4>2
    <3>3. CASE x # b /\ y # b
      <4>1. x \in alerts /\ y \in alerts
        BY <1>1, <2>2, <3>3
      <4> QED BY <2>1, <2>2, <4>1 DEF OneAlertPerUser
    <3> QED BY <3>1, <3>2, <3>3
  <2> QED BY <2>2 DEF OneAlertPerUser
<1>7. Grown({}) /\ {} \in SUBSET Row
  BY <1>1, NoneGrown DEF DataInv
<1>8. risky' \subseteq users' /\ hot' \subseteq Device
  BY <1>1 DEF DataInv, TablesInv
<1>9. TablesInv'
  BY <1>1, <1>4, <1>5, <1>6, <1>7, <1>8, TablesAlerted DEF DataInv
<1>10. Ids(alerts') \subseteq Ids(alerts)
  <2>1. Id(b) = Id(a)
    BY <1>3 DEF Id
  <2> QED BY <1>1, <2>1 DEF Ids
<1> QED BY <1>1, <1>9, <1>10, TablesMove

LEMMA ArriveKeeps ==
  ASSUME DataInv, NEW x \in LiveRows, Arrive(x), UNCHANGED <<loader, starts, raced>>
  PROVE  DataInv'
<1>1. /\ x \in Row /\ UserOf[x] \in users \cup {NoUser}
      /\ DeviceOf[x] \in Known \cup {NoDevice} /\ events' = Ingested("agent", x)
      /\ UNCHANGED <<users, owner, alerts, risky, hot, link>>
  BY LoadersAssumption DEF Arrive
<1>2. TablesInv' /\ Keys(events) \subseteq Keys(events')
  <2>1. "agent" \in Prefix
    BY DEF Prefix
  <2> QED BY <1>1, <2>1, IngestKeeps DEF DataInv
<1> QED BY <1>1, <1>2, TablesMove

LEMMA OthersKeeps ==
  ASSUME DataInv, Others
  PROVE  DataInv'
<1>1. UNCHANGED <<loader, starts, raced>>
  BY DEF Others
<1>2. CASE Startup
  BY <1>1, <1>2, StartupKeeps
<1>3. CASE \E d \in Device, u \in Assignees : Assign(d, u)
  BY <1>1, <1>3, AssignKeeps, LoadersAssumption
<1>4. CASE \E a \in alerts : Triage(a)
  BY <1>1, <1>4, TriageKeeps
<1>5. CASE \E locked \in BOOLEAN : Lock(locked)
  BY <1>1, <1>5, LockKeeps
<1>6. CASE \E x \in LiveRows : Arrive(x)
  BY <1>1, <1>6, ArriveKeeps
<1> QED BY <1>2, <1>3, <1>4, <1>5, <1>6 DEF Others
-----------------------------------------------------------------------------
(***************************************************************************)
(* The theorems.                                                           *)
(***************************************************************************)
LEMMA DataStarts == Init => DataInv
<1> SUFFICES ASSUME Init PROVE DataInv
  OBVIOUS
<1>1. /\ users = {} /\ owner = [d \in Device |-> Missing] /\ events = {} /\ alerts = {}
      /\ risky = {} /\ hot = {} /\ link = NoUser
  BY DEF Init, TablesInit
<1>2. Known = {}
  BY <1>1 DEF Known
<1>3. RowsOf(events) = {} /\ UsersIn({}) = {} /\ DevicesIn({}) = {}
  BY <1>1 DEF RowsOf, UsersIn, DevicesIn
<1>4. TablesInv
  BY <1>1, <1>2, <1>3 DEF TablesInv, OneAlertPerUser
<1>5. starts \in Nat /\ loader \in [Loader -> {Idle} \cup RunRecord]
      /\ \A l \in Loader : loader[l] = Idle
  BY DEF Init
<1> QED BY <1>4, <1>5 DEF DataInv

LEMMA DataKeeps == DataInv /\ [Next]_vars => DataInv'
<1> SUFFICES ASSUME DataInv, [Next]_vars PROVE DataInv'
  OBVIOUS
<1>1. CASE \E l \in Loader, k \in Kind : Start(l, k)
  BY <1>1, StartKeeps
<1>2. CASE \E l \in Loader : BatchLoader(l)
  BY <1>2, ResetKeeps, NoResetKeeps, LoadProfilesKeeps, FlushKeeps, ScoreKeeps
     DEF BatchLoader
<1>3. CASE \E l \in Loader : AlertLoader(l)
  BY <1>3, DeleteAlertsKeeps, PickAlertsKeeps, InsertAlertKeeps, CommitAlertsKeeps
     DEF AlertLoader
<1>4. CASE \E l \in Loader : OneTransaction(l)
  BY <1>4, DemoKeeps, SeedFileKeeps, SeedEndKeeps, DirectFileKeeps, DirectEndKeeps
     DEF OneTransaction
<1>5. CASE \E l \in Loader : ApiLoader(l)
  BY <1>5, PostUsersKeeps, PostDevicesKeeps, PostRowKeeps DEF ApiLoader
<1>6. CASE \E l \in Loader : StartFails(l) \/ Crash(l) \/ Interrupt(l)
  BY <1>6, StartFailsKeeps, CrashKeeps, InterruptKeeps
<1>7. CASE Others
  BY <1>7, OthersKeeps
<1>8. CASE UNCHANGED vars
  <2>1. UNCHANGED <<loader, starts, raced, users, owner, events, alerts, risky, hot, link>>
    BY <1>8 DEF vars, tables
  <2>2. TablesInv'
    BY <2>1, TablesLinked DEF DataInv, TablesInv
  <2> QED BY <2>1, <2>2, TablesMove
<1> QED BY <1>1, <1>2, <1>3, <1>4, <1>5, <1>6, <1>7, <1>8 DEF Next

(***************************************************************************)
(* The tables and every run of a loader fit together at all times: what    *)
(* the loaders of src/database and scripts rely on from one batch, file or *)
(* transaction to the next, whichever of them is killed, interrupted with  *)
(* a part of a transaction committed, or overtaken by another.             *)
(***************************************************************************)
THEOREM LoadersSound == Spec => []DataInv
BY DataStarts, DataKeeps, PTL DEF Spec

(***************************************************************************)
(* What a loader has counted as imported is in event_logs, whatever killed *)
(* or interrupted it and whatever the others did: a batch is counted with  *)
(* its commit.  Only rows that another loader's --reset-cert-events has    *)
(* deleted since are reported still, and only what import_mock_data        *)
(* --direct and seed_mock_data count before their one commit may be        *)
(* missing.                                                                *)
(***************************************************************************)
THEOREM ImportsStored == Spec => []CountedRowsStored
<1>1. ASSUME DataInv, NEW l \in Loader, loader[l] # Idle
      PROVE  \/ loader[l].kind \in {"seed", "direct"}
                  /\ (loader[l].pc # "done" \/ loader[l].aborted)
             \/ loader[l].counted \ loader[l].gone \subseteq RowsOf(events)
  BY <1>1 DEF DataInv, RunFits, Stored
<1>2. DataInv => CountedRowsStored
  BY <1>1 DEF CountedRowsStored
<1> QED BY <1>2, LoadersSound, PTL

(***************************************************************************)
(* No statement of a loader is refused for a user, a device or an event    *)
(* that is not there: each batch brings the users and devices its rows,    *)
(* and the owners of its devices, name.                                    *)
(***************************************************************************)
THEOREM ReferencesResolve == Spec => []KeysResolve
<1>1. ASSUME DataInv, NEW l \in Loader
      PROVE  loader[l].pc # "fk"
  <2>1. loader[l] = Idle \/ loader[l] \in RunRecord
    BY <1>1 DEF DataInv
  <2> QED BY <2>1, RunTyped DEF Idle, Pc
<1>2. DataInv => KeysResolve
  BY <1>1 DEF DataInv, TablesInv, KeysResolve, Keys
<1> QED BY <1>2, LoadersSound, PTL

(***************************************************************************)
(* However often alerts are made again, a user has one at most, unless the *)
(* loader that made one of them was overtaken between its DELETE and its   *)
(* commit: a DELETE that waits for another one leaves the alerts that one  *)
(* commits, and nothing else leaves two.                                   *)
(***************************************************************************)
THEOREM AlertsOfOneImport == Spec => []OneAlertPerUser
<1>1. DataInv => OneAlertPerUser
  BY DEF DataInv, TablesInv
<1> QED BY <1>1, LoadersSound, PTL

\* COALESCE keeps an owner that is set.
LEMMA CoalescedKeeps ==
  ASSUME NEW D, NEW own, owner' = Coalesced(D, own), NEW d \in Device, owner[d] \in User
  PROVE  owner'[d] = owner[d]
BY TablesAssumption DEF Coalesced

LEMMA BootstrapKeeps ==
  ASSUME Bootstrap, link # NoUser
  PROVE  link' = link
BY DEF Bootstrap

LEMMA LinkKept ==
  ASSUME [Next]_vars, link # NoUser
  PROVE  link' = link
<1>1. CASE \E l \in Loader, k \in Kind : Start(l, k)
  BY <1>1, BootstrapKeeps DEF Start
<1>2. CASE \E l \in Loader : BatchLoader(l)
  BY <1>2 DEF BatchLoader, Reset, NoReset, LoadProfiles, Flush, Score, tables
<1>8. CASE \E l \in Loader : AlertLoader(l)
  BY <1>8 DEF AlertLoader, DeleteAlerts, PickAlerts, InsertAlert, CommitAlerts, tables
<1>3. CASE \E l \in Loader : OneTransaction(l)
  BY <1>3 DEF OneTransaction, Demo, SeedFile, SeedFileFails, SeedEnd, DirectFile, DirectEnd,
              tables
<1>4. CASE \E l \in Loader : ApiLoader(l)
  BY <1>4 DEF ApiLoader, PostUsers, PostDevices, PostRow, CreateUser, CreateDevice, tables
<1>5. CASE \E l \in Loader : StartFails(l) \/ Crash(l) \/ Interrupt(l)
  BY <1>5 DEF StartFails, Crash, Interrupt, tables
<1>6. CASE Others
  BY <1>6, BootstrapKeeps DEF Others, Startup, Assign, Triage, Lock, Arrive
<1>7. CASE UNCHANGED vars
  BY <1>7 DEF vars, tables
<1> QED BY <1>1, <1>2, <1>3, <1>4, <1>5, <1>6, <1>7, <1>8 DEF Next

\* The steps that write devices do so through Coalesced, but for POST and PATCH
\* /devices and import_mock_data --direct.
LEMMA AlertedOwners ==
  ASSUME NEW l \in Loader, Alerted(l), owner' # owner
  PROVE  \E D, own : owner' = Coalesced(D, own)
BY DEF Alerted, StoreDemo, Store

LEMMA InterruptOwners ==
  ASSUME NEW l \in Loader, Interrupt(l), owner' # owner, ~HalfDirect(l)
  PROVE  \E D, own : owner' = Coalesced(D, own)
<1>1. CASE HalfReset(l) \/ HalfScored(l)
  BY <1>1 DEF HalfReset, HalfScored
<1>2. CASE HalfBatch(l)
  BY <1>2 DEF HalfBatch, Store
<1>3. CASE HalfAlerted(l)
  BY <1>3, AlertedOwners DEF HalfAlerted
<1>4. CASE HalfDemo(l)
  <2>1. CASE StoreDemo
    BY <2>1 DEF StoreDemo, Store
  <2>2. CASE \E file, R1 : HalfFile(file, R1, TRUE)
    BY <2>2 DEF HalfFile, Store
  <2> QED BY <1>4, <2>1, <2>2 DEF HalfDemo
<1>5. CASE HalfSeed(l)
  <2>1. \E file, R1 : HalfFile(file, R1, FALSE)
    BY <1>5 DEF HalfSeed
  <2> QED BY <2>1 DEF HalfFile, Store
<1> QED BY <1>1, <1>2, <1>3, <1>4, <1>5 DEF Interrupt

LEMMA OwnerKept ==
  ASSUME DataInv, [Next]_vars, NEW d \in Device, owner[d] \in User, owner'[d] # owner[d]
  PROVE  \/ \E u \in User \cup {NoUser} : Assign(d, u)
         \/ \E l \in Loader : DirectEnd(l) \/ HalfDirect(l)
<1>1. owner \in [Device -> User \cup {NoUser, Missing}] /\ d \in Known
  BY TablesAssumption DEF DataInv, TablesInv, Known
<1>2. owner' # owner
  OBVIOUS
<1>3. ~\E D, own : owner' = Coalesced(D, own)
  BY CoalescedKeeps
<1>4. CASE \E l \in Loader : Flush(l) \/ SeedEnd(l)
  BY <1>2, <1>3, <1>4 DEF Flush, SeedEnd, Store
<1>5. CASE \E l \in Loader : PostDevices(l)
  <2>1. PICK e, u : CreateDevice(e, u)
    BY <1>2, <1>5 DEF PostDevices, tables
  <2>2. e \notin Known /\ owner' = [owner EXCEPT ![e] = u]
    BY <1>2, <2>1 DEF CreateDevice
  <2> QED BY <1>1, <2>2
<1>6. CASE \E e \in Device, u \in Assignees : Assign(e, u)
  <2>1. PICK e \in Device, u \in User \cup {NoUser} : Assign(e, u)
    BY <1>6, LoadersAssumption
  <2>2. e = d
    BY <1>1, <2>1 DEF Assign
  <2> QED BY <2>1, <2>2
<1>7. CASE \E l \in Loader : DirectEnd(l) \/ HalfDirect(l)
  BY <1>7
<1>8. CASE \E l \in Loader, k \in Kind : Start(l, k)
  BY <1>2, <1>8 DEF Start
<1>9. CASE \E l \in Loader : Reset(l) \/ NoReset(l) \/ LoadProfiles(l) \/ Score(l)
  BY <1>2, <1>9 DEF Reset, NoReset, LoadProfiles, Score, tables
<1>10. CASE \E l \in Loader : AlertLoader(l)
  <2>1. CASE \E l \in Loader : DeleteAlerts(l) \/ PickAlerts(l) \/ InsertAlert(l)
    BY <1>2, <2>1 DEF DeleteAlerts, PickAlerts, InsertAlert, tables
  <2>2. CASE \E l \in Loader : CommitAlerts(l)
    BY <1>2, <1>3, <2>2, AlertedOwners DEF CommitAlerts
  <2> QED BY <1>10, <2>1, <2>2 DEF AlertLoader
<1>11. CASE \E l \in Loader : Demo(l) \/ SeedFile(l) \/ SeedFileFails(l) \/ DirectFile(l)
  BY <1>2, <1>11 DEF Demo, SeedFile, SeedFileFails, DirectFile, tables
<1>12. CASE \E l \in Loader : StartFails(l) \/ Crash(l)
  BY <1>2, <1>12 DEF StartFails, Crash, tables
<1>13. CASE \E l \in Loader : Interrupt(l)
  BY <1>2, <1>3, <1>7, <1>13, InterruptOwners
<1>14. CASE \E l \in Loader : PostUsers(l) \/ PostRow(l)
  BY <1>2, <1>14 DEF PostUsers, PostRow, CreateUser, tables
<1>15. CASE Others /\ ~\E e \in Device, u \in Assignees : Assign(e, u)
  BY <1>2, <1>15 DEF Others, Startup, Triage, Lock, Arrive
<1>16. CASE UNCHANGED vars
  BY <1>2, <1>16 DEF vars, tables
<1> QED BY <1>4, <1>5, <1>6, <1>7, <1>8, <1>9, <1>10, <1>11, <1>12, <1>13, <1>14, <1>15,
           <1>16 DEF Next, BatchLoader, OneTransaction, ApiLoader

(***************************************************************************)
(* No import and no start of the server takes a device from its owner, or  *)
(* the employee account from its user: _upsert_devices coalesces, POST     *)
(* /devices refuses a device that exists, and initialize_database links    *)
(* the account only when it has no user.                                   *)
(***************************************************************************)
THEOREM OwnersKept == Spec => AssignmentsKept
<1>1. DataInv /\ [Next]_vars =>
        [/\ link # NoUser => link' = link
         /\ \A d \in Device : (owner[d] \in User /\ owner'[d] # owner[d]) =>
              \/ \E u \in User \cup {NoUser} : Assign(d, u)
              \/ \E l \in Loader : DirectEnd(l) \/ HalfDirect(l)]_vars
  BY LinkKept, OwnerKept
<1> QED BY <1>1, LoadersSound, PTL DEF Spec, AssignmentsKept
=============================================================================
