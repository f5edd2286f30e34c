------------------------ MODULE ConnectionPoolProofs ------------------------
(***************************************************************************)
(* What ConnectionPool guarantees for every number of threads and          *)
(* connections and every size of the pool.                                 *)
(*                                                                         *)
(* The three invariants are inductive together with two facts: the         *)
(* connections of the current pool need the pool, and a connection carries *)
(* uncommitted statements of nobody but the thread that holds it, and of   *)
(* that one only inside its block, or past one that a BaseException cut.   *)
(***************************************************************************)
EXTENDS ConnectionPool, FiniteSetTheorems, TLAPS

CarriesOwn ==
  \A t \in Holding :
    conn[use[t].conn].carries = None
      \/ (conn[use[t].conn].carries = t /\ (use[t].pc = "using" \/ t \in cut))

CurrentNeedsPool == \A c \in Live : conn[c].current => pool

PoolInv ==
  /\ TypeOK /\ ConnectionsAccounted /\ TimeoutFitsKind /\ NothingHalfCommitted
  /\ CarriesOwn /\ CurrentNeedsPool

LEMMA PoolStarts == Init => PoolInv
<1> SUFFICES ASSUME Init PROVE PoolInv
  OBVIOUS
<1>1. Live = {} /\ Pooled = {} /\ Holding = {}
  BY DEF Init, Live, Pooled, Holding, Closed, NoUse, InUse
<1>2. Cardinality(Pooled) <= MaxSize
  BY <1>1, FS_EmptySet, PoolAssumption
<1>3. TypeOK
  BY DEF Init, TypeOK
<1> QED
  BY <1>1, <1>2, <1>3
     DEF Init, PoolInv, ConnectionsAccounted, TimeoutFitsKind, NothingHalfCommitted,
         CarriesOwn, CurrentNeedsPool, NoUse

\* Who is past the checkout holds a connection.
LEMMA PastCheckout ==
  ASSUME TypeOK, NEW t \in Thread,
         use[t].pc \in {"setting", "using", "resetting", "returning"}
  PROVE  use[t] \in InUse /\ t \in Holding /\ use[t].conn \in Conn /\ use[t].kind \in Kind
BY DEF TypeOK, Holding, NoUse, InUse

LEMMA HolderUnwaiting ==
  ASSUME NEW t \in Holding
  PROVE  use[t] # NoUse /\ use[t].pc # "waiting"
BY DEF Holding, NoUse, InUse

LEMMA OpenedIs ==
  ASSUME TypeOK, NEW c \in Live
  PROVE  conn[c] \in Opened
BY DEF TypeOK, Live

LEMMA OpenedNotClosed == Closed \notin Opened
BY DEF Closed, Opened

\* The pool's size when it does not take connections in.
LEMMA SizeKept ==
  ASSUME PoolInv, Pooled' \subseteq Pooled
  PROVE  Cardinality(Pooled') <= MaxSize
<1>1. IsFiniteSet(Pooled)
  BY PoolAssumption, FS_Subset DEF Pooled, Live
<1>2. Cardinality(Pooled') <= Cardinality(Pooled) /\ IsFiniteSet(Pooled')
  BY <1>1, FS_Subset
<1>3. Cardinality(Pooled) \in Nat /\ Cardinality(Pooled') \in Nat
  BY <1>1, <1>2, FS_CardinalityType
<1> QED
  BY <1>2, <1>3, PoolAssumption DEF PoolInv, ConnectionsAccounted

\* A thread that goes on with the connection it holds.
LEMMA GoesOn ==
  ASSUME PoolInv, NEW t \in Holding, NEW r \in Opened, NEW u \in InUse,
         conn' = [conn EXCEPT ![use[t].conn] = r],
         use' = [use EXCEPT ![t] = u], u.conn = use[t].conn,
         r.st = "lent", r.current = conn[use[t].conn].current,
         r.carries = None \/ (r.carries = t /\ (u.pc = "using" \/ t \in cut')),
         u.pc = "using" => r.timeout = u.kind,
         pool' = pool, halved' \subseteq cut', cut \subseteq cut', cut' \subseteq Thread
  PROVE  PoolInv'
<1> DEFINE c == use[t].conn
<1>t. TypeOK /\ t \in Thread /\ c \in Conn /\ use[t] \in InUse
  BY DEF PoolInv, Holding, InUse
<1>c. conn[c] # Closed /\ conn[c].st = "lent"
  BY DEF PoolInv, ConnectionsAccounted
<1>r. r # Closed
  BY OpenedNotClosed
<1>1. TypeOK'
  BY <1>t DEF TypeOK
<1>2. conn'[c] = r /\ \A d \in Conn \ {c} : conn'[d] = conn[d]
  BY <1>t DEF TypeOK
<1>3. use'[t] = u /\ \A v \in Thread \ {t} : use'[v] = use[v]
  BY <1>t DEF TypeOK
<1>4. Live' = Live
  BY <1>2, <1>c, <1>r, <1>t DEF Live
<1>5. Holding' = Holding
  BY <1>3, <1>t DEF Holding
<1>6. Pooled' = Pooled
  BY <1>2, <1>4 DEF Pooled
<1>7. Cardinality(Pooled') <= MaxSize
  BY <1>6, SizeKept
<1>8. \A v \in Holding : use'[v].conn = use[v].conn
  BY <1>3 DEF Holding
<1>9. \A v \in Holding \ {t} : use[v].conn \in Conn \ {c}
  BY <1>t DEF PoolInv, ConnectionsAccounted, Holding, InUse
<1>10. ConnectionsAccounted'
  <2>1. \A v \in Holding' : conn'[use'[v].conn] # Closed /\ conn'[use'[v].conn].st = "lent"
    BY <1>2, <1>5, <1>8, <1>9, <1>r DEF PoolInv, ConnectionsAccounted
  <2>2. \A v, w \in Holding' : use'[v].conn = use'[w].conn => v = w
    BY <1>5, <1>8 DEF PoolInv, ConnectionsAccounted
  <2>3. \A d \in Live' : conn'[d].st = "lent" => \E v \in Holding' : use'[v].conn = d
    <3>1. ASSUME NEW d \in Live, d # c, conn'[d].st = "lent"
          PROVE  \E v \in Holding : use[v].conn = d
      BY <3>1, <1>2 DEF PoolInv, ConnectionsAccounted, Live
    <3> QED
      BY <3>1, <1>4, <1>5, <1>8
  <2>4. \A d \in Live' : conn'[d].st = "idle" =>
          pool' /\ conn'[d].current /\ conn'[d].carries = None
    BY <1>2, <1>4 DEF PoolInv, ConnectionsAccounted, Live
  <2> QED
    BY <1>7, <2>1, <2>2, <2>3, <2>4 DEF ConnectionsAccounted
<1>11. TimeoutFitsKind'
  <2>1. ASSUME NEW v \in Thread, v # t, use'[v].pc = "using"
        PROVE  conn'[use'[v].conn].timeout = use'[v].kind
    <3>1. v \in Holding
      BY <2>1, <1>3, <1>t, PastCheckout
    <3> QED
      BY <3>1, <2>1, <1>2, <1>3, <1>9 DEF PoolInv, TimeoutFitsKind
  <2> QED
    BY <2>1, <1>2, <1>3 DEF TimeoutFitsKind
<1>12. CarriesOwn'
  BY <1>2, <1>3, <1>5, <1>9 DEF PoolInv, CarriesOwn, Holding
<1>13. CurrentNeedsPool'
  BY <1>2, <1>4 DEF PoolInv, CurrentNeedsPool, Live
<1> QED
  BY <1>1, <1>10, <1>11, <1>12, <1>13 DEF PoolInv, NothingHalfCommitted

\* The steps of a thread that holds a connection, but the return.
LEMMA BlockSteps ==
  ASSUME PoolInv, NEW t \in Thread,
         SetKind(t) \/ SetFails(t) \/ Execute(t) \/ CommitBatch(t) \/ Commit(t)
           \/ BlockFails(t) \/ Interrupt(t) \/ Reset(t) \/ ResetFails(t)
  PROVE  PoolInv'
<1> DEFINE c == use[t].conn
<1>t. TypeOK
  BY DEF PoolInv
<1>h. t \in Holding /\ use[t] \in InUse /\ c \in Conn
  BY <1>t, PastCheckout
     DEF SetKind, SetFails, Execute, CommitBatch, Commit, BlockFails, Interrupt,
         Reset, ResetFails
<1>c. conn[c] \in Opened /\ conn[c].st = "lent"
  BY <1>h, <1>t DEF PoolInv, ConnectionsAccounted, TypeOK
<1>o. \/ conn[c].carries = None
      \/ conn[c].carries = t /\ (use[t].pc = "using" \/ t \in cut)
  BY <1>h DEF PoolInv, CarriesOwn
<1>b. halved \subseteq cut /\ cut \subseteq Thread
  BY <1>t DEF PoolInv, NothingHalfCommitted, TypeOK
<1>k. use[t].pc = "using" => conn[c].timeout = use[t].kind
  BY DEF PoolInv, TimeoutFitsKind
<1> HIDE DEF c
<1>1. CASE SetKind(t)
  <2> DEFINE r == [conn[c] EXCEPT !.timeout = use[t].kind, !.carries = None]
             u == [use[t] EXCEPT !.pc = "using"]
  <2>1. conn' = [conn EXCEPT ![c] = r] /\ use' = [use EXCEPT ![t] = u] /\ pool' = pool
    BY <1>1, <1>h, <1>c, <1>t DEF SetKind, SetTimeout, Goto, c, TypeOK
  <2>2. halved' \subseteq cut' /\ cut' = cut
    BY <1>1, <1>o, <1>b DEF SetKind, SetTimeout, Committing, c
  <2>3. r \in Opened /\ u \in InUse
    BY <1>h, <1>c DEF Opened, InUse
  <2>4. /\ r.st = "lent" /\ r.current = conn[c].current /\ r.carries = None
        /\ r.timeout = u.kind /\ u.conn = c
    BY <1>h, <1>c DEF Opened, InUse, c
  <2> HIDE DEF r, u
  <2> QED
    BY <2>1, <2>2, <2>3, <2>4, <1>h, <1>b, GoesOn DEF c
<1>2. CASE SetFails(t) \/ BlockFails(t) \/ ResetFails(t)
  <2> DEFINE r == [conn[c] EXCEPT !.carries = None]
             u == [use[t] EXCEPT !.pc =
                     IF use[t].pc = "resetting" THEN "returning" ELSE "resetting"]
  <2>1. conn' = [conn EXCEPT ![c] = r] /\ use' = [use EXCEPT ![t] = u] /\ pool' = pool
        /\ halved' = halved /\ cut' = cut
    BY <1>2, <1>h, <1>c, <1>t
       DEF SetFails, BlockFails, ResetFails, RollBack, Goto, c, TypeOK
  <2>3. r \in Opened /\ u \in InUse
    BY <1>h, <1>c DEF Opened, InUse
  <2>4. /\ r.st = "lent" /\ r.current = conn[c].current /\ r.carries = None
        /\ u.pc # "using" /\ u.conn = c
    BY <1>h, <1>c DEF Opened, InUse, c
  <2> HIDE DEF r, u
  <2> QED
    BY <2>1, <2>3, <2>4, <1>h, <1>b, GoesOn DEF c
<1>3. CASE Execute(t)
  <2> DEFINE r == [conn[c] EXCEPT !.carries = t]
             u == use[t]
  <2>1. conn' = [conn EXCEPT ![c] = r] /\ use' = [use EXCEPT ![t] = u] /\ pool' = pool
        /\ halved' = halved /\ cut' = cut
    BY <1>3, <1>h, <1>c, <1>t DEF Execute, c, TypeOK
  <2>3. r \in Opened /\ u \in InUse
    BY <1>h, <1>c DEF Opened, InUse
  <2>4. /\ r.st = "lent" /\ r.current = conn[c].current
        /\ r.carries = t /\ r.timeout = conn[c].timeout
    BY <1>h, <1>c DEF Opened, InUse
  <2>5. u.pc = "using" /\ u.conn = c /\ r.timeout = u.kind
    BY <1>3, <1>k, <2>4 DEF Execute, c
  <2> HIDE DEF r, u
  <2> QED
    BY <2>1, <2>3, <2>4, <2>5, <1>h, <1>b, GoesOn DEF c
<1>4. CASE Commit(t)
  <2> DEFINE r == [conn[c] EXCEPT !.carries = None]
             u == [use[t] EXCEPT !.pc = "resetting"]
  <2>1. conn' = [conn EXCEPT ![c] = r] /\ use' = [use EXCEPT ![t] = u] /\ pool' = pool
    BY <1>4, <1>h, <1>c, <1>t DEF Commit, RollBack, Goto, c, TypeOK
  <2>2. halved' \subseteq cut' /\ cut' = cut
    BY <1>4, <1>o, <1>b DEF Commit, Committing, c
  <2>3. r \in Opened /\ u \in InUse
    BY <1>h, <1>c DEF Opened, InUse
  <2>4. /\ r.st = "lent" /\ r.current = conn[c].current /\ r.carries = None
        /\ u.pc # "using" /\ u.conn = c
    BY <1>h, <1>c DEF Opened, InUse, c
  <2> HIDE DEF r, u
  <2> QED
    BY <2>1, <2>2, <2>3, <2>4, <1>h, <1>b, GoesOn DEF c
<1>5. CASE Reset(t)
  <2> DEFINE r == [conn[c] EXCEPT !.timeout = "read", !.carries = None]
             u == [use[t] EXCEPT !.pc = "returning"]
  <2>1. conn' = [conn EXCEPT ![c] = r] /\ use' = [use EXCEPT ![t] = u] /\ pool' = pool
    BY <1>5, <1>h, <1>c, <1>t DEF Reset, SetTimeout, Goto, c, TypeOK
  <2>2. halved' \subseteq cut' /\ cut' = cut
    BY <1>5, <1>o, <1>b DEF Reset, SetTimeout, Committing, c
  <2>3. r \in Opened /\ u \in InUse
    BY <1>h, <1>c DEF Opened, InUse, Kind
  <2>4. /\ r.st = "lent" /\ r.current = conn[c].current /\ r.carries = None
        /\ u.pc # "using" /\ u.conn = c
    BY <1>h, <1>c DEF Opened, InUse, c
  <2> HIDE DEF r, u
  <2> QED
    BY <2>1, <2>2, <2>3, <2>4, <1>h, <1>b, GoesOn DEF c
<1>6. CASE CommitBatch(t)
  <2> DEFINE r == [conn[c] EXCEPT !.carries = None]
             u == use[t]
  <2>1. conn' = [conn EXCEPT ![c] = r] /\ use' = [use EXCEPT ![t] = u] /\ pool' = pool
    BY <1>6, <1>h, <1>c, <1>t DEF CommitBatch, RollBack, c, TypeOK
  <2>2. halved' \subseteq cut' /\ cut' = cut
    BY <1>6, <1>o, <1>b DEF CommitBatch, Committing, c
  <2>3. r \in Opened /\ u \in InUse
    BY <1>h, <1>c DEF Opened, InUse
  <2>4. /\ r.st = "lent" /\ r.current = conn[c].current
        /\ r.carries = None /\ r.timeout = conn[c].timeout
    BY <1>h, <1>c DEF Opened, InUse
  <2>5. u.pc = "using" /\ u.conn = c /\ r.timeout = u.kind
    BY <1>6, <1>k, <2>4 DEF CommitBatch, c
  <2> HIDE DEF r, u
  <2> QED
    BY <2>1, <2>2, <2>3, <2>4, <2>5, <1>h, <1>b, GoesOn DEF c
<1>7. CASE Interrupt(t)
  <2> DEFINE r == conn[c]
             u == [use[t] EXCEPT !.pc = "resetting"]
  <2>1. conn' = [conn EXCEPT ![c] = r] /\ use' = [use EXCEPT ![t] = u] /\ pool' = pool
    BY <1>7, <1>h, <1>c, <1>t DEF Interrupt, Goto, c, TypeOK
  <2>2. cut' = cut \cup {t} /\ halved' = halved
    BY <1>7 DEF Interrupt
  <2>3. u \in InUse /\ u.pc # "using" /\ u.conn = c
    BY <1>h DEF InUse, c
  <2> HIDE DEF u
  <2> QED
    BY <2>1, <2>2, <2>3, <1>c, <1>o, <1>h, <1>b, GoesOn DEF c
<1> QED
  BY <1>1, <1>2, <1>3, <1>4, <1>5, <1>6, <1>7

\* Steps that leave the holders what they hold.
LEMMA HoldersKept ==
  ASSUME PoolInv, TypeOK', halved' \subseteq cut', CurrentNeedsPool',
         \A t \in Holding : t \in cut => t \in cut',
         Cardinality(Pooled') <= MaxSize,
         Holding' = Holding, \A t \in Holding : use'[t] = use[t],
         \A t \in Thread : use'[t].pc = "using" => use[t].pc = "using",
         \A t \in Holding :
           LET c == use[t].conn
           IN  /\ conn'[c] # Closed /\ conn'[c].st = "lent"
               /\ conn'[c].timeout = conn[c].timeout
               /\ conn'[c].carries \in {None, conn[c].carries},
         \A c \in Live' :
           /\ conn'[c].st = "lent" => c \in Live /\ conn[c].st = "lent"
           /\ conn'[c].st = "idle" =>
                pool' /\ conn'[c].current /\ conn'[c].carries = None
  PROVE  PoolInv'
<1>t. TypeOK
  BY DEF PoolInv
<1>1. ConnectionsAccounted'
  <2>1. \A t \in Holding' : conn'[use'[t].conn] # Closed /\ conn'[use'[t].conn].st = "lent"
    OBVIOUS
  <2>2. \A t, v \in Holding' : use'[t].conn = use'[v].conn => t = v
    BY DEF PoolInv, ConnectionsAccounted
  <2>3. \A c \in Live' : conn'[c].st = "lent" => \E t \in Holding' : use'[t].conn = c
    BY DEF PoolInv, ConnectionsAccounted
  <2> QED
    BY <2>1, <2>2, <2>3 DEF ConnectionsAccounted
<1>2. TimeoutFitsKind'
  <2>1. ASSUME NEW t \in Thread, use'[t].pc = "using"
        PROVE  conn'[use'[t].conn].timeout = use'[t].kind
    <3>1. t \in Holding /\ use[t].pc = "using"
      BY <2>1, <1>t, PastCheckout
    <3> QED
      BY <3>1, <2>1 DEF PoolInv, TimeoutFitsKind
  <2> QED
    BY <2>1 DEF TimeoutFitsKind
<1>3. CarriesOwn'
  <2>1. ASSUME NEW t \in Holding
        PROVE  \/ conn'[use'[t].conn].carries = None
               \/ /\ conn'[use'[t].conn].carries = t
                  /\ use'[t].pc = "using" \/ t \in cut'
    <3>1. \/ conn[use[t].conn].carries = None
          \/ /\ conn[use[t].conn].carries = t
             /\ use[t].pc = "using" \/ t \in cut
      BY DEF PoolInv, CarriesOwn
    <3> QED
      BY <3>1
  <2> QED
    BY <2>1 DEF CarriesOwn
<1> QED
  BY <1>1, <1>2, <1>3 DEF PoolInv, NothingHalfCommitted

\* The pool's own steps.
LEMMA PoolSteps ==
  ASSUME PoolInv, PoolStep
  PROVE  PoolInv'
<1>t. TypeOK /\ CurrentNeedsPool
  BY DEF PoolInv
<1>h. \A t \in Holding : /\ use[t].conn \in Live /\ conn[use[t].conn].st = "lent"
                         /\ t \in Thread /\ conn[use[t].conn] \in Opened
  BY <1>t, OpenedIs DEF PoolInv, ConnectionsAccounted, Holding, InUse, Live
<1>i. \A c \in Live : conn[c].st = "idle" =>
        pool /\ conn[c].current /\ conn[c].carries = None
  BY DEF PoolInv, ConnectionsAccounted
<1>f. Configured \in Opened /\ Configured.st = "idle" /\ Configured.current
      /\ Configured.carries = None
  BY DEF Configured, Opened, Kind
<1>z. Configured # Closed
  BY <1>f, OpenedNotClosed
<1>b. halved \subseteq cut
  BY DEF PoolInv, NothingHalfCommitted
<1>g. IsFiniteSet(Pooled) /\ Cardinality(Pooled) \in Nat
  BY PoolAssumption, FS_Subset, FS_CardinalityType DEF Pooled, Live
<1>1. CASE InitPool
  <2>1. PICK S \in SUBSET (Conn \ Live) :
          /\ Cardinality(S) = MinSize
          /\ conn' = [c \in Conn |-> IF c \in S THEN Configured ELSE conn[c]]
    BY <1>1 DEF InitPool
  <2>2. pool' /\ ~pool /\ use' = use /\ halved' = halved /\ cut' = cut
    BY <1>1 DEF InitPool
  <2>3. TypeOK'
    BY <2>1, <2>2, <1>t, <1>f DEF TypeOK
  <2>4. Live' = Live \cup S
    BY <2>1, <1>z DEF Live
  <2>5. Pooled' = S
    BY <2>1, <2>2, <2>4, <1>t, <1>f DEF Pooled, CurrentNeedsPool, Live
  <2>6. Cardinality(Pooled') <= MaxSize
    BY <2>1, <2>5, PoolAssumption
  <2>7. Holding' = Holding
    BY <2>2 DEF Holding
  <2>8. CurrentNeedsPool'
    BY <2>2 DEF CurrentNeedsPool
  <2>9. \A t \in Holding : conn'[use[t].conn] = conn[use[t].conn]
    BY <2>1, <1>h DEF Live
  <2>10. \A c \in Live' :
           /\ conn'[c].st = "lent" => c \in Live /\ conn[c].st = "lent"
           /\ conn'[c].st = "idle" => pool' /\ conn'[c].current /\ conn'[c].carries = None
    BY <2>1, <2>2, <2>4, <1>i, <1>f DEF Live
  <2> QED
    BY <2>2, <2>3, <2>6, <2>7, <2>8, <2>9, <2>10, <1>b, <1>h, HoldersKept DEF Live
<1>2. CASE ClosePool
  <2> DEFINE Kept(c) == [conn[c] EXCEPT !.current = FALSE]
  <2>1. /\ pool' = FALSE /\ halved' = halved /\ cut' = cut
        /\ conn' = [c \in Conn |-> IF conn[c] = Closed \/ conn[c].st = "idle"
                                     THEN Closed ELSE Kept(c)]
        /\ use' = [t \in Thread |-> IF use[t].pc = "waiting" THEN NoUse ELSE use[t]]
    BY <1>2 DEF ClosePool
  <2>2. \A c \in Live : Kept(c) \in Opened /\ Kept(c).st = conn[c].st
          /\ ~Kept(c).current /\ Kept(c).carries = conn[c].carries
          /\ Kept(c).timeout = conn[c].timeout
    BY <1>t, OpenedIs DEF Opened
  <2> HIDE DEF Kept
  <2>3. TypeOK'
    <3>1. \A c \in Conn : conn'[c] \in Opened \cup {Closed}
      BY <2>1, <2>2 DEF Live
    <3>2. DOMAIN conn' = Conn /\ conn' = [c \in Conn |-> conn'[c]]
      BY <2>1
    <3>3. use' \in [Thread -> {NoUse} \cup [pc : {"waiting"}, kind : Kind] \cup InUse]
      BY <2>1, <1>t DEF TypeOK
    <3>4. conn' \in [Conn -> Opened \cup {Closed}]
      BY <3>1, <3>2
    <3>5. pool' \in BOOLEAN /\ halved' \subseteq Thread /\ cut' \subseteq Thread
      BY <2>1, <1>t DEF TypeOK
    <3> QED
      BY <3>3, <3>4, <3>5 DEF TypeOK
  <2>4. \A c \in Live' : c \in Live /\ conn[c].st # "idle" /\ conn'[c] = Kept(c)
    BY <2>1 DEF Live
  <2>5. Pooled' = {} /\ CurrentNeedsPool'
    BY <2>2, <2>4 DEF Pooled, CurrentNeedsPool
  <2>6. Cardinality(Pooled') <= MaxSize
    BY <2>5, FS_EmptySet, PoolAssumption
  <2>7. \A t \in Holding : use'[t] = use[t]
    BY <2>1, HolderUnwaiting DEF Holding
  <2>8. Holding' = Holding
    <3>1. NoUse \notin InUse
      BY DEF NoUse, InUse
    <3>2. \A t \in Thread : use'[t] \in InUse => use[t] \in InUse
      BY <2>1, <3>1
    <3> QED
      BY <3>2, <2>7 DEF Holding
  <2>9. \A t \in Thread : use'[t].pc = "using" => use[t].pc = "using"
    BY <2>1 DEF NoUse
  <2>10. \A t \in Holding : conn'[use[t].conn] = Kept(use[t].conn)
    BY <2>1, <1>h DEF Live
  <2>11. \A t \in Holding : conn'[use[t].conn] # Closed
    BY <2>10, <2>2, <1>h, OpenedNotClosed
  <2>12. \A c \in Live' :
           /\ conn'[c].st = "lent" => c \in Live /\ conn[c].st = "lent"
           /\ conn'[c].st # "idle"
    BY <2>2, <2>4
  <2>13. \A t \in Holding :
           /\ conn'[use[t].conn].st = "lent"
           /\ conn'[use[t].conn].timeout = conn[use[t].conn].timeout
           /\ conn'[use[t].conn].carries = conn[use[t].conn].carries
    BY <2>2, <2>10, <1>h
  <2>14. halved' \subseteq cut' /\ cut' = cut
    BY <2>1, <1>b
  <2> QED
    BY <2>3, <2>5, <2>6, <2>7, <2>8, <2>9, <2>11, <2>12, <2>13, <2>14, HoldersKept
<1>3. ASSUME NEW c \in Conn, Grow(c)
      PROVE  PoolInv'
  <2>1. /\ pool /\ pool' = pool /\ use' = use /\ halved' = halved /\ cut' = cut
        /\ conn[c] = Closed /\ Cardinality(Pooled) < MaxSize
        /\ conn' = [conn EXCEPT ![c] = Configured]
    BY <1>3 DEF Grow
  <2>2. conn'[c] = Configured /\ \A d \in Conn \ {c} : conn'[d] = conn[d]
    BY <2>1, <1>t DEF TypeOK
  <2>3. TypeOK'
    BY <2>1, <1>t, <1>f DEF TypeOK
  <2>4. Live' = Live \cup {c} /\ c \notin Live
    BY <2>1, <2>2, <1>z DEF Live
  <2>5. Pooled' = Pooled \cup {c}
    BY <2>2, <2>4, <1>f DEF Pooled, Live
  <2>6. Cardinality(Pooled') <= MaxSize
    <3>1. c \notin Pooled
      BY <2>4 DEF Pooled
    <3>2. Cardinality(Pooled \cup {c}) = Cardinality(Pooled) + 1
      BY <1>g, <3>1, FS_AddElement
    <3> QED
      BY <3>2, <2>1, <2>5, <1>g, PoolAssumption
  <2>7. Holding' = Holding /\ CurrentNeedsPool'
    BY <2>1 DEF Holding, CurrentNeedsPool
  <2>8. \A t \in Holding : conn'[use[t].conn] = conn[use[t].conn]
    BY <2>2, <2>4, <1>h DEF Live
  <2>9. \A d \in Live' :
          /\ conn'[d].st = "lent" => d \in Live /\ conn[d].st = "lent"
          /\ conn'[d].st = "idle" => pool' /\ conn'[d].current /\ conn'[d].carries = None
    BY <2>1, <2>2, <2>4, <1>i, <1>f DEF Live
  <2> QED
    BY <2>1, <2>3, <2>6, <2>7, <2>8, <2>9, <1>b, <1>h, HoldersKept DEF Live
<1>4. ASSUME NEW c \in Conn, Shrink(c)
      PROVE  PoolInv'
  <2>1. /\ pool' = pool /\ use' = use /\ halved' = halved /\ cut' = cut
        /\ conn[c].st = "idle" /\ conn' = [conn EXCEPT ![c] = Closed]
    BY <1>4 DEF Shrink
  <2>2. conn'[c] = Closed /\ \A d \in Conn \ {c} : conn'[d] = conn[d]
    BY <2>1, <1>t DEF TypeOK
  <2>3. TypeOK'
    BY <2>1, <1>t DEF TypeOK
  <2>4. Live' = Live \ {c}
    BY <2>2 DEF Live
  <2>5. Pooled' \subseteq Pooled
    BY <2>2, <2>4 DEF Pooled, Live
  <2>6. Cardinality(Pooled') <= MaxSize
    BY <2>5, SizeKept
  <2>7. Holding' = Holding /\ CurrentNeedsPool'
    BY <2>1, <2>2, <2>4, <1>t DEF Holding, CurrentNeedsPool, Live
  <2>8. \A t \in Holding : conn'[use[t].conn] = conn[use[t].conn]
    BY <2>1, <2>2, <1>h DEF Live
  <2>9. \A d \in Live' :
          /\ conn'[d].st = "lent" => d \in Live /\ conn[d].st = "lent"
          /\ conn'[d].st = "idle" => pool' /\ conn'[d].current /\ conn'[d].carries = None
    BY <2>1, <2>2, <2>4, <1>i DEF Live
  <2> QED
    BY <2>1, <2>3, <2>6, <2>7, <2>8, <2>9, <1>b, <1>h, HoldersKept DEF Live
<1>5. ASSUME NEW c \in Conn, Break(c)
      PROVE  PoolInv'
  <2> DEFINE r == [conn[c] EXCEPT !.works = FALSE, !.carries = None]
  <2>1. /\ pool' = pool /\ use' = use /\ halved' = halved /\ cut' = cut
        /\ c \in Live /\ conn' = [conn EXCEPT ![c] = r]
    BY <1>5, <1>t DEF Break, Live, TypeOK
  <2>2. conn'[c] = r /\ \A d \in Conn \ {c} : conn'[d] = conn[d]
    BY <2>1, <1>t DEF TypeOK
  <2>3. /\ r \in Opened /\ r.st = conn[c].st /\ r.current = conn[c].current
        /\ r.carries = None /\ r.timeout = conn[c].timeout
    BY <2>1, <1>t, OpenedIs DEF Opened
  <2>r. r # Closed
    BY <2>3, OpenedNotClosed
  <2> HIDE DEF r
  <2>4. TypeOK'
    BY <2>1, <2>3, <1>t DEF TypeOK
  <2>5. Live' = Live
    BY <2>1, <2>2, <2>r DEF Live
  <2>6. Pooled' = Pooled
    BY <2>2, <2>3, <2>5 DEF Pooled, Live
  <2>7. Cardinality(Pooled') <= MaxSize
    BY <2>6, SizeKept
  <2>8. Holding' = Holding /\ CurrentNeedsPool'
    BY <2>1, <2>2, <2>3, <2>5, <1>t DEF Holding, CurrentNeedsPool, Live
  <2>9. \A t \in Holding :
          /\ conn'[use[t].conn] # Closed /\ conn'[use[t].conn].st = "lent"
          /\ conn'[use[t].conn].timeout = conn[use[t].conn].timeout
          /\ conn'[use[t].conn].carries \in {None, conn[use[t].conn].carries}
    BY <2>2, <2>3, <2>r, <1>h DEF Live
  <2>10. \A d \in Live' :
           /\ conn'[d].st = "lent" => d \in Live /\ conn[d].st = "lent"
           /\ conn'[d].st = "idle" => pool' /\ conn'[d].current /\ conn'[d].carries = None
    BY <2>1, <2>2, <2>3, <2>5, <1>i DEF Live
  <2> QED
    BY <2>1, <2>4, <2>7, <2>8, <2>9, <2>10, <1>b, HoldersKept
<1> QED
  BY <1>1, <1>2, <1>3, <1>4, <1>5 DEF PoolStep

\* A thread on its way to a connection, and the return of one.
LEMMA CheckoutSteps ==
  ASSUME PoolInv, NEW t \in Thread, Checkout(t) \/ Return(t)
  PROVE  PoolInv'
<1>t. TypeOK /\ CurrentNeedsPool
  BY DEF PoolInv
<1>h. \A v \in Holding : /\ use[v].conn \in Live /\ conn[use[v].conn].st = "lent"
                         /\ v \in Thread /\ conn[use[v].conn] \in Opened
  BY <1>t, OpenedIs DEF PoolInv, ConnectionsAccounted, Holding, InUse, Live
<1>i. \A c \in Live : conn[c].st = "idle" =>
        pool /\ conn[c].current /\ conn[c].carries = None
  BY DEF PoolInv, ConnectionsAccounted
<1>b. halved \subseteq cut
  BY DEF PoolInv, NothingHalfCommitted
<1>1. CASE AcquireTimesOut(t) \/ \E kind \in Kind : Ask(t, kind)
  <2>1. /\ pool' = pool /\ conn' = conn
        /\ use[t].pc = "waiting" \/ use[t] = NoUse
    BY <1>1 DEF AcquireTimesOut, Ask
  <2>b. \/ halved' = halved /\ cut' = cut
        \/ halved' = halved \ {t} /\ cut' = cut \ {t}
    BY <1>1 DEF AcquireTimesOut, Ask
  <2>2. PICK u \in {NoUse} \cup [pc : {"waiting"}, kind : Kind] :
          use' = [use EXCEPT ![t] = u]
    BY <1>1 DEF AcquireTimesOut, Ask
  <2>3. u \notin InUse /\ u.pc # "using"
    BY DEF NoUse, InUse
  <2>4. use[t] \notin InUse
    BY <2>1 DEF NoUse, InUse
  <2>5. use'[t] = u /\ \A v \in Thread \ {t} : use'[v] = use[v]
    BY <2>2, <1>t DEF TypeOK
  <2>6. TypeOK'
    BY <2>1, <2>2, <2>b, <1>t DEF TypeOK
  <2>7. Holding' = Holding
    BY <2>3, <2>4, <2>5 DEF Holding
  <2>8. \A v \in Holding : use'[v] = use[v]
    BY <2>4, <2>5 DEF Holding
  <2>9. \A v \in Thread : use'[v].pc = "using" => use[v].pc = "using"
    BY <2>3, <2>5
  <2>10. Pooled' = Pooled /\ Live' = Live /\ CurrentNeedsPool'
    BY <2>1, <1>t DEF Pooled, Live, CurrentNeedsPool
  <2>11. Cardinality(Pooled') <= MaxSize
    BY <2>10, SizeKept
  <2>12. \A v \in Holding : conn[use[v].conn] # Closed
    BY DEF PoolInv, ConnectionsAccounted
  <2>13. halved' \subseteq cut' /\ \A v \in Holding : v \in cut => v \in cut'
    BY <2>b, <2>4, <1>b DEF Holding
  <2> QED
    BY <2>1, <2>6, <2>7, <2>8, <2>9, <2>10, <2>11, <2>12, <2>13, <1>h, <1>i, HoldersKept
<1>2. ASSUME NEW c \in Conn, Lend(t, c)
      PROVE  PoolInv'
  <2> DEFINE r == [conn[c] EXCEPT !.st = "lent"]
             u == [pc |-> "setting", kind |-> use[t].kind, conn |-> c]
  <2>1. /\ pool' = pool /\ halved' = halved /\ cut' = cut
        /\ use[t].pc = "waiting" /\ c \in Pooled /\ conn[c].st = "idle"
        /\ conn' = [conn EXCEPT ![c] = r] /\ use' = [use EXCEPT ![t] = u]
    BY <1>2, <1>t DEF Lend, TypeOK
  <2>2. c \in Live /\ conn[c] \in Opened
    BY <2>1, <1>t, OpenedIs DEF Pooled
  <2>3. r \in Opened /\ r.st = "lent" /\ r.current = conn[c].current
        /\ r.carries = conn[c].carries
    BY <2>2 DEF Opened
  <2>4. use[t].kind \in Kind
    BY <2>1, <1>t DEF TypeOK, NoUse, InUse
  <2>5. u \in InUse /\ u.pc = "setting" /\ u.conn = c
    BY <2>4 DEF InUse
  <2>r. r # Closed
    BY <2>3, OpenedNotClosed
  <2> HIDE DEF r, u
  <2>6. conn'[c] = r /\ \A d \in Conn \ {c} : conn'[d] = conn[d]
    BY <2>1, <1>t DEF TypeOK
  <2>7. use'[t] = u /\ \A v \in Thread \ {t} : use'[v] = use[v]
    BY <2>1, <1>t DEF TypeOK
  <2>8. TypeOK'
    BY <2>1, <2>3, <2>5, <1>t DEF TypeOK
  <2>9. Live' = Live
    BY <2>2, <2>6, <2>r DEF Live
  <2>10. Pooled' = Pooled
    BY <2>3, <2>6, <2>9 DEF Pooled, Live
  <2>11. Cardinality(Pooled') <= MaxSize
    BY <2>10, SizeKept
  <2>12. Holding' = Holding \cup {t} /\ t \notin Holding
    BY <2>1, <2>5, <2>7, HolderUnwaiting DEF Holding
  <2>13. \A v \in Holding : use[v].conn \in Conn \ {c} /\ use'[v] = use[v]
    BY <1>h, <2>1, <2>7, <2>12 DEF Live
  <2>14. ConnectionsAccounted'
    <3>1. \A v \in Holding' : conn'[use'[v].conn] # Closed /\ conn'[use'[v].conn].st = "lent"
      BY <2>3, <2>5, <2>6, <2>7, <2>12, <2>13, <2>r DEF PoolInv, ConnectionsAccounted
    <3>2. \A v, w \in Holding' : use'[v].conn = use'[w].conn => v = w
      BY <2>5, <2>7, <2>12, <2>13 DEF PoolInv, ConnectionsAccounted
    <3>3. ASSUME NEW d \in Live', conn'[d].st = "lent"
          PROVE  \E v \in Holding' : use'[v].conn = d
      <4>1. CASE d = c
        BY <4>1, <2>5, <2>7, <2>12
      <4>2. CASE d # c
        <5>1. PICK v \in Holding : use[v].conn = d
          BY <4>2, <3>3, <2>6, <2>9 DEF PoolInv, ConnectionsAccounted, Live
        <5> QED
          BY <5>1, <2>12, <2>13
      <4> QED
        BY <4>1, <4>2
    <3>4. \A d \in Live' : conn'[d].st = "idle" =>
            pool' /\ conn'[d].current /\ conn'[d].carries = None
      BY <1>i, <2>1, <2>3, <2>6, <2>9 DEF Live
    <3> QED
      BY <2>11, <3>1, <3>2, <3>3, <3>4 DEF ConnectionsAccounted
  <2>15. TimeoutFitsKind'
    <3>1. ASSUME NEW v \in Thread, use'[v].pc = "using"
          PROVE  conn'[use'[v].conn].timeout = use'[v].kind
      <4>1. v # t /\ v \in Holding
        BY <3>1, <2>5, <2>7, <1>t, PastCheckout
      <4> QED
        BY <4>1, <3>1, <2>6, <2>13 DEF PoolInv, TimeoutFitsKind
    <3> QED
      BY <3>1 DEF TimeoutFitsKind
  <2>16. CarriesOwn'
    <3>1. ASSUME NEW v \in Holding
          PROVE  \/ conn'[use'[v].conn].carries = None
                 \/ /\ conn'[use'[v].conn].carries = v
                    /\ use'[v].pc = "using" \/ v \in cut'
      BY <2>1, <2>6, <2>13 DEF PoolInv, CarriesOwn
    <3>2. conn'[use'[t].conn].carries = None
      BY <1>i, <2>1, <2>2, <2>3, <2>5, <2>6, <2>7
    <3> QED
      BY <3>1, <3>2, <2>12 DEF CarriesOwn
  <2>17. CurrentNeedsPool'
    BY <1>t, <2>1, <2>3, <2>6, <2>9 DEF CurrentNeedsPool, Live
  <2> QED
    BY <2>1, <2>8, <2>14, <2>15, <2>16, <2>17 DEF PoolInv, NothingHalfCommitted
<1>3. CASE Return(t)
  <2> DEFINE c == use[t].conn
             r == IF conn[c].works /\ conn[c].current
                    THEN [conn[c] EXCEPT !.st = "idle", !.carries = None] ELSE Closed
  <2>1. t \in Holding /\ c \in Conn
    BY <1>3, <1>t, PastCheckout DEF Return
  <2>2. /\ pool' = pool /\ halved' = halved /\ cut' = cut /\ use' = [use EXCEPT ![t] = NoUse]
        /\ conn' = [conn EXCEPT ![c] = r]
    BY <1>3, <1>t, <2>1 DEF Return, TypeOK
  <2>3. c \in Live /\ conn[c] \in Opened
    BY <2>1, <1>h
  <2>4. r = Closed \/ (r \in Opened /\ r.st = "idle" /\ r.carries = None /\ r.current
                         /\ conn[c].current)
    BY <2>3 DEF Opened
  <2> HIDE DEF r
  <2>5. conn'[c] = r /\ \A d \in Conn \ {c} : conn'[d] = conn[d]
    BY <2>1, <2>2, <1>t DEF TypeOK
  <2>6. use'[t] = NoUse /\ \A v \in Thread \ {t} : use'[v] = use[v]
    BY <2>2, <1>t DEF TypeOK
  <2>7. TypeOK'
    BY <2>1, <2>2, <2>4, <1>t DEF TypeOK
  <2>8. \A d \in Live' : d \in Live
    BY <2>3, <2>5 DEF Live
  <2>9. Pooled' \subseteq Pooled
    BY <2>3, <2>4, <2>5, <2>8 DEF Pooled, Live
  <2>10. Cardinality(Pooled') <= MaxSize
    BY <2>9, SizeKept
  <2>11. Holding' = Holding \ {t}
    <3>1. NoUse \notin InUse
      BY DEF NoUse, InUse
    <3> QED
      BY <3>1, <2>6 DEF Holding
  <2>12. \A v \in Holding' : v \in Holding /\ use'[v] = use[v] /\ use[v].conn \in Conn \ {c}
    BY <2>1, <2>6, <2>11, <1>h DEF PoolInv, ConnectionsAccounted, Holding, Live
  <2>13. ConnectionsAccounted'
    <3>1. \A v \in Holding' : conn'[use'[v].conn] # Closed /\ conn'[use'[v].conn].st = "lent"
      BY <2>5, <2>12 DEF PoolInv, ConnectionsAccounted
    <3>2. \A v, w \in Holding' : use'[v].conn = use'[w].conn => v = w
      BY <2>12 DEF PoolInv, ConnectionsAccounted
    <3>3. ASSUME NEW d \in Live', conn'[d].st = "lent"
          PROVE  \E v \in Holding' : use'[v].conn = d
      <4>1. d # c
        BY <3>3, <2>4, <2>5 DEF Live
      <4>2. PICK v \in Holding : use[v].conn = d
        BY <4>1, <3>3, <2>5, <2>8 DEF PoolInv, ConnectionsAccounted, Live
      <4> QED
        BY <4>1, <4>2, <2>11, <2>12
    <3>4. \A d \in Live' : conn'[d].st = "idle" =>
            pool' /\ conn'[d].current /\ conn'[d].carries = None
      BY <1>i, <1>t, <2>2, <2>3, <2>4, <2>5, <2>8 DEF Live, CurrentNeedsPool
    <3> QED
      BY <2>10, <3>1, <3>2, <3>3, <3>4 DEF ConnectionsAccounted
  <2>14. TimeoutFitsKind'
    <3>1. ASSUME NEW v \in Thread, use'[v].pc = "using"
          PROVE  conn'[use'[v].conn].timeout = use'[v].kind
      <4>1. v # t
        BY <3>1, <2>6 DEF NoUse
      <4>2. v \in Holding'
        BY <4>1, <3>1, <2>6, <2>11, <1>t, PastCheckout
      <4> QED
        BY <4>2, <3>1, <2>5, <2>12 DEF PoolInv, TimeoutFitsKind, Holding
    <3> QED
      BY <3>1 DEF TimeoutFitsKind
  <2>15. CarriesOwn'
    BY <2>2, <2>5, <2>12 DEF PoolInv, CarriesOwn
  <2>16. CurrentNeedsPool'
    BY <1>t, <2>2, <2>3, <2>4, <2>5, <2>8 DEF CurrentNeedsPool, Live
  <2> QED
    BY <2>2, <2>7, <2>13, <2>14, <2>15, <2>16 DEF PoolInv, NothingHalfCommitted
<1> QED
  BY <1>1, <1>2, <1>3 DEF Checkout

LEMMA PoolInvSteps == PoolInv /\ [Next]_vars => PoolInv'
<1> SUFFICES ASSUME PoolInv, [Next]_vars PROVE PoolInv'
  OBVIOUS
<1>1. CASE PoolStep
  BY <1>1, PoolSteps
<1>2. ASSUME NEW t \in Thread, Checkout(t)
      PROVE  PoolInv'
  BY <1>2, CheckoutSteps
<1>3. ASSUME NEW t \in Thread, Block(t)
      PROVE  PoolInv'
  BY <1>3, CheckoutSteps, BlockSteps DEF Block
<1>4. CASE UNCHANGED vars
  BY <1>4
     DEF vars, PoolInv, TypeOK, ConnectionsAccounted, TimeoutFitsKind,
         NothingHalfCommitted, CarriesOwn, CurrentNeedsPool, Holding, Live, Pooled
<1> QED
  BY <1>1, <1>2, <1>3, <1>4 DEF Next

THEOREM PoolInvariant == Spec => []PoolInv
BY PoolStarts, PoolInvSteps, PTL DEF Spec

(***************************************************************************)
(* Threads, connections and the pool stay well typed.                      *)
(***************************************************************************)
THEOREM PoolTyped == Spec => []TypeOK
<1>1. PoolInv => TypeOK
  BY DEF PoolInv
<1> QED
  BY <1>1, PoolInvariant, PTL

(***************************************************************************)
(* Whatever breaks and whenever the pool is closed, pooled_connection      *)
(* loses no connection and never lends one twice, for every size.          *)
(***************************************************************************)
THEOREM NoConnectionLeaks == Spec => []ConnectionsAccounted
<1>1. PoolInv => ConnectionsAccounted
  BY DEF PoolInv
<1> QED
  BY <1>1, PoolInvariant, PTL

(***************************************************************************)
(* Every block runs under its own statement timeout, although              *)
(* _reset_to_read_timeout may fail.                                        *)
(***************************************************************************)
THEOREM OwnTimeout == Spec => []TimeoutFitsKind
<1>1. PoolInv => TimeoutFitsKind
  BY DEF PoolInv
<1> QED
  BY <1>1, PoolInvariant, PTL

(***************************************************************************)
(* Only its own commits commit a block's statements, unless a              *)
(* BaseException cut it: neither the SETs of the timeout nor a later user  *)
(* of the connection do.                                                   *)
(***************************************************************************)
THEOREM WholeBlocks == Spec => []NothingHalfCommitted
<1>1. PoolInv => NothingHalfCommitted
  BY DEF PoolInv
<1> QED
  BY <1>1, PoolInvariant, PTL
=============================================================================
