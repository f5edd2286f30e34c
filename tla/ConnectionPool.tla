--------------------------- MODULE ConnectionPool ---------------------------
(***************************************************************************)
(* The backend's connection pool (db/pool.py) and get_connection           *)
(* (db/session.py), which every transaction of the backend goes through.   *)
(*                                                                         *)
(* A thread checks a connection out, sets the statement timeout of its     *)
(* kind, runs its block, commits or rolls back, sets the read timeout and  *)
(* returns the connection.  Connections break at any time and the pool is  *)
(* closed while some are lent (lifespan of main.py cancels the             *)
(* normalizer's task, whose thread goes on).                               *)
(*                                                                         *)
(* psycopg_pool.ConnectionPool is external: it opens connections in the    *)
(* background, lends an idle one, rolls back and keeps a returned one that *)
(* works, and drops it if it is broken or the pool was closed.             *)
(***************************************************************************)
EXTENDS Integers, FiniteSets

CONSTANTS Thread, Conn,
          None,
          MinSize, MaxSize   \* db_pool_min_size, db_pool_max_size

ASSUME PoolAssumption ==
  /\ MinSize \in Nat /\ MaxSize \in Nat /\ MinSize <= MaxSize
  /\ IsFiniteSet(Conn) /\ None \notin Thread \cup Conn

VARIABLES pool,         \* whether _pool is there
          conn,         \* the connections, those never opened or closed included
          use           \* the get_connection a thread stands inside of

\* History, of the last block of each thread: whether some of its statements were
\* committed by another commit than its own, and whether a BaseException cut it.
VARIABLES halved, cut

vars == <<pool, conn, use, halved, cut>>

\* Which of the three statement timeouts.
Kind == {"read", "write", "stream"}

Closed == [st |-> "closed"]

\* A connection knows its pool, current or closed, whether it works, its
\* session's timeout and whose uncommitted statements it carries.
Opened == [st : {"idle", "lent"}, current : BOOLEAN, works : BOOLEAN,
           timeout : Kind, carries : Thread \cup {None}]

\* _configure_connection
Configured == [st |-> "idle", current |-> TRUE, works |-> TRUE,
               timeout |-> "read", carries |-> None]

NoUse == [pc |-> "idle"]
InUse == [pc : {"setting", "using", "resetting", "returning"}, kind : Kind, conn : Conn]

Live == {c \in Conn : conn[c] # Closed}
Pooled == {c \in Live : conn[c].current}

Init ==
  /\ pool = FALSE
  /\ conn = [c \in Conn |-> Closed] /\ use = [t \in Thread |-> NoUse]
  /\ halved = {} /\ cut = {}
-----------------------------------------------------------------------------
(***************************************************************************)
(* init_pool, close_pool and the pool's own threads                        *)
(***************************************************************************)
\* wait: min_size connections are there (else the pool is closed again).
InitPool ==
  /\ ~pool /\ pool' = TRUE
  /\ \E S \in SUBSET (Conn \ Live) :
       /\ Cardinality(S) = MinSize
       /\ conn' = [c \in Conn |-> IF c \in S THEN Configured ELSE conn[c]]
  /\ UNCHANGED <<use, halved, cut>>

\* Who waits for a connection is refused, idle connections are closed, lent
\* ones are left to their threads.
ClosePool ==
  /\ pool /\ pool' = FALSE
  /\ conn' = [c \in Conn |->
       IF conn[c] = Closed \/ conn[c].st = "idle" THEN Closed
       ELSE [conn[c] EXCEPT !.current = FALSE]]
  /\ use' = [t \in Thread |-> IF use[t].pc = "waiting" THEN NoUse ELSE use[t]]
  /\ UNCHANGED <<halved, cut>>

Grow(c) ==
  /\ pool /\ conn[c] = Closed /\ Cardinality(Pooled) < MaxSize
  /\ conn' = [conn EXCEPT ![c] = Configured]
  /\ UNCHANGED <<pool, use, halved, cut>>

\* max_idle
Shrink(c) ==
  /\ conn[c] # Closed /\ conn[c].st = "idle" /\ Cardinality(Pooled) > MinSize
  /\ conn' = [conn EXCEPT ![c] = Closed]
  /\ UNCHANGED <<pool, use, halved, cut>>

\* The server or the network ends a session: it rolls back.
Break(c) ==
  /\ conn[c] # Closed /\ conn[c].works
  /\ conn' = [conn EXCEPT ![c].works = FALSE, ![c].carries = None]
  /\ UNCHANGED <<pool, use, halved, cut>>
-----------------------------------------------------------------------------
(***************************************************************************)
(* pooled_connection and get_connection                                    *)
(***************************************************************************)
Goto(t, pc) == use' = [use EXCEPT ![t].pc = pc]

\* conn.commit() of thread t: its block's own, or with a SET before it.
Committing(t, own) ==
  LET by == conn[use[t].conn].carries
  IN  /\ halved' = IF by = None \/ (by = t /\ own) THEN halved ELSE halved \cup {by}
      /\ UNCHANGED cut

\* Set the timeout, if the connection works, and commit.
SetTimeout(t, kind) ==
  /\ conn[use[t].conn].works
  /\ conn' = [conn EXCEPT ![use[t].conn].timeout = kind, ![use[t].conn].carries = None]
  /\ Committing(t, FALSE)

RollBack(c) == conn' = [conn EXCEPT ![c].carries = None]

\* get_pool, and getconn with its timeout
Ask(t, kind) ==
  /\ pool /\ use[t] = NoUse
  /\ use' = [use EXCEPT ![t] = [pc |-> "waiting", kind |-> kind]]
  /\ halved' = halved \ {t} /\ cut' = cut \ {t}
  /\ UNCHANGED <<pool, conn>>

Lend(t, c) ==
  /\ use[t].pc = "waiting" /\ c \in Pooled /\ conn[c].st = "idle"
  /\ conn' = [conn EXCEPT ![c].st = "lent"]
  /\ use' = [use EXCEPT ![t] = [pc |-> "setting", kind |-> use[t].kind, conn |-> c]]
  /\ UNCHANGED <<pool, halved, cut>>

AcquireTimesOut(t) ==
  /\ use[t].pc = "waiting"
  /\ use' = [use EXCEPT ![t] = NoUse]
  /\ UNCHANGED <<pool, conn, halved, cut>>

\* Mutated form: as _set_timeout_for_kind, a read relies on what it finds.
SetKindUnlessRead(t) ==
  /\ use[t].pc = "setting"
  /\ IF use[t].kind = "read"
       THEN UNCHANGED <<conn, halved, cut>> ELSE SetTimeout(t, use[t].kind)
  /\ Goto(t, "using") /\ UNCHANGED pool

SetKind(t) ==
  /\ use[t].pc = "setting"
  /\ SetTimeout(t, use[t].kind)
  /\ Goto(t, "using") /\ UNCHANGED pool

\* Mutated form: the SET stands before the try whose finally returns the
\* connection.
SetFailsOutside(t) ==
  /\ use[t].pc = "setting"
  /\ RollBack(use[t].conn) /\ use' = [use EXCEPT ![t] = NoUse]
  /\ UNCHANGED <<pool, halved, cut>>

SetFails(t) ==
  /\ use[t].pc = "setting"
  /\ RollBack(use[t].conn) /\ Goto(t, "resetting")
  /\ UNCHANGED <<pool, halved, cut>>

\* A statement of the block, whatever kind it asked for.
Execute(t) ==
  /\ use[t].pc = "using" /\ conn[use[t].conn].works
  /\ conn' = [conn EXCEPT ![use[t].conn].carries = t]
  /\ UNCHANGED <<pool, use, halved, cut>>

Commit(t) ==
  /\ use[t].pc = "using" /\ conn[use[t].conn].works
  /\ RollBack(use[t].conn) /\ Committing(t, TRUE)
  /\ Goto(t, "resetting") /\ UNCHANGED pool

\* The block commits what it did so far and goes on: the loaders do after each
\* stage or batch.
CommitBatch(t) ==
  /\ use[t].pc = "using" /\ conn[use[t].conn].works
  /\ RollBack(use[t].conn) /\ Committing(t, TRUE)
  /\ UNCHANGED <<pool, use>>

\* Mutated form: get_connection leaves it to the pool to roll back.
BlockFailsOpen(t) ==
  /\ use[t].pc = "using" /\ Goto(t, "resetting")
  /\ UNCHANGED <<pool, conn, halved, cut>>

\* An Exception of the block or of its commit.
BlockFails(t) ==
  /\ use[t].pc = "using"
  /\ RollBack(use[t].conn) /\ Goto(t, "resetting")
  /\ UNCHANGED <<pool, halved, cut>>

\* A KeyboardInterrupt, SystemExit or GeneratorExit passes get_connection's
\* `except Exception`: nothing is rolled back.
Interrupt(t) ==
  /\ use[t].pc = "using"
  /\ cut' = cut \cup {t} /\ Goto(t, "resetting")
  /\ UNCHANGED <<pool, conn, halved>>

\* _reset_to_read_timeout, whose failure is swallowed
Reset(t) ==
  /\ use[t].pc = "resetting" /\ SetTimeout(t, "read")
  /\ Goto(t, "returning") /\ UNCHANGED pool

ResetFails(t) ==
  /\ use[t].pc = "resetting"
  /\ RollBack(use[t].conn) /\ Goto(t, "returning")
  /\ UNCHANGED <<pool, halved, cut>>

\* putconn
Return(t) ==
  /\ use[t].pc = "returning"
  /\ LET c == use[t].conn
     IN  conn' = [conn EXCEPT ![c] =
           IF @.works /\ @.current THEN [@ EXCEPT !.st = "idle", !.carries = None]
           ELSE Closed]
  /\ use' = [use EXCEPT ![t] = NoUse]
  /\ UNCHANGED <<pool, halved, cut>>

PoolStep ==
  \/ InitPool \/ ClosePool
  \/ \E c \in Conn : Grow(c) \/ Shrink(c) \/ Break(c)

Checkout(t) ==
  \/ \E kind \in Kind : Ask(t, kind)
  \/ \E c \in Conn : Lend(t, c)
  \/ AcquireTimesOut(t)

Block(t) ==
  \/ SetKind(t) \/ SetFails(t)
  \/ Execute(t) \/ CommitBatch(t) \/ Commit(t) \/ BlockFails(t) \/ Interrupt(t)
  \/ Reset(t) \/ ResetFails(t) \/ Return(t)

Next == PoolStep \/ \E t \in Thread : Checkout(t) \/ Block(t)

Spec == Init /\ [][Next]_vars
-----------------------------------------------------------------------------
TypeOK ==
  /\ pool \in BOOLEAN
  /\ conn \in [Conn -> Opened \cup {Closed}]
  /\ use \in [Thread -> {NoUse} \cup [pc : {"waiting"}, kind : Kind] \cup InUse]
  /\ halved \subseteq Thread /\ cut \subseteq Thread

Holding == {t \in Thread : use[t] \in InUse}

(***************************************************************************)
(* Whatever fails in a checkout, and also when the pool is closed during   *)
(* it: a lent connection is held by one thread, and only lent ones are     *)
(* held; the pool has at most max_size; a closed pool leaves no connection *)
(* open but those still held; an idle one carries no open transaction      *)
(* (pooled_connection's finally, main.py:83).                              *)
(***************************************************************************)
ConnectionsAccounted ==
  /\ \A t \in Holding :
       conn[use[t].conn] # Closed /\ conn[use[t].conn].st = "lent"
  /\ \A t, v \in Holding : use[t].conn = use[v].conn => t = v
  /\ \A c \in Live : conn[c].st = "lent" => \E t \in Holding : use[t].conn = c
  /\ Cardinality(Pooled) <= MaxSize
  /\ \A c \in Live : conn[c].st = "idle" =>
       pool /\ conn[c].current /\ conn[c].carries = None

(***************************************************************************)
(* A block runs under the timeout of its own kind, whatever kind used the  *)
(* connection before and although resetting it may fail unnoticed          *)
(* (db/pool.py:223).                                                       *)
(***************************************************************************)
TimeoutFitsKind ==
  \A t \in Thread : use[t].pc = "using" => conn[use[t].conn].timeout = use[t].kind

(***************************************************************************)
(* Only a block's own commits commit its statements: neither the commits   *)
(* that follow the SETs of the timeout (db/pool.py:208, 243) nor a later   *)
(* user of the connection commits what a failed block left.  The one way   *)
(* to a half-committed block is a BaseException in it, which the docstring *)
(* of get_connection, "rolls back on exception" (session.py:301), promises *)
(* too and its `except Exception` (session.py:320) lets through.           *)
(***************************************************************************)
NothingHalfCommitted == halved \subseteq cut
=============================================================================
