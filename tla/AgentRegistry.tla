--------------------------- MODULE AgentRegistry ---------------------------
(***************************************************************************)
(* The backend's register of endpoint agents (src/backend/app/db/agents.py *)
(* and api/routes_agents.py): one-time enrollment tokens, the agents       *)
(* enrolled with them, and their status.                                   *)
(*                                                                         *)
(* An endpoint is an async function that calls the synchronous database    *)
(* helpers, so a replica serves one request at a time.  A registration     *)
(* reads its token and writes with it inside one READ COMMITTED            *)
(* transaction; a heartbeat is authenticated by one transaction and        *)
(* written by the next.  Replicas interleave at those points.  A replica's *)
(* `work` is the request it stands inside of.                              *)
(*                                                                         *)
(* A token's and an agent's key are secrets the client holds: an agent id  *)
(* stands for both the row and its key.  Time is abstracted to two events: *)
(* a token expires, a heartbeat gets older than the timeout.               *)
(***************************************************************************)
EXTENDS FiniteSets

CONSTANTS Token, Agent, Host, Replica, None

ASSUME RegistryAssumption ==
  /\ None \notin Agent /\ None \notin Token /\ None \notin Host

VARIABLES token,       \* agent_enrollment_tokens: "none", "valid" or "expired"
          usedBy,      \* its used_by_agent_id
          status,      \* endpoint_agents.status, "none" without a row
          beat,        \* last_heartbeat: "never", "recent" or "old"
          home,        \* hostname of an agent
          with,        \* the token an agent was enrolled with
          work         \* the request each replica stands inside of

\* History: tokens with which two registrations were at work at once.
VARIABLE contended

registry == <<token, usedBy, status, beat, home, with, work, contended>>

AgentStatus == {"enrolled", "active", "offline", "revoked"}

Idle == [op |-> "idle"]
Registration == [op : {"register"}, token : Token, host : Host]
Report == [op : {"heartbeat"}, agent : Agent]

RegistryInit ==
  /\ token = [t \in Token |-> "none"] /\ usedBy = [t \in Token |-> None]
  /\ status = [a \in Agent |-> "none"] /\ beat = [a \in Agent |-> "never"]
  /\ home = [a \in Agent |-> None] /\ with = [a \in Agent |-> None]
  /\ work = [r \in Replica |-> Idle] /\ contended = {}

Enrolled == {a \in Agent : status[a] # "none"}

\* An endpoint of one transaction needs a replica that is free.
Serving == \E r \in Replica : work[r] = Idle
-----------------------------------------------------------------------------
(***************************************************************************)
(* Enrollment tokens and registration.                                     *)
(***************************************************************************)
\* create_enrollment_token
IssueToken(t) ==
  /\ Serving /\ token[t] = "none"
  /\ token' = [token EXCEPT ![t] = "valid"]
  /\ UNCHANGED <<usedBy, status, beat, home, with, work, contended>>

TokenExpires(t) ==
  /\ token[t] = "valid"
  /\ token' = [token EXCEPT ![t] = "expired"]
  /\ UNCHANGED <<usedBy, status, beat, home, with, work, contended>>

\* Mutated form: the used_by_agent_id check is missing.
UsableAgain(t) == token[t] = "valid"

\* _consume_enrollment_token: found, not used, not expired.
Usable(t) == token[t] = "valid" /\ usedBy[t] = None

\* The replicas at work on a registration with token t.
Registering(t) == {r \in Replica : work[r] \in Registration /\ work[r].token = t}

\* register_agent, its SELECT: the token is usable as far as this transaction
\* sees.  (A token that is not leaves the tables alone.)
RegisterReads(r, h, t) ==
  /\ work[r] = Idle /\ Usable(t)
  /\ work' = [work EXCEPT ![r] = [op |-> "register", token |-> t, host |-> h]]
  /\ contended' = IF Registering(t) = {} THEN contended ELSE contended \cup {t}
  /\ UNCHANGED <<token, usedBy, status, beat, home, with>>

\* Mutated form: the token is not marked as used.
RegisterWritesOnly(r, a) ==
  /\ work[r].op = "register" /\ status[a] = "none"
  /\ status' = [status EXCEPT ![a] = "enrolled"]
  /\ home' = [home EXCEPT ![a] = work[r].host]
  /\ with' = [with EXCEPT ![a] = work[r].token]
  /\ work' = [work EXCEPT ![r] = Idle]
  /\ UNCHANGED <<token, beat, usedBy, contended>>

\* register_agent, its INSERT, its UPDATE of the token (by hash alone) and the
\* commit.
RegisterWrites(r, a) ==
  /\ work[r].op = "register" /\ status[a] = "none"
  /\ status' = [status EXCEPT ![a] = "enrolled"]
  /\ home' = [home EXCEPT ![a] = work[r].host]
  /\ with' = [with EXCEPT ![a] = work[r].token]
  /\ usedBy' = [usedBy EXCEPT ![work[r].token] = a]
  /\ work' = [work EXCEPT ![r] = Idle]
  /\ UNCHANGED <<token, beat, contended>>

\* The database fails during a request: its transaction is rolled back.
DatabaseFails(r) ==
  /\ work[r] # Idle
  /\ work' = [work EXCEPT ![r] = Idle]
  /\ UNCHANGED <<token, usedBy, status, beat, home, with, contended>>
-----------------------------------------------------------------------------
(***************************************************************************)
(* Heartbeats and the administrators' requests.                            *)
(***************************************************************************)
\* require_agent: the key is known and its agent not revoked.
Authentic(a) == status[a] \notin {"none", "revoked"}

HeartbeatReads(r, a) ==
  /\ work[r] = Idle /\ Authentic(a)
  /\ work' = [work EXCEPT ![r] = [op |-> "heartbeat", agent |-> a]]
  /\ UNCHANGED <<token, usedBy, status, beat, home, with, contended>>

\* Mutated form: the UPDATE without AND status != 'revoked'.
Flips(a) == status[a] # "none"

\* Mutated form: only agents that are not offline become active.
FlipsOnline(a) == status[a] \in {"enrolled", "active"}

\* The WHERE clause of update_agent_heartbeat.
Updates(a) == status[a] # "revoked"

\* update_agent_heartbeat
HeartbeatWrites(r) ==
  /\ work[r].op = "heartbeat"
  /\ LET a == work[r].agent
     IN  IF Updates(a)
           THEN /\ status' = [status EXCEPT ![a] = "active"]
                /\ beat' = [beat EXCEPT ![a] = "recent"]
           ELSE UNCHANGED <<status, beat>>
  /\ work' = [work EXCEPT ![r] = Idle]
  /\ UNCHANGED <<token, usedBy, home, with, contended>>

\* PATCH /agents/{agent_id} with a status; DELETE does so with "revoked".
Patch(a, s) ==
  /\ Serving /\ a \in Enrolled
  /\ status' = [status EXCEPT ![a] = s]
  /\ UNCHANGED <<token, usedBy, beat, home, with, work, contended>>

\* The last heartbeat gets older than agent_heartbeat_timeout_minutes.
BeatAges(a) ==
  /\ beat[a] = "recent"
  /\ beat' = [beat EXCEPT ![a] = "old"]
  /\ UNCHANGED <<token, usedBy, status, home, with, work, contended>>

\* The agents whose heartbeat is older than the timeout: with a shorter one
\* than the configured also some recent ones, with a longer one not all that
\* are old.
Overdue(S) ==
  /\ \A a \in S : beat[a] # "never"
  /\ (\E a \in S : beat[a] = "recent") => {a \in Agent : beat[a] = "old"} \subseteq S

\* mark_stale_agents_offline, called by POST /admin/agents/mark-stale alone.
MarkStale(S) ==
  /\ Serving /\ Overdue(S)
  /\ status' = [a \in Agent |->
                  IF a \in S /\ status[a] \in {"enrolled", "active"}
                    THEN "offline" ELSE status[a]]
  /\ UNCHANGED <<token, usedBy, beat, home, with, work, contended>>

\* The administrators and the clock, whatever the clients do.
Administration ==
  \/ \E t \in Token : IssueToken(t) \/ TokenExpires(t)
  \/ \E a \in Agent, s \in AgentStatus : Patch(a, s)
  \/ \E a \in Agent : BeatAges(a)
  \/ \E S \in SUBSET Agent : MarkStale(S)

RegistryNext ==
  \/ \E r \in Replica, h \in Host, t \in Token : RegisterReads(r, h, t)
  \/ \E r \in Replica, a \in Agent : RegisterWrites(r, a) \/ HeartbeatReads(r, a)
  \/ \E r \in Replica : HeartbeatWrites(r) \/ DatabaseFails(r)
  \/ Administration

RegistrySpec == RegistryInit /\ [][RegistryNext]_registry
-----------------------------------------------------------------------------
(***************************************************************************)
(* Properties.                                                             *)
(***************************************************************************)
\* The rows and the requests at work have their types; an agent exists with a
\* host and a token or not at all.
RegistryTypeOK ==
  /\ token \in [Token -> {"none", "valid", "expired"}]
  /\ usedBy \in [Token -> Agent \cup {None}]
  /\ status \in [Agent -> AgentStatus \cup {"none"}]
  /\ beat \in [Agent -> {"never", "recent", "old"}]
  /\ home \in [Agent -> Host \cup {None}] /\ with \in [Agent -> Token \cup {None}]
  /\ work \in [Replica -> {Idle} \cup Registration \cup Report]
  /\ \A a \in Agent : /\ status[a] = "none" <=> home[a] = None
                      /\ status[a] = "none" <=> with[a] = None
  /\ contended \subseteq Token

\* An agent's token is marked as used, and by an agent enrolled with it: the
\* INSERT and the UPDATE of register_agent come and go together.
TokensAccounted ==
  /\ \A a \in Enrolled : with[a] # None /\ usedBy[with[a]] # None
  /\ \A t \in Token : usedBy[t] # None => with[usedBy[t]] = t

\* "one-time enrollment token" (db/agents.py:54): whatever is retried, late or
\* lost, two agents are enrolled with one token only if their transactions
\* overlapped, the SELECT of each before the commit of the other.  That two
\* overlap is possible with two replicas, since the SELECT locks nothing.
TokenOnceUnlessContended ==
  \A a, b \in Enrolled : with[a] = with[b] => a = b \/ with[a] \in contended

\* Whatever overlaps with it, only an administrator takes a revocation back: a
\* heartbeat authenticated before the revocation and the stale marker do not.
RevocationSticks ==
  [][\A a \in Agent : status[a] = "revoked" /\ status'[a] # "revoked"
                        => \E s \in AgentStatus : Patch(a, s)]_registry
=============================================================================
