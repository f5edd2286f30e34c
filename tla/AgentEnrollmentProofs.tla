----------------------- MODULE AgentEnrollmentProofs -----------------------
(***************************************************************************)
(* First what AgentRegistry guarantees for every number of tokens, agents, *)
(* hosts and replicas.  Everything follows from one inductive invariant:   *)
(* the types, the accounting of tokens, and that agents whose heartbeat is *)
(* at work exist.  With a registration that overlaps with no other of its  *)
(* token, the token is unused until the commit, which makes it one-time.   *)
(*                                                                         *)
(* Then what the hosts and the register guarantee together: every          *)
(* behaviour of the composition is one of the register, and a host never   *)
(* holds a key the register does not have for it.                          *)
(***************************************************************************)
EXTENDS AgentEnrollment, TLAPS

\* A heartbeat at work is of an agent that exists: rows are never deleted.
ReportsEnrolled ==
  \A r \in Replica : work[r].op = "heartbeat" => work[r].agent \in Enrolled

RegistryInv == RegistryTypeOK /\ TokensAccounted /\ ReportsEnrolled

LEMMA RegistryStarts == RegistryInit => RegistryInv
BY RegistryAssumption
   DEF RegistryInit, RegistryInv, RegistryTypeOK, TokensAccounted,
       ReportsEnrolled, Enrolled, Idle, AgentStatus

\* What a request at work is, by its op.
LEMMA WorkIs ==
  ASSUME RegistryTypeOK, NEW r \in Replica
  PROVE  /\ work[r].op = "register" => work[r] \in Registration
         /\ work[r].op = "heartbeat" => work[r] \in Report
BY DEF RegistryTypeOK, Idle, Registration, Report

\* Steps that only change tokens' validity, statuses of existing agents,
\* heartbeats or requests at work keep the invariant.
LEMMA AccountingKept ==
  ASSUME RegistryInv, RegistryTypeOK',
         UNCHANGED <<usedBy, with>>, Enrolled' = Enrolled,
         \A r \in Replica : work'[r].op = "heartbeat" =>
            work'[r] = work[r] \/ work'[r].agent \in Enrolled
  PROVE  RegistryInv'
BY DEF RegistryInv, TokensAccounted, ReportsEnrolled

LEMMA RegistrySteps == RegistryInv /\ [RegistryNext]_registry => RegistryInv'
<1> SUFFICES ASSUME RegistryInv, [RegistryNext]_registry PROVE RegistryInv'
  OBVIOUS
<1> USE RegistryAssumption
<1>t. RegistryTypeOK
  BY DEF RegistryInv
<1>1. ASSUME NEW r \in Replica, NEW h \in Host, NEW t \in Token,
             RegisterReads(r, h, t)
      PROVE  RegistryInv'
  <2>1. [op |-> "register", token |-> t, host |-> h] \in Registration
    BY DEF Registration
  <2>2. RegistryTypeOK'
    BY <1>1, <1>t, <2>1 DEF RegisterReads, RegistryTypeOK
  <2>3. \A q \in Replica : work'[q].op = "heartbeat" => work'[q] = work[q]
    BY <1>1, <1>t DEF RegisterReads, RegistryTypeOK
  <2> QED
    BY <1>1, <2>2, <2>3, AccountingKept DEF RegisterReads, Enrolled
<1>2. ASSUME NEW r \in Replica, NEW a \in Agent, RegisterWrites(r, a)
      PROVE  RegistryInv'
  <2>1. work[r] \in Registration
    BY <1>2, <1>t, WorkIs DEF RegisterWrites
  <2>2. work[r].token \in Token /\ work[r].host \in Host
    BY <2>1 DEF Registration
  <2>3. RegistryTypeOK'
    BY <1>2, <1>t, <2>2 DEF RegisterWrites, RegistryTypeOK, AgentStatus
  <2>4. with' = [with EXCEPT ![a] = work[r].token]
        /\ usedBy' = [usedBy EXCEPT ![work[r].token] = a]
        /\ status' = [status EXCEPT ![a] = "enrolled"]
    BY <1>2 DEF RegisterWrites
  <2>5. TokensAccounted'
    <3>1. ASSUME NEW b \in Enrolled'
          PROVE  with'[b] # None /\ usedBy'[with'[b]] # None
      <4>1. CASE b = a
        BY <4>1, <2>2, <2>4, <1>t DEF RegistryTypeOK
      <4>2. CASE b # a
        BY <3>1, <4>2, <2>2, <2>4, <1>t
           DEF RegistryInv, TokensAccounted, Enrolled, RegistryTypeOK
      <4> QED
        BY <4>1, <4>2
    <3>2. ASSUME NEW t \in Token, usedBy'[t] # None
          PROVE  with'[usedBy'[t]] = t
      <4>1. CASE t = work[r].token
        BY <4>1, <2>2, <2>4, <1>t DEF RegistryTypeOK
      <4>2. CASE t # work[r].token
        <5>1. usedBy'[t] = usedBy[t] /\ usedBy[t] \in Agent
          BY <4>2, <2>2, <2>4, <3>2, <1>t DEF RegistryTypeOK
        <5>2. with[usedBy[t]] = t
          BY <5>1 , <3>2 DEF RegistryInv, TokensAccounted
        <5>3. usedBy[t] # a
          BY <5>2, <1>2, <1>t DEF RegisterWrites, RegistryTypeOK
        <5> QED
          BY <5>1, <5>2, <5>3, <2>4, <1>t DEF RegistryTypeOK
      <4> QED
        BY <4>1, <4>2
    <3> QED
      BY <3>1, <3>2 DEF TokensAccounted
  <2>6. ReportsEnrolled'
    BY <1>2, <1>t, <2>4
       DEF RegisterWrites, RegistryInv, RegistryTypeOK, ReportsEnrolled,
           Enrolled, Idle
  <2> QED
    BY <2>3, <2>5, <2>6 DEF RegistryInv
<1>3. ASSUME NEW r \in Replica, NEW a \in Agent, HeartbeatReads(r, a)
      PROVE  RegistryInv'
  <2>1. [op |-> "heartbeat", agent |-> a] \in Report
    BY DEF Report
  <2>2. RegistryTypeOK'
    BY <1>3, <1>t, <2>1 DEF HeartbeatReads, RegistryTypeOK
  <2>3. a \in Enrolled
    BY <1>3 DEF HeartbeatReads, Authentic, Enrolled
  <2>4. \A q \in Replica : work'[q] = work[q] \/ work'[q].agent = a
    BY <1>3, <1>t DEF HeartbeatReads, RegistryTypeOK
  <2> QED
    BY <1>3, <2>2, <2>3, <2>4, AccountingKept DEF HeartbeatReads, Enrolled
<1>4. ASSUME NEW r \in Replica, HeartbeatWrites(r) PROVE RegistryInv'
  <2>1. work[r].agent \in Agent /\ work[r].agent \in Enrolled
    BY <1>4, <1>t, WorkIs
       DEF HeartbeatWrites, Report, RegistryInv, ReportsEnrolled
  <2>2. RegistryTypeOK' /\ Enrolled' = Enrolled
    BY <1>4, <1>t, <2>1
       DEF HeartbeatWrites, RegistryTypeOK, Enrolled, AgentStatus
  <2>3. \A q \in Replica : work'[q].op = "heartbeat" => work'[q] = work[q]
    BY <1>4, <1>t DEF HeartbeatWrites, RegistryTypeOK, Idle
  <2> QED
    BY <1>4, <2>2, <2>3, AccountingKept DEF HeartbeatWrites
<1>5. ASSUME NEW r \in Replica, DatabaseFails(r) PROVE RegistryInv'
  <2>1. RegistryTypeOK'
    BY <1>5, <1>t DEF DatabaseFails, RegistryTypeOK
  <2>2. \A q \in Replica : work'[q].op = "heartbeat" => work'[q] = work[q]
    BY <1>5, <1>t DEF DatabaseFails, RegistryTypeOK, Idle
  <2> QED
    BY <1>5, <2>1, <2>2, AccountingKept DEF DatabaseFails, Enrolled
<1>6. CASE Administration
  <2>1. ASSUME NEW t \in Token, IssueToken(t) \/ TokenExpires(t)
        PROVE  RegistryInv'
    <3>1. RegistryTypeOK'
      BY <2>1, <1>t DEF IssueToken, TokenExpires, RegistryTypeOK
    <3> QED
      BY <2>1, <3>1, AccountingKept DEF IssueToken, TokenExpires, Enrolled
  <2>2. ASSUME NEW a \in Agent, NEW s \in AgentStatus, Patch(a, s)
        PROVE  RegistryInv'
    <3>1. RegistryTypeOK' /\ Enrolled' = Enrolled
      BY <2>2, <1>t DEF Patch, RegistryTypeOK, Enrolled, AgentStatus
    <3> QED
      BY <2>2, <3>1, AccountingKept DEF Patch
  <2>3. ASSUME NEW a \in Agent, BeatAges(a) PROVE RegistryInv'
    <3>1. RegistryTypeOK'
      BY <2>3, <1>t DEF BeatAges, RegistryTypeOK
    <3> QED
      BY <2>3, <3>1, AccountingKept DEF BeatAges, Enrolled
  <2>4. ASSUME NEW S \in SUBSET Agent, MarkStale(S) PROVE RegistryInv'
    <3>1. RegistryTypeOK' /\ Enrolled' = Enrolled
      BY <2>4, <1>t DEF MarkStale, RegistryTypeOK, Enrolled, AgentStatus
    <3> QED
      BY <2>4, <3>1, AccountingKept DEF MarkStale
  <2> QED
    BY <1>6, <2>1, <2>2, <2>3, <2>4 DEF Administration
<1>7. CASE UNCHANGED registry
  BY <1>7 DEF registry, RegistryInv, RegistryTypeOK, TokensAccounted,
     ReportsEnrolled, Enrolled
<1> QED
  BY <1>1, <1>2, <1>3, <1>4, <1>5, <1>6, <1>7 DEF RegistryNext

\* The register's rows and the requests at work are well typed.
THEOREM RegistryTyped == RegistrySpec => []RegistryTypeOK
<1>1. RegistryInv => RegistryTypeOK
  BY DEF RegistryInv
<1> QED
  BY <1>1, RegistryStarts, RegistrySteps, PTL DEF RegistrySpec

\* Registration and the marking of its token come and go together, whatever
\* replicas and failures interleave.
THEOREM NoAgentUnaccounted == RegistrySpec => []TokensAccounted
<1>1. RegistryInv => TokensAccounted
  BY DEF RegistryInv
<1> QED
  BY <1>1, RegistryStarts, RegistrySteps, PTL DEF RegistrySpec
-----------------------------------------------------------------------------
\* A heartbeat that was authenticated before a revocation, the stale marker
\* and everything else but an administrator's PATCH leave it in place.
THEOREM RevocationHolds == RegistrySpec => RevocationSticks
<1> DEFINE Held == \A a \in Agent : status[a] = "revoked" /\ status'[a] # "revoked"
                                      => \E s \in AgentStatus : Patch(a, s)
<1>1. RegistryTypeOK /\ [RegistryNext]_registry => [Held]_registry
  <2> SUFFICES ASSUME RegistryTypeOK, RegistryNext, NEW a \in Agent,
                      status[a] = "revoked", status'[a] # "revoked"
               PROVE  \E s \in AgentStatus : Patch(a, s)
    OBVIOUS
  <2>1. ASSUME NEW r \in Replica, NEW b \in Agent, RegisterWrites(r, b)
        PROVE  FALSE
    BY <2>1 DEF RegisterWrites, RegistryTypeOK
  <2>2. ASSUME NEW r \in Replica, HeartbeatWrites(r) PROVE FALSE
    <3>1. CASE work[r].agent = a
      BY <2>2, <3>1 DEF HeartbeatWrites, Updates
    <3>2. CASE work[r].agent # a
      BY <2>2, <3>2 DEF HeartbeatWrites, RegistryTypeOK
    <3> QED
      BY <3>1, <3>2
  <2>3. ASSUME NEW b \in Agent, NEW s \in AgentStatus, Patch(b, s)
        PROVE  Patch(a, s)
    <3>1. b = a
      BY <2>3 DEF Patch, RegistryTypeOK
    <3> QED
      BY <2>3, <3>1
  <2>4. ASSUME NEW S \in SUBSET Agent, MarkStale(S) PROVE FALSE
    BY <2>4 DEF MarkStale, RegistryTypeOK
  <2>5. ASSUME UNCHANGED status PROVE FALSE
    BY <2>5
  <2> QED
    BY <2>1, <2>2, <2>3, <2>4, <2>5
       DEF RegistryNext, Administration, RegisterReads, HeartbeatReads,
           DatabaseFails, IssueToken, TokenExpires, BeatAges
<1> QED
  BY <1>1, RegistryTyped, PTL DEF RegistrySpec, RevocationSticks
-----------------------------------------------------------------------------
(***************************************************************************)
(* One-time tokens.                                                        *)
(***************************************************************************)
\* While no two registrations with a token overlap, the one at work has the
\* token to itself and finds it unused when it commits.
AloneInv ==
  /\ RegistryInv
  /\ \A t \in Token \ contended : \A q, r \in Registering(t) : q = r
  /\ \A t \in Token \ contended : Registering(t) # {} => usedBy[t] = None
  /\ \A a \in Enrolled : with[a] \notin contended => usedBy[with[a]] = a

\* Steps that start no registration and enroll nobody.
LEMMA AloneKept ==
  ASSUME AloneInv, RegistryInv', UNCHANGED <<usedBy, with, contended>>,
         Enrolled' = Enrolled,
         \A r \in Replica : work'[r] \in Registration => work'[r] = work[r]
  PROVE  AloneInv'
<1>1. \A t \in Token : Registering(t)' \subseteq Registering(t)
  BY DEF Registering
<1> QED
  BY <1>1 DEF AloneInv

LEMMA AloneSteps == AloneInv /\ [RegistryNext]_registry => AloneInv'
<1> SUFFICES ASSUME AloneInv, [RegistryNext]_registry PROVE AloneInv'
  OBVIOUS
<1> USE RegistryAssumption
<1>i. RegistryInv /\ RegistryTypeOK /\ RegistryInv' /\ RegistryTypeOK'
  BY RegistrySteps DEF AloneInv, RegistryInv
<1>d. \A w \in Registration : w # Idle /\ w.op = "register" /\ w \notin Report
  BY DEF Registration, Report, Idle
<1>1. ASSUME NEW r \in Replica, NEW h \in Host, NEW t \in Token,
             RegisterReads(r, h, t)
      PROVE  AloneInv'
  <2>1. /\ work' = [work EXCEPT ![r] = [op |-> "register", token |-> t, host |-> h]]
        /\ UNCHANGED <<usedBy, with, status>> /\ Enrolled' = Enrolled
        /\ usedBy[t] = None /\ contended \subseteq contended'
    BY <1>1 DEF RegisterReads, Usable, Enrolled
  <2>2. \A u \in Token \ {t} : Registering(u)' \subseteq Registering(u)
    BY <2>1, <1>i DEF Registering, RegistryTypeOK
  <2>3. Registering(t)' \subseteq Registering(t) \cup {r}
    BY <2>1, <1>i DEF Registering, RegistryTypeOK
  <2>4. t \notin contended' => Registering(t) = {}
    BY <1>1 DEF RegisterReads
  <2>5. ASSUME NEW u \in Token \ contended'
        PROVE  /\ \A p, q \in Registering(u)' : p = q
               /\ Registering(u)' # {} => usedBy'[u] = None
    <3>1. CASE u = t
      BY <3>1, <2>1, <2>3, <2>4, <2>5
    <3>2. CASE u # t
      BY <3>2, <2>1, <2>2, <2>5 DEF AloneInv
    <3> QED
      BY <3>1, <3>2
  <2>6. \A a \in Enrolled' : with'[a] \notin contended' => usedBy'[with'[a]] = a
    BY <2>1 DEF AloneInv
  <2> QED
    BY <1>i, <2>5, <2>6 DEF AloneInv
<1>2. ASSUME NEW r \in Replica, NEW a \in Agent, RegisterWrites(r, a)
      PROVE  AloneInv'
  <2> DEFINE t == work[r].token
  <2>1. work[r] \in Registration /\ t \in Token /\ r \in Registering(t)
    BY <1>2, <1>i, WorkIs DEF RegisterWrites, Registration, Registering
  <2>2. /\ work' = [work EXCEPT ![r] = Idle] /\ contended' = contended
        /\ usedBy' = [usedBy EXCEPT ![t] = a] /\ with' = [with EXCEPT ![a] = t]
        /\ status' = [status EXCEPT ![a] = "enrolled"]
    BY <1>2 DEF RegisterWrites
  <2> HIDE DEF t
  <2>3. Idle \notin Registration
    BY <1>d
  <2>4. \A u \in Token : Registering(u)' \subseteq Registering(u) \ {r}
    BY <2>2, <2>3, <1>i DEF Registering, RegistryTypeOK
  <2>5. ASSUME NEW u \in Token \ contended'
        PROVE  /\ \A p, q \in Registering(u)' : p = q
               /\ Registering(u)' # {} => usedBy'[u] = None
    <3>1. CASE u = t
      <4>1. Registering(u)' = {}
        BY <3>1, <2>1, <2>2, <2>4, <2>5 DEF AloneInv
      <4> QED
        BY <4>1
    <3>2. CASE u # t
      <4>1. usedBy'[u] = usedBy[u]
        BY <3>2, <2>1, <2>2, <1>i DEF RegistryTypeOK
      <4> QED
        BY <4>1, <2>2, <2>4, <2>5 DEF AloneInv
    <3> QED
      BY <3>1, <3>2
  <2>6. ASSUME NEW b \in Enrolled', with'[b] \notin contended'
        PROVE  usedBy'[with'[b]] = b
    <3>1. CASE b = a
      BY <3>1, <1>i, <2>1, <2>2 DEF RegistryTypeOK
    <3>2. CASE b # a
      <4>1. b \in Enrolled /\ with'[b] = with[b]
        BY <3>2, <2>6, <2>2, <1>i DEF RegistryTypeOK, Enrolled
      <4>2. usedBy[with[b]] = b /\ b # None /\ with[b] \in Token
        BY <4>1, <2>2, <2>6, <1>i
           DEF AloneInv, RegistryInv, TokensAccounted, Enrolled, RegistryTypeOK
      <4>3. with[b] # t
        BY <4>1, <4>2, <2>1, <2>2, <2>6 DEF AloneInv
      <4> QED
        BY <4>1, <4>2, <4>3, <2>1, <2>2, <1>i DEF RegistryTypeOK
    <3> QED
      BY <3>1, <3>2
  <2> QED
    BY <1>i, <2>5, <2>6 DEF AloneInv
<1>3. ASSUME NEW r \in Replica, NEW a \in Agent, HeartbeatReads(r, a)
      PROVE  AloneInv'
  <2>1. \A q \in Replica : work'[q] \in Registration => work'[q] = work[q]
    <3>1. [op |-> "heartbeat", agent |-> a] \notin Registration
      BY DEF Registration
    <3> QED
      BY <1>3, <1>i, <3>1 DEF HeartbeatReads, RegistryTypeOK
  <2> QED
    BY <1>3, <1>i, <2>1, AloneKept DEF HeartbeatReads, Enrolled
<1>4. ASSUME NEW r \in Replica, HeartbeatWrites(r) \/ DatabaseFails(r)
      PROVE  AloneInv'
  <2>1. work' = [work EXCEPT ![r] = Idle] /\ UNCHANGED <<usedBy, with, contended>>
    BY <1>4 DEF HeartbeatWrites, DatabaseFails
  <2>2. work[r].op = "heartbeat" => work[r].agent \in Enrolled
    BY <1>i DEF RegistryInv, ReportsEnrolled
  <2>3. Enrolled' = Enrolled
    <3>1. CASE HeartbeatWrites(r)
      BY <3>1, <1>i, <2>2 DEF HeartbeatWrites, RegistryTypeOK, Enrolled
    <3>2. CASE DatabaseFails(r)
      BY <3>2 DEF DatabaseFails, Enrolled
    <3> QED
      BY <1>4, <3>1, <3>2
  <2>4. \A q \in Replica : work'[q] \in Registration => work'[q] = work[q]
    BY <2>1, <1>d, <1>i DEF RegistryTypeOK
  <2> QED
    BY <1>i, <2>1, <2>3, <2>4, AloneKept
<1>5. CASE Administration
  <2>1. UNCHANGED <<usedBy, with, work, contended>>
    BY <1>5 DEF Administration, IssueToken, TokenExpires, Patch, BeatAges, MarkStale
  <2>2. Enrolled' = Enrolled
    BY <1>5, <1>i DEF Administration, IssueToken, TokenExpires, Patch, BeatAges,
       MarkStale, Enrolled, RegistryTypeOK, AgentStatus
  <2> QED
    BY <1>i, <2>1, <2>2, AloneKept
<1>6. CASE UNCHANGED registry
  BY <1>6, <1>i, AloneKept DEF registry, Enrolled
<1> QED
  BY <1>1, <1>2, <1>3, <1>4, <1>5, <1>6 DEF RegistryNext

\* For any number of replicas, hosts and retries: two agents of one token were
\* enrolled by transactions that overlapped.
THEOREM TokenEnrollsOnce == RegistrySpec => []TokenOnceUnlessContended
<1>1. RegistryInit => AloneInv
  <2>1. ASSUME RegistryInit
        PROVE  AloneInv
    <3>1. \A t : Registering(t) = {}
      BY <2>1 DEF RegistryInit, Registering, Registration, Idle
    <3>2. Enrolled = {}
      BY <2>1 DEF RegistryInit, Enrolled
    <3> QED
      BY <2>1, <3>1, <3>2, RegistryStarts DEF AloneInv
  <2> QED
    BY <2>1
<1>2. AloneInv /\ [RegistryNext]_registry => AloneInv'
  BY AloneSteps
<1>3. AloneInv => TokenOnceUnlessContended
  BY DEF AloneInv, TokenOnceUnlessContended
<1> QED
  BY <1>1, <1>2, <1>3, PTL DEF RegistrySpec
-----------------------------------------------------------------------------
\* Whatever the hosts, the network and the replicas do is a step of the
\* register, or leaves it alone.
LEMMA EnrollmentStepsRegistry ==
  ASSUME TypeOK, [Next]_vars PROVE [RegistryNext]_registry
<1>t. RegistryTypeOK
  BY DEF TypeOK
<1>1. ASSUME NEW r \in Replica, NEW h \in Host, NEW t \in Token,
             RegisterReads(r, h, t)
      PROVE  RegistryNext
  BY <1>1 DEF RegistryNext
<1>2. ASSUME NEW r \in Replica, NEW a \in Agent,
             RegisterWrites(r, a) \/ HeartbeatReads(r, a)
      PROVE  RegistryNext
  BY <1>2 DEF RegistryNext
<1>3. ASSUME NEW r \in Replica, HeartbeatWrites(r) \/ DatabaseFails(r)
      PROVE  RegistryNext
  BY <1>3 DEF RegistryNext
<1>4. CASE Operate
  BY <1>4 DEF Operate, Enroll, RegistryNext
<1>5. CASE Work
  <2>1. ASSUME NEW h \in Host, Beat(h) PROVE RegistryNext
    <3>1. PICK r \in Replica : Heartbeat(r, h)
      BY <2>1 DEF Beat
    <3>2. svc[h] \in Agent
      BY <3>1 DEF Heartbeat, TypeOK
    <3> QED
      BY <3>1, <3>2, <1>2 DEF Heartbeat
  <2>2. ASSUME NEW h \in Host, NEW r \in Replica, RequestArrives(r, h)
        PROVE  RegistryNext
    <3>1. asked[h] \in Token
      BY <2>2 DEF RequestArrives, TypeOK
    <3> QED
      BY <2>2, <3>1, <1>1 DEF RequestArrives
  <2>3. ASSUME NEW r \in Replica, Serve(r) PROVE RegistryNext
    BY <2>3, <1>2, <1>3
       DEF Serve, HeartbeatServed, Registered, RegisteredUnheard
  <2>4. ASSUME NEW h \in Host,
               Rejected(h) \/ Store(h) \/ ServiceStarts(h) \/ HeartbeatRefused(h)
        PROVE  UNCHANGED registry
    BY <2>4 DEF Rejected, Store, ClearsState, SavesState, ServiceStarts,
       HeartbeatRefused
  <2> QED
    BY <1>5, <2>1, <2>2, <2>3, <2>4 DEF Work, Ask
<1>6. CASE LateArrival
  BY <1>6, <1>1 DEF LateArrival, LateRejected, LateRequest
<1>7. CASE Mishap
  BY <1>7, <1>2, <1>3
     DEF Mishap, GivesUp, EnrollDies, StateLost, ServiceStartsAlone,
         ServiceStops, RegisteredUnheard, RegistrationFails, HeartbeatFails
<1>8. CASE UNCHANGED vars
  BY <1>8 DEF vars
<1> QED
  BY <1>4, <1>5, <1>6, <1>7, <1>8 DEF Next

\* Rows are never deleted and an agent's host never changes, so a key that is
\* known stays known.
LEMMA RowsStay ==
  ASSUME RegistryInv, [RegistryNext]_registry, NEW a \in Agent, status[a] # "none"
  PROVE  status'[a] # "none" /\ home'[a] = home[a]
<1>t. RegistryTypeOK
  BY DEF RegistryInv
<1>1. ASSUME NEW r \in Replica, NEW b \in Agent, RegisterWrites(r, b)
      PROVE  status'[a] # "none" /\ home'[a] = home[a]
  BY <1>1, <1>t DEF RegisterWrites, RegistryTypeOK
<1>2. ASSUME NEW r \in Replica, HeartbeatWrites(r)
      PROVE  status'[a] # "none" /\ home'[a] = home[a]
  BY <1>2, <1>t DEF HeartbeatWrites, RegistryTypeOK
<1>3. ASSUME NEW b \in Agent, NEW s \in AgentStatus, Patch(b, s)
      PROVE  status'[a] # "none" /\ home'[a] = home[a]
  BY <1>3, <1>t DEF Patch, RegistryTypeOK, AgentStatus
<1>4. ASSUME NEW S \in SUBSET Agent, MarkStale(S)
      PROVE  status'[a] # "none" /\ home'[a] = home[a]
  BY <1>4, <1>t DEF MarkStale, RegistryTypeOK
<1>5. ASSUME UNCHANGED <<status, home>>
      PROVE  status'[a] # "none" /\ home'[a] = home[a]
  BY <1>5
<1> QED
  BY <1>1, <1>2, <1>3, <1>4, <1>5
     DEF RegistryNext, Administration, RegisterReads, HeartbeatReads, registry,
         DatabaseFails, IssueToken, TokenExpires, BeatAges
-----------------------------------------------------------------------------
EnrollmentInv == RegistryInv /\ TypeOK /\ KeysKnown

LEMMA EnrollmentStarts == Init => EnrollmentInv
BY RegistryStarts, RegistryAssumption
   DEF Init, EnrollmentInv, RegistryInv, TypeOK, KeysKnown

\* The keys a step hands on are known, if those it adds are.
LEMMA KeysStay ==
  ASSUME EnrollmentInv, [Next]_vars, TypeOK',
         \A h \in Host : \A a \in {file'[h], svc'[h], got'[h]} \ {None} :
            \/ a \in {file[h], svc[h], got[h]}
            \/ status'[a] # "none" /\ home'[a] = h
  PROVE  EnrollmentInv'
<1>1. [RegistryNext]_registry /\ RegistryInv
  BY EnrollmentStepsRegistry DEF EnrollmentInv
<1>2. RegistryInv'
  BY <1>1, RegistrySteps
<1>3. KeysKnown'
  <2> SUFFICES ASSUME NEW h \in Host,
                      NEW a \in {file'[h], svc'[h], got'[h]} \ {None}
               PROVE  status'[a] # "none" /\ home'[a] = h
    BY DEF KeysKnown
  <2>1. CASE a \in {file[h], svc[h], got[h]}
    <3>1. a \in Agent /\ status[a] # "none" /\ home[a] = h
      BY <2>1 DEF EnrollmentInv, KeysKnown, TypeOK
    <3> QED
      BY <1>1, <3>1, RowsStay
  <2> QED
    BY <2>1
<1> QED
  BY <1>2, <1>3 DEF EnrollmentInv

LEMMA EnrollmentSteps == EnrollmentInv /\ [Next]_vars => EnrollmentInv'
<1> SUFFICES ASSUME EnrollmentInv, [Next]_vars PROVE EnrollmentInv'
  OBVIOUS
<1> USE RegistryAssumption
<1>t. TypeOK /\ RegistryInv /\ RegistryTypeOK
  BY DEF EnrollmentInv, RegistryInv
<1>r. [RegistryNext]_registry
  BY <1>t, EnrollmentStepsRegistry
<1>n. RegistryInv' /\ RegistryTypeOK'
  BY <1>t, <1>r, RegistrySteps DEF RegistryInv
\* Steps that leave the enroll processes and the requests at work alone.
<1>1. ASSUME UNCHANGED enrolling,
             \A r \in Replica : work'[r] # work[r] => work[r] \notin Registration,
             file' \in [Host -> Agent \cup {None}],
             svc' \in [Host -> Agent \cup {None}],
             \A h \in Host : {file'[h], svc'[h]} \subseteq {file[h], svc[h], None}
      PROVE  EnrollmentInv'
  <2>1. TypeOK'
    BY <1>1, <1>t, <1>n DEF TypeOK, enrolling
  <2> QED
    BY <1>1, <2>1, KeysStay DEF enrolling
\* Steps of one enroll process, by what it leaves behind.
<1>2. ASSUME NEW h \in Host, Ends(h), UNCHANGED <<registry, file, svc>>,
             open' = open \ ServingHost(h), late' \subseteq Host \X Token
      PROVE  EnrollmentInv'
  <2>1. TypeOK'
    BY <1>2, <1>t, <1>n DEF TypeOK, Ends, ServingHost, registry
  <2> QED
    BY <1>2, <2>1, <1>t, KeysStay DEF Ends, TypeOK
<1>3. ASSUME NEW h \in Host, pc[h] # "served" PROVE ServingHost(h) = {}
  BY <1>3, <1>t DEF ServingHost, TypeOK
<1>4. CASE Operate
  <2>1. ASSUME NEW h \in Host, NEW t \in Token, NEW o \in BOOLEAN, Enroll(h, t, o)
        PROVE  EnrollmentInv'
    <3>1. TypeOK'
      BY <2>1, <1>t, <1>n DEF Enroll, TypeOK, registry
    <3> QED
      BY <2>1, <3>1, KeysStay DEF Enroll
  <2>2. CASE Administration /\ UNCHANGED <<file, svc, enrolling>>
    <3>1. work' = work
      BY <2>2 DEF Administration, IssueToken, TokenExpires, Patch, BeatAges, MarkStale
    <3> QED
      BY <2>2, <3>1, <1>1, <1>t DEF TypeOK
  <2> QED
    BY <1>4, <2>1, <2>2 DEF Operate
<1>5. ASSUME NEW r \in Replica, NEW h \in Host, RequestArrives(r, h)
      PROVE  EnrollmentInv'
  <2>1. work' = [work EXCEPT ![r] = [op |-> "register", token |-> asked[h], host |-> h]]
        /\ work[r] = Idle
    BY <1>5 DEF RequestArrives, RegisterReads
  <2>2. r \notin open /\ asked[h] \in Token
    BY <1>5, <2>1, <1>t DEF TypeOK, RequestArrives, Idle, Registration
  <2>3. [op |-> "register", token |-> asked[h], host |-> h] \in Registration
    BY <2>2 DEF Registration
  <2>4. pc' = [pc EXCEPT ![h] = "served"] /\ open' = open \cup {r} /\ pc[h] = "sent"
        /\ UNCHANGED <<file, svc, asked, got, late>>
    BY <1>5 DEF RequestArrives
  <2>5. \A q \in open' : /\ work'[q] \in Registration
                         /\ pc'[work'[q].host] = "served"
                         /\ asked'[work'[q].host] = work'[q].token
    BY <2>1, <2>2, <2>3, <2>4, <1>t DEF TypeOK, RegistryTypeOK, Registration
  <2>6. \A p, q \in open' : work'[p].host = work'[q].host => p = q
    BY <2>1, <2>2, <2>4, <1>t DEF TypeOK, RegistryTypeOK
  <2>7. TypeOK'
    BY <2>4, <2>5, <2>6, <1>t, <1>n DEF TypeOK
  <2> QED
    BY <2>4, <2>7, KeysStay
<1>6. ASSUME NEW r \in Replica, NEW h \in Host, NEW t \in Token, LateRequest(r, h, t)
      PROVE  EnrollmentInv'
  <2>1. work[r] = Idle /\ \A q \in Replica : q # r => work'[q] = work[q]
    BY <1>6, <1>t DEF LateRequest, RegisterReads, RegistryTypeOK
  <2>2. r \notin open
    BY <2>1, <1>t DEF TypeOK, Idle, Registration
  <2>3. TypeOK'
    BY <1>6, <2>1, <2>2, <1>t, <1>n DEF TypeOK, LateRequest
  <2> QED
    BY <1>6, <2>3, KeysStay DEF LateRequest
<1>7. ASSUME NEW h \in Host, Rejected(h) PROVE EnrollmentInv'
  <2>1. ServingHost(h) = {}
    BY <1>3, <1>7 DEF Rejected
  <2> QED
    BY <1>2, <1>7, <2>1, <1>t DEF Rejected, TypeOK
<1>8. ASSUME NEW h \in Host, NEW t \in Token, LateRejected(h, t) PROVE EnrollmentInv'
  <2>1. TypeOK'
    BY <1>8, <1>t, <1>n DEF LateRejected, TypeOK, registry
  <2> QED
    BY <1>8, <2>1, KeysStay DEF LateRejected
\* The replica r finishes a registration, one way or another.
<1>9. ASSUME NEW r \in Replica, work[r] \in Registration,
             \A q \in Replica : q # r => work'[q] = work[q],
             NEW q \in open \ {r}
      PROVE  /\ work'[q] = work[q] /\ work'[q] \in Registration
             /\ pc[work'[q].host] = "served"
             /\ asked[work'[q].host] = work'[q].token
             /\ r \in open => work'[q].host # work[r].host
  BY <1>9, <1>t DEF TypeOK
<1>10. ASSUME NEW r \in Replica, NEW a \in Agent, RegisteredUnheard(r, a)
       PROVE  EnrollmentInv'
  <2>1. \A q \in Replica : q # r => work'[q] = work[q]
    BY <1>10, <1>t DEF RegisteredUnheard, RegisterWrites, RegistryTypeOK
  <2>2. TypeOK'
    BY <1>10, <2>1, <1>t, <1>n DEF RegisteredUnheard, TypeOK
  <2> QED
    BY <1>10, <2>2, KeysStay DEF RegisteredUnheard
<1>11. ASSUME NEW r \in Replica, NEW a \in Agent, Registered(r, a)
       PROVE  EnrollmentInv'
  <2> DEFINE h == work[r].host
  <2>1. /\ work[r] \in Registration /\ h \in Host /\ r \in open
        /\ \A q \in Replica : q # r => work'[q] = work[q]
        /\ pc[h] = "served"
    BY <1>11, <1>t, WorkIs
       DEF Registered, RegisterWrites, RegistryTypeOK, Registration, TypeOK
  <2>2. /\ got' = [got EXCEPT ![h] = a]
        /\ pc' = [pc EXCEPT ![h] = IF file[h] = None THEN "save" ELSE "clear"]
        /\ open' = open \ {r}
        /\ UNCHANGED <<file, svc, asked, late>>
    BY <1>11 DEF Registered
  <2>3. status'[a] # "none" /\ home'[a] = h
    BY <1>11, <1>t DEF Registered, RegisterWrites, RegistryTypeOK
  <2>4. \A q \in open' : /\ work'[q] \in Registration
                         /\ pc'[work'[q].host] = "served"
                         /\ asked'[work'[q].host] = work'[q].token
    BY <2>1, <2>2, <1>9, <1>t DEF TypeOK, Registration
  <2>5. \A p, q \in open' : work'[p].host = work'[q].host => p = q
    BY <2>1, <2>2, <1>t DEF TypeOK
  <2>6. \A g \in Host : /\ pc'[g] = "idle" <=> asked'[g] = None
                        /\ pc'[g] \in {"clear", "save"} <=> got'[g] # None
    BY <2>1, <2>2, <1>t DEF TypeOK
  <2>7. TypeOK'
    BY <2>1, <2>2, <2>4, <2>5, <2>6, <1>t, <1>n DEF TypeOK
  <2>8. \A g \in Host : \A b \in {file'[g], svc'[g], got'[g]} \ {None} :
          \/ b \in {file[g], svc[g], got[g]}
          \/ status'[b] # "none" /\ home'[b] = g
    BY <2>1, <2>2, <2>3, <1>t DEF TypeOK
  <2> QED
    BY <2>7, <2>8, KeysStay
<1>12. ASSUME NEW r \in Replica, RegistrationFails(r) PROVE EnrollmentInv'
  <2> DEFINE h == work[r].host
  <2>1. /\ work[r] \in Registration /\ h \in Host
        /\ \A q \in Replica : q # r => work'[q] = work[q]
    BY <1>12, <1>t
       DEF RegistrationFails, DatabaseFails, RegistryTypeOK, Registration
  <2>2. open' = open \ {r} /\ UNCHANGED <<file, svc, late>>
    BY <1>12 DEF RegistrationFails
  <2>3. CASE r \in open
    <3>1. Ends(h)
      BY <1>12, <2>3 DEF RegistrationFails
    <3>2. \A q \in open' : /\ work'[q] \in Registration
                           /\ pc'[work'[q].host] = "served"
                           /\ asked'[work'[q].host] = work'[q].token
      BY <2>1, <2>2, <2>3, <3>1, <1>9, <1>t DEF TypeOK, Registration, Ends
    <3>3. \A p, q \in open' : work'[p].host = work'[q].host => p = q
      BY <2>1, <2>2, <1>t DEF TypeOK
    <3>4. TypeOK'
      BY <2>1, <2>2, <3>1, <3>2, <3>3, <1>t, <1>n DEF TypeOK, Ends
    <3> QED
      BY <2>1, <2>2, <3>1, <3>4, <1>t, KeysStay DEF Ends, TypeOK
  <2>4. CASE r \notin open
    <3>1. UNCHANGED <<pc, asked, got>>
      BY <1>12, <2>4 DEF RegistrationFails
    <3>2. TypeOK'
      BY <2>1, <2>2, <2>4, <3>1, <1>t, <1>n DEF TypeOK
    <3> QED
      BY <2>2, <3>1, <3>2, KeysStay
  <2> QED
    BY <2>3, <2>4
<1>13. ASSUME NEW h \in Host, GivesUp(h) PROVE EnrollmentInv'
  <2>1. asked[h] \in Token
    BY <1>13, <1>t DEF GivesUp, TypeOK
  <2>2. late' \subseteq Host \X Token
    BY <1>13, <2>1, <1>t DEF GivesUp, TypeOK
  <2> QED
    BY <1>2, <1>13, <2>2 DEF GivesUp
<1>14. ASSUME NEW h \in Host, EnrollDies(h) PROVE EnrollmentInv'
  <2>1. ServingHost(h) = {}
    BY <1>3, <1>14 DEF EnrollDies
  <2> QED
    BY <1>2, <1>14, <2>1, <1>t DEF EnrollDies, TypeOK
<1>15. ASSUME NEW h \in Host, Store(h) PROVE EnrollmentInv'
  <2>1. CASE ClearsState(h)
    <3>1. TypeOK'
      BY <2>1, <1>t, <1>n DEF ClearsState, TypeOK, registry
    <3> QED
      BY <2>1, <3>1, <1>t, KeysStay DEF ClearsState, TypeOK
  <2>2. CASE SavesState(h)
    <3>1. TypeOK'
      BY <2>2, <1>t, <1>n DEF SavesState, TypeOK, registry, Ends
    <3> QED
      BY <2>2, <3>1, <1>t, KeysStay DEF SavesState, TypeOK, Ends
  <2> QED
    BY <1>15, <2>1, <2>2 DEF Store
\* The service starts or stops, or the state file is lost.
<1>16. ASSUME NEW h \in Host,
              \/ ServiceStarts(h) \/ ServiceStartsAlone(h) \/ ServiceStops(h)
              \/ StateLost(h) \/ HeartbeatRefused(h)
       PROVE  EnrollmentInv'
  <2>1. /\ UNCHANGED <<work, enrolling>>
        /\ \/ svc' = svc /\ file' = [file EXCEPT ![h] = None]
           \/ file' = file /\ svc' = [svc EXCEPT ![h] = None]
           \/ file' = file /\ svc' = [svc EXCEPT ![h] = file[h]]
    BY <1>16 DEF ServiceStarts, ServiceStartsAlone, ServiceStops, StateLost,
       HeartbeatRefused, registry
  <2>2. /\ file' \in [Host -> Agent \cup {None}]
        /\ svc' \in [Host -> Agent \cup {None}]
        /\ \A g \in Host : {file'[g], svc'[g]} \subseteq {file[g], svc[g], None}
    BY <2>1, <1>t DEF TypeOK
  <2> QED
    BY <2>1, <2>2, <1>1
\* A heartbeat is taken up or finished.
<1>17. ASSUME NEW r \in Replica, NEW h \in Host, Heartbeat(r, h)
       PROVE  EnrollmentInv'
  <2>1. /\ UNCHANGED <<file, svc, enrolling>>
        /\ \A q \in Replica : work'[q] # work[q] => work[q] \notin Registration
    BY <1>17, <1>t DEF Heartbeat, HeartbeatReads, RegistryTypeOK, Idle, Registration
  <2> QED
    BY <2>1, <1>1, <1>t DEF TypeOK
<1>18. ASSUME NEW r \in Replica, HeartbeatServed(r) \/ HeartbeatFails(r)
       PROVE  EnrollmentInv'
  <2>1. /\ UNCHANGED <<file, enrolling>>
        /\ svc' = svc \/ \E h \in Host : svc' = [svc EXCEPT ![h] = None]
        /\ \A q \in Replica : work'[q] # work[q] => q = r
    BY <1>18, <1>t DEF HeartbeatServed, HeartbeatFails, HeartbeatWrites,
       DatabaseFails, RegistryTypeOK
  <2>2. work[r] \notin Registration
    BY <1>18 DEF HeartbeatServed, HeartbeatFails, HeartbeatWrites, Report,
       Registration
  <2>3. /\ svc' \in [Host -> Agent \cup {None}]
        /\ \A g \in Host : {file'[g], svc'[g]} \subseteq {file[g], svc[g], None}
    BY <2>1, <1>t DEF TypeOK
  <2> QED
    BY <2>1, <2>2, <2>3, <1>1, <1>t DEF TypeOK
<1>19. CASE UNCHANGED vars
  <2>1. /\ UNCHANGED <<file, svc, enrolling>> /\ work' = work
    BY <1>19 DEF vars, enrolling, registry
  <2> QED
    BY <2>1, <1>1, <1>t DEF TypeOK
<1>20. CASE Work
  BY <1>20, <1>5, <1>7, <1>10, <1>11, <1>15, <1>16, <1>17, <1>18
     DEF Work, Beat, Ask, Serve
<1>21. CASE LateArrival
  BY <1>21, <1>6, <1>8 DEF LateArrival
<1>22. CASE Mishap
  BY <1>22, <1>10, <1>12, <1>13, <1>14, <1>16, <1>18 DEF Mishap
<1> QED
  BY <1>4, <1>19, <1>20, <1>21, <1>22 DEF Next

\* Hosts, connections and enroll processes fit together.
THEOREM EnrollmentTyped == Spec => []TypeOK
<1>1. EnrollmentInv => TypeOK
  BY DEF EnrollmentInv
<1> QED
  BY <1>1, EnrollmentStarts, EnrollmentSteps, PTL DEF Spec

\* Whatever is lost, late or repeated, a host's key is of an agent the register
\* has with its hostname.
THEOREM HostsKeysKnown == Spec => []KeysKnown
<1>1. EnrollmentInv => KeysKnown
  BY DEF EnrollmentInv
<1> QED
  BY <1>1, EnrollmentStarts, EnrollmentSteps, PTL DEF Spec

\* The composition is a behaviour of the register, whose theorems therefore
\* hold of it.
THEOREM EnrollmentRefinesRegistry == Spec => RegistrySpec
<1>1. Init => RegistryInit
  BY DEF Init
<1>2. TypeOK /\ [Next]_vars => [RegistryNext]_registry
  BY EnrollmentStepsRegistry
<1> QED
  BY <1>1, <1>2, EnrollmentTyped, PTL DEF Spec, RegistrySpec
=============================================================================
