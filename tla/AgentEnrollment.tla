-------------------------- MODULE AgentEnrollment --------------------------
(***************************************************************************)
(* The endpoint hosts and the register: `agent enroll` (enroll.py,         *)
(* Transport.register, state.py) and the agent service's start and         *)
(* heartbeat loop (service.py) against AgentRegistry, over a network that  *)
(* loses requests and answers and delivers requests late.                  *)
(*                                                                         *)
(* On each host there is at most one `agent enroll` process and at most    *)
(* one service; they share the state file, which the service reads only    *)
(* when it starts.                                                         *)
(***************************************************************************)
EXTENDS AgentRegistry

VARIABLES file,        \* the agent in a host's state file
          svc,         \* the agent its running service reports as
          pc,          \* where its enroll process stands
          asked, got,  \* the token it sends, the agent it was answered
          open,        \* replicas at work for a client that still waits
          late         \* registrations given up that may still arrive

vars == <<registry, file, svc, pc, asked, got, open, late>>
enrolling == <<pc, asked, got, open, late>>

Init ==
  /\ RegistryInit
  /\ file = [h \in Host |-> None] /\ svc = [h \in Host |-> None]
  /\ pc = [h \in Host |-> "idle"]
  /\ asked = [h \in Host |-> None] /\ got = [h \in Host |-> None]
  /\ open = {} /\ late = {}

\* The replicas at work for host h.
ServingHost(h) == {r \in open : work[r] \in Registration /\ work[r].host = h}
-----------------------------------------------------------------------------
(***************************************************************************)
(* agent enroll.                                                           *)
(***************************************************************************)
\* An existing state file stops it unless --overwrite is given.
Enroll(h, t, overwrite) ==
  /\ pc[h] = "idle" /\ token[t] # "none"
  /\ file[h] = None \/ overwrite
  /\ pc' = [pc EXCEPT ![h] = "sent"] /\ asked' = [asked EXCEPT ![h] = t]
  /\ UNCHANGED <<registry, file, svc, got, open, late>>

\* The process ends, with an exit code or killed.
Ends(h) ==
  /\ pc' = [pc EXCEPT ![h] = "idle"]
  /\ asked' = [asked EXCEPT ![h] = None] /\ got' = [got EXCEPT ![h] = None]

\* The backend begins to serve the request, or one that was given up.
RequestArrives(r, h) ==
  /\ pc[h] = "sent" /\ RegisterReads(r, h, asked[h])
  /\ pc' = [pc EXCEPT ![h] = "served"] /\ open' = open \cup {r}
  /\ UNCHANGED <<file, svc, asked, got, late>>

LateRequest(r, h, t) ==
  /\ <<h, t>> \in late /\ late' = late \ {<<h, t>>}
  /\ RegisterReads(r, h, t)
  /\ UNCHANGED <<file, svc, pc, asked, got, open>>

\* 400: the token cannot be used.  PermanentError.
Rejected(h) ==
  /\ pc[h] = "sent" /\ Serving /\ ~Usable(asked[h])
  /\ Ends(h)
  /\ UNCHANGED <<registry, file, svc, open, late>>

LateRejected(h, t) ==
  /\ <<h, t>> \in late /\ Serving /\ ~Usable(t)
  /\ late' = late \ {<<h, t>>}
  /\ UNCHANGED <<registry, file, svc, pc, asked, got, open>>

\* Mutated form: the client is told before the commit, which then fails.
RegisteredEarly(r, a) ==
  /\ work[r] \in Registration /\ status[a] = "none" /\ r \in open
  /\ DatabaseFails(r)
  /\ LET h == work[r].host
     IN  /\ got' = [got EXCEPT ![h] = a]
         /\ pc' = [pc EXCEPT ![h] = IF file[h] = None THEN "save" ELSE "clear"]
  /\ open' = open \ {r}
  /\ UNCHANGED <<file, svc, asked, late>>

\* The registration commits, and the client, if it still waits, is told.
Registered(r, a) ==
  /\ RegisterWrites(r, a) /\ r \in open
  /\ LET h == work[r].host
     IN  /\ got' = [got EXCEPT ![h] = a]
         /\ pc' = [pc EXCEPT ![h] = IF file[h] = None THEN "save" ELSE "clear"]
  /\ open' = open \ {r}
  /\ UNCHANGED <<file, svc, asked, late>>

\* It commits, but nobody waits or the answer is lost.
RegisteredUnheard(r, a) ==
  /\ RegisterWrites(r, a)
  /\ open' = open \ {r}
  /\ UNCHANGED <<file, svc, pc, asked, got, late>>

\* The database fails: 500, a TransientError.
RegistrationFails(r) ==
  /\ work[r] \in Registration /\ DatabaseFails(r)
  /\ IF r \in open THEN Ends(work[r].host) ELSE UNCHANGED <<pc, asked, got>>
  /\ open' = open \ {r}
  /\ UNCHANGED <<file, svc, late>>

\* A network error, a timeout, or the process is killed while it waits; a
\* request under way may arrive later.
GivesUp(h) ==
  /\ pc[h] \in {"sent", "served"} /\ Ends(h)
  /\ open' = open \ ServingHost(h)
  /\ \/ late' = late
     \/ pc[h] = "sent" /\ late' = late \cup {<<h, asked[h]>>}
  /\ UNCHANGED <<registry, file, svc>>

\* clear_state
ClearsState(h) ==
  /\ pc[h] = "clear"
  /\ file' = [file EXCEPT ![h] = None] /\ pc' = [pc EXCEPT ![h] = "save"]
  /\ UNCHANGED <<registry, svc, asked, got, open, late>>

\* save_state: the temporary file replaces the state file at once.
SavesState(h) ==
  /\ pc[h] = "save"
  /\ file' = [file EXCEPT ![h] = got[h]] /\ Ends(h)
  /\ UNCHANGED <<registry, svc, open, late>>

\* The process is killed between the answer and the state file.
EnrollDies(h) ==
  /\ pc[h] \in {"clear", "save"} /\ Ends(h)
  /\ UNCHANGED <<registry, file, svc, open, late>>

\* An administrator of the host deletes the file, or it is lost.
StateLost(h) ==
  /\ file[h] # None
  /\ file' = [file EXCEPT ![h] = None]
  /\ UNCHANGED <<registry, svc, enrolling>>
-----------------------------------------------------------------------------
(***************************************************************************)
(* The agent service.                                                      *)
(***************************************************************************)
\* AgentService.run: it reads the state file and pulls the configuration,
\* which a revoked agent is refused (exit code 4); without an answer it goes
\* on.
ServiceStarts(h) ==
  /\ svc[h] = None /\ file[h] # None /\ Authentic(file[h])
  /\ svc' = [svc EXCEPT ![h] = file[h]]
  /\ UNCHANGED <<registry, file, enrolling>>

ServiceStartsAlone(h) ==
  /\ svc[h] = None /\ file[h] # None
  /\ svc' = [svc EXCEPT ![h] = file[h]]
  /\ UNCHANGED <<registry, file, enrolling>>

\* It is stopped or killed.
ServiceStops(h) ==
  /\ svc[h] # None
  /\ svc' = [svc EXCEPT ![h] = None]
  /\ UNCHANGED <<registry, file, enrolling>>

Heartbeat(r, h) ==
  /\ svc[h] # None /\ HeartbeatReads(r, svc[h])
  /\ UNCHANGED <<file, svc, enrolling>>

\* Mutated form: a 403 is taken for a transient error.
RefusalIgnored(h) ==
  /\ svc[h] # None /\ Serving /\ ~Authentic(svc[h])
  /\ UNCHANGED <<registry, file, enrolling, svc>>

\* require_agent refuses: 403, AuthRevokedError, and the service stops.
HeartbeatRefused(h) ==
  /\ svc[h] # None /\ Serving /\ ~Authentic(svc[h])
  /\ svc' = [svc EXCEPT ![h] = None]
  /\ UNCHANGED <<registry, file, enrolling>>

\* The update is done; if it found the agent revoked meanwhile, the answer is
\* 403 too, and a service that hears it stops.
HeartbeatServed(r) ==
  /\ HeartbeatWrites(r)
  /\ \/ svc' = svc
     \/ /\ ~Updates(work[r].agent)
        /\ \E h \in Host : /\ svc[h] = work[r].agent
                           /\ svc' = [svc EXCEPT ![h] = None]
  /\ UNCHANGED <<file, enrolling>>

HeartbeatFails(r) ==
  /\ work[r] \in Report /\ DatabaseFails(r)
  /\ UNCHANGED <<file, svc, enrolling>>
-----------------------------------------------------------------------------
\* What operators and administrators decide.
Operate ==
  \/ \E h \in Host, t \in Token, o \in BOOLEAN : Enroll(h, t, o)
  \/ Administration /\ UNCHANGED <<file, svc, enrolling>>

\* What hosts and replicas do by themselves.
Beat(h) == \E r \in Replica : Heartbeat(r, h)

Ask(h) == Rejected(h) \/ \E r \in Replica : RequestArrives(r, h)

Store(h) == ClearsState(h) \/ SavesState(h)

Serve(r) ==
  \/ HeartbeatServed(r)
  \/ \E a \in Agent : Registered(r, a) \/ (r \notin open /\ RegisteredUnheard(r, a))

Work ==
  \/ \E h \in Host : \/ Beat(h) \/ Ask(h) \/ Store(h)
                     \/ ServiceStarts(h) \/ HeartbeatRefused(h)
  \/ \E r \in Replica : Serve(r)

LateArrival ==
  \E h \in Host, t \in Token :
    LateRejected(h, t) \/ \E r \in Replica : LateRequest(r, h, t)

\* What the network, the machines and the database do to them.
Mishap ==
  \/ \E h \in Host : \/ GivesUp(h) \/ EnrollDies(h) \/ StateLost(h)
                     \/ ServiceStartsAlone(h) \/ ServiceStops(h)
  \/ \E r \in Replica :
       \/ \E a \in Agent : RegisteredUnheard(r, a)
       \/ RegistrationFails(r) \/ HeartbeatFails(r)

Next == Operate \/ Work \/ LateArrival \/ Mishap

Spec == Init /\ [][Next]_vars

(***************************************************************************)
(* Fairness: a replica finishes what it serves, the supervisor restarts    *)
(* the service, a running enroll process goes on, and a replica's event    *)
(* loop takes up the requests that keep coming, each in its turn.          *)
(***************************************************************************)
Fairness ==
  /\ \A r \in Replica : WF_vars(Serve(r))
  /\ \A h \in Host : /\ WF_vars(ServiceStarts(h)) /\ WF_vars(Store(h))
                     /\ SF_vars(Beat(h)) /\ SF_vars(Ask(h))
                     /\ SF_vars(HeartbeatRefused(h))

FairSpec == Spec /\ Fairness
-----------------------------------------------------------------------------
(***************************************************************************)
(* Properties.                                                             *)
(***************************************************************************)
\* The hosts' side has its types, and an open connection belongs to an enroll
\* process that waits for the registration its replica is at, and has no other.
TypeOK ==
  /\ RegistryTypeOK
  /\ file \in [Host -> Agent \cup {None}] /\ svc \in [Host -> Agent \cup {None}]
  /\ pc \in [Host -> {"idle", "sent", "served", "clear", "save"}]
  /\ asked \in [Host -> Token \cup {None}] /\ got \in [Host -> Agent \cup {None}]
  /\ open \subseteq Replica /\ late \subseteq Host \X Token
  /\ \A h \in Host : /\ pc[h] = "idle" <=> asked[h] = None
                     /\ pc[h] \in {"clear", "save"} <=> got[h] # None
  /\ \A r \in open : /\ work[r] \in Registration
                     /\ pc[work[r].host] = "served"
                     /\ asked[work[r].host] = work[r].token
  /\ \A q, r \in open : work[q].host = work[r].host => q = r

\* A key a host holds, wherever it holds it and whatever was lost, late or
\* repeated, is of an agent the register has with that hostname: a client is
\* told of committed registrations only.
KeysKnown ==
  \A h \in Host : \A a \in {file[h], svc[h], got[h]} \ {None} :
    status[a] # "none" /\ home[a] = h

\* Faults cease: from some time on nothing happens but by decision or by work.
FaultsCease == <>[][Mishap => Work]_vars

\* Once faults cease, a running service is shown as active, or its agent is
\* revoked and the service stops (_heartbeat_loop).
ServiceReports ==
  FaultsCease => \A h \in Host, a \in Agent :
                   svc[h] = a ~> status[a] \in {"active", "revoked"} \/ svc[h] # a

\* AGENT_DEPLOYMENT.md 6.2: an agent that stays revoked gets a 403 on its next
\* heartbeat and stops sending.
RevocationObeyed ==
  FaultsCease => \A h \in Host, a \in Agent :
                   <>[](status[a] = "revoked") => <>[](svc[h] # a)
=============================================================================
