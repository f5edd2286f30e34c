--------------------------- MODULE AgentDelivery ---------------------------
(***************************************************************************)
(* The agent process draining its buffer to the server                     *)
(* (src/agent/service.py: _flusher_loop and AgentService.run, over         *)
(* EventBuffer and transport.send_batch), against the batch endpoint       *)
(* (src/backend/app/api/routes.py) and a network that loses requests and   *)
(* answers.                                                                *)
(*                                                                         *)
(* The flusher is a coroutine that awaits one worker-thread job at a time. *)
(* `loop` names the job it awaits, so that each await of the code is a     *)
(* point where collectors, the server, a stop or a crash may come between. *)
(* Cancelling the coroutine does not stop its job: a claim, ack or nack    *)
(* that was already submitted may still run, until the buffer is closed.   *)
(***************************************************************************)
EXTENDS EventBuffer

CONSTANT BatchMax      \* flush_batch_max

ASSUME DeliveryAssumption == BatchMax \in Nat \ {0}

VARIABLES proc,        \* AgentService.run: "down", "up", "draining" (tasks
                       \* cancelled), "flushing" and "acking" (final flush)
          loop,        \* the job _flusher_loop awaits, or "gone"
          batch,       \* the rows each caller of claim holds
          answer,      \* the server's answer to each caller's request
          late,        \* events in requests whose sender stopped waiting
          revoked,     \* server side: endpoint_agents.status = 'revoked'
          stored       \* server side: source ids in raw_user_logs

\* History variables: what has ever been buffered, evicted to make room,
\* refused with a whole request, and reported failed inside an accepted one.
VARIABLES accepted, evicted, refused, failed

server  == <<revoked, stored>>
history == <<accepted, evicted, refused, failed>>
vars    == <<ready, inflight, nextId, proc, loop, batch, answer, late,
             revoked, stored, accepted, evicted, refused, failed>>

Caller == {"loop", "final"}

Init ==
  /\ BufferInit
  /\ proc = "down" /\ loop = "gone"
  /\ batch = [c \in Caller |-> {}]
  /\ answer = [c \in Caller |-> "none"]
  /\ late = {} /\ revoked = FALSE /\ stored = {}
  /\ accepted = {} /\ evicted = {} /\ refused = {} /\ failed = {}
-----------------------------------------------------------------------------
(***************************************************************************)
(* Collectors.  c.stop() joins a collector thread for at most 5 seconds,   *)
(* so one may still emit until the buffer is closed.                       *)
(***************************************************************************)
Emit(s) ==
  /\ proc # "down"
  /\ Enqueue(s)
  /\ accepted' = accepted \cup {s}
  /\ evicted' = evicted \cup ((Sources(Rows) \cup {s}) \ Sources(Rows'))
  /\ UNCHANGED <<proc, loop, batch, answer, late, server, refused, failed>>
-----------------------------------------------------------------------------
(***************************************************************************)
(* Requests.                                                               *)
(***************************************************************************)
Sending(c) == \/ c = "loop"  /\ loop = "send"
              \/ c = "final" /\ proc = "flushing"

\* What the server may still process once the sender c stops waiting.
Unanswered(c) ==
  IF Sending(c) /\ answer[c] = "none" THEN Sources(batch[c]) ELSE {}

\* 200: each record is upserted under its own savepoint, so any subset of the
\* batch may be stored; the body reports how many failed.
AnswerBatch(c) ==
  /\ Sending(c) /\ answer[c] = "none" /\ ~revoked
  /\ \E ok \in SUBSET Sources(batch[c]) :
       /\ stored' = stored \cup ok
       /\ failed' = failed \cup (Sources(batch[c]) \ ok)
       /\ answer' = [answer EXCEPT ![c] =
                       IF ok = Sources(batch[c]) THEN "ok" ELSE "partial"]
  /\ UNCHANGED <<bufferVars, proc, loop, batch, late, revoked, accepted,
                 evicted, refused>>

\* A 4xx other than 401, 403 and 429, or a 2xx that is not JSON: nothing is
\* stored, and send_batch raises PermanentError.
AnswerPermanent(c) ==
  /\ Sending(c) /\ answer[c] = "none"
  /\ answer' = [answer EXCEPT ![c] = "permanent"]
  /\ refused' = refused \cup Sources(batch[c])
  /\ UNCHANGED <<bufferVars, proc, loop, batch, late, server, accepted,
                 evicted, failed>>

\* 403: require_agent refuses a revoked agent.
AnswerRevoked(c) ==
  /\ Sending(c) /\ answer[c] = "none" /\ revoked
  /\ answer' = [answer EXCEPT ![c] = "revoked"]
  /\ UNCHANGED <<bufferVars, proc, loop, batch, late, server, history>>

\* A request outlives its sender: the server stores some of what it carries.
LateRequest ==
  /\ ~revoked
  /\ \E S \in SUBSET late \ {{}} :
       /\ stored' = stored \cup S
       /\ late' = late \ S
  /\ UNCHANGED <<bufferVars, proc, loop, batch, answer, revoked, history>>

\* An administrator revokes the agent, or patches its status back.
Revoke ==
  /\ revoked' = ~revoked
  /\ UNCHANGED <<bufferVars, proc, loop, batch, answer, late, stored, history>>
-----------------------------------------------------------------------------
(***************************************************************************)
(* _flusher_loop.  While proc = "up" the coroutine goes on to its next     *)
(* job; once cancelled (proc is "draining" or later) the job was its last. *)
(***************************************************************************)

\* The coroutine goes from its present job to job j with rows B, and has no
\* answer to look at yet.
LoopGoto(j, B) ==
  /\ loop' = IF proc = "up" THEN j ELSE "gone"
  /\ batch' = [batch EXCEPT !["loop"] = IF proc = "up" THEN B ELSE {}]
  /\ answer' = [answer EXCEPT !["loop"] = "none"]

LoopClaim ==
  LET claimed == Oldest(ready, BatchMax)
  IN  /\ loop = "claim" /\ proc # "down"
      /\ claimed # {}
      /\ Claim(BatchMax)
      /\ LoopGoto("send", claimed)
      /\ UNCHANGED <<proc, late, server, history>>

\* What the coroutine does with an answer to send_batch.
JobAfter(a) == CASE a = "ok"        -> "ack"
                 [] a = "partial"   -> "nack"
                 [] a = "permanent" -> "drop"

LoopAnswered ==
  /\ loop = "send" /\ answer["loop"] \in {"ok", "partial", "permanent"}
  /\ LoopGoto(JobAfter(answer["loop"]), batch["loop"])
  /\ UNCHANGED <<bufferVars, proc, late, server, history>>

\* AuthRevokedError: stop_event is set and the flusher returns, its batch in
\* flight; run() wakes up and starts to drain.
LoopRevoked ==
  /\ loop = "send" /\ answer["loop"] = "revoked"
  /\ proc' = "draining"
  /\ loop' = "gone"
  /\ batch' = [batch EXCEPT !["loop"] = {}]
  /\ answer' = [answer EXCEPT !["loop"] = "none"]
  /\ UNCHANGED <<bufferVars, late, server, history>>

\* Mutated form: a network failure is handled like a PermanentError.
LoopSendDrops ==
  /\ loop = "send"
  /\ late' = late \cup Unanswered("loop")
  /\ LoopGoto("drop", batch["loop"])
  /\ UNCHANGED <<bufferVars, proc, server, history>>

\* TransientError or any other exception: no answer, a lost one, 429 or 5xx.
LoopSendFails ==
  /\ loop = "send"
  /\ late' = late \cup Unanswered("loop")
  /\ LoopGoto("nack", batch["loop"])
  /\ UNCHANGED <<bufferVars, proc, server, history>>

\* The ack job, after a success ("ack") or a PermanentError ("drop").
LoopAcks ==
  /\ loop \in {"ack", "drop"} /\ proc # "down"
  /\ Ack(Ids(batch["loop"]))
  /\ LoopGoto("claim", {})
  /\ UNCHANGED <<proc, late, server, history>>

\* Mutated form: the batch is forgotten without a nack.
LoopForgets ==
  /\ loop = "nack" /\ proc # "down"
  /\ LoopGoto("claim", {})
  /\ UNCHANGED <<bufferVars, proc, late, server, history>>

LoopNacks ==
  /\ loop = "nack" /\ proc # "down"
  /\ Nack(Ids(batch["loop"]))
  /\ LoopGoto("claim", {})
  /\ UNCHANGED <<proc, late, server, history>>

\* SQLite refuses the ack inside the `try`: the generic handler nacks.
LoopAckFails ==
  /\ loop = "ack" /\ proc = "up"
  /\ LoopGoto("nack", batch["loop"])
  /\ UNCHANGED <<bufferVars, proc, late, server, history>>

\* SQLite refuses the ack or nack of an exception handler: the exception
\* leaves the coroutine and nobody restarts it.
LoopDies ==
  /\ loop \in {"drop", "nack"} /\ proc = "up"
  /\ LoopGoto("gone", {})
  /\ UNCHANGED <<bufferVars, proc, late, server, history>>
-----------------------------------------------------------------------------
(***************************************************************************)
(* AgentService.run.                                                       *)
(***************************************************************************)

\* Mutated form: startup without reset_in_flight.
StartWithoutReset ==
  /\ proc = "down"
  /\ proc' = "up" /\ loop' = "claim"
  /\ UNCHANGED <<bufferVars, batch, answer, late, server, history>>

\* Startup; an unreachable server lets the agent run on its default policy.
Start ==
  /\ proc = "down"
  /\ ResetInFlight
  /\ proc' = "up" /\ loop' = "claim"
  /\ UNCHANGED <<batch, answer, late, server, history>>

\* The initial configuration pull learns that the agent is revoked: return 4.
StartRefused ==
  /\ proc = "down" /\ revoked
  /\ ResetInFlight
  /\ UNCHANGED <<proc, loop, batch, answer, late, server, history>>

\* A signal, or a heartbeat or configuration pull answered 401 or 403: the
\* tasks are cancelled.  A request in progress is no longer waited for; a
\* claim, ack or nack job may still run.
Stop ==
  /\ proc = "up"
  /\ proc' = "draining"
  /\ late' = late \cup Unanswered("loop")
  /\ loop' = IF loop = "send" THEN "gone" ELSE loop
  /\ batch' = IF loop = "send" THEN [batch EXCEPT !["loop"] = {}] ELSE batch
  /\ answer' = [answer EXCEPT !["loop"] = "none"]
  /\ UNCHANGED <<bufferVars, server, history>>

\* The final flush claims one batch, on the event loop.
FinalClaim ==
  LET claimed == Oldest(ready, BatchMax)
  IN  /\ proc = "draining"
      /\ claimed # {}
      /\ Claim(BatchMax)
      /\ proc' = "flushing"
      /\ batch' = [batch EXCEPT !["final"] = claimed]
      /\ UNCHANGED <<loop, answer, late, server, history>>

\* send_batch returned: the result is not looked at.
FinalAnswered ==
  /\ proc = "flushing" /\ answer["final"] \in {"ok", "partial"}
  /\ proc' = "acking"
  /\ UNCHANGED <<bufferVars, loop, batch, answer, late, server, history>>

\* The process ends; what it held in memory is forgotten.
Exit ==
  /\ proc' = "down" /\ loop' = "gone"
  /\ batch' = [c \in Caller |-> {}]
  /\ answer' = [c \in Caller |-> "none"]
  /\ late' = late \cup Unanswered("loop") \cup Unanswered("final")
  /\ UNCHANGED <<server, history>>

FinalAcks ==
  /\ proc = "acking"
  /\ Ack(Ids(batch["final"]))
  /\ Exit

\* Nothing is left to send, or send_batch raised: the exception is logged and
\* the buffer closed, the claimed rows staying in flight.
FinalSkipped ==
  /\ \/ proc = "draining" /\ ready = {}
     \/ proc = "flushing" /\ answer["final"] \in {"permanent", "revoked"}
  /\ Exit
  /\ UNCHANGED bufferVars

\* Mutated form: the batch is acknowledged in a `finally`.
FinalFailsAcking ==
  /\ proc \in {"draining", "flushing", "acking"}
  /\ Ack(Ids(batch["final"]))
  /\ Exit

\* The network or SQLite fails during the final flush: same handler.
FinalFails ==
  /\ proc \in {"draining", "flushing", "acking"}
  /\ Exit
  /\ UNCHANGED bufferVars

\* The process is killed at any point; committed transactions survive.
Crash ==
  /\ proc # "down"
  /\ Exit
  /\ UNCHANGED bufferVars
-----------------------------------------------------------------------------
Next ==
  \/ \E s \in Source : Emit(s)
  \/ \E c \in Caller : AnswerBatch(c) \/ AnswerPermanent(c) \/ AnswerRevoked(c)
  \/ LateRequest \/ Revoke
  \/ LoopClaim \/ LoopAnswered \/ LoopRevoked \/ LoopSendFails
  \/ LoopAcks \/ LoopNacks \/ LoopAckFails \/ LoopDies
  \/ Start \/ StartRefused \/ Stop
  \/ FinalClaim \/ FinalAnswered \/ FinalAcks \/ FinalSkipped \/ FinalFails
  \/ Crash

Spec == Init /\ [][Next]_vars

\* The event loop runs every ready coroutine and the pool every job; the
\* server answers what reaches it; systemd restarts the service
\* (Restart=always).  Nothing is assumed of collectors, stops or faults.
Fairness ==
  /\ WF_vars(LoopClaim) /\ WF_vars(LoopAnswered) /\ WF_vars(LoopRevoked)
  /\ WF_vars(LoopAcks) /\ WF_vars(LoopNacks)
  /\ \A c \in Caller : WF_vars(AnswerBatch(c)) /\ WF_vars(AnswerRevoked(c))
  /\ WF_vars(Start)
  /\ WF_vars(FinalClaim) /\ WF_vars(FinalAnswered)
  /\ WF_vars(FinalAcks) /\ WF_vars(FinalSkipped)

FairSpec == Spec /\ Fairness
-----------------------------------------------------------------------------
(***************************************************************************)
(* Properties.                                                             *)
(***************************************************************************)
TypeOK ==
  /\ BufferTypeOK
  /\ proc \in {"down", "up", "draining", "flushing", "acking"}
  /\ loop \in {"claim", "send", "ack", "drop", "nack", "gone"}
  /\ batch \in [Caller -> SUBSET Row]
  /\ answer \in [Caller -> {"none", "ok", "partial", "permanent", "revoked"}]
  /\ revoked \in BOOLEAN
  /\ late \subseteq Source /\ stored \subseteq Source
  /\ accepted \subseteq Source /\ evicted \subseteq Source
  /\ refused \subseteq Source /\ failed \subseteq Source

\* An event that was ever buffered is still buffered, or the server has it, or
\* it was evicted to make room, or the server said it would not take it: no
\* crash, restart, cancelled task, lost answer or stale ack loses one silently.
NothingLost ==
  accepted \subseteq
    Sources(Rows) \cup stored \cup evicted \cup refused \cup failed

\* While the flusher lives, every row in flight is in the batch it is working
\* on: no row is stranded in flight by an earlier run of the process, a
\* cancelled job or a final flush that failed.
InFlightOwned ==
  proc = "up" /\ loop # "gone" => inflight \subseteq batch["loop"]

\* A claimed row is not ready for a second claim while its holder works on it,
\* and no row is held by both the flusher's last job and the final flush.
ClaimedOnce ==
  /\ batch["loop"] \cap batch["final"] = {}
  /\ (batch["loop"] \cup batch["final"]) \cap ready = {}

\* Each step is a step of the abstract queue: nothing leaves the buffer before
\* the server has settled it, except to make room.
Promise == INSTANCE Delivery WITH
             Capacity <- MaxEvents, held <- Sources(Rows),
             judged <- refused \cup failed
DeliversAsPromised == Promise!Spec

\* What goes wrong in the environment.
Fault ==
  \/ \E c \in Caller : \/ AnswerPermanent(c)
                       \/ AnswerBatch(c) /\ answer'[c] = "partial"
  \/ Revoke \/ LoopSendFails \/ LoopAckFails \/ LoopDies \/ Stop
  \/ FinalFails \/ Crash

\* Once faults cease, every buffered event is stored (or had been evicted, or
\* refused, or failed and then acked by a final flush), unless the agent is
\* revoked or its flusher task has died.
EventuallyDelivered ==
  <>[][~Fault]_vars =>
    \A s \in Source :
      s \in Sources(Rows) ~>
        \/ s \in stored \cup evicted \cup refused
        \/ s \in failed \ Sources(Rows)
        \/ revoked
        \/ proc = "up" /\ loop = "gone"

\* buffer.py:7 says an in-flight row is "deleted on success or re-queued on
\* failure", and service.py:158 that a batch with failures is nacked: an event
\* the server reported failed stays in the buffer until it is stored.
FailuresRetried ==
  accepted \subseteq Sources(Rows) \cup stored \cup evicted \cup refused
=============================================================================
