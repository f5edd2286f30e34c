---------------------------- MODULE AgentConfig ----------------------------
(***************************************************************************)
(* The agents' policy (db/agents.py), the agent's copy of it               *)
(* (agent/config_client.py) and the life of the agent's collectors         *)
(* (AgentService.run, _config_pull_loop and _on_policy_change of           *)
(* agent/service.py).                                                      *)
(*                                                                         *)
(* A pull asks, in a thread of its own, for the policy, swaps the copy and *)
(* lets the loop compare the versions; the administrator changes the       *)
(* policy in between.  Of a policy the version and the enabled collectors  *)
(* are kept: sampling and the blocklist are swapped with them and change   *)
(* no collector's life.                                                    *)
(***************************************************************************)
EXTENDS Naturals

CONSTANTS Collector,    \* names of collectors
          MaxAttempts,  \* of pull_with_retry
          MaxVersion    \* bound: policy versions

ASSUME ConfigAssumption == MaxAttempts \in Nat \ {0} /\ MaxVersion \in Nat \ {0}

VARIABLES policy,       \* agent_policy's row
          cached,       \* ConfigClient._policy
          service,      \* AgentService.run
          puller,       \* pull_with_retry, at the start and of the loop
          built,        \* AgentService.collectors
          running       \* those started and not told to stop

configVars == <<policy, cached, service, puller, built, running>>

Policy == [version : 0..MaxVersion, enabled : SUBSET Collector]

\* AgentPolicy() before the first pull.
Default == [version |-> 0, enabled |-> {}]

Asking(old) == [pc |-> "asking", old |-> old, attempt |-> 1]
Sleeping == [pc |-> "sleeping"]

ConfigInit ==
  /\ policy = [version |-> 1, enabled |-> Collector] /\ cached = Default
  /\ service = "down" /\ puller = Sleeping
  /\ built = {} /\ running = {}
-----------------------------------------------------------------------------
\* Mutated form: only the collectors are written.
UpdatePolicyUnversioned(enabled) ==
  /\ policy.version < MaxVersion
  /\ policy' = [policy EXCEPT !.enabled = enabled]
  /\ UNCHANGED <<cached, service, puller, built, running>>

\* update_agent_policy: one UPDATE.
UpdatePolicy(enabled) ==
  /\ policy.version < MaxVersion
  /\ policy' = [version |-> policy.version + 1, enabled |-> enabled]
  /\ UNCHANGED <<cached, service, puller, built, running>>
-----------------------------------------------------------------------------
(***************************************************************************)
(* pull_with_retry                                                         *)
(***************************************************************************)
PullAnswered ==
  /\ puller.pc = "asking"
  /\ puller' = [pc |-> "answered", old |-> puller.old, got |-> policy]
  /\ UNCHANGED <<policy, cached, service, built, running>>

PullSwaps ==
  /\ puller.pc = "answered"
  /\ cached' = puller.got
  /\ puller' = [pc |-> "pulled", old |-> puller.old]
  /\ UNCHANGED <<policy, service, built, running>>

PullRetried ==
  /\ puller.pc = "asking" /\ puller.attempt < MaxAttempts
  /\ puller' = [puller EXCEPT !.attempt = @ + 1]
  /\ UNCHANGED <<policy, cached, service, built, running>>

\* The last attempt failed, or the server refused: the copy stays.
PullFails ==
  /\ puller.pc = "asking"
  /\ puller' = [pc |-> "pulled", old |-> puller.old]
  /\ UNCHANGED <<policy, cached, service, built, running>>

\* The agent is revoked: run returns at its start, or is told to stop.  (A
\* pull that Stop left to its thread is heard by nobody.)
PullRevoked ==
  /\ puller.pc = "asking" /\ service \in {"starting", "up"}
  /\ puller' = Sleeping
  /\ service' = IF service = "up" THEN "stopping" ELSE "down"
  /\ UNCHANGED <<policy, cached, built, running>>
-----------------------------------------------------------------------------
(***************************************************************************)
(* AgentService                                                            *)
(***************************************************************************)
ServiceStarts ==
  /\ service = "down" /\ service' = "starting"
  /\ cached' = Default /\ puller' = Asking(0)
  /\ UNCHANGED <<policy, built, running>>

\* _build_collectors: what the policy enables now, and no other until the
\* next start; some may fail to start.
CollectorsStart(started) ==
  /\ service = "starting" /\ puller.pc = "pulled"
  /\ service' = "up" /\ puller' = Sleeping
  /\ built' = cached.enabled /\ started \subseteq built' /\ running' = started
  /\ UNCHANGED <<policy, cached>>

\* Mutated form: a copy that was pulled once is not pulled again.
BeginFirstPull ==
  /\ service = "up" /\ puller = Sleeping /\ cached = Default
  /\ puller' = Asking(cached.version)
  /\ UNCHANGED <<policy, cached, service, built, running>>

BeginPull ==
  /\ service = "up" /\ puller = Sleeping
  /\ puller' = Asking(cached.version)
  /\ UNCHANGED <<policy, cached, service, built, running>>

\* _on_policy_change stops what is not enabled and starts nothing.
PolicyApplied ==
  /\ service = "up" /\ puller.pc = "pulled"
  /\ puller' = Sleeping
  /\ running' = IF cached.version # puller.old THEN running \cap cached.enabled
                ELSE running
  /\ UNCHANGED <<policy, cached, service, built>>

Stop ==
  /\ service = "up" /\ service' = "stopping"
  /\ UNCHANGED <<policy, cached, puller, built, running>>

CollectorsStop ==
  /\ service = "stopping" /\ service' = "saving"
  /\ running' = {} /\ UNCHANGED <<policy, cached, puller, built>>

\* Mutated form: run ends, the process and its collectors do not.
ExitKeeping ==
  /\ service = "saving" /\ service' = "down"
  /\ puller' = Sleeping
  /\ UNCHANGED <<policy, cached, built, running>>

\* After the final flush, which AgentDelivery models, run ends, and with it
\* the process.
Exit ==
  /\ service = "saving" /\ service' = "down"
  /\ puller' = Sleeping /\ built' = {}
  /\ UNCHANGED <<policy, cached, running>>

Crash ==
  /\ service # "down" /\ service' = "down"
  /\ puller' = Sleeping /\ built' = {} /\ running' = {}
  /\ UNCHANGED <<policy, cached>>

Pull == PullAnswered \/ PullSwaps \/ PullRetried \/ PullFails \/ PullRevoked

ConfigNext ==
  \/ \E enabled \in SUBSET Collector : UpdatePolicy(enabled)
  \/ \E started \in SUBSET Collector : CollectorsStart(started)
  \/ ServiceStarts \/ BeginPull \/ Pull \/ PolicyApplied
  \/ Stop \/ CollectorsStop \/ Exit \/ Crash

ConfigSpec == ConfigInit /\ [][ConfigNext]_configVars
-----------------------------------------------------------------------------
ConfigTypeOK ==
  /\ policy \in Policy /\ policy.version > 0 /\ cached \in Policy
  /\ service \in {"down", "starting", "up", "stopping", "saving"}
  /\ puller \in {Sleeping}
       \cup [pc : {"asking"}, old : 0..MaxVersion, attempt : 1..MaxAttempts]
       \cup [pc : {"answered"}, old : 0..MaxVersion, got : Policy]
       \cup [pc : {"pulled"}, old : 0..MaxVersion]
  /\ running \subseteq built /\ built \subseteq Collector
  /\ service \in {"down", "starting"} => built = {}

(***************************************************************************)
(* Between two pulls no collector runs that the agent's copy of the policy *)
(* does not enable, however the administrator's changes and the pulls      *)
(* interleave: a change the loop does not notice by the version would      *)
(* leave one running (_config_pull_loop, update_agent_policy).             *)
(***************************************************************************)
CollectorsObey ==
  (service = "up" /\ puller.pc # "pulled") => running \subseteq cached.enabled
=============================================================================
