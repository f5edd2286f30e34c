----------------------------- MODULE MCLlmChat -----------------------------
(***************************************************************************)
(* LlmChat with two alerts about one employee, an account that may judge   *)
(* (its id is also an employee's) and one that may not.                    *)
(***************************************************************************)
EXTENDS LlmChat

Users == [a \in Alert |-> "u"]

\* The state space is cut where so much has been created, whatever it is:
\* conversations, sends, verdicts and memories.
CONSTANT MaxCreated
Small ==
  (nextConv - 1) + (nextMemory - 1)
    + Cardinality({s \in Send : stream[s] # Unsent})
    + Cardinality({d \in Alert \X Account : feedback[d[1]][d[2]] # None})
    + Cardinality({r \in Replica : judging[r] # Free}) <= MaxCreated

Symmetry == Permutations(Send) \cup Permutations(Replica) \cup Permutations(Alert)
              \cup Permutations(Verdict) \cup Permutations(Note)
=============================================================================
