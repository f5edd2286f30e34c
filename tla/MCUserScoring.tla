--------------------------- MODULE MCUserScoring ---------------------------
(***************************************************************************)
(* UserScoring with two users, one of whose behaviour gets worse, and the  *)
(* two threads that score them.                                            *)
(***************************************************************************)
EXTENDS UserScoring

Contexts == [kind : {"score", "analyze"}, user : User, seen : 1..MaxEvents]
Keys == [kind : {"score", "analyze"}, user : User, risk : Risk]
KeyOfContext ==
  [c \in Contexts |-> [kind |-> c.kind, user |-> c.user, risk |-> RiskOf[c.user][c.seen]]]

Risks ==
  [u \in User |-> [e \in 1..MaxEvents |->
     IF u = "u" THEN "grave" ELSE IF e = 1 THEN "mild" ELSE "grave"]]

\* The state space is cut where so much has happened, whatever it is: events
\* that arrived and aged, scorings, explanations, alerts, scores and failures.
CONSTANT MaxSteps
Small ==
  SumFunction([u \in User |-> window[u].to + window[u].from - 1])
    + begun + asked + Len(alerts) + Cardinality(scores)
    + failures + unstored + Cardinality(uncited) <= MaxSteps

Workers == Permutations(Worker)
=============================================================================
