------------------------------ MODULE Delivery ------------------------------
(***************************************************************************)
(* What the agent's delivery pipeline promises, without its protocol: an   *)
(* event a collector handed over is held until the server has stored it,   *)
(* or has answered that it will not, or until a full queue has to make     *)
(* room.  Crashes, restarts, timeouts, lost answers and cancelled tasks    *)
(* do not appear: they may repeat a delivery but never lose an event.      *)
(***************************************************************************)
EXTENDS Integers, FiniteSets

CONSTANTS Source, Capacity

VARIABLES accepted,    \* every event ever handed over
          held,        \* events the agent still keeps
          stored,      \* events the server has stored
          judged,      \* events the server has answered it did not store
          evicted      \* events given up to make room

vars == <<accepted, held, stored, judged, evicted>>

Init ==
  /\ accepted = {} /\ held = {} /\ stored = {} /\ judged = {} /\ evicted = {}

\* A new event is held; events are given up for it only as far as the queue
\* is over its capacity.
Accept(s) ==
  /\ s \notin held
  /\ accepted' = accepted \cup {s}
  /\ \E gone \in SUBSET (held \cup {s}) :
       /\ gone # {} => Cardinality((held \cup {s}) \ gone) = Capacity
       /\ held' = (held \cup {s}) \ gone
       /\ evicted' = evicted \cup gone
  /\ UNCHANGED <<stored, judged>>

\* The server stores some events and answers that it did not store others;
\* storing an event again changes nothing.
Process(S, J) ==
  /\ S \subseteq accepted /\ J \subseteq accepted
  /\ stored' = stored \cup S
  /\ judged' = judged \cup J
  /\ UNCHANGED <<accepted, held, evicted>>

\* The agent forgets events whose fate the server has settled.
Forget(S) ==
  /\ S \subseteq stored \cup judged
  /\ held' = held \ S
  /\ UNCHANGED <<accepted, stored, judged, evicted>>

Next ==
  \/ \E s \in Source : Accept(s)
  \/ \E S, J \in SUBSET Source : Process(S, J)
  \/ \E S \in SUBSET Source : Forget(S)

Spec == Init /\ [][Next]_vars

\* No event is lost silently.
NothingLost == accepted \subseteq held \cup stored \cup judged \cup evicted
=============================================================================
