---------------------------- MODULE UserScoring ----------------------------
(***************************************************************************)
(* UserScoring.score_user (services/user_scoring.py) and analyze_all       *)
(* (api/routes.py, services/demo_pipeline.py), on the two threads of a     *)
(* process that run them: the normalizer's and the event loop.             *)
(*                                                                         *)
(* A job reads a window of a user's events, infers a risk from them, asks  *)
(* for an explanation, stores an alert and stores a score.  Every store is *)
(* a transaction of its own; events arrive, the process dies and the other *)
(* thread scores the same user in between.                                 *)
(*                                                                         *)
(* Features and inference are abstracted to which of three bands the risk  *)
(* is in, read off the events by RiskOf.  Events are numbered per user in  *)
(* the order of their timestamps; a window is an interval of them.         *)
(***************************************************************************)
EXTENDS LlmExplain

CONSTANTS User,
          RiskOf,       \* the risk of a window's last event
          Limit,        \* the limit of list_event_logs_for_user
          MaxEvents,    \* bound: events of a user
          MaxAlerts     \* bound: alerts ever created

Risk == {"normal", "mild", "grave"}

ASSUME ScoringAssumption ==
  /\ RiskOf \in [User -> [1..MaxEvents -> Risk]]
  /\ Limit \in Nat \ {0} /\ MaxEvents \in Nat /\ MaxAlerts \in Nat
  /\ Context = [kind : {"score", "analyze"}, user : User, seen : 1..MaxEvents]

VARIABLES window,       \* event_logs of a user that are not too old
          job,          \* what each thread stands inside of
          alerts,       \* alerts in the order of their ids
          scores,       \* ml_anomaly_scores
          sstats        \* ScoringStats

\* History: scorings begun, alerts they stored and scores they could not store
\* since the process started; alerts whose score was never stored.
VARIABLES begun, made, unstored, uncited

scoringVars ==
  <<window, job, alerts, scores, sstats, begun, made, unstored, uncited>>
vars == <<explainVars, scoringVars>>

NoJob == [pc |-> "idle"]
Alert == [by : {"score", "analyze"}, user : User, seen : 1..MaxEvents, text : Text]
Score == [user : User, seen : 1..MaxEvents, alert : 0..MaxAlerts]

ZeroStats == [scored |-> 0, anomalies |-> 0, alerts |-> 0, errors |-> 0,
              empty |-> 0, below |-> 0]

Init ==
  /\ ExplainInit
  /\ window = [u \in User |-> [from |-> 1, to |-> 0]]
  /\ job = [w \in Worker |-> NoJob]
  /\ alerts = <<>> /\ scores = {}
  /\ sstats = ZeroStats /\ begun = 0 /\ made = 0 /\ unstored = 0 /\ uncited = {}
-----------------------------------------------------------------------------
\* The normalizer stores an event, ml_scoring_window_minutes pass.
Arrive(u) ==
  /\ window[u].to < MaxEvents
  /\ window' = [window EXCEPT ![u].to = @ + 1]
  /\ UNCHANGED <<job, alerts, scores, sstats, begun, made, unstored, uncited, explainVars>>

Age(u) ==
  /\ window[u].from <= window[u].to
  /\ window' = [window EXCEPT ![u].from = @ + 1]
  /\ UNCHANGED <<job, alerts, scores, sstats, begun, made, unstored, uncited, explainVars>>

\* list_event_logs_for_user: the oldest Limit ones; the last of them.
SeenOf(u) ==
  IF window[u].from + Limit - 1 < window[u].to
    THEN window[u].from + Limit - 1 ELSE window[u].to

Empty(u) == window[u].to < window[u].from
-----------------------------------------------------------------------------
(***************************************************************************)
(* score_user                                                              *)
(***************************************************************************)
RiskIn(j) == RiskOf[j.user][j.seen]

Idle(w) ==
  /\ job[w] = NoJob
  /\ asked + Cardinality({v \in Worker : job[v] # NoJob}) < MaxCalls

Begun(w) == Idle(w) /\ begun < MaxCalls /\ begun' = begun + 1

\* Nothing in the window; or events, features or model fail.
ScoreNothing(w, u) ==
  /\ Begun(w)
  /\ \/ Empty(u) /\ sstats' = [sstats EXCEPT !.empty = @ + 1]
     \/ sstats' = [sstats EXCEPT !.errors = @ + 1]
  /\ UNCHANGED <<window, job, alerts, scores, made, unstored, uncited, explainVars>>

BeginScore(w, u) ==
  /\ Begun(w) /\ ~Empty(u)
  /\ LET j == [pc |-> "explaining", kind |-> "score", user |-> u,
               seen |-> SeenOf(u), alert |-> 0]
     IN  /\ job' = [job EXCEPT ![w] =
                      IF RiskIn(j) = "grave" THEN j ELSE [j EXCEPT !.pc = "scoring"]]
         /\ sstats' = [sstats EXCEPT !.below =
                         IF RiskIn(j) = "mild" THEN @ + 1 ELSE @]
  /\ UNCHANGED <<window, alerts, scores, made, unstored, uncited, explainVars>>

\* analyze_all stores an alert whenever the model sees an anomaly.
BeginAnalyze(w, u) ==
  /\ Idle(w) /\ ~Empty(u) /\ RiskOf[u][SeenOf(u)] # "normal"
  /\ job' = [job EXCEPT ![w] = [pc |-> "explaining", kind |-> "analyze", user |-> u,
                                seen |-> SeenOf(u), alert |-> 0]]
  /\ UNCHANGED <<window, alerts, scores, sstats, begun, made, unstored, uncited,
                 explainVars>>

ContextOf(j) == [kind |-> j.kind, user |-> j.user, seen |-> j.seen]

AskExplanation(w) ==
  /\ job[w].pc = "explaining"
  /\ Hit(w, ContextOf(job[w])) \/ Miss(w, ContextOf(job[w]))
  /\ UNCHANGED scoringVars

AwaitExplanation(w) == CallStep(w) /\ UNCHANGED scoringVars

Explained(w) == job[w].pc = "explaining" /\ call[w].pc = "answered"

Done(w) == job' = [job EXCEPT ![w] = NoJob]

StoreAlert(w) ==
  /\ Explained(w) /\ Return(w) /\ Len(alerts) < MaxAlerts
  /\ alerts' = Append(alerts, [by |-> job[w].kind, user |-> job[w].user,
                               seen |-> job[w].seen, text |-> call[w].text])
  /\ IF job[w].kind = "score"
       THEN /\ job' = [job EXCEPT ![w].pc = "scoring", ![w].alert = Len(alerts) + 1]
            /\ made' = made + 1
       ELSE Done(w) /\ UNCHANGED made
  /\ UNCHANGED <<window, scores, sstats, begun, unstored, uncited>>

\* The score is stored without an alert then.
AlertFails(w) ==
  /\ Explained(w) /\ Return(w)
  /\ IF job[w].kind = "score"
       THEN job' = [job EXCEPT ![w].pc = "scoring"] ELSE Done(w)
  /\ UNCHANGED <<window, alerts, scores, sstats, begun, made, unstored, uncited>>

\* The counters at the end of score_user, whether or not the score was stored.
CountScored(w, failed) ==
  sstats' = [sstats EXCEPT
    !.scored = @ + 1, !.errors = IF failed THEN @ + 1 ELSE @,
    !.anomalies = IF RiskIn(job[w]) = "normal" THEN @ ELSE @ + 1,
    !.alerts = IF job[w].alert = 0 THEN @ ELSE @ + 1]

\* Mutated form: the score names the newest alert instead of its own.
StoreScoreLatest(w) ==
  /\ job[w].pc = "scoring"
  /\ scores' = scores \cup {[user |-> job[w].user, seen |-> job[w].seen,
                             alert |-> IF job[w].alert = 0 THEN 0 ELSE Len(alerts)]}
  /\ CountScored(w, FALSE) /\ Done(w)
  /\ UNCHANGED <<window, alerts, begun, made, unstored, uncited, explainVars>>

StoreScore(w) ==
  /\ job[w].pc = "scoring"
  /\ scores' = scores \cup {[user |-> job[w].user, seen |-> job[w].seen,
                             alert |-> job[w].alert]}
  /\ CountScored(w, FALSE) /\ Done(w)
  /\ UNCHANGED <<window, alerts, begun, made, unstored, uncited, explainVars>>

\* Mutated form: an error ends the job before the counters.
ScoreFailsEarly(w) ==
  /\ job[w].pc = "scoring" /\ Done(w)
  /\ sstats' = [sstats EXCEPT !.errors = @ + 1]
  /\ unstored' = unstored + 1 /\ uncited' = uncited \cup ({job[w].alert} \ {0})
  /\ UNCHANGED <<window, alerts, scores, begun, made, explainVars>>

ScoreFails(w) ==
  /\ job[w].pc = "scoring"
  /\ CountScored(w, TRUE) /\ Done(w)
  /\ unstored' = unstored + 1 /\ uncited' = uncited \cup ({job[w].alert} \ {0})
  /\ UNCHANGED <<window, alerts, scores, begun, made, explainVars>>

\* The process dies and starts again: only the database is left.
Restart ==
  /\ begun + asked > 0
  /\ ExplainRestart
  /\ job' = [w \in Worker |-> NoJob]
  /\ sstats' = ZeroStats /\ begun' = 0 /\ made' = 0 /\ unstored' = 0
  /\ uncited' = uncited \cup
       ({job[w].alert : w \in {v \in Worker : job[v].pc = "scoring"}} \ {0})
  /\ UNCHANGED <<window, alerts, scores>>

Next ==
  \/ \E u \in User : Arrive(u) \/ Age(u)
  \/ TimePasses /\ UNCHANGED scoringVars
  \/ \E w \in Worker, u \in User :
       ScoreNothing(w, u) \/ BeginScore(w, u) \/ BeginAnalyze(w, u)
  \/ \E w \in Worker :
       \/ AskExplanation(w) \/ AwaitExplanation(w)
       \/ StoreAlert(w) \/ AlertFails(w)
       \/ StoreScore(w) \/ ScoreFails(w)
  \/ Restart

Spec == Init /\ [][Next]_vars
-----------------------------------------------------------------------------
TypeOK ==
  /\ ExplainTypeOK
  /\ window \in [User -> [from : 1..(MaxEvents + 1), to : 0..MaxEvents]]
  /\ \A w \in Worker :
       \/ job[w] = NoJob
       \/ /\ job[w].pc \in {"explaining", "scoring"}
          /\ ContextOf(job[w]) \in Context /\ job[w].alert \in 0..Len(alerts)
  /\ \A w \in Worker : call[w] # NoCall => job[w].pc = "explaining"
  /\ alerts \in Seq(Alert) /\ scores \subseteq Score
  /\ sstats \in [DOMAIN ZeroStats -> Nat]

(***************************************************************************)
(* A score names the alert that was made from the same events of the same  *)
(* user, and no alert is named twice; every alert of a scoring is named by *)
(* its score, unless the job is still at it, storing the score failed or   *)
(* the process died in between (services/user_scoring.py:7-9).             *)
(***************************************************************************)
AlertsCited ==
  /\ \A s \in scores : s.alert # 0 =>
       /\ s.alert \in DOMAIN alerts /\ RiskOf[s.user][s.seen] = "grave"
       /\ alerts[s.alert].by = "score" /\ alerts[s.alert].user = s.user
       /\ alerts[s.alert].seen = s.seen
  /\ \A s, t \in scores : (s.alert = t.alert /\ s.alert # 0) => s = t
  /\ \A i \in DOMAIN alerts : alerts[i].by = "score" =>
       \/ i \in uncited \/ \E s \in scores : s.alert = i
       \/ \E w \in Worker : job[w].pc = "scoring" /\ job[w].alert = i

(***************************************************************************)
(* The explanation of an alert is about its user, its risk and its kind,   *)
(* also when it comes from the cache, another thread filled the cache or   *)
(* the provider failed.  (It need not be about the same events: the key    *)
(* leaves the timeline out.)                                               *)
(***************************************************************************)
ExplanationFits ==
  /\ CacheSound
  /\ \A i \in DOMAIN alerts :
       KeyOf[alerts[i].text.of] =
         KeyOf[[kind |-> alerts[i].by, user |-> alerts[i].user, seen |-> alerts[i].seen]]

(***************************************************************************)
(* The in-memory statistics account for every scoring since the process    *)
(* started: it found nothing, failed early, is still at work or was        *)
(* scored, where one whose score could not be stored is an error too; the  *)
(* alerts are those stored.  Those of explanations account for every one.  *)
(***************************************************************************)
CountsAddUp ==
  LET active == {w \in Worker : job[w] # NoJob /\ job[w].kind = "score"}
  IN  /\ sstats.scored + sstats.empty + sstats.errors + Cardinality(active)
           = begun + unstored
      /\ sstats.alerts + Cardinality({w \in active : job[w].alert # 0}) = made
      /\ sstats.alerts <= sstats.anomalies /\ sstats.anomalies <= sstats.scored
      /\ CallsCounted
=============================================================================
