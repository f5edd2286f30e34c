----------------------------- MODULE LlmExplain -----------------------------
(***************************************************************************)
(* explain_alert (services/llm/__init__.py) with its cache (cache.py), its *)
(* retries (retry.py), the provider's client (providers.py) and the        *)
(* statistics of calls (stats.py).                                         *)
(*                                                                         *)
(* The threads of one process share cache and statistics, each behind a    *)
(* lock, and call the provider with neither held.  Of a prompt only the    *)
(* context it is built from is kept, of an answer only the prompt and what *)
(* became of it.                                                           *)
(***************************************************************************)
EXTENDS Integers, Sequences, FiniteSets, SequencesExt

CONSTANTS Worker,       \* threads
          Context,      \* what an explanation is asked for
          Key, KeyOf,   \* make_key: the context's part that identifies it
          None,
          MaxCached,    \* max_size
          MaxAttempts,  \* llm_max_retries
          MaxCalls      \* bound: explanations asked for between restarts

ASSUME ExplainAssumption ==
  /\ IsFiniteSet(Worker)
  /\ KeyOf \in [Context -> Key] /\ None \notin Context
  /\ MaxCached \in Nat \ {0} /\ MaxAttempts \in Nat \ {0} /\ MaxCalls \in Nat

VARIABLES cache,        \* LLMCache._data, the least recently used first
          call,         \* the explain_alert a thread stands inside of
          counted,      \* LLMCallStats: total_calls, total_fallback
          configured    \* there is a provider and a key for it

\* History: explanations asked for, and provider calls that failed, since the
\* process started.
VARIABLES asked, failures

explainVars == <<cache, call, counted, configured, asked, failures>>

Text == [of : Context, how : {"parsed", "freeform", "fallback"}]
Entry == [key : Key, text : Text, old : BOOLEAN]

NoCall == [pc |-> "idle"]

ExplainInit ==
  /\ cache = <<>> /\ call = [w \in Worker |-> NoCall]
  /\ counted = [calls |-> 0, fallbacks |-> 0]
  /\ configured \in BOOLEAN
  /\ asked = 0 /\ failures = 0

\* What is left of it when the process starts again.
ExplainRestart ==
  /\ cache' = <<>> /\ call' = [w \in Worker |-> NoCall]
  /\ counted' = [calls |-> 0, fallbacks |-> 0]
  /\ asked' = 0 /\ failures' = 0 /\ UNCHANGED configured
-----------------------------------------------------------------------------
(***************************************************************************)
(* LLMCache                                                                *)
(***************************************************************************)
Places(k) == {i \in DOMAIN cache : cache[i].key = k}

Without(k) ==
  IF Places(k) = {} THEN cache ELSE RemoveAt(cache, CHOOSE i \in Places(k) : TRUE)

Cached(k) == {e \in ToSet(cache) : e.key = k /\ ~e.old}

\* get: a hit is moved to the end, an entry past its time to live is deleted.
Touched(e) == Append(Without(e.key), e)

\* put
Put(k, text) ==
  LET all == Append(Without(k), [key |-> k, text |-> text, old |-> FALSE])
  IN  IF Len(all) > MaxCached THEN Tail(all) ELSE all

\* ttl_seconds pass.
TimePasses ==
  /\ cache # <<>>
  /\ cache' = [i \in DOMAIN cache |-> [cache[i] EXCEPT !.old = TRUE]]
  /\ UNCHANGED <<call, counted, configured, asked, failures>>
-----------------------------------------------------------------------------
(***************************************************************************)
(* LLMCallStats.record: c calls, f of which did not end "ok".              *)
(***************************************************************************)
Record(c, f) ==
  counted' = [calls |-> counted.calls + c, fallbacks |-> counted.fallbacks + f]

Answered(w, text) == call' = [call EXCEPT ![w] = [pc |-> "answered", text |-> text]]

\* Mutated form: the key of the cache does not tell users apart.
HitAny(w, c) ==
  /\ call[w] = NoCall /\ asked < MaxCalls
  /\ \E e \in ToSet(cache) :
       /\ ~e.old /\ cache' = Touched(e) /\ Answered(w, e.text)
  /\ Record(1, 0) /\ asked' = asked + 1
  /\ UNCHANGED <<configured, failures>>

Hit(w, c) ==
  /\ call[w] = NoCall /\ asked < MaxCalls
  /\ \E e \in Cached(KeyOf[c]) : cache' = Touched(e) /\ Answered(w, e.text)
  /\ Record(1, 0) /\ asked' = asked + 1
  /\ UNCHANGED <<configured, failures>>

\* A miss calls the provider if there is one.
Miss(w, c) ==
  /\ call[w] = NoCall /\ asked < MaxCalls /\ Cached(KeyOf[c]) = {}
  /\ cache' = Without(KeyOf[c])
  /\ asked' = asked + 1
  /\ \/ /\ configured /\ UNCHANGED counted
        /\ call' = [call EXCEPT ![w] = [pc |-> "calling", ctx |-> c, attempt |-> 1]]
     \/ /\ ~configured /\ Record(1, 1)
        /\ Answered(w, [of |-> c, how |-> "fallback"])
  /\ UNCHANGED <<configured, failures>>

\* The answer has the three labels, or else is normalised; both are cached.
ProviderAnswers(w) ==
  /\ call[w].pc = "calling"
  /\ \E how \in {"parsed", "freeform"} :
       LET text == [of |-> call[w].ctx, how |-> how]
       IN  cache' = Put(KeyOf[call[w].ctx], text) /\ Answered(w, text)
  /\ Record(1, 0)
  /\ UNCHANGED <<configured, asked, failures>>

\* retry_with_backoff: a connection error or a timeout is retried.
ProviderUnreachable(w) ==
  /\ call[w].pc = "calling" /\ call[w].attempt < MaxAttempts
  /\ call' = [call EXCEPT ![w].attempt = @ + 1]
  /\ UNCHANGED <<cache, counted, configured, asked, failures>>

\* That was the last attempt, or another error, every HTTP status included:
\* track_call counts it, then explain_alert does, and falls back.
ProviderFails(w) ==
  /\ call[w].pc = "calling"
  /\ Record(2, 2) /\ failures' = failures + 1
  /\ Answered(w, [of |-> call[w].ctx, how |-> "fallback"])
  /\ UNCHANGED <<cache, configured, asked>>

CallStep(w) == ProviderAnswers(w) \/ ProviderUnreachable(w) \/ ProviderFails(w)

\* explain_alert returns.
Return(w) ==
  /\ call[w].pc = "answered" /\ call' = [call EXCEPT ![w] = NoCall]
  /\ UNCHANGED <<cache, counted, configured, asked, failures>>

\* What the callers may do with it.
ExplainNext ==
  \/ \E w \in Worker, c \in Context : Hit(w, c) \/ Miss(w, c)
  \/ \E w \in Worker : CallStep(w) \/ Return(w)
  \/ TimePasses \/ ExplainRestart

ExplainSpec == ExplainInit /\ [][ExplainNext]_explainVars
-----------------------------------------------------------------------------
ExplainTypeOK ==
  /\ cache \in Seq(Entry)
  /\ \A w \in Worker :
       \/ call[w] = NoCall
       \/ /\ call[w].pc = "calling" /\ call[w].ctx \in Context
          /\ call[w].attempt \in 1..MaxAttempts
       \/ call[w].pc = "answered" /\ call[w].text \in Text
  /\ counted \in [calls : Nat, fallbacks : Nat]
  /\ configured \in BOOLEAN /\ asked \in 0..MaxCalls /\ failures \in 0..MaxCalls

(***************************************************************************)
(* However threads that missed the same key write it, the cache stays      *)
(* within its size, holds one entry for a key and under a key only an      *)
(* explanation of that key (services/llm/cache.py:3-5).                    *)
(***************************************************************************)
CacheSound ==
  /\ Len(cache) <= MaxCached
  /\ \A i, j \in DOMAIN cache : cache[i].key = cache[j].key => i = j
  /\ \A e \in ToSet(cache) : KeyOf[e.text.of] = e.key

(***************************************************************************)
(* The statistics count every explanation that was given once, and a       *)
(* failed provider call a second time, as call and as fallback             *)
(* (services/llm/stats.py:50, :132, services/llm/__init__.py:121).         *)
(***************************************************************************)
CallsCounted ==
  /\ counted.calls = failures + asked
       - Cardinality({w \in Worker : call[w].pc = "calling"})
  /\ counted.fallbacks >= 2 * failures /\ counted.fallbacks <= counted.calls
=============================================================================
