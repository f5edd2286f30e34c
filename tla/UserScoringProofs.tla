------------------------- MODULE UserScoringProofs --------------------------
(***************************************************************************)
(* Scoring and explaining, for any threads, users, windows and cache: the  *)
(* alerts and the scores that are stored in transactions of their own fit  *)
(* each other, and the statistics account for both.                        *)
(***************************************************************************)
EXTENDS UserScoring, FiniteSetTheorems, SequenceTheorems, TLAPS

\* Two sets that differ in one element at most.
LEMMA OneMoves ==
  ASSUME NEW A, NEW B, NEW w, IsFiniteSet(A), A \ {w} = B \ {w}
  PROVE  /\ IsFiniteSet(B) /\ Cardinality(A) \in Nat /\ Cardinality(B) \in Nat
         /\ Cardinality(B) + (IF w \in A THEN 1 ELSE 0)
              = Cardinality(A) + (IF w \in B THEN 1 ELSE 0)
<1> DEFINE C == A \ {w}
<1>1. IsFiniteSet(C) /\ w \notin C
  BY FS_RemoveElement
<1>2. A = (IF w \in A THEN C \cup {w} ELSE C) /\ B = (IF w \in B THEN C \cup {w} ELSE C)
  OBVIOUS
<1> HIDE DEF C
<1>3. /\ IsFiniteSet(C \cup {w}) /\ Cardinality(C \cup {w}) = Cardinality(C) + 1
      /\ Cardinality(C) \in Nat
  BY <1>1, FS_AddElement, FS_CardinalityType
<1>4. Cardinality(A) = Cardinality(C) + (IF w \in A THEN 1 ELSE 0)
  BY <1>2, <1>3
<1>5. /\ Cardinality(B) = Cardinality(C) + (IF w \in B THEN 1 ELSE 0)
      /\ IsFiniteSet(B)
  BY <1>1, <1>2, <1>3
<1> QED BY <1>3, <1>4, <1>5

\* A sequence without its i-th element.
LEMMA RemovedAt ==
  ASSUME NEW S, NEW s \in Seq(S), NEW i \in 1..Len(s)
  PROVE  /\ RemoveAt(s, i) \in Seq(S) /\ Len(RemoveAt(s, i)) = Len(s) - 1
         /\ \A j \in 1..(Len(s) - 1) :
              RemoveAt(s, i)[j] = IF j < i THEN s[j] ELSE s[j + 1]
<1> DEFINE front == SubSeq(s, 1, i - 1)
           back == SubSeq(s, i + 1, Len(s))
<1>1. Len(s) \in Nat /\ i \in Nat /\ i >= 1 /\ i <= Len(s)
  OBVIOUS
<1>2. front \in Seq(S) /\ Len(front) = i - 1 /\ \A j \in 1..(i - 1) : front[j] = s[j]
  OBVIOUS
<1>3. back \in Seq(S) /\ Len(back) = Len(s) - i /\ \A j \in 1..(Len(s) - i) : back[j] = s[j + i]
  OBVIOUS
<1>4. RemoveAt(s, i) = front \o back
  BY DEF RemoveAt
<1> HIDE DEF front, back
<1>5. front \o back \in Seq(S)
  BY <1>2, <1>3
<1>6. Len(front \o back) = Len(s) - 1
  <2>1. Len(front \o back) = Len(front) + Len(back)
    BY <1>2, <1>3, ConcatProperties
  <2> QED BY <1>1, <1>2, <1>3, <2>1
<1>7. \A j \in 1..(Len(s) - 1) : (front \o back)[j] = IF j < i THEN s[j] ELSE s[j + 1]
  BY <1>1, <1>2, <1>3
<1> QED BY <1>4, <1>5, <1>6, <1>7

-----------------------------------------------------------------------------
(***************************************************************************)
(* The cache.                                                              *)
(***************************************************************************)
KeysOnce(c) == \A i, j \in DOMAIN c : c[i].key = c[j].key => i = j
KeysFit(c) == \A i \in DOMAIN c : KeyOf[c[i].text.of] = c[i].key
Kept(c) == c \in Seq(Entry) /\ Len(c) <= MaxCached /\ KeysOnce(c) /\ KeysFit(c)

LEMMA CacheParts ==
  ASSUME cache \in Seq(Entry)
  PROVE  CacheSound <=> Kept(cache)
<1>1. ToSet(cache) = {cache[i] : i \in DOMAIN cache}
  BY DEF ToSet
<1> QED BY <1>1 DEF CacheSound, Kept, KeysOnce, KeysFit

\* Once its entry is deleted nothing is left under a key.
LEMMA Deleted ==
  ASSUME Kept(cache), NEW k
  PROVE  /\ Kept(Without(k)) /\ \A i \in DOMAIN Without(k) : Without(k)[i].key # k
         /\ Places(k) # {} => Len(Without(k)) < MaxCached
<1> USE DEF Kept
<1>1. CASE Places(k) = {}
  <2>1. Without(k) = cache
    BY <1>1 DEF Without
  <2> QED BY <1>1, <2>1 DEF Places
<1>2. CASE Places(k) # {}
  <2> DEFINE n == CHOOSE i \in Places(k) : TRUE
             rest == RemoveAt(cache, n)
  <2>1. n \in DOMAIN cache /\ cache[n].key = k
    BY <1>2 DEF Places
  <2> HIDE DEF n
  <2>2. Without(k) = rest
    BY <1>2 DEF Without, n
  <2>3. Len(cache) \in Nat /\ DOMAIN cache = 1..Len(cache)
    OBVIOUS
  <2>4. /\ rest \in Seq(Entry) /\ Len(rest) = Len(cache) - 1
        /\ \A j \in 1..(Len(cache) - 1) : rest[j] = IF j < n THEN cache[j] ELSE cache[j + 1]
    BY <2>1, <2>3, RemovedAt
  <2> HIDE DEF rest
  <2>5. DOMAIN rest = 1..(Len(cache) - 1)
    BY <2>4
  <2> DEFINE from(j) == IF j < n THEN j ELSE j + 1
  <2>6. \A j \in DOMAIN rest : from(j) \in DOMAIN cache /\ from(j) # n /\ rest[j] = cache[from(j)]
    BY <2>1, <2>3, <2>4, <2>5
  <2>7. \A i, j \in DOMAIN rest : from(i) = from(j) => i = j
    BY <2>1, <2>3, <2>5
  <2> HIDE DEF from
  <2>8. KeysOnce(rest) /\ KeysFit(rest)
    BY <2>6, <2>7 DEF KeysOnce, KeysFit
  <2>9. \A i \in DOMAIN rest : rest[i].key # k
    BY <2>1, <2>6 DEF KeysOnce
  <2>10. Len(rest) < MaxCached /\ Len(rest) <= MaxCached
    BY <2>3, <2>4, ExplainAssumption
  <2> QED BY <2>2, <2>4, <2>8, <2>9, <2>10
<1> QED BY <1>1, <1>2

\* A new last entry leaves the keys distinct.
LEMMA Appended ==
  ASSUME NEW c \in Seq(Entry), KeysOnce(c), KeysFit(c), NEW e \in Entry,
         KeyOf[e.text.of] = e.key, \A i \in DOMAIN c : c[i].key # e.key
  PROVE  /\ Append(c, e) \in Seq(Entry) /\ Len(Append(c, e)) = Len(c) + 1
         /\ KeysOnce(Append(c, e)) /\ KeysFit(Append(c, e))
<1> DEFINE d == Append(c, e)
<1>1. /\ d \in Seq(Entry) /\ Len(d) = Len(c) + 1 /\ DOMAIN d = 1..(Len(c) + 1)
      /\ d[Len(c) + 1] = e /\ \A i \in 1..Len(c) : d[i] = c[i]
  OBVIOUS
<1>2. DOMAIN c = 1..Len(c) /\ Len(c) \in Nat
  OBVIOUS
<1> HIDE DEF d
<1>3. \A i \in DOMAIN d : i \in DOMAIN c \/ i = Len(c) + 1
  BY <1>1, <1>2
<1>4. KeysOnce(d) /\ KeysFit(d)
  BY <1>1, <1>2, <1>3 DEF KeysOnce, KeysFit
<1> QED BY <1>1, <1>4 DEF d

\* A hit moves its entry to the end of the cache.
LEMMA TouchedKept ==
  ASSUME Kept(cache), NEW k, NEW e \in Cached(k)
  PROVE  Kept(Touched(e)) /\ e \in Entry /\ e.key = k /\ KeyOf[e.text.of] = k
<1>1. PICK i \in DOMAIN cache : cache[i] = e /\ e.key = k
  BY DEF Cached, ToSet
<1>2. e \in Entry /\ KeyOf[e.text.of] = k
  BY <1>1 DEF Kept, KeysFit
<1>3. Places(e.key) # {}
  BY <1>1 DEF Places
<1> DEFINE rest == Without(e.key)
<1>4. Kept(rest) /\ Len(rest) < MaxCached /\ \A j \in DOMAIN rest : rest[j].key # e.key
  BY <1>3, Deleted
<1> HIDE DEF rest
<1>5. /\ Append(rest, e) \in Seq(Entry) /\ Len(Append(rest, e)) = Len(rest) + 1
      /\ KeysOnce(Append(rest, e)) /\ KeysFit(Append(rest, e))
  BY <1>1, <1>2, <1>4, Appended DEF Kept
<1>6. Len(rest) \in Nat
  BY <1>4 DEF Kept
<1>7. Kept(Append(rest, e))
  BY <1>4, <1>5, <1>6, ExplainAssumption DEF Kept
<1> QED BY <1>1, <1>2, <1>7 DEF Touched, rest

\* LLMCache.put: the oldest entry makes room for the new one.
LEMMA PutKept ==
  ASSUME Kept(cache), NEW k \in Key, NEW text \in Text, KeyOf[text.of] = k
  PROVE  Kept(Put(k, text))
<1> DEFINE rest == Without(k)
           e == [key |-> k, text |-> text, old |-> FALSE]
           all == Append(rest, e)
<1>1. Kept(rest) /\ \A j \in DOMAIN rest : rest[j].key # k
  BY Deleted
<1>2. e \in Entry /\ e.key = k /\ e.text = text
  BY DEF Entry
<1> HIDE DEF rest, e
<1>3. /\ all \in Seq(Entry) /\ Len(all) = Len(rest) + 1 /\ KeysOnce(all) /\ KeysFit(all)
  BY <1>1, <1>2, Appended DEF Kept
<1>4. Put(k, text) = IF Len(all) > MaxCached THEN Tail(all) ELSE all
  BY DEF Put, rest, e
<1>5. Len(rest) \in Nat /\ Len(rest) <= MaxCached
  BY <1>1 DEF Kept
<1> HIDE DEF all
<1>6. CASE ~(Len(all) > MaxCached)
  BY <1>3, <1>4, <1>5, <1>6, ExplainAssumption DEF Kept
<1>7. CASE Len(all) > MaxCached
  <2>1. /\ Tail(all) \in Seq(Entry) /\ Len(Tail(all)) = Len(rest)
        /\ DOMAIN Tail(all) = 1..Len(rest)
        /\ \A j \in 1..Len(rest) : Tail(all)[j] = all[j + 1] /\ j + 1 \in DOMAIN all
    BY <1>3, <1>5
  <2> DEFINE tl == Tail(all)
  <2> HIDE DEF tl
  <2>2. KeysOnce(tl) /\ KeysFit(tl)
    BY <1>3, <1>5, <2>1 DEF KeysOnce, KeysFit, tl
  <2> QED BY <1>4, <1>5, <1>7, <2>1, <2>2 DEF Kept, tl
<1> QED BY <1>6, <1>7

-----------------------------------------------------------------------------
(***************************************************************************)
(* The explanations.                                                       *)
(***************************************************************************)
CallRecord ==
  [pc : {"calling"}, ctx : Context, attempt : 1..MaxAttempts]
    \cup [pc : {"answered"}, text : Text] \cup {NoCall}

Calling == {w \in Worker : call[w].pc = "calling"}

\* A provider call that failed or is under way was asked for.
ExplainInv ==
  /\ Kept(cache) /\ call \in [Worker -> CallRecord]
  /\ counted.calls \in Nat /\ counted.fallbacks \in Nat
  /\ counted = [calls |-> counted.calls, fallbacks |-> counted.fallbacks]
  /\ configured \in BOOLEAN /\ asked \in 0..MaxCalls /\ failures \in Nat
  /\ failures + Cardinality(Calling) <= asked
  /\ CallsCounted

LEMMA CallingFinite == IsFiniteSet(Calling) /\ Cardinality(Calling) \in Nat
BY ExplainAssumption, FS_Subset, FS_CardinalityType DEF Calling

\* A thread's call goes on: c calls are counted, f of them as fallbacks, and a
\* explanations are asked for, d of which fail.
Moves(w, r, c, f, a, d) ==
  /\ call' = [call EXCEPT ![w] = r] /\ configured' = configured
  /\ counted' = [calls |-> counted.calls + c, fallbacks |-> counted.fallbacks + f]
  /\ asked' = asked + a /\ asked' <= MaxCalls /\ failures' = failures + d
  /\ c + (IF r.pc = "calling" THEN 1 ELSE 0)
       = a + d + (IF call[w].pc = "calling" THEN 1 ELSE 0)
  /\ d + (IF r.pc = "calling" THEN 1 ELSE 0)
       <= a + (IF call[w].pc = "calling" THEN 1 ELSE 0)
  /\ 2 * d <= f /\ f <= c

LEMMA Moving ==
  ASSUME ExplainInv, NEW w \in Worker, NEW r \in CallRecord, Kept(cache'),
         NEW c \in Nat, NEW f \in Nat, NEW a \in Nat, NEW d \in Nat,
         Moves(w, r, c, f, a, d)
  PROVE  ExplainInv'
<1> USE DEF ExplainInv, Moves
<1>1. call' \in [Worker -> CallRecord] /\ call'[w] = r
      /\ \A v \in Worker : v # w => call'[v] = call[v]
  OBVIOUS
<1>2. Calling \ {w} = Calling' \ {w} /\ (w \in Calling <=> call[w].pc = "calling")
      /\ (w \in Calling' <=> r.pc = "calling")
  BY <1>1 DEF Calling
<1>3. /\ IsFiniteSet(Calling') /\ Cardinality(Calling) \in Nat /\ Cardinality(Calling') \in Nat
      /\ Cardinality(Calling') + (IF w \in Calling THEN 1 ELSE 0)
           = Cardinality(Calling) + (IF w \in Calling' THEN 1 ELSE 0)
  BY ONLY <1>2, CallingFinite, OneMoves
<1> DEFINE n == IF r.pc = "calling" THEN 1 ELSE 0
           o == IF call[w].pc = "calling" THEN 1 ELSE 0
<1>4. n \in {0, 1} /\ o \in {0, 1} /\ Cardinality(Calling') + o = Cardinality(Calling) + n
  BY <1>2, <1>3
<1>5. c + n = a + d + o /\ d + n <= a + o
  OBVIOUS
<1> HIDE DEF n, o
<1>6. counted'.calls = counted.calls + c /\ counted'.fallbacks = counted.fallbacks + f
  OBVIOUS
<1>7. /\ counted.calls = failures + asked - Cardinality(Calling)
      /\ counted.fallbacks >= 2 * failures /\ counted.fallbacks <= counted.calls
  BY DEF CallsCounted, Calling
<1>8. /\ asked \in Nat /\ failures \in Nat /\ failures + Cardinality(Calling) <= asked
      /\ counted.calls \in Nat /\ counted.fallbacks \in Nat
  BY ExplainAssumption
<1>9. asked' \in 0..MaxCalls /\ failures' \in Nat /\ counted'.calls \in Nat
      /\ counted'.fallbacks \in Nat
  BY <1>6, <1>8, ExplainAssumption
<1>10. failures' + Cardinality(Calling') <= asked'
  BY <1>3, <1>4, <1>5, <1>8
<1>11. counted'.calls = failures' + asked' - Cardinality(Calling')
  <2>1. /\ asked' = asked + a /\ failures' = failures + d
        /\ c \in Nat /\ a \in Nat /\ d \in Nat
    OBVIOUS
  <2>3. n \in Nat /\ o \in Nat
    BY ONLY <1>4
  <2>4. failures + asked - Cardinality(Calling) + c
          = failures + d + (asked + a) - Cardinality(Calling')
    <3>1. Cardinality(Calling') = Cardinality(Calling) + n - o
      BY ONLY <1>3, <1>4, <2>3
    <3>2. c = a + d + o - n
      BY ONLY <1>5, <2>1, <2>3
    <3>3. Cardinality(Calling) \in Nat /\ failures \in Nat /\ asked \in Nat
      BY ONLY <1>3, <1>8
    <3> HIDE DEF Calling
    <3> QED BY ONLY <3>1, <3>2, <3>3, <2>1, <2>3
  <2> QED BY ONLY <2>1, <2>4, <1>6, <1>7
<1>12. counted'.fallbacks >= 2 * failures' /\ counted'.fallbacks <= counted'.calls
  BY <1>6, <1>7, <1>8
<1>13. CallsCounted'
  BY <1>11, <1>12 DEF CallsCounted, Calling
<1>14. counted' = [calls |-> counted'.calls, fallbacks |-> counted'.fallbacks]
  BY <1>6
<1> QED BY <1>1, <1>9, <1>10, <1>13, <1>14

LEMMA CallRecords ==
  /\ \A text \in Text : [pc |-> "answered", text |-> text] \in CallRecord
  /\ \A c \in Context : [pc |-> "calling", ctx |-> c, attempt |-> 1] \in CallRecord
  /\ \A c \in Context : \A how \in {"parsed", "freeform", "fallback"} :
       [of |-> c, how |-> how] \in Text
  /\ NoCall \in CallRecord
<1>1. 1 \in 1..MaxAttempts
  BY ExplainAssumption
<1>2. \A c \in Context : [pc |-> "calling", ctx |-> c, attempt |-> 1]
                          \in [pc : {"calling"}, ctx : Context, attempt : 1..MaxAttempts]
  BY <1>1
<1> QED BY <1>2 DEF CallRecord, Text

LEMMA CallTyped ==
  ASSUME ExplainInv, NEW w \in Worker
  PROVE  /\ call[w].pc \in {"idle", "calling", "answered"}
         /\ call[w].pc = "idle" <=> call[w] = NoCall
         /\ call[w].pc = "calling" =>
              /\ call[w] \in [pc : {"calling"}, ctx : Context, attempt : 1..MaxAttempts]
              /\ call[w].ctx \in Context /\ call[w].attempt \in 1..MaxAttempts
         /\ call[w].pc = "answered" => call[w].text \in Text
BY DEF ExplainInv, CallRecord, NoCall

\* An explanation fits a context: it is about one that has the same key.
Fits(text, c) == text \in Text /\ KeyOf[text.of] = KeyOf[c]

\* What each step of explain_alert leaves the thread with.
LEMMA HitKeeps ==
  ASSUME ExplainInv, NEW w \in Worker, NEW c \in Context, Hit(w, c)
  PROVE  /\ ExplainInv' /\ call[w] = NoCall
         /\ \E text : Fits(text, c)
                      /\ call' = [call EXCEPT ![w] = [pc |-> "answered", text |-> text]]
<1>1. PICK e \in Cached(KeyOf[c]) : cache' = Touched(e) /\ Answered(w, e.text)
  BY DEF Hit
<1> DEFINE r == [pc |-> "answered", text |-> e.text]
<1>2. Kept(cache') /\ e \in Entry /\ KeyOf[e.text.of] = KeyOf[c]
  BY <1>1, TouchedKept DEF ExplainInv
<1>3. e.text \in Text /\ call' = [call EXCEPT ![w] = r]
  BY <1>1, <1>2 DEF Entry, Answered
<1>4. r \in CallRecord /\ r.pc = "answered"
  BY <1>3, CallRecords
<1>5. /\ call[w] = NoCall /\ call[w].pc = "idle" /\ asked < MaxCalls
      /\ counted' = [calls |-> counted.calls + 1, fallbacks |-> counted.fallbacks + 0]
      /\ asked' = asked + 1 /\ UNCHANGED <<configured, failures>>
  BY DEF Hit, Record, NoCall
<1>6. failures' = failures + 0 /\ asked' <= MaxCalls
  BY <1>5, ExplainAssumption DEF ExplainInv
<1>7. ExplainInv'
  <2> HIDE DEF r
  <2>1. Moves(w, r, 1, 0, 1, 0)
    BY <1>3, <1>4, <1>5, <1>6 DEF Moves
  <2> QED BY <1>2, <1>4, <2>1, Moving
<1> QED BY <1>2, <1>3, <1>5, <1>7 DEF Fits

LEMMA MissKeeps ==
  ASSUME ExplainInv, NEW w \in Worker, NEW c \in Context, Miss(w, c)
  PROVE  /\ ExplainInv' /\ call[w] = NoCall
         /\ \/ \E text : Fits(text, c)
                         /\ call' = [call EXCEPT ![w] = [pc |-> "answered", text |-> text]]
            \/ call' = [call EXCEPT ![w] = [pc |-> "calling", ctx |-> c, attempt |-> 1]]
<1>1. /\ call[w] = NoCall /\ call[w].pc = "idle" /\ asked < MaxCalls
      /\ asked' = asked + 1 /\ UNCHANGED <<configured, failures>>
      /\ cache' = Without(KeyOf[c])
  BY DEF Miss, NoCall
<1>2. Kept(cache') /\ failures' = failures + 0 /\ asked' <= MaxCalls
  BY <1>1, Deleted, ExplainAssumption DEF ExplainInv
<1>3. CASE /\ UNCHANGED counted
           /\ call' = [call EXCEPT ![w] = [pc |-> "calling", ctx |-> c, attempt |-> 1]]
  <2> DEFINE r == [pc |-> "calling", ctx |-> c, attempt |-> 1]
  <2>1. r \in CallRecord /\ r.pc = "calling"
    BY CallRecords
  <2>2. counted' = [calls |-> counted.calls + 0, fallbacks |-> counted.fallbacks + 0]
    BY <1>3 DEF ExplainInv
  <2>3. ExplainInv'
    <3> HIDE DEF r
    <3>1. Moves(w, r, 0, 0, 1, 0)
      BY <1>1, <1>2, <1>3, <2>1, <2>2 DEF Moves, r
    <3> QED BY <1>2, <2>1, <3>1, Moving
  <2> QED BY <1>1, <1>3, <2>3
<1>4. CASE Record(1, 1) /\ Answered(w, [of |-> c, how |-> "fallback"])
  <2> DEFINE text == [of |-> c, how |-> "fallback"]
             r == [pc |-> "answered", text |-> text]
  <2>1. text \in Text /\ text.of = c
    BY CallRecords
  <2>2. call' = [call EXCEPT ![w] = r]
    BY <1>4 DEF Answered
  <2> HIDE DEF text
  <2>3. r \in CallRecord /\ r.pc = "answered"
    BY <2>1, CallRecords
  <2>4. counted' = [calls |-> counted.calls + 1, fallbacks |-> counted.fallbacks + 1]
    BY <1>4 DEF Record
  <2>5. ExplainInv'
    <3> HIDE DEF r
    <3>1. Moves(w, r, 1, 1, 1, 0)
      BY <1>1, <1>2, <2>2, <2>3, <2>4 DEF Moves
    <3> QED BY <1>2, <2>3, <3>1, Moving
  <2> QED BY <1>1, <2>1, <2>2, <2>5 DEF Fits
<1> QED BY <1>3, <1>4 DEF Miss

LEMMA CallStepKeeps ==
  ASSUME ExplainInv, NEW w \in Worker, CallStep(w)
  PROVE  /\ ExplainInv' /\ call[w].pc = "calling"
         /\ \/ \E text : Fits(text, call[w].ctx)
                         /\ call' = [call EXCEPT ![w] = [pc |-> "answered", text |-> text]]
            \/ \E r \in CallRecord : /\ r.pc = "calling" /\ r.ctx = call[w].ctx
                                     /\ call' = [call EXCEPT ![w] = r]
<1> DEFINE c == call[w].ctx
<1>1. call[w].pc = "calling"
  BY DEF CallStep, ProviderAnswers, ProviderUnreachable, ProviderFails
<1>2. /\ call[w] \in [pc : {"calling"}, ctx : Context, attempt : 1..MaxAttempts]
      /\ c \in Context /\ call[w].attempt \in 1..MaxAttempts
  BY <1>1, CallTyped
<1>3. /\ asked \in Nat /\ asked <= MaxCalls /\ KeyOf[c] \in Key
      /\ asked = asked + 0 /\ failures = failures + 0
  BY <1>2, ExplainAssumption DEF ExplainInv
<1>4. CASE ProviderAnswers(w)
  <2>1. PICK how \in {"parsed", "freeform"} :
          /\ cache' = Put(KeyOf[c], [of |-> c, how |-> how])
          /\ Answered(w, [of |-> c, how |-> how])
    BY <1>4 DEF ProviderAnswers
  <2> DEFINE text == [of |-> c, how |-> how]
             r == [pc |-> "answered", text |-> text]
  <2>2. text \in Text /\ text.of = c
    BY <1>2, CallRecords
  <2>3. call' = [call EXCEPT ![w] = r] /\ cache' = Put(KeyOf[c], text)
    BY <2>1 DEF Answered
  <2> HIDE DEF text, c
  <2>4. r \in CallRecord /\ r.pc = "answered"
    BY <2>2, CallRecords
  <2>5. Kept(cache')
    BY <1>3, <2>2, <2>3, PutKept DEF ExplainInv
  <2>6. /\ counted' = [calls |-> counted.calls + 1, fallbacks |-> counted.fallbacks + 0]
        /\ UNCHANGED <<configured, asked, failures>>
    BY <1>4 DEF ProviderAnswers, Record
  <2>7. ExplainInv'
    <3> HIDE DEF r
    <3>1. Moves(w, r, 1, 0, 0, 0)
      BY <1>1, <1>3, <2>3, <2>4, <2>6 DEF Moves
    <3> QED BY <2>4, <2>5, <3>1, Moving
  <2> QED BY <1>1, <2>2, <2>3, <2>7 DEF Fits, c
<1>5. CASE ProviderUnreachable(w)
  <2> DEFINE r == [call[w] EXCEPT !.attempt = @ + 1]
  <2>1. /\ call[w].attempt + 1 \in 1..MaxAttempts
        /\ call' = [call EXCEPT ![w] = r]
        /\ UNCHANGED <<cache, counted, configured, asked, failures>>
    BY <1>2, <1>5, ExplainAssumption DEF ProviderUnreachable
  <2>2. /\ r \in [pc : {"calling"}, ctx : Context, attempt : 1..MaxAttempts]
        /\ r.pc = "calling" /\ r.ctx = c
    BY <1>2, <2>1
  <2>3. r \in CallRecord
    BY <2>2 DEF CallRecord
  <2>4. counted' = [calls |-> counted.calls + 0, fallbacks |-> counted.fallbacks + 0]
    BY <2>1 DEF ExplainInv
  <2>5. Kept(cache')
    BY <2>1 DEF ExplainInv
  <2>6. ExplainInv'
    <3> HIDE DEF r, c
    <3>1. Moves(w, r, 0, 0, 0, 0)
      BY <1>1, <1>3, <2>1, <2>2, <2>4 DEF Moves
    <3> QED BY <2>3, <2>5, <3>1, Moving
  <2> QED BY <1>1, <2>1, <2>2, <2>3, <2>6
<1>6. CASE ProviderFails(w)
  <2> DEFINE text == [of |-> c, how |-> "fallback"]
             r == [pc |-> "answered", text |-> text]
  <2>1. text \in Text /\ text.of = c
    BY <1>2, CallRecords
  <2>2. call' = [call EXCEPT ![w] = r]
    BY <1>6 DEF ProviderFails, Answered
  <2> HIDE DEF text
  <2>3. r \in CallRecord /\ r.pc = "answered"
    BY <2>1, CallRecords
  <2>4. /\ counted' = [calls |-> counted.calls + 2, fallbacks |-> counted.fallbacks + 2]
        /\ failures' = failures + 1 /\ UNCHANGED <<cache, configured, asked>>
    BY <1>6 DEF ProviderFails, Record
  <2>5. Kept(cache')
    BY <2>4 DEF ExplainInv
  <2>6. ExplainInv'
    <3> HIDE DEF r, c
    <3>1. Moves(w, r, 2, 2, 0, 1)
      BY <1>1, <1>3, <2>2, <2>3, <2>4 DEF Moves
    <3> QED BY <2>3, <2>5, <3>1, Moving
  <2> QED BY <1>1, <2>1, <2>2, <2>6 DEF Fits
<1> QED BY <1>4, <1>5, <1>6 DEF CallStep

\* Time makes entries old, and nothing else.
LEMMA AgedKeeps ==
  ASSUME ExplainInv, TimePasses
  PROVE  ExplainInv' /\ call' = call
<1>1. /\ cache' = [i \in DOMAIN cache |-> [cache[i] EXCEPT !.old = TRUE]]
      /\ UNCHANGED <<call, counted, configured, asked, failures>>
  BY DEF TimePasses
<1>2. cache \in Seq(Entry) /\ Len(cache) \in Nat /\ DOMAIN cache = 1..Len(cache)
  BY DEF ExplainInv, Kept
<1>3. \A i \in DOMAIN cache : /\ cache'[i] \in Entry /\ cache'[i].key = cache[i].key
                              /\ cache'[i].text = cache[i].text
  <2>1. \A i \in DOMAIN cache : cache[i] \in Entry
    BY <1>2
  <2> QED BY <1>1, <2>1 DEF Entry
<1>4. DOMAIN cache' = 1..Len(cache) /\ Len(cache') = Len(cache) /\ cache' \in Seq(Entry)
  <2>1. cache' \in [1..Len(cache) -> Entry]
    BY <1>1, <1>2, <1>3
  <2> QED BY <1>2, <2>1
<1>5. Kept(cache')
  BY <1>2, <1>3, <1>4 DEF ExplainInv, Kept, KeysOnce, KeysFit
<1> QED BY <1>1, <1>5 DEF ExplainInv, CallsCounted, Calling

\* A thread takes its explanation away.
LEMMA TakenKeeps ==
  ASSUME ExplainInv, NEW w \in Worker, call[w].pc = "answered",
         call' = [call EXCEPT ![w] = NoCall],
         UNCHANGED <<cache, counted, configured, asked, failures>>
  PROVE  ExplainInv'
<1>1. NoCall \in CallRecord /\ NoCall.pc = "idle"
  BY CallRecords DEF NoCall
<1>2. /\ asked \in Nat /\ asked <= MaxCalls /\ asked' = asked + 0 /\ failures' = failures + 0
      /\ counted' = [calls |-> counted.calls + 0, fallbacks |-> counted.fallbacks + 0]
      /\ Kept(cache')
  BY ExplainAssumption DEF ExplainInv
<1>3. Moves(w, NoCall, 0, 0, 0, 0)
  BY <1>1, <1>2 DEF Moves
<1> QED BY <1>1, <1>2, <1>3, Moving

LEMMA NothingExplained ==
  ASSUME cache = <<>>, call = [w \in Worker |-> NoCall],
         counted = [calls |-> 0, fallbacks |-> 0],
         asked = 0, failures = 0, configured \in BOOLEAN
  PROVE  ExplainInv
<1>1. Calling = {} /\ Cardinality({}) = 0
  BY FS_EmptySet DEF Calling, NoCall
<1>2. Kept(cache)
  BY ExplainAssumption DEF Kept, KeysOnce, KeysFit
<1>3. call \in [Worker -> CallRecord]
  BY CallRecords
<1>4. CallsCounted
  <2>1. Cardinality({w \in Worker : call[w].pc = "calling"}) = 0
    BY <1>1 DEF Calling
  <2>2. counted.calls = 0 /\ counted.fallbacks = 0
    OBVIOUS
  <2> QED BY <2>1, <2>2 DEF CallsCounted
<1> QED BY <1>1, <1>2, <1>3, <1>4, ExplainAssumption DEF ExplainInv

\* The process starts again.
LEMMA ForgottenKeeps ==
  ASSUME ExplainInv, ExplainRestart
  PROVE  ExplainInv'
<1>0. /\ cache' = <<>> /\ call' = [w \in Worker |-> NoCall]
      /\ counted' = [calls |-> 0, fallbacks |-> 0]
      /\ asked' = 0 /\ failures' = 0 /\ UNCHANGED configured
  BY DEF ExplainRestart
<1>1. Calling' = {} /\ Cardinality({}) = 0
  BY <1>0, FS_EmptySet DEF Calling, NoCall
<1>2. Kept(cache')
  BY <1>0, ExplainAssumption DEF Kept, KeysOnce, KeysFit
<1>3. call' \in [Worker -> CallRecord]
  BY <1>0, CallRecords
<1>4. CallsCounted'
  <2>1. counted'.calls = 0 /\ counted'.fallbacks = 0
    BY <1>0
  <2>2. Cardinality({w \in Worker : call'[w].pc = "calling"}) = 0
    BY <1>1 DEF Calling
  <2> QED BY <1>0, <2>1, <2>2 DEF CallsCounted
<1>5. configured' \in BOOLEAN
  BY <1>0 DEF ExplainInv
<1>6. /\ counted'.calls \in Nat /\ counted'.fallbacks \in Nat
      /\ counted' = [calls |-> counted'.calls, fallbacks |-> counted'.fallbacks]
  BY <1>0
<1>7. asked' \in 0..MaxCalls /\ failures' \in Nat /\ failures' + Cardinality(Calling') <= asked'
  BY <1>0, <1>1, ExplainAssumption
<1> QED BY <1>2, <1>3, <1>4, <1>5, <1>6, <1>7 DEF ExplainInv

LEMMA ExplainKeeps ==
  ASSUME ExplainInv, [ExplainNext]_explainVars
  PROVE  ExplainInv'
<1>1. CASE \E w \in Worker, c \in Context : Hit(w, c) \/ Miss(w, c)
  BY <1>1, HitKeeps, MissKeeps
<1>2. CASE \E w \in Worker : CallStep(w)
  BY <1>2, CallStepKeeps
<1>3. CASE \E w \in Worker : Return(w)
  BY <1>3, TakenKeeps DEF Return
<1>4. CASE TimePasses
  BY <1>4, AgedKeeps
<1>5. CASE ExplainRestart
  BY <1>5, ForgottenKeeps
<1>6. CASE UNCHANGED explainVars
  BY <1>6 DEF explainVars, ExplainInv, CallsCounted, Calling
<1> QED BY <1>1, <1>2, <1>3, <1>4, <1>5, <1>6 DEF ExplainNext

LEMMA ExplainFollows == ExplainInv => ExplainTypeOK /\ CacheSound /\ CallsCounted
<1> SUFFICES ASSUME ExplainInv PROVE ExplainTypeOK /\ CacheSound /\ CallsCounted
  OBVIOUS
<1>1. cache \in Seq(Entry) /\ CacheSound
  BY CacheParts DEF ExplainInv, Kept
<1>2. \A w \in Worker :
        \/ call[w] = NoCall
        \/ /\ call[w].pc = "calling" /\ call[w].ctx \in Context
           /\ call[w].attempt \in 1..MaxAttempts
        \/ call[w].pc = "answered" /\ call[w].text \in Text
  BY CallTyped
<1>3. counted \in [calls : Nat, fallbacks : Nat]
  BY DEF ExplainInv
<1>4. failures \in 0..MaxCalls
  BY CallingFinite, ExplainAssumption DEF ExplainInv
<1> QED BY <1>1, <1>2, <1>3, <1>4 DEF ExplainTypeOK, ExplainInv

(***************************************************************************)
(* explain_alert by itself, whichever threads call it for whatever: the    *)
(* cache keeps its size and, under a key, one explanation of that key, and *)
(* the statistics count every explanation once and a failed provider call  *)
(* a second time (services/llm/cache.py, stats.py, __init__.py).           *)
(***************************************************************************)
THEOREM ExplanationsHold == ExplainSpec => [](ExplainTypeOK /\ CacheSound /\ CallsCounted)
<1>1. ExplainInit => ExplainInv
  BY NothingExplained DEF ExplainInit
<1> QED BY <1>1, ExplainKeeps, ExplainFollows, PTL DEF ExplainSpec

-----------------------------------------------------------------------------
(***************************************************************************)
(* The jobs and what they store.                                           *)
(***************************************************************************)
\* An analysis never gets as far as a score.
Explaining ==
  [pc : {"explaining"}, kind : {"score", "analyze"}, user : User, seen : 1..MaxEvents,
   alert : {0}]
Scoring ==
  [pc : {"scoring"}, kind : {"score"}, user : User, seen : 1..MaxEvents,
   alert : 0..MaxAlerts]
JobRecord == Explaining \cup Scoring \cup {NoJob}

\* What a score, or the job that will store it, says of its alert.
Made(x) ==
  /\ x.alert \in DOMAIN alerts /\ RiskOf[x.user][x.seen] = "grave"
  /\ alerts[x.alert].by = "score" /\ alerts[x.alert].user = x.user
  /\ alerts[x.alert].seen = x.seen

Names(j) == j.pc = "scoring" /\ j.alert # 0

JobsTyped ==
  /\ window \in [User -> [from : 1..(MaxEvents + 1), to : 0..MaxEvents]]
  /\ job \in [Worker -> JobRecord]
  /\ alerts \in Seq(Alert) /\ Len(alerts) <= MaxAlerts /\ scores \subseteq Score

\* An alert is on its way to at most one score: a job's or a stored one.
AlertsPlaced ==
  /\ \A w \in Worker :
       /\ (job[w].pc = "explaining" /\ job[w].kind = "score") => RiskIn(job[w]) = "grave"
       /\ Names(job[w]) => Made(job[w])
       /\ \A v \in Worker : (Names(job[v]) /\ Names(job[w]) /\ job[v].alert = job[w].alert)
                              => v = w
       /\ \A s \in scores : Names(job[w]) => s.alert # job[w].alert
  /\ AlertsCited

JobsInv == JobsTyped /\ AlertsPlaced

LEMMA JobTyped ==
  ASSUME JobsTyped, NEW w \in Worker
  PROVE  /\ job[w].pc \in {"idle", "explaining", "scoring"}
         /\ job[w].pc = "idle" <=> job[w] = NoJob
         /\ job[w].pc = "explaining" => job[w] \in Explaining
         /\ job[w].pc = "scoring" => job[w] \in Scoring
BY DEF JobsTyped, JobRecord, NoJob, Explaining, Scoring

LEMMA JobContext ==
  ASSUME NEW j \in Explaining \cup Scoring
  PROVE  ContextOf(j) \in Context
BY ScoringAssumption DEF ContextOf, Explaining, Scoring

LEMMA JobSet ==
  ASSUME JobsTyped, NEW w \in Worker, NEW r \in JobRecord, job' = [job EXCEPT ![w] = r]
  PROVE  /\ job' \in [Worker -> JobRecord] /\ job'[w] = r
         /\ \A v \in Worker : v # w => job'[v] = job[v]
BY DEF JobsTyped

\* A step of a job that names no alert, before or after.
LEMMA NamelessKeeps ==
  ASSUME JobsInv, NEW w \in Worker, NEW r \in JobRecord, job' = [job EXCEPT ![w] = r],
         ~Names(job[w]), ~Names(r),
         (r.pc = "explaining" /\ r.kind = "score") => RiskIn(r) = "grave",
         UNCHANGED <<window, alerts, scores, uncited>>
  PROVE  JobsInv'
<1>1. /\ job' \in [Worker -> JobRecord] /\ job'[w] = r
      /\ \A v \in Worker : v # w => job'[v] = job[v]
  BY JobSet DEF JobsInv
<1>2. JobsTyped'
  BY <1>1 DEF JobsInv, JobsTyped
<1>3. AlertsCited'
  <2>1. \A v \in Worker : job[v].pc = "scoring" /\ job[v].alert # 0 => job'[v] = job[v]
    BY <1>1 DEF Names
  <2>2. \A i \in DOMAIN alerts : i # 0
    BY DEF JobsInv, JobsTyped
  <2> QED BY <2>1, <2>2 DEF JobsInv, AlertsPlaced, AlertsCited
<1>4. \A v \in Worker : Names(job'[v]) => v # w /\ job'[v] = job[v] /\ Names(job[v])
  BY <1>1
<1>5. \A v \in Worker : Names(job'[v]) => Made(job[v])'
  BY <1>4 DEF JobsInv, AlertsPlaced, Made
<1>6. \A v \in Worker : (job'[v].pc = "explaining" /\ job'[v].kind = "score")
                          => RiskIn(job'[v]) = "grave"
  BY <1>1 DEF JobsInv, AlertsPlaced
<1>7. AlertsPlaced'
  BY <1>3, <1>4, <1>5, <1>6 DEF JobsInv, AlertsPlaced, RiskIn, Names
<1> QED BY <1>2, <1>7 DEF JobsInv

\* An alert is stored: of an analysis, or of a scoring that now names it.
LEMMA StoredAlert ==
  ASSUME JobsInv, NEW w \in Worker, job[w] \in Explaining, NEW r \in JobRecord,
         job' = [job EXCEPT ![w] = r], NEW a \in Alert,
         a.by = job[w].kind, a.user = job[w].user, a.seen = job[w].seen,
         alerts' = Append(alerts, a), Len(alerts) < MaxAlerts,
         IF job[w].kind = "score"
           THEN /\ r.pc = "scoring" /\ r.alert = Len(alerts) + 1
                /\ r.user = job[w].user /\ r.seen = job[w].seen
           ELSE r = NoJob,
         UNCHANGED <<window, scores, uncited>>
  PROVE  JobsInv'
<1> DEFINE n == Len(alerts) + 1
<1>1. /\ job' \in [Worker -> JobRecord] /\ job'[w] = r
      /\ \A v \in Worker : v # w => job'[v] = job[v]
  BY JobSet DEF JobsInv
<1>2. alerts \in Seq(Alert) /\ Len(alerts) \in Nat /\ scores \subseteq Score
  BY DEF JobsInv, JobsTyped
<1>3. /\ alerts' \in Seq(Alert) /\ Len(alerts') = n /\ DOMAIN alerts' = 1..n
      /\ DOMAIN alerts = 1..Len(alerts) /\ alerts'[n] = a
      /\ \A i \in DOMAIN alerts : i \in DOMAIN alerts' /\ alerts'[i] = alerts[i] /\ i # n
  BY <1>2
<1>4. JobsTyped'
  <2>1. Len(alerts') <= MaxAlerts
    BY <1>2, <1>3, ScoringAssumption
  <2> QED BY <1>1, <1>3, <2>1 DEF JobsInv, JobsTyped
<1>5. \A i \in DOMAIN alerts' : i \in DOMAIN alerts \/ i = n
  BY <1>2, <1>3
<1>6. job[w].pc = "explaining" /\ ~Names(job[w]) /\ n # 0
  BY <1>2 DEF Explaining, Names
<1>7. \A v \in Worker : Names(job[v]) => job[v].alert \in DOMAIN alerts /\ job'[v] = job[v]
  BY <1>1, <1>6 DEF JobsInv, AlertsPlaced, Made
<1>8. \A s \in scores : s.alert # 0 => s.alert \in DOMAIN alerts
  BY DEF JobsInv, AlertsPlaced, AlertsCited
<1>9. \A v \in Worker : Names(job'[v]) =>
        \/ v # w /\ job'[v] = job[v] /\ Names(job[v])
        \/ v = w /\ job'[v] = r /\ job[w].kind = "score"
  BY <1>1 DEF Names, NoJob
<1>10. job[w].kind = "score" => RiskOf[r.user][r.seen] = "grave"
  BY <1>6 DEF JobsInv, AlertsPlaced, RiskIn
<1> HIDE DEF n
<1>11. \A x : Made(x) => Made(x)'
  BY <1>3 DEF Made
<1>12. \A v \in Worker : Names(job'[v]) => Made(job[v])'
  <2> SUFFICES ASSUME NEW v \in Worker, Names(job'[v]) PROVE Made(job[v])'
    OBVIOUS
  <2>1. CASE v # w /\ job'[v] = job[v] /\ Names(job[v])
    BY <1>3, <2>1 DEF JobsInv, AlertsPlaced, Made
  <2>2. CASE v = w /\ job'[v] = r /\ job[w].kind = "score"
    <3>1. r.alert = n /\ n \in DOMAIN alerts'
      BY <1>2, <1>3, <2>2 DEF n
    <3> QED BY <1>3, <1>10, <2>2, <3>1 DEF Made
  <2> QED BY <1>9, <2>1, <2>2
<1>13. \A v, x \in Worker :
         (Names(job'[v]) /\ Names(job'[x]) /\ job'[v].alert = job'[x].alert) => v = x
  BY <1>3, <1>7, <1>9 DEF JobsInv, AlertsPlaced, n
<1>14. \A v \in Worker, s \in scores : Names(job'[v]) => s.alert # job'[v].alert
  BY <1>3, <1>6, <1>8, <1>9 DEF JobsInv, AlertsPlaced, n
<1>15. \A v \in Worker : (job'[v].pc = "explaining" /\ job'[v].kind = "score")
                           => RiskIn(job'[v]) = "grave"
  BY <1>1 DEF JobsInv, AlertsPlaced, NoJob
<1>16. AlertsCited'
  <2>1. \A s \in scores : s.alert # 0 => Made(s)'
    BY <1>3 DEF JobsInv, AlertsPlaced, AlertsCited, Made
  <2>2. \A i \in DOMAIN alerts' : alerts'[i].by = "score" =>
          \/ i \in uncited \/ \E s \in scores : s.alert = i
          \/ \E v \in Worker : job'[v].pc = "scoring" /\ job'[v].alert = i
    <3> SUFFICES ASSUME NEW i \in DOMAIN alerts', alerts'[i].by = "score"
                 PROVE  \/ i \in uncited \/ \E s \in scores : s.alert = i
                        \/ \E v \in Worker : job'[v].pc = "scoring" /\ job'[v].alert = i
      OBVIOUS
    <3>1. CASE i = n
      BY <1>1, <1>3, <3>1 DEF n
    <3>2. CASE i \in DOMAIN alerts
      <4>1. alerts[i].by = "score" /\ i # 0
        BY <1>3, <3>2
      <4>2. \A v \in Worker : job[v].pc = "scoring" /\ job[v].alert = i => job'[v] = job[v]
        BY <1>7, <4>1 DEF Names
      <4> QED BY <3>2, <4>1, <4>2 DEF JobsInv, AlertsPlaced, AlertsCited
    <3> QED BY <1>5, <3>1, <3>2
  <2> QED BY <2>1, <2>2 DEF JobsInv, AlertsPlaced, AlertsCited, Made
<1>17. AlertsPlaced'
  BY <1>12, <1>13, <1>14, <1>15, <1>16 DEF AlertsPlaced, RiskIn, Names
<1> QED BY <1>4, <1>17 DEF JobsInv

\* A job ends with its score, or without one.
LEMMA ScoredKeeps ==
  ASSUME JobsInv, NEW w \in Worker, job[w].pc = "scoring", Done(w),
         \/ /\ scores' = scores \cup {[user |-> job[w].user, seen |-> job[w].seen,
                                       alert |-> job[w].alert]}
            /\ uncited' = uncited
         \/ scores' = scores /\ uncited' = uncited \cup ({job[w].alert} \ {0}),
         UNCHANGED <<window, alerts>>
  PROVE  JobsInv'
<1> DEFINE sc == [user |-> job[w].user, seen |-> job[w].seen, alert |-> job[w].alert]
<1>1. /\ job' \in [Worker -> JobRecord] /\ job'[w] = NoJob
      /\ \A v \in Worker : v # w => job'[v] = job[v]
  BY JobSet DEF JobsInv, Done, JobRecord
<1>2. job[w] \in Scoring /\ sc \in Score /\ sc.alert = job[w].alert
      /\ sc.user = job[w].user /\ sc.seen = job[w].seen
  BY JobTyped DEF JobsInv, Scoring, Score
<1>3. Names(job[w]) <=> sc.alert # 0
  BY <1>2 DEF Names
<1>4. scores \subseteq scores' /\ scores' \subseteq scores \cup {sc}
      /\ (scores' = scores \cup {sc} \/ (sc.alert # 0 => sc.alert \in uncited'))
      /\ uncited \subseteq uncited'
  BY <1>2
<1> HIDE DEF sc
<1>5. JobsTyped'
  BY <1>1, <1>2, <1>4 DEF JobsInv, JobsTyped
<1>6. sc.alert # 0 => Made(sc)
  BY <1>2, <1>3 DEF JobsInv, AlertsPlaced, Made
<1>7. \A v \in Worker : Names(job'[v]) => v # w /\ job'[v] = job[v] /\ Names(job[v])
  BY <1>1 DEF Names, NoJob
<1>8. \A v \in Worker : Names(job'[v]) => Made(job[v])'
  BY <1>7 DEF JobsInv, AlertsPlaced, Made
<1>9. \A v \in Worker, s \in scores' : Names(job'[v]) => s.alert # job'[v].alert
  <2> SUFFICES ASSUME NEW v \in Worker, NEW s \in scores', Names(job'[v])
               PROVE  s.alert # job'[v].alert
    OBVIOUS
  <2>1. CASE s \in scores
    BY <1>7, <2>1 DEF JobsInv, AlertsPlaced
  <2>2. CASE s = sc
    BY <1>2, <1>3, <1>7, <2>2 DEF JobsInv, AlertsPlaced, Names
  <2> QED BY <1>4, <2>1, <2>2
<1>10. AlertsCited'
  <2>1. \A s \in scores' : s.alert # 0 => Made(s)
    BY <1>4, <1>6 DEF JobsInv, AlertsPlaced, AlertsCited, Made
  <2>2. \A s, t \in scores' : (s.alert = t.alert /\ s.alert # 0) => s = t
    <3>1. \A s \in scores : sc.alert # 0 => s.alert # sc.alert
      BY <1>2, <1>3 DEF JobsInv, AlertsPlaced
    <3> QED BY <1>4, <3>1 DEF JobsInv, AlertsPlaced, AlertsCited
  <2>3. \A i \in DOMAIN alerts : alerts[i].by = "score" =>
          \/ i \in uncited' \/ \E s \in scores' : s.alert = i
          \/ \E v \in Worker : job'[v].pc = "scoring" /\ job'[v].alert = i
    <3> SUFFICES ASSUME NEW i \in DOMAIN alerts, alerts[i].by = "score"
                 PROVE  \/ i \in uncited' \/ \E s \in scores' : s.alert = i
                        \/ \E v \in Worker : job'[v].pc = "scoring" /\ job'[v].alert = i
      OBVIOUS
    <3>1. CASE i \in uncited \/ \E s \in scores : s.alert = i
      BY <1>4, <3>1
    <3>2. CASE i = job[w].alert
      <4>1. sc.alert = i /\ i # 0
        BY <1>2, <3>2 DEF JobsInv, JobsTyped
      <4> QED BY <1>4, <4>1
    <3>3. CASE \E v \in Worker : v # w /\ job[v].pc = "scoring" /\ job[v].alert = i
      BY <1>1, <3>3
    <3> QED BY <3>1, <3>2, <3>3 DEF JobsInv, AlertsPlaced, AlertsCited
  <2> QED BY <2>1, <2>2, <2>3 DEF AlertsCited, Made
<1>11. \A v \in Worker : (job'[v].pc = "explaining" /\ job'[v].kind = "score")
                           => RiskIn(job'[v]) = "grave"
  BY <1>1 DEF JobsInv, AlertsPlaced, NoJob
<1>12. AlertsPlaced'
  BY <1>7, <1>8, <1>9, <1>10, <1>11 DEF JobsInv, AlertsPlaced, RiskIn, Names
<1> QED BY <1>5, <1>12 DEF JobsInv

\* No job survives a restart, and an alert that had no score yet gets none.
LEMMA RestartedKeeps ==
  ASSUME JobsInv, Restart
  PROVE  JobsInv'
<1>1. /\ job' = [w \in Worker |-> NoJob] /\ UNCHANGED <<window, alerts, scores>>
      /\ uncited' = uncited \cup
           ({job[w].alert : w \in {v \in Worker : job[v].pc = "scoring"}} \ {0})
  BY DEF Restart
<1>2. job' \in [Worker -> JobRecord] /\ \A w \in Worker : job'[w].pc = "idle"
  BY <1>1 DEF JobRecord, NoJob
<1>3. JobsTyped'
  BY <1>1, <1>2 DEF JobsInv, JobsTyped
<1>4. \A w \in Worker : ~Names(job'[w])
  BY <1>2 DEF Names
<1>5. AlertsCited'
  <2>1. \A i \in DOMAIN alerts : i # 0
    BY DEF JobsInv, JobsTyped
  <2> QED BY <1>1, <2>1 DEF JobsInv, AlertsPlaced, AlertsCited
<1>6. AlertsPlaced'
  BY <1>2, <1>4, <1>5 DEF AlertsPlaced, Names
<1> QED BY <1>3, <1>6 DEF JobsInv

-----------------------------------------------------------------------------
(***************************************************************************)
(* The statistics of scorings.                                             *)
(***************************************************************************)
\* Scorings under way, and those whose alert is stored already.
IsScore(j) == j # NoJob /\ j.kind = "score"
IsNaming(j) == IsScore(j) /\ j.alert # 0

Active == {w \in Worker : job[w] # NoJob /\ job[w].kind = "score"}
Naming == {w \in Active : job[w].alert # 0}

StatsRecord ==
  [scored : Nat, anomalies : Nat, alerts : Nat, errors : Nat, empty : Nat, below : Nat]

StatsInv ==
  /\ sstats \in StatsRecord /\ begun \in Nat /\ made \in Nat /\ unstored \in Nat
  /\ sstats.scored + sstats.empty + sstats.errors + Cardinality(Active) = begun + unstored
  /\ sstats.alerts + Cardinality(Naming) = made
  /\ sstats.alerts <= sstats.anomalies /\ sstats.anomalies <= sstats.scored

One(p) == IF p THEN 1 ELSE 0

\* A job ends as r: sc is scored, fl found nothing or failed, an are anomalies,
\* al have an alert; b are begun, m alerts made and u scores not stored.
Counts(w, r, sc, fl, an, al, b, m, u) ==
  /\ job' = [job EXCEPT ![w] = r]
  /\ sstats' \in StatsRecord /\ sstats'.scored = sstats.scored + sc
  /\ sstats'.empty + sstats'.errors = sstats.empty + sstats.errors + fl
  /\ sstats'.anomalies = sstats.anomalies + an /\ sstats'.alerts = sstats.alerts + al
  /\ begun' = begun + b /\ made' = made + m /\ unstored' = unstored + u
  /\ sc + fl + One(IsScore(r)) = b + u + One(IsScore(job[w]))
  /\ al + One(IsNaming(r)) = m + One(IsNaming(job[w]))
  /\ al <= an /\ an <= sc

LEMMA Counting ==
  ASSUME StatsInv, JobsTyped, NEW w \in Worker, NEW r \in JobRecord,
         NEW sc \in Nat, NEW fl \in Nat, NEW an \in Nat, NEW al \in Nat,
         NEW b \in Nat, NEW m \in Nat, NEW u \in Nat,
         Counts(w, r, sc, fl, an, al, b, m, u)
  PROVE  StatsInv'
<1> DEFINE s0 == One(IsScore(job[w]))
           s1 == One(IsScore(r))
           n0 == One(IsNaming(job[w]))
           n1 == One(IsNaming(r))
<1>1. job'[w] = r /\ \A v \in Worker : v # w => job'[v] = job[v]
  BY JobSet DEF Counts
<1>2. /\ Active \ {w} = Active' \ {w} /\ Naming \ {w} = Naming' \ {w}
      /\ (w \in Active <=> IsScore(job[w])) /\ (w \in Active' <=> IsScore(r))
      /\ (w \in Naming <=> IsNaming(job[w])) /\ (w \in Naming' <=> IsNaming(r))
  BY <1>1 DEF Active, Naming, IsScore, IsNaming
<1>3. IsFiniteSet(Active) /\ IsFiniteSet(Naming)
  BY ExplainAssumption, FS_Subset DEF Active, Naming
<1>4. /\ Cardinality(Active) \in Nat /\ Cardinality(Active') \in Nat
      /\ Cardinality(Active') + s0 = Cardinality(Active) + s1
  BY ONLY <1>2, <1>3, OneMoves DEF One
<1>5. /\ Cardinality(Naming) \in Nat /\ Cardinality(Naming') \in Nat
      /\ Cardinality(Naming') + n0 = Cardinality(Naming) + n1
  BY ONLY <1>2, <1>3, OneMoves DEF One
<1>6. s0 \in Nat /\ s1 \in Nat /\ n0 \in Nat /\ n1 \in Nat
  BY DEF One
<1> HIDE DEF s0, s1, n0, n1
<1> DEFINE A0 == Cardinality(Active)
           A1 == Cardinality(Active')
           N0 == Cardinality(Naming)
           N1 == Cardinality(Naming')
<1>7. /\ A0 \in Nat /\ A1 \in Nat /\ A1 + s0 = A0 + s1
      /\ N0 \in Nat /\ N1 \in Nat /\ N1 + n0 = N0 + n1
  BY <1>4, <1>5
<1>8. /\ sstats.scored + sstats.empty + sstats.errors + A0 = begun + unstored
      /\ sstats.alerts + N0 = made
      /\ sstats.alerts <= sstats.anomalies /\ sstats.anomalies <= sstats.scored
  BY DEF StatsInv
<1> HIDE DEF A0, A1, N0, N1
<1>9. /\ sstats.scored \in Nat /\ sstats.empty \in Nat /\ sstats.errors \in Nat
      /\ sstats.alerts \in Nat /\ sstats.anomalies \in Nat
      /\ begun \in Nat /\ made \in Nat /\ unstored \in Nat
  BY DEF StatsInv, StatsRecord
<1>10. /\ sstats' \in StatsRecord /\ sstats'.empty \in Nat /\ sstats'.errors \in Nat
  BY DEF Counts, StatsRecord
<1>11. /\ sstats'.scored = sstats.scored + sc
       /\ sstats'.empty + sstats'.errors = sstats.empty + sstats.errors + fl
       /\ sstats'.anomalies = sstats.anomalies + an /\ sstats'.alerts = sstats.alerts + al
       /\ begun' = begun + b /\ made' = made + m /\ unstored' = unstored + u
       /\ sc + fl + s1 = b + u + s0 /\ al + n1 = m + n0 /\ al <= an /\ an <= sc
  BY DEF Counts, s0, s1, n0, n1
<1>12. begun' \in Nat /\ made' \in Nat /\ unstored' \in Nat
  BY <1>9, <1>11
<1> DEFINE sc0 == sstats.scored
           em0 == sstats.empty
           er0 == sstats.errors
           al0 == sstats.alerts
           em1 == sstats'.empty
           er1 == sstats'.errors
<1>16. /\ sc0 \in Nat /\ em0 \in Nat /\ er0 \in Nat /\ al0 \in Nat
      /\ em1 \in Nat /\ er1 \in Nat /\ em1 + er1 = em0 + er0 + fl
      /\ sc0 + em0 + er0 + A0 = begun + unstored /\ al0 + N0 = made
      /\ sstats'.scored = sc0 + sc /\ sstats'.alerts = al0 + al
  BY <1>8, <1>9, <1>10, <1>11
<1>17. /\ sc \in Nat /\ fl \in Nat /\ al \in Nat /\ b \in Nat /\ m \in Nat /\ u \in Nat
      /\ sc + fl + s1 = b + u + s0 /\ al + n1 = m + n0
  BY <1>11
<1>18. begun \in Nat /\ made \in Nat /\ unstored \in Nat
  BY <1>9
<1> HIDE DEF sc0, em0, er0, al0, em1, er1
<1>13. sstats'.scored + sstats'.empty + sstats'.errors + A1 = begun' + unstored'
  <2>1. A1 = A0 + s1 - s0
    BY ONLY <1>6, <1>7
  <2>2. fl = b + u + s0 - sc - s1
    BY ONLY <1>6, <1>17
  <2>3. unstored = sc0 + em0 + er0 + A0 - begun
    BY ONLY <1>7, <1>16, <1>18
  <2>4. em1 = em0 + er0 + fl - er1
    BY ONLY <1>16, <1>17
  <2>5. sc0 + sc + em1 + er1 + A1 = begun + b + (unstored + u)
    BY ONLY <1>6, <1>7, <1>16, <1>17, <1>18, <2>1, <2>2, <2>3, <2>4
  <2> QED BY ONLY <1>11, <1>16, <2>5 DEF em1, er1
<1>14. sstats'.alerts + N1 = made'
  <2>1. al0 + al + N1 = made + m
    <3>1. N1 = N0 + n1 - n0
      BY ONLY <1>6, <1>7
    <3>2. al = m + n0 - n1
      BY ONLY <1>6, <1>17
    <3> QED BY ONLY <1>6, <1>7, <1>16, <1>17, <3>1, <3>2
  <2> QED BY ONLY <1>11, <1>16, <2>1
<1>15. sstats'.alerts <= sstats'.anomalies /\ sstats'.anomalies <= sstats'.scored
  BY <1>8, <1>9, <1>11
<1> QED BY <1>10, <1>12, <1>13, <1>14, <1>15 DEF StatsInv, A1, N1

LEMMA StatsStay ==
  ASSUME StatsInv, UNCHANGED <<job, sstats, begun, made, unstored>>
  PROVE  StatsInv'
BY DEF StatsInv, Active, Naming

\* The parts of the statistics are those of CountsAddUp.
LEMMA StatsFollow == StatsInv /\ CallsCounted => CountsAddUp
BY DEF StatsInv, CountsAddUp, Active, Naming

\* The counters at the end of score_user.
LEMMA ScoredCounts ==
  ASSUME StatsInv, JobsInv, NEW w \in Worker, job[w].pc = "scoring", NEW failed \in BOOLEAN,
         CountScored(w, failed), Done(w),
         begun' = begun, made' = made,
         unstored' = IF failed THEN unstored + 1 ELSE unstored
  PROVE  StatsInv'
<1> DEFINE j == job[w]
           an == IF RiskIn(j) = "normal" THEN 0 ELSE 1
           al == IF j.alert = 0 THEN 0 ELSE 1
           fl == IF failed THEN 1 ELSE 0
           x == [sstats EXCEPT !.scored = sstats.scored + 1]
           y == [x EXCEPT !.errors = sstats.errors + fl]
           z == [y EXCEPT !.anomalies = sstats.anomalies + an]
<1>1. j \in Scoring /\ j # NoJob /\ j.kind = "score"
  BY JobTyped DEF JobsInv, Scoring, NoJob
<1>2. /\ sstats \in StatsRecord /\ sstats.scored \in Nat /\ sstats.errors \in Nat
      /\ sstats.anomalies \in Nat /\ sstats.alerts \in Nat /\ sstats.empty \in Nat
  BY DEF StatsInv, StatsRecord
<1>3. an \in {0, 1} /\ al \in {0, 1} /\ fl \in {0, 1} /\ al <= an
  <2>1. j.alert # 0 => RiskIn(j) = "grave"
    BY DEF JobsInv, AlertsPlaced, Names, Made, RiskIn
  <2> QED BY <2>1
<1>4. sstats' = [z EXCEPT !.alerts = sstats.alerts + al]
  <2>1. /\ (IF failed THEN sstats.errors + 1 ELSE sstats.errors) = sstats.errors + fl
        /\ (IF RiskIn(j) = "normal" THEN sstats.anomalies ELSE sstats.anomalies + 1)
             = sstats.anomalies + an
        /\ (IF j.alert = 0 THEN sstats.alerts ELSE sstats.alerts + 1) = sstats.alerts + al
    BY <1>2
  <2> QED BY <2>1 DEF CountScored
<1> HIDE DEF an, al, fl, x, y, z
<1>5. /\ x \in StatsRecord /\ x.scored = sstats.scored + 1 /\ x.errors = sstats.errors
      /\ x.anomalies = sstats.anomalies /\ x.alerts = sstats.alerts /\ x.empty = sstats.empty
  BY <1>2 DEF StatsRecord, x
<1>6. /\ y \in StatsRecord /\ y.scored = x.scored /\ y.errors = sstats.errors + fl
      /\ y.anomalies = x.anomalies /\ y.alerts = x.alerts /\ y.empty = x.empty
  BY <1>2, <1>3, <1>5 DEF StatsRecord, y
<1>7. /\ z \in StatsRecord /\ z.scored = y.scored /\ z.errors = y.errors
      /\ z.anomalies = sstats.anomalies + an /\ z.alerts = y.alerts /\ z.empty = y.empty
  BY <1>2, <1>3, <1>6 DEF StatsRecord, z
<1>8. /\ sstats' \in StatsRecord /\ sstats'.scored = z.scored /\ sstats'.errors = z.errors
      /\ sstats'.anomalies = z.anomalies /\ sstats'.empty = z.empty
      /\ sstats'.alerts = sstats.alerts + al
  BY <1>2, <1>3, <1>4, <1>7 DEF StatsRecord
<1>9. /\ sstats'.scored = sstats.scored + 1 /\ sstats'.anomalies = sstats.anomalies + an
      /\ sstats'.empty + sstats'.errors = sstats.empty + sstats.errors + fl
  BY <1>2, <1>3, <1>5, <1>6, <1>7, <1>8
<1>10. One(IsScore(NoJob)) = 0 /\ One(IsNaming(NoJob)) = 0 /\ One(IsScore(j)) = 1
       /\ One(IsNaming(j)) = al
  BY <1>1 DEF One, IsScore, IsNaming, al
<1>11. /\ job' = [job EXCEPT ![w] = NoJob] /\ unstored' = unstored + fl
       /\ begun' = begun + 0 /\ made' = made + 0
  BY DEF Done, fl, StatsInv
<1> HIDE DEF j
<1>12. Counts(w, NoJob, 1, fl, an, al, 0, 0, fl)
  <2>1. 1 + fl + 0 = 0 + fl + 1 /\ al + 0 = 0 + al /\ al <= an /\ an <= 1
    BY <1>3
  <2> QED BY <1>8, <1>9, <1>10, <1>11, <2>1 DEF Counts, j
<1>13. NoJob \in JobRecord /\ fl \in Nat /\ an \in Nat /\ al \in Nat
  BY <1>3 DEF JobRecord
<1> QED BY <1>12, <1>13, Counting DEF JobsInv

-----------------------------------------------------------------------------
(***************************************************************************)
(* A thread calls for the explanation of the job it is at, and an alert    *)
(* keeps the one that its job was given.                                   *)
(***************************************************************************)
CallsPlaced ==
  \A w \in Worker :
    /\ call[w].pc # "idle" => job[w].pc = "explaining"
    /\ call[w].pc = "calling" => call[w].ctx = ContextOf(job[w])
    /\ call[w].pc = "answered" => Fits(call[w].text, ContextOf(job[w]))

AlertsExplained ==
  \A i \in DOMAIN alerts :
    KeyOf[alerts[i].text.of] =
      KeyOf[[kind |-> alerts[i].by, user |-> alerts[i].user, seen |-> alerts[i].seen]]

(***************************************************************************)
(* The inductive invariant: beside what is checked, an alert that a job    *)
(* names is the one it stored and nobody else's (AlertsPlaced), a call is  *)
(* about the job its thread is at (CallsPlaced), and no more calls fail    *)
(* than are asked for (ExplainInv).                                        *)
(***************************************************************************)
ScoringInv ==
  ExplainInv /\ JobsInv /\ StatsInv /\ CallsPlaced /\ AlertsExplained

\* The parts together say what is checked.
LEMMA ScoringFollows ==
  ScoringInv => TypeOK /\ AlertsCited /\ ExplanationFits /\ CountsAddUp
<1> SUFFICES ASSUME ScoringInv PROVE TypeOK /\ AlertsCited /\ ExplanationFits /\ CountsAddUp
  OBVIOUS
<1>1. CacheSound
  BY ExplainFollows DEF ScoringInv
<1>2. ExplainTypeOK
  BY ExplainFollows DEF ScoringInv
<1>3. \A w \in Worker :
        \/ job[w] = NoJob
        \/ /\ job[w].pc \in {"explaining", "scoring"}
           /\ ContextOf(job[w]) \in Context /\ job[w].alert \in 0..Len(alerts)
  <2> SUFFICES ASSUME NEW w \in Worker, job[w] # NoJob
               PROVE  /\ job[w].pc \in {"explaining", "scoring"}
                      /\ ContextOf(job[w]) \in Context /\ job[w].alert \in 0..Len(alerts)
    OBVIOUS
  <2>1. /\ job[w].pc \in {"explaining", "scoring"} /\ job[w] \in Explaining \cup Scoring
        /\ job[w].pc = "explaining" => job[w] \in Explaining
        /\ job[w].pc = "scoring" => job[w] \in Scoring
    BY JobTyped DEF ScoringInv, JobsInv
  <2>2. Len(alerts) \in Nat /\ DOMAIN alerts = 1..Len(alerts)
    BY DEF ScoringInv, JobsInv, JobsTyped
  <2>3. job[w].alert \in 0..Len(alerts)
    <3>1. CASE job[w].alert = 0
      BY <2>2, <3>1
    <3>2. CASE job[w].alert # 0
      BY <2>1, <2>2, <3>2 DEF ScoringInv, JobsInv, AlertsPlaced, Names, Made, Explaining
    <3> QED BY <3>1, <3>2
  <2> QED BY <2>1, <2>3, JobContext
<1>4. \A w \in Worker : call[w] # NoCall => job[w].pc = "explaining"
  BY CallTyped DEF ScoringInv, CallsPlaced
<1>5. sstats \in [DOMAIN ZeroStats -> Nat]
  BY DEF ScoringInv, StatsInv, StatsRecord, ZeroStats
<1>6. TypeOK
  BY <1>2, <1>3, <1>4, <1>5 DEF TypeOK, ScoringInv, JobsInv, JobsTyped
<1>7. AlertsCited
  BY DEF ScoringInv, JobsInv, AlertsPlaced
<1>8. ExplanationFits
  BY <1>1 DEF ExplanationFits, ScoringInv, AlertsExplained
<1>9. CountsAddUp
  BY StatsFollow DEF ScoringInv, ExplainInv
<1> QED BY <1>6, <1>7, <1>8, <1>9

LEMMA ScoringStarts == Init => ScoringInv
<1> SUFFICES ASSUME Init PROVE ScoringInv
  OBVIOUS
<1> USE DEF Init
<1>1. ExplainInv
  BY NothingExplained DEF ExplainInit
<1>2. \A w \in Worker : job[w].pc = "idle" /\ job[w] = NoJob
  BY DEF NoJob
<1>3. JobsTyped
  <2>1. window \in [User -> [from : 1..(MaxEvents + 1), to : 0..MaxEvents]]
    <3>1. 1 \in 1..(MaxEvents + 1) /\ 0 \in 0..MaxEvents
      BY ScoringAssumption
    <3> QED BY <3>1
  <2>2. Len(alerts) <= MaxAlerts /\ alerts \in Seq(Alert)
    BY ScoringAssumption
  <2> QED BY <2>1, <2>2 DEF JobsTyped, JobRecord
<1>4. DOMAIN alerts = {}
  OBVIOUS
<1>5. AlertsPlaced
  BY <1>2, <1>4 DEF AlertsPlaced, AlertsCited, Names
<1>6. StatsInv
  <2>1. Active = {} /\ Naming = {} /\ Cardinality({}) = 0
    BY <1>2, FS_EmptySet DEF Active, Naming
  <2>2. sstats \in StatsRecord
    BY DEF StatsRecord, ZeroStats
  <2>3. sstats.scored = 0 /\ sstats.empty = 0 /\ sstats.errors = 0 /\ sstats.alerts = 0
        /\ sstats.anomalies = 0
    BY DEF ZeroStats
  <2> QED BY <2>1, <2>2, <2>3 DEF StatsInv
<1>7. CallsPlaced
  BY DEF CallsPlaced, ExplainInit, NoCall
<1>8. AlertsExplained
  BY <1>4 DEF AlertsExplained
<1> QED BY <1>1, <1>3, <1>5, <1>6, <1>7, <1>8 DEF ScoringInv, JobsInv

\* The thread that moves has no call any more.
LEMMA CallGone ==
  ASSUME CallsPlaced, NEW w \in Worker, call'[w] = NoCall,
         \A v \in Worker : v # w => call'[v] = call[v] /\ job'[v] = job[v]
  PROVE  CallsPlaced'
<1>1. call'[w].pc = "idle"
  BY DEF NoCall
<1> QED BY <1>1 DEF CallsPlaced, ContextOf, Fits

\* A job ahead of its explanation: it begins, or the thread had no call.
LEMMA JobMoves ==
  ASSUME ScoringInv, NEW w \in Worker, job[w].pc # "explaining", NEW r \in JobRecord,
         job' = [job EXCEPT ![w] = r], UNCHANGED explainVars
  PROVE  CallsPlaced' /\ ExplainInv'
<1>1. call' = call /\ call[w].pc = "idle"
  BY DEF explainVars, ScoringInv, CallsPlaced
<1>2. call'[w] = NoCall
  BY <1>1, CallTyped DEF ScoringInv
<1>3. \A v \in Worker : v # w => call'[v] = call[v] /\ job'[v] = job[v]
  BY <1>1, JobSet DEF ScoringInv, JobsInv
<1>4. CallsPlaced'
  BY <1>2, <1>3, CallGone DEF ScoringInv
<1>5. ExplainInv'
  BY DEF explainVars, ScoringInv, ExplainInv, CallsCounted, Calling
<1> QED BY <1>4, <1>5

LEMMA CallMoves ==
  ASSUME ScoringInv, NEW w \in Worker, job[w].pc = "explaining",
         UNCHANGED scoringVars, ExplainInv', NEW r, call' = [call EXCEPT ![w] = r],
         \/ r.pc = "calling" /\ r.ctx = ContextOf(job[w])
         \/ r.pc = "answered" /\ Fits(r.text, ContextOf(job[w]))
  PROVE  ScoringInv'
<1>1. /\ UNCHANGED <<window, job, alerts, scores, sstats, begun, made, unstored, uncited>>
  BY DEF scoringVars
<1>2. JobsInv' /\ AlertsExplained'
  BY <1>1 DEF ScoringInv, JobsInv, JobsTyped, AlertsPlaced, AlertsCited, Made, Names,
    RiskIn, AlertsExplained
<1>3. StatsInv'
  BY <1>1, StatsStay DEF ScoringInv
<1>4. call'[w] = r /\ \A v \in Worker : v # w => call'[v] = call[v]
  BY DEF ScoringInv, ExplainInv
<1>5. CallsPlaced'
  BY <1>1, <1>4 DEF ScoringInv, CallsPlaced, ContextOf, Fits
<1> QED BY <1>2, <1>3, <1>5 DEF ScoringInv

\* The last event of a window that is not empty.
LEMMA SeenTyped ==
  ASSUME JobsTyped, NEW u \in User, ~Empty(u)
  PROVE  SeenOf(u) \in 1..MaxEvents
<1>1. /\ window[u].from \in Nat /\ window[u].to \in Nat /\ window[u].from >= 1
      /\ window[u].to <= MaxEvents /\ window[u].from <= window[u].to
  BY ScoringAssumption DEF JobsTyped, Empty
<1> QED BY <1>1, ScoringAssumption DEF SeenOf

\* Events come and get old.
LEMMA WindowKeeps ==
  ASSUME ScoringInv, NEW u \in User, Arrive(u) \/ Age(u)
  PROVE  ScoringInv'
<1>1. UNCHANGED <<job, alerts, scores, sstats, begun, made, unstored, uncited, explainVars>>
  BY DEF Arrive, Age
<1>2. window' \in [User -> [from : 1..(MaxEvents + 1), to : 0..MaxEvents]]
  <2>1. /\ window \in [User -> [from : 1..(MaxEvents + 1), to : 0..MaxEvents]]
        /\ window[u].from \in 1..(MaxEvents + 1) /\ window[u].to \in 0..MaxEvents
    BY DEF ScoringInv, JobsInv, JobsTyped
  <2>2. CASE Arrive(u)
    <3>1. window[u].to + 1 \in 0..MaxEvents
      BY <2>1, <2>2, ScoringAssumption DEF Arrive
    <3> QED BY <2>1, <2>2, <3>1 DEF Arrive
  <2>3. CASE Age(u)
    <3>1. window[u].from + 1 \in 1..(MaxEvents + 1)
      BY <2>1, <2>3, ScoringAssumption DEF Age
    <3> QED BY <2>1, <2>3, <3>1 DEF Age
  <2> QED BY <2>2, <2>3
<1>3. JobsInv' /\ AlertsExplained'
  BY <1>1, <1>2 DEF ScoringInv, JobsInv, JobsTyped, AlertsPlaced, AlertsCited, Made, Names,
    RiskIn, AlertsExplained
<1>4. StatsInv'
  BY <1>1, StatsStay DEF ScoringInv
<1>5. ExplainInv' /\ CallsPlaced'
  BY <1>1 DEF explainVars, ScoringInv, ExplainInv, CallsCounted, Calling, CallsPlaced,
    ContextOf, Fits
<1> QED BY <1>3, <1>4, <1>5 DEF ScoringInv
-----------------------------------------------------------------------------
(***************************************************************************)
(* Every step keeps the inductive invariant: one lemma an action.          *)
(***************************************************************************)
\* score_user finds no events, or fails to score them.
LEMMA NothingKeeps ==
  ASSUME ScoringInv, NEW w \in Worker, NEW u \in User, ScoreNothing(w, u)
  PROVE  ScoringInv'
<1>1. /\ job[w] = NoJob /\ begun' = begun + 1
      /\ UNCHANGED <<window, job, alerts, scores, made, unstored, uncited, explainVars>>
  BY DEF ScoreNothing, Begun, Idle
<1>2. /\ sstats \in StatsRecord /\ sstats.empty \in Nat /\ sstats.errors \in Nat
      /\ sstats.scored \in Nat /\ sstats.anomalies \in Nat /\ sstats.alerts \in Nat
      /\ made \in Nat /\ unstored \in Nat
  BY DEF ScoringInv, StatsInv, StatsRecord
<1>3. /\ sstats' \in StatsRecord /\ sstats'.scored = sstats.scored
      /\ sstats'.empty + sstats'.errors = sstats.empty + sstats.errors + 1
      /\ sstats'.anomalies = sstats.anomalies /\ sstats'.alerts = sstats.alerts
  <2>1. CASE sstats' = [sstats EXCEPT !.empty = @ + 1]
    BY <1>2, <2>1 DEF StatsRecord
  <2>2. CASE sstats' = [sstats EXCEPT !.errors = @ + 1]
    BY <1>2, <2>2 DEF StatsRecord
  <2> QED BY <2>1, <2>2 DEF ScoreNothing
<1>4. StatsInv'
  <2>1. NoJob \in JobRecord /\ job' = [job EXCEPT ![w] = NoJob]
    BY <1>1 DEF JobRecord, ScoringInv, JobsInv, JobsTyped
  <2>2. /\ One(IsScore(NoJob)) = 0 /\ One(IsNaming(NoJob)) = 0
        /\ One(IsScore(job[w])) = 0 /\ One(IsNaming(job[w])) = 0
    BY <1>1 DEF IsScore, IsNaming, One
  <2>3. /\ sstats'.scored = sstats.scored + 0 /\ sstats'.anomalies = sstats.anomalies + 0
        /\ sstats'.alerts = sstats.alerts + 0 /\ made' = made + 0 /\ unstored' = unstored + 0
    BY <1>1, <1>2, <1>3
  <2>4. /\ 0 + 1 + One(IsScore(NoJob)) = 1 + 0 + One(IsScore(job[w]))
        /\ 0 + One(IsNaming(NoJob)) = 0 + One(IsNaming(job[w]))
        /\ 0 <= 0 /\ begun' = begun + 1
    BY <1>1, <2>2
  <2>5. /\ sstats' \in StatsRecord
        /\ sstats'.empty + sstats'.errors = sstats.empty + sstats.errors + 1
    BY <1>3
  <2>6. Counts(w, NoJob, 0, 1, 0, 0, 1, 0, 0)
    BY ONLY <2>1, <2>3, <2>4, <2>5 DEF Counts
  <2> QED BY <2>1, <2>6, Counting DEF ScoringInv, JobsInv
<1>5. JobsInv' /\ AlertsExplained'
  BY <1>1 DEF ScoringInv, JobsInv, JobsTyped, AlertsPlaced, AlertsCited, Made, Names,
    RiskIn, AlertsExplained
<1>6. ExplainInv' /\ CallsPlaced'
  BY <1>1 DEF explainVars, ScoringInv, ExplainInv, CallsCounted, Calling, CallsPlaced,
    ContextOf, Fits
<1> QED BY <1>4, <1>5, <1>6 DEF ScoringInv

LEMMA BeginScoreKeeps ==
  ASSUME ScoringInv, NEW w \in Worker, NEW u \in User, BeginScore(w, u)
  PROVE  ScoringInv'
<1> DEFINE j == [pc |-> "explaining", kind |-> "score", user |-> u, seen |-> SeenOf(u),
                 alert |-> 0]
           k == [pc |-> "scoring", kind |-> "score", user |-> u, seen |-> SeenOf(u),
                 alert |-> 0]
           r == IF RiskIn(j) = "grave" THEN j ELSE k
<1>1. /\ job[w] = NoJob /\ begun' = begun + 1 /\ ~Empty(u)
      /\ UNCHANGED <<window, alerts, scores, made, unstored, uncited, explainVars>>
      /\ sstats' = [sstats EXCEPT !.below = IF RiskIn(j) = "mild" THEN @ + 1 ELSE @]
  BY DEF BeginScore, Begun, Idle
<1>2. job' = [job EXCEPT ![w] = r]
  <2>1. [j EXCEPT !.pc = "scoring"] = k
    OBVIOUS
  <2> QED BY <2>1 DEF BeginScore
<1>3. SeenOf(u) \in 1..MaxEvents
  BY <1>1, SeenTyped DEF ScoringInv, JobsInv
<1>4. /\ r \in JobRecord /\ ~Names(r) /\ IsScore(r) /\ ~IsNaming(r)
      /\ (r.pc = "explaining" /\ r.kind = "score") => RiskIn(r) = "grave"
  <2>1. j \in Explaining /\ k \in Scoring
    BY <1>3, ScoringAssumption DEF Explaining, Scoring
  <2> QED BY <2>1 DEF JobRecord, Names, IsScore, IsNaming, NoJob
<1>5. job[w].pc = "idle" /\ ~Names(job[w]) /\ ~IsScore(job[w]) /\ ~IsNaming(job[w])
  BY <1>1 DEF NoJob, Names, IsScore, IsNaming
<1> HIDE DEF r
<1>6. JobsInv'
  BY <1>1, <1>2, <1>4, <1>5, NamelessKeeps DEF ScoringInv
<1>7. StatsInv'
  <2>1. /\ sstats \in StatsRecord /\ sstats.below \in Nat /\ sstats.empty \in Nat
        /\ sstats.scored \in Nat /\ sstats.anomalies \in Nat /\ sstats.alerts \in Nat
        /\ sstats.errors \in Nat /\ made \in Nat /\ unstored \in Nat
    BY DEF ScoringInv, StatsInv, StatsRecord
  <2>2. (IF RiskIn(j) = "mild" THEN sstats.below + 1 ELSE sstats.below) \in Nat
    BY <2>1
  <2>3. /\ sstats' \in StatsRecord /\ sstats'.scored = sstats.scored
        /\ sstats'.empty = sstats.empty /\ sstats'.errors = sstats.errors
        /\ sstats'.anomalies = sstats.anomalies /\ sstats'.alerts = sstats.alerts
    BY <1>1, <2>1, <2>2 DEF StatsRecord
  <2>4. Counts(w, r, 0, 0, 0, 0, 1, 0, 0)
    BY <1>1, <1>2, <1>4, <1>5, <2>1, <2>3 DEF Counts, One
  <2> QED BY <1>4, <2>4, Counting DEF ScoringInv, JobsInv
<1>8. CallsPlaced' /\ ExplainInv'
  BY <1>1, <1>2, <1>4, <1>5, JobMoves
<1>9. AlertsExplained'
  BY <1>1 DEF ScoringInv, AlertsExplained
<1> QED BY <1>6, <1>7, <1>8, <1>9 DEF ScoringInv

\* A step of a job that leaves its statistics alone.
LEMMA Uncounted ==
  ASSUME ScoringInv, NEW w \in Worker, NEW r \in JobRecord, job' = [job EXCEPT ![w] = r],
         IsScore(r) <=> IsScore(job[w]), ~IsNaming(r), ~IsNaming(job[w]),
         UNCHANGED <<sstats, begun, made, unstored>>
  PROVE  StatsInv'
<1>1. /\ sstats \in StatsRecord /\ sstats.empty \in Nat /\ sstats.errors \in Nat
      /\ sstats.scored \in Nat /\ sstats.anomalies \in Nat /\ sstats.alerts \in Nat
      /\ begun \in Nat /\ made \in Nat /\ unstored \in Nat
  BY DEF ScoringInv, StatsInv, StatsRecord
<1>2. Counts(w, r, 0, 0, 0, 0, 0, 0, 0)
  BY <1>1 DEF Counts, One
<1> QED BY <1>2, Counting DEF ScoringInv, JobsInv

LEMMA BeginAnalyzeKeeps ==
  ASSUME ScoringInv, NEW w \in Worker, NEW u \in User, BeginAnalyze(w, u)
  PROVE  ScoringInv'
<1> DEFINE r == [pc |-> "explaining", kind |-> "analyze", user |-> u, seen |-> SeenOf(u),
                 alert |-> 0]
<1>1. /\ job[w] = NoJob /\ ~Empty(u) /\ job' = [job EXCEPT ![w] = r]
      /\ UNCHANGED <<window, alerts, scores, sstats, begun, made, unstored, uncited,
                     explainVars>>
  BY DEF BeginAnalyze, Idle
<1>2. SeenOf(u) \in 1..MaxEvents
  BY <1>1, SeenTyped DEF ScoringInv, JobsInv
<1>3. r \in JobRecord /\ ~Names(r) /\ r.kind = "analyze" /\ ~IsScore(r) /\ ~IsNaming(r)
  BY <1>2 DEF JobRecord, Explaining, Names, IsScore, IsNaming
<1>4. job[w].pc = "idle" /\ ~Names(job[w]) /\ ~IsScore(job[w]) /\ ~IsNaming(job[w])
  BY <1>1 DEF NoJob, Names, IsScore, IsNaming
<1> HIDE DEF r
<1>5. JobsInv'
  BY <1>1, <1>3, <1>4, NamelessKeeps DEF ScoringInv
<1>6. StatsInv'
  BY <1>1, <1>3, <1>4, Uncounted
<1>7. CallsPlaced' /\ ExplainInv'
  BY <1>1, <1>3, <1>4, JobMoves
<1>8. AlertsExplained'
  BY <1>1 DEF ScoringInv, AlertsExplained
<1> QED BY <1>5, <1>6, <1>7, <1>8 DEF ScoringInv

LEMMA AskKeeps ==
  ASSUME ScoringInv, NEW w \in Worker, AskExplanation(w)
  PROVE  ScoringInv'
<1> DEFINE c == ContextOf(job[w])
<1>1. job[w].pc = "explaining" /\ (Hit(w, c) \/ Miss(w, c)) /\ UNCHANGED scoringVars
  BY DEF AskExplanation
<1>2. c \in Context
  BY <1>1, JobTyped, JobContext DEF ScoringInv, JobsInv
<1> HIDE DEF c
<1>3. /\ ExplainInv'
      /\ \/ \E text : Fits(text, c)
                      /\ call' = [call EXCEPT ![w] = [pc |-> "answered", text |-> text]]
         \/ call' = [call EXCEPT ![w] = [pc |-> "calling", ctx |-> c, attempt |-> 1]]
  BY <1>1, <1>2, HitKeeps, MissKeeps DEF ScoringInv
<1>4. ASSUME NEW text, Fits(text, c),
             call' = [call EXCEPT ![w] = [pc |-> "answered", text |-> text]]
      PROVE  ScoringInv'
  <2> DEFINE r == [pc |-> "answered", text |-> text]
  <2>1. r.pc = "answered" /\ r.text = text /\ call' = [call EXCEPT ![w] = r]
    BY <1>4
  <2> HIDE DEF r
  <2> QED BY <1>1, <1>3, <1>4, <2>1, CallMoves DEF c
<1>5. ASSUME call' = [call EXCEPT ![w] = [pc |-> "calling", ctx |-> c, attempt |-> 1]]
      PROVE  ScoringInv'
  <2> DEFINE r == [pc |-> "calling", ctx |-> c, attempt |-> 1]
  <2>1. r.pc = "calling" /\ r.ctx = c /\ call' = [call EXCEPT ![w] = r]
    BY <1>5
  <2> HIDE DEF r
  <2> QED BY <1>1, <1>3, <2>1, CallMoves DEF c
<1> QED BY <1>3, <1>4, <1>5

LEMMA AwaitKeeps ==
  ASSUME ScoringInv, NEW w \in Worker, AwaitExplanation(w)
  PROVE  ScoringInv'
<1> DEFINE c == call[w].ctx
<1>1. /\ ExplainInv' /\ call[w].pc = "calling" /\ UNCHANGED scoringVars
      /\ \/ \E text : Fits(text, c)
                      /\ call' = [call EXCEPT ![w] = [pc |-> "answered", text |-> text]]
         \/ \E r \in CallRecord : /\ r.pc = "calling" /\ r.ctx = c
                                  /\ call' = [call EXCEPT ![w] = r]
  BY CallStepKeeps DEF AwaitExplanation, ScoringInv
<1>2. job[w].pc = "explaining" /\ c = ContextOf(job[w])
  BY <1>1 DEF ScoringInv, CallsPlaced
<1> HIDE DEF c
<1>3. ASSUME NEW text, Fits(text, c),
             call' = [call EXCEPT ![w] = [pc |-> "answered", text |-> text]]
      PROVE  ScoringInv'
  <2> DEFINE r == [pc |-> "answered", text |-> text]
  <2>1. r.pc = "answered" /\ r.text = text /\ call' = [call EXCEPT ![w] = r]
    BY <1>3
  <2> HIDE DEF r
  <2> QED BY <1>1, <1>2, <1>3, <2>1, CallMoves
<1>4. ASSUME NEW r \in CallRecord, r.pc = "calling", r.ctx = c,
             call' = [call EXCEPT ![w] = r]
      PROVE  ScoringInv'
  BY <1>1, <1>2, <1>4, CallMoves
<1> QED BY <1>1, <1>3, <1>4

\* A job that has its explanation.
LEMMA ExplainedJob ==
  ASSUME ScoringInv, NEW w \in Worker, Explained(w), call' = [call EXCEPT ![w] = NoCall],
         UNCHANGED <<cache, counted, configured, asked, failures>>,
         NEW r \in JobRecord, job' = [job EXCEPT ![w] = r]
  PROVE  /\ job[w] \in Explaining /\ ExplainInv' /\ CallsPlaced'
         /\ Fits(call[w].text, ContextOf(job[w])) /\ ~Names(job[w]) /\ ~IsNaming(job[w])
<1>1. job[w].pc = "explaining" /\ call[w].pc = "answered"
  BY DEF Explained
<1>2. job[w] \in Explaining
  BY <1>1, JobTyped DEF ScoringInv, JobsInv
<1>3. ExplainInv'
  BY <1>1, TakenKeeps DEF ScoringInv
<1>4. call'[w] = NoCall /\ \A v \in Worker : v # w => call'[v] = call[v] /\ job'[v] = job[v]
  BY JobSet DEF ScoringInv, ExplainInv, JobsInv
<1>5. CallsPlaced'
  BY <1>4, CallGone DEF ScoringInv
<1>6. Fits(call[w].text, ContextOf(job[w]))
  BY <1>1 DEF ScoringInv, CallsPlaced
<1> QED BY <1>1, <1>2, <1>3, <1>5, <1>6 DEF Names, IsNaming, Explaining

LEMMA StoreAlertKeeps ==
  ASSUME ScoringInv, NEW w \in Worker, StoreAlert(w)
  PROVE  ScoringInv'
<1> DEFINE j == job[w]
           n == Len(alerts) + 1
           a == [by |-> j.kind, user |-> j.user, seen |-> j.seen, text |-> call[w].text]
           j1 == [j EXCEPT !.pc = "scoring", !.alert = n]
           r == IF j.kind = "score" THEN j1 ELSE NoJob
<1>1. /\ Explained(w) /\ Len(alerts) < MaxAlerts /\ alerts' = Append(alerts, a)
      /\ call' = [call EXCEPT ![w] = NoCall]
      /\ UNCHANGED <<window, scores, sstats, begun, unstored, uncited>>
      /\ UNCHANGED <<cache, counted, configured, asked, failures>>
  BY DEF StoreAlert, Return
<1>2. job[w] \in Explaining
  BY <1>1, JobTyped DEF ScoringInv, JobsInv, Explained
<1>3. job \in [Worker -> JobRecord] /\ Len(alerts) \in Nat /\ alerts \in Seq(Alert)
  BY DEF ScoringInv, JobsInv, JobsTyped
<1>4. job' = [job EXCEPT ![w] = r]
  <2>1. CASE j.kind = "score"
    BY <1>3, <2>1 DEF StoreAlert
  <2>2. CASE j.kind # "score"
    BY <2>2 DEF StoreAlert, Done
  <2> QED BY <2>1, <2>2
<1>5. n \in 0..MaxAlerts /\ n # 0
  BY <1>1, <1>3, ScoringAssumption
<1> HIDE DEF n
<1>6. j.kind = "score" =>
        /\ j1 \in Scoring /\ j1.user = j.user /\ j1.seen = j.seen /\ j1.alert = n
        /\ j1.pc = "scoring"
  BY <1>2, <1>5 DEF Explaining, Scoring
<1> HIDE DEF j1
<1>7. /\ r \in JobRecord
      /\ j.kind # "score" => r = NoJob /\ j.kind = "analyze"
      /\ j.kind = "score" => /\ r.pc = "scoring" /\ r.alert = n /\ r.user = j.user
                             /\ r.seen = j.seen /\ r \in Scoring
  BY <1>2, <1>6 DEF JobRecord, Explaining
<1> HIDE DEF r
<1>8. /\ ExplainInv' /\ CallsPlaced' /\ Fits(call[w].text, ContextOf(j))
      /\ ~Names(j) /\ ~IsNaming(j)
  BY <1>1, <1>4, <1>7, ExplainedJob
<1>9. a \in Alert
  BY <1>2, <1>8 DEF Alert, Explaining, Fits
<1>10. JobsInv'
  <2>1. a.by = j.kind /\ a.user = j.user /\ a.seen = j.seen
    OBVIOUS
  <2> HIDE DEF a
  <2> QED BY <1>1, <1>2, <1>4, <1>7, <1>9, <2>1, StoredAlert DEF ScoringInv, n
<1>11. StatsInv'
  <2>1. /\ sstats \in StatsRecord /\ sstats.empty \in Nat /\ sstats.errors \in Nat
        /\ sstats.scored \in Nat /\ sstats.anomalies \in Nat /\ sstats.alerts \in Nat
        /\ begun \in Nat /\ made \in Nat /\ unstored \in Nat
    BY DEF ScoringInv, StatsInv, StatsRecord
  <2>2. CASE j.kind = "score"
    <3>1. made' = made + 1
      BY <2>2 DEF StoreAlert
    <3>2. IsScore(r) /\ IsNaming(r) /\ IsScore(j)
      BY <1>2, <1>5, <1>7, <2>2 DEF IsScore, IsNaming, Scoring, Explaining, NoJob
    <3>3. Counts(w, r, 0, 0, 0, 0, 0, 1, 0)
      BY <1>1, <1>4, <1>8, <2>1, <3>1, <3>2 DEF Counts, One
    <3> QED BY <1>7, <3>3, Counting DEF ScoringInv, JobsInv
  <2>3. CASE j.kind # "score"
    <3>1. made' = made
      BY <2>3 DEF StoreAlert
    <3>2. ~IsScore(r) /\ ~IsNaming(r) /\ ~IsScore(j)
      BY <1>7, <2>3 DEF IsScore, IsNaming
    <3> QED BY <1>1, <1>4, <1>7, <1>8, <3>1, <3>2, Uncounted
  <2> QED BY <2>2, <2>3
<1>12. AlertsExplained'
  <2>1. /\ \A i \in DOMAIN alerts' : i \in DOMAIN alerts \/ i = n
        /\ alerts'[n] = a /\ \A i \in DOMAIN alerts : alerts'[i] = alerts[i]
    BY <1>1, <1>3, <1>9 DEF n
  <2>2. KeyOf[a.text.of] = KeyOf[[kind |-> a.by, user |-> a.user, seen |-> a.seen]]
    BY <1>8 DEF Fits, ContextOf
  <2> HIDE DEF a
  <2> QED BY <2>1, <2>2 DEF ScoringInv, AlertsExplained
<1> QED BY <1>8, <1>10, <1>11, <1>12 DEF ScoringInv

LEMMA AlertFailsKeeps ==
  ASSUME ScoringInv, NEW w \in Worker, AlertFails(w)
  PROVE  ScoringInv'
<1> DEFINE j == job[w]
           j1 == [j EXCEPT !.pc = "scoring"]
           r == IF j.kind = "score" THEN j1 ELSE NoJob
<1>1. /\ Explained(w) /\ call' = [call EXCEPT ![w] = NoCall]
      /\ UNCHANGED <<window, alerts, scores, sstats, begun, made, unstored, uncited>>
      /\ UNCHANGED <<cache, counted, configured, asked, failures>>
  BY DEF AlertFails, Return
<1>2. job[w] \in Explaining
  BY <1>1, JobTyped DEF ScoringInv, JobsInv, Explained
<1>3. job' = [job EXCEPT ![w] = r]
  BY DEF AlertFails, Done
<1>4. j.kind = "score" => j1 \in Scoring /\ j1.alert = 0 /\ j1.pc = "scoring"
  <2>1. 0 \in 0..MaxAlerts
    BY ScoringAssumption
  <2> QED BY <1>2, <2>1 DEF Explaining, Scoring
<1> HIDE DEF j1
<1>5. /\ r \in JobRecord /\ ~Names(r) /\ ~IsNaming(r) /\ r.pc # "explaining"
      /\ IsScore(r) <=> IsScore(j)
  BY <1>2, <1>4 DEF JobRecord, Explaining, Scoring, Names, IsNaming, IsScore, NoJob
<1> HIDE DEF r
<1>6. ExplainInv' /\ CallsPlaced' /\ ~Names(j) /\ ~IsNaming(j)
  BY <1>1, <1>3, <1>5, ExplainedJob
<1>7. JobsInv'
  BY <1>1, <1>3, <1>5, <1>6, NamelessKeeps DEF ScoringInv
<1>8. StatsInv'
  BY <1>1, <1>3, <1>5, <1>6, Uncounted
<1>9. AlertsExplained'
  BY <1>1 DEF ScoringInv, AlertsExplained
<1> QED BY <1>6, <1>7, <1>8, <1>9 DEF ScoringInv

LEMMA ScoreKeeps ==
  ASSUME ScoringInv, NEW w \in Worker, StoreScore(w) \/ ScoreFails(w)
  PROVE  ScoringInv'
<1>1. job[w].pc = "scoring" /\ Done(w) /\ UNCHANGED <<window, alerts, begun, made, explainVars>>
  BY DEF StoreScore, ScoreFails
<1>2. JobsInv'
  BY <1>1, ScoredKeeps DEF StoreScore, ScoreFails, ScoringInv
<1>3. StatsInv'
  <2>1. CASE StoreScore(w)
    <3>1. CountScored(w, FALSE) /\ unstored' = unstored
      BY <2>1 DEF StoreScore
    <3> QED BY <1>1, <3>1, ScoredCounts DEF ScoringInv
  <2>2. CASE ScoreFails(w)
    <3>1. CountScored(w, TRUE) /\ unstored' = unstored + 1
      BY <2>2 DEF ScoreFails
    <3> QED BY <1>1, <3>1, ScoredCounts DEF ScoringInv
  <2> QED BY <2>1, <2>2
<1>4. ExplainInv' /\ CallsPlaced'
  <2>1. NoJob \in JobRecord /\ job' = [job EXCEPT ![w] = NoJob]
    BY <1>1 DEF Done, JobRecord
  <2> QED BY <1>1, <2>1, JobMoves
<1>5. AlertsExplained'
  BY <1>1 DEF ScoringInv, AlertsExplained
<1> QED BY <1>2, <1>3, <1>4, <1>5 DEF ScoringInv

LEMMA RestartKeeps ==
  ASSUME ScoringInv, Restart
  PROVE  ScoringInv'
<1>1. /\ cache' = <<>> /\ call' = [w \in Worker |-> NoCall]
      /\ counted' = [calls |-> 0, fallbacks |-> 0]
      /\ asked' = 0 /\ failures' = 0 /\ UNCHANGED <<configured, window, alerts, scores>>
      /\ job' = [w \in Worker |-> NoJob]
      /\ sstats' = ZeroStats /\ begun' = 0 /\ made' = 0 /\ unstored' = 0
  BY DEF Restart, ExplainRestart
<1>2. JobsInv'
  BY RestartedKeeps DEF ScoringInv
<1>3. ExplainInv'
  BY ForgottenKeeps DEF Restart, ScoringInv
<1>4. StatsInv'
  <2>1. Active' = {} /\ Naming' = {} /\ Cardinality({}) = 0
    BY <1>1, FS_EmptySet DEF Active, Naming
  <2>2. sstats' \in StatsRecord
    BY <1>1 DEF StatsRecord, ZeroStats
  <2>3. sstats'.scored = 0 /\ sstats'.empty = 0 /\ sstats'.errors = 0 /\ sstats'.alerts = 0
        /\ sstats'.anomalies = 0
    BY <1>1 DEF ZeroStats
  <2> QED BY <1>1, <2>1, <2>2, <2>3 DEF StatsInv
<1>5. CallsPlaced'
  BY <1>1 DEF CallsPlaced, NoCall
<1>6. AlertsExplained'
  BY <1>1 DEF ScoringInv, AlertsExplained
<1> QED BY <1>2, <1>3, <1>4, <1>5, <1>6 DEF ScoringInv

LEMMA ScoringKeeps ==
  ASSUME ScoringInv, [Next]_vars
  PROVE  ScoringInv'
<1>1. CASE TimePasses /\ UNCHANGED scoringVars
  <2>1. ExplainInv' /\ call' = call
    BY <1>1, AgedKeeps DEF ScoringInv
  <2>2. UNCHANGED <<window, job, alerts, scores, sstats, begun, made, unstored, uncited>>
    BY <1>1 DEF scoringVars
  <2>3. JobsInv' /\ AlertsExplained'
    BY <2>2 DEF ScoringInv, JobsInv, JobsTyped, AlertsPlaced, AlertsCited, Made, Names,
      RiskIn, AlertsExplained
  <2>4. StatsInv'
    BY <2>2, StatsStay DEF ScoringInv
  <2>5. CallsPlaced'
    BY <2>1, <2>2 DEF ScoringInv, CallsPlaced, ContextOf, Fits
  <2> QED BY <2>1, <2>3, <2>4, <2>5 DEF ScoringInv
<1>2. CASE UNCHANGED vars
  <2>1. /\ UNCHANGED <<window, job, alerts, scores, sstats, begun, made, unstored, uncited>>
        /\ UNCHANGED <<cache, call, counted, configured, asked, failures>>
    BY <1>2 DEF vars, scoringVars, explainVars
  <2>2. JobsInv' /\ AlertsExplained'
    BY <2>1 DEF ScoringInv, JobsInv, JobsTyped, AlertsPlaced, AlertsCited, Made, Names,
      RiskIn, AlertsExplained
  <2>3. StatsInv'
    BY <2>1, StatsStay DEF ScoringInv
  <2>4. ExplainInv' /\ CallsPlaced'
    BY <2>1 DEF ScoringInv, ExplainInv, CallsCounted, Calling, CallsPlaced, ContextOf, Fits
  <2> QED BY <2>2, <2>3, <2>4 DEF ScoringInv
<1> QED BY <1>1, <1>2, WindowKeeps, NothingKeeps, BeginScoreKeeps, BeginAnalyzeKeeps,
  AskKeeps, AwaitKeeps, StoreAlertKeeps, AlertFailsKeeps, ScoreKeeps, RestartKeeps DEF Next

(***************************************************************************)
(* The jobs, the calls, the cache, the stored alerts and scores and both   *)
(* statistics fit each other at every step of score_user, analyze_all and  *)
(* explain_alert: everything below follows.                                *)
(***************************************************************************)
THEOREM ScoringSound == Spec => []ScoringInv
  BY ScoringStarts, ScoringKeeps, PTL DEF Spec

LEMMA ScoringExplains ==
  ASSUME ScoringInv, [Next]_vars
  PROVE  [ExplainNext]_explainVars
<1>1. CASE \E w \in Worker : AskExplanation(w)
  <2>1. PICK w \in Worker : AskExplanation(w)
    BY <1>1
  <2>2. ContextOf(job[w]) \in Context
    BY <2>1, JobTyped, JobContext DEF AskExplanation, ScoringInv, JobsInv
  <2> QED BY <2>1, <2>2 DEF AskExplanation, ExplainNext
<1>2. CASE \E w \in Worker : AwaitExplanation(w) \/ StoreAlert(w) \/ AlertFails(w)
  BY <1>2 DEF AwaitExplanation, StoreAlert, AlertFails, ExplainNext
<1>3. CASE TimePasses \/ Restart
  BY <1>3 DEF Restart, ExplainNext
<1>4. CASE \E u \in User : Arrive(u) \/ Age(u)
  BY <1>4 DEF Arrive, Age
<1>5. CASE \E w \in Worker, u \in User :
             ScoreNothing(w, u) \/ BeginScore(w, u) \/ BeginAnalyze(w, u)
  BY <1>5 DEF ScoreNothing, BeginScore, BeginAnalyze
<1>6. CASE \E w \in Worker : StoreScore(w) \/ ScoreFails(w)
  BY <1>6 DEF StoreScore, ScoreFails
<1>7. CASE UNCHANGED vars
  BY <1>7 DEF vars
<1> QED BY <1>1, <1>2, <1>3, <1>4, <1>5, <1>6, <1>7 DEF Next

(***************************************************************************)
(* The jobs use explain_alert through its operations only: what is proved  *)
(* of it alone holds of it in the process that scores and analyzes         *)
(* (services/user_scoring.py:259, api/routes.py).                          *)
(***************************************************************************)
THEOREM ScoringUsesExplain == Spec => ExplainSpec
<1>1. Init => ExplainInit
  BY DEF Init
<1> QED BY <1>1, ScoringStarts, ScoringKeeps, ScoringExplains, PTL DEF Spec, ExplainSpec

(***************************************************************************)
(* The state of both threads, of what they store and of their counters     *)
(* keeps its type (services/user_scoring.py, services/llm/).               *)
(***************************************************************************)
THEOREM ScoringTypes == Spec => []TypeOK
  BY ScoringSound, ScoringFollows, PTL

(***************************************************************************)
(* However two threads score the same user, and whatever fails or dies     *)
(* between the store of an alert and that of its score, a score names its  *)
(* own alert, no alert is named twice, and one that no score names is of a *)
(* job still at it, of a failed store or of a dead process                 *)
(* (UserScoring.score_user).                                               *)
(***************************************************************************)
THEOREM ScoresNameTheirAlerts == Spec => []AlertsCited
  BY ScoringSound, ScoringFollows, PTL

(***************************************************************************)
(* An alert is stored with an explanation of its own key, whether it came  *)
(* from the cache, from the provider or from the fallback, and the cache   *)
(* keeps its size and one entry a key (explain_alert, LLMCache).           *)
(***************************************************************************)
THEOREM AlertsFitExplanations == Spec => []ExplanationFits
  BY ScoringSound, ScoringFollows, PTL

(***************************************************************************)
(* Both statistics account for everything since the process started        *)
(* (ScoringStats, LLMCallStats).                                           *)
(***************************************************************************)
THEOREM StatisticsAddUp == Spec => []CountsAddUp
  BY ScoringSound, ScoringFollows, PTL
=============================================================================
