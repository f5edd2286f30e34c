----------------------------- MODULE LlmMemory -----------------------------
(***************************************************************************)
(* Analyst feedback and the assistant's long-term memory                   *)
(* (services/llm_feedback.py, services/llm_memory.py, db/session.py).      *)
(*                                                                         *)
(* A verdict is stored by one transaction and remembered by another, so    *)
(* that replicas interleave between them.  Verdicts are the only writer of *)
(* memories: all have scope 'user' and kind 'analyst_pattern', and share   *)
(* one row of llm_stats_cache, which a trigger keeps.                      *)
(*                                                                         *)
(* A memory's content is who judged what about whom, and the note.  Two    *)
(* notes of one account about one user are two memories, and a verdict     *)
(* that is replaced leaves its memory behind.                              *)
(* Time is abstracted to one event: a memory was last used too long ago.   *)
(***************************************************************************)
EXTENDS Naturals, FiniteSets

CONSTANTS Alert,        \* alerts
          Employee,     \* users.id
          Account,      \* ids of the accounts that judge, as text
          Verdict,
          Note,         \* texts of notes, "no note" among them
          AlertUser,    \* alerts.user_id, or NoUser
          NoUser, None,
          Replica,
          TopK,         \* llm_memory_max_retrieve
          MaxMemories,  \* bound: memories ever created
          MaxUses       \* bound: use_count of a memory

\* What an analyst says of an alert.
Opinion == [verdict : Verdict, note : Note]

ASSUME MemoryAssumption ==
  /\ NoUser \notin Employee /\ AlertUser \in [Alert -> Employee \cup {NoUser}]
  /\ None \notin Opinion
  /\ TopK \in Nat \ {0} /\ MaxMemories \in Nat /\ MaxUses \in Nat

VARIABLES feedback,     \* llm_feedback: an account's opinion of an alert
          memory,       \* llm_memories by id
          nextMemory,   \* the next id
          stats,        \* llm_stats_cache's row: total_count, total_uses
          judging       \* the feedback a replica stands inside of

\* History: memories that were forgotten or could not be written.
VARIABLE lost

memoryVars == <<feedback, memory, nextMemory, stats, judging, lost>>

MemoryId == 1..MaxMemories

\* What the unique constraint compares: scope_id and the content's parts.
Content == [by : Account, said : Opinion, user : Employee \cup {NoUser}]
Memory == [what : Content, uses : Nat, last : {"never", "recent", "old"}]
NoMemory == [what |-> None]

Judgement == [alert : Alert, by : Account, said : Opinion]
Free == [alert |-> None]

Live == {i \in MemoryId : memory[i] # NoMemory}

MemoryInit ==
  /\ feedback = [a \in Alert |-> [x \in Account |-> None]]
  /\ memory = [i \in MemoryId |-> NoMemory] /\ nextMemory = 1
  /\ stats = [count |-> 0, uses |-> 0]
  /\ judging = [r \in Replica |-> Free] /\ lost = {}
-----------------------------------------------------------------------------
(***************************************************************************)
(* llm_memories_stats_sync                                                 *)
(***************************************************************************)
\* Mutated form: a new memory is not counted as used.
InsertedUnused(s) == [count |-> s.count + 1, uses |-> s.uses]

Inserted(s) == [count |-> s.count + 1, uses |-> s.uses + 1]
Updated(s, n) == [count |-> s.count, uses |-> s.uses + n]
Deleted(s, m) ==
  [count |-> IF s.count > 0 THEN s.count - 1 ELSE 0,
   uses |-> IF s.uses > m.uses THEN s.uses - m.uses ELSE 0]
-----------------------------------------------------------------------------
(***************************************************************************)
(* FeedbackService.submit                                                  *)
(***************************************************************************)
\* llm_feedback.analyst_id and llm_memories.created_by refer to users(id).
MayJudge(x) == x \in Employee

\* insert_feedback: a second verdict replaces the first, note and all.
StoreVerdict(r, a, x, o) ==
  /\ judging[r] = Free /\ MayJudge(x)
  /\ feedback' = [feedback EXCEPT ![a][x] = o]
  /\ judging' = [judging EXCEPT ![r] = [alert |-> a, by |-> x, said |-> o]]
  /\ UNCHANGED <<memory, nextMemory, stats, lost>>

\* _auto_write_memory: what is remembered of a judgement.
ContentOf(j) == [by |-> j.by, said |-> j.said, user |-> AlertUser[j.alert]]

\* Mutated form: no ON CONFLICT clause, and no unique constraint.
AlikeNever(c) == {}

\* ON CONFLICT (scope, scope_id, kind, content_hash): NULLs are distinct.
Alike(c) == {i \in Live : c.user # NoUser /\ memory[i].what = c}

\* upsert_memory, without and with a conflict.
RememberNew(r) ==
  /\ judging[r] # Free /\ nextMemory <= MaxMemories
  /\ LET c == ContentOf(judging[r])
     IN  /\ Alike(c) = {}
         /\ memory' = [memory EXCEPT ![nextMemory] =
                         [what |-> c, uses |-> 0, last |-> "never"]]
  /\ nextMemory' = nextMemory + 1
  /\ stats' = Inserted(stats)
  /\ judging' = [judging EXCEPT ![r] = Free]
  /\ UNCHANGED <<feedback, lost>>

RememberAgain(r, i) ==
  /\ judging[r] # Free /\ i \in Alike(ContentOf(judging[r]))
  /\ memory[i].uses < MaxUses
  /\ memory' = [memory EXCEPT ![i].uses = @ + 1, ![i].last = "recent"]
  /\ stats' = Updated(stats, 1)
  /\ judging' = [judging EXCEPT ![r] = Free]
  /\ UNCHANGED <<feedback, nextMemory, lost>>

\* The database fails: the verdict stays, without a memory of it.
RememberFails(r) ==
  /\ judging[r] # Free
  /\ judging' = [judging EXCEPT ![r] = Free]
  /\ lost' = lost \cup {ContentOf(judging[r])}
  /\ UNCHANGED <<feedback, memory, nextMemory, stats>>
-----------------------------------------------------------------------------
(***************************************************************************)
(* MemoryStore                                                             *)
(***************************************************************************)
\* retrieve_memories: the memories about the alert's user that have not
\* decayed, and of these the TopK most used.  (Which of equally used ones is
\* left open.)
Matching(a) ==
  {i \in Live : /\ AlertUser[a] # NoUser /\ memory[i].what.user = AlertUser[a]
                /\ memory[i].last # "old"}

Retrieved(a) ==
  {S \in SUBSET Matching(a) :
     /\ Cardinality(S) <= TopK
     /\ S # Matching(a) => Cardinality(S) = TopK
     /\ \A i \in S, j \in Matching(a) \ S : memory[i].uses >= memory[j].uses}

\* touch_memories: those of the retrieved that are still there.
Touch(S) ==
  /\ \A i \in S \cap Live : memory[i].uses < MaxUses
  /\ memory' = [i \in MemoryId |->
                  IF i \in S \cap Live
                    THEN [memory[i] EXCEPT !.uses = @ + 1, !.last = "recent"]
                    ELSE memory[i]]
  /\ stats' = Updated(stats, Cardinality(S \cap Live))
  /\ UNCHANGED <<feedback, nextMemory, judging, lost>>

\* forget_memory
Forget(i) ==
  /\ i \in Live
  /\ memory' = [memory EXCEPT ![i] = NoMemory]
  /\ stats' = Deleted(stats, memory[i])
  /\ lost' = lost \cup {memory[i].what}
  /\ UNCHANGED <<feedback, nextMemory, judging>>

\* llm_memory_decay_days pass since the last use.
Decay(i) ==
  /\ i \in Live /\ memory[i].last = "recent"
  /\ memory' = [memory EXCEPT ![i].last = "old"]
  /\ UNCHANGED <<feedback, nextMemory, stats, judging, lost>>

Judge ==
  \E r \in Replica :
    \/ \E a \in Alert, x \in Account, o \in Opinion : StoreVerdict(r, a, x, o)
    \/ RememberNew(r) \/ RememberFails(r)
    \/ \E i \in MemoryId : RememberAgain(r, i)

MemoryNext ==
  \/ Judge
  \/ \E i \in MemoryId : Forget(i) \/ Decay(i)
  \/ \E S \in SUBSET MemoryId : Touch(S)

MemorySpec == MemoryInit /\ [][MemoryNext]_memoryVars
-----------------------------------------------------------------------------
(***************************************************************************)
(* Type invariant: ids are given out in order.                             *)
(***************************************************************************)
MemoryTypeOK ==
  /\ feedback \in [Alert -> [Account -> Opinion \cup {None}]]
  /\ memory \in [MemoryId -> Memory \cup {NoMemory}]
  /\ \A i \in Live : memory[i].uses <= MaxUses
  /\ nextMemory \in 1..(MaxMemories + 1) /\ \A i \in Live : i < nextMemory
  /\ stats \in [count : Nat, uses : Nat]
  /\ judging \in [Replica -> Judgement \cup {Free}]
  /\ lost \subseteq Content

\* The uses of the memories there are, numbered for each.
Uses == {p \in MemoryId \X (1..MaxUses) : p[1] \in Live /\ p[2] <= memory[p[1]].uses}

(***************************************************************************)
(* llm_stats_cache's row, kept by a trigger (db/session.py:2371), counts   *)
(* the memories there are, whichever way they were made, bumped or         *)
(* forgotten; its uses are those of the memories there are plus one for    *)
(* every memory ever created, as the trigger counts an insert as a use.    *)
(***************************************************************************)
StatsAccounted ==
  /\ stats.count = Cardinality(Live)
  /\ stats.uses = nextMemory - 1 + Cardinality(Uses)

(***************************************************************************)
(* The verdict that stands on an alert is remembered with its note, unless *)
(* its replica is still at it, the write failed or an admin forgot the     *)
(* memory; and no two memories of a known user have one content - account, *)
(* verdict, user and note -, also when two replicas remember it at once    *)
(* (services/llm_feedback.py:46, db/session.py:2654).  It is one memory of *)
(* a content, not of an alert: the note is hashed with the rest.           *)
(***************************************************************************)
RememberedOnce ==
  /\ \A i, j \in Live :
       (memory[i].what = memory[j].what /\ memory[i].what.user # NoUser) => i = j
  /\ \A a \in Alert, x \in Account :
       feedback[a][x] # None =>
         LET j == [alert |-> a, by |-> x, said |-> feedback[a][x]]
         IN  \/ j \in {judging[r] : r \in Replica}
             \/ ContentOf(j) \in lost \cup {memory[i].what : i \in Live}
=============================================================================
