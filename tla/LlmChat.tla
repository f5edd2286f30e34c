------------------------------ MODULE LlmChat ------------------------------
(***************************************************************************)
(* The analysts' conversations with the assistant (services/llm_chat.py,   *)
(* the chat endpoints of api/routes_llm.py, db/session.py).                *)
(*                                                                         *)
(* A send is one request: it finds its conversation, stores the question,  *)
(* streams an answer while other requests run, stores the answer and       *)
(* counts the memories it used.  Each of these is a transaction of its own *)
(* and the client may hang up in between, as may other accounts delete,    *)
(* reset or rename the conversation.                                       *)
(*                                                                         *)
(* The other endpoints look a conversation up and act on it in one turn of *)
(* the event loop: one action each.  Employees' chats store nothing and    *)
(* are left out, as is what is said.                                       *)
(***************************************************************************)
EXTENDS LlmMemory, Sequences, SequencesExt

CONSTANTS Admin,        \* the accounts whose role is admin
          Send,         \* requests to the chat endpoint
          MaxConvs      \* bound: conversations ever created

ASSUME ChatAssumption == Admin \subseteq Account /\ MaxConvs \in Nat

VARIABLES conv,         \* llm_conversations by id
          nextConv,     \* the next id
          recent,       \* the ids of conversations, the last updated first
          log,          \* llm_messages of each conversation
          stream        \* the requests

\* History: the sends whose messages a reset or a delete took away.
VARIABLE wiped

chatVars == <<conv, nextConv, recent, log, stream, wiped>>
vars == <<memoryVars, chatVars>>

Conv == 1..MaxConvs
NoConv == [alert |-> None]
Message == [role : {"user", "assistant"}, send : Send]
Unsent == [pc |-> "unsent"]

Ended == {"done", "guarded", "error", "untouched", "cancelled"}

Init ==
  /\ MemoryInit
  /\ conv = [c \in Conv |-> NoConv] /\ nextConv = 1 /\ recent = <<>>
  /\ log = [c \in Conv |-> <<>>]
  /\ stream = [s \in Send |-> Unsent] /\ wiped = {}
-----------------------------------------------------------------------------
Open == {c \in Conv : conv[c] # NoConv}

Place(c) == CHOOSE i \in DOMAIN recent : recent[i] = c

\* get_conversation_by_alert: the last updated one (if any), whoever owns it.
Latest(a) ==
  {c \in Open : /\ conv[c].alert = a
                /\ \A d \in Open : conv[d].alert = a => Place(c) <= Place(d)}

\* Mutated form: the conversation may be another alert's.
MayOpenAny(a, x, c) == c \in Open /\ (conv[c].owner = x \/ x \in Admin)

\* _conversation_or_404
MayOpen(a, x, c) ==
  c \in Open /\ conv[c].alert = a /\ (conv[c].owner = x \/ x \in Admin)

\* create_conversation inserts always; append_message does not touch the
\* conversation, an UPDATE of it does (trg_llm_conv_updated).
Insert(a, x) ==
  /\ nextConv <= MaxConvs
  /\ conv' = [conv EXCEPT ![nextConv] = [alert |-> a, owner |-> x]]
  /\ nextConv' = nextConv + 1
  /\ recent' = <<nextConv>> \o recent

Unlisted(c) == RemoveAt(recent, Place(c))

Bump(c) == recent' = <<c>> \o Unlisted(c)

SendsIn(c) == {log[c][i].send : i \in DOMAIN log[c]}

Create(a, x) ==
  /\ Insert(a, x)
  /\ UNCHANGED <<log, stream, wiped>> /\ UNCHANGED memoryVars

Rename(a, x, c) ==
  /\ MayOpen(a, x, c) /\ Bump(c)
  /\ UNCHANGED <<conv, nextConv, log, stream, wiped>> /\ UNCHANGED memoryVars

Delete(a, x, c) ==
  /\ MayOpen(a, x, c)
  /\ conv' = [conv EXCEPT ![c] = NoConv] /\ recent' = Unlisted(c)
  /\ log' = [log EXCEPT ![c] = <<>>]
  /\ wiped' = wiped \cup SendsIn(c)
  /\ UNCHANGED <<nextConv, stream>> /\ UNCHANGED memoryVars

\* reset_conversation takes the alert's latest one, whoever owns it.
Reset(a) ==
  /\ \E c \in Latest(a) :
       /\ log' = [log EXCEPT ![c] = <<>>]
       /\ wiped' = wiped \cup SendsIn(c)
       /\ Bump(c)
  /\ UNCHANGED <<conv, nextConv, stream>> /\ UNCHANGED memoryVars
-----------------------------------------------------------------------------
(***************************************************************************)
(* send_chat_message and ChatSession.send_message_stream                   *)
(***************************************************************************)
Accepted(s, a, x, c) ==
  stream' = [stream EXCEPT ![s] = [pc |-> "accepted", alert |-> a, by |-> x,
                                   conv |-> c, mems |-> {}]]

\* A request that names a conversation, ...
AcceptIn(s, a, x, c) ==
  /\ stream[s] = Unsent /\ MayOpen(a, x, c)
  /\ Accepted(s, a, x, c)
  /\ UNCHANGED <<conv, nextConv, recent, log, wiped>> /\ UNCHANGED memoryVars

\* ... and one that does not: it gets the alert's latest or a new one.
AcceptLatest(s, a, x) ==
  /\ stream[s] = Unsent /\ \E c \in Latest(a) : Accepted(s, a, x, c)
  /\ UNCHANGED <<conv, nextConv, recent, log, wiped>> /\ UNCHANGED memoryVars

AcceptNew(s, a, x) ==
  /\ stream[s] = Unsent /\ Latest(a) = {}
  /\ Insert(a, x) /\ Accepted(s, a, x, nextConv)
  /\ UNCHANGED <<log, wiped>> /\ UNCHANGED memoryVars

Goto(s, pc) == stream' = [stream EXCEPT ![s].pc = pc]

\* _role_guard_response: the reply is canned and nothing is stored.
Guard(s) ==
  /\ stream[s].pc = "accepted" /\ Goto(s, "guarded")
  /\ UNCHANGED <<conv, nextConv, recent, log, wiped>> /\ UNCHANGED memoryVars

\* The question is stored, the memories are read, the provider is called.
Ask(s, mems) ==
  /\ stream[s].pc = "accepted" /\ stream[s].conv \in Open
  /\ mems \in Retrieved(stream[s].alert)
  /\ log' = [log EXCEPT ![stream[s].conv] = Append(@, [role |-> "user", send |-> s])]
  /\ stream' = [stream EXCEPT ![s].pc = "streaming", ![s].mems = mems]
  /\ UNCHANGED <<conv, nextConv, recent, wiped>> /\ UNCHANGED memoryVars

\* append_message fails: the conversation is gone and the foreign key refuses
\* the message, or the database fails.
Unstored(s) ==
  /\ stream[s].pc \in {"accepted", "streaming"} /\ Goto(s, "error")
  /\ UNCHANGED <<conv, nextConv, recent, log, wiped>> /\ UNCHANGED memoryVars

\* Mutated form: what came until then is stored as the answer.
StreamFailsPartly(s) ==
  /\ stream[s].pc = "streaming" /\ stream[s].conv \in Open
  /\ Goto(s, "error")
  /\ log' = [log EXCEPT ![stream[s].conv] =
               Append(@, [role |-> "assistant", send |-> s])]
  /\ UNCHANGED <<conv, nextConv, recent, wiped>> /\ UNCHANGED memoryVars

\* The context or the provider fails, or it says nothing.
StreamFails(s) ==
  /\ stream[s].pc = "streaming" /\ Goto(s, "error")
  /\ UNCHANGED <<conv, nextConv, recent, log, wiped>> /\ UNCHANGED memoryVars

\* The client hangs up.
Cancel(s) ==
  /\ stream[s].pc \in {"accepted", "streaming"} /\ Goto(s, "cancelled")
  /\ UNCHANGED <<conv, nextConv, recent, log, wiped>> /\ UNCHANGED memoryVars

\* The answer is stored.
Answer(s) ==
  /\ stream[s].pc = "streaming" /\ stream[s].conv \in Open
  /\ log' = [log EXCEPT ![stream[s].conv] =
               Append(@, [role |-> "assistant", send |-> s])]
  /\ Goto(s, IF stream[s].mems = {} THEN "done" ELSE "touching")
  /\ UNCHANGED <<conv, nextConv, recent, wiped>> /\ UNCHANGED memoryVars

\* The memories are counted as used, or the database fails: the client is
\* told of an error although the answer is stored.
TouchUsed(s) ==
  /\ stream[s].pc = "touching" /\ Goto(s, "done")
  /\ Touch(stream[s].mems)
  /\ UNCHANGED <<conv, nextConv, recent, log, wiped>>

TouchFails(s) ==
  /\ stream[s].pc = "touching" /\ Goto(s, "untouched")
  /\ UNCHANGED <<conv, nextConv, recent, log, wiped>> /\ UNCHANGED memoryVars

ChatStep ==
  \/ \E a \in Alert, x \in Account : Create(a, x)
  \/ \E a \in Alert, x \in Account, c \in Conv : Rename(a, x, c) \/ Delete(a, x, c)
  \/ \E a \in Alert : Reset(a)
  \/ \E s \in Send, a \in Alert, x \in Account :
       \/ \E c \in Conv : AcceptIn(s, a, x, c)
       \/ AcceptLatest(s, a, x) \/ AcceptNew(s, a, x)
  \/ \E s \in Send :
       \/ Guard(s) \/ Unstored(s) \/ StreamFails(s) \/ Cancel(s)
       \/ \E mems \in SUBSET Live : Ask(s, mems)
       \/ Answer(s) \/ TouchUsed(s) \/ TouchFails(s)

MemoryStep ==
  /\ Judge \/ \E i \in MemoryId : Forget(i) \/ Decay(i)
  /\ UNCHANGED chatVars

Next == ChatStep \/ MemoryStep

Spec == Init /\ [][Next]_vars
-----------------------------------------------------------------------------
(***************************************************************************)
(* Type invariant.  A conversation that is gone has no messages, and only  *)
(* conversations that exist are listed, each once.                         *)
(***************************************************************************)
ChatTypeOK ==
  /\ MemoryTypeOK
  /\ conv \in [Conv -> [alert : Alert, owner : Account] \cup {NoConv}]
  /\ nextConv \in 1..(MaxConvs + 1) /\ \A c \in Open : c < nextConv
  /\ log \in [Conv -> Seq(Message)] /\ \A c \in Conv \ Open : log[c] = <<>>
  /\ ToSet(recent) = Open /\ Len(recent) = Cardinality(Open)
  /\ \A s \in Send :
       \/ stream[s] = Unsent
       \/ /\ stream[s].pc \in {"accepted", "streaming", "touching"} \cup Ended
          /\ stream[s].alert \in Alert /\ stream[s].by \in Account
          /\ stream[s].conv \in 1..(nextConv - 1)
          /\ stream[s].mems \subseteq 1..(nextMemory - 1)
  /\ wiped \subseteq Send

Said(s, role, c) == \E i \in DOMAIN log[c] : log[c][i] = [role |-> role, send |-> s]

(***************************************************************************)
(* Whatever is deleted, reset or renamed while an answer streams, a        *)
(* conversation only holds questions, each once, and answers, each once    *)
(* and after its question.  A question is kept, also when its answer       *)
(* fails, and an answer is there when its stream ended well and never when *)
(* provider or client gave up - unless somebody reset or deleted the       *)
(* conversation (services/llm_chat.py:15-16).                              *)
(***************************************************************************)
TranscriptsSound ==
  /\ \A c \in Open : \A i, j \in DOMAIN log[c] :
       /\ stream[log[c][i].send].conv = c
       /\ log[c][i] = log[c][j] => i = j
       /\ (log[c][i].send = log[c][j].send /\ i < j) => log[c][i].role = "user"
       /\ log[c][i].role = "assistant" =>
            \/ Said(log[c][i].send, "user", c) \/ log[c][i].send \in wiped
  /\ \A s \in Send \ wiped :
       /\ stream[s].pc \in {"streaming", "touching", "done", "untouched"} =>
            \/ Said(s, "user", stream[s].conv) \/ stream[s].conv \notin Open
       /\ stream[s].pc \in {"touching", "done", "untouched"} =>
            \/ Said(s, "assistant", stream[s].conv) \/ stream[s].conv \notin Open
  /\ \A s \in Send : stream[s].pc \in {"accepted", "guarded", "streaming", "error", "cancelled"} =>
       \A c \in Conv : ~Said(s, "assistant", c)

(***************************************************************************)
(* A question and its answer are only ever stored under the alert the      *)
(* analyst looked at, whatever conversation the client names: the answer   *)
(* is built from that alert's context (_conversation_or_404).              *)
(***************************************************************************)
AskedUnderOwnAlert ==
  \A c \in Open : \A i \in DOMAIN log[c] :
    stream[log[c][i].send].alert = conv[c].alert
=============================================================================
