--------------------------- MODULE LlmChatProofs ---------------------------
(***************************************************************************)
(* The analysts' conversations, for any alerts, accounts, requests and     *)
(* memories: what is said stays under the alert it was said about.         *)
(***************************************************************************)
EXTENDS LlmChat, FiniteSetTheorems, FunctionTheorems, WellFoundedInduction, TLAPS

(***************************************************************************)
(* A request keeps the conversation it found while that one may be deleted *)
(* and others created: it is never taken for another because ids are not   *)
(* used again.                                                             *)
(***************************************************************************)
IdsFresh ==
  /\ nextConv \in Nat \ {0}
  /\ DOMAIN conv = Conv
  /\ \A c \in Open : c < nextConv

Stage == {"accepted", "streaming", "touching"} \cup Ended

RequestsPlaced ==
  /\ DOMAIN stream = Send
  /\ \A s \in Send :
       stream[s] # Unsent =>
         /\ stream[s] \in [pc : Stage, alert : Alert, by : Account, conv : Conv,
                           mems : SUBSET MemoryId]
         /\ stream[s].conv < nextConv
         /\ stream[s].conv \in Open => conv[stream[s].conv].alert = stream[s].alert

MessagesPlaced ==
  /\ log \in [Conv -> Seq(Message)]
  /\ \A c \in Conv : \A i \in DOMAIN log[c] :
       stream[log[c][i].send] # Unsent /\ stream[log[c][i].send].conv = c

ChatInv == IdsFresh /\ RequestsPlaced /\ MessagesPlaced

LEMMA ChatStarts == Init => ChatInv
<1> SUFFICES ASSUME Init PROVE ChatInv
  OBVIOUS
<1>1. /\ conv = [c \in Conv |-> NoConv] /\ nextConv = 1
      /\ log = [c \in Conv |-> <<>>] /\ stream = [s \in Send |-> Unsent]
  BY DEF Init
<1>2. IdsFresh
  BY <1>1 DEF IdsFresh, Open
<1>3. RequestsPlaced
  BY <1>1 DEF RequestsPlaced
<1>4. MessagesPlaced
  BY <1>1 DEF MessagesPlaced
<1>. QED  BY <1>2, <1>3, <1>4 DEF ChatInv

\* A step that leaves the conversations, the logs and the requests alone.
LEMMA ChatUntouched ==
  ASSUME ChatInv, UNCHANGED <<conv, nextConv, log, stream>>
  PROVE  ChatInv'
  BY DEF ChatInv, IdsFresh, RequestsPlaced, MessagesPlaced, Open

\* A conversation is inserted under an id that no request has.
LEMMA Inserting ==
  ASSUME ChatInv, NEW a \in Alert, NEW x \in Account, Insert(a, x)
  PROVE  /\ IdsFresh' /\ nextConv \in Conv /\ nextConv' = nextConv + 1
         /\ nextConv \in Open' => conv'[nextConv].alert = a
         /\ \A c \in Conv : c # nextConv => conv'[c] = conv[c]
<1>1. nextConv \in Conv /\ conv' = [conv EXCEPT ![nextConv] = [alert |-> a, owner |-> x]]
  BY ChatAssumption DEF Insert, ChatInv, IdsFresh, Conv
<1>2. nextConv' = nextConv + 1
  BY DEF Insert
<1>3. conv'[nextConv].alert = a /\ \A c \in Conv : c # nextConv => conv'[c] = conv[c]
  BY <1>1 DEF ChatInv, IdsFresh
<1>4. IdsFresh'
  BY <1>1, <1>2, <1>3 DEF ChatInv, IdsFresh, Open, Conv
<1>. QED  BY <1>1, <1>2, <1>3, <1>4

\* A request is accepted in a conversation of its alert.
LEMMA Accepting ==
  ASSUME ChatInv, NEW s \in Send, NEW a \in Alert, NEW x \in Account, NEW c \in Conv,
         stream[s] = Unsent, Accepted(s, a, x, c), UNCHANGED log,
         IdsFresh', c < nextConv', c \in Open' => conv'[c].alert = a,
         nextConv <= nextConv', nextConv' \in Nat,
         \A d \in Conv : d < nextConv => conv'[d] = conv[d]
  PROVE  ChatInv'
<1> DEFINE new == [pc |-> "accepted", alert |-> a, by |-> x, conv |-> c, mems |-> {}]
<1>1. stream' = [stream EXCEPT ![s] = new] /\ DOMAIN stream = Send
  BY DEF Accepted, ChatInv, RequestsPlaced
<1>2. stream'[s] = new /\ \A t \in Send : t # s => stream'[t] = stream[t]
  BY <1>1
<1>3. new # Unsent /\ new.conv = c /\ new.alert = a
      /\ new \in [pc : Stage, alert : Alert, by : Account, conv : Conv, mems : SUBSET MemoryId]
  <2>1. new.pc = "accepted" /\ Unsent.pc = "unsent"
    BY DEF Unsent
  <2>2. {} \in SUBSET MemoryId
    OBVIOUS
  <2>4. "accepted" \in Stage
    BY DEF Stage
  <2> DEFINE none == {}
             pc == "accepted"
  <2>5. none \in SUBSET MemoryId /\ pc \in Stage
    BY <2>2, <2>4
  <2> HIDE DEF none, pc
  <2>6. [pc |-> pc, alert |-> a, by |-> x, conv |-> c, mems |-> none]
          \in [pc : Stage, alert : Alert, by : Account, conv : Conv, mems : SUBSET MemoryId]
    BY <2>5
  <2>3. new \in [pc : Stage, alert : Alert, by : Account, conv : Conv, mems : SUBSET MemoryId]
    BY <2>6 DEF none, pc
  <2>. QED  BY <2>1, <2>3
<1> HIDE DEF new
<1>4. RequestsPlaced'
  <2> SUFFICES ASSUME NEW t \in Send, stream'[t] # Unsent
               PROVE  /\ stream'[t] \in [pc : Stage, alert : Alert, by : Account,
                                         conv : Conv, mems : SUBSET MemoryId]
                      /\ stream'[t].conv < nextConv'
                      /\ stream'[t].conv \in Open' =>
                           conv'[stream'[t].conv].alert = stream'[t].alert
    BY <1>1 DEF RequestsPlaced
  <2>1. CASE t = s
    BY <1>2, <1>3, <2>1
  <2>2. CASE t # s
    <3>1. /\ stream'[t] = stream[t] /\ stream[t].conv \in Conv
          /\ stream[t].conv < nextConv
          /\ stream[t] \in [pc : Stage, alert : Alert, by : Account, conv : Conv,
                            mems : SUBSET MemoryId]
          /\ stream[t].conv \in Open => conv[stream[t].conv].alert = stream[t].alert
      BY <1>2, <2>2 DEF ChatInv, RequestsPlaced
    <3>2. conv'[stream[t].conv] = conv[stream[t].conv]
      BY <3>1
    <3>3. stream[t].conv < nextConv'
      BY <3>1 DEF ChatInv, IdsFresh, Conv
    <3>. QED  BY <3>1, <3>2, <3>3 DEF Open
  <2>. QED  BY <2>1, <2>2
<1>5. MessagesPlaced'
  <2> SUFFICES ASSUME NEW d \in Conv, NEW i \in DOMAIN log[d]
               PROVE  stream'[log[d][i].send] # Unsent /\ stream'[log[d][i].send].conv = d
    BY DEF ChatInv, MessagesPlaced
  <2>1. stream[log[d][i].send] # Unsent /\ stream[log[d][i].send].conv = d
    BY DEF ChatInv, MessagesPlaced
  <2>2. log[d][i] \in Message
    BY DEF ChatInv, MessagesPlaced
  <2>3. log[d][i].send \in Send /\ log[d][i].send # s
    BY <2>1, <2>2 DEF Message
  <2>. QED  BY <1>2, <2>1, <2>3
<1>. QED  BY <1>4, <1>5 DEF ChatInv

Stored(s, role) ==
  log' = [log EXCEPT ![stream[s].conv] = Append(@, [role |-> role, send |-> s])]

\* A request goes on, and may append to the log of its conversation.
LEMMA GoingOn ==
  ASSUME ChatInv, NEW s \in Send, stream[s] # Unsent, NEW pc \in Stage,
         NEW mems \in SUBSET MemoryId, pc # "unsent",
         stream' = [stream EXCEPT ![s].pc = pc, ![s].mems = mems],
         log' = log \/ Stored(s, "user") \/ Stored(s, "assistant"),
         UNCHANGED <<conv, nextConv>>
  PROVE  ChatInv'
<1>0. PICK role \in {"user", "assistant"} : log' = log \/ Stored(s, role)
  OBVIOUS
<1> DEFINE m == [role |-> role, send |-> s]
           c == stream[s].conv
<1>1. /\ DOMAIN stream = Send /\ c \in Conv /\ log \in [Conv -> Seq(Message)]
      /\ stream[s] \in [pc : Stage, alert : Alert, by : Account, conv : Conv,
                        mems : SUBSET MemoryId]
  BY DEF ChatInv, RequestsPlaced, MessagesPlaced
<1>2. /\ stream'[s] \in [pc : Stage, alert : Alert, by : Account, conv : Conv,
                         mems : SUBSET MemoryId]
      /\ stream'[s].conv = c /\ stream'[s].alert = stream[s].alert
      /\ DOMAIN stream' = Send /\ \A t \in Send : t # s => stream'[t] = stream[t]
  BY <1>1
<1>3. stream'[s] # Unsent
  BY <1>2 DEF Unsent
<1>4. IdsFresh'
  BY DEF ChatInv, IdsFresh, Open
<1>5. RequestsPlaced'
  BY <1>2, <1>3 DEF ChatInv, RequestsPlaced, Open
<1>6. MessagesPlaced'
  <2>1. m \in Message /\ m.send = s
    BY DEF Message
  <2>2. \A d \in Conv : \A i \in DOMAIN log[d] : log[d][i] \in Message /\ log[d][i].send \in Send
    <3>1. \A d \in Conv : log[d] \in Seq(Message)
      BY <1>1
    <3>2. \A d \in Conv : \A i \in DOMAIN log[d] : log[d][i] \in Message
      BY <3>1
    <3>. QED  BY <3>2 DEF Message
  <2>3. CASE log' = log
    <3> SUFFICES ASSUME NEW d \in Conv, NEW i \in DOMAIN log[d]
                 PROVE  stream'[log[d][i].send] # Unsent /\ stream'[log[d][i].send].conv = d
      BY <1>1, <2>3 DEF MessagesPlaced
    <3>1. /\ stream[log[d][i].send] # Unsent /\ stream[log[d][i].send].conv = d
          /\ log[d][i].send \in Send
      BY <2>2 DEF ChatInv, MessagesPlaced
    <3>. QED  BY <1>2, <1>3, <3>1
  <2>4. CASE log' = [log EXCEPT ![c] = Append(@, m)]
    <3> HIDE DEF m, c
    <3>1. log[c] \in Seq(Message)
      BY <1>1
    <3>2. /\ Append(log[c], m) \in Seq(Message)
          /\ \A i \in DOMAIN Append(log[c], m) :
               \/ i \in DOMAIN log[c] /\ Append(log[c], m)[i] = log[c][i]
               \/ Append(log[c], m)[i] = m
      BY <2>1, <3>1
    <3>3. /\ log' \in [Conv -> Seq(Message)] /\ log'[c] = Append(log[c], m)
          /\ \A d \in Conv : d # c => log'[d] = log[d]
      BY <1>1, <2>4, <3>2
    <3>4. ASSUME NEW d \in Conv, NEW i \in DOMAIN log'[d]
          PROVE  stream'[log'[d][i].send] # Unsent /\ stream'[log'[d][i].send].conv = d
      <4>1. CASE i \in DOMAIN log[d] /\ log'[d][i] = log[d][i]
        <5>1. /\ stream[log[d][i].send] # Unsent /\ stream[log[d][i].send].conv = d
              /\ log[d][i].send \in Send
          BY <2>2, <4>1 DEF ChatInv, MessagesPlaced
        <5>. QED  BY <1>2, <1>3, <4>1, <5>1 DEF c
      <4>2. CASE d = c /\ log'[d][i] = m
        BY <1>2, <1>3, <2>1, <4>2
      <4>. QED  BY <3>2, <3>3, <4>1, <4>2
    <3>. QED  BY <3>3, <3>4 DEF MessagesPlaced
  <2>. QED  BY <1>0, <2>3, <2>4 DEF Stored
<1>. QED  BY <1>4, <1>5, <1>6 DEF ChatInv

\* A log is emptied, and its conversation may go.
LEMMA Emptied ==
  ASSUME ChatInv, NEW c \in Conv, log' = [log EXCEPT ![c] = <<>>],
         conv' = conv \/ conv' = [conv EXCEPT ![c] = NoConv],
         UNCHANGED <<nextConv, stream>>
  PROVE  ChatInv'
<1>1. IdsFresh' /\ Open' \subseteq Open /\ \A d \in Open' : conv'[d] = conv[d]
  BY DEF ChatInv, IdsFresh, Open
<1>2. RequestsPlaced'
  BY <1>1 DEF ChatInv, RequestsPlaced
<1>3. MessagesPlaced'
  <2>1. /\ log' \in [Conv -> Seq(Message)] /\ log'[c] = <<>>
        /\ \A d \in Conv : d # c => log'[d] = log[d]
    BY DEF ChatInv, MessagesPlaced
  <2>. QED  BY <2>1 DEF ChatInv, MessagesPlaced
<1>. QED  BY <1>1, <1>2, <1>3 DEF ChatInv
-----------------------------------------------------------------------------
LEMMA ChatKeeps ==
  ASSUME ChatInv, [Next]_vars
  PROVE  ChatInv'
<1>1. ASSUME NEW a \in Alert, NEW x \in Account, Create(a, x)
      PROVE  ChatInv'
  <2>1. /\ IdsFresh' /\ nextConv \in Conv /\ nextConv' = nextConv + 1
        /\ \A c \in Conv : c # nextConv => conv'[c] = conv[c]
    BY <1>1, Inserting DEF Create
  <2>2. UNCHANGED <<log, stream>>
    BY <1>1 DEF Create
  <2>3. MessagesPlaced'
    BY <2>2 DEF ChatInv, MessagesPlaced
  <2>4. RequestsPlaced'
    <3> SUFFICES ASSUME NEW s \in Send, stream[s] # Unsent
                 PROVE  /\ stream[s] \in [pc : Stage, alert : Alert, by : Account,
                                          conv : Conv, mems : SUBSET MemoryId]
                        /\ stream[s].conv < nextConv'
                        /\ stream[s].conv \in Open' =>
                             conv'[stream[s].conv].alert = stream[s].alert
      BY <2>2 DEF ChatInv, RequestsPlaced
    <3>1. /\ stream[s] \in [pc : Stage, alert : Alert, by : Account, conv : Conv,
                            mems : SUBSET MemoryId]
          /\ stream[s].conv < nextConv
          /\ stream[s].conv \in Open => conv[stream[s].conv].alert = stream[s].alert
      BY DEF ChatInv, RequestsPlaced
    <3>2. stream[s].conv \in Nat /\ nextConv \in Nat /\ stream[s].conv \in Conv
      BY <2>1, <3>1 DEF Conv
    <3>3. conv'[stream[s].conv] = conv[stream[s].conv]
      BY <2>1, <3>1, <3>2
    <3>. QED  BY <2>1, <3>1, <3>2, <3>3 DEF Open
  <2>. QED  BY <2>1, <2>3, <2>4 DEF ChatInv
<1>2. ASSUME NEW a \in Alert, NEW x \in Account, NEW c \in Conv,
             Rename(a, x, c) \/ Delete(a, x, c)
      PROVE  ChatInv'
  BY <1>2, ChatUntouched, Emptied DEF Rename, Delete
<1>3. ASSUME NEW a \in Alert, Reset(a)
      PROVE  ChatInv'
  <2>1. PICK c \in Latest(a) : log' = [log EXCEPT ![c] = <<>>]
    BY <1>3 DEF Reset
  <2>. QED  BY <1>3, <2>1, Emptied DEF Reset, Latest, Open
<1>4. ASSUME NEW s \in Send, NEW a \in Alert, NEW x \in Account, NEW c \in Conv,
             stream[s] = Unsent, c \in Open, conv[c].alert = a, Accepted(s, a, x, c),
             UNCHANGED <<conv, nextConv, log>>
      PROVE  ChatInv'
  <2>1. IdsFresh' /\ c < nextConv /\ nextConv \in Nat /\ nextConv <= nextConv'
    BY <1>4 DEF ChatInv, IdsFresh, Open
  <2>. QED  BY <1>4, <2>1, Accepting
<1>5. ASSUME NEW s \in Send, NEW a \in Alert, NEW x \in Account,
             (\E c \in Conv : AcceptIn(s, a, x, c)) \/ AcceptLatest(s, a, x)
      PROVE  ChatInv'
  BY <1>4, <1>5 DEF AcceptIn, AcceptLatest, MayOpen, Latest, Open
<1>6. ASSUME NEW s \in Send, NEW a \in Alert, NEW x \in Account, AcceptNew(s, a, x)
      PROVE  ChatInv'
  <2>1. /\ stream[s] = Unsent /\ Insert(a, x) /\ Accepted(s, a, x, nextConv)
        /\ UNCHANGED log
    BY <1>6 DEF AcceptNew
  <2>2. /\ IdsFresh' /\ nextConv \in Conv /\ nextConv' = nextConv + 1
        /\ nextConv \in Open' => conv'[nextConv].alert = a
        /\ \A c \in Conv : c # nextConv => conv'[c] = conv[c]
    BY <2>1, Inserting
  <2>3. /\ nextConv < nextConv' /\ nextConv <= nextConv' /\ nextConv' \in Nat
        /\ \A d \in Conv : d < nextConv => conv'[d] = conv[d]
    BY <2>2 DEF Conv
  <2>. QED  BY <2>1, <2>2, <2>3, Accepting
<1>7. ASSUME NEW s \in Send,
             \/ Guard(s) \/ Unstored(s) \/ StreamFails(s) \/ Cancel(s)
             \/ \E mems \in SUBSET Live : Ask(s, mems)
             \/ Answer(s) \/ TouchUsed(s) \/ TouchFails(s)
      PROVE  ChatInv'
  <2>1. stream[s] # Unsent
    BY <1>7 DEF Guard, Unstored, StreamFails, Cancel, Ask, Answer, TouchUsed, TouchFails, Unsent
  <2>2. /\ stream[s] \in [pc : Stage, alert : Alert, by : Account, conv : Conv,
                          mems : SUBSET MemoryId]
        /\ DOMAIN stream = Send
    BY <2>1 DEF ChatInv, RequestsPlaced
  <2>3. ASSUME NEW pc \in Stage, stream' = [stream EXCEPT ![s].pc = pc]
        PROVE  stream' = [stream EXCEPT ![s].pc = pc, ![s].mems = stream[s].mems]
    BY <2>2, <2>3
  <2>4. ASSUME NEW pc \in {"guarded", "error", "cancelled", "done", "untouched"},
               Goto(s, pc), UNCHANGED <<log, conv, nextConv>>
        PROVE  ChatInv'
    <3>1. pc \in Stage /\ pc # "unsent" /\ stream[s].mems \in SUBSET MemoryId
      BY <2>2, <2>4 DEF Stage, Ended
    <3>2. stream' = [stream EXCEPT ![s].pc = pc, ![s].mems = stream[s].mems]
      BY <2>3, <2>4, <3>1 DEF Goto
    <3>. QED  BY <2>1, <2>4, <3>1, <3>2, GoingOn
  <2>5. CASE Guard(s) \/ Unstored(s) \/ StreamFails(s) \/ Cancel(s) \/ TouchFails(s)
             \/ TouchUsed(s)
    BY <2>4, <2>5 DEF Guard, Unstored, StreamFails, Cancel, TouchFails, TouchUsed
  <2>6. ASSUME NEW mems \in SUBSET Live, Ask(s, mems)
        PROVE  ChatInv'
    <3> DEFINE pc == "streaming"
    <3>1. pc \in Stage /\ pc # "unsent" /\ mems \in SUBSET MemoryId
      BY DEF Live, Stage
    <3>2. stream' = [stream EXCEPT ![s].pc = pc, ![s].mems = mems]
      BY <2>6 DEF Ask
    <3>3. Stored(s, "user") /\ UNCHANGED <<conv, nextConv>>
      BY <2>6 DEF Ask, Stored
    <3> HIDE DEF pc
    <3>. QED  BY <2>1, <3>1, <3>2, <3>3, GoingOn
  <2>7. CASE Answer(s)
    <3>1. PICK pc \in {"done", "touching"} : Goto(s, pc)
      BY <2>7 DEF Answer
    <3>2. Stored(s, "assistant") /\ UNCHANGED <<conv, nextConv>>
      BY <2>7 DEF Answer, Stored
    <3>3. pc \in Stage /\ pc # "unsent" /\ stream[s].mems \in SUBSET MemoryId
      BY <2>2, <3>1 DEF Stage, Ended
    <3>4. stream' = [stream EXCEPT ![s].pc = pc, ![s].mems = stream[s].mems]
      BY <2>3, <3>1, <3>3 DEF Goto
    <3>. QED  BY <2>1, <3>2, <3>3, <3>4, GoingOn
  <2>. QED  BY <1>7, <2>5, <2>6, <2>7
<1>8. CASE MemoryStep \/ UNCHANGED vars
  BY <1>8, ChatUntouched DEF MemoryStep, vars, chatVars
<1>. QED  BY <1>1, <1>2, <1>3, <1>5, <1>6, <1>7, <1>8 DEF Next, ChatStep

(***************************************************************************)
(* A question and its answer are only ever stored under the alert the      *)
(* analyst looked at, whatever conversations are created, deleted, reset   *)
(* and asked in meanwhile (routes_llm.py:173, _conversation_or_404).       *)
(***************************************************************************)
THEOREM AnswersStayWithTheirAlert == Spec => []AskedUnderOwnAlert
<1>1. ChatInv => AskedUnderOwnAlert
  <2> SUFFICES ASSUME ChatInv, NEW c \in Open, NEW i \in DOMAIN log[c]
               PROVE  stream[log[c][i].send].alert = conv[c].alert
    BY DEF AskedUnderOwnAlert
  <2>1. stream[log[c][i].send] # Unsent /\ stream[log[c][i].send].conv = c
    BY DEF ChatInv, MessagesPlaced, Open
  <2>2. log[c] \in Seq(Message) /\ log[c][i] \in Message
    BY DEF ChatInv, MessagesPlaced, Open
  <2>3. log[c][i].send \in Send
    BY <2>2 DEF Message
  <2>. QED  BY <2>1, <2>3 DEF ChatInv, RequestsPlaced
<1>. QED  BY <1>1, ChatStarts, ChatKeeps, PTL DEF Spec
-----------------------------------------------------------------------------
(***************************************************************************)
(* Transcripts.  Saying is the logs without their order: who said what     *)
(* where.  A question is said when its request leaves "accepted", an       *)
(* answer when it leaves "streaming" well, and only wiping unsays.         *)
(***************************************************************************)
Saying == {m \in Send \X {"user", "assistant"} \X Conv : Said(m[1], m[2], m[3])}

Ordered(l) ==
  \A i, j \in DOMAIN l :
    /\ l[i] = l[j] => i = j
    /\ (l[i].send = l[j].send /\ i < j) => l[i].role = "user"

LogsOrdered == \A c \in Conv : Ordered(log[c])

QuestionsFirst ==
  \A s \in Send, c \in Conv :
    <<s, "assistant", c>> \in Saying => <<s, "user", c>> \in Saying \/ s \in wiped

SaidInTime ==
  \A s \in Send, c \in Conv :
    /\ stream[s].pc \in {"unsent", "accepted", "guarded"} => <<s, "user", c>> \notin Saying
    /\ stream[s].pc \in {"unsent", "accepted", "guarded", "streaming", "error", "cancelled"}
         => <<s, "assistant", c>> \notin Saying

SaidKept ==
  \A s \in Send \ wiped :
    /\ stream[s].pc \in {"streaming", "touching", "done", "untouched"} =>
         \/ <<s, "user", stream[s].conv>> \in Saying \/ stream[s].conv \notin Open
    /\ stream[s].pc \in {"touching", "done", "untouched"} =>
         \/ <<s, "assistant", stream[s].conv>> \in Saying \/ stream[s].conv \notin Open

TranscriptInv == ChatInv /\ LogsOrdered /\ QuestionsFirst /\ SaidInTime /\ SaidKept

LEMMA TranscriptStarts == Init => TranscriptInv
<1> SUFFICES ASSUME Init PROVE TranscriptInv
  OBVIOUS
<1>1. log = [c \in Conv |-> <<>>] /\ stream = [s \in Send |-> Unsent]
  BY DEF Init
<1>2. \A c \in Conv : DOMAIN log[c] = {}
  BY <1>1
<1>3. Saying = {}
  BY <1>2 DEF Saying, Said
<1>4. LogsOrdered
  BY <1>2 DEF LogsOrdered, Ordered
<1>5. QuestionsFirst /\ SaidInTime /\ SaidKept
  BY <1>1, <1>3 DEF QuestionsFirst, SaidInTime, SaidKept, Unsent
<1>. QED  BY <1>4, <1>5, ChatStarts DEF TranscriptInv

\* An order is kept by a first question, and by an answer to one.
LEMMA OrderedAppend ==
  ASSUME NEW l \in Seq(Message), NEW m \in Message, Ordered(l),
         \A i \in DOMAIN l : l[i].send = m.send => l[i].role = "user" /\ m.role = "assistant"
  PROVE  Ordered(Append(l, m))
<1> DEFINE k == Append(l, m)
<1>1. /\ Len(l) \in Nat /\ DOMAIN l = 1..Len(l) /\ DOMAIN k = 1..(Len(l) + 1)
      /\ k[Len(l) + 1] = m /\ \A i \in 1..Len(l) : k[i] = l[i]
  OBVIOUS
<1> HIDE DEF k
<1>2. ASSUME NEW i \in DOMAIN k, NEW j \in DOMAIN k
      PROVE  /\ k[i] = k[j] => i = j
             /\ (k[i].send = k[j].send /\ i < j) => k[i].role = "user"
  <2>1. CASE i \in 1..Len(l) /\ j \in 1..Len(l)
    BY <1>1, <2>1 DEF Ordered
  <2>2. CASE i = Len(l) + 1 /\ j = Len(l) + 1
    BY <1>1, <2>2
  <2>3. CASE i \in 1..Len(l) /\ j = Len(l) + 1
    <3>1. k[i] = l[i] /\ k[j] = m
      BY <1>1, <2>3
    <3>2. l[i].send = m.send => l[i].role = "user" /\ m.role = "assistant"
      BY <1>1, <2>3
    <3>3. l[i] # m
      BY <3>2
    <3>. QED  BY <3>1, <3>2, <3>3
  <2>4. CASE i = Len(l) + 1 /\ j \in 1..Len(l)
    <3>1. k[j] = l[j] /\ k[i] = m /\ ~(i < j)
      BY <1>1, <2>4
    <3>2. l[j].send = m.send => l[j].role = "user" /\ m.role = "assistant"
      BY <1>1, <2>4
    <3>3. l[j] # m
      BY <3>2
    <3>. QED  BY <3>1, <3>3
  <2>. QED  BY <1>1, <2>1, <2>2, <2>3, <2>4
<1>. QED  BY <1>2 DEF Ordered, k

\* What is appended is said from then on; no other thing changes.
LEMMA SayingAppended ==
  ASSUME ChatInv, NEW s \in Send, stream[s] # Unsent, NEW role \in {"user", "assistant"},
         Stored(s, role)
  PROVE  /\ stream[s].conv \in Conv
         /\ Saying' = Saying \cup {<<s, role, stream[s].conv>>}
         /\ log'[stream[s].conv] = Append(log[stream[s].conv], [role |-> role, send |-> s])
         /\ \A c \in Conv : c # stream[s].conv => log'[c] = log[c]
<1> DEFINE c == stream[s].conv
           m == [role |-> role, send |-> s]
<1>1. c \in Conv /\ log \in [Conv -> Seq(Message)]
  BY DEF ChatInv, RequestsPlaced, MessagesPlaced
<1>2. log' = [log EXCEPT ![c] = Append(@, m)]
  BY DEF Stored
<1>3. log'[c] = Append(log[c], m) /\ \A d \in Conv : d # c => log'[d] = log[d]
  BY <1>1, <1>2
<1>4. log[c] \in Seq(Message)
  BY <1>1
<1> HIDE DEF c
<1>5. /\ Len(log[c]) \in Nat /\ DOMAIN log[c] = 1..Len(log[c])
      /\ DOMAIN log'[c] = 1..(Len(log[c]) + 1)
      /\ log'[c][Len(log[c]) + 1] = m /\ \A i \in 1..Len(log[c]) : log'[c][i] = log[c][i]
  BY <1>3, <1>4
<1>6. ASSUME NEW t \in Send, NEW r \in {"user", "assistant"}, NEW d \in Conv
      PROVE  Said(t, r, d)' <=> Said(t, r, d) \/ (t = s /\ r = role /\ d = c)
  <2>1. CASE d # c
    BY <1>3, <2>1 DEF Said
  <2>2. CASE d = c
    <3>1. Said(t, r, d)' => Said(t, r, d) \/ (t = s /\ r = role)
      <4> SUFFICES ASSUME NEW i \in DOMAIN log'[c], log'[c][i] = [role |-> r, send |-> t],
                          ~(t = s /\ r = role)
                   PROVE  Said(t, r, d)
        BY <2>2 DEF Said
      <4>1. i # Len(log[c]) + 1
        BY <1>5
      <4>2. i \in DOMAIN log[c] /\ log[c][i] = [role |-> r, send |-> t]
        BY <1>5, <4>1
      <4>. QED  BY <2>2, <4>2 DEF Said
    <3>2. Said(t, r, d) => Said(t, r, d)'
      <4> SUFFICES ASSUME NEW i \in DOMAIN log[c], log[c][i] = [role |-> r, send |-> t]
                   PROVE  Said(t, r, d)'
        BY <2>2 DEF Said
      <4>1. i \in DOMAIN log'[c] /\ log'[c][i] = [role |-> r, send |-> t]
        BY <1>5
      <4>. QED  BY <2>2, <4>1 DEF Said
    <3>3. (t = s /\ r = role) => Said(t, r, d)'
      <4>1. Len(log[c]) + 1 \in DOMAIN log'[c]
        BY <1>5
      <4>. QED  BY <1>5, <2>2, <4>1 DEF Said
    <3>. QED  BY <2>2, <3>1, <3>2, <3>3
  <2>. QED  BY <2>1, <2>2
<1>7. Saying' = Saying \cup {<<s, role, c>>}
  BY <1>1, <1>6 DEF Saying
<1>. QED  BY <1>1, <1>3, <1>7 DEF c

\* Emptying a log unsays what was said there, and wipes who said it.
LEMMA SayingEmptied ==
  ASSUME ChatInv, NEW c \in Conv, log' = [log EXCEPT ![c] = <<>>],
         wiped' = wiped \cup SendsIn(c)
  PROVE  /\ Saying' = {m \in Saying : m[3] # c}
         /\ \A m \in Saying : m[3] = c => m[1] \in wiped'
         /\ \A d \in Conv : Ordered(log[d]) => Ordered(log'[d])
<1>1. log \in [Conv -> Seq(Message)]
  BY DEF ChatInv, MessagesPlaced
<1>2. DOMAIN log'[c] = {} /\ \A d \in Conv : d # c => log'[d] = log[d]
  BY <1>1
<1>3. \A t \in Send, r \in {"user", "assistant"}, d \in Conv :
        Said(t, r, d)' <=> Said(t, r, d) /\ d # c
  BY <1>2 DEF Said
<1>4. Saying' = {m \in Saying : m[3] # c}
  BY <1>3 DEF Saying
<1>5. ASSUME NEW m \in Saying, m[3] = c
      PROVE  m[1] \in wiped'
  <2>1. PICK i \in DOMAIN log[c] : log[c][i] = [role |-> m[2], send |-> m[1]]
    BY <1>5 DEF Saying, Said
  <2>. QED  BY <2>1 DEF SendsIn
<1>6. \A d \in Conv : Ordered(log[d]) => Ordered(log'[d])
  BY <1>2 DEF Ordered
<1>. QED  BY <1>4, <1>5, <1>6

TranscriptParts == LogsOrdered /\ QuestionsFirst /\ SaidInTime /\ SaidKept

\* Who said something was accepted before.
LEMMA SayersAccepted ==
  ASSUME ChatInv
  PROVE  \A m \in Saying : /\ stream[m[1]] # Unsent /\ stream[m[1]].conv = m[3]
                           /\ m[1] \in Send /\ m[3] \in Conv
<1> SUFFICES ASSUME NEW m \in Saying
             PROVE  /\ stream[m[1]] # Unsent /\ stream[m[1]].conv = m[3]
                    /\ m[1] \in Send /\ m[3] \in Conv
  OBVIOUS
<1>1. m[3] \in Conv /\ m[1] \in Send /\ Said(m[1], m[2], m[3])
  BY DEF Saying
<1>2. PICK i \in DOMAIN log[m[3]] : log[m[3]][i] = [role |-> m[2], send |-> m[1]]
  BY <1>1 DEF Said
<1>. QED  BY <1>1, <1>2 DEF ChatInv, MessagesPlaced

\* A request goes on without a message: nothing it goes to asks for one, nor
\* refuses one that is there.
LEMMA GoingOnSilently ==
  ASSUME TranscriptInv, NEW s \in Send, stream[s] # Unsent, NEW pc \in Stage,
         Goto(s, pc), UNCHANGED <<log, wiped>>, Open' = Open,
         \/ stream[s].pc = "accepted" /\ pc \in {"guarded", "error", "cancelled"}
         \/ stream[s].pc = "streaming" /\ pc \in {"error", "cancelled"}
         \/ stream[s].pc = "touching" /\ pc \in {"done", "untouched"}
  PROVE  TranscriptParts'
<1> USE DEF TranscriptInv
<1>1. Saying' = Saying
  BY DEF Saying, Said
<1>2. stream[s] \in [pc : Stage, alert : Alert, by : Account, conv : Conv,
                     mems : SUBSET MemoryId] /\ DOMAIN stream = Send
  BY DEF ChatInv, RequestsPlaced
<1>3. /\ stream'[s].pc = pc /\ stream'[s].conv = stream[s].conv
      /\ \A t \in Send : t # s => stream'[t] = stream[t]
  BY <1>2 DEF Goto
<1>4. (LogsOrdered /\ QuestionsFirst)'
  BY <1>1 DEF LogsOrdered, Ordered, QuestionsFirst
<1>5. SaidInTime'
  BY <1>1, <1>3 DEF SaidInTime
<1>6. SaidKept'
  BY <1>1, <1>3 DEF SaidKept
<1>. QED  BY <1>4, <1>5, <1>6 DEF TranscriptParts

\* A question is stored, or an answer.
LEMMA Speaking ==
  ASSUME TranscriptInv, NEW s \in Send, stream[s] # Unsent,
         NEW pc \in Stage, NEW mems \in SUBSET MemoryId,
         stream' = [stream EXCEPT ![s].pc = pc, ![s].mems = mems],
         UNCHANGED wiped, Open' = Open, NEW role \in {"user", "assistant"}, Stored(s, role),
         \/ stream[s].pc = "accepted" /\ pc = "streaming" /\ role = "user"
         \/ stream[s].pc = "streaming" /\ pc \in {"touching", "done"} /\ role = "assistant",
         stream[s].conv \in Open
  PROVE  TranscriptParts'
<1> USE DEF TranscriptInv
<1> DEFINE c == stream[s].conv
           m == [role |-> role, send |-> s]
<1>1. /\ c \in Conv /\ Saying' = Saying \cup {<<s, role, c>>}
      /\ log'[c] = Append(log[c], m) /\ \A d \in Conv : d # c => log'[d] = log[d]
  BY SayingAppended
<1>2. stream[s] \in [pc : Stage, alert : Alert, by : Account, conv : Conv,
                     mems : SUBSET MemoryId] /\ DOMAIN stream = Send
  BY DEF ChatInv, RequestsPlaced
<1>3. /\ stream'[s].pc = pc /\ stream'[s].conv = c
      /\ \A t \in Send : t # s => stream'[t] = stream[t]
  BY <1>2
<1>4. LogsOrdered'
  <2>1. log[c] \in Seq(Message) /\ m \in Message /\ m.send = s /\ m.role = role
    BY <1>1 DEF ChatInv, MessagesPlaced, Message
  <2>2. ASSUME NEW i \in DOMAIN log[c], log[c][i].send = s
        PROVE  log[c][i].role = "user" /\ role = "assistant"
    <3>1. log[c][i] \in Message
      BY <2>1
    <3>2. log[c][i] = [role |-> log[c][i].role, send |-> s]
          /\ log[c][i].role \in {"user", "assistant"}
      BY <2>2, <3>1 DEF Message
    <3>3. <<s, log[c][i].role, c>> \in Saying
      BY <1>1, <3>2 DEF Saying, Said
    <3>. QED  BY <1>1, <3>2, <3>3 DEF SaidInTime
  <2>3. Ordered(log[c])
    BY <1>1 DEF LogsOrdered
  <2> HIDE DEF m, c
  <2>4. Ordered(Append(log[c], m))
    BY <2>1, <2>2, <2>3, OrderedAppend
  <2>5. ASSUME NEW d \in Conv
        PROVE  Ordered(log'[d])
    <3>1. Ordered(log[d])
      BY DEF LogsOrdered
    <3>2. CASE d = c
      BY <1>1, <2>4, <3>2
    <3>3. CASE d # c
      <4>1. log'[d] = log[d]
        BY <1>1, <3>3
      <4>. QED  BY <3>1, <4>1
    <3>. QED  BY <3>2, <3>3
  <2>. QED  BY <2>5 DEF LogsOrdered, Ordered
<1>5. role = "assistant" => <<s, "user", c>> \in Saying \/ s \in wiped
  BY <1>1 DEF SaidKept
<1>6. QuestionsFirst'
  <2> SUFFICES ASSUME NEW t \in Send, NEW d \in Conv, <<t, "assistant", d>> \in Saying'
               PROVE  <<t, "user", d>> \in Saying' \/ t \in wiped
    BY DEF QuestionsFirst
  <2>1. CASE <<t, "assistant", d>> \in Saying
    BY <1>1, <2>1 DEF QuestionsFirst
  <2>2. CASE <<t, "assistant", d>> = <<s, role, c>>
    BY <1>1, <1>5, <2>2
  <2>. QED  BY <1>1, <2>1, <2>2
<1>7. SaidInTime'
  <2> SUFFICES ASSUME NEW t \in Send, NEW d \in Conv
               PROVE  /\ stream'[t].pc \in {"unsent", "accepted", "guarded"}
                            => <<t, "user", d>> \notin Saying'
                      /\ stream'[t].pc \in {"unsent", "accepted", "guarded", "streaming",
                                            "error", "cancelled"}
                            => <<t, "assistant", d>> \notin Saying'
    BY DEF SaidInTime
  <2>1. CASE t # s
    BY <1>1, <1>3, <2>1 DEF SaidInTime
  <2>2. CASE t = s
    BY <1>1, <1>3, <2>2 DEF SaidInTime
  <2>. QED  BY <2>1, <2>2
<1>8. SaidKept'
  <2> SUFFICES ASSUME NEW t \in Send \ wiped
               PROVE  /\ stream'[t].pc \in {"streaming", "touching", "done", "untouched"} =>
                           \/ <<t, "user", stream'[t].conv>> \in Saying'
                           \/ stream'[t].conv \notin Open
                      /\ stream'[t].pc \in {"touching", "done", "untouched"} =>
                           \/ <<t, "assistant", stream'[t].conv>> \in Saying'
                           \/ stream'[t].conv \notin Open
    BY DEF SaidKept
  <2> HIDE DEF m, c
  <2>0. Saying \subseteq Saying' /\ <<s, role, c>> \in Saying'
    BY <1>1
  <2>1. CASE t # s
    <3>1. stream'[t] = stream[t]
      BY <1>3, <2>1
    <3>. QED  BY <2>0, <3>1 DEF SaidKept
  <2>2. CASE t = s
    <3>1. stream'[t].pc = pc /\ stream'[t].conv = c
      BY <1>3, <2>2
    <3>2. role = "assistant" => <<s, "user", c>> \in Saying'
      BY <1>5, <2>0, <2>2
    <3>3. pc \in {"touching", "done", "untouched"} => role = "assistant"
      OBVIOUS
    <3>4. role = "user" => <<s, "user", c>> \in Saying'
      BY <2>0
    <3>5. role = "assistant" => <<s, "assistant", c>> \in Saying'
      BY <2>0
    <3>6. <<s, "user", c>> \in Saying'
      BY <3>2, <3>4
    <3>. QED  BY <2>2, <3>1, <3>3, <3>5, <3>6
  <2>. QED  BY <2>1, <2>2
<1>. QED  BY <1>4, <1>6, <1>7, <1>8 DEF TranscriptParts

\* A log is emptied, and its conversation may go.
LEMMA Wiping ==
  ASSUME TranscriptInv, NEW c \in Conv, log' = [log EXCEPT ![c] = <<>>],
         wiped' = wiped \cup SendsIn(c), UNCHANGED stream, Open' \subseteq Open
  PROVE  TranscriptParts'
<1> USE DEF TranscriptInv
<1>1. /\ Saying' = {m \in Saying : m[3] # c}
      /\ \A m \in Saying : m[3] = c => m[1] \in wiped'
      /\ \A d \in Conv : Ordered(log[d]) => Ordered(log'[d])
  BY SayingEmptied
<1>2. LogsOrdered'
  BY <1>1 DEF LogsOrdered, Ordered
<1>3. QuestionsFirst'
  <2> SUFFICES ASSUME NEW t \in Send, NEW d \in Conv, <<t, "assistant", d>> \in Saying'
               PROVE  <<t, "user", d>> \in Saying' \/ t \in wiped'
    BY DEF QuestionsFirst
  <2>1. <<t, "assistant", d>> \in Saying /\ d # c
    BY <1>1
  <2>2. CASE <<t, "user", d>> \in Saying
    BY <1>1, <2>1, <2>2
  <2>. QED  BY <2>1, <2>2 DEF QuestionsFirst
<1>4. SaidInTime'
  BY <1>1 DEF SaidInTime
<1>5. ASSUME NEW t \in Send \ wiped', NEW role \in {"user", "assistant"}, NEW d \in Conv,
             <<t, role, d>> \in Saying
      PROVE  <<t, role, d>> \in Saying'
  BY <1>1, <1>5
<1>6. SaidKept'
  <2> SUFFICES ASSUME NEW t \in Send \ wiped'
               PROVE  /\ stream[t].pc \in {"streaming", "touching", "done", "untouched"} =>
                           \/ <<t, "user", stream[t].conv>> \in Saying'
                           \/ stream[t].conv \notin Open'
                      /\ stream[t].pc \in {"touching", "done", "untouched"} =>
                           \/ <<t, "assistant", stream[t].conv>> \in Saying'
                           \/ stream[t].conv \notin Open'
    BY DEF SaidKept
  <2>1. t \in Send \ wiped
    OBVIOUS
  <2>2. stream[t].pc \in {"streaming", "touching", "done", "untouched"} => stream[t].conv \in Conv
    BY DEF ChatInv, RequestsPlaced, Unsent
  <2>. QED  BY <1>5, <2>1, <2>2 DEF SaidKept
<1>. QED  BY <1>2, <1>3, <1>4, <1>6 DEF TranscriptParts

\* Conversations may open, but none that a request has; a request that is
\* new to its stage has said nothing.
LEMMA OpeningSilently ==
  ASSUME TranscriptInv, UNCHANGED <<log, wiped>>,
         \A t \in Send : stream'[t] = stream[t]
                         \/ (stream[t] = Unsent /\ stream'[t].pc = "accepted"),
         \A t \in Send : stream[t] # Unsent /\ stream[t].conv \in Open' =>
                           stream[t].conv \in Open
  PROVE  TranscriptParts'
<1> USE DEF TranscriptInv
<1>1. Saying' = Saying
  BY DEF Saying, Said
<1>2. (LogsOrdered /\ QuestionsFirst)'
  BY <1>1 DEF LogsOrdered, Ordered, QuestionsFirst
<1>3. SaidInTime'
  <2> SUFFICES ASSUME NEW t \in Send, NEW d \in Conv
               PROVE  /\ stream'[t].pc \in {"unsent", "accepted", "guarded"}
                            => <<t, "user", d>> \notin Saying
                      /\ stream'[t].pc \in {"unsent", "accepted", "guarded", "streaming",
                                            "error", "cancelled"}
                            => <<t, "assistant", d>> \notin Saying
    BY <1>1 DEF SaidInTime
  <2>1. CASE stream'[t] = stream[t]
    BY <2>1 DEF SaidInTime
  <2>2. CASE stream[t] = Unsent
    BY <2>2 DEF SaidInTime, Unsent
  <2>. QED  BY <2>1, <2>2
<1>4. SaidKept'
  <2> SUFFICES ASSUME NEW t \in Send \ wiped
               PROVE  /\ stream'[t].pc \in {"streaming", "touching", "done", "untouched"} =>
                           \/ <<t, "user", stream'[t].conv>> \in Saying
                           \/ stream'[t].conv \notin Open'
                      /\ stream'[t].pc \in {"touching", "done", "untouched"} =>
                           \/ <<t, "assistant", stream'[t].conv>> \in Saying
                           \/ stream'[t].conv \notin Open'
    BY <1>1 DEF SaidKept
  <2>1. CASE stream'[t] = stream[t] /\ stream[t] # Unsent
    BY <2>1 DEF SaidKept
  <2>2. CASE stream'[t].pc \in {"unsent", "accepted"}
    BY <2>2
  <2>. QED  BY <2>1, <2>2 DEF Unsent
<1>. QED  BY <1>2, <1>3, <1>4 DEF TranscriptParts

\* A new conversation is nobody's yet.
LEMMA InsertedIsNobodys ==
  ASSUME ChatInv, NEW a \in Alert, NEW x \in Account, Insert(a, x)
  PROVE  \A t \in Send : stream[t] # Unsent /\ stream[t].conv \in Open' =>
                           stream[t].conv \in Open
<1> SUFFICES ASSUME NEW t \in Send, stream[t] # Unsent, stream[t].conv \in Open'
             PROVE  stream[t].conv \in Open
  OBVIOUS
<1>1. stream[t].conv \in Conv /\ stream[t].conv < nextConv /\ nextConv \in Nat
  BY DEF ChatInv, RequestsPlaced, IdsFresh
<1>2. stream[t].conv # nextConv
  BY <1>1
<1>3. conv'[stream[t].conv] = conv[stream[t].conv]
  BY <1>1, <1>2, Inserting
<1>. QED  BY <1>1, <1>3 DEF Open
-----------------------------------------------------------------------------
LEMMA TranscriptKeeps ==
  ASSUME TranscriptInv, [Next]_vars
  PROVE  TranscriptInv'
<1>1. ASSUME NEW a \in Alert, NEW x \in Account, Create(a, x)
      PROVE  TranscriptParts'
  <2>1. Insert(a, x) /\ UNCHANGED <<log, stream, wiped>>
    BY <1>1 DEF Create
  <2>2. \A t \in Send : stream[t] # Unsent /\ stream[t].conv \in Open' =>
                          stream[t].conv \in Open
    BY <2>1, InsertedIsNobodys DEF TranscriptInv
  <2>3. UNCHANGED <<log, wiped>> /\ \A t \in Send : stream'[t] = stream[t]
    BY <2>1
  <2>. QED  BY <2>2, <2>3, OpeningSilently
<1>2. ASSUME UNCHANGED <<conv, log, stream, wiped>>
      PROVE  TranscriptParts'
  <2>1. Open' = Open
    BY <1>2 DEF Open
  <2>2. UNCHANGED <<log, wiped>> /\ \A t \in Send : stream'[t] = stream[t]
    BY <1>2
  <2>3. \A t \in Send : stream[t] # Unsent /\ stream[t].conv \in Open' =>
                          stream[t].conv \in Open
    BY <2>1
  <2>. QED  BY <2>2, <2>3, OpeningSilently
<1>3. ASSUME NEW a \in Alert, NEW x \in Account, NEW c \in Conv, Rename(a, x, c)
      PROVE  TranscriptParts'
  <2>1. UNCHANGED <<conv, log, stream, wiped>>
    BY <1>3 DEF Rename
  <2>. QED  BY <1>2, <2>1
<1>4. ASSUME NEW a \in Alert, NEW x \in Account, NEW c \in Conv, Delete(a, x, c)
      PROVE  TranscriptParts'
  <2>1. Open' \subseteq Open
    BY <1>4 DEF Delete, Open, TranscriptInv, ChatInv, IdsFresh
  <2>. QED  BY <1>4, <2>1, Wiping DEF Delete
<1>5. ASSUME NEW a \in Alert, Reset(a)
      PROVE  TranscriptParts'
  <2>1. PICK c \in Latest(a) : log' = [log EXCEPT ![c] = <<>>] /\ wiped' = wiped \cup SendsIn(c)
    BY <1>5 DEF Reset
  <2>2. c \in Conv /\ UNCHANGED stream /\ Open' \subseteq Open
    BY <1>5 DEF Reset, Latest, Open
  <2>. QED  BY <2>1, <2>2, Wiping
<1>6. ASSUME NEW s \in Send, NEW a \in Alert, NEW x \in Account, NEW c,
             stream[s] = Unsent, Accepted(s, a, x, c)
      PROVE  \A t \in Send : stream'[t] = stream[t]
                             \/ (stream[t] = Unsent /\ stream'[t].pc = "accepted")
  <2> DEFINE new == [pc |-> "accepted", alert |-> a, by |-> x, conv |-> c, mems |-> {}]
  <2>1. stream' = [stream EXCEPT ![s] = new] /\ DOMAIN stream = Send
    BY <1>6 DEF Accepted, TranscriptInv, ChatInv, RequestsPlaced
  <2>2. new.pc = "accepted"
    OBVIOUS
  <2> HIDE DEF new
  <2>3. \A t \in Send : stream'[t] = IF t = s THEN new ELSE stream[t]
    BY <2>1
  <2>. QED  BY <1>6, <2>2, <2>3
<1>7. ASSUME NEW s \in Send, NEW a \in Alert, NEW x \in Account,
             (\E c \in Conv : AcceptIn(s, a, x, c)) \/ AcceptLatest(s, a, x)
      PROVE  TranscriptParts'
  <2>1. PICK c : stream[s] = Unsent /\ Accepted(s, a, x, c) /\ UNCHANGED <<conv, log, wiped>>
    BY <1>7 DEF AcceptIn, AcceptLatest
  <2>2. Open' = Open
    BY <2>1 DEF Open
  <2>. QED  BY <1>6, <2>1, <2>2, OpeningSilently
<1>8. ASSUME NEW s \in Send, NEW a \in Alert, NEW x \in Account, AcceptNew(s, a, x)
      PROVE  TranscriptParts'
  <2>1. /\ stream[s] = Unsent /\ Insert(a, x) /\ Accepted(s, a, x, nextConv)
        /\ UNCHANGED <<log, wiped>>
    BY <1>8 DEF AcceptNew
  <2>2. \A t \in Send : stream[t] # Unsent /\ stream[t].conv \in Open' =>
                          stream[t].conv \in Open
    BY <2>1, InsertedIsNobodys DEF TranscriptInv
  <2>. QED  BY <1>6, <2>1, <2>2, OpeningSilently
<1>9. ASSUME NEW s \in Send,
             \/ Guard(s) \/ Unstored(s) \/ StreamFails(s) \/ Cancel(s)
             \/ TouchUsed(s) \/ TouchFails(s)
      PROVE  TranscriptParts'
  <2>1. PICK pc \in {"guarded", "error", "cancelled", "done", "untouched"} :
          /\ Goto(s, pc) /\ UNCHANGED <<conv, log, wiped>>
          /\ \/ stream[s].pc = "accepted" /\ pc \in {"guarded", "error", "cancelled"}
             \/ stream[s].pc = "streaming" /\ pc \in {"error", "cancelled"}
             \/ stream[s].pc = "touching" /\ pc \in {"done", "untouched"}
    BY <1>9 DEF Guard, Unstored, StreamFails, Cancel, TouchUsed, TouchFails
  <2>2. stream[s] # Unsent /\ pc \in Stage
    BY <2>1 DEF Unsent, Stage, Ended
  <2>3. Open' = Open
    BY <2>1 DEF Open
  <2>. QED  BY <2>1, <2>2, <2>3, GoingOnSilently
<1>10. ASSUME NEW s \in Send, NEW mems \in SUBSET Live, Ask(s, mems)
       PROVE  TranscriptParts'
  <2> DEFINE pc == "streaming"
             role == "user"
  <2>1. /\ stream[s].pc = "accepted" /\ stream[s].conv \in Open
        /\ stream' = [stream EXCEPT ![s].pc = pc, ![s].mems = mems]
        /\ UNCHANGED wiped /\ UNCHANGED conv /\ Stored(s, role)
    BY <1>10 DEF Ask, Stored
  <2>2. stream[s] # Unsent /\ pc \in Stage /\ mems \in SUBSET MemoryId
    BY <2>1 DEF Unsent, Stage, Live
  <2>3. Open' = Open
    BY <2>1 DEF Open
  <2>4. role \in {"user", "assistant"} /\ pc = "streaming" /\ role = "user"
    OBVIOUS
  <2> HIDE DEF pc, role
  <2>. QED  BY <2>1, <2>2, <2>3, <2>4, Speaking
<1>11. ASSUME NEW s \in Send, Answer(s)
       PROVE  TranscriptParts'
  <2> DEFINE role == "assistant"
  <2>1. PICK pc \in {"done", "touching"} : Goto(s, pc)
    BY <1>11 DEF Answer
  <2>2. /\ stream[s].pc = "streaming" /\ stream[s].conv \in Open
        /\ UNCHANGED wiped /\ UNCHANGED conv /\ Stored(s, role)
    BY <1>11 DEF Answer, Stored
  <2>3. stream[s] # Unsent /\ pc \in Stage
    BY <2>1, <2>2 DEF Unsent, Stage, Ended
  <2>4. stream[s].mems \in SUBSET MemoryId /\ DOMAIN stream = Send
        /\ stream[s] \in [pc : Stage, alert : Alert, by : Account, conv : Conv,
                          mems : SUBSET MemoryId]
    BY <2>3 DEF TranscriptInv, ChatInv, RequestsPlaced
  <2>5. stream' = [stream EXCEPT ![s].pc = pc, ![s].mems = stream[s].mems]
    BY <2>1, <2>4 DEF Goto
  <2>6. Open' = Open
    BY <2>2 DEF Open
  <2>7. role \in {"user", "assistant"} /\ pc \in {"touching", "done"} /\ role = "assistant"
    BY <2>1
  <2> HIDE DEF role
  <2>. QED  BY <2>2, <2>3, <2>4, <2>5, <2>6, <2>7, Speaking
<1>12. CASE MemoryStep \/ UNCHANGED vars
  <2>1. UNCHANGED <<conv, log, stream, wiped>>
    BY <1>12 DEF MemoryStep, vars, chatVars
  <2>2. TranscriptParts'
    BY <1>2, <2>1
  <2>3. ChatInv'
    BY ChatKeeps DEF TranscriptInv
  <2>. QED  BY <2>2, <2>3 DEF TranscriptInv, TranscriptParts
<1>13. ASSUME TranscriptParts'
       PROVE  TranscriptInv'
  BY <1>13, ChatKeeps DEF TranscriptInv, TranscriptParts
<1>14. CASE ChatStep
  BY <1>1, <1>3, <1>4, <1>5, <1>7, <1>8, <1>9, <1>10, <1>11, <1>13, <1>14 DEF ChatStep
<1>. QED  BY <1>12, <1>14 DEF Next

\* The invariant says of every log what TranscriptsSound says.
LEMMA TranscriptsFollow == TranscriptInv => TranscriptsSound
<1> SUFFICES ASSUME TranscriptInv PROVE TranscriptsSound
  OBVIOUS
<1> USE DEF TranscriptInv
<1>1. \A s \in Send, role \in {"user", "assistant"}, c \in Conv :
        <<s, role, c>> \in Saying <=> Said(s, role, c)
  BY DEF Saying
<1>2. ASSUME NEW c \in Open, NEW i \in DOMAIN log[c], NEW j \in DOMAIN log[c]
      PROVE  /\ stream[log[c][i].send].conv = c
             /\ log[c][i] = log[c][j] => i = j
             /\ (log[c][i].send = log[c][j].send /\ i < j) => log[c][i].role = "user"
             /\ log[c][i].role = "assistant" =>
                  \/ Said(log[c][i].send, "user", c) \/ log[c][i].send \in wiped
  <2>1. c \in Conv
    BY DEF Open
  <2>2. stream[log[c][i].send].conv = c /\ log[c] \in Seq(Message)
    BY <2>1 DEF ChatInv, MessagesPlaced
  <2>3. Ordered(log[c])
    BY <2>1 DEF LogsOrdered
  <2>4. log[c][i] \in Message
    BY <2>2
  <2>5. log[c][i].send \in Send
        /\ log[c][i] = [role |-> log[c][i].role, send |-> log[c][i].send]
    BY <2>4 DEF Message
  <2>6. log[c][i].role = "assistant" => Said(log[c][i].send, "assistant", c)
    BY <2>5 DEF Said
  <2>7. log[c][i].role = "assistant" =>
          \/ Said(log[c][i].send, "user", c) \/ log[c][i].send \in wiped
    BY <1>1, <2>1, <2>5, <2>6 DEF QuestionsFirst
  <2>. QED  BY <2>2, <2>3, <2>7 DEF Ordered
<1>3. ASSUME NEW s \in Send \ wiped
      PROVE  /\ stream[s].pc \in {"streaming", "touching", "done", "untouched"} =>
                  \/ Said(s, "user", stream[s].conv) \/ stream[s].conv \notin Open
             /\ stream[s].pc \in {"touching", "done", "untouched"} =>
                  \/ Said(s, "assistant", stream[s].conv) \/ stream[s].conv \notin Open
  BY <1>1 DEF SaidKept, Open
<1>4. ASSUME NEW s \in Send, NEW c \in Conv,
             stream[s].pc \in {"accepted", "guarded", "streaming", "error", "cancelled"}
      PROVE  ~Said(s, "assistant", c)
  BY <1>1, <1>4 DEF SaidInTime
<1>. QED  BY <1>2, <1>3, <1>4 DEF TranscriptsSound

(***************************************************************************)
(* Whatever is deleted, reset or renamed while answers stream, a           *)
(* conversation only holds questions, each once, and answers, each once    *)
(* and after its question; what was said is kept unless somebody wiped it, *)
(* and a failed or abandoned stream leaves no answer                       *)
(* (services/llm_chat.py:15-16, ChatSession.send_message_stream).          *)
(***************************************************************************)
THEOREM TranscriptsHold == Spec => []TranscriptsSound
  BY TranscriptStarts, TranscriptKeeps, TranscriptsFollow, PTL DEF Spec
-----------------------------------------------------------------------------
(***************************************************************************)
(* What is remembered, and how it is counted (LlmMemory).                  *)
(***************************************************************************)
\* Inductive as it stands: no other fact about the memory is needed.
MemoryInv == MemoryTypeOK /\ StatsAccounted /\ RememberedOnce

LEMMA MemoryIdsFinite == IsFiniteSet(MemoryId) /\ MemoryId \subseteq Nat
BY FS_Interval, MemoryAssumption DEF MemoryId

\* A memory that exists is not the absence of one, nor a judgement of one.
LEMMA RecordsTold ==
  /\ \A m \in Memory : m # NoMemory
  /\ \A j \in Judgement : j # Free
<1>1. ASSUME NEW m \in Memory, m = NoMemory PROVE FALSE
  <2>1. DOMAIN m = {"what", "uses", "last"} /\ DOMAIN m = {"what"}
    BY <1>1 DEF Memory, NoMemory
  <2> QED BY <2>1
<1>2. ASSUME NEW j \in Judgement, j = Free PROVE FALSE
  <2>1. DOMAIN j = {"alert", "by", "said"} /\ DOMAIN j = {"alert"}
    BY <1>2 DEF Judgement, Free
  <2> QED BY <2>1
<1> QED BY <1>1, <1>2

LEMMA ContentTyped ==
  ASSUME NEW j \in Judgement
  PROVE  ContentOf(j) \in Content
BY MemoryAssumption DEF Judgement, ContentOf, Content

LEMMA MemoryStarts == MemoryInit => MemoryInv
<1> SUFFICES ASSUME MemoryInit PROVE MemoryInv
  OBVIOUS
<1>1. Live = {}
  BY DEF MemoryInit, Live
<1>2. MemoryTypeOK
  BY <1>1, MemoryAssumption DEF MemoryInit, MemoryTypeOK
<1>3. Uses = {} /\ Cardinality({}) = 0
  BY <1>1, FS_EmptySet DEF Uses
<1>4. StatsAccounted
  BY <1>1, <1>3 DEF StatsAccounted, MemoryInit
<1>5. RememberedOnce
  BY <1>1 DEF RememberedOnce, MemoryInit
<1> QED BY <1>2, <1>4, <1>5 DEF MemoryInv

\* What each operation makes of the memories there are.
LEMMA NewMemory ==
  ASSUME MemoryTypeOK, NEW r \in Replica, RememberNew(r)
  PROVE  /\ judging[r] \in Judgement /\ nextMemory \in MemoryId \ Live
         /\ Live' = Live \cup {nextMemory}
         /\ memory'[nextMemory] =
              [what |-> ContentOf(judging[r]), uses |-> 0, last |-> "never"]
         /\ \A i \in MemoryId : i # nextMemory => memory'[i] = memory[i]
         /\ memory' \in [MemoryId -> Memory \cup {NoMemory}]
<1> DEFINE m == [what |-> ContentOf(judging[r]), uses |-> 0, last |-> "never"]
<1>1. judging[r] \in Judgement
  BY DEF MemoryTypeOK, RememberNew
<1>2. ContentOf(judging[r]) \in Content
  BY <1>1, ContentTyped
<1>3. m \in Memory /\ m # NoMemory
  <2>1. m \in Memory
    BY <1>2 DEF Memory
  <2> QED BY <2>1, RecordsTold
<1>4. nextMemory \in MemoryId \ Live
  BY MemoryAssumption DEF MemoryTypeOK, RememberNew, MemoryId
<1>5. memory' = [memory EXCEPT ![nextMemory] = m]
  BY DEF RememberNew
<1> HIDE DEF m
<1>6. /\ memory'[nextMemory] = m
      /\ \A i \in MemoryId : i # nextMemory => memory'[i] = memory[i]
      /\ memory' \in [MemoryId -> Memory \cup {NoMemory}]
  BY <1>3, <1>4, <1>5 DEF MemoryTypeOK
<1>7. Live' = Live \cup {nextMemory}
  BY <1>3, <1>4, <1>6 DEF Live
<1> QED BY <1>1, <1>4, <1>6, <1>7 DEF m

\* Memories used once more, or that were last used too long ago, remain.
UsedBy(T, n) ==
  /\ memory' \in [MemoryId -> Memory \cup {NoMemory}]
  /\ \A i \in MemoryId \ T : memory'[i] = memory[i]
  /\ \A i \in T : /\ memory'[i] \in Memory /\ memory'[i].what = memory[i].what
                  /\ memory'[i].uses = memory[i].uses + n

LEMMA SameMemories ==
  ASSUME MemoryTypeOK, NEW T \in SUBSET Live, NEW n, UsedBy(T, n)
  PROVE  /\ Live' = Live
         /\ \A i \in Live : memory'[i].what = memory[i].what
         /\ \A i \in Live : memory'[i].uses = IF i \in T THEN memory[i].uses + n
                                              ELSE memory[i].uses
<1>1. \A i \in Live : i \in MemoryId /\ memory[i] \in Memory
  BY DEF Live, MemoryTypeOK
<1>2. \A i \in T : memory'[i] # NoMemory
  BY RecordsTold DEF UsedBy
<1>3. Live' = Live
  BY <1>1, <1>2 DEF Live, UsedBy
<1> QED BY <1>1, <1>3 DEF UsedBy

\* A use of a memory changes neither what it says nor who it is about.
LEMMA UsedMemory ==
  ASSUME NEW m \in Memory
  PROVE  LET used == [m EXCEPT !.uses = @ + 1, !.last = "recent"]
         IN  used \in Memory /\ used.what = m.what /\ used.uses = m.uses + 1
<1> DEFINE more == [m EXCEPT !.uses = m.uses + 1]
<1>1. m.what \in Content /\ m.uses \in Nat /\ m.uses + 1 \in Nat
  BY DEF Memory
<1>2. more \in Memory /\ more.what = m.what /\ more.uses = m.uses + 1
  BY <1>1 DEF Memory
<1>3. [m EXCEPT !.uses = @ + 1, !.last = "recent"] = [more EXCEPT !.last = "recent"]
  OBVIOUS
<1> HIDE DEF more
<1>4. /\ [more EXCEPT !.last = "recent"] \in Memory
      /\ [more EXCEPT !.last = "recent"].what = more.what
      /\ [more EXCEPT !.last = "recent"].uses = more.uses
  BY <1>2 DEF Memory
<1> QED BY <1>2, <1>3, <1>4

LEMMA AgainMemory ==
  ASSUME MemoryTypeOK, NEW r \in Replica, NEW i \in MemoryId, RememberAgain(r, i)
  PROVE  /\ i \in Live /\ judging[r] \in Judgement /\ memory[i].what = ContentOf(judging[r])
         /\ memory[i].uses < MaxUses
         /\ memory' \in [MemoryId -> Memory \cup {NoMemory}]
         /\ \A j \in MemoryId \ {i} : memory'[j] = memory[j]
         /\ memory'[i] \in Memory /\ memory'[i].what = memory[i].what
         /\ memory'[i].uses = memory[i].uses + 1
<1>1. i \in Live /\ judging[r] \in Judgement /\ memory[i].what = ContentOf(judging[r])
  BY DEF MemoryTypeOK, RememberAgain, Alike
<1>2. memory[i] \in Memory
  BY <1>1 DEF MemoryTypeOK, Live
<1> DEFINE used == [memory[i] EXCEPT !.uses = @ + 1, !.last = "recent"]
<1>3. memory' = [memory EXCEPT ![i] = used] /\ memory[i].uses < MaxUses
  BY DEF RememberAgain
<1>4. used \in Memory /\ used.what = memory[i].what /\ used.uses = memory[i].uses + 1
  BY <1>2, UsedMemory
<1> HIDE DEF used
<1>5. memory \in [MemoryId -> Memory \cup {NoMemory}]
  BY DEF MemoryTypeOK
<1> QED BY <1>1, <1>2, <1>3, <1>4, <1>5

LEMMA TouchedMemories ==
  ASSUME MemoryTypeOK, NEW S \in SUBSET MemoryId, Touch(S)
  PROVE  /\ memory' \in [MemoryId -> Memory \cup {NoMemory}]
         /\ \A j \in MemoryId \ (S \cap Live) : memory'[j] = memory[j]
         /\ \A i \in S \cap Live : /\ memory[i].uses < MaxUses
                                   /\ memory'[i] \in Memory /\ memory'[i].what = memory[i].what
                                   /\ memory'[i].uses = memory[i].uses + 1
<1> DEFINE used(i) == [memory[i] EXCEPT !.uses = @ + 1, !.last = "recent"]
<1>1. memory' = [i \in MemoryId |-> IF i \in S \cap Live THEN used(i) ELSE memory[i]]
  BY DEF Touch
<1>2. \A i \in Live : i \in MemoryId /\ memory[i] \in Memory
  BY DEF MemoryTypeOK, Live
<1>3. \A i \in Live : /\ used(i) \in Memory /\ used(i).what = memory[i].what
                      /\ used(i).uses = memory[i].uses + 1
  BY <1>2, UsedMemory
<1> HIDE DEF used
<1>4. \A i \in S \cap Live : memory[i].uses < MaxUses
  BY DEF Touch
<1>5. memory \in [MemoryId -> Memory \cup {NoMemory}]
  BY DEF MemoryTypeOK
<1> QED BY <1>1, <1>2, <1>3, <1>4, <1>5

LEMMA DecayedMemory ==
  ASSUME MemoryTypeOK, NEW i \in MemoryId, Decay(i)
  PROVE  /\ i \in Live /\ memory' \in [MemoryId -> Memory \cup {NoMemory}]
         /\ \A j \in MemoryId \ {i} : memory'[j] = memory[j]
         /\ memory'[i] \in Memory /\ memory'[i].what = memory[i].what
         /\ memory'[i].uses = memory[i].uses + 0
<1>1. i \in Live /\ memory[i] \in Memory
  BY DEF MemoryTypeOK, Live, Decay
<1>2. memory' = [memory EXCEPT ![i] = [@ EXCEPT !.last = "old"]]
  BY DEF Decay
<1>3. [memory[i] EXCEPT !.last = "old"] \in Memory
  BY <1>1 DEF Memory
<1> QED BY <1>1, <1>2, <1>3 DEF MemoryTypeOK, Memory

LEMMA ForgottenMemory ==
  ASSUME MemoryTypeOK, NEW i \in MemoryId, Forget(i)
  PROVE  /\ i \in Live /\ memory[i] \in Memory /\ Live' = Live \ {i}
         /\ memory' \in [MemoryId -> Memory \cup {NoMemory}]
         /\ \A j \in MemoryId \ {i} : memory'[j] = memory[j]
BY DEF MemoryTypeOK, Live, Forget

\* The counts of memories and of their uses are numbers.
LEMMA CountsFinite ==
  ASSUME MemoryTypeOK
  PROVE  /\ IsFiniteSet(Live) /\ Cardinality(Live) \in Nat
         /\ IsFiniteSet(Uses) /\ Cardinality(Uses) \in Nat
<1>1. IsFiniteSet(Live)
  BY MemoryIdsFinite, FS_Subset DEF Live
<1>2. IsFiniteSet(1..MaxUses)
  BY FS_Interval, MemoryAssumption
<1>3. IsFiniteSet(MemoryId \X (1..MaxUses))
  BY <1>2, MemoryIdsFinite, FS_Product
<1>4. IsFiniteSet(Uses)
  <2>1. Uses \in SUBSET (MemoryId \X (1..MaxUses))
    BY DEF Uses
  <2> HIDE DEF Uses
  <2> QED BY <2>1, <1>3, FS_Subset
<1> QED BY <1>1, <1>4, FS_CardinalityType

\* Each of T used once more makes as many uses more.
LEMMA UsesOfMore ==
  ASSUME MemoryTypeOK, NEW T \in SUBSET Live, \A i \in T : memory[i].uses < MaxUses,
         Live' = Live,
         \A i \in Live : memory'[i].uses = IF i \in T THEN memory[i].uses + 1
                                           ELSE memory[i].uses
  PROVE  Cardinality(Uses') = Cardinality(Uses) + Cardinality(T)
<1> DEFINE top(i) == <<i, memory[i].uses + 1>>
           M == {top(i) : i \in T}
           f == [i \in T |-> top(i)]
<1>1. \A i \in Live : i \in MemoryId /\ memory[i].uses \in Nat
  BY DEF Live, MemoryTypeOK, Memory
<1>2. Uses' = Uses \cup M
  <2>1. ASSUME NEW i \in MemoryId, NEW k \in 1..MaxUses
        PROVE  <<i, k>> \in Uses' <=> <<i, k>> \in Uses \/ <<i, k>> \in M
    <3>1. <<i, k>> \in Uses <=> i \in Live /\ k <= memory[i].uses
      BY DEF Uses
    <3>2. <<i, k>> \in Uses' <=> i \in Live /\ k <= memory'[i].uses
      BY DEF Uses
    <3>3. <<i, k>> \in M <=> i \in T /\ k = memory[i].uses + 1
      OBVIOUS
    <3> HIDE DEF M
    <3>4. i \in Live => memory[i].uses \in Nat
      BY <1>1
    <3> QED BY <3>1, <3>2, <3>3, <3>4
  <2>2. Uses \subseteq MemoryId \X (1..MaxUses) /\ Uses' \subseteq MemoryId \X (1..MaxUses)
    BY DEF Uses
  <2>3. M \subseteq MemoryId \X (1..MaxUses)
    <3>1. \A i \in T : memory[i].uses + 1 \in 1..MaxUses /\ i \in MemoryId
      BY <1>1, MemoryAssumption
    <3> QED BY <3>1
  <2> HIDE DEF M
  <2>4. ASSUME NEW p \in MemoryId \X (1..MaxUses)
        PROVE  p \in Uses' <=> p \in Uses \/ p \in M
    <3>1. PICK i \in MemoryId, k \in 1..MaxUses : p = <<i, k>>
      OBVIOUS
    <3> QED BY <2>1, <3>1
  <2> QED BY <2>2, <2>3, <2>4
<1>3. Uses \cap M = {}
  BY <1>1 DEF Uses
<1>4. IsFiniteSet(T) /\ Cardinality(T) \in Nat
  BY CountsFinite, FS_Subset, FS_CardinalityType
<1>5. f \in Bijection(T, M)
  <2>1. f \in [T -> M] /\ \A i \in T : f[i] = top(i)
    OBVIOUS
  <2>2. \A i, j \in T : f[i] = f[j] => i = j
    BY <2>1
  <2>3. \A p \in M : \E i \in T : f[i] = p
    BY <2>1
  <2> HIDE DEF f, M
  <2> QED BY <2>1, <2>2, <2>3, Fun_IsBij DEF ExistsBijection
<1> HIDE DEF f, M
<1>6. IsFiniteSet(M) /\ Cardinality(M) = Cardinality(T)
  BY <1>4, <1>5, FS_Bijection DEF ExistsBijection
<1>7. IsFiniteSet(Uses) /\ Cardinality(Uses) \in Nat
  BY CountsFinite
<1>8. Cardinality(Uses \cup M) = Cardinality(Uses) + Cardinality(M) - Cardinality({})
  BY ONLY <1>3, <1>6, <1>7, FS_Union
<1> QED BY ONLY <1>2, <1>4, <1>6, <1>7, <1>8, FS_EmptySet

\* Forgetting a memory takes away as many uses as it had.
LEMMA UsesOfForgotten ==
  ASSUME MemoryTypeOK, NEW i \in Live, Live' = Live \ {i},
         \A j \in MemoryId \ {i} : memory'[j] = memory[j]
  PROVE  /\ memory[i].uses \in Nat
         /\ Cardinality(Uses') = Cardinality(Uses) - memory[i].uses
<1> DEFINE n == memory[i].uses
           M == {<<i, k>> : k \in 1..n}
           f == [k \in 1..n |-> <<i, k>>]
<1>1. i \in MemoryId /\ n \in Nat /\ n <= MaxUses
  BY DEF Live, MemoryTypeOK, Memory
<1> HIDE DEF n
<1>2. M \subseteq Uses
  <2>1. \A k \in 1..n : k \in 1..MaxUses /\ k <= memory[i].uses
    BY <1>1, MemoryAssumption DEF n
  <2> QED BY <1>1, <2>1 DEF Uses
<1>3. Uses' = Uses \ M
  <2>1. ASSUME NEW j \in MemoryId, NEW k \in 1..MaxUses
        PROVE  <<j, k>> \in Uses' <=> <<j, k>> \in Uses /\ <<j, k>> \notin M
    <3>1. <<j, k>> \in Uses <=> j \in Live /\ k <= memory[j].uses
      BY DEF Uses
    <3>2. <<j, k>> \in Uses' <=> j \in Live /\ j # i /\ k <= memory'[j].uses
      BY DEF Uses
    <3>3. <<j, k>> \in M <=> j = i /\ k \in 1..n
      OBVIOUS
    <3> HIDE DEF M
    <3>4. j # i => memory'[j] = memory[j]
      OBVIOUS
    <3>5. j = i => (k \in 1..n <=> k <= memory[j].uses)
      BY <1>1 DEF n
    <3> QED BY <3>1, <3>2, <3>3, <3>4, <3>5
  <2>2. Uses \subseteq MemoryId \X (1..MaxUses) /\ Uses' \subseteq MemoryId \X (1..MaxUses)
    BY DEF Uses
  <2> HIDE DEF M
  <2>4. ASSUME NEW p \in MemoryId \X (1..MaxUses)
        PROVE  p \in Uses' <=> p \in Uses /\ p \notin M
    <3>1. PICK j \in MemoryId, k \in 1..MaxUses : p = <<j, k>>
      OBVIOUS
    <3> QED BY <2>1, <3>1
  <2> QED BY <2>2, <2>4
<1>4. f \in Bijection(1..n, M)
  <2>1. f \in [1..n -> M] /\ \A k \in 1..n : f[k] = <<i, k>>
    OBVIOUS
  <2>2. \A j, k \in 1..n : f[j] = f[k] => j = k
    BY <2>1
  <2>3. \A p \in M : \E k \in 1..n : f[k] = p
    BY <2>1
  <2> HIDE DEF f, M
  <2> QED BY <2>1, <2>2, <2>3, Fun_IsBij
<1> HIDE DEF f, M
<1>5. IsFiniteSet(1..n) /\ Cardinality(1..n) = n
  BY <1>1, FS_Interval
<1>6. IsFiniteSet(M) /\ Cardinality(M) = n
  BY <1>4, <1>5, FS_Bijection DEF ExistsBijection
<1>7. Uses \cap M = M
  BY <1>2
<1>8. IsFiniteSet(Uses) /\ Cardinality(Uses) \in Nat
  BY CountsFinite
<1>9. Cardinality(Uses \ M) = Cardinality(Uses) - Cardinality(M)
  BY ONLY <1>7, <1>8, FS_Difference
<1> QED BY ONLY <1>1, <1>3, <1>6, <1>9 DEF n

\* The two halves of RememberedOnce.
OneEach ==
  \A i, j \in Live :
    (memory[i].what = memory[j].what /\ memory[i].what.user # NoUser) => i = j

Remembered == lost \cup {memory[i].what : i \in Live}
Given(a, x) == [alert |-> a, by |-> x, said |-> feedback[a][x]]
NoneMissed ==
  \A a \in Alert, x \in Account :
    feedback[a][x] # None =>
      \/ Given(a, x) \in {judging[r] : r \in Replica}
      \/ ContentOf(Given(a, x)) \in Remembered

LEMMA RememberedSplit ==
  /\ RememberedOnce <=> OneEach /\ NoneMissed
  /\ (RememberedOnce <=> OneEach /\ NoneMissed)'
BY DEF RememberedOnce, OneEach, NoneMissed, Remembered, Given

\* What is remembered stays so, and a replica that is done has remembered it.
LEMMA NoneMissedKept ==
  ASSUME NoneMissed, feedback' = feedback, Remembered \subseteq Remembered',
         \A r \in Replica : \/ judging'[r] = judging[r]
                            \/ ContentOf(judging[r]) \in Remembered'
  PROVE  NoneMissed'
<1> SUFFICES ASSUME NEW a \in Alert, NEW x \in Account, feedback'[a][x] # None
             PROVE  \/ Given(a, x)' \in {judging'[r] : r \in Replica}
                    \/ ContentOf(Given(a, x))' \in Remembered'
  BY DEF NoneMissed
<1>1. Given(a, x)' = Given(a, x) /\ ContentOf(Given(a, x))' = ContentOf(Given(a, x))
  BY DEF Given, ContentOf
<1>2. CASE Given(a, x) \in {judging[r] : r \in Replica}
  BY <1>1, <1>2
<1>3. CASE ContentOf(Given(a, x)) \in Remembered
  BY <1>1, <1>3
<1> QED BY <1>2, <1>3 DEF NoneMissed

LEMMA NoneMissedStored ==
  ASSUME MemoryTypeOK, NoneMissed, NEW r \in Replica, NEW a \in Alert,
         NEW x \in Account, NEW v \in Opinion, StoreVerdict(r, a, x, v)
  PROVE  NoneMissed'
<1> DEFINE j == [alert |-> a, by |-> x, said |-> v]
<1>1. feedback' = [feedback EXCEPT ![a][x] = v] /\ judging' = [judging EXCEPT ![r] = j]
  BY DEF StoreVerdict
<1>2. /\ feedback \in [Alert -> [Account -> Opinion \cup {None}]]
      /\ DOMAIN judging = Replica
  BY DEF MemoryTypeOK
<1>3. judging'[r] = j /\ \A q \in Replica : q # r => judging'[q] = judging[q]
  BY <1>1, <1>2
<1>4. /\ feedback'[a][x] = v
      /\ \A b \in Alert, y \in Account : <<b, y>> # <<a, x>> => feedback'[b][y] = feedback[b][y]
  BY <1>1, <1>2
<1>5. judging[r] = Free /\ Remembered' = Remembered
  BY DEF StoreVerdict, Remembered, Live
<1> SUFFICES ASSUME NEW b \in Alert, NEW y \in Account, feedback'[b][y] # None
             PROVE  \/ Given(b, y)' \in {judging'[q] : q \in Replica}
                    \/ ContentOf(Given(b, y))' \in Remembered'
  BY DEF NoneMissed
<1>6. CASE <<b, y>> = <<a, x>>
  BY <1>3, <1>4, <1>6 DEF Given
<1>7. CASE <<b, y>> # <<a, x>>
  <2>1. Given(b, y)' = Given(b, y) /\ ContentOf(Given(b, y))' = ContentOf(Given(b, y))
    BY <1>4, <1>7 DEF Given, ContentOf
  <2>2. feedback[b][y] # None
    BY <1>4, <1>7
  <2>3. CASE ContentOf(Given(b, y)) \in Remembered
    BY <1>5, <2>1, <2>3
  <2>4. CASE Given(b, y) \in {judging[q] : q \in Replica}
    <3>1. PICK q \in Replica : Given(b, y) = judging[q]
      BY <2>4
    <3>2. Given(b, y) \in Judgement
      BY <1>2, <2>2 DEF Given, Judgement
    <3>3. q # r
      BY <1>5, <3>1, <3>2, RecordsTold
    <3> QED BY <1>3, <2>1, <3>1, <3>3
  <2> QED BY <2>2, <2>3, <2>4 DEF NoneMissed
<1> QED BY <1>6, <1>7

\* The memories stay, and so does what each is about.
LEMMA ContentsStay ==
  ASSUME MemoryInv, Live' = Live, \A i \in Live : memory'[i].what = memory[i].what,
         feedback' = feedback, lost' = lost,
         \A r \in Replica : \/ judging'[r] = judging[r]
                            \/ ContentOf(judging[r]) \in Remembered
  PROVE  RememberedOnce'
<1>1. Remembered' = Remembered
  BY DEF Remembered
<1>2. OneEach /\ NoneMissed
  BY RememberedSplit DEF MemoryInv
<1>3. OneEach'
  BY <1>2 DEF OneEach
<1>4. NoneMissed'
  BY <1>1, <1>2, NoneMissedKept
<1> QED BY <1>3, <1>4, RememberedSplit

LEMMA ClosedJudgement ==
  ASSUME MemoryTypeOK, NEW r \in Replica, judging' = [judging EXCEPT ![r] = Free]
  PROVE  /\ judging' \in [Replica -> Judgement \cup {Free}]
         /\ \A q \in Replica : q # r => judging'[q] = judging[q]
BY DEF MemoryTypeOK

\* A use adds to the row what it adds to the memories.
LEMMA StatsOfMore ==
  ASSUME MemoryInv, NEW T \in SUBSET Live, \A i \in T : memory[i].uses < MaxUses,
         Live' = Live, nextMemory' = nextMemory, stats' = Updated(stats, Cardinality(T)),
         \A i \in Live : memory'[i].uses = IF i \in T THEN memory[i].uses + 1
                                           ELSE memory[i].uses
  PROVE  /\ StatsAccounted' /\ stats' \in [count : Nat, uses : Nat]
         /\ \A i \in Live' : memory'[i].uses <= MaxUses
<1>1. IsFiniteSet(T) /\ Cardinality(T) \in Nat
  BY CountsFinite, FS_Subset, FS_CardinalityType DEF MemoryInv
<1>2. stats \in [count : Nat, uses : Nat] /\ nextMemory \in Nat /\ Cardinality(Uses) \in Nat
  BY CountsFinite DEF MemoryInv, MemoryTypeOK
<1>3. stats'.count = stats.count /\ stats'.uses = stats.uses + Cardinality(T)
  BY DEF Updated
<1>4. stats' \in [count : Nat, uses : Nat]
  BY <1>1, <1>2 DEF Updated
<1>5. Cardinality(Uses') = Cardinality(Uses) + Cardinality(T)
  BY UsesOfMore DEF MemoryInv
<1>6. stats.count = Cardinality(Live) /\ stats.uses = nextMemory - 1 + Cardinality(Uses)
  BY DEF MemoryInv, StatsAccounted
<1>7. StatsAccounted'
  <2>1. stats'.uses = nextMemory' - 1 + Cardinality(Uses')
    BY <1>1, <1>2, <1>3, <1>5, <1>6
  <2> QED BY <1>3, <1>6, <2>1 DEF StatsAccounted
<1>8. \A i \in Live : memory'[i].uses <= MaxUses
  <2>1. \A i \in Live : memory[i].uses \in Nat /\ memory[i].uses <= MaxUses
    BY DEF Live, MemoryInv, MemoryTypeOK, Memory
  <2> QED BY <2>1, MemoryAssumption
<1> QED BY <1>4, <1>7, <1>8

LEMMA StoreKeeps ==
  ASSUME MemoryInv, NEW r \in Replica, NEW a \in Alert, NEW x \in Account,
         NEW v \in Opinion, StoreVerdict(r, a, x, v)
  PROVE  MemoryInv'
<1>1. NoneMissed'
  BY NoneMissedStored, RememberedSplit DEF MemoryInv
<1>2. Live' = Live /\ Uses' = Uses
  BY DEF StoreVerdict, Live, Uses
<1>3. OneEach'
  BY <1>2, RememberedSplit DEF MemoryInv, OneEach, StoreVerdict
<1>4. StatsAccounted'
  BY <1>2 DEF MemoryInv, StatsAccounted, StoreVerdict
<1>5. feedback' \in [Alert -> [Account -> Opinion \cup {None}]]
  <2>1. feedback \in [Alert -> [Account -> Opinion \cup {None}]]
        /\ feedback' = [feedback EXCEPT ![a][x] = v]
    BY DEF MemoryInv, MemoryTypeOK, StoreVerdict
  <2> QED BY <2>1
<1>6. judging' \in [Replica -> Judgement \cup {Free}]
  <2> DEFINE j == [alert |-> a, by |-> x, said |-> v]
  <2>1. j \in Judgement
    BY DEF Judgement
  <2>2. judging \in [Replica -> Judgement \cup {Free}] /\ judging' = [judging EXCEPT ![r] = j]
    BY DEF MemoryInv, MemoryTypeOK, StoreVerdict
  <2> HIDE DEF j
  <2> QED BY <2>1, <2>2
<1>7. UNCHANGED <<memory, nextMemory, stats, lost>>
  BY DEF StoreVerdict
<1>8. MemoryTypeOK'
  BY <1>2, <1>5, <1>6, <1>7 DEF MemoryInv, MemoryTypeOK
<1> QED BY <1>1, <1>3, <1>4, <1>8, RememberedSplit DEF MemoryInv

LEMMA NewKeeps ==
  ASSUME MemoryInv, NEW r \in Replica, RememberNew(r)
  PROVE  MemoryInv'
<1> DEFINE n == nextMemory
           c == ContentOf(judging[r])
<1>1. /\ judging[r] \in Judgement /\ n \in MemoryId \ Live /\ Live' = Live \cup {n}
      /\ memory'[n] = [what |-> c, uses |-> 0, last |-> "never"]
      /\ \A i \in MemoryId : i # n => memory'[i] = memory[i]
      /\ memory' \in [MemoryId -> Memory \cup {NoMemory}]
  BY NewMemory DEF MemoryInv
<1>2. /\ Alike(c) = {} /\ nextMemory' = n + 1 /\ stats' = Inserted(stats)
      /\ judging' = [judging EXCEPT ![r] = Free] /\ feedback' = feedback /\ lost' = lost
  BY DEF RememberNew
<1>3. /\ MemoryTypeOK /\ StatsAccounted /\ OneEach /\ NoneMissed
  BY RememberedSplit DEF MemoryInv
<1>4. c \in Content
  BY <1>1, ContentTyped
<1>5. /\ judging' \in [Replica -> Judgement \cup {Free}]
      /\ \A q \in Replica : q # r => judging'[q] = judging[q]
  BY <1>2, <1>3, ClosedJudgement
<1> HIDE DEF c
<1>6. \A i \in Live : memory'[i] = memory[i] /\ i # n /\ i \in MemoryId
  BY <1>1 DEF Live
<1>7. memory'[n].what = c /\ memory'[n].uses = 0
  BY <1>1
<1>8. MemoryTypeOK'
  <2>1. \A i \in Live' : memory'[i].uses <= MaxUses
    BY <1>1, <1>3, <1>6, <1>7, MemoryAssumption DEF MemoryTypeOK
  <2>2. n \in Nat /\ n + 1 \in 1..(MaxMemories + 1)
    BY <1>1, MemoryAssumption DEF MemoryId
  <2>3. \A i \in Live' : i < n + 1
    <3>1. \A i \in Live : i < n /\ i \in Nat
      BY <1>3, <1>6, MemoryIdsFinite DEF MemoryTypeOK
    <3> QED BY <1>1, <2>2, <3>1
  <2>4. stats' \in [count : Nat, uses : Nat]
    BY <1>2, <1>3 DEF MemoryTypeOK, Inserted
  <2> QED BY <1>1, <1>2, <1>3, <1>5, <2>1, <2>2, <2>3, <2>4 DEF MemoryTypeOK
<1>9. StatsAccounted'
  <2>1. Uses' = Uses
    <3>1. ASSUME NEW p \in MemoryId \X (1..MaxUses)
          PROVE  p \in Uses' <=> p \in Uses
      <4>1. p \in Uses <=> p[1] \in Live /\ p[2] <= memory[p[1]].uses
        BY DEF Uses
      <4>2. p \in Uses' <=> p[1] \in Live' /\ p[2] <= memory'[p[1]].uses
        BY DEF Uses
      <4>3. p[2] \in 1..MaxUses
        OBVIOUS
      <4> QED BY <1>1, <1>6, <1>7, <4>1, <4>2, <4>3
    <3> QED BY <3>1 DEF Uses
  <2>2. IsFiniteSet(Live) /\ Cardinality(Live) \in Nat /\ Cardinality(Uses) \in Nat
    BY <1>3, CountsFinite
  <2>3. Cardinality(Live') = Cardinality(Live) + 1
    BY <1>1, <2>2, FS_AddElement
  <2>4. stats'.count = stats.count + 1 /\ stats'.uses = stats.uses + 1
    BY <1>2 DEF Inserted
  <2>5. stats.count = Cardinality(Live) /\ stats.uses = n - 1 + Cardinality(Uses) /\ n \in Nat
    BY <1>1, <1>3, MemoryIdsFinite DEF StatsAccounted
  <2>6. stats'.uses = nextMemory' - 1 + Cardinality(Uses')
    BY <1>2, <2>1, <2>2, <2>4, <2>5
  <2> QED BY <2>3, <2>4, <2>5, <2>6 DEF StatsAccounted
<1>10. OneEach'
  <2>1. \A i \in Live : c.user # NoUser => memory[i].what # c
    BY <1>2 DEF Alike
  <2> QED BY <1>1, <1>3, <1>6, <1>7, <2>1 DEF OneEach
<1>11. NoneMissed'
  <2>1. Remembered' = Remembered \cup {c}
    BY <1>1, <1>2, <1>6, <1>7 DEF Remembered
  <2> QED BY <1>2, <1>3, <1>5, <2>1, NoneMissedKept DEF c
<1> QED BY <1>8, <1>9, <1>10, <1>11, RememberedSplit DEF MemoryInv

LEMMA AgainKeeps ==
  ASSUME MemoryInv, NEW r \in Replica, NEW i \in MemoryId, RememberAgain(r, i)
  PROVE  MemoryInv'
<1>1. /\ i \in Live /\ judging[r] \in Judgement /\ memory[i].what = ContentOf(judging[r])
      /\ memory[i].uses < MaxUses
      /\ memory' \in [MemoryId -> Memory \cup {NoMemory}]
      /\ \A j \in MemoryId \ {i} : memory'[j] = memory[j]
      /\ memory'[i] \in Memory /\ memory'[i].what = memory[i].what
      /\ memory'[i].uses = memory[i].uses + 1
  BY AgainMemory DEF MemoryInv
<1>2. /\ Live' = Live /\ \A j \in Live : memory'[j].what = memory[j].what
      /\ \A j \in Live : memory'[j].uses = IF j \in {i} THEN memory[j].uses + 1
                                           ELSE memory[j].uses
  <2>1. {i} \in SUBSET Live /\ MemoryTypeOK
    BY <1>1 DEF MemoryInv
  <2>2. UsedBy({i}, 1)
    BY <1>1 DEF UsedBy
  <2> QED BY <2>1, <2>2, SameMemories
<1>3. /\ nextMemory' = nextMemory /\ stats' = Updated(stats, 1)
      /\ judging' = [judging EXCEPT ![r] = Free] /\ feedback' = feedback /\ lost' = lost
  BY DEF RememberAgain
<1>4. /\ judging' \in [Replica -> Judgement \cup {Free}]
      /\ \A q \in Replica : q # r => judging'[q] = judging[q]
  BY <1>3, ClosedJudgement DEF MemoryInv
<1>5. Cardinality({i}) = 1
  BY FS_Singleton
<1>6. /\ StatsAccounted' /\ stats' \in [count : Nat, uses : Nat]
      /\ \A j \in Live' : memory'[j].uses <= MaxUses
  BY <1>1, <1>2, <1>3, <1>5, StatsOfMore
<1>7. MemoryTypeOK'
  BY <1>1, <1>2, <1>3, <1>4, <1>6 DEF MemoryInv, MemoryTypeOK
<1>8. ContentOf(judging[r]) \in Remembered
  BY <1>1 DEF Remembered
<1>9. RememberedOnce'
  BY <1>2, <1>3, <1>4, <1>8, ContentsStay
<1> QED BY <1>6, <1>7, <1>9 DEF MemoryInv

LEMMA FailKeeps ==
  ASSUME MemoryInv, NEW r \in Replica, RememberFails(r)
  PROVE  MemoryInv'
<1>1. /\ judging' = [judging EXCEPT ![r] = Free] /\ lost' = lost \cup {ContentOf(judging[r])}
      /\ UNCHANGED <<feedback, memory, nextMemory, stats>>
  BY DEF RememberFails
<1>2. judging[r] \in Judgement
  BY DEF RememberFails, MemoryInv, MemoryTypeOK
<1>3. /\ judging' \in [Replica -> Judgement \cup {Free}]
      /\ \A q \in Replica : q # r => judging'[q] = judging[q]
  BY <1>1, ClosedJudgement DEF MemoryInv
<1>4. Live' = Live /\ Uses' = Uses /\ Remembered' = Remembered \cup {ContentOf(judging[r])}
  BY <1>1 DEF Live, Uses, Remembered
<1>5. MemoryTypeOK'
  <2>1. lost' \subseteq Content
    BY <1>1, <1>2, ContentTyped DEF MemoryInv, MemoryTypeOK
  <2> QED BY <1>1, <1>3, <1>4, <2>1 DEF MemoryInv, MemoryTypeOK
<1>6. StatsAccounted'
  BY <1>1, <1>4 DEF MemoryInv, StatsAccounted
<1>7. OneEach'
  BY <1>1, <1>4, RememberedSplit DEF MemoryInv, OneEach
<1>8. NoneMissed'
  BY <1>1, <1>3, <1>4, NoneMissedKept, RememberedSplit DEF MemoryInv
<1> QED BY <1>5, <1>6, <1>7, <1>8, RememberedSplit DEF MemoryInv

LEMMA ForgetKeeps ==
  ASSUME MemoryInv, NEW i \in MemoryId, Forget(i)
  PROVE  MemoryInv'
<1> DEFINE u == memory[i].uses
<1>1. /\ i \in Live /\ memory[i] \in Memory /\ Live' = Live \ {i}
      /\ memory' \in [MemoryId -> Memory \cup {NoMemory}]
      /\ \A j \in MemoryId \ {i} : memory'[j] = memory[j]
  BY ForgottenMemory DEF MemoryInv
<1>2. /\ stats' = Deleted(stats, memory[i]) /\ lost' = lost \cup {memory[i].what}
      /\ UNCHANGED <<feedback, nextMemory, judging>>
  BY DEF Forget
<1>3. MemoryTypeOK /\ StatsAccounted /\ OneEach /\ NoneMissed
  BY RememberedSplit DEF MemoryInv
<1>4. \A j \in Live' : j \in Live /\ memory'[j] = memory[j]
  BY <1>1 DEF Live
<1>5. u \in Nat /\ Cardinality(Uses') = Cardinality(Uses) - u
  BY <1>1, <1>3, UsesOfForgotten
<1>6. /\ IsFiniteSet(Live) /\ Cardinality(Live) \in Nat /\ Cardinality(Uses) \in Nat
      /\ Cardinality(Uses') \in Nat
  <2>1. IsFiniteSet(Uses')
    <3>1. Uses' \in SUBSET Uses
      BY <1>4 DEF Uses
    <3> QED BY <1>3, <3>1, CountsFinite, FS_Subset
  <2> QED BY <1>3, <2>1, CountsFinite, FS_CardinalityType
<1>7. Cardinality(Live') = Cardinality(Live) - 1 /\ Cardinality(Live) > 0
  <2>1. Cardinality(Live) # 0
    BY <1>1, <1>6, FS_EmptySet
  <2>2. Cardinality(Live \ {i}) = Cardinality(Live) - 1
    BY ONLY <1>1, <1>6, FS_RemoveElement
  <2> QED BY <1>1, <1>6, <2>1, <2>2
<1> HIDE DEF u
\* The row never falls below what it takes away: no lower bound is needed.
<1>8. stats'.count = Cardinality(Live') /\ stats'.uses = nextMemory' - 1 + Cardinality(Uses')
  <2>1. stats.count = Cardinality(Live) /\ stats.uses = nextMemory - 1 + Cardinality(Uses)
    BY <1>3 DEF StatsAccounted
  <2>2. nextMemory \in Nat /\ i \in Nat /\ i >= 1 /\ i < nextMemory
    BY <1>1, <1>3 DEF MemoryTypeOK, MemoryId
  <2>3. stats.count > 0 /\ stats.uses > u
    BY <1>5, <1>6, <1>7, <2>1, <2>2
  <2>4. stats'.count = stats.count - 1 /\ stats'.uses = stats.uses - u
    BY <1>2, <2>3 DEF Deleted, u
  <2> QED BY <1>2, <1>5, <1>6, <1>7, <2>1, <2>2, <2>4
<1>9. StatsAccounted'
  BY <1>8 DEF StatsAccounted
<1>10. MemoryTypeOK'
  <2>1. stats' \in [count : Nat, uses : Nat]
    <3>1. stats.count \in Nat /\ stats.uses \in Nat
      BY <1>3 DEF MemoryTypeOK
    <3>2. /\ (IF stats.count > 0 THEN stats.count - 1 ELSE 0) \in Nat
          /\ (IF stats.uses > u THEN stats.uses - u ELSE 0) \in Nat
      BY <1>5, <3>1
    <3> QED BY <1>2, <3>2 DEF Deleted, u
  <2>2. lost' \subseteq Content
    BY <1>1, <1>2, <1>3 DEF MemoryTypeOK, Memory
  <2> QED BY <1>1, <1>2, <1>3, <1>4, <2>1, <2>2 DEF MemoryTypeOK
<1>11. OneEach'
  BY <1>3, <1>4 DEF OneEach
<1>12. NoneMissed'
  <2>1. Remembered \subseteq Remembered'
    BY <1>1, <1>2, <1>4 DEF Remembered
  <2> QED BY <1>2, <1>3, <2>1, NoneMissedKept
<1> QED BY <1>9, <1>10, <1>11, <1>12, RememberedSplit DEF MemoryInv

LEMMA DecayKeeps ==
  ASSUME MemoryInv, NEW i \in MemoryId, Decay(i)
  PROVE  MemoryInv'
<1>1. /\ i \in Live /\ memory' \in [MemoryId -> Memory \cup {NoMemory}]
      /\ \A j \in MemoryId \ {i} : memory'[j] = memory[j]
      /\ memory'[i] \in Memory /\ memory'[i].what = memory[i].what
      /\ memory'[i].uses = memory[i].uses + 0
  BY DecayedMemory DEF MemoryInv
<1>2. UNCHANGED <<feedback, nextMemory, stats, judging, lost>>
  BY DEF Decay
<1>3. \A j \in Live : memory[j].uses \in Nat
  BY DEF Live, MemoryInv, MemoryTypeOK, Memory
<1>4. /\ Live' = Live /\ \A j \in Live : memory'[j].what = memory[j].what
      /\ \A j \in Live : memory'[j].uses = IF j \in {i} THEN memory[j].uses + 0
                                           ELSE memory[j].uses
  <2>1. {i} \in SUBSET Live /\ MemoryTypeOK
    BY <1>1 DEF MemoryInv
  <2>2. UsedBy({i}, 0)
    BY <1>1 DEF UsedBy
  <2> QED BY <2>1, <2>2, SameMemories
<1>5. \A j \in Live : memory'[j].uses = memory[j].uses
  BY <1>3, <1>4
<1>6. Uses' = Uses
  BY <1>4, <1>5 DEF Uses
<1>7. MemoryTypeOK'
  BY <1>1, <1>2, <1>4, <1>5 DEF MemoryInv, MemoryTypeOK
<1>8. StatsAccounted'
  BY <1>2, <1>4, <1>6 DEF MemoryInv, StatsAccounted
<1>9. RememberedOnce'
  BY <1>2, <1>4, ContentsStay
<1> QED BY <1>7, <1>8, <1>9 DEF MemoryInv

LEMMA TouchKeeps ==
  ASSUME MemoryInv, NEW S \in SUBSET MemoryId, Touch(S)
  PROVE  MemoryInv'
<1> DEFINE T == S \cap Live
<1>1. /\ memory' \in [MemoryId -> Memory \cup {NoMemory}]
      /\ \A j \in MemoryId \ T : memory'[j] = memory[j]
      /\ \A i \in T : /\ memory[i].uses < MaxUses
                      /\ memory'[i] \in Memory /\ memory'[i].what = memory[i].what
                      /\ memory'[i].uses = memory[i].uses + 1
  BY TouchedMemories DEF MemoryInv
<1>2. /\ stats' = Updated(stats, Cardinality(T))
      /\ UNCHANGED <<feedback, nextMemory, judging, lost>>
  BY DEF Touch
<1>3. T \in SUBSET Live
  OBVIOUS
<1> HIDE DEF T
<1>4. /\ Live' = Live /\ \A j \in Live : memory'[j].what = memory[j].what
      /\ \A j \in Live : memory'[j].uses = IF j \in T THEN memory[j].uses + 1
                                           ELSE memory[j].uses
  <2>1. UsedBy(T, 1)
    BY <1>1, <1>3 DEF UsedBy
  <2> QED BY <1>3, <2>1, SameMemories DEF MemoryInv
<1>5. /\ StatsAccounted' /\ stats' \in [count : Nat, uses : Nat]
      /\ \A j \in Live' : memory'[j].uses <= MaxUses
  BY <1>1, <1>2, <1>3, <1>4, StatsOfMore
<1>6. MemoryTypeOK'
  BY <1>1, <1>2, <1>4, <1>5 DEF MemoryInv, MemoryTypeOK
<1>7. RememberedOnce'
  BY <1>2, <1>4, ContentsStay
<1> QED BY <1>5, <1>6, <1>7 DEF MemoryInv

LEMMA MemoryKeeps ==
  ASSUME MemoryInv, [MemoryNext]_memoryVars
  PROVE  MemoryInv'
<1>1. CASE Judge
  BY <1>1, StoreKeeps, NewKeeps, AgainKeeps, FailKeeps DEF Judge
<1>2. CASE \E i \in MemoryId : Forget(i) \/ Decay(i)
  BY <1>2, ForgetKeeps, DecayKeeps
<1>3. CASE \E S \in SUBSET MemoryId : Touch(S)
  BY <1>3, TouchKeeps
<1>4. CASE UNCHANGED memoryVars
  BY <1>4 DEF memoryVars, MemoryInv, MemoryTypeOK, StatsAccounted, RememberedOnce, Live, Uses
<1> QED BY <1>1, <1>2, <1>3, <1>4 DEF MemoryNext

(***************************************************************************)
(* The memory by itself, whoever remembers, touches and forgets in it: no  *)
(* order of verdicts, retries and deletions makes the row of               *)
(* llm_stats_cache miscount (llm_memories_stats_sync, db/session.py:2371), *)
(* two replicas never make two memories of one content, and the verdict    *)
(* that stands is remembered with its note unless the write failed or      *)
(* somebody forgot it (_auto_write_memory, services/llm_feedback.py:46).   *)
(***************************************************************************)
THEOREM MemoriesHold == MemorySpec => [](MemoryTypeOK /\ StatsAccounted /\ RememberedOnce)
<1>1. MemoryInv => MemoryTypeOK /\ StatsAccounted /\ RememberedOnce
  BY DEF MemoryInv
<1> QED BY <1>1, MemoryStarts, MemoryKeeps, PTL DEF MemorySpec
-----------------------------------------------------------------------------
LEMMA ChatStepsRemember ==
  ASSUME ChatInv, [Next]_vars
  PROVE  [MemoryNext]_memoryVars
<1>1. ASSUME NEW s \in Send, TouchUsed(s)
      PROVE  \E S \in SUBSET MemoryId : Touch(S)
  <2>1. stream[s].pc = "touching" /\ Touch(stream[s].mems)
    BY <1>1 DEF TouchUsed
  <2>2. stream[s].mems \in SUBSET MemoryId
    BY <2>1 DEF ChatInv, RequestsPlaced, Unsent
  <2> QED BY <2>1, <2>2
<1>2. CASE MemoryStep
  BY <1>2 DEF MemoryStep, MemoryNext
<1>3. CASE UNCHANGED vars
  BY <1>3 DEF vars
<1>4. CASE ChatStep
  BY <1>1, <1>4 DEF ChatStep, MemoryNext, Create, Rename, Delete, Reset, AcceptIn,
    AcceptLatest, AcceptNew, Guard, Unstored, StreamFails, Cancel, Ask, Answer, TouchFails
<1> QED BY <1>2, <1>3, <1>4 DEF Next

(***************************************************************************)
(* The conversations use the memory through its operations only: requests  *)
(* that answer, fail or are cancelled in any order touch memories and do   *)
(* nothing else to them (services/llm_chat.py, MemoryStore).               *)
(***************************************************************************)
THEOREM ChatUsesMemory == Spec => MemorySpec
<1>1. Init => MemoryInit
  BY DEF Init
<1> QED BY <1>1, ChatStarts, ChatKeeps, ChatStepsRemember, PTL DEF Spec, MemorySpec

(***************************************************************************)
(* The statistics row counts the memories and their uses, also when a      *)
(* memory is forgotten between its retrieval for an answer and the         *)
(* counting of its use (llm_memories_stats_sync, touch_memories).          *)
(***************************************************************************)
THEOREM ChatStatsAccounted == Spec => []StatsAccounted
  BY ChatUsesMemory, MemoriesHold, PTL

(***************************************************************************)
(* The verdict that stands is remembered with its note, and no content     *)
(* twice, whatever runs at the same time (_auto_write_memory,              *)
(* upsert_memory).                                                         *)
(***************************************************************************)
THEOREM ChatRemembersOnce == Spec => []RememberedOnce
  BY ChatUsesMemory, MemoriesHold, PTL
-----------------------------------------------------------------------------
(***************************************************************************)
(* Types.  The listing of the conversations, the last updated first, names *)
(* each of them once: this is what a lookup by alert stands on.            *)
(***************************************************************************)
ListsOnce(q, S) ==
  /\ q \in Seq(Conv)
  /\ \A i, j \in 1..Len(q) : q[i] = q[j] => i = j
  /\ \A c \in Conv : c \in S <=> \E i \in 1..Len(q) : q[i] = c

Listed == ListsOnce(recent, Open) /\ Len(recent) = Cardinality(Open)

\* Without its i-th place, a listing names all but what is there.
LEMMA ListedWithout ==
  ASSUME NEW q, NEW S \in SUBSET Conv, ListsOnce(q, S), NEW i \in 1..Len(q)
  PROVE  /\ ListsOnce(RemoveAt(q, i), S \ {q[i]})
         /\ Len(RemoveAt(q, i)) = Len(q) - 1
<1> DEFINE u == SubSeq(q, 1, i - 1)
           v == SubSeq(q, i + 1, Len(q))
           r == RemoveAt(q, i)
<1>0. q \in Seq(Conv) /\ Len(q) \in Nat /\ i \in Nat /\ i >= 1 /\ i <= Len(q)
  BY DEF ListsOnce
<1>1. u \in Seq(Conv) /\ Len(u) = i - 1 /\ \A k \in 1..(i - 1) : u[k] = q[k]
  BY <1>0
<1>2. /\ v \in Seq(Conv) /\ Len(v) = Len(q) - i
      /\ \A k \in 1..(Len(q) - i) : v[k] = q[k + i]
  BY <1>0
<1>3. r = u \o v
  BY DEF RemoveAt
<1> HIDE DEF u, v, r
<1>4. /\ r \in Seq(Conv) /\ Len(r) = Len(q) - 1
      /\ \A k \in 1..(Len(q) - 1) : r[k] = IF k < i THEN q[k] ELSE q[k + 1]
  <2>1. r \in Seq(Conv) /\ Len(r) = Len(u) + Len(v)
    <3>1. u \in Seq(Conv) /\ v \in Seq(Conv)
      BY <1>1, <1>2
    <3> QED BY ONLY <1>3, <3>1
  <2>2. ASSUME NEW k \in 1..(Len(q) - 1)
        PROVE  r[k] = IF k < i THEN q[k] ELSE q[k + 1]
    <3>1. CASE k < i
      <4>1. k \in 1..Len(u) /\ r[k] = u[k]
        BY <1>0, <1>1, <1>2, <1>3, <3>1
      <4> QED BY <1>0, <1>1, <3>1, <4>1
    <3>2. CASE k >= i
      <4>1. k - Len(u) \in 1..Len(v) /\ r[k] = v[k - Len(u)]
        BY <1>0, <1>1, <1>2, <1>3, <3>2
      <4>2. v[k - Len(u)] = q[k - Len(u) + i] /\ k - Len(u) + i = k + 1
        BY <1>0, <1>1, <1>2, <4>1
      <4> QED BY <3>2, <4>1, <4>2, <1>0
    <3> QED BY <1>0, <3>1, <3>2
  <2> QED BY <1>0, <1>1, <1>2, <2>1, <2>2
<1>5. ASSUME NEW k \in 1..Len(r), NEW m \in 1..Len(r), r[k] = r[m]
      PROVE  k = m
  <2>1. k \in 1..Len(q) /\ k + 1 \in 1..Len(q) /\ m \in 1..Len(q) /\ m + 1 \in 1..Len(q)
    BY <1>0, <1>4
  <2> QED BY <1>0, <1>4, <1>5, <2>1 DEF ListsOnce
<1>6. ASSUME NEW c \in Conv
      PROVE  c \in S \ {q[i]} <=> \E k \in 1..Len(r) : r[k] = c
  <2>1. ASSUME NEW k \in 1..Len(r), r[k] = c
        PROVE  c \in S \ {q[i]}
    <3> DEFINE m == IF k < i THEN k ELSE k + 1
    <3>1. m \in 1..Len(q) /\ m # i /\ q[m] = c
      BY <1>0, <1>4, <2>1
    <3> HIDE DEF m
    <3>2. q[m] # q[i]
      BY <3>1 DEF ListsOnce
    <3> QED BY <3>1, <3>2 DEF ListsOnce
  <2>2. ASSUME c \in S, c # q[i]
        PROVE  \E k \in 1..Len(r) : r[k] = c
    <3>1. PICK m \in 1..Len(q) : q[m] = c
      BY <2>2 DEF ListsOnce
    <3>2. m # i
      BY <2>2, <3>1
    <3>3. CASE m < i
      <4>1. m \in 1..Len(r) /\ r[m] = c
        BY <1>0, <1>4, <3>1, <3>3
      <4> QED BY <4>1
    <3>4. CASE m > i
      <4>1. m - 1 \in 1..Len(r) /\ ~(m - 1 < i) /\ (m - 1) + 1 = m
        BY <1>0, <1>4, <3>4
      <4>2. r[m - 1] = c
        BY <1>4, <3>1, <4>1
      <4> QED BY <4>1, <4>2
    <3> QED BY <1>0, <3>2, <3>3, <3>4
  <2> QED BY <2>1, <2>2
<1>7. ListsOnce(r, S \ {q[i]})
  BY <1>4, <1>5, <1>6 DEF ListsOnce
<1> QED BY <1>4, <1>7 DEF r

\* A listing with another conversation in front.
LEMMA ListedBefore ==
  ASSUME NEW q, NEW S \in SUBSET Conv, ListsOnce(q, S), NEW c \in Conv \ S
  PROVE  ListsOnce(<<c>> \o q, S \cup {c}) /\ Len(<<c>> \o q) = Len(q) + 1
<1> DEFINE r == <<c>> \o q
<1>1. q \in Seq(Conv) /\ Len(q) \in Nat /\ <<c>> \in Seq(Conv)
  BY DEF ListsOnce
<1>2. /\ r \in Seq(Conv) /\ Len(r) = Len(q) + 1 /\ r[1] = c
      /\ \A k \in 1..Len(q) : r[k + 1] = q[k]
  BY <1>1
<1> HIDE DEF r
<1>3. \A k \in 1..Len(q) : q[k] \in S
  BY <1>1 DEF ListsOnce
<1>4. ASSUME NEW k \in 1..Len(r)
      PROVE  k = 1 \/ (k - 1 \in 1..Len(q) /\ r[k] = q[k - 1])
  BY <1>1, <1>2
<1>5. ASSUME NEW k \in 1..Len(r), NEW m \in 1..Len(r), r[k] = r[m]
      PROVE  k = m
  <2>1. CASE k = 1 \/ m = 1
    BY <1>2, <1>3, <1>4, <1>5, <2>1
  <2>2. CASE k # 1 /\ m # 1
    <3>1. k - 1 \in 1..Len(q) /\ m - 1 \in 1..Len(q) /\ q[k - 1] = q[m - 1]
      BY <1>4, <1>5, <2>2
    <3>2. k - 1 = m - 1
      BY <3>1 DEF ListsOnce
    <3> QED BY <3>2
  <2> QED BY <2>1, <2>2
<1>6. ASSUME NEW d \in Conv
      PROVE  d \in S \cup {c} <=> \E k \in 1..Len(r) : r[k] = d
  <2>1. ASSUME NEW k \in 1..Len(r), r[k] = d
        PROVE  d \in S \cup {c}
    BY <1>2, <1>3, <1>4, <2>1
  <2>2. CASE d = c
    <3>1. 1 \in 1..Len(r)
      BY <1>1, <1>2
    <3> QED BY <1>2, <2>2, <3>1
  <2>3. ASSUME d \in S
        PROVE  \E k \in 1..Len(r) : r[k] = d
    <3>1. PICK k \in 1..Len(q) : q[k] = d
      BY <2>3 DEF ListsOnce
    <3>2. k + 1 \in 1..Len(r) /\ r[k + 1] = d
      BY <1>1, <1>2, <3>1
    <3> QED BY <3>2
  <2> QED BY <2>1, <2>2, <2>3
<1>7. ListsOnce(r, S \cup {c})
  BY <1>2, <1>5, <1>6 DEF ListsOnce
<1> QED BY <1>2, <1>7 DEF r

LEMMA OpenFinite == Open \in SUBSET Conv /\ IsFiniteSet(Open) /\ Cardinality(Open) \in Nat
<1>1. IsFiniteSet(Conv)
  BY FS_Interval, ChatAssumption DEF Conv
<1>2. Open \in SUBSET Conv
  BY DEF Open
<1> QED BY <1>1, <1>2, FS_Subset, FS_CardinalityType

\* The place of a conversation that there is.
LEMMA PlaceFound ==
  ASSUME Listed, NEW c \in Open
  PROVE  Place(c) \in 1..Len(recent) /\ recent[Place(c)] = c
<1>1. recent \in Seq(Conv) /\ DOMAIN recent = 1..Len(recent)
  BY DEF Listed, ListsOnce
<1>2. \E i \in DOMAIN recent : recent[i] = c
  BY <1>1, OpenFinite DEF Listed, ListsOnce
<1> QED BY <1>1, <1>2 DEF Place

\* A step unlists a conversation that there is.
LEMMA UnlistedOpen ==
  ASSUME Listed, NEW c \in Open
  PROVE  ListsOnce(Unlisted(c), Open \ {c}) /\ Len(Unlisted(c)) = Len(recent) - 1
BY PlaceFound, OpenFinite, ListedWithout DEF Listed, Unlisted

LEMMA ListedInserted ==
  ASSUME ChatInv, Listed, NEW a \in Alert, NEW x \in Account, Insert(a, x)
  PROVE  Listed' /\ Open' = Open \cup {nextConv}
<1>1. /\ nextConv \in Conv /\ conv'[nextConv] = [alert |-> a, owner |-> x]
      /\ \A c \in Conv : c # nextConv => conv'[c] = conv[c]
  BY Inserting DEF Insert, ChatInv, IdsFresh
<1>2. nextConv \notin Open
  BY DEF ChatInv, IdsFresh
<1>3. conv'[nextConv] # NoConv
  BY <1>1 DEF NoConv
<1>4. Open' = Open \cup {nextConv}
  BY <1>1, <1>3 DEF Open
<1>5. Cardinality(Open') = Cardinality(Open) + 1
  BY <1>2, <1>4, OpenFinite, FS_AddElement
<1>6. recent' = <<nextConv>> \o recent
  BY DEF Insert
<1>7. /\ ListsOnce(recent', Open') /\ Len(recent') = Len(recent) + 1
  BY <1>1, <1>2, <1>4, <1>6, OpenFinite, ListedBefore DEF Listed
<1> QED BY <1>4, <1>5, <1>7 DEF Listed

LEMMA ListedBumped ==
  ASSUME Listed, NEW c \in Open, Bump(c), UNCHANGED conv
  PROVE  Listed' /\ Open' = Open
<1>1. Open' = Open /\ c \in Conv
  BY DEF Open
<1>2. ListsOnce(Unlisted(c), Open \ {c}) /\ Len(Unlisted(c)) = Len(recent) - 1
  BY UnlistedOpen
<1>3. /\ ListsOnce(recent', (Open \ {c}) \cup {c})
      /\ Len(recent') = Len(Unlisted(c)) + 1
  BY <1>1, <1>2, OpenFinite, ListedBefore DEF Bump
<1>4. (Open \ {c}) \cup {c} = Open /\ Len(recent) \in Nat
  BY OpenFinite DEF Listed
<1>5. ListsOnce(recent', Open')
  BY <1>1, <1>3, <1>4
<1>6. Len(recent') = Cardinality(Open')
  BY <1>1, <1>2, <1>3, <1>4 DEF Listed
<1> QED BY <1>1, <1>5, <1>6 DEF Listed

LEMMA ListedDeleted ==
  ASSUME ChatInv, Listed, NEW c \in Open,
         conv' = [conv EXCEPT ![c] = NoConv], recent' = Unlisted(c)
  PROVE  Listed' /\ Open' = Open \ {c}
<1>1. Open' = Open \ {c}
  BY DEF Open, ChatInv, IdsFresh
<1>2. ListsOnce(recent', Open') /\ Len(recent') = Len(recent) - 1
  BY <1>1, UnlistedOpen
<1>3. Cardinality(Open \ {c}) = Cardinality(Open) - 1
  BY OpenFinite, FS_RemoveElement
<1> QED BY <1>1, <1>2, <1>3 DEF Listed

-----------------------------------------------------------------------------
\* A request has the memories it retrieved, and these are there.
MemsSteady ==
  \A t \in Send : stream'[t] # Unsent =>
    \/ stream[t] # Unsent /\ stream'[t].mems = stream[t].mems
    \/ stream'[t].mems \subseteq Live

MemsThere ==
  \A s \in Send : stream[s] # Unsent =>
    \A i \in stream[s].mems : i \in 1..(nextMemory - 1)

ConvsTyped ==
  /\ conv \in [Conv -> [alert : Alert, owner : Account] \cup {NoConv}]
  /\ nextConv \in 1..(MaxConvs + 1)
  /\ \A c \in Conv \ Open : log[c] = <<>>
  /\ wiped \subseteq Send

\* Ids of memories are not used again.
LEMMA MemoryIdsGrow ==
  ASSUME MemoryTypeOK, [MemoryNext]_memoryVars
  PROVE  nextMemory \in Nat /\ nextMemory' \in {nextMemory, nextMemory + 1}
<1>1. nextMemory \in Nat
  BY MemoryAssumption DEF MemoryTypeOK
<1>2. nextMemory' \in {nextMemory, nextMemory + 1}
  BY DEF MemoryNext, memoryVars, Judge, StoreVerdict, RememberNew, RememberAgain,
     RememberFails, Forget, Decay, Touch
<1> QED BY <1>1, <1>2

LEMMA MemsKept ==
  ASSUME MemoryTypeOK, [MemoryNext]_memoryVars, MemsThere, MemsSteady
  PROVE  MemsThere'
<1>1. nextMemory \in Nat /\ nextMemory' \in {nextMemory, nextMemory + 1}
  BY MemoryIdsGrow
<1>2. \A i \in Live : i \in 1..(nextMemory - 1)
  <2>1. \A i \in Live : i < nextMemory
    BY DEF MemoryTypeOK
  <2>2. \A i \in Live : i \in Nat /\ i >= 1
    BY MemoryAssumption DEF Live, MemoryId
  <2> QED BY <1>1, <2>1, <2>2
<1>3. \A i \in 1..(nextMemory - 1) : i \in 1..(nextMemory' - 1)
  <2>1. CASE nextMemory' = nextMemory
    BY <2>1
  <2>2. CASE nextMemory' = nextMemory + 1
    BY <1>1, <2>2
  <2> QED BY <1>1, <2>1, <2>2
<1> SUFFICES ASSUME NEW s \in Send, stream'[s] # Unsent, NEW i \in stream'[s].mems
             PROVE  i \in 1..(nextMemory' - 1)
  BY DEF MemsThere
<1>4. \/ stream[s] # Unsent /\ stream'[s].mems = stream[s].mems
      \/ stream'[s].mems \subseteq Live
  BY DEF MemsSteady
<1>5. i \in 1..(nextMemory - 1)
  BY <1>2, <1>4 DEF MemsThere
<1> QED BY <1>3, <1>5

\* A request that goes on keeps its memories.
LEMMA GoesOnSteadily ==
  ASSUME ChatInv, NEW s \in Send, stream[s] # Unsent, NEW pc, Goto(s, pc)
  PROVE  MemsSteady
<1>1. DOMAIN stream = Send /\ stream[s] \in [pc : Stage, alert : Alert, by : Account,
                                             conv : Conv, mems : SUBSET MemoryId]
  BY DEF ChatInv, RequestsPlaced
<1>2. stream'[s].mems = stream[s].mems /\ \A t \in Send \ {s} : stream'[t] = stream[t]
  BY <1>1 DEF Goto
<1> QED BY <1>2 DEF MemsSteady

\* A request that is accepted has none.
LEMMA AcceptedSteadily ==
  ASSUME ChatInv, NEW s \in Send, NEW a, NEW x, NEW c, Accepted(s, a, x, c)
  PROVE  MemsSteady
<1> DEFINE new == [pc |-> "accepted", alert |-> a, by |-> x, conv |-> c, mems |-> {}]
<1>1. DOMAIN stream = Send /\ stream' = [stream EXCEPT ![s] = new]
  BY DEF Accepted, ChatInv, RequestsPlaced
<1>2. new.mems = {}
  OBVIOUS
<1> HIDE DEF new
<1>3. \A t \in Send : stream'[t] = IF t = s THEN new ELSE stream[t]
  BY <1>1
<1> QED BY <1>2, <1>3 DEF MemsSteady

LEMMA StepsSteady ==
  ASSUME ChatInv, [Next]_vars
  PROVE  MemsSteady
<1>1. CASE UNCHANGED stream
  BY <1>1 DEF MemsSteady
<1>2. ASSUME NEW s \in Send, NEW a \in Alert, NEW x \in Account,
             \/ \E c \in Conv : AcceptIn(s, a, x, c)
             \/ AcceptLatest(s, a, x) \/ AcceptNew(s, a, x)
      PROVE  MemsSteady
  BY <1>2, AcceptedSteadily DEF AcceptIn, AcceptLatest, AcceptNew
<1>3. ASSUME NEW s \in Send,
             \/ Guard(s) \/ Unstored(s) \/ StreamFails(s) \/ Cancel(s)
             \/ Answer(s) \/ TouchUsed(s) \/ TouchFails(s)
      PROVE  MemsSteady
  <2>1. stream[s] # Unsent
    BY <1>3 DEF Guard, Unstored, StreamFails, Cancel, Answer, TouchUsed, TouchFails, Unsent
  <2>2. \E pc : Goto(s, pc)
    BY <1>3 DEF Guard, Unstored, StreamFails, Cancel, Answer, TouchUsed, TouchFails
  <2> QED BY <2>1, <2>2, GoesOnSteadily
<1>4. ASSUME NEW s \in Send, NEW mems \in SUBSET Live, Ask(s, mems)
      PROVE  MemsSteady
  <2>1. /\ stream[s].pc = "accepted"
        /\ stream' = [stream EXCEPT ![s].pc = "streaming", ![s].mems = mems]
    BY <1>4 DEF Ask
  <2>2. stream[s] # Unsent
    BY <2>1 DEF Unsent
  <2>3. DOMAIN stream = Send /\ stream[s] \in [pc : Stage, alert : Alert, by : Account,
                                               conv : Conv, mems : SUBSET MemoryId]
    BY <2>2 DEF ChatInv, RequestsPlaced
  <2>4. stream'[s].mems = mems /\ \A t \in Send \ {s} : stream'[t] = stream[t]
    BY <2>1, <2>3
  <2> QED BY <2>4 DEF MemsSteady
<1>5. CASE MemoryStep \/ UNCHANGED vars
  BY <1>1, <1>5 DEF MemoryStep, vars, chatVars
<1>6. CASE ChatStep
  BY <1>1, <1>2, <1>3, <1>4, <1>6 DEF ChatStep, Create, Rename, Delete, Reset
<1> QED BY <1>5, <1>6 DEF Next

\* Who said something is a request.
LEMMA SendsAreRequests ==
  ASSUME ChatInv, NEW c \in Conv
  PROVE  SendsIn(c) \subseteq Send
<1>1. log[c] \in Seq(Message)
  BY DEF ChatInv, MessagesPlaced
<1>2. \A i \in DOMAIN log[c] : log[c][i] \in Message
  BY <1>1
<1> QED BY <1>2 DEF SendsIn, Message

\* A conversation that is there is listed, and so is one that comes.
LEMMA InsertsTyped ==
  ASSUME ChatInv, Listed, ConvsTyped, NEW a \in Alert, NEW x \in Account, Insert(a, x),
         UNCHANGED <<log, wiped>>
  PROVE  Listed' /\ ConvsTyped'
<1>1. Listed' /\ Open' = Open \cup {nextConv}
  BY ListedInserted
<1>2. /\ nextConv' = nextConv + 1 /\ nextConv <= MaxConvs
      /\ conv' = [conv EXCEPT ![nextConv] = [alert |-> a, owner |-> x]]
  BY DEF Insert
<1>3. conv' \in [Conv -> [alert : Alert, owner : Account] \cup {NoConv}]
  <2>1. [alert |-> a, owner |-> x] \in [alert : Alert, owner : Account]
    OBVIOUS
  <2> QED BY <1>2, <2>1 DEF ConvsTyped
<1>4. nextConv' \in 1..(MaxConvs + 1)
  BY <1>2, ChatAssumption DEF ConvsTyped
<1>5. \A c \in Conv \ Open' : log'[c] = <<>>
  BY <1>1 DEF ConvsTyped
<1> QED BY <1>1, <1>3, <1>4, <1>5 DEF ConvsTyped

LEMMA BumpsTyped ==
  ASSUME ChatInv, Listed, ConvsTyped, NEW c \in Open, Bump(c), UNCHANGED <<conv, nextConv>>,
         \/ UNCHANGED <<log, wiped>>
         \/ log' = [log EXCEPT ![c] = <<>>] /\ wiped' = wiped \cup SendsIn(c)
  PROVE  Listed' /\ ConvsTyped'
<1>1. Listed' /\ Open' = Open
  BY ListedBumped
<1>2. c \in Conv /\ SendsIn(c) \subseteq Send
  BY SendsAreRequests DEF Open
<1>3. \A d \in Conv \ Open : log'[d] = <<>>
  BY <1>2 DEF ConvsTyped, ChatInv, MessagesPlaced
<1>4. wiped' \subseteq Send
  BY <1>2 DEF ConvsTyped
<1> QED BY <1>1, <1>3, <1>4 DEF ConvsTyped

LEMMA DeletesTyped ==
  ASSUME ChatInv, Listed, ConvsTyped, NEW a \in Alert, NEW x \in Account, NEW c \in Conv,
         Delete(a, x, c)
  PROVE  Listed' /\ ConvsTyped'
<1>1. c \in Open /\ Listed' /\ Open' = Open \ {c}
  BY ListedDeleted DEF Delete, MayOpen
<1>2. SendsIn(c) \subseteq Send
  BY SendsAreRequests
<1>3. /\ conv' = [conv EXCEPT ![c] = NoConv] /\ log' = [log EXCEPT ![c] = <<>>]
      /\ wiped' = wiped \cup SendsIn(c) /\ nextConv' = nextConv
  BY DEF Delete
<1>4. conv' \in [Conv -> [alert : Alert, owner : Account] \cup {NoConv}]
  BY <1>3 DEF ConvsTyped
<1>5. \A d \in Conv \ Open' : log'[d] = <<>>
  BY <1>1, <1>3 DEF ConvsTyped, ChatInv, MessagesPlaced
<1>6. wiped' \subseteq Send
  BY <1>2, <1>3 DEF ConvsTyped
<1> QED BY <1>1, <1>3, <1>4, <1>5, <1>6 DEF ConvsTyped

\* Other steps list nothing, and store only in a conversation that is there.
LEMMA OthersTyped ==
  ASSUME ChatInv, Listed, ConvsTyped, UNCHANGED <<conv, nextConv, recent, wiped>>,
         \/ log' = log
         \/ \E c \in Open, m \in Message : log' = [log EXCEPT ![c] = Append(@, m)]
  PROVE  Listed' /\ ConvsTyped'
<1>1. Open' = Open
  BY DEF Open
<1>2. \A d \in Conv \ Open : log'[d] = log[d]
  BY DEF Open, ChatInv, MessagesPlaced
<1> QED BY <1>1, <1>2 DEF Listed, ConvsTyped

LEMMA ConvsKeep ==
  ASSUME ChatInv, Listed, ConvsTyped, [Next]_vars
  PROVE  Listed' /\ ConvsTyped'
<1>1. ASSUME NEW a \in Alert, NEW x \in Account,
             Create(a, x) \/ \E s \in Send : AcceptNew(s, a, x)
      PROVE  Listed' /\ ConvsTyped'
  BY <1>1, InsertsTyped DEF Create, AcceptNew
<1>2. ASSUME NEW a \in Alert, NEW x \in Account, NEW c \in Conv, Rename(a, x, c)
      PROVE  Listed' /\ ConvsTyped'
  BY <1>2, BumpsTyped DEF Rename, MayOpen
<1>3. ASSUME NEW a \in Alert, Reset(a)
      PROVE  Listed' /\ ConvsTyped'
  BY <1>3, BumpsTyped DEF Reset, Latest
<1>4. ASSUME NEW s \in Send,
             \/ \E a \in Alert, x \in Account :
                  (\E c \in Conv : AcceptIn(s, a, x, c)) \/ AcceptLatest(s, a, x)
             \/ Guard(s) \/ Unstored(s) \/ StreamFails(s) \/ Cancel(s)
             \/ TouchUsed(s) \/ TouchFails(s)
      PROVE  Listed' /\ ConvsTyped'
  <2>1. UNCHANGED <<conv, nextConv, recent, wiped>> /\ log' = log
    BY <1>4 DEF AcceptIn, AcceptLatest, Guard, Unstored, StreamFails, Cancel, TouchUsed,
       TouchFails
  <2> QED BY <2>1, OthersTyped
<1>5. ASSUME NEW s \in Send, Answer(s) \/ \E mems \in SUBSET Live : Ask(s, mems)
      PROVE  Listed' /\ ConvsTyped'
  <2>1. /\ UNCHANGED <<conv, nextConv, recent, wiped>> /\ stream[s].conv \in Open
        /\ \E role \in {"user", "assistant"} :
             log' = [log EXCEPT ![stream[s].conv] = Append(@, [role |-> role, send |-> s])]
    BY <1>5 DEF Answer, Ask
  <2>2. \A role \in {"user", "assistant"} : [role |-> role, send |-> s] \in Message
    BY DEF Message
  <2> QED BY <2>1, <2>2, OthersTyped
<1>6. CASE MemoryStep \/ UNCHANGED vars
  <2>1. UNCHANGED <<conv, nextConv, recent, wiped>> /\ log' = log
    BY <1>6 DEF MemoryStep, vars, chatVars
  <2> QED BY <2>1, OthersTyped
<1>7. CASE ChatStep
  BY <1>1, <1>2, <1>3, <1>4, <1>5, <1>7, DeletesTyped DEF ChatStep
<1> QED BY <1>6, <1>7 DEF Next

ChatTypes == ChatInv /\ MemoryInv /\ Listed /\ ConvsTyped /\ MemsThere

LEMMA ChatTypesHold == Spec => []ChatTypes
<1>1. Init => ChatTypes
  <2> SUFFICES ASSUME Init PROVE ChatTypes
    OBVIOUS
  <2>1. ChatInv /\ MemoryInv
    BY ChatStarts, MemoryStarts DEF Init
  <2>2. Open = {} /\ Cardinality(Open) = 0
    <3>1. Open = {}
      BY DEF Init, Open
    <3> QED BY <3>1, FS_EmptySet
  <2>3. Listed
    <3>1. recent = <<>> /\ Len(recent) = 0 /\ recent \in Seq(Conv)
      BY DEF Init
    <3> QED BY <2>2, <3>1 DEF Listed, ListsOnce
  <2>4. ConvsTyped
    <3>1. 1 \in 1..(MaxConvs + 1)
      BY ChatAssumption
    <3> QED BY <3>1 DEF Init, ConvsTyped
  <2>5. MemsThere
    BY DEF Init, MemsThere
  <2> QED BY <2>1, <2>3, <2>4, <2>5 DEF ChatTypes
<1>2. ChatTypes /\ [Next]_vars => ChatTypes'
  <2> SUFFICES ASSUME ChatTypes, [Next]_vars PROVE ChatTypes'
    OBVIOUS
  <2>1. ChatInv /\ MemoryInv /\ Listed /\ ConvsTyped /\ MemsThere
    BY DEF ChatTypes
  <2>2. [MemoryNext]_memoryVars
    BY <2>1, ChatStepsRemember
  <2>3. ChatInv' /\ MemoryInv' /\ Listed' /\ ConvsTyped'
    BY <2>1, <2>2, ChatKeeps, MemoryKeeps, ConvsKeep
  <2>4. MemsThere'
    BY <2>1, <2>2, StepsSteady, MemsKept DEF MemoryInv
  <2> QED BY <2>3, <2>4 DEF ChatTypes
<1> QED BY <1>1, <1>2, PTL DEF Spec

(***************************************************************************)
(* The tables and the requests stay well typed, the memories of a request  *)
(* are memories there were, and the order of last updates lists every      *)
(* conversation once, so that a lookup by alert always has one to find     *)
(* when there is one (get_conversation_by_alert, db/session.py).           *)
(***************************************************************************)
THEOREM ChatTyped == Spec => []ChatTypeOK
<1>1. ChatTypes => ChatTypeOK
  <2> SUFFICES ASSUME ChatTypes PROVE ChatTypeOK
    OBVIOUS
  <2>1. ChatInv /\ MemoryTypeOK /\ Listed /\ ConvsTyped /\ MemsThere
    BY DEF ChatTypes, MemoryInv
  <2>2. ToSet(recent) = Open
    <3>1. recent \in Seq(Conv) /\ DOMAIN recent = 1..Len(recent)
      BY <2>1 DEF Listed, ListsOnce
    <3>2. \A i \in 1..Len(recent) : recent[i] \in Conv
      BY <3>1
    <3>3. \A c : c \in Open <=> \E i \in DOMAIN recent : recent[i] = c
      BY <2>1, <3>1, <3>2, OpenFinite DEF Listed, ListsOnce
    <3> QED BY <3>3 DEF ToSet
  <2>3. ASSUME NEW s \in Send, stream[s] # Unsent
        PROVE  /\ stream[s].pc \in {"accepted", "streaming", "touching"} \cup Ended
               /\ stream[s].alert \in Alert /\ stream[s].by \in Account
               /\ stream[s].conv \in 1..(nextConv - 1)
               /\ stream[s].mems \subseteq 1..(nextMemory - 1)
    <3>1. /\ stream[s] \in [pc : Stage, alert : Alert, by : Account, conv : Conv,
                            mems : SUBSET MemoryId]
          /\ stream[s].conv < nextConv /\ nextConv \in Nat
      BY <2>1, <2>3 DEF ChatInv, RequestsPlaced, IdsFresh
    <3>2. stream[s].conv \in 1..(nextConv - 1)
      BY <3>1 DEF Conv
    <3> QED BY <2>1, <2>3, <3>1, <3>2 DEF MemsThere, Stage
  <2>4. /\ \A c \in Open : c < nextConv
        /\ log \in [Conv -> Seq(Message)]
    BY <2>1 DEF ChatInv, IdsFresh, MessagesPlaced
  <2> QED BY <2>1, <2>2, <2>3, <2>4 DEF ChatTypeOK, ConvsTyped, Listed
<1> QED BY <1>1, ChatTypesHold, PTL

\* What get_conversation_by_alert promises its callers.
LookupFinds ==
  \A a \in Alert : (\E c \in Open : conv[c].alert = a) =>
    \E c \in Open : conv[c].alert = a /\ Latest(a) = {c}

LEMMA FirstPlace ==
  ASSUME NEW S \in SUBSET Nat, S # {}
  PROVE  \E n \in S : \A m \in S : n <= m
<1>1. PICK n \in S : \A m \in S : ~(<<m, n>> \in OpToRel(<, Nat))
  BY NatLessThanWellFounded, WFMin
<1>2. \A m \in S : ~(m < n)
  BY <1>1 DEF OpToRel
<1> QED BY <1>2

LEMMA ListedFound == Listed => LookupFinds
<1> SUFFICES ASSUME Listed, NEW a \in Alert, NEW o \in Open, conv[o].alert = a
             PROVE  \E c \in Open : conv[c].alert = a /\ Latest(a) = {c}
  BY DEF LookupFinds
<1> DEFINE about == {c \in Open : conv[c].alert = a}
           places == {Place(c) : c \in about}
<1>1. Len(recent) \in Nat /\ \A c \in Open : Place(c) \in 1..Len(recent) /\ recent[Place(c)] = c
  BY PlaceFound, OpenFinite DEF Listed
<1>2. places \in SUBSET Nat /\ places # {}
  BY <1>1
<1>3. PICK n \in places : \A m \in places : n <= m
  <2> HIDE DEF places
  <2> QED BY <1>2, FirstPlace
<1>4. PICK c \in about : Place(c) = n
  BY <1>3
<1>5. c \in Latest(a)
  BY <1>3, <1>4 DEF Latest, Open
<1>6. ASSUME NEW d \in Latest(a)
      PROVE  d = c
  <2>1. d \in about /\ Place(d) <= Place(c)
    BY <1>4 DEF Latest
  <2>2. Place(c) <= Place(d)
    BY <1>3, <1>4, <2>1
  <2>3. Place(c) \in Nat /\ Place(d) \in Nat
    BY <1>1, <1>4, <2>1
  <2>4. Place(d) = Place(c)
    BY <2>1, <2>2, <2>3
  <2> QED BY <1>1, <1>4, <2>1, <2>4
<1> QED BY <1>4, <1>5, <1>6

(***************************************************************************)
(* An alert's conversation is found whenever it has one, and only one of   *)
(* them: a send without a conversation id starts a new conversation only   *)
(* for an alert that has none, whatever is renamed, reset and deleted      *)
(* meanwhile (ChatSession.get_or_create_conversation).                     *)
(***************************************************************************)
THEOREM LatestFound == Spec => []LookupFinds
<1>1. ChatTypes => LookupFinds
  BY ListedFound DEF ChatTypes
<1> QED BY <1>1, ChatTypesHold, PTL
=============================================================================
