------------------------- MODULE PipePublisherProofs -------------------------
(***************************************************************************)
(* Proofs about PipePublisher, for any number of subscribers and messages  *)
(* and every capacity.  The inductive invariant is layered: the types;     *)
(* CallInv, the passes of a call against the lock and the batch; ListInv,  *)
(* the client list against its owners; and, with Ahead for the clients     *)
(* that a pass has still to serve, what the passes have done so far:       *)
(* BatchInv for the batches, DoneInv for Done, OrderInv and OwedInv for    *)
(* the messages.                                                           *)
(***************************************************************************)
EXTENDS PipePublisher, TLAPS

-----------------------------------------------------------------------------
(* The steps of Next as one list. *)
LEMMA NextCases ==
  ASSUME Next
  PROVE  \/ \E c \in Clients :
              \/ NewClient(c)
              \/ InstallClient(c)
              \/ GetNextMessage(c)
              \/ Abort(c)
              \/ DropClient(c)
         \/ Publish
         \/ StartBatch
         \/ EndBatch
         \/ Done
         \/ Enter
         \/ Examine
         \/ RemoveClient
         \/ /\ pc = "act" /\ it \in DOMAIN clients
            /\ \/ PushMessage(clients[it])
               \/ PushToFullQueue(clients[it])
               \/ StartClientBatch(clients[it])
               \/ FinishClientBatch(clients[it])
               \/ ClientDone(clients[it])
         \/ Leave
BY DEF Next, OwnerSteps, Calls, PublisherSteps, Act

-----------------------------------------------------------------------------
(* The sequences of passes a call can still have to make. *)
Todo == {<<>>, <<"publish">>, <<"start">>, <<"end">>, <<"done">>,
         <<"end", "start">>, <<"end", "done">>}

LEMMA TodoHeads ==
  /\ Head(<<"publish">>) = "publish" /\ Tail(<<"publish">>) = <<>>
  /\ Head(<<"start">>) = "start" /\ Tail(<<"start">>) = <<>>
  /\ Head(<<"end">>) = "end" /\ Tail(<<"end">>) = <<>>
  /\ Head(<<"done">>) = "done" /\ Tail(<<"done">>) = <<>>
  /\ Head(<<"end", "start">>) = "end" /\ Tail(<<"end", "start">>) = <<"start">>
  /\ Head(<<"end", "done">>) = "end" /\ Tail(<<"end", "done">>) = <<"done">>
<1>1. Tail(<<"end", "start">>) = <<"start">>
  OBVIOUS
<1>2. Tail(<<"end", "done">>) = <<"done">>
  OBVIOUS
<1> QED
  BY <1>1, <1>2

LEMMA TodoCases ==
  ASSUME todo \in Todo
  PROVE  \/ todo = <<>>
         \/ todo = <<"publish">> /\ pass = "publish" /\ Tail(todo) = <<>>
         \/ todo = <<"start">> /\ pass = "start" /\ Tail(todo) = <<>>
         \/ todo = <<"end">> /\ pass = "end" /\ Tail(todo) = <<>>
         \/ todo = <<"done">> /\ pass = "done" /\ Tail(todo) = <<>>
         \/ todo = <<"end", "start">> /\ pass = "end" /\ Tail(todo) = <<"start">>
         \/ todo = <<"end", "done">> /\ pass = "end" /\ Tail(todo) = <<"done">>
BY TodoHeads, Zenon DEF Todo, pass

(* The sequence of EndCurrent and one more pass. *)
LEMMA EndCurrentFacts ==
  ASSUME NEW p \in Pass
  PROVE  EndCurrent \o <<p>> = IF currentBatch THEN <<"end", p>> ELSE <<p>>
<1>1. <<>> \o <<p>> = <<p>>
  OBVIOUS
<1>2. <<"end">> \o <<p>> = <<"end", p>>
  <2> DEFINE t == <<"end">> \o <<p>>
  <2>1. <<"end">> \in Seq(Pass) /\ <<p>> \in Seq(Pass) /\ Len(<<"end">>) = 1 /\ Len(<<p>>) = 1
    BY DEF Pass
  <2>2. t \in Seq(Pass) /\ Len(t) = 2 /\ t[1] = "end" /\ t[2] = p
    BY <2>1
  <2> HIDE DEF t
  <2>3. t = <<"end", p>>
    BY <2>2
  <2> QED
    BY <2>3 DEF t
<1> QED
  BY <1>1, <1>2 DEF EndCurrent

LEMMA TodoDistinct ==
  /\ <<>> # <<"publish">> /\ <<>> # <<"start">> /\ <<>> # <<"end">>
  /\ <<>> # <<"done">> /\ <<>> # <<"end", "start">> /\ <<>> # <<"end", "done">>
  /\ <<"publish">> # <<"start">> /\ <<"publish">> # <<"end">> /\ <<"publish">> # <<"done">>
  /\ <<"publish">> # <<"end", "start">> /\ <<"publish">> # <<"end", "done">>
  /\ <<"start">> # <<"end">> /\ <<"start">> # <<"done">> /\ <<"start">> # <<"end", "start">>
  /\ <<"start">> # <<"end", "done">>
  /\ <<"end">> # <<"done">> /\ <<"end">> # <<"end", "start">> /\ <<"end">> # <<"end", "done">>
  /\ <<"done">> # <<"end", "start">> /\ <<"done">> # <<"end", "done">>
  /\ <<"end", "start">> # <<"end", "done">>
OBVIOUS

LEMMA TodoType == Todo \subseteq Seq(Pass)
BY DEF Todo, Pass

-----------------------------------------------------------------------------
(* Sequences index by index. *)
LEMMA AppendFacts ==
  ASSUME NEW S, NEW s \in Seq(S), NEW x \in S
  PROVE  /\ Append(s, x) \in Seq(S)
         /\ Len(s) \in Nat /\ Len(Append(s, x)) = Len(s) + 1
         /\ DOMAIN s = 1 .. Len(s) /\ DOMAIN Append(s, x) = 1 .. Len(s) + 1
         /\ \A i \in DOMAIN s : Append(s, x)[i] = s[i]
         /\ Append(s, x)[Len(s) + 1] = x
OBVIOUS

LEMMA ConcatFacts ==
  ASSUME NEW S, NEW a \in Seq(S), NEW b \in Seq(S)
  PROVE  /\ a \o b \in Seq(S) /\ Len(a \o b) = Len(a) + Len(b)
         /\ DOMAIN (a \o b) = 1 .. Len(a) + Len(b)
         /\ \A k \in 1 .. Len(a) + Len(b) : (a \o b)[k] = IF k <= Len(a) THEN a[k] ELSE b[k - Len(a)]
OBVIOUS

LEMMA RemoveFacts ==
  ASSUME NEW S, NEW s \in Seq(S), NEW i \in DOMAIN s
  PROVE  /\ RemoveAt(s, i) \in Seq(S)
         /\ Len(s) \in Nat /\ Len(RemoveAt(s, i)) = Len(s) - 1
         /\ DOMAIN s = 1 .. Len(s) /\ DOMAIN RemoveAt(s, i) = 1 .. Len(s) - 1
         /\ \A k \in 1 .. Len(s) - 1 : RemoveAt(s, i)[k] = IF k < i THEN s[k] ELSE s[k + 1]
<1>1. /\ Len(s) \in Nat /\ DOMAIN s = 1 .. Len(s) /\ i \in 1 .. Len(s)
      /\ \A k \in 1 .. Len(s) : s[k] \in S
  OBVIOUS
<1>2. /\ SubSeq(s, 1, i - 1) \in Seq(S) /\ Len(SubSeq(s, 1, i - 1)) = i - 1
      /\ \A k \in 1 .. i - 1 : SubSeq(s, 1, i - 1)[k] = s[k]
  BY <1>1
<1>3. /\ SubSeq(s, i + 1, Len(s)) \in Seq(S) /\ Len(SubSeq(s, i + 1, Len(s))) = Len(s) - i
      /\ \A k \in 1 .. Len(s) - i : SubSeq(s, i + 1, Len(s))[k] = s[k + i]
  BY <1>1, SMTT(30)
<1> DEFINE a == SubSeq(s, 1, i - 1)
           b == SubSeq(s, i + 1, Len(s))
<1>4. a \in Seq(S) /\ Len(a) = i - 1 /\ b \in Seq(S) /\ Len(b) = Len(s) - i
  BY <1>2, <1>3
<1>5. /\ a \o b \in Seq(S) /\ Len(a \o b) = Len(s) - 1 /\ DOMAIN (a \o b) = 1 .. Len(s) - 1
      /\ \A k \in 1 .. Len(s) - 1 : (a \o b)[k] = IF k <= i - 1 THEN a[k] ELSE b[k - (i - 1)]
  <2> HIDE DEF a, b
  <2> QED
    <3>1. /\ a \o b \in Seq(S) /\ Len(a \o b) = Len(a) + Len(b)
          /\ DOMAIN (a \o b) = 1 .. Len(a) + Len(b)
          /\ \A k \in 1 .. Len(a) + Len(b) :
               (a \o b)[k] = IF k <= Len(a) THEN a[k] ELSE b[k - Len(a)]
      BY <1>4, ConcatFacts, Zenon
    <3>2. Len(a) + Len(b) = Len(s) - 1 /\ Len(a) = i - 1
      BY <1>1, <1>4
    <3> QED
      BY <3>1, <3>2
<1>6. ASSUME NEW k \in 1 .. Len(s) - 1
      PROVE  (a \o b)[k] = IF k < i THEN s[k] ELSE s[k + 1]
  <2>1. CASE k < i
    BY <1>1, <1>2, <1>5, <2>1
  <2>2. CASE ~(k < i)
    <3>1. k - (i - 1) \in 1 .. Len(s) - i /\ (k - (i - 1)) + i = k + 1 /\ ~(k <= i - 1)
      BY <1>1, <2>2
    <3>2. (a \o b)[k] = b[k - (i - 1)]
      BY <1>5, <3>1
    <3>3. b[k - (i - 1)] = s[(k - (i - 1)) + i]
      BY <1>3, <3>1
    <3> QED
      BY <2>2, <3>1, <3>2, <3>3
  <2> QED
    BY <2>1, <2>2
<1> QED
  BY <1>1, <1>5, <1>6 DEF RemoveAt

-----------------------------------------------------------------------------
(* Types. *)
ListTypes ==
  /\ clients \in Seq(Clients) /\ numClients = Len(clients)
  /\ locked \in BOOLEAN /\ currentBatch \in BOOLEAN
CallTypes ==
  /\ todo \in Todo /\ pc \in {"enter", "examine", "act"} /\ it \in Nat \ {0}
  /\ finished \in BOOLEAN /\ expectDone \subseteq Clients
OwnerTypes ==
  /\ phase \in [Clients -> {"none", "created", "installed", "dropped"}]
  /\ state \in [Clients -> {"CONSUMING", "ABORTING", "FINSIHED"}]
  /\ batching \in [Clients -> BOOLEAN]
QueueTypes ==
  /\ messages \in [Clients -> Seq(Message)]
  /\ popped \in [Clients -> Nat] /\ told \in [Clients -> Nat]
  /\ \A c \in Clients : popped[c] <= Len(messages[c]) /\ told[c] <= Len(messages[c])
  /\ \A c \in Clients : Len(messages[c]) - popped[c] <= Capacity
LogTypes ==
  /\ published \in 0 .. MaxMessages /\ since \in [Clients -> 0 .. published]
  /\ refused \in [Clients -> SUBSET Message]
  /\ todo = <<"publish">> => published > 0

TypeInv == ListTypes /\ CallTypes /\ OwnerTypes /\ QueueTypes /\ LogTypes

-----------------------------------------------------------------------------
LEMMA ListTypesStep ==
  ASSUME ListTypes, CallTypes, [Next]_vars
  PROVE  ListTypes'
<1> USE DEF ListTypes, listVars, publisherVars
<1>1. ASSUME NEW c \in Clients,
             NewClient(c) \/ GetNextMessage(c) \/ Abort(c) \/ DropClient(c)
      PROVE  ListTypes'
  BY <1>1 DEF NewClient, GetNextMessage, Abort, DropClient
<1>2. ASSUME NEW c \in Clients, InstallClient(c) PROVE ListTypes'
  BY <1>2, AppendFacts DEF InstallClient
<1>3. CASE Publish \/ StartBatch \/ EndBatch \/ Done
  BY <1>3 DEF Publish, StartBatch, EndBatch, Done, Call
<1>4. CASE Enter \/ Examine
  BY <1>4 DEF Enter, Examine
<1>5. CASE RemoveClient
  <2>1. /\ clients' = RemoveAt(clients, it) /\ numClients' = numClients - 1
        /\ it \in DOMAIN clients /\ UNCHANGED <<locked, currentBatch>>
    BY <1>5 DEF RemoveClient
  <2>2. clients' \in Seq(Clients) /\ Len(clients') = Len(clients) - 1
    BY <2>1, RemoveFacts
  <2> QED
    BY <2>1, <2>2
<1>6. ASSUME Served \/ \E c \in Clients : PushToFullQueue(c) PROVE ListTypes'
  BY <1>6 DEF Served, PushToFullQueue
<1>7. ASSUME NEW c \in Clients,
             \/ PushMessage(c) \/ PushToFullQueue(c)
             \/ StartClientBatch(c) \/ FinishClientBatch(c) \/ ClientDone(c)
      PROVE  ListTypes'
  BY <1>6, <1>7 DEF PushMessage, StartClientBatch, FinishClientBatch, ClientDone
<1>8. CASE Leave
  <2>1. currentBatch' \in BOOLEAN /\ locked' = currentBatch' /\ UNCHANGED <<clients, numClients>>
    BY <1>8 DEF Leave
  <2> QED
    BY <2>1
<1>9. CASE UNCHANGED vars
  BY <1>9 DEF vars
<1>10. it \in DOMAIN clients => clients[it] \in Clients
  OBVIOUS
<1> QED
  BY NextCases, <1>1, <1>2, <1>3, <1>4, <1>5, <1>7, <1>8, <1>9, <1>10

(* What a call does with todo, and that a call that publishes counts. *)
LEMMA CallFacts ==
  ASSUME CallTypes, Publish \/ StartBatch \/ EndBatch \/ Done
  PROVE  /\ todo = <<>> /\ pc' = "enter"
         /\ UNCHANGED <<listVars, currentBatch, it, phase, state, batching, queueVars,
                        since, refused>>
         /\ Publish => todo' = IF currentBatch \/ numClients > 0 THEN <<"publish">> ELSE <<>>
         /\ StartBatch => todo' = IF currentBatch THEN <<"end", "start">> ELSE <<"start">>
         /\ EndBatch => currentBatch /\ todo' = <<"end">>
         /\ Done => todo' = IF currentBatch THEN <<"end", "done">> ELSE <<"done">>
<1>1. "start" \in Pass /\ "done" \in Pass
  BY DEF Pass
<1>2. Publish => todo' = IF currentBatch \/ numClients > 0 THEN <<"publish">> ELSE <<>>
  BY DEF Publish, Call
<1>3. StartBatch => todo' = IF currentBatch THEN <<"end", "start">> ELSE <<"start">>
  BY <1>1, EndCurrentFacts, Zenon DEF StartBatch, Call
<1>4. EndBatch => currentBatch /\ todo' = <<"end">>
  BY DEF EndBatch, Call, EndCurrent
<1>5. Done => todo' = IF currentBatch THEN <<"end", "done">> ELSE <<"done">>
  BY <1>1, EndCurrentFacts, Zenon DEF Done, Call
<1>6. /\ todo = <<>> /\ pc' = "enter"
      /\ UNCHANGED <<listVars, currentBatch, it, phase, state, batching, queueVars,
                     since, refused>>
  BY DEF Publish, StartBatch, EndBatch, Done, Call, Idle
<1> QED
  BY <1>2, <1>3, <1>4, <1>5, <1>6

LEMMA CallTypesStep ==
  ASSUME ListTypes, CallTypes, [Next]_vars
  PROVE  CallTypes'
<1> USE DEF CallTypes, listVars, publisherVars, logVars
<1>1. ASSUME NEW c \in Clients,
             \/ NewClient(c) \/ InstallClient(c) \/ GetNextMessage(c)
             \/ Abort(c) \/ DropClient(c)
      PROVE  CallTypes'
  BY <1>1 DEF NewClient, InstallClient, GetNextMessage, Abort, DropClient
<1>2. CASE Publish \/ StartBatch \/ EndBatch \/ Done
  <2>1. todo' \in Todo /\ pc' = "enter" /\ it' = it
    BY <1>2, CallFacts DEF Todo
  <2>2. finished' \in BOOLEAN /\ expectDone' \subseteq Clients
    <3>1. ToSet(clients) \subseteq Clients
      BY DEF ListTypes, ToSet
    <3> QED
      BY <1>2, <3>1 DEF Publish, StartBatch, EndBatch, Done
  <2> QED
    BY <2>1, <2>2
<1>3. CASE Enter
  BY <1>3 DEF Enter
<1>4. CASE Examine \/ RemoveClient
  BY <1>4 DEF Examine, RemoveClient
<1>5. ASSUME Served PROVE CallTypes'
  BY <1>5 DEF Served
<1>6. ASSUME NEW c \in Clients, PushToFullQueue(c) PROVE CallTypes'
  BY <1>6 DEF PushToFullQueue, Todo
<1>7. ASSUME NEW c \in Clients,
             \/ PushMessage(c) \/ PushToFullQueue(c)
             \/ StartClientBatch(c) \/ FinishClientBatch(c) \/ ClientDone(c)
      PROVE  CallTypes'
  BY <1>5, <1>6, <1>7 DEF PushMessage, StartClientBatch, FinishClientBatch, ClientDone
<1>8. CASE Leave
  <2>1. todo # <<>> /\ todo' = Tail(todo) /\ pc' = "enter" /\ UNCHANGED <<it, finished, expectDone>>
    BY <1>8 DEF Leave, Idle
  <2>2. Tail(todo) \in Todo
    BY <2>1, TodoCases DEF Todo
  <2> QED
    BY <2>1, <2>2
<1>9. CASE UNCHANGED vars
  BY <1>9 DEF vars
<1>10. it \in DOMAIN clients => clients[it] \in Clients
  BY DEF ListTypes
<1> QED
  BY NextCases, <1>1, <1>2, <1>3, <1>4, <1>7, <1>8, <1>9, <1>10

LEMMA OwnerTypesStep ==
  ASSUME ListTypes, OwnerTypes, [Next]_vars
  PROVE  OwnerTypes'
<1> USE DEF OwnerTypes, listVars, publisherVars, ChangeState
<1>1. ASSUME NEW c \in Clients,
             NewClient(c) \/ InstallClient(c) \/ GetNextMessage(c) \/ Abort(c)
      PROVE  OwnerTypes'
  BY <1>1 DEF NewClient, InstallClient, GetNextMessage, Abort
<1>2. ASSUME NEW c \in Clients, DropClient(c) PROVE OwnerTypes'
  BY <1>2 DEF DropClient, DestroyClient, EndClientBatch
<1>3. CASE Publish \/ StartBatch \/ EndBatch \/ Done
  BY <1>3 DEF Publish, StartBatch, EndBatch, Done, Call
<1>4. CASE Enter \/ Examine \/ Leave
  BY <1>4 DEF Enter, Examine, Leave
<1>10. it \in DOMAIN clients => clients[it] \in Clients
  BY DEF ListTypes
<1>5. CASE RemoveClient
  BY <1>5, <1>10 DEF RemoveClient, DestroyClient, EndClientBatch
<1>6. ASSUME NEW c \in Clients, PushMessage(c) \/ PushToFullQueue(c) PROVE OwnerTypes'
  BY <1>6 DEF PushMessage, PushToFullQueue, Served
<1>7. ASSUME NEW c \in Clients, StartClientBatch(c) \/ FinishClientBatch(c) PROVE OwnerTypes'
  BY <1>7 DEF StartClientBatch, FinishClientBatch, EndClientBatch, Served
<1>8. ASSUME NEW c \in Clients, ClientDone(c) PROVE OwnerTypes'
  BY <1>8 DEF ClientDone, Served
<1>9. CASE UNCHANGED vars
  BY <1>9 DEF vars
<1> QED
  BY NextCases, <1>1, <1>2, <1>3, <1>4, <1>5, <1>6, <1>7, <1>8, <1>9, <1>10

LEMMA PublishingFacts ==
  ASSUME CallTypes, todo # <<>>, pass = "publish"
  PROVE  todo = <<"publish">>
BY TodoCases DEF CallTypes

(* PushComplete, where nothing was pushed, is one more promise kept. *)
LEMMA ToldTypes ==
  ASSUME QueueTypes, UNCHANGED <<messages, popped>>, NEW c \in Clients,
         told' = told \/ told' = [told EXCEPT ![c] = Len(messages'[c])]
  PROVE  QueueTypes'
<1>1. Len(messages[c]) \in Nat
  BY DEF QueueTypes
<1>2. told' \in [Clients -> Nat] /\ \A d \in Clients : told'[d] <= Len(messages[d])
  <2>1. told \in [Clients -> Nat] /\ \A d \in Clients : told[d] <= Len(messages[d])
    BY DEF QueueTypes
  <2>2. CASE told' = told
    BY <2>1, <2>2
  <2>3. CASE told' = [told EXCEPT ![c] = Len(messages[c])]
    <3>1. told' \in [Clients -> Nat] /\ told'[c] = Len(messages[c])
      BY <1>1, <2>1, <2>3
    <3>2. \A d \in Clients \ {c} : told'[d] = told[d]
      BY <2>1, <2>3
    <3> QED
      BY <1>1, <2>1, <3>1, <3>2
  <2> QED
    BY <2>2, <2>3
<1> QED
  BY <1>2 DEF QueueTypes

LEMMA QueueTypesStep ==
  ASSUME ListTypes, CallTypes, QueueTypes, LogTypes, [Next]_vars
  PROVE  QueueTypes'
<1>0. UNCHANGED queueVars => QueueTypes'
  BY DEF QueueTypes, queueVars
<1>1. ASSUME NEW c \in Clients, NewClient(c) \/ InstallClient(c) \/ Abort(c)
      PROVE  QueueTypes'
  BY <1>0, <1>1 DEF NewClient, InstallClient, Abort
<1>2. ASSUME NEW c \in Clients, GetNextMessage(c) PROVE QueueTypes'
  <2>1. /\ popped' = [popped EXCEPT ![c] = @ + 1] /\ popped[c] < Len(messages[c])
        /\ UNCHANGED <<messages, told>>
    BY <1>2 DEF GetNextMessage
  <2>2. /\ popped \in [Clients -> Nat] /\ Len(messages[c]) \in Nat /\ Capacity \in Nat
        /\ Len(messages[c]) - popped[c] <= Capacity
    BY PublisherAssumption DEF QueueTypes, PublisherAssumption
  <2>3. /\ popped' \in [Clients -> Nat] /\ popped'[c] <= Len(messages[c])
        /\ Len(messages[c]) - popped'[c] <= Capacity
        /\ \A d \in Clients \ {c} : popped'[d] = popped[d]
    BY <2>1, <2>2
  <2> QED
    BY <2>1, <2>3 DEF QueueTypes
<1>3. ASSUME NEW c \in Clients, DropClient(c) PROVE QueueTypes'
  <2>1. /\ UNCHANGED <<messages, popped>>
        /\ told' = told \/ told' = [told EXCEPT ![c] = Len(messages'[c])]
    BY <1>3 DEF DropClient, DestroyClient, EndClientBatch, PushComplete
  <2> QED
    BY <2>1, ToldTypes
<1>4. CASE Publish \/ StartBatch \/ EndBatch \/ Done
  BY <1>0, <1>4 DEF Publish, StartBatch, EndBatch, Done, Call
<1>5. CASE Enter \/ Examine \/ Leave
  BY <1>0, <1>5 DEF Enter, Examine, Leave
<1>10. it \in DOMAIN clients => clients[it] \in Clients
  BY DEF ListTypes
<1>6. CASE RemoveClient
  <2>1. /\ UNCHANGED <<messages, popped>>
        /\ told' = told \/ told' = [told EXCEPT ![clients[it]] = Len(messages'[clients[it]])]
        /\ clients[it] \in Clients
    BY <1>6, <1>10 DEF RemoveClient, DestroyClient, EndClientBatch, PushComplete
  <2> QED
    BY <2>1, ToldTypes
<1>7. ASSUME NEW c \in Clients, PushMessage(c) PROVE QueueTypes'
  <2>1. /\ messages' = [messages EXCEPT ![c] = Append(@, published)] /\ HasRoom(c)
        /\ told' = told \/ told' = [told EXCEPT ![c] = Len(messages'[c])]
        /\ popped' = popped /\ todo = <<"publish">>
    BY <1>7, PublishingFacts DEF PushMessage, PushComplete, Served, Idle
  <2>2. published \in Message
    BY <2>1, PublisherAssumption DEF LogTypes, Message, PublisherAssumption
  <2>3. /\ messages \in [Clients -> Seq(Message)] /\ messages[c] \in Seq(Message)
        /\ Len(messages[c]) \in Nat /\ popped[c] \in Nat /\ told[c] \in Nat /\ Capacity \in Nat
        /\ popped[c] <= Len(messages[c]) /\ told[c] <= Len(messages[c])
    BY PublisherAssumption DEF QueueTypes, PublisherAssumption
  <2>4. /\ Append(messages[c], published) \in Seq(Message)
        /\ Len(Append(messages[c], published)) = Len(messages[c]) + 1
    BY <2>2, <2>3, AppendFacts
  <2>5. /\ messages' \in [Clients -> Seq(Message)] /\ Len(messages'[c]) = Len(messages[c]) + 1
        /\ \A d \in Clients \ {c} : messages'[d] = messages[d]
    BY <2>1, <2>3, <2>4
  <2>6. Len(messages'[c]) - popped[c] <= Capacity /\ popped[c] <= Len(messages'[c])
    BY <2>1, <2>3, <2>5 DEF HasRoom
  <2>7. /\ told' \in [Clients -> Nat] /\ told'[c] <= Len(messages'[c])
        /\ \A d \in Clients \ {c} : told'[d] = told[d]
    <3>1. told \in [Clients -> Nat]
      BY DEF QueueTypes
    <3>2. Len(messages'[c]) \in Nat /\ told[c] <= Len(messages'[c])
      BY <2>3, <2>5
    <3>3. CASE told' = told
      BY <3>1, <3>2, <3>3
    <3>4. CASE told' = [told EXCEPT ![c] = Len(messages'[c])]
      BY <3>1, <3>2, <3>4
    <3> QED
      BY <2>1, <3>3, <3>4
  <2> QED
    BY <2>1, <2>5, <2>6, <2>7 DEF QueueTypes
<1>8. ASSUME NEW c \in Clients, PushToFullQueue(c) \/ StartClientBatch(c) PROVE QueueTypes'
  BY <1>0, <1>8 DEF PushToFullQueue, StartClientBatch, Served, queueVars
<1>9. ASSUME NEW c \in Clients, FinishClientBatch(c) \/ ClientDone(c) PROVE QueueTypes'
  <2>1. /\ UNCHANGED <<messages, popped>>
        /\ told' = told \/ told' = [told EXCEPT ![c] = Len(messages'[c])]
    BY <1>9 DEF FinishClientBatch, ClientDone, EndClientBatch, PushComplete, Served
  <2> QED
    BY <2>1, ToldTypes
<1>11. CASE UNCHANGED vars
  BY <1>0, <1>11 DEF vars
<1> QED
  BY NextCases, <1>1, <1>2, <1>3, <1>4, <1>5, <1>6, <1>7, <1>8, <1>9, <1>10, <1>11

LEMMA LogTypesStep ==
  ASSUME ListTypes, CallTypes, LogTypes, [Next]_vars
  PROVE  LogTypes'
<1>0. MaxMessages \in Nat /\ todo \in Todo
  BY PublisherAssumption DEF PublisherAssumption, CallTypes
<1>1. UNCHANGED <<published, since, refused, todo>> => LogTypes'
  BY DEF LogTypes
<1>2. ASSUME NEW c \in Clients,
             NewClient(c) \/ GetNextMessage(c) \/ Abort(c) \/ DropClient(c)
      PROVE  LogTypes'
  BY <1>1, <1>2 DEF NewClient, GetNextMessage, Abort, DropClient, publisherVars, logVars
<1>3. ASSUME NEW c \in Clients, InstallClient(c) PROVE LogTypes'
  <2>1. since' = [since EXCEPT ![c] = published] /\ UNCHANGED <<published, refused, todo>>
    BY <1>3 DEF InstallClient, publisherVars
  <2>2. published \in 0 .. published
    BY <1>0 DEF LogTypes
  <2> QED
    BY <2>1, <2>2 DEF LogTypes
<1>4. CASE Publish
  <2>1. published < MaxMessages /\ published' = published + 1 /\ UNCHANGED <<since, refused>>
    BY <1>4 DEF Publish, Call
  <2>2. published' \in 0 .. MaxMessages /\ published' > 0 /\ 0 .. published \subseteq 0 .. published'
    BY <1>0, <2>1 DEF LogTypes
  <2> QED
    BY <2>1, <2>2 DEF LogTypes
<1>5. CASE StartBatch \/ EndBatch \/ Done
  <2>1. UNCHANGED <<published, since, refused>>
    BY <1>5 DEF StartBatch, EndBatch, Done, Call
  <2>2. todo' # <<"publish">>
    BY <1>5, CallFacts, TodoDistinct
  <2> QED
    BY <2>1, <2>2 DEF LogTypes
<1>6. CASE Enter \/ Examine \/ RemoveClient
  BY <1>1, <1>6 DEF Enter, Examine, RemoveClient, publisherVars, logVars
<1>7. ASSUME NEW c \in Clients, PushToFullQueue(c) PROVE LogTypes'
  <2>1. /\ todo = <<"publish">> /\ todo' = <<>> /\ UNCHANGED <<published, since>>
        /\ refused' = [refused EXCEPT ![c] = @ \cup {published}]
    BY <1>7, PublishingFacts DEF PushToFullQueue, Idle
  <2>2. published \in Message
    BY <1>0, <2>1 DEF LogTypes, Message
  <2>3. refused' \in [Clients -> SUBSET Message]
    BY <2>1, <2>2 DEF LogTypes
  <2> QED
    BY <2>1, <2>3, TodoDistinct DEF LogTypes
<1>8. ASSUME NEW c \in Clients,
             \/ PushMessage(c) \/ StartClientBatch(c) \/ FinishClientBatch(c) \/ ClientDone(c)
      PROVE  LogTypes'
  BY <1>1, <1>8 DEF PushMessage, StartClientBatch, FinishClientBatch, ClientDone, Served
<1>9. CASE Leave
  <2>1. todo # <<>> /\ todo' = Tail(todo) /\ UNCHANGED <<published, since, refused>>
    BY <1>9 DEF Leave, Idle, logVars
  <2>2. todo' # <<"publish">>
    BY <1>0, <2>1, TodoCases, TodoDistinct
  <2> QED
    BY <2>1, <2>2 DEF LogTypes
<1>10. it \in DOMAIN clients => clients[it] \in Clients
  BY DEF ListTypes
<1>11. CASE UNCHANGED vars
  BY <1>1, <1>11 DEF vars, publisherVars, logVars
<1> QED
  BY NextCases, <1>2, <1>3, <1>4, <1>5, <1>6, <1>7, <1>8, <1>9, <1>10, <1>11

LEMMA TypeStep ==
  ASSUME TypeInv, [Next]_vars
  PROVE  TypeInv'
BY ListTypesStep, CallTypesStep, OwnerTypesStep, QueueTypesStep, LogTypesStep DEF TypeInv

-----------------------------------------------------------------------------
(* The passes of a call against the lock, the batch and Done. *)
EndFirst == {<<"end">>, <<"end", "start">>, <<"end", "done">>}

CallInv ==
  /\ pc = "enter" => locked = currentBatch
  /\ pc # "enter" => todo # <<>> /\ locked
  /\ todo \in {<<"start">>, <<"done">>} => ~currentBatch
  /\ todo \in EndFirst => currentBatch
  /\ finished => \/ todo \in {<<>>, <<"done">>} /\ ~currentBatch
                 \/ todo = <<"end", "done">>

LEMMA CallStep ==
  ASSUME TypeInv, CallInv, [Next]_vars
  PROVE  CallInv'
<1> USE DEF CallInv, EndFirst, listVars, publisherVars, logVars
<1>0. /\ todo \in Todo /\ locked \in BOOLEAN /\ currentBatch \in BOOLEAN /\ finished \in BOOLEAN
  BY DEF TypeInv, ListTypes, CallTypes
<1>1. ASSUME NEW c \in Clients,
             \/ NewClient(c) \/ InstallClient(c) \/ GetNextMessage(c)
             \/ Abort(c) \/ DropClient(c)
      PROVE  CallInv'
  BY <1>1 DEF NewClient, InstallClient, GetNextMessage, Abort, DropClient
<1>2. CASE Publish
  <2>1. pc' = "enter" /\ todo' \in {<<>>, <<"publish">>} /\ UNCHANGED <<locked, currentBatch>>
    BY <1>2, CallFacts DEF TypeInv
  <2>2. ~finished /\ ~finished' /\ todo = <<>>
    BY <1>2, CallFacts DEF Publish, TypeInv
  <2>3. pc = "enter"
    BY <2>2
  <2> QED
    BY <2>1, <2>2, <2>3, TodoDistinct, Zenon
<1>3. CASE StartBatch
  <2>1. /\ pc' = "enter" /\ UNCHANGED <<locked, currentBatch>>
        /\ todo' = IF currentBatch THEN <<"end", "start">> ELSE <<"start">>
    BY <1>3, CallFacts DEF TypeInv
  <2>2. ~finished /\ ~finished' /\ todo = <<>>
    BY <1>3, CallFacts DEF StartBatch, TypeInv
  <2>3. pc = "enter"
    BY <2>2
  <2> QED
    BY <2>1, <2>2, <2>3, TodoDistinct, Zenon
<1>4. CASE EndBatch
  <2>1. /\ pc' = "enter" /\ UNCHANGED <<locked, currentBatch, finished>> /\ todo = <<>>
        /\ currentBatch /\ todo' = <<"end">>
    BY <1>4, CallFacts DEF EndBatch, TypeInv
  <2>2. pc = "enter" /\ ~finished
    BY <2>1, TodoDistinct, Zenon
  <2> QED
    BY <2>1, <2>2, TodoDistinct, Zenon
<1>5. CASE Done
  <2>1. /\ pc' = "enter" /\ UNCHANGED <<locked, currentBatch>> /\ todo = <<>>
        /\ todo' = IF currentBatch THEN <<"end", "done">> ELSE <<"done">>
    BY <1>5, CallFacts DEF TypeInv
  <2>2. pc = "enter"
    BY <2>1
  <2> QED
    BY <1>0, <2>1, <2>2, TodoDistinct, Zenon
<1>6. CASE Enter
  <2>1. todo # <<>> /\ locked' /\ pc' = "examine" /\ UNCHANGED <<todo, currentBatch, finished>>
    BY <1>6 DEF Enter, Idle
  <2> QED
    BY <2>1
<1>7. CASE Examine
  BY <1>7 DEF Examine, Idle
<1>8. CASE RemoveClient
  BY <1>8 DEF RemoveClient, Idle
<1>9. ASSUME NEW c \in Clients, PushToFullQueue(c) PROVE CallInv'
  <2>1. /\ todo = <<"publish">> /\ todo' = <<>> /\ pc' = "enter" /\ locked' = currentBatch
        /\ UNCHANGED <<currentBatch, finished>>
    BY <1>9, PublishingFacts DEF PushToFullQueue, Idle, TypeInv
  <2>2. ~finished
    BY <2>1, TodoDistinct, Zenon
  <2> QED
    BY <2>1, <2>2, TodoDistinct, Zenon
<1>10. ASSUME NEW c \in Clients,
              \/ PushMessage(c) \/ StartClientBatch(c) \/ FinishClientBatch(c) \/ ClientDone(c)
       PROVE  CallInv'
  BY <1>10 DEF PushMessage, StartClientBatch, FinishClientBatch, ClientDone, Served
<1>11. CASE Leave
  <2>1. /\ todo # <<>> /\ todo' = Tail(todo) /\ pc' = "enter" /\ locked' = currentBatch'
        /\ currentBatch' = (pass = "start" \/ (pass = "publish" /\ currentBatch))
        /\ finished' = finished
    BY <1>11 DEF Leave, Idle
  <2>2. \/ todo = <<"publish">> /\ todo' = <<>> /\ ~finished
        \/ todo = <<"start">> /\ todo' = <<>> /\ ~finished
        \/ todo = <<"end">> /\ todo' = <<>> /\ ~currentBatch' /\ ~finished
        \/ todo = <<"done">> /\ todo' = <<>> /\ ~currentBatch'
        \/ todo = <<"end", "start">> /\ todo' = <<"start">> /\ ~currentBatch' /\ ~finished
        \/ todo = <<"end", "done">> /\ todo' = <<"done">> /\ ~currentBatch'
    BY <1>0, <2>1, TodoCases, TodoDistinct, Zenon
  <2> QED
    BY <2>1, <2>2, TodoDistinct, Zenon
<1>12. it \in DOMAIN clients => clients[it] \in Clients
  BY DEF TypeInv, ListTypes
<1>13. CASE UNCHANGED vars
  BY <1>13 DEF vars
<1> QED
  BY NextCases, <1>1, <1>2, <1>3, <1>4, <1>5, <1>6, <1>7, <1>8, <1>9, <1>10, <1>11, <1>12,
     <1>13

-----------------------------------------------------------------------------
(* The list against the owners: a subscriber that is not installed is fresh, *)
(* and one that its owner still reads is listed.                             *)
Once(s) == \A i, k \in DOMAIN s : s[i] = s[k] => i = k
Fresh(c) == phase[c] \in {"none", "created"}

ListInv ==
  /\ Once(clients)
  /\ \A c \in Clients :
       /\ Fresh(c) => c \notin ToSet(clients) /\ messages[c] = <<>> /\ ~batching[c]
       /\ Consuming(c) => c \in ToSet(clients)

LEMMA OnceAppend ==
  ASSUME NEW S, NEW s \in Seq(S), Once(s), NEW x \in S, x \notin ToSet(s)
  PROVE  Once(Append(s, x)) /\ ToSet(Append(s, x)) = ToSet(s) \cup {x}
<1>1. /\ Len(s) \in Nat /\ DOMAIN s = 1 .. Len(s) /\ DOMAIN Append(s, x) = 1 .. Len(s) + 1
      /\ \A i \in DOMAIN s : Append(s, x)[i] = s[i]
      /\ Append(s, x)[Len(s) + 1] = x
  BY AppendFacts
<1>2. \A i \in DOMAIN Append(s, x) : i \in DOMAIN s \/ i = Len(s) + 1
  BY <1>1
<1>3. \A i \in DOMAIN s : s[i] # x
  BY DEF ToSet
<1>4. Once(Append(s, x))
  BY <1>1, <1>2, <1>3 DEF Once
<1>5. DOMAIN s \subseteq DOMAIN Append(s, x) /\ Len(s) + 1 \in DOMAIN Append(s, x)
  BY <1>1
<1>6. ToSet(Append(s, x)) = ToSet(s) \cup {x}
  BY <1>1, <1>2, <1>5 DEF ToSet
<1> QED
  BY <1>4, <1>6

(* Where the others are when one is removed. *)
LEMMA RemoveKeeps ==
  ASSUME NEW S, NEW s \in Seq(S), NEW i \in DOMAIN s
  PROVE  /\ \A k \in DOMAIN RemoveAt(s, i) :
              \/ k < i /\ k \in DOMAIN s /\ RemoveAt(s, i)[k] = s[k]
              \/ k >= i /\ k + 1 \in DOMAIN s /\ RemoveAt(s, i)[k] = s[k + 1]
         /\ \A k \in DOMAIN s :
              \/ k < i /\ k \in DOMAIN RemoveAt(s, i) /\ RemoveAt(s, i)[k] = s[k]
              \/ k = i
              \/ k > i /\ k - 1 \in DOMAIN RemoveAt(s, i) /\ RemoveAt(s, i)[k - 1] = s[k]
<1>1. /\ Len(s) \in Nat /\ DOMAIN s = 1 .. Len(s) /\ DOMAIN RemoveAt(s, i) = 1 .. Len(s) - 1
      /\ \A k \in 1 .. Len(s) - 1 : RemoveAt(s, i)[k] = IF k < i THEN s[k] ELSE s[k + 1]
  BY RemoveFacts
<1>2. i \in 1 .. Len(s)
  BY <1>1
<1>3. ASSUME NEW k \in DOMAIN RemoveAt(s, i)
      PROVE  \/ k < i /\ k \in DOMAIN s /\ RemoveAt(s, i)[k] = s[k]
             \/ k >= i /\ k + 1 \in DOMAIN s /\ RemoveAt(s, i)[k] = s[k + 1]
  BY <1>1, <1>2
<1>4. ASSUME NEW k \in DOMAIN s
      PROVE  \/ k < i /\ k \in DOMAIN RemoveAt(s, i) /\ RemoveAt(s, i)[k] = s[k]
             \/ k = i
             \/ k > i /\ k - 1 \in DOMAIN RemoveAt(s, i) /\ RemoveAt(s, i)[k - 1] = s[k]
  <2>1. CASE k < i
    BY <1>1, <1>2, <2>1
  <2>2. CASE k > i
    <3>1. k - 1 \in 1 .. Len(s) - 1 /\ ~(k - 1 < i) /\ (k - 1) + 1 = k
      BY <1>1, <1>2, <2>2
    <3> QED
      BY <1>1, <2>2, <3>1
  <2> QED
    BY <1>1, <1>2, <2>1, <2>2
<1> QED
  BY <1>3, <1>4

LEMMA OnceRemove ==
  ASSUME NEW S, NEW s \in Seq(S), NEW i \in DOMAIN s, Once(s)
  PROVE  Once(RemoveAt(s, i)) /\ ToSet(RemoveAt(s, i)) = ToSet(s) \ {s[i]}
<1>0. DOMAIN s \subseteq Nat /\ DOMAIN RemoveAt(s, i) \subseteq Nat
  BY RemoveFacts
<1>1. ASSUME NEW k \in DOMAIN RemoveAt(s, i), NEW l \in DOMAIN RemoveAt(s, i),
             RemoveAt(s, i)[k] = RemoveAt(s, i)[l]
      PROVE  k = l
  <2>1. \/ k < i /\ k \in DOMAIN s /\ RemoveAt(s, i)[k] = s[k]
        \/ k >= i /\ k + 1 \in DOMAIN s /\ RemoveAt(s, i)[k] = s[k + 1]
    BY RemoveKeeps
  <2>2. \/ l < i /\ l \in DOMAIN s /\ RemoveAt(s, i)[l] = s[l]
        \/ l >= i /\ l + 1 \in DOMAIN s /\ RemoveAt(s, i)[l] = s[l + 1]
    BY RemoveKeeps
  <2>3. k \in Nat /\ l \in Nat /\ i \in Nat
    BY <1>0
  <2> QED
    BY <1>1, <2>1, <2>2, <2>3 DEF Once
<1>2. ASSUME NEW k \in DOMAIN RemoveAt(s, i)
      PROVE  RemoveAt(s, i)[k] \in ToSet(s) /\ RemoveAt(s, i)[k] # s[i]
  <2>1. \/ k < i /\ k \in DOMAIN s /\ RemoveAt(s, i)[k] = s[k]
        \/ k >= i /\ k + 1 \in DOMAIN s /\ RemoveAt(s, i)[k] = s[k + 1]
    BY RemoveKeeps
  <2>2. k \in Nat /\ i \in Nat
    BY <1>0
  <2> QED
    BY <2>1, <2>2 DEF Once, ToSet
<1>3. ASSUME NEW k \in DOMAIN s, s[k] # s[i]
      PROVE  s[k] \in ToSet(RemoveAt(s, i))
  <2>1. \/ k < i /\ k \in DOMAIN RemoveAt(s, i) /\ RemoveAt(s, i)[k] = s[k]
        \/ k = i
        \/ k > i /\ k - 1 \in DOMAIN RemoveAt(s, i) /\ RemoveAt(s, i)[k - 1] = s[k]
    BY RemoveKeeps
  <2> QED
    BY <1>3, <2>1 DEF ToSet
<1>4. ToSet(RemoveAt(s, i)) \subseteq ToSet(s) \ {s[i]}
  BY <1>2 DEF ToSet
<1>5. ToSet(s) \ {s[i]} \subseteq ToSet(RemoveAt(s, i))
  BY <1>3 DEF ToSet
<1> QED
  BY <1>1, <1>4, <1>5 DEF Once

LEMMA ListStep ==
  ASSUME TypeInv, CallInv, ListInv, [Next]_vars
  PROVE  ListInv'
<1>0. /\ clients \in Seq(Clients)
      /\ phase \in [Clients -> {"none", "created", "installed", "dropped"}]
      /\ state \in [Clients -> {"CONSUMING", "ABORTING", "FINSIHED"}]
      /\ batching \in [Clients -> BOOLEAN]
      /\ messages \in [Clients -> Seq(Message)]
  BY DEF TypeInv, ListTypes, OwnerTypes, QueueTypes
<1>1. UNCHANGED <<clients, phase, state, messages, batching>> => ListInv'
  BY DEF ListInv, Once, Fresh, Consuming, ToSet
<1>2. ASSUME NEW c \in Clients, NewClient(c) PROVE ListInv'
  <2>1. /\ phase[c] = "none" /\ phase' = [phase EXCEPT ![c] = "created"]
        /\ UNCHANGED <<clients, state, messages, batching>>
    BY <1>2 DEF NewClient, listVars, queueVars
  <2>2. Fresh(c)
    BY <2>1 DEF Fresh
  <2>3. /\ \A d \in Clients : Fresh(d)' <=> Fresh(d)
        /\ \A d \in Clients : Consuming(d)' => Consuming(d)
    BY <1>0, <2>1 DEF Fresh, Consuming
  <2> QED
    BY <2>1, <2>3 DEF ListInv, ToSet, Once
<1>3. ASSUME NEW c \in Clients, InstallClient(c) PROVE ListInv'
  <2>1. /\ phase[c] = "created" /\ phase' = [phase EXCEPT ![c] = "installed"]
        /\ clients' = Append(clients, c)
        /\ UNCHANGED <<state, messages, batching>>
    BY <1>3 DEF InstallClient, queueVars
  <2>2. Fresh(c)
    BY <2>1 DEF Fresh
  <2>3. Once(clients') /\ ToSet(clients') = ToSet(clients) \cup {c}
    BY <1>0, <2>1, <2>2, OnceAppend DEF ListInv
  <2>4. /\ \A d \in Clients : Fresh(d)' <=> Fresh(d) /\ d # c
        /\ \A d \in Clients : Consuming(d)' => Consuming(d) \/ d = c
    BY <1>0, <2>1 DEF Fresh, Consuming
  <2>5. Once(clients)'
    BY <2>3 DEF Once
  <2>6. \A d \in Clients : d \in ToSet(clients)' <=> d \in ToSet(clients) \/ d = c
    BY <2>3 DEF ToSet
  <2> QED
    BY <2>1, <2>4, <2>5, <2>6 DEF ListInv
<1>4. ASSUME NEW c \in Clients, GetNextMessage(c) PROVE ListInv'
  BY <1>1, <1>4 DEF GetNextMessage, listVars
<1>5. ASSUME NEW c \in Clients, Abort(c) PROVE ListInv'
  <2>1. state' = [state EXCEPT ![c] = "ABORTING"] /\ UNCHANGED <<clients, phase, messages, batching>>
    BY <1>5 DEF Abort, ChangeState, listVars, queueVars
  <2>2. /\ \A d \in Clients : Fresh(d)' <=> Fresh(d)
        /\ \A d \in Clients : Consuming(d)' => Consuming(d)
    BY <1>0, <2>1 DEF Fresh, Consuming
  <2> QED
    BY <2>1, <2>2 DEF ListInv, ToSet, Once
<1>6. ASSUME NEW c \in Clients, DropClient(c) PROVE ListInv'
  <2>1. /\ phase[c] = "installed" /\ phase' = [phase EXCEPT ![c] = "dropped"]
        /\ UNCHANGED <<clients, messages>>
        /\ state' = state \/ state' = [state EXCEPT ![c] = IF @ = "CONSUMING" THEN "ABORTING" ELSE @]
        /\ batching' = batching \/ batching' = [batching EXCEPT ![c] = FALSE]
    BY <1>6 DEF DropClient, DestroyClient, ChangeState, EndClientBatch, listVars
  <2>2. \A d \in Clients : Fresh(d)' <=> Fresh(d)
    BY <1>0, <2>1 DEF Fresh
  <2>3. \A d \in Clients : Consuming(d)' => Consuming(d)
    BY <1>0, <2>1 DEF Consuming
  <2>4. \A d \in Clients : batching'[d] => batching[d]
    BY <1>0, <2>1
  <2> QED
    BY <2>1, <2>2, <2>3, <2>4 DEF ListInv, ToSet, Once
<1>7. CASE Publish \/ StartBatch \/ EndBatch \/ Done
  BY <1>1, <1>7 DEF Publish, StartBatch, EndBatch, Done, Call, listVars, queueVars
<1>8. CASE Enter \/ Examine \/ Leave
  BY <1>1, <1>8 DEF Enter, Examine, Leave, listVars, queueVars
<1>9. it \in DOMAIN clients => clients[it] \in Clients /\ clients[it] \in ToSet(clients)
  BY <1>0 DEF ToSet
<1>10. CASE RemoveClient
  <2> DEFINE c == clients[it]
  <2>1. /\ it \in DOMAIN clients /\ clients' = RemoveAt(clients, it)
        /\ (Aborting(c) \/ Unique(c))
        /\ UNCHANGED <<phase, messages>>
        /\ state' = state \/ state' = [state EXCEPT ![c] = IF @ = "CONSUMING" THEN "ABORTING" ELSE @]
        /\ batching' = batching \/ batching' = [batching EXCEPT ![c] = FALSE]
    BY <1>10 DEF RemoveClient, DestroyClient, ChangeState, EndClientBatch
  <2>2. Once(clients') /\ ToSet(clients') = ToSet(clients) \ {c} /\ c \in Clients
    BY <1>0, <1>9, <2>1, OnceRemove DEF ListInv
  <2>3. ~Consuming(c)
    BY <2>1 DEF Consuming, Aborting, Unique
  <2> HIDE DEF c
  <2>4. \A d \in Clients : Fresh(d)' <=> Fresh(d)
    BY <2>1 DEF Fresh
  <2>5. \A d \in Clients : Consuming(d)' => Consuming(d)
    BY <1>0, <2>1, <2>2 DEF Consuming
  <2>6. \A d \in Clients : batching'[d] => batching[d]
    BY <1>0, <2>1, <2>2
  <2>7. Once(clients)' /\ \A d : d \in ToSet(clients)' <=> d \in ToSet(clients) /\ d # c
    BY <2>2 DEF Once, ToSet
  <2> QED
    BY <2>1, <2>3, <2>4, <2>5, <2>6, <2>7 DEF ListInv
<1>11. ASSUME NEW c \in Clients, c \in ToSet(clients), PushMessage(c) \/ PushToFullQueue(c)
       PROVE  ListInv'
  <2>1. /\ UNCHANGED <<clients, phase, state, batching>>
        /\ \A d \in Clients \ {c} : messages'[d] = messages[d]
    BY <1>0, <1>11 DEF PushMessage, PushToFullQueue, Served, listVars, queueVars
  <2>2. \A d \in Clients : (Fresh(d)' <=> Fresh(d)) /\ (Consuming(d)' <=> Consuming(d))
    BY <2>1 DEF Fresh, Consuming
  <2>3. ~Fresh(c)
    BY <1>11 DEF ListInv
  <2> QED
    BY <2>1, <2>2, <2>3 DEF ListInv, ToSet, Once
<1>12. ASSUME NEW c \in Clients, c \in ToSet(clients),
              StartClientBatch(c) \/ FinishClientBatch(c) \/ ClientDone(c)
       PROVE  ListInv'
  <2>1. UNCHANGED <<clients, phase, messages>>
    BY <1>12 DEF StartClientBatch, FinishClientBatch, ClientDone, Served, listVars
  <2>2. \/ state' = state
        \/ state' = [state EXCEPT ![c] = IF @ = "CONSUMING" THEN "FINSIHED" ELSE @]
    BY <1>12 DEF StartClientBatch, FinishClientBatch, ClientDone, ChangeState
  <2>3. \A d \in Clients \ {c} : batching'[d] = batching[d]
    BY <1>0, <1>12 DEF StartClientBatch, FinishClientBatch, ClientDone, EndClientBatch
  <2>4. \A d \in Clients : (Fresh(d)' <=> Fresh(d)) /\ (Consuming(d)' => Consuming(d))
    BY <1>0, <2>1, <2>2 DEF Fresh, Consuming
  <2>5. ~Fresh(c)
    BY <1>12 DEF ListInv
  <2> QED
    BY <2>1, <2>3, <2>4, <2>5 DEF ListInv, ToSet, Once
<1>13. CASE UNCHANGED vars
  BY <1>1, <1>13 DEF vars, listVars, queueVars
<1> QED
  BY NextCases, <1>2, <1>3, <1>4, <1>5, <1>6, <1>7, <1>8, <1>9, <1>10, <1>11, <1>12, <1>13

-----------------------------------------------------------------------------
(* The subscribers a pass has not served yet: before the pass begins, all of *)
(* them; then those at the iterator or behind it.                            *)
Ahead(c) == pc = "enter" \/ \E k \in DOMAIN clients : k >= it /\ clients[k] = c

LEMMA AheadSame ==
  ASSUME UNCHANGED <<clients, pc, it>>, NEW c
  PROVE  Ahead(c)' <=> Ahead(c)
BY DEF Ahead

LEMMA AheadEnter ==
  ASSUME TypeInv, Enter, NEW c
  PROVE  Ahead(c) /\ (c \in ToSet(clients) => Ahead(c)')
<1>1. pc = "enter" /\ pc' = "examine" /\ it' = 1 /\ clients' = clients
  BY DEF Enter
<1>2. \A k \in DOMAIN clients : k >= 1
  BY DEF TypeInv, ListTypes
<1> QED
  BY <1>1, <1>2 DEF Ahead, ToSet

LEMMA AheadLeave ==
  ASSUME TypeInv, Leave, NEW c
  PROVE  ~Ahead(c) /\ Ahead(c)'
<1>1. pc = "examine" /\ pc' = "enter" /\ it \notin DOMAIN clients
  BY DEF Leave
<1>2. \A k \in DOMAIN clients : ~(k >= it)
  BY <1>1 DEF TypeInv, ListTypes, CallTypes
<1> QED
  BY <1>1, <1>2 DEF Ahead

LEMMA AheadServed ==
  ASSUME TypeInv, ListInv, it \in DOMAIN clients, Served, NEW c
  PROVE  Ahead(clients[it]) /\ (Ahead(c)' <=> Ahead(c) /\ c # clients[it])
<1>1. pc = "act" /\ pc' = "examine" /\ it' = it + 1 /\ clients' = clients
  BY DEF Served, listVars
<1>2. it \in Nat /\ \A k \in DOMAIN clients : k \in Nat
  BY DEF TypeInv, ListTypes, CallTypes
<1>3. \A k \in DOMAIN clients : k >= it + 1 <=> k >= it /\ k # it
  BY <1>2
<1>4. \A k \in DOMAIN clients : clients[k] = clients[it] <=> k = it
  BY DEF ListInv, Once
<1>5. Ahead(clients[it])
  BY <1>2 DEF Ahead
<1>6. Ahead(c)' <=> \E k \in DOMAIN clients : k >= it /\ k # it /\ clients[k] = c
  BY <1>1, <1>3 DEF Ahead
<1>7. Ahead(c) <=> \E k \in DOMAIN clients : k >= it /\ clients[k] = c
  BY <1>1 DEF Ahead
<1> QED
  BY <1>4, <1>5, <1>6, <1>7

LEMMA AheadRemove ==
  ASSUME TypeInv, ListInv, RemoveClient, NEW c
  PROVE  Ahead(c)' <=> Ahead(c) /\ c # clients[it]
<1>1. /\ pc = "examine" /\ pc' = pc /\ it' = it /\ it \in DOMAIN clients
      /\ clients' = RemoveAt(clients, it) /\ clients \in Seq(Clients)
  BY DEF RemoveClient, publisherVars, TypeInv, ListTypes
<1>2. DOMAIN clients \subseteq Nat /\ DOMAIN clients' \subseteq Nat /\ it \in Nat
  BY <1>1, RemoveFacts DEF TypeInv, CallTypes
<1>3. /\ \A k \in DOMAIN clients' :
           \/ k < it /\ k \in DOMAIN clients /\ clients'[k] = clients[k]
           \/ k >= it /\ k + 1 \in DOMAIN clients /\ clients'[k] = clients[k + 1]
      /\ \A k \in DOMAIN clients :
           \/ k < it /\ k \in DOMAIN clients' /\ clients'[k] = clients[k]
           \/ k = it
           \/ k > it /\ k - 1 \in DOMAIN clients' /\ clients'[k - 1] = clients[k]
  BY <1>1, RemoveKeeps
<1>4. \A k \in DOMAIN clients : clients[k] = clients[it] <=> k = it
  BY <1>1 DEF ListInv, Once
<1>5. ASSUME NEW k \in DOMAIN clients', k >= it
      PROVE  k + 1 \in DOMAIN clients /\ k + 1 >= it /\ k + 1 # it /\ clients'[k] = clients[k + 1]
  BY <1>2, <1>3, <1>5
<1>6. ASSUME NEW k \in DOMAIN clients, k >= it, k # it
      PROVE  k - 1 \in DOMAIN clients' /\ k - 1 >= it /\ clients'[k - 1] = clients[k]
  BY <1>2, <1>3, <1>6
<1>7. Ahead(c)' => \E k \in DOMAIN clients : k >= it /\ k # it /\ clients[k] = c
  BY <1>1, <1>5 DEF Ahead
<1>8. (\E k \in DOMAIN clients : k >= it /\ k # it /\ clients[k] = c) => Ahead(c)'
  BY <1>1, <1>6 DEF Ahead
<1>9. Ahead(c) <=> \E k \in DOMAIN clients : k >= it /\ clients[k] = c
  BY <1>1 DEF Ahead
<1> QED
  BY <1>4, <1>7, <1>8, <1>9

(* A pass serves each listed client in one step of its kind. *)
LEMMA ActCases ==
  ASSUME TypeInv, CallInv, NEW c \in Clients,
         \/ PushMessage(c) \/ PushToFullQueue(c)
         \/ StartClientBatch(c) \/ FinishClientBatch(c) \/ ClientDone(c)
  PROVE  \/ PushMessage(c) /\ todo = <<"publish">> /\ Served
         \/ PushToFullQueue(c) /\ todo = <<"publish">>
         \/ StartClientBatch(c) /\ todo = <<"start">> /\ Served
         \/ FinishClientBatch(c) /\ todo \in EndFirst /\ Served
         \/ ClientDone(c) /\ todo = <<"done">> /\ Served
<1>1. todo \in Todo
  BY DEF TypeInv, CallTypes
<1>2. /\ todo # <<>> /\ pass = "publish" => todo = <<"publish">>
      /\ todo # <<>> /\ pass = "start" => todo = <<"start">>
      /\ todo # <<>> /\ pass = "end" => todo \in EndFirst
      /\ todo # <<>> /\ pass = "done" => todo = <<"done">>
  BY <1>1, TodoCases DEF EndFirst
<1> QED
  BY <1>2 DEF PushMessage, PushToFullQueue, StartClientBatch, FinishClientBatch, ClientDone, Idle

-----------------------------------------------------------------------------
(* The flags of the clients: those a pass has served have what it gives, the *)
(* others what was there before it.                                          *)
BatchInv ==
  /\ \A c \in Clients : c \in ToSet(clients) =>
       /\ todo = <<"start">> => (batching[c] <=> ~Ahead(c))
       /\ todo \in EndFirst => (batching[c] <=> Ahead(c))
       /\ todo \in {<<>>, <<"publish">>, <<"done">>} => (batching[c] <=> currentBatch)
  /\ \A c \in Clients : Consuming(c) /\ ~batching[c] => told[c] = Len(messages[c])

LEMMA BatchStep ==
  ASSUME TypeInv, CallInv, ListInv, BatchInv, [Next]_vars
  PROVE  BatchInv'
<1>0. /\ clients \in Seq(Clients) /\ todo \in Todo
      /\ phase \in [Clients -> {"none", "created", "installed", "dropped"}]
      /\ state \in [Clients -> {"CONSUMING", "ABORTING", "FINSIHED"}]
      /\ batching \in [Clients -> BOOLEAN] /\ told \in [Clients -> Nat]
      /\ messages \in [Clients -> Seq(Message)]
  BY DEF TypeInv, ListTypes, OwnerTypes, QueueTypes, CallTypes
<1>1. ASSUME UNCHANGED <<clients, todo, currentBatch, batching, told, messages>>,
             \A d \in Clients : Consuming(d)' => Consuming(d),
             \A d \in Clients : d \in ToSet(clients) => (Ahead(d)' <=> Ahead(d))
      PROVE  BatchInv'
  <2>1. \A d \in Clients : d \in ToSet(clients)' <=> d \in ToSet(clients)
    BY <1>1 DEF ToSet
  <2> QED
    BY <1>1, <2>1 DEF BatchInv, EndFirst
<1>2. ASSUME NEW c \in Clients, NewClient(c) PROVE BatchInv'
  <2>1. /\ phase' = [phase EXCEPT ![c] = "created"] /\ state' = state
        /\ UNCHANGED <<clients, todo, pc, it, currentBatch, batching, told, messages>>
    BY <1>2 DEF NewClient, listVars, publisherVars, queueVars
  <2>2. \A d \in Clients : Consuming(d)' => Consuming(d)
    BY <1>0, <2>1 DEF Consuming
  <2> QED
    BY <1>1, <2>1, <2>2, AheadSame
<1>3. ASSUME NEW c \in Clients, InstallClient(c) PROVE BatchInv'
  <2>1. /\ phase[c] = "created" /\ phase' = [phase EXCEPT ![c] = "installed"]
        /\ clients' = Append(clients, c) /\ ~locked
        /\ UNCHANGED <<state, messages, batching, told, todo, pc, it, currentBatch>>
    BY <1>3 DEF InstallClient, queueVars, publisherVars
  <2>2. Fresh(c) /\ pc = "enter" /\ ~currentBatch
    BY <2>1 DEF Fresh, CallInv
  <2>3. c \notin ToSet(clients) /\ messages[c] = <<>> /\ ~batching[c]
    BY <2>2 DEF ListInv
  <2>4. ToSet(clients') = ToSet(clients) \cup {c}
    BY <1>0, <2>1, <2>3, OnceAppend DEF ListInv
  <2>5. \A d \in Clients : d \in ToSet(clients)' <=> d \in ToSet(clients) \/ d = c
    BY <2>4 DEF ToSet
  <2>6. \A d \in Clients : Ahead(d) /\ Ahead(d)'
    BY <2>1, <2>2 DEF Ahead
  <2>7. told[c] = Len(messages[c])
    <3>1. told[c] <= Len(messages[c]) /\ told[c] \in Nat
      BY DEF TypeInv, QueueTypes
    <3> QED
      BY <2>3, <3>1
  <2>8. \A d \in Clients : Consuming(d)' => Consuming(d) \/ d = c
    BY <1>0, <2>1 DEF Consuming
  <2>9. todo \notin EndFirst
    BY <2>2 DEF CallInv
  <2>10. \A d \in Clients : Consuming(d)' /\ ~batching[d] => told[d] = Len(messages[d])
    BY <2>7, <2>8 DEF BatchInv
  <2>11. \A d \in Clients : d \in ToSet(clients)' =>
            /\ todo = <<"start">> => (batching[d] <=> ~Ahead(d)')
            /\ todo \in {<<>>, <<"publish">>, <<"done">>} => (batching[d] <=> currentBatch)
    BY <2>2, <2>3, <2>5, <2>6 DEF BatchInv
  <2> QED
    BY <2>1, <2>9, <2>10, <2>11 DEF BatchInv, EndFirst
<1>4. ASSUME NEW c \in Clients, GetNextMessage(c) PROVE BatchInv'
  <2>1. UNCHANGED <<clients, todo, pc, it, currentBatch, batching, told, messages, phase, state>>
    BY <1>4 DEF GetNextMessage, listVars, publisherVars
  <2>2. \A d \in Clients : Consuming(d)' => Consuming(d)
    BY <2>1 DEF Consuming
  <2> QED
    BY <1>1, <2>1, <2>2, AheadSame
<1>5. ASSUME NEW c \in Clients, Abort(c) PROVE BatchInv'
  <2>1. /\ state' = [state EXCEPT ![c] = "ABORTING"]
        /\ UNCHANGED <<clients, todo, pc, it, currentBatch, batching, told, messages, phase>>
    BY <1>5 DEF Abort, ChangeState, listVars, publisherVars, queueVars
  <2>2. \A d \in Clients : Consuming(d)' => Consuming(d)
    BY <1>0, <2>1 DEF Consuming
  <2> QED
    BY <1>1, <2>1, <2>2, AheadSame
<1>6. ASSUME NEW c \in Clients, DropClient(c) PROVE BatchInv'
  <2>1. /\ phase' = [phase EXCEPT ![c] = "dropped"]
        /\ UNCHANGED <<clients, todo, pc, it, currentBatch, messages>>
        /\ state' = state \/ state' = [state EXCEPT ![c] = IF @ = "CONSUMING" THEN "ABORTING" ELSE @]
    BY <1>6 DEF DropClient, DestroyClient, ChangeState, listVars, publisherVars
  <2>2. \A d \in Clients \ {c} : batching'[d] = batching[d] /\ told'[d] = told[d]
    BY <1>0, <1>6 DEF DropClient, DestroyClient, EndClientBatch, PushComplete
  <2>3. c \in ToSet(clients) => batching'[c] = batching[c]
    BY <1>6 DEF DropClient
  <2>4. \A d \in Clients : Consuming(d)' => Consuming(d) /\ d # c
    BY <1>0, <2>1 DEF Consuming
  <2>5. \A d \in Clients : d \in ToSet(clients)' => d \in ToSet(clients) /\ batching'[d] = batching[d]
    BY <2>1, <2>2, <2>3 DEF ToSet
  <2>6. \A d \in Clients : Ahead(d)' <=> Ahead(d)
    BY <2>1, AheadSame
  <2> QED
    BY <2>1, <2>2, <2>4, <2>5, <2>6 DEF BatchInv, EndFirst
<1>7. CASE Publish \/ StartBatch \/ EndBatch \/ Done
  <2>1. /\ todo = <<>> /\ pc' = "enter"
        /\ UNCHANGED <<clients, currentBatch, phase, state, batching, told, messages>>
    BY <1>7, CallFacts DEF TypeInv, listVars, queueVars
  <2>2. /\ todo' = <<"start">> => ~currentBatch
        /\ todo' \in EndFirst => currentBatch
    BY <1>7, CallFacts, TodoDistinct, Zenon DEF TypeInv, EndFirst
  <2>3. \A d \in Clients : Ahead(d)'
    BY <2>1 DEF Ahead
  <2>4. \A d \in Clients : (d \in ToSet(clients)' <=> d \in ToSet(clients))
                           /\ (Consuming(d)' <=> Consuming(d))
    BY <2>1 DEF ToSet, Consuming
  <2>5. \A d \in Clients : d \in ToSet(clients) => (batching[d] <=> currentBatch)
    BY <2>1 DEF BatchInv
  <2> QED
    BY <2>1, <2>2, <2>3, <2>4, <2>5 DEF BatchInv, EndFirst
<1>8. CASE Enter
  <2>1. UNCHANGED <<clients, todo, currentBatch, batching, told, messages, phase, state>>
    BY <1>8 DEF Enter, queueVars
  <2>2. \A d \in Clients : d \in ToSet(clients) => (Ahead(d)' <=> Ahead(d))
    BY <1>8, AheadEnter
  <2>3. \A d \in Clients : Consuming(d)' => Consuming(d)
    BY <2>1 DEF Consuming
  <2> QED
    BY <1>1, <2>1, <2>2, <2>3
<1>9. CASE Examine
  <2>1. /\ UNCHANGED <<clients, todo, currentBatch, batching, told, messages, phase, state, it>>
        /\ pc = "examine" /\ pc' = "act"
    BY <1>9 DEF Examine, queueVars, listVars
  <2>2. \A d \in Clients : (Ahead(d)' <=> Ahead(d)) /\ (Consuming(d)' => Consuming(d))
    BY <2>1 DEF Ahead, Consuming
  <2> QED
    BY <1>1, <2>1, <2>2
<1>10. it \in DOMAIN clients => clients[it] \in Clients /\ clients[it] \in ToSet(clients)
  BY <1>0 DEF ToSet
<1>11. CASE RemoveClient
  <2> DEFINE c == clients[it]
  <2>1. /\ it \in DOMAIN clients /\ clients' = RemoveAt(clients, it)
        /\ (Aborting(c) \/ Unique(c))
        /\ UNCHANGED <<phase, messages, todo, currentBatch>>
        /\ state' = state \/ state' = [state EXCEPT ![c] = IF @ = "CONSUMING" THEN "ABORTING" ELSE @]
    BY <1>11 DEF RemoveClient, DestroyClient, ChangeState, publisherVars
  <2>2. ToSet(clients') = ToSet(clients) \ {c} /\ c \in Clients
    BY <1>0, <1>10, <2>1, OnceRemove DEF ListInv
  <2>3. ~Consuming(c)
    BY <2>1 DEF Consuming, Aborting, Unique
  <2>4. \A d \in Clients \ {c} : batching'[d] = batching[d] /\ told'[d] = told[d]
    BY <1>0, <1>10, <1>11 DEF RemoveClient, DestroyClient, EndClientBatch, PushComplete
  <2>5. \A d : Ahead(d)' <=> Ahead(d) /\ d # c
    BY <1>11, AheadRemove
  <2> HIDE DEF c
  <2>6. \A d \in Clients : Consuming(d)' => Consuming(d) /\ d # c
    <3>1. \A d \in Clients : Consuming(d)' => Consuming(d)
      BY <1>0, <2>1, <2>2 DEF Consuming
    <3> QED
      BY <2>3, <3>1
  <2>7. \A d \in Clients : d \in ToSet(clients)' <=> d \in ToSet(clients) /\ d # c
    BY <2>2 DEF ToSet
  <2> QED
    BY <2>1, <2>4, <2>5, <2>6, <2>7 DEF BatchInv, EndFirst
<1>12. ASSUME it \in DOMAIN clients, NEW c \in Clients, c = clients[it],
              \/ PushMessage(c) \/ PushToFullQueue(c)
              \/ StartClientBatch(c) \/ FinishClientBatch(c) \/ ClientDone(c)
       PROVE  BatchInv'
  <2>1. c \in Clients /\ c \in ToSet(clients)
    BY <1>10, <1>12
  <2>2. \/ PushMessage(c) /\ todo = <<"publish">> /\ Served
        \/ PushToFullQueue(c) /\ todo = <<"publish">>
        \/ StartClientBatch(c) /\ todo = <<"start">> /\ Served
        \/ FinishClientBatch(c) /\ todo \in EndFirst /\ Served
        \/ ClientDone(c) /\ todo = <<"done">> /\ Served
    BY <1>12, <2>1, ActCases
  <2>3. Served => \A d : Ahead(c) /\ (Ahead(d)' <=> Ahead(d) /\ d # c)
    BY <1>12, AheadServed
  <2>4. Served => /\ UNCHANGED <<clients, currentBatch, todo, phase>>
                  /\ \A d \in Clients : d \in ToSet(clients)' <=> d \in ToSet(clients)
    BY DEF Served, listVars, ToSet
  <2>5. CASE PushMessage(c) /\ todo = <<"publish">> /\ Served
    <3>1. UNCHANGED <<state, batching>> /\ \A d \in Clients \ {c} : messages'[d] = messages[d] /\ told'[d] = told[d]
      BY <1>0, <2>5 DEF PushMessage, PushComplete
    <3>2. ~batching[c] => told'[c] = Len(messages'[c])
      BY <1>0, <2>1, <2>5 DEF PushMessage, PushComplete
    <3>3. \A d \in Clients : Consuming(d)' => Consuming(d)
      BY <2>4, <2>5, <3>1 DEF Consuming
    <3>4. \A d \in Clients : Consuming(d)' /\ ~batching'[d] => told'[d] = Len(messages'[d])
      BY <3>1, <3>2, <3>3 DEF BatchInv
    <3>5. \A d \in Clients : d \in ToSet(clients)' => (batching'[d] <=> currentBatch')
      BY <2>4, <2>5, <3>1 DEF BatchInv
    <3>6. todo' = <<"publish">>
      BY <2>4, <2>5
    <3> QED
      BY <3>4, <3>5, <3>6, TodoDistinct, Zenon DEF BatchInv, EndFirst
  <2>6. CASE PushToFullQueue(c) /\ todo = <<"publish">>
    <3>1. UNCHANGED <<clients, currentBatch, phase, state, batching, told, messages>> /\ todo' = <<>>
      BY <2>6 DEF PushToFullQueue, queueVars
    <3>2. \A d \in Clients : (d \in ToSet(clients)' <=> d \in ToSet(clients))
                             /\ (Consuming(d)' <=> Consuming(d))
      BY <3>1 DEF ToSet, Consuming
    <3>3. \A d \in Clients : d \in ToSet(clients)' => (batching'[d] <=> currentBatch')
      BY <2>6, <3>1, <3>2 DEF BatchInv
    <3>4. \A d \in Clients : Consuming(d)' /\ ~batching'[d] => told'[d] = Len(messages'[d])
      BY <3>1, <3>2 DEF BatchInv
    <3> QED
      BY <3>1, <3>3, <3>4, TodoDistinct, Zenon DEF BatchInv, EndFirst
  <2>7. CASE StartClientBatch(c) /\ todo = <<"start">> /\ Served
    <3>1. /\ UNCHANGED <<state, told, messages>> /\ batching'[c] = TRUE
          /\ \A d \in Clients \ {c} : batching'[d] = batching[d]
      BY <1>0, <2>1, <2>7 DEF StartClientBatch
    <3>2. \A d \in Clients : Consuming(d)' => Consuming(d)
      BY <2>4, <2>7, <3>1 DEF Consuming
    <3>3. \A d \in Clients : Consuming(d)' /\ ~batching'[d] => told'[d] = Len(messages'[d])
      BY <3>1, <3>2 DEF BatchInv
    <3>4. \A d \in Clients : d \in ToSet(clients)' => (batching'[d] <=> ~Ahead(d)')
      BY <2>3, <2>4, <2>7, <3>1 DEF BatchInv
    <3>5. todo' = <<"start">>
      BY <2>4, <2>7
    <3> QED
      BY <3>3, <3>4, <3>5, TodoDistinct, Zenon DEF BatchInv, EndFirst
  <2>8. CASE FinishClientBatch(c) /\ todo \in EndFirst /\ Served
    <3>1. /\ UNCHANGED <<state, messages>> /\ batching'[c] = FALSE
          /\ \A d \in Clients \ {c} : batching'[d] = batching[d] /\ told'[d] = told[d]
          /\ batching[c] => told'[c] = Len(messages'[c])
          /\ ~batching[c] => told' = told
      BY <1>0, <2>1, <2>8 DEF FinishClientBatch, EndClientBatch, PushComplete
    <3>2. \A d \in Clients : Consuming(d)' => Consuming(d)
      BY <2>4, <2>8, <3>1 DEF Consuming
    <3>3. \A d \in Clients : Consuming(d)' /\ ~batching'[d] => told'[d] = Len(messages'[d])
      BY <3>1, <3>2 DEF BatchInv
    <3>4. \A d \in Clients : d \in ToSet(clients)' => (batching'[d] <=> Ahead(d)')
      BY <2>3, <2>4, <2>8, <3>1 DEF BatchInv
    <3>5. todo' \in EndFirst
      BY <2>4, <2>8
    <3> QED
      BY <3>3, <3>4, <3>5, TodoDistinct, Zenon DEF BatchInv, EndFirst
  <2>9. CASE ClientDone(c) /\ todo = <<"done">> /\ Served
    <3>1. UNCHANGED <<batching, messages>> /\ \A d \in Clients \ {c} : told'[d] = told[d]
      BY <1>0, <2>9 DEF ClientDone, PushComplete
    <3>2. state[c] # "ABORTING" => told'[c] = Len(messages'[c])
      BY <1>0, <2>1, <2>9 DEF ClientDone, PushComplete, Aborting
    <3>3. \A d \in Clients : Consuming(d)' => Consuming(d)
      <4>1. state' = [state EXCEPT ![c] = IF @ = "CONSUMING" THEN "FINSIHED" ELSE @] /\ phase' = phase
        BY <2>4, <2>9 DEF ClientDone, ChangeState
      <4> QED
        BY <1>0, <2>1, <4>1 DEF Consuming
    <3>4. \A d \in Clients : Consuming(d)' /\ ~batching'[d] => told'[d] = Len(messages'[d])
      <4>1. Consuming(c) => state[c] # "ABORTING"
        BY DEF Consuming
      <4>2. Consuming(c)' => told'[c] = Len(messages'[c])
        BY <2>1, <3>2, <3>3, <4>1, Zenon
      <4> QED
        BY <3>1, <3>3, <4>2 DEF BatchInv
    <3>5. \A d \in Clients : d \in ToSet(clients)' => (batching'[d] <=> currentBatch')
      BY <2>4, <2>9, <3>1 DEF BatchInv
    <3>6. todo' = <<"done">>
      BY <2>4, <2>9
    <3> QED
      BY <3>4, <3>5, <3>6, TodoDistinct, Zenon DEF BatchInv, EndFirst
  <2> QED
    BY <2>2, <2>5, <2>6, <2>7, <2>8, <2>9
<1>13. CASE Leave
  <2>1. /\ todo # <<>> /\ todo' = Tail(todo)
        /\ currentBatch' = (pass = "start" \/ (pass = "publish" /\ currentBatch))
        /\ UNCHANGED <<clients, phase, state, batching, told, messages>>
    BY <1>13 DEF Leave, Idle, queueVars
  <2>2. \A d \in Clients : ~Ahead(d) /\ Ahead(d)'
    BY <1>13, AheadLeave
  <2>3. \A d \in Clients : (d \in ToSet(clients)' <=> d \in ToSet(clients))
                           /\ (Consuming(d)' <=> Consuming(d))
    BY <2>1 DEF ToSet, Consuming
  <2>4. \/ todo = <<"publish">> /\ todo' = <<>> /\ (currentBatch' <=> currentBatch)
        \/ todo = <<"start">> /\ todo' = <<>> /\ currentBatch'
        \/ todo \in EndFirst /\ todo' \in {<<>>, <<"start">>, <<"done">>} /\ ~currentBatch'
        \/ todo = <<"done">> /\ todo' = <<>> /\ ~currentBatch' /\ ~currentBatch
    <3>1. todo = <<"done">> => ~currentBatch
      BY DEF CallInv
    <3> QED
      BY <1>0, <2>1, <3>1, TodoCases, TodoDistinct, Zenon DEF EndFirst
  <2>5. \A d \in Clients : d \in ToSet(clients) => (batching[d] <=> currentBatch')
    BY <2>2, <2>4 DEF BatchInv
  <2>6. /\ todo' \in {<<>>, <<"start">>, <<"done">>}
        /\ todo' = <<"start">> => ~currentBatch'
    BY <2>4, TodoDistinct, Zenon
  <2>7. todo' \notin EndFirst
    BY <2>6, TodoDistinct, Zenon DEF EndFirst
  <2>8. \A d \in Clients : Consuming(d)' /\ ~batching'[d] => told'[d] = Len(messages'[d])
    BY <2>1, <2>3 DEF BatchInv
  <2>9. \A d \in Clients : d \in ToSet(clients)' =>
          /\ todo' = <<"start">> => (batching'[d] <=> ~Ahead(d)')
          /\ batching'[d] <=> currentBatch'
    BY <2>1, <2>2, <2>3, <2>5, <2>6
  <2> QED
    BY <2>7, <2>8, <2>9 DEF BatchInv, EndFirst
<1>14. CASE UNCHANGED vars
  <2>1. UNCHANGED <<clients, todo, pc, it, currentBatch, batching, told, messages, phase, state>>
    BY <1>14 DEF vars, listVars, publisherVars, queueVars
  <2>2. \A d \in Clients : Consuming(d)' => Consuming(d)
    BY <2>1 DEF Consuming
  <2> QED
    BY <1>1, <2>1, <2>2, AheadSame
<1> QED
  BY NextCases, <1>2, <1>3, <1>4, <1>5, <1>6, <1>7, <1>8, <1>9, <1>10, <1>11, <1>12, <1>13, <1>14

-----------------------------------------------------------------------------
(* Done still has to reach the clients it has not finished. *)
Pending(c) == Consuming(c) /\ state[c] # "FINSIHED"

DoneInv ==
  finished => \A c \in Clients : c \in expectDone =>
    /\ ~Fresh(c)
    /\ Pending(c) => /\ todo \in {<<"done">>, <<"end", "done">>}
                     /\ todo = <<"done">> => Ahead(c)

LEMMA DoneStep ==
  ASSUME TypeInv, CallInv, ListInv, DoneInv, [Next]_vars
  PROVE  DoneInv'
<1>0. /\ clients \in Seq(Clients) /\ todo \in Todo
      /\ phase \in [Clients -> {"none", "created", "installed", "dropped"}]
      /\ state \in [Clients -> {"CONSUMING", "ABORTING", "FINSIHED"}]
  BY DEF TypeInv, ListTypes, OwnerTypes, CallTypes
<1>1. ASSUME UNCHANGED <<todo, finished, expectDone>>,
             \A d \in Clients : d \in expectDone /\ ~Fresh(d) => ~Fresh(d)',
             \A d \in Clients : ~Fresh(d) /\ Pending(d)' =>
                Pending(d) /\ (todo = <<"done">> /\ Ahead(d) => Ahead(d)')
      PROVE  DoneInv'
  BY <1>1 DEF DoneInv
<1>2. ASSUME NEW c \in Clients, NewClient(c) PROVE DoneInv'
  <2>1. /\ phase[c] = "none" /\ phase' = [phase EXCEPT ![c] = "created"] /\ state' = state
        /\ UNCHANGED <<clients, todo, pc, it, finished, expectDone>>
    BY <1>2 DEF NewClient, listVars, publisherVars, logVars
  <2>2. \A d \in Clients : (Fresh(d)' <=> Fresh(d)) /\ (Pending(d)' => Pending(d))
    BY <1>0, <2>1 DEF Fresh, Consuming, Pending
  <2> QED
    BY <1>1, <2>1, <2>2, AheadSame
<1>3. ASSUME NEW c \in Clients, InstallClient(c) PROVE DoneInv'
  <2>1. /\ phase[c] = "created" /\ phase' = [phase EXCEPT ![c] = "installed"] /\ state' = state
        /\ ~locked /\ UNCHANGED <<todo, pc, it, finished, expectDone>>
    BY <1>3 DEF InstallClient, publisherVars
  <2>2. Fresh(c) /\ pc = "enter"
    BY <2>1 DEF Fresh, CallInv
  <2>3. /\ \A d \in Clients : Fresh(d)' <=> Fresh(d) /\ d # c
        /\ \A d \in Clients : Pending(d)' => Pending(d) \/ d = c
    BY <1>0, <2>1 DEF Fresh, Consuming, Pending
  <2>4. \A d \in Clients : Ahead(d)'
    BY <2>1, <2>2 DEF Ahead
  <2> QED
    BY <1>1, <2>1, <2>2, <2>3, <2>4
<1>4. ASSUME NEW c \in Clients, GetNextMessage(c) PROVE DoneInv'
  <2>1. UNCHANGED <<clients, todo, pc, it, phase, state, finished, expectDone>>
    BY <1>4 DEF GetNextMessage, listVars, publisherVars, logVars
  <2>2. \A d \in Clients : (Fresh(d)' <=> Fresh(d)) /\ (Pending(d)' => Pending(d))
    BY <2>1 DEF Fresh, Consuming, Pending
  <2> QED
    BY <1>1, <2>1, <2>2, AheadSame
<1>5. ASSUME NEW c \in Clients, Abort(c) \/ DropClient(c) PROVE DoneInv'
  <2>1. /\ UNCHANGED <<clients, todo, pc, it, finished, expectDone>>
        /\ phase[c] = "installed" /\ phase' \in {phase, [phase EXCEPT ![c] = "dropped"]}
        /\ state' = state \/ state' = [state EXCEPT ![c] = IF @ = "CONSUMING" THEN "ABORTING" ELSE @]
    BY <1>5 DEF Abort, DropClient, DestroyClient, ChangeState, listVars, publisherVars, logVars
  <2>2. \A d \in Clients : Fresh(d)' <=> Fresh(d)
    BY <1>0, <2>1 DEF Fresh
  <2>3. \A d \in Clients : Pending(d)' => Pending(d)
    <3>1. \A d \in Clients : phase'[d] = "installed" => phase[d] = "installed"
      BY <1>0, <2>1
    <3>2. \A d \in Clients : state'[d] \notin {"ABORTING", "FINSIHED"} => state[d] = state'[d]
      BY <1>0, <2>1
    <3> QED
      BY <3>1, <3>2 DEF Consuming, Pending
  <2> QED
    BY <1>1, <2>1, <2>2, <2>3, AheadSame
<1>6. CASE Publish \/ StartBatch
  BY <1>6 DEF Publish, StartBatch, DoneInv
<1>7. CASE EndBatch
  <2>1. todo = <<>> /\ UNCHANGED <<phase, state, finished, expectDone>>
    BY <1>7, CallFacts DEF TypeInv, EndBatch
  <2>2. todo \notin {<<"done">>, <<"end", "done">>}
    BY <2>1, TodoDistinct, Zenon
  <2>3. \A d \in Clients : (Fresh(d)' <=> Fresh(d)) /\ (Pending(d)' <=> Pending(d))
    BY <2>1 DEF Fresh, Consuming, Pending
  <2> QED
    BY <2>1, <2>2, <2>3 DEF DoneInv
<1>8. CASE Done
  <2>1. /\ pc' = "enter" /\ UNCHANGED phase /\ expectDone' = ToSet(clients)
        /\ todo' \in {<<"done">>, <<"end", "done">>}
    BY <1>8, CallFacts DEF TypeInv, Done
  <2>2. \A d \in Clients : Ahead(d)'
    BY <2>1 DEF Ahead
  <2>3. \A d \in Clients : d \in ToSet(clients) => ~Fresh(d)'
    BY <2>1 DEF ListInv, Fresh
  <2> QED
    BY <2>1, <2>2, <2>3 DEF DoneInv
<1>9. CASE Enter
  <2>1. UNCHANGED <<clients, todo, phase, state, finished, expectDone>>
    BY <1>9 DEF Enter, logVars
  <2>2. \A d \in Clients : (Fresh(d)' <=> Fresh(d)) /\ (Pending(d)' <=> Pending(d))
    BY <2>1 DEF Fresh, Consuming, Pending
  <2>3. \A d \in Clients : Pending(d) => d \in ToSet(clients)
    BY DEF ListInv, Pending
  <2>4. \A d \in Clients : Pending(d) => Ahead(d)'
    BY <1>9, <2>3, AheadEnter
  <2> QED
    BY <1>1, <2>1, <2>2, <2>4
<1>10. CASE Examine
  <2>1. /\ UNCHANGED <<clients, todo, phase, state, it, finished, expectDone>>
        /\ pc = "examine" /\ pc' = "act"
    BY <1>10 DEF Examine, listVars, logVars
  <2>2. \A d \in Clients : (Fresh(d)' <=> Fresh(d)) /\ (Pending(d)' <=> Pending(d))
    BY <2>1 DEF Fresh, Consuming, Pending
  <2>3. \A d \in Clients : Ahead(d)' <=> Ahead(d)
    BY <2>1 DEF Ahead
  <2> QED
    BY <1>1, <2>1, <2>2, <2>3
<1>11. it \in DOMAIN clients => clients[it] \in Clients
  BY <1>0
<1>12. CASE RemoveClient
  <2>0. PICK c \in Clients : c = clients[it]
    BY <1>11, <1>12 DEF RemoveClient
  <2>1. /\ Aborting(c) \/ Unique(c)
        /\ UNCHANGED <<phase, todo, finished, expectDone>>
        /\ state' = state \/ state' = [state EXCEPT ![c] = IF @ = "CONSUMING" THEN "ABORTING" ELSE @]
    BY <1>12, <2>0 DEF RemoveClient, DestroyClient, ChangeState, publisherVars, logVars
  <2>2. \A d \in Clients : Fresh(d)' <=> Fresh(d)
    BY <2>1 DEF Fresh
  <2>3. ~Consuming(c)
    BY <2>1 DEF Consuming, Aborting, Unique
  <2>4. \A d \in Clients : Pending(d)' => Pending(d)
    <3>1. \A d \in Clients : state'[d] \notin {"ABORTING", "FINSIHED"} => state[d] = state'[d]
      BY <1>0, <2>1
    <3> QED
      BY <2>1, <3>1 DEF Consuming, Pending
  <2>5. \A d : Ahead(d)' <=> Ahead(d) /\ d # c
    BY <1>12, <2>0, AheadRemove
  <2>6. \A d \in Clients : Pending(d)' => d # c
    BY <2>3, <2>4 DEF Pending
  <2> QED
    BY <1>1, <2>1, <2>2, <2>4, <2>5, <2>6
<1>13. ASSUME it \in DOMAIN clients, NEW c \in Clients, c = clients[it],
              \/ PushMessage(c) \/ PushToFullQueue(c)
              \/ StartClientBatch(c) \/ FinishClientBatch(c) \/ ClientDone(c)
       PROVE  DoneInv'
  <2>1. \/ PushMessage(c) /\ todo = <<"publish">> /\ Served
        \/ PushToFullQueue(c) /\ todo = <<"publish">>
        \/ StartClientBatch(c) /\ todo = <<"start">> /\ Served
        \/ FinishClientBatch(c) /\ todo \in EndFirst /\ Served
        \/ ClientDone(c) /\ todo = <<"done">> /\ Served
    BY <1>13, ActCases
  <2>2. Served => \A d : Ahead(d)' <=> Ahead(d) /\ d # c
    BY <1>13, AheadServed
  <2>3. Served => UNCHANGED <<todo, phase, finished, expectDone>>
    BY DEF Served
  <2>4. CASE PushMessage(c) /\ todo = <<"publish">> /\ Served
    <3>1. UNCHANGED <<phase, state, todo, finished, expectDone>>
      BY <2>3, <2>4 DEF PushMessage
    <3>2. \A d \in Clients : (Fresh(d)' <=> Fresh(d)) /\ (Pending(d)' <=> Pending(d))
      BY <3>1 DEF Fresh, Consuming, Pending
    <3>3. todo # <<"done">>
      BY <2>4, TodoDistinct, Zenon
    <3> QED
      BY <1>1, <3>1, <3>2, <3>3
  <2>5. CASE PushToFullQueue(c) /\ todo = <<"publish">>
    <3>1. finished' = finished
      BY <2>5 DEF PushToFullQueue
    <3>2. ~finished
      BY <2>5, TodoDistinct, Zenon DEF CallInv
    <3> QED
      BY <3>1, <3>2 DEF DoneInv
  <2>6. CASE StartClientBatch(c) /\ todo = <<"start">> /\ Served
    <3>1. finished' = finished
      BY <2>3, <2>6
    <3>2. ~finished
      BY <2>6, TodoDistinct, Zenon DEF CallInv
    <3> QED
      BY <3>1, <3>2 DEF DoneInv
  <2>7. CASE FinishClientBatch(c) /\ todo \in EndFirst /\ Served
    <3>1. UNCHANGED <<phase, state, todo, finished, expectDone>>
      BY <2>3, <2>7 DEF FinishClientBatch
    <3>2. \A d \in Clients : (Fresh(d)' <=> Fresh(d)) /\ (Pending(d)' <=> Pending(d))
      BY <3>1 DEF Fresh, Consuming, Pending
    <3>3. todo # <<"done">>
      BY <2>7, TodoDistinct, Zenon DEF EndFirst
    <3> QED
      BY <1>1, <3>1, <3>2, <3>3
  <2>8. CASE ClientDone(c) /\ todo = <<"done">> /\ Served
    <3>1. /\ UNCHANGED <<phase, todo, finished, expectDone>>
          /\ state' = [state EXCEPT ![c] = IF @ = "CONSUMING" THEN "FINSIHED" ELSE @]
      BY <2>3, <2>8 DEF ClientDone, ChangeState
    <3>2. \A d \in Clients : Fresh(d)' <=> Fresh(d)
      BY <3>1 DEF Fresh
    <3>3. state'[c] \in {"ABORTING", "FINSIHED"} /\ \A d \in Clients \ {c} : state'[d] = state[d]
      BY <1>0, <3>1
    <3>4. \A d \in Clients : Pending(d)' => Pending(d) /\ d # c
      BY <3>1, <3>3 DEF Consuming, Pending
    <3> QED
      BY <1>1, <2>2, <2>8, <3>1, <3>2, <3>4
  <2> QED
    BY <2>1, <2>4, <2>5, <2>6, <2>7, <2>8
<1>14. CASE Leave
  <2>1. todo # <<>> /\ todo' = Tail(todo) /\ UNCHANGED <<phase, state, finished, expectDone>>
    BY <1>14 DEF Leave, Idle, logVars
  <2>2. \A d \in Clients : ~Ahead(d) /\ Ahead(d)'
    BY <1>14, AheadLeave
  <2>3. \A d \in Clients : (Fresh(d)' <=> Fresh(d)) /\ (Pending(d)' <=> Pending(d))
    BY <2>1 DEF Fresh, Consuming, Pending
  <2>4. todo = <<"end", "done">> => todo' = <<"done">>
    BY <1>0, <2>1, TodoCases, TodoDistinct, Zenon
  <2>5. ASSUME finished, NEW d \in Clients, d \in expectDone, Pending(d)
        PROVE  todo' = <<"done">>
    BY <2>2, <2>4, <2>5 DEF DoneInv
  <2> QED
    BY <2>1, <2>2, <2>3, <2>5 DEF DoneInv
<1>15. CASE UNCHANGED vars
  <2>1. UNCHANGED <<clients, todo, pc, it, phase, state, finished, expectDone>>
    BY <1>15 DEF vars, listVars, publisherVars, logVars
  <2>2. \A d \in Clients : (Fresh(d)' <=> Fresh(d)) /\ (Pending(d)' => Pending(d))
    BY <2>1 DEF Fresh, Consuming, Pending
  <2> QED
    BY <1>1, <2>1, <2>2, AheadSame
<1> QED
  BY NextCases, <1>2, <1>3, <1>4, <1>5, <1>6, <1>7, <1>8, <1>9, <1>10, <1>11, <1>12, <1>13,
     <1>14, <1>15

-----------------------------------------------------------------------------
(* The message that is being published still has to reach these clients. *)
Unserved(c) == todo = <<"publish">> /\ Ahead(c)

(* A step other than a call leaves no client unserved that was served. *)
LEMMA UnservedStep ==
  ASSUME TypeInv, CallInv, ListInv, [Next]_vars, ~Publish, NEW c \in Clients, Unserved(c)'
  PROVE  Unserved(c)
<1>0. todo \in Todo /\ (it \in DOMAIN clients => clients[it] \in Clients)
  BY DEF TypeInv, CallTypes, ListTypes
<1>1. todo' = <<"publish">> /\ Ahead(c)'
  BY DEF Unserved
<1>2. ASSUME todo' = todo, Ahead(c)' => Ahead(c) PROVE Unserved(c)
  BY <1>1, <1>2 DEF Unserved
<1>3. ASSUME NEW d \in Clients,
             \/ NewClient(d) \/ GetNextMessage(d) \/ Abort(d) \/ DropClient(d)
      PROVE  Unserved(c)
  <2>1. UNCHANGED <<clients, pc, it, todo>>
    BY <1>3 DEF NewClient, GetNextMessage, Abort, DropClient, listVars, publisherVars
  <2> QED
    BY <1>2, <2>1, AheadSame
<1>4. ASSUME NEW d \in Clients, InstallClient(d) PROVE Unserved(c)
  <2>1. pc = "enter" /\ todo' = todo
    BY <1>4 DEF InstallClient, publisherVars, CallInv
  <2> QED
    BY <1>2, <2>1 DEF Ahead
<1>5. CASE StartBatch \/ EndBatch \/ Done
  <2>1. todo' # <<"publish">>
    BY <1>5, CallFacts, TodoDistinct, Zenon DEF TypeInv
  <2> QED
    BY <1>1, <2>1
<1>6. CASE Enter
  BY <1>2, <1>6, AheadEnter DEF Enter
<1>7. CASE Examine
  <2>1. pc = "examine" /\ pc' = "act" /\ UNCHANGED <<clients, it, todo>>
    BY <1>7 DEF Examine, listVars
  <2> QED
    BY <1>2, <2>1 DEF Ahead
<1>8. CASE RemoveClient
  <2>1. todo' = todo
    BY <1>8 DEF RemoveClient, publisherVars
  <2> QED
    BY <1>2, <1>8, <2>1, AheadRemove
<1>9. ASSUME it \in DOMAIN clients, Served PROVE Unserved(c)
  <2>1. todo' = todo
    BY <1>9 DEF Served
  <2> QED
    BY <1>2, <1>9, <2>1, AheadServed
<1>10. ASSUME NEW d \in Clients, PushToFullQueue(d) PROVE Unserved(c)
  <2>1. todo' # <<"publish">>
    BY <1>10, TodoDistinct DEF PushToFullQueue
  <2> QED
    BY <1>1, <2>1
<1>11. ASSUME it \in DOMAIN clients, NEW d \in Clients,
              \/ PushMessage(d) \/ PushToFullQueue(d)
              \/ StartClientBatch(d) \/ FinishClientBatch(d) \/ ClientDone(d)
       PROVE  Unserved(c)
  BY <1>9, <1>10, <1>11 DEF PushMessage, StartClientBatch, FinishClientBatch, ClientDone
<1>12. CASE Leave
  <2>1. todo # <<>> /\ todo' = Tail(todo)
    BY <1>12 DEF Leave, Idle
  <2>2. todo' # <<"publish">>
    BY <1>0, <2>1, TodoCases, TodoDistinct, Zenon
  <2> QED
    BY <1>1, <2>2
<1>13. CASE UNCHANGED vars
  <2>1. UNCHANGED <<clients, pc, it, todo>>
    BY <1>13 DEF vars, listVars, publisherVars
  <2> QED
    BY <1>2, <2>1, AheadSame
<1> QED
  BY NextCases, <1>0, <1>3, <1>4, <1>5, <1>6, <1>7, <1>8, <1>11, <1>12, <1>13

(* Only one step pushes and only one publishes. *)
LEMMA MessagesStep ==
  ASSUME TypeInv, CallInv, [Next]_vars
  PROVE  \/ /\ UNCHANGED <<messages, published>> /\ ~Publish
         \/ /\ Publish /\ published' = published + 1 /\ messages' = messages
         \/ \E c \in Clients :
              /\ it \in DOMAIN clients /\ c = clients[it] /\ ~Publish
              /\ PushMessage(c) /\ todo = <<"publish">> /\ Served /\ published' = published
<1> USE DEF queueVars, logVars, publisherVars
<1>0. it \in DOMAIN clients => clients[it] \in Clients
  BY DEF TypeInv, ListTypes
<1>1. Publish => published' = published + 1 /\ messages' = messages
  BY DEF Publish, Call
<1>2. published' = published /\ Publish => FALSE
  <2>1. published \in Nat
    BY PublisherAssumption DEF TypeInv, LogTypes, PublisherAssumption
  <2> QED
    BY <1>1, <2>1
<1>3. ASSUME NEW c \in Clients,
             \/ NewClient(c) \/ InstallClient(c) \/ GetNextMessage(c)
             \/ Abort(c) \/ DropClient(c)
      PROVE  UNCHANGED <<messages, published>>
  BY <1>3 DEF NewClient, InstallClient, GetNextMessage, Abort, DropClient
<1>4. CASE StartBatch \/ EndBatch \/ Done
  BY <1>2, <1>4 DEF StartBatch, EndBatch, Done, Call
<1>5. CASE Enter \/ Examine \/ RemoveClient \/ Leave
  BY <1>2, <1>5 DEF Enter, Examine, RemoveClient, Leave
<1>6. ASSUME NEW c \in Clients, Served \/ PushToFullQueue(c) PROVE published' = published
  BY <1>6 DEF Served, PushToFullQueue
<1>7. ASSUME NEW c \in Clients, it \in DOMAIN clients, c = clients[it],
             \/ PushMessage(c) \/ PushToFullQueue(c)
             \/ StartClientBatch(c) \/ FinishClientBatch(c) \/ ClientDone(c)
      PROVE  \/ UNCHANGED <<messages, published>>
             \/ PushMessage(c) /\ todo = <<"publish">> /\ Served /\ published' = published
  <2>1. \/ PushMessage(c) /\ todo = <<"publish">> /\ Served
        \/ PushToFullQueue(c)
        \/ (StartClientBatch(c) \/ FinishClientBatch(c) \/ ClientDone(c)) /\ Served
    BY <1>7, ActCases
  <2>2. ASSUME \/ PushToFullQueue(c) \/ StartClientBatch(c)
               \/ FinishClientBatch(c) \/ ClientDone(c)
        PROVE  messages' = messages
    BY <2>2 DEF PushToFullQueue, StartClientBatch, FinishClientBatch, ClientDone
  <2> QED
    BY <1>6, <2>1, <2>2
<1>8. CASE UNCHANGED vars
  BY <1>2, <1>8 DEF vars
<1> QED
  BY NextCases, <1>0, <1>1, <1>2, <1>3, <1>4, <1>5, <1>7, <1>8

(* Each queue is in the order of publication, up to the message in hand. *)
OrderInv ==
  \A c \in Clients :
    /\ \A i, k \in DOMAIN messages[c] : i < k => messages[c][i] < messages[c][k]
    /\ \A i \in DOMAIN messages[c] :
         /\ messages[c][i] <= published
         /\ Unserved(c) => messages[c][i] < published

LEMMA OrderStep ==
  ASSUME TypeInv, CallInv, ListInv, OrderInv, [Next]_vars
  PROVE  OrderInv'
<1>0. /\ messages \in [Clients -> Seq(Message)] /\ published \in Nat
      /\ \A c \in Clients : \A i \in DOMAIN messages[c] : messages[c][i] \in Nat
  BY PublisherAssumption, SMTT(30) DEF TypeInv, QueueTypes, LogTypes, Message, PublisherAssumption
<1>1. CASE UNCHANGED <<messages, published>> /\ ~Publish
  <2>1. \A c \in Clients : Unserved(c)' => Unserved(c)
    BY <1>1, UnservedStep
  <2> QED
    BY <1>1, <2>1 DEF OrderInv
<1>2. CASE published' = published + 1 /\ messages' = messages
  <2>1. \A c \in Clients : \A i \in DOMAIN messages[c] :
           messages[c][i] <= published' /\ messages[c][i] < published'
    BY <1>0, <1>2 DEF OrderInv
  <2> QED
    BY <1>2, <2>1 DEF OrderInv
<1>3. ASSUME NEW c \in Clients, it \in DOMAIN clients, c = clients[it], ~Publish,
             PushMessage(c), todo = <<"publish">>, Served, published' = published
      PROVE  OrderInv'
  <2>1. messages' = [messages EXCEPT ![c] = Append(@, published)]
    BY <1>3 DEF PushMessage
  <2>2. published \in Message
    BY <1>0, <1>3, PublisherAssumption DEF TypeInv, LogTypes, Message, PublisherAssumption
  <2>3. Unserved(c) /\ ~Unserved(c)'
    BY <1>3, AheadServed DEF Unserved
  <2>4. /\ messages[c] \in Seq(Message) /\ messages'[c] = Append(messages[c], published)
        /\ \A d \in Clients \ {c} : messages'[d] = messages[d]
    BY <1>0, <2>1
  <2>5. /\ Len(messages[c]) \in Nat /\ DOMAIN messages[c] = 1 .. Len(messages[c])
        /\ DOMAIN messages'[c] = 1 .. Len(messages[c]) + 1
        /\ \A i \in DOMAIN messages[c] : messages'[c][i] = messages[c][i]
        /\ messages'[c][Len(messages[c]) + 1] = published
    BY <2>2, <2>4, AppendFacts
  <2>6. \A i \in DOMAIN messages'[c] : i \in DOMAIN messages[c] \/ i = Len(messages[c]) + 1
    BY <2>5
  <2>7. \A i \in DOMAIN messages[c] : messages[c][i] < published
    BY <2>3 DEF OrderInv
  <2>8. \A i \in DOMAIN messages'[c] : messages'[c][i] <= published
    BY <1>0, <2>5, <2>6, <2>7
  <2>9. ASSUME NEW i \in DOMAIN messages'[c], NEW k \in DOMAIN messages'[c], i < k
        PROVE  messages'[c][i] < messages'[c][k]
    <3>1. i \in DOMAIN messages[c]
      BY <2>5, <2>9
    <3>2. CASE k \in DOMAIN messages[c]
      BY <2>5, <2>9, <3>1, <3>2 DEF OrderInv
    <3>3. CASE k = Len(messages[c]) + 1
      BY <2>5, <2>7, <3>1, <3>3
    <3> QED
      BY <2>6, <3>2, <3>3
  <2>10. \A d \in Clients : Unserved(d)' => Unserved(d)
    BY <1>3, UnservedStep
  <2>11. ASSUME NEW d \in Clients, d # c
         PROVE  /\ \A i, k \in DOMAIN messages'[d] : i < k => messages'[d][i] < messages'[d][k]
                /\ \A i \in DOMAIN messages'[d] :
                     /\ messages'[d][i] <= published'
                     /\ Unserved(d)' => messages'[d][i] < published'
    <3>1. messages'[d] = messages[d]
      BY <2>4, <2>11
    <3> QED
      BY <1>3, <2>10, <3>1 DEF OrderInv
  <2> QED
    BY <1>3, <2>3, <2>8, <2>9, <2>11 DEF OrderInv
<1> QED
  BY MessagesStep, <1>1, <1>2, <1>3

(* A subscriber that is read has what was published since it was installed, *)
(* but for what was refused and what a pass is still bringing.              *)
OwedInv ==
  \A c \in Clients : Consuming(c) =>
    \A m \in 1 .. published : m > since[c] =>
      m \in Delivered(c) \/ m \in Failed \/ (m = published /\ Unserved(c))

(* Nothing that is owed gets lost in a step like this. *)
LEMMA OwedKept ==
  ASSUME OwedInv, published' = published,
         \A d \in Clients : Consuming(d)' => Consuming(d) /\ since'[d] = since[d],
         \A d \in Clients : Delivered(d) \subseteq Delivered(d)',
         Failed \subseteq Failed',
         \A d \in Clients : Consuming(d)' /\ Unserved(d) =>
           Unserved(d)' \/ published \in Delivered(d)' \/ published \in Failed'
  PROVE  OwedInv'
<1>1. ASSUME NEW c \in Clients, Consuming(c)', NEW m \in 1 .. published', m > since'[c]
      PROVE  m \in Delivered(c)' \/ m \in Failed' \/ (m = published' /\ Unserved(c)')
  <2>1. m \in Delivered(c) \/ m \in Failed \/ (m = published /\ Unserved(c))
    BY <1>1 DEF OwedInv
  <2>2. m \in Delivered(c) => m \in Delivered(c)'
    OBVIOUS
  <2>3. m \in Failed => m \in Failed'
    OBVIOUS
  <2>4. m = published /\ Unserved(c) =>
          m \in Delivered(c)' \/ m \in Failed' \/ (m = published' /\ Unserved(c)')
    BY <1>1
  <2> QED
    BY <2>1, <2>2, <2>3, <2>4
<1> QED
  BY <1>1 DEF OwedInv

LEMMA OwedStep ==
  ASSUME TypeInv, CallInv, ListInv, OwedInv, [Next]_vars
  PROVE  OwedInv'
<1>0. /\ clients \in Seq(Clients) /\ todo \in Todo /\ numClients = Len(clients)
      /\ phase \in [Clients -> {"none", "created", "installed", "dropped"}]
      /\ state \in [Clients -> {"CONSUMING", "ABORTING", "FINSIHED"}]
      /\ messages \in [Clients -> Seq(Message)] /\ published \in Nat
      /\ since \in [Clients -> 0 .. published] /\ refused \in [Clients -> SUBSET Message]
  BY PublisherAssumption DEF TypeInv, ListTypes, OwnerTypes, QueueTypes, CallTypes, LogTypes,
                             PublisherAssumption
<1>1. messages' = messages => \A d \in Clients : Delivered(d)' = Delivered(d)
  BY DEF Delivered, ToSet
<1>2. refused' = refused => Failed' = Failed
  BY DEF Failed
<1>3. ASSUME UNCHANGED <<todo, published, since, refused, messages>>,
             \A d \in Clients : Consuming(d)' => Consuming(d),
             \A d \in Clients : Consuming(d)' /\ Ahead(d) => Ahead(d)'
      PROVE  OwedInv'
  <2>1. \A d \in Clients : Delivered(d) \subseteq Delivered(d)'
    BY <1>1, <1>3
  <2>2. Failed \subseteq Failed'
    BY <1>2, <1>3
  <2>3. \A d \in Clients : Consuming(d)' /\ Unserved(d) => Unserved(d)'
    BY <1>3 DEF Unserved
  <2>4. \A d \in Clients : Consuming(d)' => Consuming(d) /\ since'[d] = since[d]
    BY <1>3
  <2> QED
    BY <1>3, <2>1, <2>2, <2>3, <2>4, OwedKept
<1>4. ASSUME NEW c \in Clients, NewClient(c) PROVE OwedInv'
  <2>1. /\ phase' = [phase EXCEPT ![c] = "created"] /\ state' = state
        /\ UNCHANGED <<clients, pc, it, todo, published, since, refused, messages>>
    BY <1>4 DEF NewClient, listVars, publisherVars, queueVars, logVars
  <2>2. \A d \in Clients : Consuming(d)' => Consuming(d)
    BY <1>0, <2>1 DEF Consuming
  <2> QED
    BY <1>3, <2>1, <2>2, AheadSame
<1>5. ASSUME NEW c \in Clients, InstallClient(c) PROVE OwedInv'
  <2>1. /\ phase' = [phase EXCEPT ![c] = "installed"] /\ state' = state
        /\ since' = [since EXCEPT ![c] = published] /\ ~locked
        /\ UNCHANGED <<pc, it, todo, published, refused, messages>>
    BY <1>5 DEF InstallClient, publisherVars, queueVars
  <2>2. \A d \in Clients : Ahead(d) /\ Ahead(d)'
    BY <2>1 DEF Ahead, CallInv
  <2>3. \A d \in Clients \ {c} : Consuming(d)' => Consuming(d)
    BY <1>0, <2>1 DEF Consuming
  <2>4. /\ since'[c] = published /\ \A d \in Clients \ {c} : since'[d] = since[d]
        /\ \A m \in 1 .. published : ~(m > published)
    BY <1>0, <2>1
  <2>5. ASSUME NEW d \in Clients, d # c, Consuming(d)', NEW m \in 1 .. published, m > since'[d]
        PROVE  m \in Delivered(d)' \/ m \in Failed' \/ (m = published /\ Unserved(d)')
    <3>1. m \in Delivered(d) \/ m \in Failed \/ (m = published /\ Unserved(d))
      BY <2>3, <2>4, <2>5 DEF OwedInv
    <3>2. Unserved(d) => Unserved(d)'
      BY <2>1, <2>2 DEF Unserved
    <3> QED
      BY <1>1, <1>2, <2>1, <3>1, <3>2
  <2> QED
    BY <2>1, <2>4, <2>5 DEF OwedInv
<1>6. ASSUME NEW c \in Clients, GetNextMessage(c) PROVE OwedInv'
  <2>1. UNCHANGED <<clients, pc, it, todo, phase, state, published, since, refused, messages>>
    BY <1>6 DEF GetNextMessage, listVars, publisherVars, logVars
  <2>2. \A d \in Clients : Consuming(d)' => Consuming(d)
    BY <2>1 DEF Consuming
  <2> QED
    BY <1>3, <2>1, <2>2, AheadSame
<1>7. ASSUME NEW c \in Clients, Abort(c) \/ DropClient(c) PROVE OwedInv'
  <2>1. /\ UNCHANGED <<clients, pc, it, todo, published, since, refused, messages>>
        /\ phase' \in {phase, [phase EXCEPT ![c] = "dropped"]}
        /\ state' = state \/ state' = [state EXCEPT ![c] = IF @ = "CONSUMING" THEN "ABORTING" ELSE @]
    BY <1>7 DEF Abort, DropClient, DestroyClient, ChangeState, listVars, publisherVars,
                queueVars, logVars
  <2>2. \A d \in Clients : Consuming(d)' => Consuming(d)
    <3>1. \A d \in Clients : phase'[d] = "installed" => phase[d] = "installed"
      BY <1>0, <2>1
    <3>2. \A d \in Clients : state'[d] # "ABORTING" => state[d] # "ABORTING"
      BY <1>0, <2>1
    <3> QED
      BY <3>1, <3>2 DEF Consuming
  <2> QED
    BY <1>3, <2>1, <2>2, AheadSame
<1>8. CASE Publish
  <2>1. /\ todo = <<>> /\ pc' = "enter" /\ published' = published + 1
        /\ UNCHANGED <<clients, phase, state, messages, since, refused>>
        /\ todo' = IF currentBatch \/ numClients > 0 THEN <<"publish">> ELSE <<>>
    BY <1>8, CallFacts DEF TypeInv, Publish, listVars, queueVars
  <2>2. \A d \in Clients : Consuming(d)' => Consuming(d)
    BY <2>1 DEF Consuming
  <2>3. \A d \in Clients : ~Unserved(d)
    BY <2>1, TodoDistinct, Zenon DEF Unserved
  <2>4. \A d \in Clients : Consuming(d) => Unserved(d)'
    <3>1. ASSUME NEW d \in Clients, Consuming(d) PROVE numClients > 0
      <4>1. PICK k \in DOMAIN clients : clients[k] = d
        BY <3>1 DEF ListInv, ToSet
      <4> QED
        BY <1>0, <4>1
    <3> QED
      BY <2>1, <3>1 DEF Unserved, Ahead
  <2>5. ASSUME NEW d \in Clients, Consuming(d)', NEW m \in 1 .. published + 1, m > since[d]
        PROVE  m \in Delivered(d)' \/ m \in Failed' \/ (m = published' /\ Unserved(d)')
    <3>1. CASE m \in 1 .. published
      BY <1>1, <1>2, <2>1, <2>2, <2>3, <2>5, <3>1 DEF OwedInv
    <3>2. CASE m = published + 1
      BY <2>1, <2>2, <2>4, <2>5, <3>2
    <3> QED
      BY <1>0, <3>1, <3>2
  <2> QED
    BY <2>1, <2>5 DEF OwedInv
<1>9. CASE StartBatch \/ EndBatch \/ Done
  <2>1. /\ todo = <<>> /\ UNCHANGED <<phase, state, messages, published, since, refused>>
    BY <1>9, CallFacts DEF TypeInv, StartBatch, EndBatch, Done, queueVars
  <2>2. \A d \in Clients : Consuming(d)' => Consuming(d)
    BY <2>1 DEF Consuming
  <2>3. \A d \in Clients : ~Unserved(d)
    BY <2>1, TodoDistinct, Zenon DEF Unserved
  <2> QED
    BY <1>1, <1>2, <2>1, <2>2, <2>3, OwedKept
<1>10. CASE Enter
  <2>1. UNCHANGED <<clients, todo, phase, state, published, since, refused, messages>>
    BY <1>10 DEF Enter, queueVars, logVars
  <2>2. \A d \in Clients : Consuming(d)' => Consuming(d)
    BY <2>1 DEF Consuming
  <2>3. \A d \in Clients : Consuming(d) => Ahead(d)'
    BY <1>10, AheadEnter DEF ListInv
  <2> QED
    BY <1>3, <2>1, <2>2, <2>3
<1>11. CASE Examine
  <2>1. /\ UNCHANGED <<clients, todo, phase, state, it, published, since, refused, messages>>
        /\ pc = "examine" /\ pc' = "act"
    BY <1>11 DEF Examine, listVars, queueVars, logVars
  <2>2. \A d \in Clients : (Consuming(d)' => Consuming(d)) /\ (Ahead(d)' <=> Ahead(d))
    BY <2>1 DEF Consuming, Ahead
  <2> QED
    BY <1>3, <2>1, <2>2
<1>12. it \in DOMAIN clients => clients[it] \in Clients
  BY <1>0
<1>13. CASE RemoveClient
  <2>0. PICK c \in Clients : c = clients[it]
    BY <1>12, <1>13 DEF RemoveClient
  <2>1. /\ Aborting(c) \/ Unique(c)
        /\ UNCHANGED <<phase, todo, published, since, refused, messages>>
        /\ state' = state \/ state' = [state EXCEPT ![c] = IF @ = "CONSUMING" THEN "ABORTING" ELSE @]
    BY <1>13, <2>0 DEF RemoveClient, DestroyClient, ChangeState, publisherVars, logVars
  <2>2. ~Consuming(c)
    BY <2>1 DEF Consuming, Aborting, Unique
  <2>3. \A d \in Clients : Consuming(d)' => Consuming(d)
    <3>1. \A d \in Clients : state'[d] # "ABORTING" => state[d] # "ABORTING"
      BY <1>0, <2>1
    <3> QED
      BY <2>1, <3>1 DEF Consuming
  <2>4. \A d : Ahead(d)' <=> Ahead(d) /\ d # c
    BY <1>13, <2>0, AheadRemove
  <2>5. \A d \in Clients : Consuming(d)' => d # c
    BY <2>2, <2>3
  <2> QED
    BY <1>3, <2>1, <2>3, <2>4, <2>5
<1>14. ASSUME it \in DOMAIN clients, NEW c \in Clients, c = clients[it],
              \/ PushMessage(c) \/ PushToFullQueue(c)
              \/ StartClientBatch(c) \/ FinishClientBatch(c) \/ ClientDone(c)
       PROVE  OwedInv'
  <2>1. \/ PushMessage(c) /\ todo = <<"publish">> /\ Served
        \/ PushToFullQueue(c) /\ todo = <<"publish">>
        \/ StartClientBatch(c) /\ todo = <<"start">> /\ Served
        \/ FinishClientBatch(c) /\ todo \in EndFirst /\ Served
        \/ ClientDone(c) /\ todo = <<"done">> /\ Served
    BY <1>14, ActCases
  <2>2. Served => \A d : Ahead(d)' <=> Ahead(d) /\ d # c
    BY <1>14, AheadServed
  <2>3. Served => UNCHANGED <<todo, phase, published, since>>
    BY DEF Served
  <2>4. CASE PushMessage(c) /\ todo = <<"publish">> /\ Served
    <3>1. /\ UNCHANGED <<phase, state, todo, published, since, refused>>
          /\ messages' = [messages EXCEPT ![c] = Append(@, published)]
      BY <2>3, <2>4 DEF PushMessage
    <3>2. published \in Message
      BY <1>0, <2>4, PublisherAssumption DEF TypeInv, LogTypes, Message, PublisherAssumption
    <3>3. /\ messages[c] \in Seq(Message) /\ messages'[c] = Append(messages[c], published)
          /\ \A d \in Clients \ {c} : messages'[d] = messages[d]
      BY <1>0, <3>1
    <3>4. /\ Len(messages[c]) + 1 \in DOMAIN messages'[c]
          /\ messages'[c][Len(messages[c]) + 1] = published
          /\ \A i \in DOMAIN messages[c] : i \in DOMAIN messages'[c] /\ messages'[c][i] = messages[c][i]
      <4>1. /\ Len(messages[c]) \in Nat /\ DOMAIN messages[c] = 1 .. Len(messages[c])
            /\ DOMAIN messages'[c] = 1 .. Len(messages[c]) + 1
            /\ \A i \in DOMAIN messages[c] : messages'[c][i] = messages[c][i]
            /\ messages'[c][Len(messages[c]) + 1] = published
        BY <3>2, <3>3, AppendFacts
      <4> QED
        BY <4>1
    <3>5. published \in Delivered(c)' /\ Delivered(c) \subseteq Delivered(c)'
      BY <3>4 DEF Delivered, ToSet
    <3>6. \A d \in Clients \ {c} : Delivered(d) \subseteq Delivered(d)'
      BY <3>3 DEF Delivered, ToSet
    <3>7. \A d \in Clients : Unserved(d) => Unserved(d)' \/ published \in Delivered(d)'
      BY <2>2, <2>4, <3>1, <3>5 DEF Unserved
    <3>8. \A d \in Clients : Consuming(d)' => Consuming(d)
      BY <3>1 DEF Consuming
    <3> QED
      BY <1>2, <3>1, <3>5, <3>6, <3>7, <3>8, OwedKept
  <2>5. CASE PushToFullQueue(c) /\ todo = <<"publish">>
    <3>1. /\ UNCHANGED <<phase, state, published, since, messages>>
          /\ refused' = [refused EXCEPT ![c] = @ \cup {published}]
      BY <2>5 DEF PushToFullQueue, queueVars
    <3>2. /\ published \in refused'[c]
          /\ \A d \in Clients : refused[d] \subseteq refused'[d]
      BY <1>0, <3>1
    <3>3. published \in Failed' /\ Failed \subseteq Failed'
      BY <3>2 DEF Failed
    <3>4. \A d \in Clients : Consuming(d)' => Consuming(d)
      BY <3>1 DEF Consuming
    <3> QED
      BY <1>1, <3>1, <3>3, <3>4, OwedKept
  <2>6. ASSUME Served, UNCHANGED <<messages, refused>>, todo # <<"publish">>,
               \A d \in Clients : state'[d] # "ABORTING" => state[d] # "ABORTING"
        PROVE  OwedInv'
    <3>1. \A d \in Clients : Consuming(d)' => Consuming(d)
      BY <2>3, <2>6 DEF Consuming
    <3>2. \A d \in Clients : ~Unserved(d)
      BY <2>6 DEF Unserved
    <3> QED
      BY <1>1, <1>2, <2>3, <2>6, <3>1, <3>2, OwedKept
  <2>7. CASE StartClientBatch(c) /\ todo = <<"start">> /\ Served
    <3>1. todo # <<"publish">>
      BY <2>7, TodoDistinct, Zenon
    <3> QED
      BY <2>6, <2>7, <3>1 DEF StartClientBatch
  <2>8. CASE FinishClientBatch(c) /\ todo \in EndFirst /\ Served
    <3>1. todo # <<"publish">>
      BY <2>8, TodoDistinct, Zenon DEF EndFirst
    <3> QED
      BY <2>6, <2>8, <3>1 DEF FinishClientBatch
  <2>9. CASE ClientDone(c) /\ todo = <<"done">> /\ Served
    <3>1. todo # <<"publish">>
      BY <2>9, TodoDistinct, Zenon
    <3>2. \A d \in Clients : state'[d] # "ABORTING" => state[d] # "ABORTING"
      <4>1. state' = [state EXCEPT ![c] = IF @ = "CONSUMING" THEN "FINSIHED" ELSE @]
        BY <2>9 DEF ClientDone, ChangeState
      <4> QED
        BY <1>0, <4>1
    <3> QED
      BY <2>6, <2>9, <3>1, <3>2 DEF ClientDone
  <2> QED
    BY <2>1, <2>4, <2>5, <2>7, <2>8, <2>9
<1>15. CASE Leave
  <2>1. UNCHANGED <<phase, state, published, since, refused, messages>>
    BY <1>15 DEF Leave, queueVars, logVars
  <2>2. \A d \in Clients : ~Unserved(d)
    BY <1>15, AheadLeave DEF Unserved
  <2>3. \A d \in Clients : Consuming(d)' => Consuming(d)
    BY <2>1 DEF Consuming
  <2> QED
    BY <1>1, <1>2, <2>1, <2>2, <2>3, OwedKept
<1>16. CASE UNCHANGED vars
  <2>1. UNCHANGED <<clients, pc, it, todo, phase, state, published, since, refused, messages>>
    BY <1>16 DEF vars, listVars, publisherVars, queueVars, logVars
  <2>2. \A d \in Clients : Consuming(d)' => Consuming(d)
    BY <2>1 DEF Consuming
  <2> QED
    BY <1>3, <2>1, <2>2, AheadSame
<1> QED
  BY NextCases, <1>4, <1>5, <1>6, <1>7, <1>8, <1>9, <1>10, <1>11, <1>12, <1>13, <1>14, <1>15,
     <1>16

-----------------------------------------------------------------------------
(* The inductive invariant. *)
IInv ==
  /\ TypeInv /\ CallInv /\ ListInv
  /\ BatchInv /\ DoneInv /\ OrderInv /\ OwedInv

LEMMA IInvInit == Init => IInv
<1> SUFFICES ASSUME Init PROVE IInv
  OBVIOUS
<1> USE DEF Init
<1>1. TypeInv
  <2>1. <<>> \in Seq(Clients) /\ Len(<<>>) = 0 /\ <<>> \in Seq(Message) /\ <<>> \in Todo
    BY DEF Todo
  <2>2. MaxMessages \in Nat /\ Capacity \in Nat
    BY PublisherAssumption DEF PublisherAssumption
  <2>3. ListTypes
    BY <2>1 DEF ListTypes
  <2>4. CallTypes
    <3>1. todo \in Todo
      BY <2>1
    <3>2. it \in Nat \ {0} /\ pc \in {"enter", "examine", "act"}
      OBVIOUS
    <3>3. finished \in BOOLEAN /\ expectDone \subseteq Clients
      OBVIOUS
    <3> QED
      BY <3>1, <3>2, <3>3 DEF CallTypes
  <2>5. OwnerTypes
    BY DEF OwnerTypes
  <2>6. QueueTypes
    BY <2>1, <2>2 DEF QueueTypes
  <2>7. LogTypes
    BY <2>2, TodoDistinct DEF LogTypes
  <2> QED
    BY <2>3, <2>4, <2>5, <2>6, <2>7 DEF TypeInv
<1>2. \A c \in Clients : ~Consuming(c) /\ Fresh(c) /\ c \notin ToSet(clients)
  BY DEF Consuming, Fresh, ToSet
<1>3. \A c \in Clients : messages[c] = <<>> /\ ~batching[c]
  OBVIOUS
<1>4. CallInv
  BY TodoDistinct, Zenon DEF CallInv, EndFirst
<1>5. ListInv
  BY <1>2, <1>3 DEF ListInv, Once
<1>6. BatchInv
  BY <1>2 DEF BatchInv
<1>7. DoneInv /\ OwedInv
  BY <1>2 DEF DoneInv, OwedInv
<1>8. OrderInv
  BY <1>3 DEF OrderInv
<1> QED
  BY <1>1, <1>4, <1>5, <1>6, <1>7, <1>8 DEF IInv

LEMMA IInvStep == IInv /\ [Next]_vars => IInv'
BY TypeStep, CallStep, ListStep, BatchStep, DoneStep, OrderStep, OwedStep DEF IInv

LEMMA IInvCorrect == Spec => []IInv
BY IInvInit, IInvStep, PTL DEF Spec

-----------------------------------------------------------------------------
(* Every variable has its type: no counter of a queue passes what was       *)
(* pushed, and no queue holds more than its capacity (PipePublisher.hpp).   *)
THEOREM TypeCorrect == Spec => []TypeOK
<1>1. IInv => TypeOK
  <2> SUFFICES ASSUME IInv PROVE TypeOK
    OBVIOUS
  <2>1. /\ ListTypes /\ CallTypes /\ OwnerTypes /\ QueueTypes /\ LogTypes
    BY DEF IInv, TypeInv
  <2>2. numClients \in Nat
    BY <2>1 DEF ListTypes
  <2>3. todo \in Seq(Pass)
    BY <2>1, TodoType DEF CallTypes
  <2> QED
    BY <2>1, <2>2, <2>3 DEF TypeOK, ListTypes, CallTypes, OwnerTypes, QueueTypes, LogTypes
<1> QED
  BY <1>1, IInvCorrect, PTL

(* The list and its counter against the owners, whatever order the clients  *)
(* are installed, aborted, dropped and removed in (PipePublisher.hpp:64-92, *)
(* 108-139).                                                                *)
THEOREM ListCorrect == Spec => []ListMatchesOwners
<1>1. IInv => ListMatchesOwners
  BY DEF IInv, TypeInv, ListTypes, ListInv, Once, ListMatchesOwners
<1> QED
  BY <1>1, IInvCorrect, PTL

(* Between two calls a batch is open for every client or for none, and      *)
(* nobody waits for a PushComplete of a batch that is over                  *)
(* (PipePublisher.h:63-71).                                                 *)
THEOREM BatchCorrect == Spec => []BatchIsUniform
<1>1. IInv => BatchIsUniform
  <2> SUFFICES ASSUME IInv, Idle PROVE BatchIsUniform
    BY DEF BatchIsUniform
  <2>1. todo = <<>> /\ locked = currentBatch
    BY DEF Idle, IInv, CallInv
  <2>2. \A c \in ToSet(clients) : c \in Clients
    BY DEF IInv, TypeInv, ListTypes, ToSet
  <2>3. \A c \in ToSet(clients) : batching[c] \in BOOLEAN /\ currentBatch \in BOOLEAN
    BY <2>2 DEF IInv, TypeInv, ListTypes, OwnerTypes
  <2>4. \A c \in ToSet(clients) : batching[c] <=> currentBatch
    BY <2>1, <2>2 DEF IInv, BatchInv
  <2>5. ~currentBatch => \A c \in Clients : Consuming(c) => told[c] = Len(messages[c])
    BY <2>4 DEF IInv, ListInv, BatchInv
  <2> QED
    BY <2>1, <2>3, <2>4, <2>5 DEF BatchIsUniform
<1> QED
  BY <1>1, IInvCorrect, PTL

(* When Done has returned, every client of the list it found is finished,   *)
(* aborted or dropped (PipePublisher.hpp:39-62).                            *)
THEOREM DoneCorrect == Spec => []DoneReachesAll
<1>1. IInv => DoneReachesAll
  <2> SUFFICES ASSUME IInv, finished, Idle,
                      NEW c \in expectDone, Consuming(c), state[c] # "FINSIHED"
               PROVE  FALSE
    BY DEF DoneReachesAll
  <2>1. c \in Clients
    BY DEF IInv, TypeInv, CallTypes
  <2>2. todo \in {<<"done">>, <<"end", "done">>}
    BY <2>1 DEF IInv, DoneInv, Pending
  <2>3. todo = <<>>
    BY DEF Idle
  <2> QED
    BY <2>2, <2>3, TodoDistinct, Zenon
<1> QED
  BY <1>1, IInvCorrect, PTL

(* Every client gets the messages in order, without a duplicate and without *)
(* a gap but for those whose Publish threw (PipePublisher.hpp:64-92).       *)
THEOREM DeliveryCorrect == Spec => []DeliveredInOrder
<1>1. IInv => DeliveredInOrder
  <2> SUFFICES ASSUME IInv, NEW c \in Clients
               PROVE  /\ \A i, k \in DOMAIN messages[c] : i < k => messages[c][i] < messages[c][k]
                      /\ Consuming(c) => Owed(c) \subseteq Delivered(c) \cup Failed
    BY DEF DeliveredInOrder
  <2>1. \A i, k \in DOMAIN messages[c] : i < k => messages[c][i] < messages[c][k]
    BY DEF IInv, OrderInv
  <2>2. ASSUME Consuming(c), NEW m \in Owed(c) PROVE m \in Delivered(c) \cup Failed
    <3>1. published \in Nat /\ since[c] \in Nat
      BY PublisherAssumption DEF IInv, TypeInv, LogTypes, PublisherAssumption
    <3>2. m \in 1 .. published /\ m > since[c] /\ (~Idle /\ pass = "publish" => m # published)
      BY <3>1 DEF Owed
    <3>3. Unserved(c) => ~Idle /\ pass = "publish"
      BY TodoHeads, TodoDistinct, Zenon DEF Unserved, Idle, pass
    <3> QED
      BY <2>2, <3>2, <3>3 DEF IInv, OwedInv
  <2> QED
    BY <2>1, <2>2
<1> QED
  BY <1>1, IInvCorrect, PTL
=============================================================================
