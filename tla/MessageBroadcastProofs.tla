----------------------- MODULE MessageBroadcastProofs -----------------------
(***************************************************************************)
(* Proof that PipePublisher implements MessageBroadcast, for any number of *)
(* subscribers and messages and every capacity.  The invariant of          *)
(* PipePublisherProofs has what the mapping needs, but for one fact: a     *)
(* subscriber that is not installed yet cannot have resigned.              *)
(***************************************************************************)
EXTENDS PipePublisherProofs

-----------------------------------------------------------------------------
(* A subscriber aborts, or is aborted by its destructor, once installed. *)
FreshInv == \A c \in Clients : Fresh(c) => state[c] = "CONSUMING"

LEMMA FreshStep == TypeInv /\ ListInv /\ FreshInv /\ [Next]_vars => FreshInv'
<1> SUFFICES ASSUME TypeInv, ListInv, FreshInv, [Next]_vars,
                    NEW d \in Clients, Fresh(d)', state'[d] # "CONSUMING"
             PROVE  FALSE
  BY DEF FreshInv
<1> USE DEF Fresh
<1>0. /\ state \in [Clients -> {"CONSUMING", "ABORTING", "FINSIHED"}]
      /\ phase \in [Clients -> {"none", "created", "installed", "dropped"}]
      /\ it \in DOMAIN clients => clients[it] \in Clients
  BY DEF TypeInv, OwnerTypes, ListTypes
<1>1. phase'[d] = phase[d] /\ state'[d] = state[d] => FALSE
  BY DEF FreshInv
<1>2. ASSUME NEW c \in Clients, NewClient(c) \/ InstallClient(c) \/ GetNextMessage(c)
      PROVE  FALSE
  <2>1. /\ state' = state
        /\ \/ phase' = phase
           \/ Fresh(c) /\ \E p \in {"created", "installed"} : phase' = [phase EXCEPT ![c] = p]
    BY <1>2 DEF NewClient, InstallClient, GetNextMessage
  <2>2. Fresh(d)
    BY <1>0, <2>1
  <2> QED
    BY <2>1, <2>2 DEF FreshInv
<1>3. ASSUME NEW c \in Clients, phase[c] = "installed", phase'[c] \in {"installed", "dropped"},
             \A e \in Clients \ {c} : phase'[e] = phase[e] /\ state'[e] = state[e]
      PROVE  FALSE
  BY <1>1, <1>3
<1>4. ASSUME NEW c \in Clients, Abort(c) \/ DropClient(c) PROVE FALSE
  <2>1. /\ phase[c] = "installed"
        /\ phase' \in {phase, [phase EXCEPT ![c] = "dropped"]}
        /\ state' = state \/ \E s : state' = [state EXCEPT ![c] = s]
    BY <1>4 DEF Abort, DropClient, DestroyClient, ChangeState
  <2> QED
    BY <1>0, <1>3, <2>1
<1>5. ASSUME NEW c \in Clients, c \in ToSet(clients), phase' = phase,
             \A e \in Clients \ {c} : state'[e] = state[e]
      PROVE  FALSE
  <2>1. ~Fresh(c)
    BY <1>5 DEF ListInv
  <2> QED
    BY <1>1, <1>5, <2>1
<1>6. ASSUME RemoveClient \/ (it \in DOMAIN clients /\ ClientDone(clients[it])) PROVE FALSE
  <2>1. it \in DOMAIN clients /\ phase' = phase
    BY <1>6 DEF RemoveClient, ClientDone, Served
  <2>2. state' = state \/ \E s : state' = [state EXCEPT ![clients[it]] = s]
    BY <1>6 DEF RemoveClient, ClientDone, DestroyClient, ChangeState
  <2>3. clients[it] \in Clients /\ clients[it] \in ToSet(clients)
    BY <1>0, <2>1 DEF ToSet
  <2> QED
    BY <1>0, <1>5, <2>1, <2>2, <2>3
<1>7. ASSUME \/ Publish \/ StartBatch \/ EndBatch \/ Done \/ Enter \/ Examine \/ Leave
             \/ UNCHANGED vars
      PROVE  FALSE
  BY <1>1, <1>7 DEF Publish, StartBatch, EndBatch, Done, Call, Enter, Examine, Leave, vars
<1>8. ASSUME \/ PushMessage(clients[it]) \/ PushToFullQueue(clients[it])
             \/ StartClientBatch(clients[it]) \/ FinishClientBatch(clients[it])
      PROVE  FALSE
  BY <1>1, <1>8 DEF PushMessage, PushToFullQueue, StartClientBatch, FinishClientBatch, Served
<1> QED
  BY NextCases, <1>2, <1>4, <1>6, <1>7, <1>8

-----------------------------------------------------------------------------
(* The steps of the abstract broadcast, in the publisher's terms. *)
LEMMA AbstractStutter ==
  ASSUME UNCHANGED <<Posted, ToSet(clients), Resigned, InFlight, messages>>
  PROVE  UNCHANGED Broadcast!broadcastVars
BY DEF Broadcast!broadcastVars

LEMMA AbstractJoin ==
  ASSUME NEW c \in Clients, InFlight = {},
         c \notin ToSet(clients), c \notin Resigned, messages[c] = <<>>,
         ToSet(clients)' = ToSet(clients) \cup {c},
         UNCHANGED <<Posted, Resigned, InFlight, messages>>
  PROVE  Broadcast!BroadcastNext
BY DEF Broadcast!BroadcastNext, Broadcast!Join

LEMMA AbstractResign ==
  ASSUME NEW c \in Clients, c \in ToSet(clients),
         Resigned' = Resigned \cup {c},
         UNCHANGED <<Posted, ToSet(clients), InFlight, messages>>
  PROVE  Broadcast!BroadcastNext
BY DEF Broadcast!BroadcastNext, Broadcast!Resign

LEMMA AbstractLetGo ==
  ASSUME NEW c \in Clients, c \in ToSet(clients) \cap Resigned,
         ToSet(clients)' = ToSet(clients) \ {c}, InFlight' = InFlight \ {c},
         UNCHANGED <<Posted, Resigned, messages>>
  PROVE  Broadcast!BroadcastNext
BY DEF Broadcast!BroadcastNext, Broadcast!LetGo

LEMMA AbstractPost ==
  ASSUME InFlight = {}, Posted' = Posted + 1, InFlight' = ToSet(clients),
         UNCHANGED <<ToSet(clients), Resigned, messages>>
  PROVE  Broadcast!BroadcastNext
BY DEF Broadcast!BroadcastNext, Broadcast!Post

LEMMA AbstractGive ==
  ASSUME NEW c \in Clients, c \in InFlight,
         messages' = [messages EXCEPT ![c] = Append(@, Posted)],
         InFlight' = InFlight \ {c},
         UNCHANGED <<Posted, ToSet(clients), Resigned>>
  PROVE  Broadcast!BroadcastNext
BY DEF Broadcast!BroadcastNext, Broadcast!Give

LEMMA AbstractAbandon ==
  ASSUME InFlight # {}, InFlight' = {},
         UNCHANGED <<Posted, ToSet(clients), Resigned, messages>>
  PROVE  Broadcast!BroadcastNext
BY DEF Broadcast!BroadcastNext, Broadcast!Abandon

-----------------------------------------------------------------------------
(* What the mapping sees of a state. *)
LEMMA InFlightIs ==
  InFlight = {c \in Clients : Publishing /\ pc # "enter" /\ Ahead(c)}
BY DEF InFlight, Ahead

LEMMA NotInFlight == pc = "enter" \/ ~Publishing => InFlight = {}
BY DEF InFlight

LEMMA InFlightSame ==
  ASSUME UNCHANGED <<Publishing, pc, clients, it>>
  PROVE  UNCHANGED InFlight
BY DEF InFlight

LEMMA PostedSame ==
  ASSUME published' = published, Publishing' <=> Publishing, pc' = "enter" <=> pc = "enter"
  PROVE  Posted' = Posted
BY DEF Posted

LEMMA ResignedSame ==
  ASSUME phase' = phase, \A c \in Clients : state'[c] = "ABORTING" <=> state[c] = "ABORTING"
  PROVE  Resigned' = Resigned
BY DEF Resigned, Aborting

LEMMA ToSetSame == clients' = clients => ToSet(clients)' = ToSet(clients)
OBVIOUS

-----------------------------------------------------------------------------
(* Every step of the publisher and of the owners is a step of the abstract   *)
(* broadcast, or changes nothing it sees.                                    *)
MapInv == TypeInv /\ CallInv /\ ListInv /\ FreshInv

LEMMA MapTypes ==
  ASSUME MapInv
  PROVE  /\ clients \in Seq(Clients) /\ ToSet(clients) \subseteq Clients
         /\ it \in DOMAIN clients => clients[it] \in ToSet(clients)
         /\ published \in Nat /\ todo \in Todo
         /\ state \in [Clients -> {"CONSUMING", "ABORTING", "FINSIHED"}]
         /\ phase \in [Clients -> {"none", "created", "installed", "dropped"}]
         /\ messages \in [Clients -> Seq(Message)]
<1>1. published \in Nat
  BY PublisherAssumption DEF MapInv, TypeInv, LogTypes, PublisherAssumption
<1>2. clients \in Seq(Clients)
  BY DEF MapInv, TypeInv, ListTypes
<1>3. ToSet(clients) \subseteq Clients /\ (it \in DOMAIN clients => clients[it] \in ToSet(clients))
  BY <1>2 DEF ToSet
<1> QED
  BY <1>1, <1>2, <1>3 DEF MapInv, TypeInv, CallTypes, OwnerTypes, QueueTypes

LEMMA OwnerStep ==
  ASSUME MapInv, NEW c \in Clients,
         \/ NewClient(c) \/ InstallClient(c) \/ GetNextMessage(c)
         \/ Abort(c) \/ DropClient(c)
  PROVE  [Broadcast!BroadcastNext]_(Broadcast!broadcastVars)
<1>0. /\ clients \in Seq(Clients) /\ ToSet(clients) \subseteq Clients
      /\ state \in [Clients -> {"CONSUMING", "ABORTING", "FINSIHED"}]
      /\ phase \in [Clients -> {"none", "created", "installed", "dropped"}]
  BY MapTypes
<1>1. UNCHANGED <<todo, pc, it, published, messages>>
  BY DEF NewClient, InstallClient, GetNextMessage, Abort, DropClient, publisherVars, queueVars,
         logVars
<1>2. Posted' = Posted
  BY <1>1, PostedSame DEF Publishing
<1>3. clients' = clients => UNCHANGED <<ToSet(clients), InFlight>>
  BY <1>1, InFlightSame, ToSetSame DEF Publishing
<1>4. ASSUME clients' = clients, phase' = phase \/ NewClient(c), state' = state
      PROVE  UNCHANGED Broadcast!broadcastVars
  <2>1. \A d \in Clients : phase'[d] = "dropped" <=> phase[d] = "dropped"
    BY <1>0, <1>4 DEF NewClient
  <2>2. Resigned' = Resigned
    BY <1>4, <2>1 DEF Resigned, Aborting
  <2> QED
    BY <1>1, <1>2, <1>3, <1>4, <2>2, AbstractStutter
<1>5. CASE NewClient(c) \/ GetNextMessage(c)
  <2>1. clients' = clients /\ (phase' = phase \/ NewClient(c)) /\ state' = state
    BY <1>5 DEF NewClient, GetNextMessage, listVars
  <2> QED
    BY <1>4, <2>1
<1>6. CASE InstallClient(c)
  <2>1. /\ phase[c] = "created" /\ clients' = Append(clients, c) /\ ~locked
        /\ phase' = [phase EXCEPT ![c] = "installed"] /\ state' = state
    BY <1>6 DEF InstallClient
  <2>2. pc = "enter" /\ pc' = "enter"
    BY <1>1, <2>1 DEF MapInv, CallInv
  <2>3. InFlight = {} /\ InFlight' = {}
    BY <2>2 DEF InFlight
  <2>4. Fresh(c)
    BY <2>1 DEF Fresh
  <2>5. c \notin ToSet(clients) /\ messages[c] = <<>> /\ state[c] = "CONSUMING"
    BY <2>4 DEF MapInv, ListInv, FreshInv
  <2>6. c \notin Resigned
    BY <2>1, <2>5 DEF Resigned, Aborting
  <2>7. ToSet(clients') = ToSet(clients) \cup {c}
    BY <1>0, <2>1, <2>5, OnceAppend DEF MapInv, ListInv
  <2>8. Resigned' = Resigned
    <3>1. \A d \in Clients : phase'[d] = "dropped" <=> phase[d] = "dropped"
      BY <1>0, <2>1
    <3> QED
      BY <2>1, <3>1 DEF Resigned, Aborting
  <2> QED
    BY <1>1, <1>2, <2>3, <2>5, <2>6, <2>7, <2>8, AbstractJoin
<1>7. CASE Abort(c)
  <2>1. /\ phase[c] = "installed" /\ state[c] = "CONSUMING"
        /\ state' = [state EXCEPT ![c] = "ABORTING"] /\ phase' = phase /\ clients' = clients
    BY <1>0, <1>7 DEF Abort, ChangeState, listVars
  <2>2. Consuming(c)
    BY <2>1 DEF Consuming
  <2>3. c \in ToSet(clients)
    BY <2>2 DEF MapInv, ListInv
  <2>4. \A d \in Clients : state'[d] = "ABORTING" <=> state[d] = "ABORTING" \/ d = c
    BY <1>0, <2>1
  <2>5. Resigned' = Resigned \cup {c}
    BY <2>1, <2>4 DEF Resigned, Aborting
  <2> QED
    BY <1>1, <1>2, <1>3, <2>1, <2>3, <2>5, AbstractResign
<1>8. CASE DropClient(c)
  <2>1. /\ phase[c] = "installed" /\ phase' = [phase EXCEPT ![c] = "dropped"]
        /\ clients' = clients
        /\ c \in ToSet(clients) => state' = state
        /\ c \notin ToSet(clients) =>
             state' = [state EXCEPT ![c] = IF @ = "CONSUMING" THEN "ABORTING" ELSE @]
    BY <1>8 DEF DropClient, DestroyClient, ChangeState, listVars
  <2>2. \A d \in Clients : phase'[d] = "dropped" <=> phase[d] = "dropped" \/ d = c
    BY <1>0, <2>1
  <2>3. CASE c \in ToSet(clients)
    <3>1. Resigned' = Resigned \cup {c}
      BY <2>1, <2>2, <2>3 DEF Resigned, Aborting
    <3> QED
      BY <1>1, <1>2, <1>3, <2>1, <2>3, <3>1, AbstractResign
  <2>4. CASE c \notin ToSet(clients)
    <3>1. state[c] = "ABORTING"
      BY <2>1, <2>4 DEF MapInv, ListInv, Consuming
    <3>2. \A d \in Clients : state'[d] = state[d]
      BY <1>0, <2>1, <2>4, <3>1
    <3>3. Resigned' = Resigned
      BY <2>2, <3>1, <3>2 DEF Resigned, Aborting
    <3> QED
      BY <1>1, <1>2, <1>3, <2>1, <3>3, AbstractStutter
  <2> QED
    BY <2>3, <2>4
<1> QED
  BY <1>5, <1>6, <1>7, <1>8

LEMMA CallStepsBroadcast ==
  ASSUME MapInv, Publish \/ StartBatch \/ EndBatch \/ Done
  PROVE  [Broadcast!BroadcastNext]_(Broadcast!broadcastVars)
<1>0. /\ todo = <<>> /\ pc' = "enter"
      /\ UNCHANGED <<clients, phase, state, messages>>
      /\ Publish => todo' = IF currentBatch \/ numClients > 0 THEN <<"publish">> ELSE <<>>
      /\ StartBatch => todo' = IF currentBatch THEN <<"end", "start">> ELSE <<"start">>
      /\ EndBatch => todo' = <<"end">>
      /\ Done => todo' = IF currentBatch THEN <<"end", "done">> ELSE <<"done">>
  BY CallFacts DEF MapInv, TypeInv, listVars, queueVars
<1>1. ~Publishing /\ Posted = published /\ InFlight = {} /\ InFlight' = {}
  <2>1. ~Publishing
    BY <1>0, TodoDistinct, Zenon DEF Publishing
  <2> QED
    BY <1>0, <2>1 DEF Posted, InFlight
<1>2. UNCHANGED <<ToSet(clients), Resigned, messages>>
  BY <1>0, ResignedSame, ToSetSame
<1>3. CASE Publish
  <2>1. published' = published + 1 /\ published \in Nat
    BY <1>3, MapTypes DEF Publish
  <2>2. CASE ~(currentBatch \/ numClients > 0)
    <3>1. ~Publishing'
      BY <1>0, <1>3, <2>2, TodoDistinct, Zenon DEF Publishing
    <3>2. Posted' = Posted + 1
      BY <1>1, <2>1, <3>1 DEF Posted
    <3>3. ToSet(clients) = {}
      BY <2>2 DEF MapInv, TypeInv, ListTypes, ToSet
    <3> QED
      BY <1>1, <1>2, <3>2, <3>3, AbstractPost
  <2>3. CASE currentBatch \/ numClients > 0
    <3>1. Publishing'
      BY <1>0, <1>3, <2>3 DEF Publishing
    <3>2. Posted' = Posted
      BY <1>0, <1>1, <2>1, <3>1 DEF Posted
    <3> QED
      BY <1>1, <1>2, <3>2, AbstractStutter
  <2> QED
    BY <2>2, <2>3
<1>4. CASE StartBatch \/ EndBatch \/ Done
  <2>1. ~Publishing'
    BY <1>0, <1>4, TodoDistinct, Zenon DEF Publishing
  <2>2. published' = published
    BY <1>4 DEF StartBatch, EndBatch, Done
  <2>3. Posted' = Posted
    BY <1>1, <2>1, <2>2 DEF Posted
  <2> QED
    BY <1>1, <1>2, <2>3, AbstractStutter
<1> QED
  BY <1>3, <1>4

LEMMA PassStep ==
  ASSUME MapInv, Enter \/ Examine \/ Leave
  PROVE  [Broadcast!BroadcastNext]_(Broadcast!broadcastVars)
<1>0. /\ UNCHANGED <<clients, phase, state, messages, published>>
      /\ published \in Nat /\ ToSet(clients) \subseteq Clients
  BY MapTypes DEF Enter, Examine, Leave, listVars, queueVars, logVars
<1>1. UNCHANGED <<ToSet(clients), Resigned, messages>>
  BY <1>0, ResignedSame, ToSetSame
<1>2. CASE Enter
  <2>1. pc = "enter" /\ pc' = "examine" /\ todo' = todo
    BY <1>2 DEF Enter
  <2>2. InFlight = {} /\ (Publishing' <=> Publishing)
    BY <2>1 DEF InFlight, Publishing
  <2>3. CASE Publishing
    <3>1. Posted' = Posted + 1
      BY <1>0, <2>1, <2>2, <2>3 DEF Posted
    <3>2. \A c \in Clients : Ahead(c)' <=> c \in ToSet(clients)
      <4>1. \A c \in Clients : c \in ToSet(clients) => Ahead(c)'
        BY <1>2, AheadEnter DEF MapInv
      <4>2. \A c \in Clients : Ahead(c)' => c \in ToSet(clients)
        BY <1>0, <2>1 DEF Ahead, ToSet
      <4> QED
        BY <4>1, <4>2
    <3>3. InFlight' = {c \in Clients : Publishing' /\ pc' # "enter" /\ Ahead(c)'}
      BY DEF InFlight, Ahead
    <3>4. InFlight' = ToSet(clients)
      BY <1>0, <2>1, <2>2, <2>3, <3>2, <3>3
    <3> QED
      BY <1>1, <2>2, <3>1, <3>4, AbstractPost
  <2>4. CASE ~Publishing
    <3>1. InFlight' = {} /\ Posted' = Posted
      BY <1>0, <2>2, <2>4 DEF InFlight, Posted
    <3> QED
      BY <1>1, <2>2, <3>1, AbstractStutter
  <2> QED
    BY <2>3, <2>4
<1>3. CASE Examine
  <2>1. pc = "examine" /\ pc' = "act" /\ UNCHANGED <<todo, it>>
    BY <1>3 DEF Examine
  <2>2. UNCHANGED <<InFlight, Posted>>
    BY <1>0, <2>1 DEF InFlight, Posted, Publishing
  <2> QED
    BY <1>1, <2>2, AbstractStutter
<1>4. CASE Leave
  <2>1. pc = "examine" /\ pc' = "enter" /\ todo' = Tail(todo) /\ todo # <<>>
    BY <1>4 DEF Leave, Idle
  <2>2. ~Publishing'
    BY <2>1, MapTypes, TodoCases, TodoDistinct, Zenon DEF Publishing
  <2>3. \A c \in Clients : ~Ahead(c)
    BY <1>4, AheadLeave DEF MapInv
  <2>4. InFlight = {} /\ InFlight' = {}
    BY <2>1, <2>3, InFlightIs DEF InFlight
  <2>5. Posted' = Posted
    BY <1>0, <2>1, <2>2 DEF Posted
  <2> QED
    BY <1>1, <2>4, <2>5, AbstractStutter
<1> QED
  BY <1>2, <1>3, <1>4

LEMMA RemoveStep ==
  ASSUME MapInv, RemoveClient
  PROVE  [Broadcast!BroadcastNext]_(Broadcast!broadcastVars)
<1> DEFINE c == clients[it]
<1>0. /\ c \in ToSet(clients) /\ c \in Clients /\ it \in DOMAIN clients
      /\ clients \in Seq(Clients)
      /\ state \in [Clients -> {"CONSUMING", "ABORTING", "FINSIHED"}]
  BY MapTypes DEF RemoveClient
<1>1. /\ UNCHANGED <<phase, todo, pc, published, messages>>
      /\ clients' = RemoveAt(clients, it)
      /\ Aborting(c) \/ Unique(c)
      /\ state' = state \/
           (Unique(c) /\ state' = [state EXCEPT ![c] = IF @ = "CONSUMING" THEN "ABORTING" ELSE @])
  BY DEF RemoveClient, DestroyClient, ChangeState, publisherVars, logVars
<1>2. \A d : Ahead(d)' <=> Ahead(d) /\ d # c
  BY AheadRemove DEF MapInv
<1> HIDE DEF c
<1>3. c \in Resigned
  BY <1>0, <1>1 DEF Resigned, Unique
<1>4. ToSet(clients)' = ToSet(clients) \ {c}
  BY <1>0, <1>1, OnceRemove DEF MapInv, ListInv, c
<1>5. InFlight' = InFlight \ {c}
  <2>1. InFlight = {d \in Clients : Publishing /\ pc # "enter" /\ Ahead(d)}
    BY InFlightIs
  <2>2. InFlight' = {d \in Clients : Publishing' /\ pc' # "enter" /\ Ahead(d)'}
    BY DEF InFlight, Ahead
  <2>3. (Publishing' <=> Publishing) /\ pc' = pc
    BY <1>1 DEF Publishing
  <2> QED
    BY <1>2, <2>1, <2>2, <2>3
<1>6. Posted' = Posted
  BY <1>1 DEF Posted, Publishing
<1>7. Resigned' = Resigned
  <2>1. \A d \in Clients : d # c \/ ~Unique(c) => state'[d] = state[d]
    BY <1>0, <1>1
  <2>2. \A d \in Clients : (phase'[d] = "dropped" \/ state'[d] = "ABORTING")
                          <=> (phase[d] = "dropped" \/ state[d] = "ABORTING")
    BY <1>1, <2>1 DEF Unique
  <2> QED
    BY <2>2 DEF Resigned, Aborting
<1> QED
  BY <1>0, <1>1, <1>3, <1>4, <1>5, <1>6, <1>7, AbstractLetGo

LEMMA ActStep ==
  ASSUME MapInv, pc = "act", it \in DOMAIN clients, NEW c \in Clients, c = clients[it],
         \/ PushMessage(c) \/ PushToFullQueue(c)
         \/ StartClientBatch(c) \/ FinishClientBatch(c) \/ ClientDone(c)
  PROVE  [Broadcast!BroadcastNext]_(Broadcast!broadcastVars)
<1>0. state \in [Clients -> {"CONSUMING", "ABORTING", "FINSIHED"}]
  BY MapTypes
<1>1. \/ PushMessage(c) /\ todo = <<"publish">> /\ Served
      \/ PushToFullQueue(c) /\ todo = <<"publish">>
      \/ StartClientBatch(c) /\ todo = <<"start">> /\ Served
      \/ FinishClientBatch(c) /\ todo \in EndFirst /\ Served
      \/ ClientDone(c) /\ todo = <<"done">> /\ Served
  BY ActCases DEF MapInv
<1>2. Ahead(c)
  <2>1. it >= it
    BY DEF MapInv, TypeInv, CallTypes
  <2> QED
    BY <2>1 DEF Ahead
<1>3. ASSUME Served
      PROVE  /\ UNCHANGED <<clients, todo, phase, published>> /\ pc' = "examine"
             /\ \A d : Ahead(d)' <=> Ahead(d) /\ d # c
             /\ UNCHANGED <<ToSet(clients), Posted>>
  <2>1. UNCHANGED <<clients, todo, phase, published>> /\ pc' = "examine"
    BY <1>3 DEF Served, listVars
  <2>2. \A d : Ahead(d)' <=> Ahead(d) /\ d # c
    BY <1>3, AheadServed DEF MapInv
  <2>3. Posted' = Posted
    BY <2>1 DEF Posted, Publishing
  <2> QED
    BY <2>1, <2>2, <2>3, ToSetSame
<1>4. CASE PushMessage(c) /\ todo = <<"publish">> /\ Served
  <2>1. Publishing /\ Publishing'
    BY <1>3, <1>4 DEF Publishing
  <2>2. c \in InFlight
    BY <1>2, <2>1, InFlightIs
  <2>3. InFlight' = InFlight \ {c}
    <3>1. InFlight' = {d \in Clients : Publishing' /\ pc' # "enter" /\ Ahead(d)'}
      BY DEF InFlight, Ahead
    <3> QED
      BY <1>3, <1>4, <2>1, <3>1, InFlightIs
  <2>4. Posted = published
    BY DEF Posted
  <2>5. messages' = [messages EXCEPT ![c] = Append(@, Posted)] /\ state' = state
    BY <1>4, <2>4 DEF PushMessage
  <2>6. Resigned' = Resigned
    BY <1>3, <1>4, <2>5, ResignedSame
  <2> QED
    BY <1>3, <1>4, <2>2, <2>3, <2>5, <2>6, AbstractGive
<1>5. CASE PushToFullQueue(c) /\ todo = <<"publish">>
  <2>1. /\ UNCHANGED <<clients, phase, state, messages, published>>
        /\ todo' = <<>> /\ pc' = "enter"
    BY <1>5 DEF PushToFullQueue, queueVars
  <2>2. InFlight # {} /\ InFlight' = {}
    BY <1>2, <1>5, <2>1, InFlightIs DEF InFlight, Publishing
  <2>3. ~Publishing'
    BY <2>1, TodoDistinct, Zenon DEF Publishing
  <2>4. Posted' = Posted
    BY <2>1, <2>3 DEF Posted
  <2>5. Resigned' = Resigned /\ ToSet(clients)' = ToSet(clients)
    BY <2>1, ResignedSame, ToSetSame
  <2> QED
    BY <2>1, <2>2, <2>4, <2>5, AbstractAbandon
<1>6. ASSUME Served, todo # <<"publish">>, messages' = messages,
             \A d \in Clients : state'[d] = "ABORTING" <=> state[d] = "ABORTING"
      PROVE  UNCHANGED Broadcast!broadcastVars
  <2>1. InFlight = {} /\ InFlight' = {}
    BY <1>3, <1>6 DEF InFlight, Publishing
  <2>2. Resigned' = Resigned
    BY <1>3, <1>6, ResignedSame
  <2> QED
    BY <1>3, <1>6, <2>1, <2>2, AbstractStutter
<1>7. CASE StartClientBatch(c) /\ todo = <<"start">> /\ Served
  <2>1. todo # <<"publish">>
    BY <1>7, TodoDistinct, Zenon
  <2> QED
    BY <1>6, <1>7, <2>1 DEF StartClientBatch
<1>8. CASE FinishClientBatch(c) /\ todo \in EndFirst /\ Served
  <2>1. todo # <<"publish">>
    BY <1>8, TodoDistinct, Zenon DEF EndFirst
  <2> QED
    BY <1>6, <1>8, <2>1 DEF FinishClientBatch
<1>9. CASE ClientDone(c) /\ todo = <<"done">> /\ Served
  <2>1. todo # <<"publish">>
    BY <1>9, TodoDistinct, Zenon
  <2>2. /\ state' = [state EXCEPT ![c] = IF @ = "CONSUMING" THEN "FINSIHED" ELSE @]
        /\ messages' = messages
    BY <1>9 DEF ClientDone, ChangeState
  <2>3. \A d \in Clients : state'[d] = "ABORTING" <=> state[d] = "ABORTING"
    BY <1>0, <2>2
  <2> QED
    BY <1>6, <1>9, <2>1, <2>2, <2>3
<1> QED
  BY <1>1, <1>4, <1>5, <1>7, <1>8, <1>9

LEMMA BroadcastStep ==
  ASSUME MapInv, [Next]_vars
  PROVE  [Broadcast!BroadcastNext]_(Broadcast!broadcastVars)
<1>1. CASE UNCHANGED vars
  <2>1. UNCHANGED <<clients, todo, pc, it, phase, state, published, messages>>
    BY <1>1 DEF vars, listVars, publisherVars, queueVars, logVars
  <2>2. UNCHANGED <<ToSet(clients), Resigned, InFlight, Posted>>
    BY <2>1 DEF Resigned, Aborting, InFlight, Posted, Publishing
  <2> QED
    BY <2>1, <2>2, AbstractStutter
<1>2. it \in DOMAIN clients => clients[it] \in Clients
  BY MapTypes
<1> QED
  BY <1>1, <1>2, NextCases, OwnerStep, CallStepsBroadcast, PassStep, RemoveStep, ActStep

-----------------------------------------------------------------------------
(* The publisher implements the broadcast: whoever subscribes is given each *)
(* message that sets out after that, once and in order, until he resigns or *)
(* the message is abandoned, whatever the others, the batches and the       *)
(* removals during a pass do (PipePublisher.hpp:64-92, 108-139).            *)
THEOREM PublisherImplementsBroadcast == Spec => ImplementsBroadcast
<1>1. Init => Broadcast!BroadcastInit /\ FreshInv
  <2> SUFFICES ASSUME Init PROVE Broadcast!BroadcastInit /\ FreshInv
    OBVIOUS
  <2>1. ~Publishing
    BY TodoDistinct, Zenon DEF Init, Publishing
  <2>2. Posted = 0 /\ InFlight = {} /\ Resigned = {} /\ ToSet(clients) = {}
    BY <2>1 DEF Init, Posted, InFlight, Resigned, Aborting, ToSet
  <2>3. messages = [c \in Clients |-> <<>>] /\ FreshInv
    BY DEF Init, FreshInv
  <2> QED
    BY <2>2, <2>3 DEF Broadcast!BroadcastInit
<1>2. IInv /\ FreshInv /\ [Next]_vars =>
        FreshInv' /\ [Broadcast!BroadcastNext]_(Broadcast!broadcastVars)
  BY FreshStep, BroadcastStep DEF IInv, MapInv
<1> QED
  BY <1>1, <1>2, IInvCorrect, PTL DEF Spec, ImplementsBroadcast, Broadcast!BroadcastSpec
=============================================================================
