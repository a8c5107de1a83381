---------------------------- MODULE PipePublisher ----------------------------
(***************************************************************************)
(* A PipePublisher with its subscribers: one publishing thread, and for    *)
(* each subscriber the thread that owns it, which may install, read, abort *)
(* and drop it at any time.                                                *)
(*                                                                         *)
(* A call of the publisher is a sequence of passes over the client list,   *)
(* each under subscriptionMutex.  A pass looks at a client in one step and *)
(* acts on it in the next: an owner may abort or drop it in between.       *)
(* InstallClient holds the mutex for one critical section, which is one    *)
(* step; only the publisher keeps it over several, and over a whole batch. *)
(*                                                                         *)
(* Messages are numbered in the order of the Publish calls.  Of a          *)
(* subscriber only its queue and what PushComplete was called for is kept: *)
(* module PipeSubscriber has the rest.                                     *)
(***************************************************************************)
EXTENDS Naturals, Sequences, SequencesExt

CONSTANTS
  Clients,      \* the subscribers that may ever be created
  MaxMessages,  \* bound on the messages ever published
  Capacity,     \* maxSize of each subscriber's queue
  ClientOps     \* optional operations of the owners in use

ASSUME PublisherAssumption ==
  /\ MaxMessages \in Nat /\ Capacity \in Nat
  /\ ClientOps \subseteq {"read", "abort", "drop"}

Message == 1 .. MaxMessages
Pass == {"publish", "start", "end", "done"}

VARIABLES
  clients,       \* the client list, in order
  numClients,    \* atomic<size_t>
  locked,        \* does the publisher hold subscriptionMutex?
  currentBatch,  \* is there one?
  todo,          \* passes the publisher's call still has to make
  pc,            \* where the publisher is in the first of them
  it,            \* its iterator
  phase,         \* how far each owner is with its subscriber
  state,         \* IPipeConsumer::state of each subscriber
  batching,      \* its flag
  messages,      \* everything pushed to its queue, oldest first
  popped,        \* how many of them were popped
  told,          \* how many of them PushComplete was called for
  published,     \* history: number of Publish calls
  since,         \* history: value of published when it was installed
  refused,       \* history: the messages its full queue refused
  finished,      \* history: has Done been called?
  expectDone     \* history: the clients installed when it was

publisherVars == <<currentBatch, todo, pc, it>>
listVars == <<clients, numClients, locked>>
queueVars == <<messages, popped, told>>
logVars == <<published, since, refused, finished, expectDone>>
vars == <<listVars, publisherVars, phase, state, batching, queueVars, logVars>>

-----------------------------------------------------------------------------
(* The publisher's reference is the last one: shared_ptr::unique. *)
Unique(c) == phase[c] = "dropped"
Aborting(c) == state[c] = "ABORTING"

(* IPipeConsumer::ChangeState: only a consuming subscriber changes. *)
ChangeState(c, to) ==
  state' = [state EXCEPT ![c] = IF @ = "CONSUMING" THEN to ELSE @]

(* PushComplete: module PipeSubscriber has what it does with the hook. *)
PushComplete(c) == told' = [told EXCEPT ![c] = Len(messages'[c])]

(* PipeSubscriber::EndBatch. *)
EndClientBatch(c) ==
  /\ batching' = [batching EXCEPT ![c] = FALSE]
  /\ IF batching[c] THEN PushComplete(c) ELSE UNCHANGED told

(* ~PipeSubscriber, on the thread that drops the last reference. *)
DestroyClient(c) == ChangeState(c, "ABORTING") /\ EndClientBatch(c)

-----------------------------------------------------------------------------
(* The owners. *)

(* NewClient constructs the subscriber and then installs it. *)
NewClient(c) ==
  /\ phase[c] = "none"
  /\ phase' = [phase EXCEPT ![c] = "created"]
  /\ UNCHANGED <<listVars, publisherVars, state, batching, queueVars, logVars>>

(* Mutant: InstallClient does not take the lock. *)
MutInstallUnlocked(c) ==
  /\ phase[c] = "created"
  /\ phase' = [phase EXCEPT ![c] = "installed"]
  /\ clients' = Append(clients, c)
  /\ numClients' = numClients + 1
  /\ since' = [since EXCEPT ![c] = published]
  /\ UNCHANGED <<locked, publisherVars, state, batching, queueVars,
                 published, refused, finished, expectDone>>

InstallClient(c) ==
  /\ phase[c] = "created"
  /\ ~locked
  /\ phase' = [phase EXCEPT ![c] = "installed"]
  /\ clients' = Append(clients, c)
  /\ numClients' = numClients + 1
  /\ since' = [since EXCEPT ![c] = published]
  /\ UNCHANGED <<locked, publisherVars, state, batching, queueVars,
                 published, refused, finished, expectDone>>

GetNextMessage(c) ==
  /\ "read" \in ClientOps
  /\ phase[c] = "installed"
  /\ popped[c] < Len(messages[c])
  /\ popped' = [popped EXCEPT ![c] = @ + 1]
  /\ UNCHANGED <<listVars, publisherVars, phase, state, batching, messages, told, logVars>>

Abort(c) ==
  /\ "abort" \in ClientOps
  /\ phase[c] = "installed"
  /\ state[c] = "CONSUMING"
  /\ ChangeState(c, "ABORTING")
  /\ UNCHANGED <<listVars, publisherVars, phase, batching, queueVars, logVars>>

(* The owner releases its reference, the last one if the publisher has     *)
(* removed the client already.                                             *)
DropClient(c) ==
  /\ "drop" \in ClientOps
  /\ phase[c] = "installed"
  /\ phase' = [phase EXCEPT ![c] = "dropped"]
  /\ UNCHANGED <<messages, popped>>
  /\ IF c \in ToSet(clients)
     THEN UNCHANGED <<state, batching, told>>
     ELSE DestroyClient(c)
  /\ UNCHANGED <<listVars, publisherVars, logVars>>

-----------------------------------------------------------------------------
(* The calls of the publisher: which passes they make. *)

Idle == todo = <<>>

(* The current batch is ended first, if there is one. *)
EndCurrent == IF currentBatch THEN <<"end">> ELSE <<>>

Call(passes) ==
  /\ Idle
  /\ todo' = passes
  /\ pc' = "enter"
  /\ UNCHANGED <<listVars, currentBatch, it, phase, state, batching, queueVars,
                 since, refused>>

(* Mutant: the shortcut for a publisher nobody listens to is off by one. *)
MutPublish ==
  /\ ~finished /\ published < MaxMessages
  /\ published' = published + 1
  /\ Call(IF currentBatch \/ numClients > 1 THEN <<"publish">> ELSE <<>>)
  /\ UNCHANGED <<finished, expectDone>>

(* Without a batch, numClients is looked at before the lock is taken.      *)
(* Nothing is published after Done.                                        *)
Publish ==
  /\ ~finished /\ published < MaxMessages
  /\ published' = published + 1
  /\ Call(IF currentBatch \/ numClients > 0 THEN <<"publish">> ELSE <<>>)
  /\ UNCHANGED <<finished, expectDone>>

(* Mutant: the old batch is not ended before the new one is allocated. *)
MutStartBatch ==
  /\ ~finished
  /\ Call(<<"start">>)
  /\ UNCHANGED <<published, finished, expectDone>>

StartBatch ==
  /\ ~finished
  /\ Call(EndCurrent \o <<"start">>)
  /\ UNCHANGED <<published, finished, expectDone>>

EndBatch ==
  /\ currentBatch
  /\ Call(EndCurrent)
  /\ UNCHANGED <<published, finished, expectDone>>

Done ==
  /\ Call(EndCurrent \o <<"done">>)
  /\ finished' = TRUE
  /\ expectDone' = ToSet(clients)
  /\ UNCHANGED published

-----------------------------------------------------------------------------
(* A pass. *)

pass == Head(todo)

(* The batch's own passes run under its lock, and so does a Publish in it. *)
LockHeld == pass = "end" \/ (pass = "publish" /\ currentBatch)

(* ~Batch, Publish and Done drop clients; Batch and Publish in one do not. *)
MayRemove == ~(pass = "start" \/ (pass = "publish" /\ currentBatch))

Enter ==
  /\ ~Idle /\ pc = "enter"
  /\ LockHeld \/ ~locked
  /\ locked' = TRUE
  /\ pc' = "examine" /\ it' = 1
  /\ UNCHANGED <<clients, numClients, currentBatch, todo, phase, state, batching,
                 queueVars, logVars>>

Examine ==
  /\ ~Idle /\ pc = "examine"
  /\ it \in DOMAIN clients
  /\ ~(MayRemove /\ (Aborting(clients[it]) \/ Unique(clients[it])))
  /\ pc' = "act"
  /\ UNCHANGED <<listVars, currentBatch, todo, it, phase, state, batching,
                 queueVars, logVars>>

(* Mutant: the loop steps over the client after the one it removes. *)
MutRemoveSkips ==
  LET c == clients[it] IN
  /\ ~Idle /\ pc = "examine"
  /\ it \in DOMAIN clients
  /\ MayRemove /\ (Aborting(c) \/ Unique(c))
  /\ clients' = RemoveAt(clients, it)
  /\ numClients' = numClients - 1
  /\ it' = it + 1
  /\ UNCHANGED <<messages, popped>>
  /\ IF Unique(c) THEN DestroyClient(c) ELSE UNCHANGED <<state, batching, told>>
  /\ UNCHANGED <<locked, currentBatch, todo, pc, phase, logVars>>

(* Mutant: the removed client is still counted. *)
MutRemoveUncounted ==
  LET c == clients[it] IN
  /\ ~Idle /\ pc = "examine"
  /\ it \in DOMAIN clients
  /\ MayRemove /\ (Aborting(c) \/ Unique(c))
  /\ clients' = RemoveAt(clients, it)
  /\ UNCHANGED <<messages, popped>>
  /\ IF Unique(c) THEN DestroyClient(c) ELSE UNCHANGED <<state, batching, told>>
  /\ UNCHANGED <<numClients, locked, publisherVars, phase, logVars>>

(* RemoveClient: erase leaves the iterator at the next client, as in every *)
(* implementation of vector, and releases the publisher's reference.       *)
RemoveClient ==
  LET c == clients[it] IN
  /\ ~Idle /\ pc = "examine"
  /\ it \in DOMAIN clients
  /\ MayRemove /\ (Aborting(c) \/ Unique(c))
  /\ clients' = RemoveAt(clients, it)
  /\ numClients' = numClients - 1
  /\ UNCHANGED <<messages, popped>>
  /\ IF Unique(c) THEN DestroyClient(c) ELSE UNCHANGED <<state, batching, told>>
  /\ UNCHANGED <<locked, publisherVars, phase, logVars>>

(* One client of the pass is served. *)
Served ==
  /\ pc = "act"
  /\ pc' = "examine" /\ it' = it + 1
  /\ UNCHANGED <<listVars, currentBatch, todo, phase, popped, published, since,
                 finished, expectDone>>

(* Mutant: one message too many. *)
MutHasRoom(c) == Len(messages[c]) - popped[c] <= Capacity

HasRoom(c) == Len(messages[c]) - popped[c] < Capacity

PushMessage(c) ==
  /\ ~Idle /\ pass = "publish" /\ HasRoom(c)
  /\ messages' = [messages EXCEPT ![c] = Append(@, published)]
  /\ IF batching[c] THEN UNCHANGED told ELSE PushComplete(c)
  /\ Served
  /\ UNCHANGED <<state, batching, refused>>

(* Mutant: the exception of a full queue is caught in the loop. *)
MutRefusalCaught(c) ==
  /\ ~Idle /\ pass = "publish" /\ ~HasRoom(c)
  /\ refused' = [refused EXCEPT ![c] = @ \cup {published}]
  /\ Served
  /\ UNCHANGED <<state, batching, messages, told>>

(* A full queue throws out of Publish; a batch and its lock stay.          *)
PushToFullQueue(c) ==
  /\ ~Idle /\ pass = "publish" /\ ~HasRoom(c)
  /\ pc = "act"
  /\ refused' = [refused EXCEPT ![c] = @ \cup {published}]
  /\ todo' = <<>> /\ pc' = "enter"
  /\ locked' = currentBatch
  /\ UNCHANGED <<clients, numClients, currentBatch, it, phase, state, batching,
                 queueVars, published, since, finished, expectDone>>

StartClientBatch(c) ==
  /\ ~Idle /\ pass = "start"
  /\ batching' = [batching EXCEPT ![c] = TRUE]
  /\ Served
  /\ UNCHANGED <<state, messages, told, refused>>

FinishClientBatch(c) ==
  /\ ~Idle /\ pass = "end"
  /\ UNCHANGED messages
  /\ EndClientBatch(c)
  /\ Served
  /\ UNCHANGED <<state, refused>>

(* IPipeConsumer::Done: unless the owner was faster with its Abort,        *)
(* OnStateChange runs PushComplete.                                        *)
ClientDone(c) ==
  /\ ~Idle /\ pass = "done"
  /\ UNCHANGED messages
  /\ ChangeState(c, "FINSIHED")
  /\ IF Aborting(c) THEN UNCHANGED told ELSE PushComplete(c)
  /\ Served
  /\ UNCHANGED <<batching, refused>>

Act ==
  /\ pc = "act" /\ it \in DOMAIN clients
  /\ LET c == clients[it] IN
       \/ PushMessage(c) \/ PushToFullQueue(c)
       \/ StartClientBatch(c) \/ FinishClientBatch(c) \/ ClientDone(c)

(* The end of a pass: the lock is kept by a batch that goes on. *)
Leave ==
  /\ ~Idle /\ pc = "examine"
  /\ it \notin DOMAIN clients
  /\ currentBatch' = (pass = "start" \/ (pass = "publish" /\ currentBatch))
  /\ locked' = currentBatch'
  /\ todo' = Tail(todo) /\ pc' = "enter"
  /\ UNCHANGED <<clients, numClients, it, phase, state, batching, queueVars, logVars>>

-----------------------------------------------------------------------------
Init ==
  /\ clients = <<>> /\ numClients = 0 /\ locked = FALSE
  /\ currentBatch = FALSE /\ todo = <<>> /\ pc = "enter" /\ it = 1
  /\ phase = [c \in Clients |-> "none"]
  /\ state = [c \in Clients |-> "CONSUMING"]
  /\ batching = [c \in Clients |-> FALSE]
  /\ messages = [c \in Clients |-> <<>>]
  /\ popped = [c \in Clients |-> 0] /\ told = [c \in Clients |-> 0]
  /\ published = 0 /\ since = [c \in Clients |-> 0]
  /\ refused = [c \in Clients |-> {}]
  /\ finished = FALSE /\ expectDone = {}

OwnerSteps(c) ==
  NewClient(c) \/ InstallClient(c) \/ GetNextMessage(c) \/ Abort(c) \/ DropClient(c)
Calls == Publish \/ StartBatch \/ EndBatch \/ Done
PublisherSteps == Enter \/ Examine \/ RemoveClient \/ Act \/ Leave

Next == (\E c \in Clients : OwnerSteps(c)) \/ Calls \/ PublisherSteps

Spec == Init /\ [][Next]_vars

(* The publisher finishes the calls it makes. *)
Fairness == WF_vars(PublisherSteps)

FairSpec == Spec /\ Fairness

-----------------------------------------------------------------------------
(* Every variable has its type. *)
TypeOK ==
  /\ clients \in Seq(Clients) /\ numClients \in Nat
  /\ locked \in BOOLEAN /\ currentBatch \in BOOLEAN
  /\ todo \in Seq(Pass) /\ pc \in {"enter", "examine", "act"} /\ it \in Nat \ {0}
  /\ phase \in [Clients -> {"none", "created", "installed", "dropped"}]
  /\ state \in [Clients -> {"CONSUMING", "ABORTING", "FINSIHED"}]
  /\ batching \in [Clients -> BOOLEAN]
  /\ messages \in [Clients -> Seq(Message)]
  /\ popped \in [Clients -> Nat] /\ told \in [Clients -> Nat]
  /\ \A c \in Clients : popped[c] <= Len(messages[c]) /\ told[c] <= Len(messages[c])
  /\ \A c \in Clients : Len(messages[c]) - popped[c] <= Capacity
  /\ published \in 0 .. MaxMessages /\ since \in [Clients -> 0 .. published]
  /\ refused \in [Clients -> SUBSET Message]
  /\ finished \in BOOLEAN /\ expectDone \subseteq Clients

-----------------------------------------------------------------------------
(* Safety. *)

(* A subscriber the publisher still serves: its owner has it and reads it.  *)
Consuming(c) == phase[c] = "installed" /\ state[c] # "ABORTING"

Failed == UNION {refused[c] : c \in Clients}
Delivered(c) == ToSet(messages[c])
Owed(c) == (since[c] + 1) .. (IF ~Idle /\ pass = "publish" THEN published - 1 ELSE published)

(* What a subscriber gets is in the order of publication and without        *)
(* duplicates, and is everything published since it was installed, but for  *)
(* the messages whose Publish threw: a pass over the list, with clients     *)
(* removed on the way, serves each of the others exactly once               *)
(* (PipePublisher.hpp:64-92).                                               *)
DeliveredInOrder ==
  \A c \in Clients :
    /\ \A i, k \in DOMAIN messages[c] : i < k => messages[c][i] < messages[c][k]
    /\ Consuming(c) => Owed(c) \subseteq Delivered(c) \cup Failed

(* Between calls, a batch is open for all subscribers or for none, and      *)
(* without one every subscriber was told of all it was sent                 *)
(* (PipePublisher.h:63-71).                                                 *)
BatchIsUniform ==
  Idle =>
    /\ locked = currentBatch
    /\ \A c \in ToSet(clients) : batching[c] = currentBatch
    /\ ~currentBatch => \A c \in Clients : Consuming(c) => told[c] = Len(messages[c])

(* When Done returns, every client installed before the call is finished,   *)
(* or its owner aborted or dropped it (PipePublisher.hpp:39-62).            *)
DoneReachesAll ==
  finished /\ Idle => \A c \in expectDone : Consuming(c) => state[c] = "FINSIHED"

(* The list holds exactly the subscribers that are still served, once each, *)
(* and possibly some that are on their way out; numClients counts it.       *)
ListMatchesOwners ==
  /\ numClients = Len(clients)
  /\ \A i, k \in DOMAIN clients : i # k => clients[i] # clients[k]
  /\ \A c \in Clients : Consuming(c) => c \in ToSet(clients)

-----------------------------------------------------------------------------
(* The publisher implements the abstract broadcast: what a subscriber gets  *)
(* can be understood without the list, the lock and the passes over it.  A  *)
(* message sets out when its pass has the lock, or in the call if nobody    *)
(* listens (PipePublisher.hpp:64-92, 108-139).                              *)
Publishing == todo = <<"publish">>
Posted == IF Publishing /\ pc = "enter" THEN published - 1 ELSE published
InFlight ==
  {c \in Clients : Publishing /\ pc # "enter"
                   /\ \E k \in DOMAIN clients : k >= it /\ clients[k] = c}
Resigned == {c \in Clients : phase[c] = "dropped" \/ Aborting(c)}
Broadcast == INSTANCE MessageBroadcast WITH
  Member <- Clients,
  posted <- Posted,
  members <- ToSet(clients),
  resigned <- Resigned,
  owed <- InFlight,
  view <- messages
ImplementsBroadcast == Broadcast!BroadcastSpec

-----------------------------------------------------------------------------
(* Liveness. *)

(* The publisher never locks itself out: every call returns, whatever it    *)
(* finds open (PipePublisher.hpp:138-139).                                  *)
CallsReturn == ~Idle ~> Idle
=============================================================================
