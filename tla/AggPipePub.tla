------------------------------ MODULE AggPipePub ------------------------------
(***************************************************************************)
(* An AggPipePub: a data set, one message per id, that one thread changes  *)
(* with Update and ResetMessages, and a PipePublisher that sends its       *)
(* clients what changed.                                                   *)
(*                                                                         *)
(* dataMutex and the publisher's subscription lock are two locks: what     *)
(* happens under one of them, or between them, is a step of its own.       *)
(* Module PipePublisher has what happens under the second: here one        *)
(* publication is one step, and reaches the clients in the order of the    *)
(* list up to the first whose queue is full.                               *)
(*                                                                         *)
(* A message is its id and a version; two versions of one class are equal  *)
(* for IsAggEqual.  Of a client its copy is kept: what the updates it was  *)
(* sent make of its initial data, whether it has read them yet or not.     *)
(***************************************************************************)
EXTENDS Naturals, FiniteSets, Sequences, SequencesExt, FiniteSetsExt

CONSTANTS
  Ids,          \* the ids, ordered as the keys of the std::map
  Versions,     \* contents of a message, besides its id
  Clients,      \* the clients that may ever be created
  Modes,        \* update modes in use
  Filters,      \* what NewClient may be asked to restrict its data to
  Capacity,     \* maxQueueSize of each client
  MaxReset,     \* bound on the messages handed to ResetMessages
  MaxCalls,     \* bound on the calls of Update and ResetMessages
  Filled        \* data sets it may have been filled with before the first client

AggPipePubUpdateMode == {"SKIP_DUPLICATES", "NO_DUPLICATE_CHECKING", "REPLACE_DELETE_MODS"}
AggUpdateType == {"NEW", "UPDATE", "DELETE"}

(* IsAggEqual of the messages: an equivalence coarser than identity. *)
IsAggEqual(orig, upd) == orig \div 2 = upd \div 2

(* The data sets: finite functions of the ids present. *)
Map == UNION {[S -> Versions] : S \in {T \in SUBSET Ids : IsFiniteSet(T)}}
empty == [i \in {} |-> 0]

(* A filter is any predicate on messages: it may tell apart messages that   *)
(* IsAggEqual does not.  A client may be created without one.               *)
ASSUME AggAssumption ==
  /\ Ids \subseteq Nat /\ Versions \subseteq Nat
  /\ Modes \subseteq AggPipePubUpdateMode
  /\ Filled \subseteq Map
  /\ Capacity \in Nat /\ MaxReset \in Nat /\ MaxCalls \in Nat
  /\ Versions \in Filters

VARIABLES
  updateMode,   \* template parameter
  data,         \* the data set: a function of the ids present
  resetting,    \* is ResetMessages inside WithData, holding dataMutex?
  newMap,       \* its map of the messages it was handed
  existingIt,   \* its iterators, as the keys from each on to the end
  newIt,
  outbox,       \* updates the publisher's thread still has to publish
  clients,      \* the client list of pub_, in order
  phase,        \* how far NewClient is with each client
  filter,       \* what it was restricted to
  copy,         \* what each client makes of all it was sent
  unread,       \* length of its queue
  calls,        \* number of calls so far
  emitted,      \* history: what the ResetMessages in progress has published
  ahead,        \* history: ids whose pending update its snapshot has already
  missed,       \* history: ids published between snapshot and installation
  dirty,        \* history: ids whose publication threw
  failed        \* history: what a ResetMessages that just threw was for, if one did

resetVars == <<resetting, newMap, existingIt, newIt>>
clientVars == <<clients, phase, filter, copy, unread>>
logVars == <<ahead, missed, dirty>>
vars == <<updateMode, data, resetVars, outbox, clientVars, calls, emitted, logVars, failed>>

Message == [id : Ids, version : Versions]
Upd == [id : Ids, version : Versions, updateType : AggUpdateType]

-----------------------------------------------------------------------------
Put(map, id, version) ==
  [i \in DOMAIN map \cup {id} |-> IF i = id THEN version ELSE map[i]]
Erase(map, id) == [i \in DOMAIN map \ {id} |-> map[i]]

(* What a client makes of an update. *)
Apply(map, u) ==
  IF u.updateType = "DELETE" THEN Erase(map, u.id) ELSE Put(map, u.id, u.version)

UpdOf(id, version, updateType) == [id |-> id, version |-> version, updateType |-> updateType]

replace_mods == updateMode = "REPLACE_DELETE_MODS"
diffUpdates == updateMode # "NO_DUPLICATE_CHECKING"
IsUpdated(orig, n) == ~diffUpdates \/ ~IsAggEqual(orig, n)

(* Mutant: the replacing modes delete the item that comes instead. *)
MutModified(id, orig, n) ==
  IF replace_mods
  THEN <<UpdOf(id, n, "NEW"), UpdOf(id, orig, "DELETE")>>
  ELSE <<UpdOf(id, n, "UPDATE")>>

(* A changed item: an UPDATE, or a DELETE of the old and a NEW. *)
Modified(id, orig, n) ==
  IF replace_mods
  THEN <<UpdOf(id, orig, "DELETE"), UpdOf(id, n, "NEW")>>
  ELSE <<UpdOf(id, n, "UPDATE")>>

Idle == outbox = <<>> /\ ~resetting

-----------------------------------------------------------------------------
(* pub_.Publish. *)

(* Mutant: one update too many. *)
MutFull(c) == unread[c] > Capacity

Full(c) == unread[c] >= Capacity

(* The clients up to the first full one, which throws. *)
Served ==
  {clients[i] : i \in {k \in DOMAIN clients : \A j \in 1 .. k : ~Full(clients[j])}}

Send(u) ==
  /\ copy' = [c \in Clients |-> IF c \in Served THEN Apply(copy[c], u) ELSE copy[c]]
  /\ unread' = [c \in Clients |-> IF c \in Served THEN unread[c] + 1 ELSE unread[c]]
  /\ missed' = [c \in Clients |->
       IF c \in Served THEN missed[c] \ {u.id}
       ELSE IF phase[c] = "created" /\ Apply(copy[c], u) # copy[c] THEN missed[c] \cup {u.id}
       ELSE missed[c]]
  /\ UNCHANGED <<updateMode, clients, phase, filter, calls>>

Publish ==
  /\ outbox # <<>>
  /\ ~ \E c \in ToSet(clients) : Full(c)
  /\ Send(Head(outbox))
  /\ outbox' = Tail(outbox)
  /\ emitted' = IF resetting THEN Append(emitted, Head(outbox)) ELSE emitted
  /\ dirty' = dirty \ {Head(outbox).id}
  /\ ahead' = IF Len(outbox) = 1 THEN [c \in Clients |-> {}] ELSE ahead
  /\ UNCHANGED <<data, resetVars, failed>>

(* Mutant: the data set is replaced although not all of it was published. *)
MutThrowReplaces ==
  /\ outbox # <<>>
  /\ \E c \in ToSet(clients) : Full(c)
  /\ Send(Head(outbox))
  /\ outbox' = <<>> /\ emitted' = <<>>
  /\ resetting' = FALSE /\ newMap' = empty /\ existingIt' = {} /\ newIt' = {}
  /\ dirty' = dirty \cup {u.id : u \in ToSet(emitted) \cup {Head(outbox)}}
  /\ failed' = IF resetting
               THEN {[target |-> newMap, left |-> dirty]}
               ELSE {}
  /\ data' = IF resetting THEN newMap ELSE data
  /\ ahead' = [c \in Clients |-> {}]

(* A full queue throws out of Update or ResetMessages: the unwinding leaves *)
(* WithData and drops what was not published.                               *)
PublishThrows ==
  /\ outbox # <<>>
  /\ \E c \in ToSet(clients) : Full(c)
  /\ Send(Head(outbox))
  /\ outbox' = <<>> /\ emitted' = <<>>
  /\ resetting' = FALSE /\ newMap' = empty /\ existingIt' = {} /\ newIt' = {}
  /\ dirty' = dirty \cup {u.id : u \in ToSet(emitted) \cup {Head(outbox)}}
  /\ failed' = IF resetting
               THEN {[target |-> newMap, left |-> dirty]}
               ELSE {}
  /\ ahead' = [c \in Clients |-> {}]
  /\ UNCHANGED data

-----------------------------------------------------------------------------
(* The publishing thread. *)

Call ==
  /\ Idle
  /\ calls < MaxCalls
  /\ calls' = calls + 1
  /\ UNCHANGED <<updateMode, clientVars, logVars, emitted>>

(* Mutant: only new items are stored. *)
MutUpdateNotStored(m) ==
  LET known == m.id \in DOMAIN data
      updated == known /\ IsUpdated(data[m.id], m.version)
  IN /\ Call
     /\ data' = IF ~known THEN Put(data, m.id, m.version) ELSE data
     /\ outbox' = IF ~known THEN <<UpdOf(m.id, m.version, "NEW")>>
                  ELSE IF updated THEN Modified(m.id, data[m.id], m.version)
                  ELSE <<>>
     /\ failed' = {}
     /\ UNCHANGED resetVars

(* Update: ManufactureUpdate under dataMutex, the publications after it. *)
Update(m) ==
  LET known == m.id \in DOMAIN data
      updated == known /\ IsUpdated(data[m.id], m.version)
  IN /\ Call
     /\ data' = IF ~known \/ updated THEN Put(data, m.id, m.version) ELSE data
     /\ outbox' = IF ~known THEN <<UpdOf(m.id, m.version, "NEW")>>
                  ELSE IF updated THEN Modified(m.id, data[m.id], m.version)
                  ELSE <<>>
     /\ failed' = {}
     /\ UNCHANGED resetVars

(* The last message of an id counts. *)
MapOf(msgs) ==
  [i \in {m.id : m \in ToSet(msgs)} |->
     msgs[Max({k \in DOMAIN msgs : msgs[k].id = i})].version]

ResetMessages(msgs) ==
  /\ Call
  /\ newMap' = MapOf(msgs)
  /\ resetting' = TRUE
  /\ existingIt' = DOMAIN data /\ newIt' = DOMAIN newMap'
  /\ UNCHANGED <<data, outbox, failed>>

MoreExisting == existingIt # {}
MoreNew == newIt # {}

(* The keys the iterators stand at: a std::map is walked in their order. *)
eid == Min(existingIt)
nid == Min(newIt)

(* Mutant: one map is exhausted, and the other is not looked at. *)
MutMergeStops ==
  /\ resetting /\ outbox = <<>>
  /\ MoreExisting /\ MoreNew
  /\ outbox' = IF eid = nid /\ IsUpdated(data[eid], newMap[nid])
               THEN Modified(eid, data[eid], newMap[nid])
               ELSE IF eid < nid THEN <<UpdOf(eid, data[eid], "DELETE")>>
               ELSE IF eid > nid THEN <<UpdOf(nid, newMap[nid], "NEW")>>
               ELSE <<>>
  /\ existingIt' = existingIt \ {eid}
  /\ newIt' = newIt \ {nid}
  /\ UNCHANGED <<updateMode, data, resetting, newMap, clientVars, calls, emitted, logVars, failed>>

(* One turn of the merge of the two maps... *)
Merge ==
  /\ resetting /\ outbox = <<>>
  /\ MoreExisting /\ MoreNew
  /\ outbox' = IF eid = nid /\ IsUpdated(data[eid], newMap[nid])
               THEN Modified(eid, data[eid], newMap[nid])
               ELSE IF eid < nid THEN <<UpdOf(eid, data[eid], "DELETE")>>
               ELSE IF eid > nid THEN <<UpdOf(nid, newMap[nid], "NEW")>>
               ELSE <<>>
  /\ existingIt' = IF eid <= nid THEN existingIt \ {eid} ELSE existingIt
  /\ newIt' = IF eid >= nid THEN newIt \ {nid} ELSE newIt
  /\ UNCHANGED <<updateMode, data, resetting, newMap, clientVars, calls, emitted, logVars, failed>>

(* ...and of the two loops over what is left of one of them. *)
Leftover ==
  /\ resetting /\ outbox = <<>>
  /\ \/ /\ MoreExisting /\ ~MoreNew
        /\ outbox' = <<UpdOf(eid, data[eid], "DELETE")>>
        /\ existingIt' = existingIt \ {eid} /\ newIt' = newIt
     \/ /\ ~MoreExisting /\ MoreNew
        /\ outbox' = <<UpdOf(nid, newMap[nid], "NEW")>>
        /\ newIt' = newIt \ {nid} /\ existingIt' = existingIt
  /\ UNCHANGED <<updateMode, data, resetting, newMap, clientVars, calls, emitted, logVars, failed>>

MergeDone == resetting /\ outbox = <<>> /\ ~MoreExisting /\ ~MoreNew

Replace ==
  /\ MergeDone
  /\ data' = newMap
  /\ resetting' = FALSE /\ newMap' = empty /\ existingIt' = {} /\ newIt' = {}
  /\ emitted' = <<>>
  /\ failed' = {}
  /\ UNCHANGED <<updateMode, outbox, clientVars, calls, logVars>>

-----------------------------------------------------------------------------
(* The clients' threads. *)

(* NewClient, first half: the snapshot, and the construction.  When the     *)
(* data does not fit into the queue it throws, and changes nothing.         *)
NewClient(c, f) ==
  LET initialData == {id \in DOMAIN data : data[id] \in f} IN
  /\ phase[c] = "none"
  /\ ~resetting
  /\ Cardinality(initialData) <= Capacity
  /\ phase' = [phase EXCEPT ![c] = "created"]
  /\ filter' = [filter EXCEPT ![c] = f]
  /\ copy' = [copy EXCEPT ![c] = [id \in initialData |-> data[id]]]
  /\ unread' = [unread EXCEPT ![c] = Cardinality(initialData)]
  /\ ahead' = [ahead EXCEPT ![c] = {u.id : u \in ToSet(outbox)}]
  /\ UNCHANGED <<updateMode, data, resetVars, outbox, clients, calls, emitted,
                 missed, dirty, failed>>

(* Second half: InstallClient, under the subscription lock. *)
InstallClient(c) ==
  /\ phase[c] = "created"
  /\ phase' = [phase EXCEPT ![c] = "installed"]
  /\ clients' = Append(clients, c)
  /\ UNCHANGED <<updateMode, data, resetVars, outbox, filter, copy, unread, calls,
                 emitted, logVars, failed>>

GetNextMessage(c) ==
  /\ phase[c] = "installed"
  /\ unread[c] > 0
  /\ unread' = [unread EXCEPT ![c] = @ - 1]
  /\ UNCHANGED <<updateMode, data, resetVars, outbox, clients, phase, filter, copy,
                 calls, emitted, logVars, failed>>

-----------------------------------------------------------------------------
Init ==
  /\ updateMode \in Modes
  /\ data \in Filled
  /\ resetting = FALSE /\ newMap = empty /\ existingIt = {} /\ newIt = {}
  /\ outbox = <<>> /\ clients = <<>>
  /\ phase = [c \in Clients |-> "none"]
  /\ filter = [c \in Clients |-> Versions]
  /\ copy = [c \in Clients |-> empty]
  /\ unread = [c \in Clients |-> 0]
  /\ calls = 0 /\ emitted = <<>> /\ dirty = {} /\ failed = {}
  /\ ahead = [c \in Clients |-> {}] /\ missed = [c \in Clients |-> {}]

Calls ==
  \/ \E m \in Message : Update(m)
  \/ \E msgs \in BoundedSeq(Message, MaxReset) : ResetMessages(msgs)
PublisherSteps == Publish \/ PublishThrows \/ Merge \/ Leftover \/ Replace
ClientSteps(c) ==
  (\E f \in Filters : NewClient(c, f)) \/ InstallClient(c) \/ GetNextMessage(c)

Next == Calls \/ PublisherSteps \/ \E c \in Clients : ClientSteps(c)

Spec == Init /\ [][Next]_vars

-----------------------------------------------------------------------------
(* Every variable has its type. *)
TypeOK ==
  /\ updateMode \in Modes
  /\ data \in Map /\ newMap \in Map /\ resetting \in BOOLEAN
  /\ existingIt \subseteq DOMAIN data /\ newIt \subseteq DOMAIN newMap
  /\ outbox \in Seq(Upd) /\ emitted \in Seq(Upd)
  /\ clients \in Seq(Clients)
  /\ phase \in [Clients -> {"none", "created", "installed"}]
  /\ filter \in [Clients -> Filters]
  /\ copy \in [Clients -> Map]
  /\ unread \in [Clients -> Nat]
  /\ \A c \in ToSet(clients) : unread[c] <= Capacity
  /\ calls \in 0 .. MaxCalls
  /\ ahead \in [Clients -> SUBSET Ids] /\ missed \in [Clients -> SUBSET Ids]
  /\ dirty \subseteq Ids
  /\ failed \subseteq [target : Map, left : SUBSET Ids]

-----------------------------------------------------------------------------
(* Safety. *)

(* A version stands for another when the change from one to the other is    *)
(* not published.                                                           *)
StandsFor(v, w) == v = w \/ ~IsUpdated(v, w)

(* A client's copy of an id is as good as the one in a data set: one that   *)
(* stands for it, or absent where the client's filter refused one that did. *)
(* A client may so lack an item that its filter accepts.                    *)
Like(mine, f, map, id) ==
  IF id \in DOMAIN map
  THEN IF id \in DOMAIN mine
       THEN StandsFor(mine[id], map[id])
       ELSE \E v \in Versions \ f : StandsFor(v, map[id])
  ELSE id \notin DOMAIN mine
Agrees(c, id) == Like(copy[c], filter[c], data, id)

(* Between the publisher's calls, the initial data and the updates give     *)
(* every client the data set, up to changes that are not published, but for *)
(* ids whose publication threw and ids published between its snapshot and   *)
(* its installation (AggPipePub.hpp:8-40, 44-48, 57-99).                    *)
CopiesConverge ==
  Idle => \A c \in ToSet(clients) : \A id \in Ids \ (missed[c] \cup dirty) : Agrees(c, id)

(* ResetMessages publishes, in the order of the ids, for each id exactly    *)
(* what makes the old data set the new one, whatever the two maps are       *)
(* (AggPipePub.h:96-106, AggPipePub.hpp:57-97).                             *)
Difference(old, new, id) ==
  IF id \in DOMAIN old \cap DOMAIN new
  THEN IF IsUpdated(old[id], new[id]) THEN Modified(id, old[id], new[id]) ELSE <<>>
  ELSE IF id \in DOMAIN old THEN <<UpdOf(id, old[id], "DELETE")>>
  ELSE IF id \in DOMAIN new THEN <<UpdOf(id, new[id], "NEW")>>
  ELSE <<>>
Before(u, v) ==
  \/ u.id < v.id
  \/ u.id = v.id /\ u.updateType = "DELETE" /\ v.updateType = "NEW"
ResetIsDifference ==
  MergeDone =>
    /\ ToSet(emitted) = UNION {ToSet(Difference(data, newMap, id)) : id \in Ids}
    /\ \A i, k \in DOMAIN emitted : i < k => Before(emitted[i], emitted[k])

(* A ResetMessages that threw can be repeated: when the same call succeeds  *)
(* next, nothing of what the failed one left half-published remains         *)
(* (AggPipePub.hpp:98: the data set is replaced last).                      *)
RetryRepairs ==
  MergeDone => \A f \in failed : f.target = newMap => dirty \subseteq f.left

(* An unfiltered client sees a NEW only of an id it does not have and an     *)
(* UPDATE or DELETE only of one it has (AggPipePub.h:79-85), unless its      *)
(* snapshot met the update on its way or a publication threw.                *)
KindIsHonest ==
  [][ \A c \in ToSet(clients) :
        LET u == Head(outbox) IN
        /\ unread'[c] > unread[c] /\ filter[c] = Versions
        /\ u.id \notin missed[c] \cup ahead[c] \cup dirty
        => (u.updateType = "NEW") = (u.id \notin DOMAIN copy[c]) ]_vars

(* No update is posted until a client is initialised (AggPipePub.h:117-118): *)
(* an installed client has all of the data set between calls that did not    *)
(* throw.                                                                    *)
InitialisedClientIsCurrent ==
  Idle /\ dirty = {} => \A c \in ToSet(clients) : \A id \in Ids : Agrees(c, id)
===============================================================================
