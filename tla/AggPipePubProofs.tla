--------------------------- MODULE AggPipePubProofs ---------------------------
(***************************************************************************)
(* Proofs about AggPipePub, for any ids, messages, filters and clients, in *)
(* every update mode and for every capacity.  The inductive invariant is   *)
(* layered: the types, with what is known of the client list and between   *)
(* the calls of ResetMessages; OutboxInv, the updates that wait; MergeInv, *)
(* how far the merge of the two maps has got; CopyInv, the copies of the   *)
(* clients against the map each id is taken from; RetryInv, what a failed  *)
(* ResetMessages left behind; and HonestInv, the kinds of the updates.     *)
(***************************************************************************)
EXTENDS AggPipePub, FiniteSetTheorems, WellFoundedInduction, TLAPS

-----------------------------------------------------------------------------
(* The least element of a set of numbers, and the greatest of a bounded one. *)
LEMMA LeastExists ==
  ASSUME NEW S \in SUBSET Nat, S # {}
  PROVE  \E x \in S : \A y \in S : x <= y
<1> DEFINE R == OpToRel(<, Nat)
<1>1. IsWellFoundedOn(R, Nat)
  BY NatLessThanWellFounded
<1>2. \A a, b \in Nat : a < b => <<a, b>> \in R
  BY DEF OpToRel
<1> HIDE DEF R
<1>3. PICK x \in S : \A y \in S : <<y, x>> \notin R
  BY <1>1, WFMin
<1>4. \A y \in S : ~(y < x)
  BY <1>2, <1>3
<1> QED
  BY <1>4

LEMMA MinFacts ==
  ASSUME NEW S \in SUBSET Nat, S # {}
  PROVE  Min(S) \in S /\ \A y \in S : Min(S) <= y
BY LeastExists DEF Min

LEMMA MaxFacts ==
  ASSUME NEW n \in Nat, NEW S \in SUBSET (1 .. n), S # {}
  PROVE  Max(S) \in S
<1> DEFINE T == {k \in Nat : \E x \in S : k = n - x}
<1>1. T \in SUBSET Nat /\ T # {}
  <2>1. PICK x \in S : TRUE
    OBVIOUS
  <2>2. n - x \in T
    BY <2>1
  <2> QED
    BY <2>2
<1>2. PICK t \in T : \A y \in T : t <= y
  <2> HIDE DEF T
  <2> QED
    BY <1>1, LeastExists
<1>3. PICK x \in S : t = n - x
  BY <1>2
<1>4. \A y \in S : x >= y
  <2> TAKE y \in S
  <2>1. n - y \in T
    OBVIOUS
  <2>2. n - x <= n - y
    BY <2>1, <1>2, <1>3
  <2> QED
    BY <2>2
<1> QED
  BY <1>3, <1>4 DEF Max

-----------------------------------------------------------------------------
(* The data sets. *)
LEMMA MapType ==
  ASSUME NEW m
  PROVE  m \in Map <=> /\ DOMAIN m \subseteq Ids /\ IsFiniteSet(DOMAIN m)
                       /\ m \in [DOMAIN m -> Versions]
BY DEF Map

LEMMA EmptyMap == empty \in Map /\ DOMAIN empty = {}
<1>1. IsFiniteSet({})
  BY FS_EmptySet
<1> QED
  BY <1>1, MapType DEF empty

LEMMA PutMap ==
  ASSUME NEW m \in Map, NEW id \in Ids, NEW v \in Versions
  PROVE  /\ Put(m, id, v) \in Map
         /\ DOMAIN Put(m, id, v) = DOMAIN m \cup {id}
         /\ Put(m, id, v)[id] = v
         /\ \A i \in DOMAIN m : i # id => Put(m, id, v)[i] = m[i]
<1>1. DOMAIN m \subseteq Ids /\ IsFiniteSet(DOMAIN m) /\ m \in [DOMAIN m -> Versions]
  BY MapType
<1>2. IsFiniteSet(DOMAIN m \cup {id})
  BY <1>1, FS_AddElement
<1>3. /\ DOMAIN Put(m, id, v) = DOMAIN m \cup {id}
      /\ Put(m, id, v) \in [DOMAIN m \cup {id} -> Versions]
      /\ Put(m, id, v)[id] = v
      /\ \A i \in DOMAIN m : i # id => Put(m, id, v)[i] = m[i]
  BY <1>1 DEF Put
<1>4. Put(m, id, v) \in Map
  BY <1>1, <1>2, <1>3, MapType
<1> QED
  BY <1>3, <1>4

LEMMA EraseMap ==
  ASSUME NEW m \in Map, NEW id
  PROVE  /\ Erase(m, id) \in Map
         /\ DOMAIN Erase(m, id) = DOMAIN m \ {id}
         /\ \A i \in DOMAIN m : i # id => Erase(m, id)[i] = m[i]
<1>1. DOMAIN m \subseteq Ids /\ IsFiniteSet(DOMAIN m) /\ m \in [DOMAIN m -> Versions]
  BY MapType
<1>2. IsFiniteSet(DOMAIN m \ {id})
  BY <1>1, FS_RemoveElement
<1>3. /\ DOMAIN Erase(m, id) = DOMAIN m \ {id}
      /\ Erase(m, id) \in [DOMAIN m \ {id} -> Versions]
      /\ \A i \in DOMAIN m : i # id => Erase(m, id)[i] = m[i]
  BY <1>1 DEF Erase
<1>4. Erase(m, id) \in Map
  BY <1>1, <1>2, <1>3, MapType
<1> QED
  BY <1>3, <1>4

LEMMA ApplyMap ==
  ASSUME NEW m \in Map, NEW u \in Upd
  PROVE  /\ Apply(m, u) \in Map
         /\ u.updateType = "DELETE" => u.id \notin DOMAIN Apply(m, u)
         /\ u.updateType # "DELETE" => u.id \in DOMAIN Apply(m, u) /\ Apply(m, u)[u.id] = u.version
         /\ \A i : i # u.id => (i \in DOMAIN Apply(m, u) <=> i \in DOMAIN m)
         /\ \A i \in DOMAIN m : i # u.id => Apply(m, u)[i] = m[i]
<1> u.id \in Ids /\ u.version \in Versions
  BY DEF Upd
<1>1. CASE u.updateType = "DELETE"
  <2>1. Apply(m, u) = Erase(m, u.id)
    BY <1>1 DEF Apply
  <2>2. /\ Erase(m, u.id) \in Map
        /\ DOMAIN Erase(m, u.id) = DOMAIN m \ {u.id}
        /\ \A i \in DOMAIN m : i # u.id => Erase(m, u.id)[i] = m[i]
    BY EraseMap, Zenon
  <2> QED
    BY <1>1, <2>1, <2>2
<1>2. CASE u.updateType # "DELETE"
  <2>1. Apply(m, u) = Put(m, u.id, u.version)
    BY <1>2 DEF Apply
  <2>2. /\ Put(m, u.id, u.version) \in Map
        /\ DOMAIN Put(m, u.id, u.version) = DOMAIN m \cup {u.id}
        /\ Put(m, u.id, u.version)[u.id] = u.version
        /\ \A i \in DOMAIN m : i # u.id => Put(m, u.id, u.version)[i] = m[i]
    BY PutMap, Zenon
  <2> QED
    BY <1>2, <2>1, <2>2
<1> QED
  BY <1>1, <1>2

(* What a client keeps of the snapshot. *)
LEMMA SnapshotMap ==
  ASSUME NEW m \in Map, NEW f
  PROVE  LET kept == {id \in DOMAIN m : m[id] \in f} IN
         /\ [id \in kept |-> m[id]] \in Map
         /\ IsFiniteSet(kept) /\ Cardinality(kept) \in Nat
<1> DEFINE kept == {id \in DOMAIN m : m[id] \in f}
<1>1. DOMAIN m \subseteq Ids /\ IsFiniteSet(DOMAIN m) /\ m \in [DOMAIN m -> Versions]
  BY MapType
<1>2. IsFiniteSet(kept)
  BY <1>1, FS_Subset
<1>3. Cardinality(kept) \in Nat
  BY <1>2, FS_CardinalityType
<1>4. [id \in kept |-> m[id]] \in Map
  BY <1>1, <1>2, MapType
<1> QED
  BY <1>2, <1>3, <1>4

(* The map ResetMessages makes of its messages. *)
LEMMA MapOfMap ==
  ASSUME NEW msgs \in Seq(Message)
  PROVE  MapOf(msgs) \in Map
<1> DEFINE ids == {m.id : m \in ToSet(msgs)}
           n == Len(msgs)
           f == [k \in 1 .. n |-> msgs[k].id]
<1>1. n \in Nat /\ DOMAIN msgs = 1 .. n /\ \A k \in 1 .. n : msgs[k] \in Message
  OBVIOUS
<1>2. ids = {msgs[k].id : k \in 1 .. n} /\ ids \subseteq Ids
  BY <1>1 DEF ToSet, Message
<1>3. IsFiniteSet(ids)
  <2>1. f \in Surjection(1 .. n, ids)
    BY <1>2 DEF Surjection
  <2>2. IsFiniteSet(1 .. n)
    BY <1>1, FS_Interval
  <2> HIDE DEF f, ids, n
  <2> QED
    BY <2>1, <2>2, FS_Surjection
<1>4. \A i \in ids : msgs[Max({k \in DOMAIN msgs : msgs[k].id = i})].version \in Versions
  <2> TAKE i \in ids
  <2> DEFINE S == {k \in DOMAIN msgs : msgs[k].id = i}
  <2>1. S \in SUBSET (1 .. n) /\ S # {}
    BY <1>1, <1>2
  <2>2. Max(S) \in S
    <3> HIDE DEF S, n
    <3> QED
      BY <1>1, <2>1, MaxFacts
  <2>3. Max(S) \in 1 .. n
    BY <2>1, <2>2
  <2> QED
    BY <1>1, <2>3 DEF Message
<1>5. MapOf(msgs) = [i \in ids |-> msgs[Max({k \in DOMAIN msgs : msgs[k].id = i})].version]
  BY DEF MapOf
<1>6. DOMAIN MapOf(msgs) = ids /\ MapOf(msgs) \in [ids -> Versions]
  <2> HIDE DEF ids
  <2> QED
    BY <1>4, <1>5
<1> HIDE DEF ids
<1> QED
  BY <1>2, <1>3, <1>6, MapType

-----------------------------------------------------------------------------
(* What is known in the states between two steps. *)
LEMMA StandsForFacts ==
  /\ \A v : StandsFor(v, v)
  /\ \A v, w : StandsFor(v, w) => StandsFor(w, v)
  /\ \A v, w, x : StandsFor(v, w) /\ StandsFor(w, x) => StandsFor(v, x)
BY DEF StandsFor, IsUpdated, IsAggEqual

Same(a, b, id) ==
  /\ id \in DOMAIN a <=> id \in DOMAIN b
  /\ id \in DOMAIN a => StandsFor(a[id], b[id])

(* An update that makes of its id what the map m has. *)
Settled(u, m) ==
  IF u.updateType = "DELETE" THEN u.id \notin DOMAIN m
  ELSE u.id \in DOMAIN m /\ m[u.id] = u.version

(* Updates of one id of which the last settles it. *)
Single(s, id, m) == \E u \in Upd : s = <<u>> /\ u.id = id /\ Settled(u, m)
Pair(s, id, m) ==
  \E u, v \in Upd : /\ s = <<u, v>> /\ u.id = id /\ v.id = id
                   /\ u.updateType = "DELETE" /\ v.updateType = "NEW" /\ Settled(v, m)

(* The ids the iterators have still to pass, the keys they have passed, and *)
(* the map that an id is taken from by now.                                 *)
Left == existingIt \cup newIt
Passed == (DOMAIN data \cup DOMAIN newMap) \ Left
Goal == IF resetting THEN newMap ELSE data
Wanted(id) == IF resetting /\ id \notin Left THEN newMap ELSE data
Pending(id) == outbox # <<>> /\ Head(outbox).id = id
Sent == emitted \o outbox

DataTypes ==
  /\ updateMode \in Modes
  /\ data \in Map /\ newMap \in Map /\ resetting \in BOOLEAN
  /\ existingIt \subseteq DOMAIN data /\ newIt \subseteq DOMAIN newMap
  /\ outbox \in Seq(Upd) /\ emitted \in Seq(Upd)
  /\ calls \in 0 .. MaxCalls
  /\ dirty \subseteq Ids
  /\ failed \subseteq [target : Map, left : SUBSET Ids]
  /\ ~resetting => newMap = empty /\ existingIt = {} /\ newIt = {} /\ emitted = <<>>

ClientTypes ==
  /\ clients \in Seq(Clients)
  /\ phase \in [Clients -> {"none", "created", "installed"}]
  /\ filter \in [Clients -> Filters]
  /\ copy \in [Clients -> Map]
  /\ unread \in [Clients -> Nat]
  /\ ahead \in [Clients -> SUBSET Ids] /\ missed \in [Clients -> SUBSET Ids]
  /\ \A c \in Clients : unread[c] <= Capacity
  /\ \A c \in Clients : phase[c] = "installed" <=> c \in ToSet(clients)

(* The updates that wait are of one id the iterators have passed, and the   *)
(* last of them makes it what it is to be.                                  *)
OutboxInv ==
  \/ outbox = <<>>
  \/ \E id \in Ids \ Left : Single(outbox, id, Goal) \/ Pair(outbox, id, Goal)

(* The merge passes the ids in order and those of both maps in both; what   *)
(* it has published or is about to is the difference of the ids it passed.  *)
MergeInv ==
  resetting =>
    /\ \A i \in Left, k \in Passed : k < i
    /\ \A i \in DOMAIN data \cap DOMAIN newMap : i \in existingIt <=> i \in newIt
    /\ \A u \in Upd :
         u \in ToSet(Sent) <=> u.id \notin Left /\ u \in ToSet(Difference(data, newMap, u.id))
    /\ \A i, k \in DOMAIN Sent : i < k => Before(Sent[i], Sent[k])

(* But for the ids a client missed, those whose publication threw and the   *)
(* one that is being published, its copy is of the map they are taken from. *)
CopyInv ==
  \A c \in Clients : phase[c] # "none" =>
    \A id \in Ids \ (missed[c] \cup dirty) :
      ~Pending(id) => Like(copy[c], filter[c], Wanted(id), id)

(* What the failed call left half-published differs between the data set    *)
(* and its messages; the call in progress has not published it so far.      *)
RetryInv ==
  /\ \A f \in failed : \A id \in dirty \ f.left : Difference(data, f.target, id) # <<>>
  /\ \A u \in ToSet(emitted) : u.id \notin dirty

(* The next update is a NEW for an unfiltered client just when its copy     *)
(* lacks the id.                                                            *)
HonestInv ==
  \A c \in Clients : phase[c] # "none" /\ filter[c] = Versions /\ outbox # <<>> =>
    LET u == Head(outbox) IN
    u.id \notin missed[c] \cup ahead[c] \cup dirty
      => (u.updateType = "NEW") = (u.id \notin DOMAIN copy[c])

TypeInv == DataTypes /\ ClientTypes
IInv == TypeInv /\ OutboxInv /\ MergeInv /\ CopyInv /\ RetryInv /\ HonestInv

-----------------------------------------------------------------------------
(* What is published for an id, by the two maps. *)
LEMMA ModifiedFacts ==
  ASSUME NEW id \in Ids, NEW v \in Versions, NEW b \in Map, id \in DOMAIN b,
         NEW o \in Versions, b[id] = v
  PROVE  \/ /\ Pair(Modified(id, o, v), id, b)
            /\ Head(Modified(id, o, v)).updateType # "NEW"
         \/ /\ Single(Modified(id, o, v), id, b)
            /\ Head(Modified(id, o, v)).updateType # "NEW"
<1>1. /\ UpdOf(id, o, "DELETE") \in Upd /\ UpdOf(id, v, "NEW") \in Upd
      /\ UpdOf(id, v, "UPDATE") \in Upd
  BY DEF UpdOf, Upd, AggUpdateType
<1>2. Settled(UpdOf(id, v, "NEW"), b) /\ Settled(UpdOf(id, v, "UPDATE"), b)
  BY DEF Settled, UpdOf
<1>3. CASE replace_mods
  <2>1. Modified(id, o, v) = <<UpdOf(id, o, "DELETE"), UpdOf(id, v, "NEW")>>
    BY <1>3 DEF Modified
  <2>2. Pair(Modified(id, o, v), id, b)
    BY <1>1, <1>2, <2>1 DEF Pair, UpdOf
  <2> QED
    BY <2>1, <2>2 DEF UpdOf
<1>4. CASE ~replace_mods
  <2>1. Modified(id, o, v) = <<UpdOf(id, v, "UPDATE")>>
    BY <1>4 DEF Modified
  <2>2. Single(Modified(id, o, v), id, b)
    BY <1>1, <1>2, <2>1 DEF Single, UpdOf
  <2> QED
    BY <2>1, <2>2 DEF UpdOf
<1> QED
  BY <1>3, <1>4

LEMMA DifferenceFacts ==
  ASSUME NEW a \in Map, NEW b \in Map, NEW id \in Ids
  PROVE  LET d == Difference(a, b, id) IN
         \/ d = <<>> /\ Same(a, b, id)
         \/ /\ Single(d, id, b) \/ Pair(d, id, b)
            /\ (Head(d).updateType = "NEW") = (id \notin DOMAIN a)
            /\ id \in DOMAIN a \cup DOMAIN b
<1> DEFINE d == Difference(a, b, id)
<1>1. CASE id \in DOMAIN a \cap DOMAIN b
  <2>1. a[id] \in Versions /\ b[id] \in Versions
    BY <1>1, MapType
  <2>2. CASE IsUpdated(a[id], b[id])
    <3>1. d = Modified(id, a[id], b[id])
      BY <1>1, <2>2 DEF Difference
    <3> QED
      BY <1>1, <2>1, <3>1, ModifiedFacts
  <2>3. CASE ~IsUpdated(a[id], b[id])
    BY <1>1, <2>3 DEF Difference, Same, StandsFor
  <2> QED
    BY <2>2, <2>3
<1>2. CASE id \in DOMAIN a /\ id \notin DOMAIN b
  <2> DEFINE u == UpdOf(id, a[id], "DELETE")
  <2>1. d = <<u>>
    BY <1>2 DEF Difference
  <2>2. u \in Upd /\ u.id = id /\ u.updateType = "DELETE"
    BY <1>2, MapType DEF UpdOf, Upd, AggUpdateType
  <2>3. Settled(u, b)
    BY <1>2, <2>2 DEF Settled
  <2> HIDE DEF u, d
  <2> QED
    BY <1>2, <2>1, <2>2, <2>3 DEF Single, d
<1>3. CASE id \notin DOMAIN a /\ id \in DOMAIN b
  <2> DEFINE u == UpdOf(id, b[id], "NEW")
  <2>1. d = <<u>>
    BY <1>3 DEF Difference
  <2>2. u \in Upd /\ u.id = id /\ u.updateType = "NEW" /\ u.version = b[id]
    BY <1>3, MapType DEF UpdOf, Upd, AggUpdateType
  <2>3. Settled(u, b)
    BY <1>3, <2>2 DEF Settled
  <2> HIDE DEF u, d
  <2> QED
    BY <1>3, <2>1, <2>2, <2>3 DEF Single, d
<1>4. CASE id \notin DOMAIN a /\ id \notin DOMAIN b
  BY <1>4 DEF Difference, Same
<1> QED
  BY <1>1, <1>2, <1>3, <1>4

(* The updates of a difference are of its id, and in order. *)
LEMMA PairFacts ==
  ASSUME NEW s, NEW id \in Ids, NEW m, Single(s, id, m) \/ Pair(s, id, m)
  PROVE  /\ s \in Seq(Upd) /\ s # <<>> /\ Head(s).id = id
         /\ \A u \in ToSet(s) : u \in Upd /\ u.id = id
         /\ \A i, k \in DOMAIN s : i < k => Before(s[i], s[k])
         /\ Tail(s) = <<>> => Settled(Head(s), m)
         /\ Tail(s) # <<>> => /\ Single(Tail(s), id, m) /\ Head(s).updateType = "DELETE"
                             /\ Head(Tail(s)).updateType = "NEW"
<1>1. CASE Single(s, id, m)
  <2>1. PICK u \in Upd : s = <<u>> /\ u.id = id /\ Settled(u, m)
    BY <1>1 DEF Single
  <2>2. /\ s \in Seq(Upd) /\ s # <<>> /\ Head(s) = u /\ Tail(s) = <<>>
        /\ DOMAIN s = {1} /\ s[1] = u
    BY <2>1
  <2> QED
    BY <2>1, <2>2 DEF ToSet
<1>2. CASE Pair(s, id, m)
  <2>1. PICK u, v \in Upd : /\ s = <<u, v>> /\ u.id = id /\ v.id = id
                            /\ u.updateType = "DELETE" /\ v.updateType = "NEW" /\ Settled(v, m)
    BY <1>2 DEF Pair
  <2>2. /\ s \in Seq(Upd) /\ s # <<>> /\ Head(s) = u /\ Tail(s) = <<v>> /\ Len(s) = 2
        /\ DOMAIN s = {1, 2} /\ s[1] = u /\ s[2] = v /\ <<v>> # <<>> /\ Head(<<v>>) = v
    BY <2>1
  <2>3. Before(u, v)
    BY <2>1 DEF Before
  <2>4. \A i, k \in DOMAIN s : i < k => i = 1 /\ k = 2
    BY <2>2
  <2>5. Single(Tail(s), id, m)
    BY <2>1, <2>2 DEF Single
  <2> QED
    BY <2>1, <2>2, <2>3, <2>4, <2>5 DEF ToSet
<1> QED
  BY <1>1, <1>2

LEMMA DifferenceHead ==
  ASSUME NEW a \in Map, NEW b \in Map, NEW id \in Ids
  PROVE  LET d == Difference(a, b, id) IN
         \/ d = <<>> /\ Same(a, b, id)
         \/ d # <<>> /\ Head(d).id = id
<1> DEFINE d == Difference(a, b, id)
<1>1. \/ d = <<>> /\ Same(a, b, id)
      \/ Single(d, id, b) \/ Pair(d, id, b)
  BY DifferenceFacts
<1> HIDE DEF d
<1>2. Single(d, id, b) \/ Pair(d, id, b) => d # <<>> /\ Head(d).id = id
  BY PairFacts, Zenon
<1>3. (d = <<>> /\ Same(a, b, id)) \/ (d # <<>> /\ Head(d).id = id)
  BY <1>1, <1>2
<1> QED
  BY <1>3 DEF d

LEMMA DifferenceType ==
  ASSUME NEW a \in Map, NEW b \in Map, NEW id \in Ids
  PROVE  Difference(a, b, id) \in Seq(Upd)
<1> DEFINE d == Difference(a, b, id)
<1>1. d = <<>> \/ Single(d, id, b) \/ Pair(d, id, b)
  BY DifferenceFacts
<1> HIDE DEF d
<1>2. d = <<>> => d \in Seq(Upd)
  OBVIOUS
<1>3. Single(d, id, b) \/ Pair(d, id, b) => d \in Seq(Upd)
  BY PairFacts, Zenon
<1>4. d \in Seq(Upd)
  BY <1>1, <1>2, <1>3
<1> QED
  BY <1>4 DEF d

-----------------------------------------------------------------------------
(* The steps. *)

(* A turn of the merge, in any of its loops, passes the least id left and   *)
(* publishes its difference.                                                *)
Turn(id) ==
  /\ resetting /\ outbox = <<>>
  /\ id \in Left /\ \A k \in Left : id <= k
  /\ outbox' = Difference(data, newMap, id)
  /\ existingIt' = existingIt \ {id} /\ newIt' = newIt \ {id}
  /\ UNCHANGED <<updateMode, data, resetting, newMap, clientVars, calls, emitted, logVars, failed>>

LEMMA IteratorFacts ==
  ASSUME DataTypes
  PROVE  /\ existingIt \subseteq Nat /\ newIt \subseteq Nat
         /\ existingIt \subseteq Ids /\ newIt \subseteq Ids
         /\ MoreExisting => eid \in existingIt /\ \A k \in existingIt : eid <= k
         /\ MoreNew => nid \in newIt /\ \A k \in newIt : nid <= k
<1>1. /\ DOMAIN data \subseteq Ids /\ DOMAIN newMap \subseteq Ids /\ Ids \subseteq Nat
  BY MapType, AggAssumption DEF DataTypes
<1>2. existingIt \in SUBSET Nat /\ newIt \in SUBSET Nat
  BY <1>1 DEF DataTypes
<1>3. existingIt \subseteq Ids /\ newIt \subseteq Ids
  BY <1>1 DEF DataTypes
<1>4. MoreExisting => eid \in existingIt /\ \A k \in existingIt : eid <= k
  BY <1>2, MinFacts DEF MoreExisting, eid
<1>5. MoreNew => nid \in newIt /\ \A k \in newIt : nid <= k
  BY <1>2, MinFacts DEF MoreNew, nid
<1> QED
  BY <1>2, <1>3, <1>4, <1>5

LEMMA MergeTurns ==
  ASSUME DataTypes, MergeInv, Merge
  PROVE  Turn(IF eid <= nid THEN eid ELSE nid)
<1> /\ resetting /\ outbox = <<>> /\ MoreExisting /\ MoreNew
    /\ UNCHANGED <<updateMode, data, resetting, newMap, clientVars, calls, emitted, logVars, failed>>
  BY DEF Merge
<1>1. /\ eid \in existingIt /\ \A k \in existingIt : eid <= k
      /\ nid \in newIt /\ \A k \in newIt : nid <= k
      /\ existingIt \subseteq Nat /\ newIt \subseteq Nat
  BY IteratorFacts
<1>2. eid \in Nat /\ nid \in Nat /\ eid \in DOMAIN data /\ nid \in DOMAIN newMap
  BY <1>1 DEF DataTypes
<1>3. \A i \in DOMAIN data \cap DOMAIN newMap : i \in existingIt <=> i \in newIt
  BY DEF MergeInv
<1>4. /\ outbox' = IF eid = nid /\ IsUpdated(data[eid], newMap[nid])
                   THEN Modified(eid, data[eid], newMap[nid])
                   ELSE IF eid < nid THEN <<UpdOf(eid, data[eid], "DELETE")>>
                   ELSE IF eid > nid THEN <<UpdOf(nid, newMap[nid], "NEW")>>
                   ELSE <<>>
      /\ existingIt' = IF eid <= nid THEN existingIt \ {eid} ELSE existingIt
      /\ newIt' = IF eid >= nid THEN newIt \ {nid} ELSE newIt
  BY DEF Merge
<1>5. CASE eid = nid
  <2>1. outbox' = Difference(data, newMap, eid)
    BY <1>2, <1>4, <1>5 DEF Difference
  <2>2. existingIt' = existingIt \ {eid} /\ newIt' = newIt \ {eid}
    BY <1>2, <1>4, <1>5
  <2> QED
    BY <1>1, <1>2, <1>5, <2>1, <2>2 DEF Turn, Left
<1>6. CASE eid < nid
  <2>1. eid \notin newIt
    BY <1>1, <1>2, <1>6
  <2>2. eid \notin DOMAIN newMap
    BY <1>1, <1>2, <1>3, <2>1
  <2>3. outbox' = Difference(data, newMap, eid)
    BY <1>2, <1>4, <1>6, <2>2 DEF Difference
  <2>4. existingIt' = existingIt \ {eid} /\ newIt' = newIt \ {eid}
    BY <1>2, <1>4, <1>6, <2>1
  <2>5. \A k \in Left : eid <= k
    BY <1>1, <1>2, <1>6 DEF Left
  <2>6. eid <= nid /\ eid \in Left
    BY <1>1, <1>2, <1>6 DEF Left
  <2> QED
    BY <2>3, <2>4, <2>5, <2>6 DEF Turn
<1>7. CASE nid < eid
  <2>1. nid \notin existingIt
    BY <1>1, <1>2, <1>7
  <2>2. nid \notin DOMAIN data
    BY <1>1, <1>2, <1>3, <2>1
  <2>3. outbox' = Difference(data, newMap, nid)
    BY <1>2, <1>4, <1>7, <2>2 DEF Difference
  <2>4. existingIt' = existingIt \ {nid} /\ newIt' = newIt \ {nid}
    BY <1>2, <1>4, <1>7, <2>1
  <2>5. \A k \in Left : nid <= k
    BY <1>1, <1>2, <1>7 DEF Left
  <2>6. ~(eid <= nid) /\ nid \in Left
    BY <1>1, <1>2, <1>7 DEF Left
  <2> QED
    BY <2>3, <2>4, <2>5, <2>6 DEF Turn
<1> QED
  BY <1>2, <1>5, <1>6, <1>7

LEMMA LeftoverTurns ==
  ASSUME DataTypes, MergeInv, Leftover
  PROVE  \E id \in Ids : Turn(id)
<1> /\ resetting /\ outbox = <<>>
    /\ UNCHANGED <<updateMode, data, resetting, newMap, clientVars, calls, emitted, logVars, failed>>
  BY DEF Leftover
<1>1. \A i \in DOMAIN data \cap DOMAIN newMap : i \in existingIt <=> i \in newIt
  BY DEF MergeInv
<1>2. CASE MoreExisting /\ ~MoreNew
  <2>1. /\ outbox' = <<UpdOf(eid, data[eid], "DELETE")>>
        /\ existingIt' = existingIt \ {eid} /\ newIt' = newIt /\ newIt = {}
    BY <1>2 DEF Leftover, MoreExisting, MoreNew
  <2>2. eid \in existingIt /\ \A k \in existingIt : eid <= k
    BY <1>2, IteratorFacts
  <2>3. eid \in Ids /\ eid \in DOMAIN data /\ eid \notin DOMAIN newMap
    BY <1>1, <2>1, <2>2, IteratorFacts DEF DataTypes
  <2>4. outbox' = Difference(data, newMap, eid)
    BY <2>1, <2>3 DEF Difference
  <2> QED
    BY <2>1, <2>2, <2>3, <2>4 DEF Turn, Left
<1>3. CASE ~MoreExisting /\ MoreNew
  <2>1. /\ outbox' = <<UpdOf(nid, newMap[nid], "NEW")>>
        /\ newIt' = newIt \ {nid} /\ existingIt' = existingIt /\ existingIt = {}
    BY <1>3 DEF Leftover, MoreExisting, MoreNew
  <2>2. nid \in newIt /\ \A k \in newIt : nid <= k
    BY <1>3, IteratorFacts
  <2>3. nid \in Ids /\ nid \in DOMAIN newMap /\ nid \notin DOMAIN data
    BY <1>1, <2>1, <2>2, IteratorFacts DEF DataTypes
  <2>4. outbox' = Difference(data, newMap, nid)
    BY <2>1, <2>3 DEF Difference
  <2> QED
    BY <2>1, <2>2, <2>3, <2>4 DEF Turn, Left
<1> QED
  BY <1>2, <1>3 DEF Leftover

(* The steps of Next as one list. *)
LEMMA NextCases ==
  ASSUME DataTypes, MergeInv, Next
  PROVE  \/ \E m \in Message : Update(m)
         \/ \E msgs \in Seq(Message) : ResetMessages(msgs)
         \/ \E id \in Ids : Turn(id)
         \/ Publish
         \/ PublishThrows
         \/ Replace
         \/ \E c \in Clients :
              \/ \E f \in Filters : NewClient(c, f)
              \/ InstallClient(c)
              \/ GetNextMessage(c)
<1>1. CASE Calls
  <2>1. BoundedSeq(Message, MaxReset) \subseteq Seq(Message)
    BY AggAssumption DEF BoundedSeq, SeqOf
  <2> QED
    BY <1>1, <2>1 DEF Calls
<1>2. CASE Merge
  <2>1. (IF eid <= nid THEN eid ELSE nid) \in Ids
    BY <1>2, IteratorFacts DEF Merge
  <2> QED
    BY <1>2, <2>1, MergeTurns
<1>3. CASE Leftover
  BY <1>3, LeftoverTurns
<1>4. CASE Publish \/ PublishThrows \/ Replace
  BY <1>4
<1>5. CASE \E c \in Clients : ClientSteps(c)
  BY <1>5 DEF ClientSteps
<1> QED
  BY <1>1, <1>2, <1>3, <1>4, <1>5 DEF Next, PublisherSteps

(* Update publishes the difference that it makes. *)
LEMMA UpdateFacts ==
  ASSUME DataTypes, NEW m \in Message, Update(m)
  PROVE  /\ outbox = <<>> /\ ~resetting
         /\ m.id \in Ids /\ data' \in Map
         /\ outbox' = Difference(data, data', m.id)
         /\ DOMAIN data \subseteq DOMAIN data'
         /\ \A i : i # m.id => /\ i \in DOMAIN data' <=> i \in DOMAIN data
                               /\ i \in DOMAIN data => data'[i] = data[i]
<1> DEFINE known == m.id \in DOMAIN data
           updated == known /\ IsUpdated(data[m.id], m.version)
           stored == Put(data, m.id, m.version)
<1>1. m.id \in Ids /\ m.version \in Versions /\ data \in Map
  BY DEF Message, DataTypes
<1>2. /\ stored \in Map /\ DOMAIN stored = DOMAIN data \cup {m.id}
      /\ stored[m.id] = m.version
      /\ \A i \in DOMAIN data : i # m.id => stored[i] = data[i]
  BY <1>1, PutMap
<1>3. /\ data' = IF ~known \/ updated THEN stored ELSE data
      /\ outbox' = IF ~known THEN <<UpdOf(m.id, m.version, "NEW")>>
                   ELSE IF updated THEN Modified(m.id, data[m.id], m.version)
                   ELSE <<>>
      /\ outbox = <<>> /\ ~resetting
  BY DEF Update, Call, Idle
<1> HIDE DEF stored
<1>4. CASE ~known \/ updated
  <2>1. data' = stored
    BY <1>3, <1>4
  <2>2. outbox' = Difference(data, data', m.id)
    BY <1>2, <1>3, <1>4, <2>1 DEF Difference
  <2> QED
    BY <1>1, <1>2, <1>3, <2>1, <2>2
<1>5. CASE known /\ ~updated
  <2>1. data' = data /\ outbox' = <<>>
    BY <1>3, <1>5
  <2>2. Difference(data, data', m.id) = <<>>
    BY <1>5, <2>1 DEF Difference, IsUpdated, IsAggEqual
  <2> QED
    BY <1>1, <1>3, <2>1, <2>2
<1> QED
  BY <1>4, <1>5

(* Sequences of updates, element by element. *)
LEMMA SeqFacts ==
  ASSUME NEW S, NEW s \in Seq(S)
  PROVE  /\ Len(s) \in Nat /\ DOMAIN s = 1 .. Len(s)
         /\ ToSet(s) \subseteq S /\ \A i \in DOMAIN s : s[i] \in ToSet(s)
         /\ s # <<>> => Head(s) \in S /\ Head(s) \in ToSet(s) /\ Tail(s) \in Seq(S)
<1>1. Len(s) \in Nat /\ DOMAIN s = 1 .. Len(s) /\ \A i \in DOMAIN s : s[i] \in S
  OBVIOUS
<1>2. ToSet(s) \subseteq S /\ \A i \in DOMAIN s : s[i] \in ToSet(s)
  BY <1>1 DEF ToSet
<1>3. s # <<>> => Head(s) = s[1] /\ 1 \in DOMAIN s /\ Tail(s) \in Seq(S)
  OBVIOUS
<1> QED
  BY <1>1, <1>2, <1>3

LEMMA AppendFacts ==
  ASSUME NEW S, NEW s \in Seq(S), NEW x \in S
  PROVE  Append(s, x) \in Seq(S) /\ ToSet(Append(s, x)) = ToSet(s) \cup {x}
<1>1. /\ Append(s, x) \in Seq(S) /\ Len(s) \in Nat
      /\ DOMAIN s = 1 .. Len(s) /\ DOMAIN Append(s, x) = 1 .. Len(s) + 1
      /\ \A i \in DOMAIN s : Append(s, x)[i] = s[i]
      /\ Append(s, x)[Len(s) + 1] = x
  OBVIOUS
<1>2. DOMAIN Append(s, x) = DOMAIN s \cup {Len(s) + 1}
  BY <1>1
<1> QED
  BY <1>1, <1>2 DEF ToSet

(* What a publication does to the clients. *)
LEMMA ServedFacts ==
  ASSUME ClientTypes
  PROVE  /\ Served \subseteq ToSet(clients) /\ ToSet(clients) \subseteq Clients
         /\ \A c \in Served : ~Full(c) /\ phase[c] = "installed"
         /\ ~(\E c \in ToSet(clients) : Full(c)) => Served = ToSet(clients)
<1>1. clients \in Seq(Clients)
  BY DEF ClientTypes
<1>2. Len(clients) \in Nat /\ DOMAIN clients = 1 .. Len(clients) /\ ToSet(clients) \subseteq Clients
  BY <1>1, SeqFacts
<1>3. Served \subseteq ToSet(clients)
  BY DEF Served, ToSet
<1>4. \A c \in Served : ~Full(c)
  <2> TAKE c \in Served
  <2>1. PICK k \in DOMAIN clients : c = clients[k] /\ \A j \in 1 .. k : ~Full(clients[j])
    BY DEF Served
  <2>2. k \in 1 .. k
    BY <1>2
  <2> QED
    BY <2>1, <2>2
<1>5. ASSUME ~(\E c \in ToSet(clients) : Full(c))  PROVE ToSet(clients) \subseteq Served
  <2> SUFFICES ASSUME NEW k \in DOMAIN clients  PROVE clients[k] \in Served
    BY DEF ToSet
  <2>1. \A j \in 1 .. k : j \in DOMAIN clients
    BY <1>2
  <2>2. \A j \in 1 .. k : ~Full(clients[j])
    BY <1>5, <2>1 DEF ToSet
  <2> QED
    BY <2>2 DEF Served
<1>6. \A c \in Served : phase[c] = "installed"
  BY <1>2, <1>3 DEF ClientTypes
<1> QED
  BY <1>2, <1>3, <1>4, <1>5, <1>6

LEMMA SendFacts ==
  ASSUME ClientTypes, NEW u \in Upd, Send(u)
  PROVE  /\ copy' \in [Clients -> Map] /\ unread' \in [Clients -> Nat]
         /\ missed' \in [Clients -> SUBSET Ids]
         /\ \A c \in Clients : unread'[c] <= Capacity
         /\ \A c \in Clients :
              /\ copy'[c] = IF c \in Served THEN Apply(copy[c], u) ELSE copy[c]
              /\ unread'[c] > unread[c] => c \in Served
              /\ \A id : id # u.id => (id \in missed'[c] <=> id \in missed[c])
              /\ c \notin Served /\ phase[c] = "created" /\ u.id \notin missed'[c]
                   => Apply(copy[c], u) = copy[c]
<1> u.id \in Ids
  BY DEF Upd
<1>1. \A c \in Clients : Apply(copy[c], u) \in Map
  BY ApplyMap DEF ClientTypes
<1>2. copy' \in [Clients -> Map]
  BY <1>1 DEF Send, ClientTypes
<1>3. /\ unread' \in [Clients -> Nat] /\ \A c \in Clients : unread'[c] <= Capacity
      /\ \A c \in Clients : unread'[c] > unread[c] => c \in Served
  <2>1. \A c \in Clients : c \in Served => unread[c] < Capacity
    BY ServedFacts, AggAssumption DEF Full, ClientTypes
  <2> QED
    BY <2>1, AggAssumption DEF Send, ClientTypes
<1>4. missed' \in [Clients -> SUBSET Ids]
  BY DEF Send, ClientTypes
<1>5. \A c \in Clients : /\ copy'[c] = IF c \in Served THEN Apply(copy[c], u) ELSE copy[c]
                         /\ \A id : id # u.id => (id \in missed'[c] <=> id \in missed[c])
                         /\ c \notin Served /\ phase[c] = "created" /\ u.id \notin missed'[c]
                              => Apply(copy[c], u) = copy[c]
  BY DEF Send
<1> QED
  BY <1>2, <1>3, <1>4, <1>5

-----------------------------------------------------------------------------
(* Types. *)
LEMMA DataStep ==
  ASSUME TypeInv, MergeInv, [Next]_vars
  PROVE  DataTypes'
<1> USE DEF TypeInv
<1>1. /\ updateMode \in Modes
      /\ data \in Map /\ newMap \in Map /\ resetting \in BOOLEAN
      /\ existingIt \subseteq DOMAIN data /\ newIt \subseteq DOMAIN newMap
      /\ outbox \in Seq(Upd) /\ emitted \in Seq(Upd)
      /\ calls \in 0 .. MaxCalls /\ dirty \subseteq Ids
      /\ failed \subseteq [target : Map, left : SUBSET Ids]
      /\ ~resetting => newMap = empty /\ existingIt = {} /\ newIt = {} /\ emitted = <<>>
  BY DEF DataTypes
<1>2. /\ outbox # <<>> => Head(outbox) \in Upd /\ Tail(outbox) \in Seq(Upd)
      /\ \A u \in ToSet(emitted) : u \in Upd
  BY <1>1, SeqFacts
<1>3. ASSUME NEW m \in Message, Update(m)  PROVE DataTypes'
  <2>1. outbox' \in Seq(Upd)
    BY <1>1, <1>3, UpdateFacts, DifferenceType
  <2>2. calls' \in 0 .. MaxCalls
    BY <1>1, <1>3, AggAssumption DEF Update, Call
  <2>3. data' \in Map /\ ~resetting
    BY <1>3, UpdateFacts
  <2>4. /\ failed' = {} /\ UNCHANGED <<resetVars, updateMode, logVars, emitted>>
    BY <1>3 DEF Update, Call
  <2> QED
    BY <1>1, <2>1, <2>2, <2>3, <2>4 DEF DataTypes, resetVars, logVars
<1>4. ASSUME NEW msgs \in Seq(Message), ResetMessages(msgs)  PROVE DataTypes'
  <2>1. calls' \in 0 .. MaxCalls
    BY <1>1, <1>4, AggAssumption DEF ResetMessages, Call
  <2>2. newMap' \in Map
    BY <1>4, MapOfMap DEF ResetMessages
  <2>3. /\ UNCHANGED <<data, outbox, failed, updateMode, logVars, emitted>>
        /\ resetting' = TRUE /\ existingIt' = DOMAIN data /\ newIt' = DOMAIN newMap'
    BY <1>4 DEF ResetMessages, Call
  <2> QED
    BY <1>1, <2>1, <2>2, <2>3 DEF DataTypes, logVars
<1>5. ASSUME NEW id \in Ids, Turn(id)  PROVE DataTypes'
  <2>1. outbox' \in Seq(Upd)
    BY <1>1, <1>5, DifferenceType DEF Turn
  <2> QED
    BY <1>1, <1>5, <2>1 DEF DataTypes, Turn, logVars
<1>6. CASE Publish
  <2>1. outbox # <<>> /\ UNCHANGED <<data, resetVars, failed, updateMode, calls>>
    BY <1>6 DEF Publish, Send
  <2>2. outbox' \in Seq(Upd) /\ emitted' \in Seq(Upd) /\ (~resetting => emitted' = emitted)
    BY <1>1, <1>2, <1>6, <2>1, AppendFacts DEF Publish
  <2>3. dirty' \subseteq Ids
    BY <1>1, <1>6 DEF Publish
  <2> QED
    BY <1>1, <2>1, <2>2, <2>3 DEF DataTypes, resetVars
<1>7. CASE PublishThrows
  <2>1. /\ outbox # <<>> /\ UNCHANGED <<data, updateMode, calls>>
        /\ outbox' = <<>> /\ emitted' = <<>>
        /\ resetting' = FALSE /\ newMap' = empty /\ existingIt' = {} /\ newIt' = {}
    BY <1>7 DEF PublishThrows, Send
  <2>2. dirty' \subseteq Ids
    BY <1>1, <1>2, <1>7 DEF PublishThrows, Upd
  <2>3. failed' \subseteq [target : Map, left : SUBSET Ids]
    BY <1>1, <1>7 DEF PublishThrows
  <2>4. newMap' \in Map /\ existingIt' \subseteq DOMAIN data' /\ newIt' \subseteq DOMAIN newMap'
    BY <2>1, EmptyMap
  <2>5. outbox' \in Seq(Upd) /\ emitted' \in Seq(Upd)
    BY <2>1
  <2>6. resetting' \in BOOLEAN
    BY <2>1
  <2>7. updateMode' \in Modes /\ data' \in Map /\ calls' \in 0 .. MaxCalls
    BY <1>1, <2>1
  <2> QED
    BY <2>1, <2>2, <2>3, <2>4, <2>5, <2>6, <2>7, Zenon DEF DataTypes
<1>8. CASE Replace
  <2>1. /\ data' = newMap /\ resetting' = FALSE /\ newMap' = empty
        /\ existingIt' = {} /\ newIt' = {} /\ emitted' = <<>> /\ failed' = {}
        /\ UNCHANGED <<updateMode, outbox, calls, dirty>>
    BY <1>8 DEF Replace, logVars
  <2>2. newMap' \in Map /\ existingIt' \subseteq DOMAIN data' /\ newIt' \subseteq DOMAIN newMap'
    BY <2>1, EmptyMap
  <2>3. /\ updateMode' \in Modes /\ data' \in Map /\ calls' \in 0 .. MaxCalls
        /\ dirty' \subseteq Ids /\ failed' \subseteq [target : Map, left : SUBSET Ids]
    BY <1>1, <2>1
  <2>4. outbox' \in Seq(Upd) /\ emitted' \in Seq(Upd)
    BY <1>1, <2>1
  <2>5. resetting' \in BOOLEAN
    BY <2>1
  <2> QED
    BY <2>1, <2>2, <2>3, <2>4, <2>5, Zenon DEF DataTypes
<1>9. ASSUME NEW c \in Clients,
             (\E f \in Filters : NewClient(c, f)) \/ InstallClient(c) \/ GetNextMessage(c)
      PROVE  DataTypes'
  BY <1>1, <1>9 DEF NewClient, InstallClient, GetNextMessage, DataTypes, resetVars, logVars
<1>10. CASE UNCHANGED vars
  BY <1>1, <1>10 DEF vars, DataTypes, resetVars, logVars
<1> QED
  BY <1>3, <1>4, <1>5, <1>6, <1>7, <1>8, <1>9, <1>10, NextCases

LEMMA ClientStep ==
  ASSUME TypeInv, MergeInv, [Next]_vars
  PROVE  ClientTypes'
<1> USE DEF TypeInv
<1>1. /\ clients \in Seq(Clients)
      /\ phase \in [Clients -> {"none", "created", "installed"}]
      /\ filter \in [Clients -> Filters]
      /\ copy \in [Clients -> Map]
      /\ unread \in [Clients -> Nat]
      /\ ahead \in [Clients -> SUBSET Ids] /\ missed \in [Clients -> SUBSET Ids]
      /\ \A c \in Clients : unread[c] <= Capacity
      /\ \A c \in Clients : phase[c] = "installed" <=> c \in ToSet(clients)
  BY DEF ClientTypes
<1>2. /\ outbox # <<>> => Head(outbox) \in Upd
      /\ \A u \in ToSet(outbox) : u.id \in Ids
  <2>1. outbox \in Seq(Upd)
    BY DEF DataTypes
  <2>2. (outbox # <<>> => Head(outbox) \in Upd) /\ ToSet(outbox) \subseteq Upd
    BY <2>1, SeqFacts
  <2> QED
    BY <2>2 DEF Upd
<1>3. CASE UNCHANGED <<clientVars, ahead, missed>>
  BY <1>1, <1>3 DEF ClientTypes, clientVars
<1>4. CASE Publish \/ PublishThrows
  <2>1. outbox # <<>> /\ Send(Head(outbox))
    BY <1>4 DEF Publish, PublishThrows
  <2>2. /\ copy' \in [Clients -> Map] /\ unread' \in [Clients -> Nat]
        /\ missed' \in [Clients -> SUBSET Ids]
        /\ \A c \in Clients : unread'[c] <= Capacity
    BY <1>2, <2>1, SendFacts
  <2>3. ahead' \in [Clients -> SUBSET Ids]
    BY <1>1, <1>4 DEF Publish, PublishThrows
  <2>4. UNCHANGED <<clients, phase, filter>>
    BY <2>1 DEF Send
  <2> QED
    BY <1>1, <2>2, <2>3, <2>4 DEF ClientTypes
<1>5. ASSUME NEW c \in Clients, NEW f \in Filters, NewClient(c, f)  PROVE ClientTypes'
  <2> DEFINE kept == {id \in DOMAIN data : data[id] \in f}
             snapshot == [id \in kept |-> data[id]]
  <2>1. snapshot \in Map /\ Cardinality(kept) \in Nat
    BY SnapshotMap DEF DataTypes
  <2>2. /\ phase[c] = "none" /\ Cardinality(kept) <= Capacity
        /\ phase' = [phase EXCEPT ![c] = "created"]
        /\ filter' = [filter EXCEPT ![c] = f]
        /\ copy' = [copy EXCEPT ![c] = snapshot]
        /\ unread' = [unread EXCEPT ![c] = Cardinality(kept)]
        /\ ahead' = [ahead EXCEPT ![c] = {u.id : u \in ToSet(outbox)}]
        /\ UNCHANGED <<clients, missed>>
    BY <1>5 DEF NewClient
  <2> HIDE DEF kept, snapshot
  <2>3. {u.id : u \in ToSet(outbox)} \subseteq Ids
    BY <1>2
  <2>4. ahead' \in [Clients -> SUBSET Ids]
    BY <1>1, <2>2, <2>3
  <2>5. \A x \in Clients : phase'[x] = "installed" <=> x \in ToSet(clients')
    BY <1>1, <2>2
  <2>6. /\ unread' \in [Clients -> Nat] /\ \A x \in Clients : unread'[x] <= Capacity
    BY <1>1, <2>1, <2>2
  <2>7. /\ phase' \in [Clients -> {"none", "created", "installed"}]
        /\ filter' \in [Clients -> Filters] /\ copy' \in [Clients -> Map]
    BY <1>1, <2>1, <2>2
  <2> QED
    BY <1>1, <2>2, <2>4, <2>5, <2>6, <2>7 DEF ClientTypes
<1>6. ASSUME NEW c \in Clients, InstallClient(c)  PROVE ClientTypes'
  <2>1. /\ phase' = [phase EXCEPT ![c] = "installed"] /\ clients' = Append(clients, c)
        /\ UNCHANGED <<filter, copy, unread, ahead, missed>>
    BY <1>6 DEF InstallClient, logVars
  <2>2. clients' \in Seq(Clients) /\ ToSet(clients') = ToSet(clients) \cup {c}
    BY <1>1, <2>1, AppendFacts
  <2> QED
    BY <1>1, <2>1, <2>2 DEF ClientTypes
<1>7. ASSUME NEW c \in Clients, GetNextMessage(c)  PROVE ClientTypes'
  <2>1. /\ unread[c] > 0 /\ unread' = [unread EXCEPT ![c] = @ - 1]
        /\ UNCHANGED <<clients, phase, filter, copy, ahead, missed>>
    BY <1>7 DEF GetNextMessage, logVars
  <2>2. unread' \in [Clients -> Nat] /\ \A x \in Clients : unread'[x] <= Capacity
    BY <1>1, <2>1, AggAssumption
  <2> QED
    BY <1>1, <2>1, <2>2 DEF ClientTypes
<1>8. ASSUME \/ \E m \in Message : Update(m)
             \/ \E msgs \in Seq(Message) : ResetMessages(msgs)
             \/ \E id \in Ids : Turn(id)
             \/ Replace \/ UNCHANGED vars
      PROVE  UNCHANGED <<clientVars, ahead, missed>>
  BY <1>8 DEF Update, ResetMessages, Call, Turn, Replace, vars, clientVars, logVars
<1> QED
  BY <1>3, <1>4, <1>5, <1>6, <1>7, <1>8, NextCases

-----------------------------------------------------------------------------
(* The mode is fixed: so is what the difference of two maps is. *)
LEMMA ModeFixed ==
  ASSUME TypeInv, MergeInv, [Next]_vars
  PROVE  updateMode' = updateMode
<1> USE DEF TypeInv
<1>1. CASE UNCHANGED vars
  BY <1>1 DEF vars
<1>2. CASE Next
  BY <1>2, NextCases
     DEF Update, ResetMessages, Call, Turn, Publish, PublishThrows, Send, Replace,
         NewClient, InstallClient, GetNextMessage
<1> QED
  BY <1>1, <1>2

LEMMA DifferenceSame ==
  ASSUME updateMode' = updateMode
  PROVE  /\ \A id : Difference(data, newMap, id)' = Difference(data', newMap', id)
         /\ \A t, id : Difference(data, t, id)' = Difference(data', t, id)
BY DEF Difference, Modified, IsUpdated, replace_mods, diffUpdates, UpdOf

(* The steps of the clients, and no step, change neither the data sets nor  *)
(* what is published.                                                       *)
LEMMA ClientFrame ==
  ASSUME \/ \E c \in Clients :
              \/ \E f \in Filters : NewClient(c, f)
              \/ InstallClient(c)
              \/ GetNextMessage(c)
         \/ UNCHANGED vars
  PROVE  UNCHANGED <<updateMode, data, resetting, newMap, existingIt, newIt, outbox, emitted,
                     missed, dirty, failed>>
BY DEF NewClient, InstallClient, GetNextMessage, vars, resetVars, logVars

-----------------------------------------------------------------------------
(* The updates that wait. *)
LEMMA OutboxStep ==
  ASSUME TypeInv, OutboxInv, MergeInv, [Next]_vars
  PROVE  OutboxInv'
<1> USE DEF TypeInv
<1>1. ASSUME NEW m \in Message, Update(m)  PROVE OutboxInv'
  <2>1. /\ m.id \in Ids /\ data \in Map /\ data' \in Map /\ ~resetting
        /\ outbox' = Difference(data, data', m.id)
    BY <1>1, UpdateFacts DEF DataTypes
  <2>2. outbox' = <<>> \/ Single(outbox', m.id, data') \/ Pair(outbox', m.id, data')
    BY <2>1, DifferenceFacts
  <2>3. Left' = {} /\ Goal' = data'
    BY <1>1, <2>1 DEF Update, resetVars, Left, Goal, DataTypes
  <2> QED
    BY <2>1, <2>2, <2>3 DEF OutboxInv
<1>2. ASSUME NEW id \in Ids, Turn(id)  PROVE OutboxInv'
  <2>1. data \in Map /\ newMap \in Map /\ outbox' = Difference(data, newMap, id)
    BY <1>2 DEF Turn, DataTypes
  <2>2. outbox' = <<>> \/ Single(outbox', id, newMap) \/ Pair(outbox', id, newMap)
    BY <2>1, DifferenceFacts
  <2>3. id \notin Left' /\ Goal' = newMap
    BY <1>2 DEF Turn, Left, Goal
  <2> QED
    BY <2>2, <2>3 DEF OutboxInv
<1>3. CASE Publish
  <2>1. outbox # <<>> /\ outbox' = Tail(outbox) /\ UNCHANGED <<data, resetVars>>
    BY <1>3 DEF Publish
  <2>2. PICK id \in Ids \ Left : Single(outbox, id, Goal) \/ Pair(outbox, id, Goal)
    BY <2>1 DEF OutboxInv
  <2>3. outbox' # <<>> => Single(outbox', id, Goal)
    BY <2>1, <2>2, PairFacts
  <2>4. Left' = Left /\ Goal' = Goal
    BY <2>1 DEF Left, Goal, resetVars
  <2> QED
    BY <2>2, <2>3, <2>4 DEF OutboxInv
<1>4. CASE PublishThrows
  BY <1>4 DEF PublishThrows, OutboxInv
<1>5. CASE Replace \/ \E msgs \in Seq(Message) : ResetMessages(msgs)
  BY <1>5 DEF Replace, MergeDone, ResetMessages, Call, Idle, OutboxInv
<1>6. CASE UNCHANGED <<data, resetting, newMap, existingIt, newIt, outbox>>
  BY <1>6 DEF OutboxInv, Left, Goal
<1> QED
  BY <1>1, <1>2, <1>3, <1>4, <1>5, <1>6, NextCases, ClientFrame

-----------------------------------------------------------------------------
(* The merge. *)
LEMMA ConcatFacts ==
  ASSUME NEW S, NEW s \in Seq(S), NEW t \in Seq(S)
  PROVE  /\ Len(s) \in Nat /\ DOMAIN s = 1 .. Len(s) /\ DOMAIN t = 1 .. Len(t)
         /\ DOMAIN (s \o t) = 1 .. Len(s) + Len(t)
         /\ \A k \in DOMAIN s : (s \o t)[k] = s[k]
         /\ \A k \in DOMAIN t : (s \o t)[Len(s) + k] = t[k]
         /\ ToSet(s \o t) = ToSet(s) \cup ToSet(t)
<1>1. /\ Len(s) \in Nat /\ Len(t) \in Nat /\ DOMAIN s = 1 .. Len(s) /\ DOMAIN t = 1 .. Len(t)
      /\ DOMAIN (s \o t) = 1 .. Len(s) + Len(t)
      /\ \A k \in DOMAIN s : (s \o t)[k] = s[k]
      /\ \A k \in DOMAIN t : (s \o t)[Len(s) + k] = t[k]
  OBVIOUS
<1>2. \A k \in DOMAIN (s \o t) : k \in DOMAIN s \/ \E j \in DOMAIN t : k = Len(s) + j
  <2> TAKE k \in DOMAIN (s \o t)
  <2>1. k > Len(s) => k - Len(s) \in DOMAIN t /\ k = Len(s) + (k - Len(s))
    BY <1>1
  <2>2. k \in 1 .. Len(s) + Len(t)
    BY <1>1
  <2> QED
    BY <1>1, <2>1, <2>2
<1>3. \A k \in DOMAIN s : k \in DOMAIN (s \o t)
  BY <1>1
<1>4. \A k \in DOMAIN t : Len(s) + k \in DOMAIN (s \o t)
  BY <1>1
<1>5. ToSet(s \o t) \subseteq ToSet(s) \cup ToSet(t)
  BY <1>1, <1>2 DEF ToSet
<1>6. ToSet(s) \subseteq ToSet(s \o t) /\ ToSet(t) \subseteq ToSet(s \o t)
  BY <1>1, <1>3, <1>4 DEF ToSet
<1> QED
  BY <1>1, <1>5, <1>6

LEMMA ConcatSet ==
  ASSUME NEW S, NEW s \in Seq(S), NEW t \in Seq(S)
  PROVE  ToSet(s \o t) = ToSet(s) \cup ToSet(t)
BY ConcatFacts

LEMMA PassOn ==
  ASSUME NEW S, NEW s \in Seq(S), NEW t \in Seq(S), t # <<>>
  PROVE  Append(s, Head(t)) \o Tail(t) = s \o t
OBVIOUS

(* A turn keeps the account: what it adds is the difference of the least id *)
(* that was left, after all that went before.                               *)
LEMMA TurnStep ==
  ASSUME TypeInv, MergeInv, NEW id \in Ids, Turn(id)
  PROVE  MergeInv'
<1> USE DEF TypeInv
<1> DEFINE d == Difference(data, newMap, id)
<1>1. /\ resetting /\ outbox = <<>> /\ id \in Left /\ \A k \in Left : id <= k
      /\ outbox' = d /\ Left' = Left \ {id}
      /\ UNCHANGED <<updateMode, data, newMap, resetting, emitted>>
  BY DEF Turn, Left
<1>2. /\ \A i \in Left, k \in Passed : k < i
      /\ \A i \in DOMAIN data \cap DOMAIN newMap : i \in existingIt <=> i \in newIt
      /\ \A u \in Upd :
           u \in ToSet(Sent) <=> u.id \notin Left /\ u \in ToSet(Difference(data, newMap, u.id))
      /\ \A i, k \in DOMAIN Sent : i < k => Before(Sent[i], Sent[k])
  BY <1>1, Zenon DEF MergeInv
<1>3. /\ Left \subseteq Nat /\ Left \subseteq Ids /\ data \in Map /\ newMap \in Map
      /\ emitted \in Seq(Upd) /\ id \in Nat
  BY IteratorFacts, AggAssumption DEF Left, DataTypes
<1>4. d \in Seq(Upd)
  BY <1>3, DifferenceType
<1> HIDE DEF d
<1>5. Sent = emitted /\ Sent' = emitted \o d
  BY <1>1, <1>3 DEF Sent
<1>6. /\ \A u \in ToSet(d) : u \in Upd /\ u.id = id
      /\ \A i, k \in DOMAIN d : i < k => Before(d[i], d[k])
      /\ d # <<>> => id \in DOMAIN data \cup DOMAIN newMap
  <2>1. CASE d = <<>>
    BY <2>1 DEF ToSet
  <2>2. CASE d # <<>>
    <3>1. /\ Single(d, id, newMap) \/ Pair(d, id, newMap)
          /\ id \in DOMAIN data \cup DOMAIN newMap
      BY <1>3, <2>2, DifferenceFacts DEF d
    <3> QED
      BY <3>1, PairFacts, Zenon
  <2> QED
    BY <2>1, <2>2
<1>7. \A i \in Left', k \in Passed' : k < i
  <2> TAKE i \in Left', k \in Passed'
  <2>1. i \in Left /\ i # id /\ (k \in Passed \/ k = id)
    BY <1>1 DEF Passed
  <2> QED
    BY <1>1, <1>2, <1>3, <2>1
<1>8. \A i \in DOMAIN data' \cap DOMAIN newMap' : i \in existingIt' <=> i \in newIt'
  BY <1>1, <1>2 DEF Turn
<1>9. \A u \in Upd : u \in ToSet(Sent') <=> /\ u.id \notin Left'
                                          /\ u \in ToSet(Difference(data, newMap, u.id)')
  <2> TAKE u \in Upd
  <2>1. ToSet(Sent') = ToSet(emitted) \cup ToSet(d)
    BY <1>3, <1>4, <1>5, ConcatSet
  <2>2. Difference(data, newMap, u.id)' = Difference(data, newMap, u.id)
    BY <1>1, DifferenceSame
  <2>3. u \in ToSet(emitted) <=> u.id \notin Left /\ u \in ToSet(Difference(data, newMap, u.id))
    BY <1>2, <1>5
  <2>4. CASE u.id = id
    BY <1>1, <2>1, <2>2, <2>3, <2>4 DEF d
  <2>5. CASE u.id # id
    BY <1>1, <1>6, <2>1, <2>2, <2>3, <2>5
  <2> QED
    BY <2>4, <2>5
<1>10. \A i, k \in DOMAIN Sent' : i < k => Before(Sent'[i], Sent'[k])
  <2> DEFINE n == Len(emitted)
  <2>1. /\ n \in Nat /\ DOMAIN emitted = 1 .. n /\ DOMAIN d = 1 .. Len(d) /\ Len(d) \in Nat
        /\ DOMAIN Sent' = 1 .. n + Len(d)
        /\ \A k \in DOMAIN emitted : Sent'[k] = emitted[k]
        /\ \A k \in DOMAIN d : Sent'[n + k] = d[k]
    BY <1>3, <1>4, <1>5, ConcatFacts
  <2> HIDE DEF n
  <2> SUFFICES ASSUME NEW i \in DOMAIN Sent', NEW k \in DOMAIN Sent', i < k
               PROVE  Before(Sent'[i], Sent'[k])
    OBVIOUS
  <2>2. CASE k <= n
    <3>1. i \in DOMAIN emitted /\ k \in DOMAIN emitted
      BY <2>1, <2>2
    <3> QED
      BY <1>2, <1>5, <2>1, <3>1
  <2>3. CASE i > n
    <3> DEFINE j == i - n
               l == k - n
    <3>1. j \in DOMAIN d /\ l \in DOMAIN d /\ j < l /\ i = n + j /\ k = n + l
      BY <2>1, <2>3
    <3> HIDE DEF j, l
    <3> QED
      BY <1>6, <2>1, <3>1
  <2>4. CASE i <= n /\ k > n
    <3> DEFINE l == k - n
    <3>1. i \in DOMAIN emitted /\ l \in DOMAIN d /\ k = n + l
      BY <2>1, <2>4
    <3> HIDE DEF l
    <3>2. Sent'[i] \in ToSet(Sent) /\ Sent'[i] \in Upd /\ Sent'[k] \in ToSet(d)
      BY <1>3, <1>4, <1>5, <2>1, <3>1, SeqFacts
    <3>3. d # <<>>
      BY <2>1, <3>1
    <3>4. Sent'[k].id = id /\ Sent'[k] \in Upd
      BY <1>6, <3>2
    <3> DEFINE u == Sent'[i]
    <3>5. u.id \notin Left /\ u \in ToSet(Difference(data, newMap, u.id)) /\ u.id \in Ids
      BY <1>2, <3>2 DEF Upd
    <3>6. u.id \in DOMAIN data \cup DOMAIN newMap
      <4>1. Difference(data, newMap, u.id) # <<>>
        BY <3>5 DEF ToSet
      <4> HIDE DEF u
      <4> QED
        BY <1>3, <3>5, <4>1, DifferenceFacts
    <3>7. u.id < id
      BY <1>1, <1>2, <3>5, <3>6 DEF Passed
    <3> QED
      BY <3>4, <3>7 DEF Before
  <2> QED
    BY <2>1, <2>2, <2>3, <2>4
<1> QED
  BY <1>7, <1>8, <1>9, <1>10, Zenon DEF MergeInv

LEMMA MergeStep ==
  ASSUME TypeInv, OutboxInv, MergeInv, [Next]_vars
  PROVE  MergeInv'
<1> USE DEF TypeInv
<1>0. updateMode' = updateMode
  BY ModeFixed
<1>1. ASSUME ~resetting'  PROVE MergeInv'
  BY <1>1 DEF MergeInv
<1>2. ASSUME NEW m \in Message, Update(m)  PROVE ~resetting'
  BY <1>2 DEF Update, Call, Idle, resetVars
<1>3. ASSUME PublishThrows \/ Replace  PROVE ~resetting'
  BY <1>3 DEF PublishThrows, Replace
<1>4. ASSUME NEW msgs \in Seq(Message), ResetMessages(msgs)  PROVE MergeInv'
  <2>1. /\ outbox = <<>> /\ ~resetting /\ emitted' = emitted /\ outbox' = outbox
        /\ existingIt' = DOMAIN data /\ newIt' = DOMAIN newMap' /\ data' = data
    BY <1>4 DEF ResetMessages, Call, Idle
  <2>2. emitted = <<>>
    BY <2>1 DEF DataTypes
  <2>3. Sent' = <<>> /\ Passed' = {} /\ Left' = DOMAIN data \cup DOMAIN newMap'
    BY <2>1, <2>2 DEF Sent, Passed, Left
  <2>4. ToSet(Sent') = {} /\ DOMAIN Sent' = {}
    BY <2>3 DEF ToSet
  <2>5. \A u \in Upd : u.id \notin Left' => ToSet(Difference(data, newMap, u.id)') = {}
    <3> TAKE u \in Upd
    <3> SUFFICES ASSUME u.id \notin Left'
                 PROVE  Difference(data, newMap, u.id)' = <<>>
      BY DEF ToSet
    <3>1. u.id \notin DOMAIN data' /\ u.id \notin DOMAIN newMap'
      BY <2>1, <2>3
    <3> QED
      BY <3>1 DEF Difference
  <2> QED
    BY <2>1, <2>3, <2>4, <2>5 DEF MergeInv
<1>5. ASSUME UNCHANGED <<data, resetting, newMap, existingIt, newIt>>, Sent' = Sent
      PROVE  MergeInv'
  <2>1. Left' = Left /\ Passed' = Passed
    BY <1>5 DEF Left, Passed
  <2>2. \A id : Difference(data, newMap, id)' = Difference(data, newMap, id)
    BY <1>0, <1>5, DifferenceSame
  <2> QED
    BY <1>5, <2>1, <2>2 DEF MergeInv
<1>6. ASSUME Publish  PROVE Sent' = Sent \/ ~resetting'
  <2>1. /\ outbox # <<>> /\ outbox' = Tail(outbox) /\ resetting' = resetting
        /\ resetting => emitted' = Append(emitted, Head(outbox))
    BY <1>6 DEF Publish, resetVars
  <2>2. outbox \in Seq(Upd) /\ emitted \in Seq(Upd)
    BY DEF DataTypes
  <2> QED
    BY <2>1, <2>2, PassOn DEF Sent
<1>7. CASE Publish
  <2>1. UNCHANGED <<data, resetting, newMap, existingIt, newIt>>
    BY <1>7 DEF Publish, resetVars
  <2> QED
    BY <1>1, <1>5, <1>6, <1>7, <2>1
<1>8. ASSUME NEW id \in Ids, Turn(id)  PROVE MergeInv'
  BY <1>8, TurnStep
<1>9. CASE UNCHANGED <<data, resetting, newMap, existingIt, newIt, outbox, emitted>>
  BY <1>5, <1>9 DEF Sent
<1> QED
  BY <1>1, <1>2, <1>3, <1>4, <1>7, <1>8, <1>9, NextCases, ClientFrame

-----------------------------------------------------------------------------
(* The copies of the clients. *)
LEMMA LikeSettled ==
  ASSUME NEW mine \in Map, NEW m \in Map, NEW f, NEW u \in Upd, Settled(u, m)
  PROVE  Like(Apply(mine, u), f, m, u.id)
<1>1. /\ u.updateType = "DELETE" => u.id \notin DOMAIN Apply(mine, u)
      /\ u.updateType # "DELETE" => u.id \in DOMAIN Apply(mine, u) /\ Apply(mine, u)[u.id] = u.version
  BY ApplyMap, Zenon
<1> QED
  BY <1>1, StandsForFacts DEF Settled, Like

LEMMA LikeOthers ==
  ASSUME NEW mine \in Map, NEW m, NEW f, NEW u \in Upd, NEW id, id # u.id
  PROVE  Like(Apply(mine, u), f, m, id) <=> Like(mine, f, m, id)
<1>1. /\ id \in DOMAIN Apply(mine, u) <=> id \in DOMAIN mine
      /\ id \in DOMAIN mine => Apply(mine, u)[id] = mine[id]
  BY ApplyMap, Zenon
<1> QED
  BY <1>1 DEF Like

LEMMA LikeSame ==
  ASSUME NEW mine, NEW f, NEW a, NEW b, NEW id, Same(a, b, id), Like(mine, f, a, id)
  PROVE  Like(mine, f, b, id)
<1>1. CASE id \in DOMAIN a
  <2>1. id \in DOMAIN b /\ StandsFor(a[id], b[id])
    BY <1>1 DEF Same
  <2>2. CASE id \in DOMAIN mine
    <3>1. StandsFor(mine[id], a[id])
      BY <1>1, <2>2 DEF Like
    <3>2. StandsFor(mine[id], b[id])
      BY <2>1, <3>1, StandsForFacts
    <3> QED
      BY <2>1, <2>2, <3>2 DEF Like
  <2>3. CASE id \notin DOMAIN mine
    <3>1. PICK v \in Versions \ f : StandsFor(v, a[id])
      BY <1>1, <2>3 DEF Like
    <3>2. StandsFor(v, b[id])
      BY <2>1, <3>1, StandsForFacts
    <3> QED
      BY <2>1, <2>3, <3>2 DEF Like
  <2> QED
    BY <2>2, <2>3
<1>2. CASE id \notin DOMAIN a
  BY <1>2 DEF Same, Like
<1> QED
  BY <1>1, <1>2

(* The mode does not change, and with it what the copies are compared by. *)
LEMMA CopyNext ==
  ASSUME updateMode' = updateMode
  PROVE  CopyInv' <=>
           \A c \in Clients : phase'[c] # "none" =>
             \A id \in Ids \ (missed'[c] \cup dirty') :
               ~Pending(id)' => Like(copy'[c], filter'[c], Wanted(id)', id)
<1>1. \A c, id : Like(copy[c], filter[c], Wanted(id), id)'
                   <=> Like(copy'[c], filter'[c], Wanted(id)', id)
  BY DEF Like, StandsFor, IsUpdated, diffUpdates, IsAggEqual
<1> QED
  BY <1>1 DEF CopyInv

LEMMA SameBack ==
  ASSUME NEW a, NEW b, NEW id, Same(a, b, id)
  PROVE  Same(b, a, id)
BY StandsForFacts DEF Same

(* What a publication leaves of a client's copy: the id it is about settled *)
(* or missed, the other ids as they were.                                   *)
LEMMA SendCopies ==
  ASSUME ClientTypes, NEW u \in Upd, Send(u), NEW c \in Clients, phase'[c] # "none"
  PROVE  /\ phase[c] # "none" /\ filter'[c] = filter[c] /\ filter[c] \in Filters
         /\ copy[c] \in Map
         /\ copy'[c] = copy[c] \/ copy'[c] = Apply(copy[c], u)
         /\ \A id : id # u.id => (id \in missed'[c] <=> id \in missed[c])
         /\ ~(\E x \in ToSet(clients) : Full(x)) /\ u.id \notin missed'[c]
              => copy'[c] = Apply(copy[c], u)
<1>1. UNCHANGED <<phase, filter, clients>>
  BY DEF Send
<1>2. /\ copy'[c] = IF c \in Served THEN Apply(copy[c], u) ELSE copy[c]
      /\ \A id : id # u.id => (id \in missed'[c] <=> id \in missed[c])
      /\ c \notin Served /\ phase[c] = "created" /\ u.id \notin missed'[c]
           => Apply(copy[c], u) = copy[c]
  BY SendFacts
<1>3. /\ phase[c] \in {"none", "created", "installed"} /\ filter[c] \in Filters /\ copy[c] \in Map
      /\ phase[c] = "installed" <=> c \in ToSet(clients)
  BY DEF ClientTypes
<1>4. ~(\E x \in ToSet(clients) : Full(x)) => Served = ToSet(clients)
  BY ServedFacts
<1> QED
  BY <1>1, <1>2, <1>3, <1>4

LEMMA CopyPublish ==
  ASSUME TypeInv, OutboxInv, CopyInv, Publish
  PROVE  CopyInv'
<1> USE DEF TypeInv
<1>0. updateMode' = updateMode
  BY DEF Publish, Send
<1> DEFINE u == Head(outbox)
<1>1. /\ outbox # <<>> /\ ~(\E x \in ToSet(clients) : Full(x)) /\ Send(u)
      /\ outbox' = Tail(outbox) /\ dirty' = dirty \ {u.id}
      /\ UNCHANGED <<data, resetting, newMap, existingIt, newIt>>
  BY DEF Publish, resetVars
<1>2. PICK id0 \in Ids \ Left : Single(outbox, id0, Goal) \/ Pair(outbox, id0, Goal)
  BY <1>1 DEF OutboxInv
<1>3. /\ u \in Upd /\ u.id = id0
      /\ Tail(outbox) = <<>> => Settled(u, Goal)
      /\ Tail(outbox) # <<>> => Single(Tail(outbox), id0, Goal)
  <2>1. outbox \in Seq(Upd)
    BY DEF DataTypes
  <2>2. u \in Upd
    BY <1>1, <2>1, SeqFacts
  <2> QED
    BY <1>2, <2>2, PairFacts
<1> HIDE DEF u
<1>4. Tail(outbox) # <<>> => Pending(id0)'
  BY <1>1, <1>2, <1>3, PairFacts DEF Pending
<1>5. Goal \in Map /\ Wanted(id0) = Goal
  BY <1>2 DEF Goal, Wanted, DataTypes
<1>6. SUFFICES ASSUME NEW c \in Clients, phase'[c] # "none",
                      NEW id \in Ids, id \notin missed'[c], id \notin dirty', ~Pending(id)'
               PROVE  Like(copy'[c], filter'[c], Wanted(id)', id)
  BY <1>0, CopyNext
<1>7. Wanted(id)' = Wanted(id)
  BY <1>1 DEF Wanted, Left
<1>8. /\ phase[c] # "none" /\ filter'[c] = filter[c] /\ filter[c] \in Filters /\ copy[c] \in Map
      /\ copy'[c] = copy[c] \/ copy'[c] = Apply(copy[c], u)
      /\ \A i : i # u.id => (i \in missed'[c] <=> i \in missed[c])
      /\ u.id \notin missed'[c] => copy'[c] = Apply(copy[c], u)
  BY <1>1, <1>3, <1>6, SendCopies
<1>9. CASE id = u.id
  <2>1. Settled(u, Goal)
    BY <1>3, <1>4, <1>6, <1>9
  <2>2. copy'[c] = Apply(copy[c], u)
    BY <1>6, <1>8, <1>9
  <2>3. Like(Apply(copy[c], u), filter[c], Goal, u.id)
    BY <1>3, <1>5, <1>8, <2>1, LikeSettled
  <2> QED
    BY <1>3, <1>5, <1>7, <1>8, <1>9, <2>2, <2>3
<1>10. CASE id # u.id
  <2>1. id \notin missed[c] /\ id \notin dirty /\ ~Pending(id)
    BY <1>1, <1>6, <1>8, <1>10 DEF Pending, u
  <2>2. Like(copy[c], filter[c], Wanted(id), id)
    BY <1>8, <2>1 DEF CopyInv
  <2>3. Like(copy'[c], filter[c], Wanted(id), id)
    BY <1>3, <1>8, <1>10, <2>2, LikeOthers
  <2> QED
    BY <1>7, <1>8, <2>3
<1> QED
  BY <1>9, <1>10

(* An update that throws takes back the ids that the call had settled by a  *)
(* map that is thrown away: those it published are dirty, and of the others *)
(* the two maps do not differ.                                              *)
LEMMA CopyThrows ==
  ASSUME TypeInv, OutboxInv, MergeInv, CopyInv, PublishThrows
  PROVE  CopyInv'
<1> USE DEF TypeInv
<1>0. updateMode' = updateMode
  BY DEF PublishThrows, Send
<1> DEFINE u == Head(outbox)
<1>1. /\ outbox # <<>> /\ Send(u) /\ resetting' = FALSE /\ data' = data
      /\ dirty' = dirty \cup {x.id : x \in ToSet(emitted) \cup {u}}
  BY DEF PublishThrows
<1>2. PICK id0 \in Ids \ Left : Single(outbox, id0, Goal) \/ Pair(outbox, id0, Goal)
  BY <1>1 DEF OutboxInv
<1>3. /\ outbox \in Seq(Upd) /\ emitted \in Seq(Upd)
      /\ u \in Upd /\ u.id = id0 /\ \A x \in ToSet(outbox) : x.id = id0
  <2>1. outbox \in Seq(Upd) /\ emitted \in Seq(Upd)
    BY DEF DataTypes
  <2>2. u \in Upd
    BY <1>1, <2>1, SeqFacts
  <2> QED
    BY <1>2, <2>1, <2>2, PairFacts
<1> HIDE DEF u
<1>4. SUFFICES ASSUME NEW c \in Clients, phase'[c] # "none",
                      NEW id \in Ids, id \notin missed'[c], id \notin dirty'
               PROVE  Like(copy'[c], filter'[c], Wanted(id)', id)
  BY <1>0, CopyNext
<1>5. Wanted(id)' = data
  BY <1>1 DEF Wanted
<1>6. /\ phase[c] # "none" /\ filter'[c] = filter[c] /\ filter[c] \in Filters /\ copy[c] \in Map
      /\ copy'[c] = copy[c] \/ copy'[c] = Apply(copy[c], u)
      /\ \A i : i # u.id => (i \in missed'[c] <=> i \in missed[c])
  BY <1>1, <1>3, <1>4, SendCopies
<1>7. id \notin dirty /\ id # u.id /\ \A x \in ToSet(emitted) : x.id # id
  BY <1>1, <1>4
<1>8. Like(copy[c], filter[c], Wanted(id), id)
  BY <1>4, <1>6, <1>7 DEF CopyInv, Pending, u
<1>9. Like(copy[c], filter[c], data, id)
  <2>1. CASE resetting /\ id \notin Left
    <3>1. data \in Map /\ newMap \in Map
      BY DEF DataTypes
    <3>2. \A x \in Upd : x \in ToSet(Sent) <=> x.id \notin Left /\ x \in ToSet(Difference(data, newMap, x.id))
      BY <2>1 DEF MergeInv
    <3>3. ToSet(Sent) = ToSet(emitted) \cup ToSet(outbox)
      <4>1. outbox \in Seq(Upd) /\ emitted \in Seq(Upd)
        BY <1>3
      <4> QED
        BY <4>1, ConcatSet DEF Sent
    <3>4. \A x \in ToSet(Sent) : x.id # id
      BY <1>3, <1>7, <3>3
    <3> DEFINE d == Difference(data, newMap, id)
    <3>5. ASSUME d # <<>>  PROVE FALSE
      <4>1. Single(d, id, newMap) \/ Pair(d, id, newMap)
        BY <3>1, <3>5, DifferenceFacts
      <4> HIDE DEF d
      <4>2. d \in Seq(Upd) /\ \A x \in ToSet(d) : x \in Upd /\ x.id = id
        BY <4>1, PairFacts, Zenon
      <4>3. Head(d) \in ToSet(d)
        BY <3>5, <4>2, SeqFacts
      <4> QED
        BY <2>1, <3>2, <3>4, <4>2, <4>3 DEF d
    <3>6. Same(data, newMap, id)
      <4>1. (d = <<>> /\ Same(data, newMap, id)) \/ d # <<>>
        BY <3>1, DifferenceHead
      <4> QED
        BY <3>5, <4>1
    <3>7. Same(newMap, data, id) /\ Wanted(id) = newMap
      BY <2>1, <3>6, SameBack DEF Wanted
    <3> QED
      BY <1>6, <1>8, <3>1, <3>7, LikeSame
  <2>2. CASE ~(resetting /\ id \notin Left)
    BY <1>8, <2>2 DEF Wanted
  <2> QED
    BY <2>1, <2>2
<1> QED
  BY <1>3, <1>5, <1>6, <1>7, <1>9, LikeOthers

LEMMA CopyStep ==
  ASSUME TypeInv, OutboxInv, MergeInv, CopyInv, [Next]_vars
  PROVE  CopyInv'
<1> USE DEF TypeInv
<1>0. data \in Map /\ newMap \in Map
  BY DEF DataTypes
<1> updateMode' = updateMode
  BY ModeFixed
<1>1. ASSUME NEW m \in Message, Update(m)  PROVE CopyInv'
  <2>1. /\ outbox = <<>> /\ ~resetting /\ m.id \in Ids /\ data' \in Map
        /\ outbox' = Difference(data, data', m.id)
        /\ \A i : i # m.id => /\ i \in DOMAIN data' <=> i \in DOMAIN data
                              /\ i \in DOMAIN data => data'[i] = data[i]
    BY <1>1, UpdateFacts
  <2>2. UNCHANGED <<resetting, phase, filter, copy, missed, dirty>>
    BY <1>1 DEF Update, Call, resetVars, clientVars, logVars
  <2>3. SUFFICES ASSUME NEW c \in Clients, phase[c] # "none",
                        NEW id \in Ids, id \notin missed[c], id \notin dirty, ~Pending(id)'
                 PROVE  Like(copy[c], filter[c], Wanted(id)', id)
    BY <2>2, CopyNext
  <2>4. Wanted(id)' = data' /\ Wanted(id) = data
    BY <2>1, <2>2 DEF Wanted
  <2>5. Like(copy[c], filter[c], data, id)
    BY <2>1, <2>3, <2>4 DEF CopyInv, Pending
  <2>6. Same(data, data', id)
    <3>1. CASE id = m.id
      <4> DEFINE d == Difference(data, data', m.id)
      <4>1. (d = <<>> /\ Same(data, data', m.id)) \/ (d # <<>> /\ Head(d).id = m.id)
        BY <1>0, <2>1, DifferenceHead
      <4> HIDE DEF d
      <4>2. outbox' = d
        BY <2>1 DEF d
      <4> QED
        BY <2>3, <3>1, <4>1, <4>2 DEF Pending
    <3>2. CASE id # m.id
      <4>1. StandsFor(data[id], data[id])
        BY StandsForFacts, Zenon
      <4>2. /\ id \in DOMAIN data' <=> id \in DOMAIN data
            /\ id \in DOMAIN data => data'[id] = data[id]
        BY <2>1, <3>2, Zenon
      <4>3. id \in DOMAIN data => StandsFor(data[id], data'[id])
        BY <4>1, <4>2
      <4> QED
        BY <4>2, <4>3, Zenon DEF Same
    <3> QED
      BY <3>1, <3>2
  <2> QED
    BY <1>0, <2>1, <2>4, <2>5, <2>6, LikeSame
<1>2. ASSUME NEW id0 \in Ids, Turn(id0)  PROVE CopyInv'
  <2>1. /\ resetting /\ outbox = <<>> /\ id0 \in Left /\ Left' = Left \ {id0}
        /\ outbox' = Difference(data, newMap, id0)
        /\ UNCHANGED <<data, resetting, newMap, phase, filter, copy, missed, dirty>>
    BY <1>2 DEF Turn, Left, clientVars, logVars
  <2>2. SUFFICES ASSUME NEW c \in Clients, phase[c] # "none",
                        NEW id \in Ids, id \notin missed[c], id \notin dirty, ~Pending(id)'
                 PROVE  Like(copy[c], filter[c], Wanted(id)', id)
    BY <2>1, CopyNext
  <2>3. Like(copy[c], filter[c], Wanted(id), id)
    BY <2>1, <2>2 DEF CopyInv, Pending
  <2>4. CASE id = id0
    <3>1. Wanted(id) = data /\ Wanted(id)' = newMap
      BY <2>1, <2>4 DEF Wanted
    <3> DEFINE d == Difference(data, newMap, id0)
    <3>2. (d = <<>> /\ Same(data, newMap, id0)) \/ (d # <<>> /\ Head(d).id = id0)
      BY <1>0, DifferenceHead
    <3> HIDE DEF d
    <3>3. outbox' = d
      BY <2>1 DEF d
    <3>4. Same(data, newMap, id0)
      BY <2>2, <2>4, <3>2, <3>3 DEF Pending
    <3> QED
      BY <1>0, <2>3, <2>4, <3>1, <3>4, LikeSame
  <2>5. CASE id # id0
    BY <2>1, <2>3, <2>5 DEF Wanted
  <2> QED
    BY <2>4, <2>5
<1>3. ASSUME NEW msgs \in Seq(Message), ResetMessages(msgs)  PROVE CopyInv'
  <2>1. /\ outbox = <<>> /\ ~resetting /\ resetting' = TRUE
        /\ existingIt' = DOMAIN data /\ newIt' = DOMAIN newMap'
        /\ UNCHANGED <<data, outbox, phase, filter, copy, missed, dirty>>
    BY <1>3 DEF ResetMessages, Call, Idle, clientVars, logVars
  <2>2. newMap' \in Map
    BY <1>3, MapOfMap DEF ResetMessages
  <2>3. SUFFICES ASSUME NEW c \in Clients, phase[c] # "none",
                        NEW id \in Ids, id \notin missed[c], id \notin dirty
                 PROVE  Like(copy[c], filter[c], Wanted(id)', id)
    BY <2>1, CopyNext
  <2>4. Like(copy[c], filter[c], data, id)
    BY <2>1, <2>3 DEF CopyInv, Pending, Wanted
  <2>5. CASE id \in Left'
    BY <2>1, <2>4, <2>5 DEF Wanted
  <2>6. CASE id \notin Left'
    <3>1. id \notin DOMAIN data /\ id \notin DOMAIN newMap'
      BY <2>1, <2>6 DEF Left
    <3>2. Wanted(id)' = newMap'
      BY <2>1, <2>6 DEF Wanted
    <3> QED
      BY <2>4, <3>1, <3>2 DEF Like
  <2> QED
    BY <2>5, <2>6
<1>4. CASE Replace
  <2>1. /\ resetting /\ existingIt = {} /\ newIt = {} /\ outbox = <<>>
        /\ data' = newMap /\ resetting' = FALSE
        /\ UNCHANGED <<phase, filter, copy, missed, dirty>>
    BY <1>4 DEF Replace, MergeDone, MoreExisting, MoreNew, clientVars, logVars
  <2>2. \A id : Wanted(id)' = newMap /\ Wanted(id) = newMap /\ ~Pending(id)
    BY <2>1 DEF Wanted, Left, Pending
  <2> QED
    BY <2>1, <2>2, CopyNext DEF CopyInv
<1>5. ASSUME NEW c0 \in Clients, NEW f \in Filters, NewClient(c0, f)  PROVE CopyInv'
  <2> DEFINE kept == {id \in DOMAIN data : data[id] \in f}
             snapshot == [id \in kept |-> data[id]]
  <2>1. /\ ~resetting /\ phase' = [phase EXCEPT ![c0] = "created"]
        /\ filter' = [filter EXCEPT ![c0] = f] /\ copy' = [copy EXCEPT ![c0] = snapshot]
        /\ UNCHANGED <<data, resetting, outbox, missed, dirty>>
    BY <1>5 DEF NewClient, resetVars
  <2>2. \A id : Wanted(id)' = data /\ Wanted(id) = data /\ (Pending(id)' <=> Pending(id))
    BY <2>1 DEF Wanted, Pending
  <2>3. \A id : Like(snapshot, f, data, id)
    <3> TAKE id
    <3>1. id \in DOMAIN data => data[id] \in Versions /\ StandsFor(data[id], data[id])
      BY <1>0, MapType, StandsForFacts
    <3>2. /\ id \in DOMAIN snapshot <=> id \in DOMAIN data /\ data[id] \in f
          /\ id \in DOMAIN snapshot => snapshot[id] = data[id]
      OBVIOUS
    <3> HIDE DEF kept, snapshot
    <3> QED
      BY <3>1, <3>2 DEF Like
  <2> HIDE DEF kept, snapshot
  <2>4. SUFFICES ASSUME NEW c \in Clients, phase'[c] # "none",
                        NEW id \in Ids, id \notin missed[c], id \notin dirty, ~Pending(id)
                 PROVE  Like(copy'[c], filter'[c], data, id)
    BY <2>1, <2>2, CopyNext
  <2>5. CASE c = c0
    <3>1. copy'[c] = snapshot /\ filter'[c] = f
      BY <2>1, <2>5 DEF ClientTypes
    <3> QED
      BY <2>3, <3>1
  <2>6. CASE c # c0
    <3>1. copy'[c] = copy[c] /\ filter'[c] = filter[c] /\ phase[c] # "none"
      BY <2>1, <2>4, <2>6 DEF ClientTypes
    <3> QED
      BY <2>2, <2>4, <3>1 DEF CopyInv
  <2> QED
    BY <2>5, <2>6
<1>6. ASSUME UNCHANGED <<data, resetting, newMap, existingIt, newIt, outbox, missed, dirty,
                         filter, copy>>,
             \A c \in Clients : phase'[c] # "none" => phase[c] # "none"
      PROVE  CopyInv'
  <2>1. \A id : Wanted(id)' = Wanted(id) /\ (Pending(id)' <=> Pending(id))
    BY <1>6 DEF Wanted, Pending, Left
  <2> QED
    BY <1>6, <2>1, CopyNext DEF CopyInv
<1>7. ASSUME NEW c \in Clients, InstallClient(c) \/ GetNextMessage(c)  PROVE CopyInv'
  <2>1. /\ UNCHANGED <<data, resetting, newMap, existingIt, newIt, outbox, missed, dirty,
                       filter, copy>>
        /\ phase[c] # "none" /\ (phase' = phase \/ phase' = [phase EXCEPT ![c] = "installed"])
    BY <1>7 DEF InstallClient, GetNextMessage, resetVars, logVars
  <2>2. \A x \in Clients : phase'[x] # "none" => phase[x] # "none"
    BY <2>1 DEF ClientTypes
  <2> QED
    BY <1>6, <2>1, <2>2
<1>8. CASE UNCHANGED vars
  BY <1>6, <1>8 DEF vars, resetVars, clientVars, logVars
<1> QED
  BY <1>1, <1>2, <1>3, <1>4, <1>5, <1>7, <1>8, NextCases, CopyPublish, CopyThrows

-----------------------------------------------------------------------------
(* What a call that throws leaves behind. *)
LEMMA RetryThrows ==
  ASSUME TypeInv, MergeInv, RetryInv, PublishThrows
  PROVE  RetryInv'
<1> USE DEF TypeInv
<1> DEFINE u == Head(outbox)
<1>1. /\ outbox # <<>> /\ data' = data /\ updateMode' = updateMode /\ emitted' = <<>>
      /\ dirty' = dirty \cup {x.id : x \in ToSet(emitted) \cup {u}}
      /\ failed' = IF resetting THEN {[target |-> newMap, left |-> dirty]} ELSE {}
  BY DEF PublishThrows, Send
<1>2. /\ outbox \in Seq(Upd) /\ emitted \in Seq(Upd) /\ u \in ToSet(outbox)
      /\ ToSet(Sent) = ToSet(emitted) \cup ToSet(outbox) /\ ToSet(Sent) \subseteq Upd
  <2>1. outbox \in Seq(Upd) /\ emitted \in Seq(Upd)
    BY DEF DataTypes
  <2>2. u \in ToSet(outbox) /\ ToSet(outbox) \subseteq Upd /\ ToSet(emitted) \subseteq Upd
    BY <1>1, <2>1, SeqFacts
  <2>3. ToSet(Sent) = ToSet(emitted) \cup ToSet(outbox)
    BY <2>1, ConcatSet DEF Sent
  <2> QED
    BY <2>1, <2>2, <2>3
<1> HIDE DEF u
<1>3. \A x \in ToSet(emitted') : x.id \notin dirty'
  BY <1>1 DEF ToSet
<1>4. ASSUME NEW f \in failed', NEW id \in dirty' \ f.left
      PROVE  Difference(data', f.target, id) # <<>>
  <2>1. resetting /\ f = [target |-> newMap, left |-> dirty]
    BY <1>1, <1>4
  <2>2. f.target = newMap /\ id \notin dirty
    BY <1>4, <2>1
  <2>3. PICK x \in ToSet(emitted) \cup {u} : x.id = id
    BY <1>1, <1>4, <2>2
  <2>4. x \in ToSet(Sent) /\ x \in Upd
    BY <1>2, <2>3
  <2>5. x \in ToSet(Difference(data, newMap, x.id))
    BY <2>1, <2>4 DEF MergeInv
  <2>6. Difference(data, newMap, id) # <<>>
    BY <2>3, <2>5 DEF ToSet
  <2> QED
    BY <1>1, <2>2, <2>6
<1>5. \A t, id : Difference(data, t, id)' = Difference(data', t, id)
  BY <1>1, DifferenceSame
<1> QED
  BY <1>3, <1>4, <1>5 DEF RetryInv

LEMMA RetryStep ==
  ASSUME TypeInv, MergeInv, RetryInv, [Next]_vars
  PROVE  RetryInv'
<1> USE DEF TypeInv
<1>1. ASSUME failed' = {}, emitted' = <<>>  PROVE RetryInv'
  BY <1>1 DEF RetryInv, ToSet
<1>2. ASSUME data' = data, failed' = failed, dirty' \subseteq dirty,
             \A x \in ToSet(emitted') : x.id \notin dirty'
      PROVE  RetryInv'
  <2>1. \A t, id : Difference(data, t, id)' = Difference(data, t, id)
    BY <1>2, ModeFixed, DifferenceSame
  <2> QED
    BY <1>2, <2>1 DEF RetryInv
<1>3. ASSUME NEW m \in Message, Update(m)  PROVE RetryInv'
  BY <1>1, <1>3 DEF Update, Call, Idle, DataTypes
<1>4. CASE Replace
  BY <1>1, <1>4 DEF Replace
<1>5. CASE Publish
  <2> DEFINE u == Head(outbox)
  <2>1. /\ outbox # <<>> /\ UNCHANGED <<data, failed>> /\ dirty' = dirty \ {u.id}
        /\ emitted' = emitted \/ emitted' = Append(emitted, u)
    BY <1>5 DEF Publish
  <2>2. outbox \in Seq(Upd) /\ emitted \in Seq(Upd)
    BY DEF DataTypes
  <2>3. u \in Upd
    BY <2>1, <2>2, SeqFacts
  <2> HIDE DEF u
  <2>4. ToSet(emitted') = ToSet(emitted) \/ ToSet(emitted') = ToSet(emitted) \cup {u}
    <3>1. ToSet(Append(emitted, u)) = ToSet(emitted) \cup {u}
      BY <2>2, <2>3, AppendFacts
    <3>2. CASE emitted' = emitted
      BY <3>2
    <3>3. CASE emitted' = Append(emitted, u)
      BY <3>1, <3>3
    <3> QED
      BY <2>1, <3>2, <3>3
  <2>5. \A x \in ToSet(emitted') : x.id \notin dirty'
    BY <2>1, <2>4 DEF RetryInv
  <2> QED
    BY <1>2, <2>1, <2>5
<1>6. CASE UNCHANGED <<data, failed, dirty, emitted>>
  BY <1>2, <1>6 DEF RetryInv
<1>7. ASSUME NEW msgs \in Seq(Message), ResetMessages(msgs)
      PROVE  UNCHANGED <<data, failed, dirty, emitted>>
  BY <1>7 DEF ResetMessages, Call, logVars
<1>8. ASSUME NEW id \in Ids, Turn(id)  PROVE UNCHANGED <<data, failed, dirty, emitted>>
  BY <1>8 DEF Turn, logVars
<1> QED
  BY <1>3, <1>4, <1>5, <1>6, <1>7, <1>8, NextCases, ClientFrame, RetryThrows

-----------------------------------------------------------------------------
(* The kinds of the updates. *)
LEMMA HasWhatDataHas ==
  ASSUME NEW mine, NEW m \in Map, NEW id, Like(mine, Versions, m, id)
  PROVE  id \in DOMAIN mine <=> id \in DOMAIN m
<1>1. id \in DOMAIN m => m[id] \in Versions
  BY MapType
<1> QED
  BY <1>1 DEF Like

(* A difference that starts to be published is of an id that the copies     *)
(* have just when the data set has it.                                      *)
LEMMA HonestStarts ==
  ASSUME TypeInv, CopyInv, outbox = <<>>, NEW b \in Map, NEW id \in Ids,
         Wanted(id) = data, outbox' = Difference(data, b, id),
         UNCHANGED <<phase, filter, copy, missed, ahead, dirty>>
  PROVE  HonestInv'
<1> USE DEF TypeInv
<1> SUFFICES ASSUME NEW c \in Clients, phase[c] # "none", filter[c] = Versions, outbox' # <<>>,
                    Head(outbox').id \notin missed[c] \cup ahead[c] \cup dirty
             PROVE  (Head(outbox').updateType = "NEW") = (Head(outbox').id \notin DOMAIN copy[c])
  BY DEF HonestInv
<1>1. data \in Map
  BY DEF DataTypes
<1> DEFINE d == Difference(data, b, id)
<1>2. (Head(d).updateType = "NEW") = (id \notin DOMAIN data)
  BY <1>1, DifferenceFacts
<1>3. Head(d).id = id
  BY <1>1, DifferenceHead
<1> HIDE DEF d
<1>4. outbox' = d
  BY DEF d
<1>5. Like(copy[c], Versions, data, id)
  BY <1>3, <1>4 DEF CopyInv, Pending
<1>6. id \in DOMAIN copy[c] <=> id \in DOMAIN data
  BY <1>1, <1>5, HasWhatDataHas
<1> QED
  BY <1>2, <1>3, <1>4, <1>6

LEMMA HonestPublish ==
  ASSUME TypeInv, OutboxInv, Publish
  PROVE  HonestInv'
<1> USE DEF TypeInv
<1> DEFINE u == Head(outbox)
<1>1. /\ outbox # <<>> /\ Send(u) /\ outbox' = Tail(outbox)
      /\ ~(\E x \in ToSet(clients) : Full(x))
  BY DEF Publish
<1>2. PICK id \in Ids \ Left : Single(outbox, id, Goal) \/ Pair(outbox, id, Goal)
  BY <1>1 DEF OutboxInv
<1>3. outbox \in Seq(Upd)
  BY DEF DataTypes
<1>4. u \in Upd
  BY <1>1, <1>3, SeqFacts
<1> SUFFICES ASSUME NEW c \in Clients, phase'[c] # "none", outbox' # <<>>,
                    Head(outbox').id \notin missed'[c]
             PROVE  (Head(outbox').updateType = "NEW") = (Head(outbox').id \notin DOMAIN copy'[c])
  BY DEF HonestInv
<1>5. /\ u.id = id /\ u.updateType = "DELETE"
      /\ Head(outbox').updateType = "NEW" /\ Head(outbox').id = id
  <2>1. /\ Head(outbox).id = id
        /\ Tail(outbox) # <<>> => /\ Single(Tail(outbox), id, Goal) /\ Head(outbox).updateType = "DELETE"
                                 /\ Head(Tail(outbox)).updateType = "NEW"
    BY <1>2, PairFacts, Zenon
  <2>2. Tail(outbox) # <<>>
    BY <1>1
  <2>3. Head(Tail(outbox)).id = id
    BY <1>2, <2>1, <2>2, PairFacts
  <2> QED
    BY <1>1, <2>1, <2>2, <2>3
<1> HIDE DEF u
<1>6. copy'[c] = Apply(copy[c], u) /\ copy[c] \in Map
  BY <1>1, <1>4, <1>5, SendCopies
<1>7. u.id \notin DOMAIN Apply(copy[c], u)
  BY <1>4, <1>5, <1>6, ApplyMap
<1> QED
  BY <1>5, <1>6, <1>7

LEMMA HonestStep ==
  ASSUME TypeInv, OutboxInv, MergeInv, CopyInv, HonestInv, [Next]_vars
  PROVE  HonestInv'
<1> USE DEF TypeInv
<1>1. ASSUME outbox' = <<>>  PROVE HonestInv'
  BY <1>1 DEF HonestInv
<1>2. ASSUME NEW m \in Message, Update(m)  PROVE HonestInv'
  <2>1. /\ outbox = <<>> /\ ~resetting /\ m.id \in Ids /\ data' \in Map
        /\ outbox' = Difference(data, data', m.id)
    BY <1>2, UpdateFacts
  <2>2. UNCHANGED <<phase, filter, copy, missed, ahead, dirty>>
    BY <1>2 DEF Update, Call, clientVars, logVars
  <2>3. Wanted(m.id) = data
    BY <2>1 DEF Wanted
  <2> QED
    BY <2>1, <2>2, <2>3, HonestStarts
<1>3. ASSUME NEW id \in Ids, Turn(id)  PROVE HonestInv'
  <2>1. /\ outbox = <<>> /\ id \in Left /\ outbox' = Difference(data, newMap, id)
        /\ UNCHANGED <<phase, filter, copy, missed, ahead, dirty>>
    BY <1>3 DEF Turn, clientVars, logVars
  <2>2. Wanted(id) = data /\ newMap \in Map
    BY <2>1 DEF Wanted, DataTypes
  <2> QED
    BY <2>1, <2>2, HonestStarts
<1>4. ASSUME \/ PublishThrows \/ Replace
             \/ \E msgs \in Seq(Message) : ResetMessages(msgs)
      PROVE  outbox' = <<>>
  BY <1>4 DEF PublishThrows, Replace, MergeDone, ResetMessages, Call, Idle
<1>5. ASSUME NEW c0 \in Clients, NEW f \in Filters, NewClient(c0, f)  PROVE HonestInv'
  <2>1. /\ phase' = [phase EXCEPT ![c0] = "created"] /\ filter' = [filter EXCEPT ![c0] = f]
        /\ \E s : copy' = [copy EXCEPT ![c0] = s]
        /\ ahead' = [ahead EXCEPT ![c0] = {u.id : u \in ToSet(outbox)}]
        /\ UNCHANGED <<outbox, missed, dirty>>
    BY <1>5 DEF NewClient
  <2>2. outbox # <<>> => Head(outbox) \in ToSet(outbox)
    BY SeqFacts DEF DataTypes
  <2> SUFFICES ASSUME NEW c \in Clients, phase'[c] # "none", filter'[c] = Versions, outbox # <<>>,
                      Head(outbox).id \notin missed[c] \cup ahead'[c] \cup dirty
               PROVE  (Head(outbox).updateType = "NEW") = (Head(outbox).id \notin DOMAIN copy'[c])
    BY <2>1 DEF HonestInv
  <2>3. c # c0
    <3>1. ahead'[c0] = {u.id : u \in ToSet(outbox)}
      BY <2>1 DEF ClientTypes
    <3> QED
      BY <2>2, <3>1
  <2>4. phase[c] # "none" /\ filter[c] = Versions /\ copy'[c] = copy[c] /\ ahead'[c] = ahead[c]
    BY <2>1, <2>3 DEF ClientTypes
  <2> QED
    BY <2>4 DEF HonestInv
<1>6. ASSUME UNCHANGED <<outbox, missed, dirty, filter, copy, ahead>>,
             \A c \in Clients : phase'[c] # "none" => phase[c] # "none"
      PROVE  HonestInv'
  BY <1>6 DEF HonestInv
<1>7. ASSUME NEW c \in Clients, InstallClient(c) \/ GetNextMessage(c)  PROVE HonestInv'
  <2>1. /\ UNCHANGED <<outbox, missed, dirty, filter, copy, ahead>>
        /\ phase[c] # "none" /\ (phase' = phase \/ phase' = [phase EXCEPT ![c] = "installed"])
    BY <1>7 DEF InstallClient, GetNextMessage, logVars
  <2>2. \A x \in Clients : phase'[x] # "none" => phase[x] # "none"
    BY <2>1 DEF ClientTypes
  <2> QED
    BY <1>6, <2>1, <2>2
<1>8. CASE UNCHANGED vars
  BY <1>6, <1>8 DEF vars, clientVars, logVars
<1> QED
  BY <1>1, <1>2, <1>3, <1>4, <1>5, <1>7, <1>8, NextCases, HonestPublish

-----------------------------------------------------------------------------
(* The inductive invariant. *)
LEMMA IInvInit == Init => IInv
<1> SUFFICES ASSUME Init  PROVE IInv
  OBVIOUS
<1>1. /\ updateMode \in Modes /\ data \in Filled
      /\ resetting = FALSE /\ newMap = empty /\ existingIt = {} /\ newIt = {}
      /\ outbox = <<>> /\ clients = <<>> /\ calls = 0
      /\ emitted = <<>> /\ dirty = {} /\ failed = {}
  BY DEF Init
<1>2. /\ phase = [c \in Clients |-> "none"] /\ filter = [c \in Clients |-> Versions]
      /\ copy = [c \in Clients |-> empty] /\ unread = [c \in Clients |-> 0]
      /\ ahead = [c \in Clients |-> {}] /\ missed = [c \in Clients |-> {}]
  BY DEF Init
<1>3. data \in Map /\ newMap \in Map
  BY <1>1, EmptyMap, AggAssumption
<1>4. DataTypes
  <2>1. outbox \in Seq(Upd) /\ emitted \in Seq(Upd)
    BY <1>1
  <2>2. resetting \in BOOLEAN
    BY <1>1
  <2>3. calls \in 0 .. MaxCalls
    BY <1>1, AggAssumption
  <2> QED
    BY <1>1, <1>3, <2>1, <2>2, <2>3 DEF DataTypes
<1>5. ClientTypes
  <2>1. clients \in Seq(Clients) /\ ToSet(clients) = {}
    BY <1>1 DEF ToSet
  <2>2. \A c \in Clients : unread[c] <= Capacity
    BY <1>2, AggAssumption
  <2>3. /\ filter \in [Clients -> Filters] /\ copy \in [Clients -> Map]
    BY <1>2, EmptyMap, AggAssumption
  <2>4. /\ phase \in [Clients -> {"none", "created", "installed"}] /\ unread \in [Clients -> Nat]
        /\ ahead \in [Clients -> SUBSET Ids] /\ missed \in [Clients -> SUBSET Ids]
        /\ \A c \in Clients : phase[c] # "installed"
    BY <1>2
  <2> QED
    BY <2>1, <2>2, <2>3, <2>4 DEF ClientTypes
<1>6. OutboxInv /\ MergeInv
  BY <1>1 DEF OutboxInv, MergeInv
<1>7. CopyInv /\ HonestInv
  BY <1>2 DEF CopyInv, HonestInv
<1>8. RetryInv
  BY <1>1 DEF RetryInv, ToSet
<1> QED
  BY <1>4, <1>5, <1>6, <1>7, <1>8 DEF IInv, TypeInv

LEMMA IInvStep == IInv /\ [Next]_vars => IInv'
<1> SUFFICES ASSUME IInv, [Next]_vars  PROVE IInv'
  OBVIOUS
<1>1. TypeInv /\ OutboxInv /\ MergeInv /\ CopyInv /\ RetryInv /\ HonestInv
  BY DEF IInv
<1>2. TypeInv'
  BY <1>1, DataStep, ClientStep DEF TypeInv
<1>3. OutboxInv' /\ MergeInv'
  BY <1>1, OutboxStep, MergeStep
<1>4. CopyInv' /\ RetryInv' /\ HonestInv'
  BY <1>1, CopyStep, RetryStep, HonestStep
<1> QED
  BY <1>2, <1>3, <1>4 DEF IInv

LEMMA IInvCorrect == Spec => []IInv
BY IInvInit, IInvStep, PTL DEF Spec

-----------------------------------------------------------------------------
(* Every variable has its type, and no installed client's queue ever holds  *)
(* more than its capacity.                                                  *)
THEOREM TypeCorrect == Spec => []TypeOK
<1>1. IInv => TypeOK
  <2> SUFFICES ASSUME IInv  PROVE TypeOK
    OBVIOUS
  <2>1. DataTypes /\ ClientTypes
    BY DEF IInv, TypeInv
  <2>2. \A c \in ToSet(clients) : unread[c] <= Capacity
    BY <2>1, ServedFacts DEF ClientTypes
  <2> QED
    BY <2>1, <2>2, Zenon DEF TypeOK, DataTypes, ClientTypes
<1> QED
  BY <1>1, IInvCorrect, PTL

(* Whatever the calls, the clients and their filters do, between the        *)
(* publisher's calls a client's copy of an id is that of the data set, up   *)
(* to changes that are not published, but for the ids published between its *)
(* snapshot and its installation and those whose publication threw.         *)
THEOREM CopiesCorrect == Spec => []CopiesConverge
<1>1. IInv => CopiesConverge
  <2> SUFFICES ASSUME IInv, Idle, NEW c \in ToSet(clients),
                      NEW id \in Ids \ (missed[c] \cup dirty)
               PROVE  Agrees(c, id)
    BY DEF CopiesConverge
  <2>1. c \in Clients /\ phase[c] # "none"
    BY ServedFacts DEF IInv, TypeInv, ClientTypes
  <2>2. ~Pending(id) /\ Wanted(id) = data
    BY DEF Idle, Pending, Wanted
  <2> QED
    BY <2>1, <2>2 DEF IInv, CopyInv, Agrees
<1> QED
  BY <1>1, IInvCorrect, PTL

(* A ResetMessages publishes exactly the difference of the two maps, by id  *)
(* and with the DELETE of a replaced item before its NEW, for all maps.     *)
THEOREM ResetCorrect == Spec => []ResetIsDifference
<1>1. IInv => ResetIsDifference
  <2> SUFFICES ASSUME IInv, MergeDone
               PROVE  /\ ToSet(emitted) = UNION {ToSet(Difference(data, newMap, id)) : id \in Ids}
                      /\ \A i, k \in DOMAIN emitted : i < k => Before(emitted[i], emitted[k])
    BY DEF ResetIsDifference
  <2>1. /\ resetting /\ outbox = <<>> /\ Left = {}
    BY DEF MergeDone, MoreExisting, MoreNew, Left
  <2>2. /\ emitted \in Seq(Upd) /\ data \in Map /\ newMap \in Map
    BY DEF IInv, TypeInv, DataTypes
  <2>3. Sent = emitted
    BY <2>1, <2>2 DEF Sent
  <2>4. /\ \A u \in Upd : u \in ToSet(emitted) <=> u \in ToSet(Difference(data, newMap, u.id))
        /\ \A i, k \in DOMAIN emitted : i < k => Before(emitted[i], emitted[k])
    BY <2>1, <2>3 DEF IInv, MergeInv
  <2>5. \A id \in Ids : \A u \in ToSet(Difference(data, newMap, id)) : u \in Upd /\ u.id = id
    <3> TAKE id \in Ids
    <3> DEFINE d == Difference(data, newMap, id)
    <3>1. d = <<>> \/ Single(d, id, newMap) \/ Pair(d, id, newMap)
      BY <2>2, DifferenceFacts
    <3> HIDE DEF d
    <3>2. d = <<>> => ToSet(d) = {}
      BY DEF ToSet
    <3>3. Single(d, id, newMap) \/ Pair(d, id, newMap) => \A u \in ToSet(d) : u \in Upd /\ u.id = id
      BY PairFacts, Zenon
    <3>4. \A u \in ToSet(d) : u \in Upd /\ u.id = id
      BY <3>1, <3>2, <3>3
    <3> QED
      BY <3>4 DEF d
  <2>6. ToSet(emitted) \subseteq Upd
    BY <2>2, SeqFacts
  <2>7. ToSet(emitted) \subseteq UNION {ToSet(Difference(data, newMap, id)) : id \in Ids}
    <3> SUFFICES ASSUME NEW u \in ToSet(emitted)
                 PROVE  \E id \in Ids : u \in ToSet(Difference(data, newMap, id))
      OBVIOUS
    <3>1. u \in Upd /\ u.id \in Ids
      BY <2>6 DEF Upd
    <3> QED
      BY <2>4, <3>1
  <2>8. UNION {ToSet(Difference(data, newMap, id)) : id \in Ids} \subseteq ToSet(emitted)
    <3> SUFFICES ASSUME NEW id \in Ids, NEW u \in ToSet(Difference(data, newMap, id))
                 PROVE  u \in ToSet(emitted)
      OBVIOUS
    <3> QED
      BY <2>4, <2>5
  <2> QED
    BY <2>4, <2>7, <2>8
<1> QED
  BY <1>1, IInvCorrect, PTL

(* When a ResetMessages that threw is repeated and succeeds, no id that the *)
(* failed call left half-published stays so.                                *)
THEOREM RetryCorrect == Spec => []RetryRepairs
<1>1. IInv => RetryRepairs
  <2> SUFFICES ASSUME IInv, MergeDone, NEW f \in failed, f.target = newMap, NEW id \in dirty,
                      id \notin f.left
               PROVE  FALSE
    BY DEF RetryRepairs
  <2>1. /\ resetting /\ outbox = <<>> /\ Left = {}
    BY DEF MergeDone, MoreExisting, MoreNew, Left
  <2>2. /\ emitted \in Seq(Upd) /\ data \in Map /\ newMap \in Map /\ id \in Ids
    BY DEF IInv, TypeInv, DataTypes
  <2>3. Sent = emitted
    BY <2>1, <2>2 DEF Sent
  <2> DEFINE d == Difference(data, newMap, id)
  <2>4. d # <<>>
    BY DEF IInv, RetryInv
  <2>5. Single(d, id, newMap) \/ Pair(d, id, newMap)
    BY <2>2, <2>4, DifferenceFacts
  <2> HIDE DEF d
  <2>6. d \in Seq(Upd) /\ \A u \in ToSet(d) : u \in Upd /\ u.id = id
    BY <2>2, <2>5, PairFacts, Zenon
  <2>7. Head(d) \in ToSet(d)
    BY <2>4, <2>6, SeqFacts
  <2>8. Head(d) \in ToSet(emitted)
    BY <2>1, <2>3, <2>6, <2>7 DEF d, IInv, MergeInv
  <2> QED
    BY <2>6, <2>7, <2>8 DEF IInv, RetryInv
<1> QED
  BY <1>1, IInvCorrect, PTL

(* No step sends an unfiltered client a NEW of an id it has, or an UPDATE   *)
(* or DELETE of one it lacks, but for the ids it missed, those its snapshot *)
(* had already and those whose publication threw.                           *)
THEOREM KindsCorrect == Spec => KindIsHonest
<1> DEFINE A ==
      \A c \in ToSet(clients) :
        LET u == Head(outbox) IN
        /\ unread'[c] > unread[c] /\ filter[c] = Versions
        /\ u.id \notin missed[c] \cup ahead[c] \cup dirty
        => (u.updateType = "NEW") = (u.id \notin DOMAIN copy[c])
<1>1. IInv /\ [Next]_vars => [A]_vars
  <2> SUFFICES ASSUME IInv, Next  PROVE A
    OBVIOUS
  <2>1. TypeInv /\ MergeInv /\ HonestInv /\ DataTypes /\ ClientTypes
    BY DEF IInv, TypeInv
  <2> SUFFICES ASSUME NEW c \in ToSet(clients), unread'[c] > unread[c], filter[c] = Versions,
                      Head(outbox).id \notin missed[c] \cup ahead[c] \cup dirty
               PROVE  (Head(outbox).updateType = "NEW") = (Head(outbox).id \notin DOMAIN copy[c])
    OBVIOUS
  <2>2. c \in Clients /\ phase[c] = "installed" /\ unread[c] \in Nat
    BY <2>1, ServedFacts DEF ClientTypes
  <2>3. outbox # <<>>
    <3>1. CASE Publish \/ PublishThrows
      BY <3>1 DEF Publish, PublishThrows
    <3>2. CASE unread' = unread
      BY <2>2, <3>2
    <3>3. ASSUME NEW c0 \in Clients, NEW f \in Filters, NewClient(c0, f)  PROVE unread'[c] = unread[c]
      BY <2>1, <2>2, <3>3 DEF NewClient, ClientTypes
    <3>4. ASSUME NEW c0 \in Clients, GetNextMessage(c0)  PROVE ~(unread'[c] > unread[c])
      BY <2>1, <2>2, <3>4 DEF GetNextMessage, ClientTypes
    <3>5. ASSUME \/ \E m \in Message : Update(m)
                 \/ \E msgs \in Seq(Message) : ResetMessages(msgs)
                 \/ \E id \in Ids : Turn(id)
                 \/ Replace
                 \/ \E c0 \in Clients : InstallClient(c0)
          PROVE  unread' = unread
      BY <3>5 DEF Update, ResetMessages, Call, Turn, Replace, InstallClient, clientVars
    <3> QED
      BY <2>1, <2>2, <3>1, <3>2, <3>3, <3>4, <3>5, NextCases
  <2> QED
    BY <2>1, <2>2, <2>3 DEF HonestInv
<1> QED
  BY <1>1, IInvCorrect, PTL DEF Spec, KindIsHonest
===============================================================================
