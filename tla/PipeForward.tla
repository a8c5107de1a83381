----------------------------- MODULE PipeForward -----------------------------
(***************************************************************************)
(* Message forwarding of a PipeSubscriber: the client thread's OnNewMessage *)
(* against the publisher thread's PushMessage.  Once a callback is          *)
(* installed, messages are handed to it on the publisher thread; those      *)
(* still queued are drained on the client thread.                           *)
(*                                                                         *)
(* A step is one access to shared memory or one lock operation.  The        *)
(* assignment of the std::function onNewMessage takes two, and the callback *)
(* runs between two.  Nothing here looks at notifyState, which module       *)
(* PipeSubscriber has: PushComplete is left out.                            *)
(*                                                                         *)
(* A push is a release store of the queue's write index, which on x86 may   *)
(* wait in the publisher's store buffer until its next read-modify-write:   *)
(* outside a batch that is at the latest the unlock of PipePublisher's      *)
(* mutex at the end of the call, in a batch the one that ends the batch.    *)
(* Every push may be delayed that long: visible is how far the client sees. *)
(*                                                                         *)
(* Messages are numbered in the order of the PushMessage calls, callbacks   *)
(* in the order of the OnNewMessage calls.                                  *)
(***************************************************************************)
EXTENDS Naturals, Sequences, SequencesExt, FiniteSets

CONSTANTS
  MaxMessages,   \* bound on the messages ever pushed
  MaxCalls,      \* bound on the calls of OnNewMessage
  Capacity,      \* maxSize of the queue
  PublisherOps,  \* optional publisher operations in use
  ClientOps      \* optional client operations in use

ASSUME ForwardAssumption ==
  /\ MaxMessages \in Nat /\ MaxCalls \in Nat /\ Capacity \in Nat
  /\ PublisherOps \subseteq {"batch"}
  /\ ClientOps \subseteq {"get", "abort"}

PUBLISHER == "PUBLISHER"
CLIENT == "CLIENT"
THREAD == {PUBLISHER, CLIENT}
nobody == "nobody"

nullptr == 0             \* no callback
torn == MaxCalls + 1     \* the callback while it is being assigned

VARIABLES
  forwardMessage,  \* atomic<bool>
  onNewMessage,    \* the callback, a plain std::function
  onNotifyMutex,   \* who holds it
  batching,        \* publisher's flag
  aborted,         \* client's flag
  messages,        \* the queue
  visible,         \* how many of its messages the client can see
  pc,              \* program counter of each thread
  pushed,          \* number of PushMessage calls so far; the last is in hand
  calls,           \* number of OnNewMessage calls so far
  seen,            \* history: the messages in the order the client got them
  refused,         \* history: messages a full queue refused
  late,            \* history: messages queued, for the client, with forwardMessage set
  misfired,        \* history: messages for which no whole callback was there
  overlap          \* history: was a batch ever open during an OnNewMessage?

hookVars == <<forwardMessage, onNewMessage, calls>>
queueVars == <<messages, visible>>
logVars == <<refused, late, misfired, overlap>>
vars == <<hookVars, onNotifyMutex, batching, aborted, queueVars, pc, pushed, seen, logVars>>

(* No push waits in the store buffer. *)
Drained == visible = Len(messages)

Goto(t, label) == pc' = [pc EXCEPT ![t] = label]
InCall == pc[CLIENT] # "idle"

(* Lock and unlock of onNotifyMutex, by a guard object. *)
Acquire(t) == onNotifyMutex = nobody /\ onNotifyMutex' = t
Release(t) == onNotifyMutex' = IF onNotifyMutex = t THEN nobody ELSE onNotifyMutex

-----------------------------------------------------------------------------
(* Publisher thread. *)

(* Outside a batch the call before has unlocked the publisher's mutex. *)
PushMessage ==
  /\ pc[PUBLISHER] = "idle"
  /\ batching \/ Drained
  /\ pushed < MaxMessages
  /\ pushed' = pushed + 1
  /\ Goto(PUBLISHER, "test")
  /\ UNCHANGED <<hookVars, onNotifyMutex, batching, aborted, queueVars, seen, logVars>>

(* Mutant: no lock is taken outside a batch either. *)
MutTestForward ==
  /\ pc[PUBLISHER] = "test"
  /\ Goto(PUBLISHER, IF forwardMessage THEN "call" ELSE "push")
  /\ UNCHANGED <<hookVars, onNotifyMutex, batching, aborted, queueVars, pushed, seen, logVars>>

(* The flag decides once where the message goes; a batch takes no lock. *)
TestForward ==
  /\ pc[PUBLISHER] = "test"
  /\ Goto(PUBLISHER, IF ~forwardMessage THEN "push"
                     ELSE IF batching THEN "call"
                     ELSE "lock")
  /\ UNCHANGED <<hookVars, onNotifyMutex, batching, aborted, queueVars, pushed, seen, logVars>>

(* Mutant: one message too many. *)
MutHasRoom == Len(messages) <= Capacity

HasRoom == Len(messages) < Capacity

(* Mutant: a full queue loses its oldest message. *)
MutPushOverwrites ==
  /\ pc[PUBLISHER] = "push"
  /\ messages' = Append(IF HasRoom \/ visible = 0 THEN messages ELSE Tail(messages), pushed)
  /\ visible' = IF HasRoom \/ visible = 0 THEN visible ELSE visible - 1
  /\ Goto(PUBLISHER, "idle")
  /\ UNCHANGED <<hookVars, onNotifyMutex, batching, aborted, pushed, seen, logVars>>

(* A full queue throws, and the message is gone. *)
PushToQueue ==
  /\ pc[PUBLISHER] = "push"
  /\ IF HasRoom
     THEN messages' = Append(messages, pushed) /\ UNCHANGED refused
     ELSE refused' = refused \cup {pushed} /\ UNCHANGED messages
  /\ Goto(PUBLISHER, "idle")
  /\ UNCHANGED <<hookVars, onNotifyMutex, batching, aborted, visible, pushed, seen, late,
                 misfired, overlap>>

(* The delayed store of the write index reaches memory. *)
FlushStore ==
  /\ ~Drained
  /\ visible' = visible + 1
  /\ late' = IF forwardMessage THEN late \cup {messages[visible']} ELSE late
  /\ UNCHANGED <<hookVars, onNotifyMutex, batching, aborted, messages, pc, pushed, seen,
                 refused, misfired, overlap>>

LockToForward ==
  /\ pc[PUBLISHER] = "lock"
  /\ Acquire(PUBLISHER)
  /\ Goto(PUBLISHER, "call")
  /\ UNCHANGED <<hookVars, batching, aborted, queueVars, pushed, seen, logVars>>

(* An empty std::function throws bad_function_call; what one does that is   *)
(* being assigned is undefined: the model lets both end the call.           *)
CallOnNewMessage ==
  /\ pc[PUBLISHER] = "call"
  /\ IF onNewMessage \in {nullptr, torn}
     THEN /\ misfired' = misfired \cup {pushed}
          /\ Goto(PUBLISHER, "idle")
          /\ Release(PUBLISHER)
     ELSE /\ Goto(PUBLISHER, "in_callback")
          /\ UNCHANGED <<misfired, onNotifyMutex>>
  /\ UNCHANGED <<hookVars, batching, aborted, queueVars, pushed, seen, refused, late, overlap>>

CallbackReturns ==
  /\ pc[PUBLISHER] = "in_callback"
  /\ seen' = Append(seen, pushed)
  /\ Release(PUBLISHER)
  /\ Goto(PUBLISHER, "idle")
  /\ UNCHANGED <<hookVars, batching, aborted, queueVars, pushed, logVars>>

StartBatch ==
  /\ "batch" \in PublisherOps
  /\ pc[PUBLISHER] = "idle" /\ ~batching /\ Drained
  /\ batching' = TRUE
  /\ overlap' = (overlap \/ InCall)
  /\ UNCHANGED <<hookVars, onNotifyMutex, aborted, queueVars, pc, pushed, seen, refused,
                 late, misfired>>

(* ~Batch unlocks the publisher's mutex. *)
EndBatch ==
  /\ pc[PUBLISHER] = "idle" /\ batching /\ Drained
  /\ batching' = FALSE
  /\ UNCHANGED <<hookVars, onNotifyMutex, aborted, queueVars, pc, pushed, seen, logVars>>

-----------------------------------------------------------------------------
(* Client thread. *)

OnNewMessage ==
  /\ pc[CLIENT] = "idle"
  /\ ~aborted
  /\ calls < MaxCalls
  /\ calls' = calls + 1
  /\ overlap' = (overlap \/ batching)
  /\ Goto(CLIENT, "lock")
  /\ UNCHANGED <<forwardMessage, onNewMessage, onNotifyMutex, batching, aborted, queueVars,
                 pushed, seen, refused, late, misfired>>

LockToInstall ==
  /\ pc[CLIENT] = "lock"
  /\ Acquire(CLIENT)
  /\ Goto(CLIENT, "set_flag")
  /\ UNCHANGED <<hookVars, batching, aborted, queueVars, pushed, seen, logVars>>

SetForward ==
  /\ pc[CLIENT] = "set_flag"
  /\ forwardMessage' = TRUE
  /\ Goto(CLIENT, "assign")
  /\ UNCHANGED <<onNewMessage, calls, onNotifyMutex, batching, aborted, queueVars, pushed,
                 seen, logVars>>

BeginAssign ==
  /\ pc[CLIENT] = "assign"
  /\ onNewMessage' = torn
  /\ Goto(CLIENT, "assigning")
  /\ UNCHANGED <<forwardMessage, calls, onNotifyMutex, batching, aborted, queueVars, pushed,
                 seen, logVars>>

(* Mutant: the lock is not kept for the drain. *)
MutEndAssign ==
  /\ pc[CLIENT] = "assigning"
  /\ onNewMessage' = calls
  /\ Goto(CLIENT, "drain")
  /\ Release(CLIENT)
  /\ UNCHANGED <<forwardMessage, calls, batching, aborted, queueVars, pushed, seen, logVars>>

EndAssign ==
  /\ pc[CLIENT] = "assigning"
  /\ onNewMessage' = calls
  /\ Goto(CLIENT, "drain")
  /\ UNCHANGED <<forwardMessage, calls, onNotifyMutex, batching, aborted, queueVars, pushed,
                 seen, logVars>>

(* consume_one: the callback runs on the message at the front... *)
ConsumeOne ==
  /\ pc[CLIENT] = "drain"
  /\ ~aborted /\ visible > 0
  /\ Goto(CLIENT, "drain_callback")
  /\ UNCHANGED <<hookVars, onNotifyMutex, batching, aborted, queueVars, pushed, seen, logVars>>

(* Mutant: one message is drained, not all of them. *)
MutConsumeReturns ==
  /\ pc[CLIENT] = "drain_callback"
  /\ seen' = Append(seen, Head(messages))
  /\ messages' = Tail(messages) /\ visible' = visible - 1
  /\ Goto(CLIENT, "idle")
  /\ Release(CLIENT)
  /\ UNCHANGED <<hookVars, batching, aborted, pushed, logVars>>

(* ...and then it is popped. *)
ConsumeReturns ==
  /\ pc[CLIENT] = "drain_callback"
  /\ seen' = Append(seen, Head(messages))
  /\ messages' = Tail(messages) /\ visible' = visible - 1
  /\ Goto(CLIENT, "drain")
  /\ UNCHANGED <<hookVars, onNotifyMutex, batching, aborted, pushed, logVars>>

DrainEnds ==
  /\ pc[CLIENT] = "drain"
  /\ aborted \/ visible = 0
  /\ Release(CLIENT)
  /\ Goto(CLIENT, "idle")
  /\ UNCHANGED <<hookVars, batching, aborted, queueVars, pushed, seen, logVars>>

(* Abort, between calls or from the callback on the client thread. *)
Abort ==
  /\ "abort" \in ClientOps
  /\ pc[CLIENT] \in {"idle", "drain_callback"}
  /\ ~aborted
  /\ aborted' = TRUE
  /\ UNCHANGED <<hookVars, onNotifyMutex, batching, queueVars, pc, pushed, seen, logVars>>

GetNextMessage ==
  /\ "get" \in ClientOps
  /\ pc[CLIENT] = "idle"
  /\ visible > 0
  /\ seen' = Append(seen, Head(messages))
  /\ messages' = Tail(messages) /\ visible' = visible - 1
  /\ UNCHANGED <<hookVars, onNotifyMutex, batching, aborted, pc, pushed, logVars>>

-----------------------------------------------------------------------------
Init ==
  /\ forwardMessage = FALSE /\ onNewMessage = nullptr /\ onNotifyMutex = nobody
  /\ batching = FALSE /\ aborted = FALSE /\ messages = <<>> /\ visible = 0
  /\ pc = [t \in THREAD |-> "idle"]
  /\ pushed = 0 /\ calls = 0 /\ seen = <<>>
  /\ refused = {} /\ late = {} /\ misfired = {} /\ overlap = FALSE

PublisherNext ==
  \/ PushMessage \/ TestForward \/ PushToQueue \/ LockToForward
  \/ CallOnNewMessage \/ CallbackReturns \/ StartBatch \/ EndBatch \/ FlushStore
ClientNext ==
  \/ OnNewMessage \/ LockToInstall \/ SetForward \/ BeginAssign \/ EndAssign
  \/ ConsumeOne \/ ConsumeReturns \/ DrainEnds \/ Abort \/ GetNextMessage

Next == PublisherNext \/ ClientNext

Spec == Init /\ [][Next]_vars

-----------------------------------------------------------------------------
(* Every variable has its type. *)
TypeOK ==
  /\ forwardMessage \in BOOLEAN /\ batching \in BOOLEAN
  /\ aborted \in BOOLEAN /\ overlap \in BOOLEAN
  /\ onNewMessage \in 0 .. MaxCalls + 1 /\ calls \in 0 .. MaxCalls
  /\ onNotifyMutex \in THREAD \cup {nobody}
  /\ pc[PUBLISHER] \in {"idle", "test", "push", "lock", "call", "in_callback"}
  /\ pc[CLIENT] \in {"idle", "lock", "set_flag", "assign", "assigning", "drain",
                     "drain_callback"}
  /\ pushed \in 0 .. MaxMessages
  /\ messages \in Seq(1 .. pushed) /\ Len(messages) <= Capacity
  /\ visible \in 0 .. Len(messages)
  /\ seen \in Seq(1 .. pushed)
  /\ refused \subseteq 1 .. pushed /\ late \subseteq 1 .. pushed /\ misfired \subseteq 1 .. pushed

-----------------------------------------------------------------------------
(* Safety. *)

InHand(m) == m = pushed /\ pc[PUBLISHER] # "idle"
Gone(m) == m \in refused \cup misfired

(* Every message goes one way only: the client got it once, or it is still  *)
(* queued once, or PushMessage threw, whatever of queue, callback and drain *)
(* the two threads race for (PipeSubscriber.hpp:679-703, 815-824).          *)
Copies(s, m) == Cardinality({i \in DOMAIN s : s[i] = m})
GoesOneWay ==
  \A m \in 1 .. pushed :
    Copies(seen, m) + Copies(messages, m) = IF InHand(m) \/ Gone(m) THEN 0 ELSE 1

(* The order of publication is kept, which is what OnNewMessage locks out   *)
(* the publisher for (PipeSubscriber.h:197-198): only a message queued      *)
(* behind the drain, or left by an abort, or a batch that overlaps the      *)
(* installation, lets an earlier message come after a later one.            *)
OrderKept ==
  \A i, k \in DOMAIN seen :
    i < k /\ seen[i] > seen[k] => overlap \/ aborted \/ seen[k] \in late

(* The callback is not run by both threads at once, and the publisher never *)
(* calls one that is empty or being assigned: the mutex sees to it, except  *)
(* in a batch, which does not take it (PipeSubscriber.hpp:685-693).         *)
CallbackGuarded ==
  ~overlap =>
    /\ ~(pc[PUBLISHER] = "in_callback" /\ pc[CLIENT] = "drain_callback")
    /\ misfired = {}

(* OnNewMessage drains all it can see, so that what it leaves in the queue  *)
(* was stored, for the client, after the flag was set.  With no batch open  *)
(* meanwhile that is one message, the one whose PushMessage had tested the  *)
(* flag before, and there is no second one for as long as forwarding lasts. *)
(* In a batch any number of stores may still be delayed                     *)
(* (PipeSubscriber.h:193-195, PipeSubscriber.hpp:684-695, 820-822).         *)
Forwards == forwardMessage /\ ~InCall /\ ~aborted
OnlyOneLeftBehind ==
  /\ Forwards => \A k \in 1 .. visible : messages[k] \in late
  /\ ~overlap => Cardinality(late) <= 1 /\ (Forwards => Len(messages) <= 1)
=============================================================================
