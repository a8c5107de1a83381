-------------------------- MODULE PipeForwardProofs --------------------------
(* Proofs about PipeForward, for any number of messages and of calls of      *)
(* OnNewMessage, and every capacity.  The inductive invariant is layered:    *)
(* the types, MutexInv and CallbackInv (who may be where while the other     *)
(* thread is inside), DelayInv (what may wait in the store buffer), LateInv  *)
(* and LeftInv (what may still be queued once messages are forwarded),       *)
(* OrderInv (what was seen against what is queued) and PlaceInv (every       *)
(* message is in one place).                                                 *)
EXTENDS PipeForward, TLAPS, FiniteSetTheorems

-----------------------------------------------------------------------------
(* The steps of Next as one list. *)
LEMMA NextCases ==
  ASSUME Next
  PROVE  \/ PushMessage
         \/ TestForward
         \/ PushToQueue
         \/ LockToForward
         \/ CallOnNewMessage
         \/ CallbackReturns
         \/ StartBatch
         \/ EndBatch
         \/ OnNewMessage
         \/ LockToInstall
         \/ SetForward
         \/ BeginAssign
         \/ EndAssign
         \/ ConsumeOne
         \/ ConsumeReturns
         \/ DrainEnds
         \/ Abort
         \/ GetNextMessage
         \/ FlushStore
BY DEF Next, PublisherNext, ClientNext

-----------------------------------------------------------------------------
(* Types, in three parts. *)
PublisherLabel == {"idle", "test", "push", "lock", "call", "in_callback"}
ClientLabel == {"idle", "lock", "set_flag", "assign", "assigning", "drain", "drain_callback"}

FlagTypes ==
  forwardMessage \in BOOLEAN /\ batching \in BOOLEAN /\ aborted \in BOOLEAN /\ overlap \in BOOLEAN
PlaceTypes ==
  /\ onNewMessage \in 0 .. MaxCalls + 1 /\ calls \in 0 .. MaxCalls
  /\ onNotifyMutex \in THREAD \cup {nobody}
  /\ pc \in [THREAD -> PublisherLabel \cup ClientLabel]
  /\ pc[PUBLISHER] \in PublisherLabel /\ pc[CLIENT] \in ClientLabel
LogTypes ==
  /\ pushed \in 0 .. MaxMessages
  /\ messages \in Seq(1 .. pushed) /\ Len(messages) <= Capacity
  /\ visible \in 0 .. Len(messages)
  /\ seen \in Seq(1 .. pushed)
  /\ refused \subseteq 1 .. pushed /\ late \subseteq 1 .. pushed /\ misfired \subseteq 1 .. pushed

(* A message in hand exists, and a callback is run on one that the client    *)
(* can see.                                                                 *)
HandInv ==
  /\ pc[PUBLISHER] # "idle" => pushed > 0
  /\ pc[CLIENT] = "drain_callback" => visible > 0

TypeInv == FlagTypes /\ PlaceTypes /\ LogTypes /\ HandInv

-----------------------------------------------------------------------------
LEMMA FlagTypesStep ==
  ASSUME FlagTypes, [Next]_vars
  PROVE  FlagTypes'
<1> USE DEF FlagTypes, hookVars, queueVars, logVars
<1>1. CASE PushMessage \/ TestForward \/ PushToQueue \/ LockToForward
  BY <1>1 DEF PushMessage, TestForward, PushToQueue, LockToForward
<1>2. CASE CallOnNewMessage \/ CallbackReturns \/ EndBatch
  BY <1>2 DEF CallOnNewMessage, CallbackReturns, EndBatch
<1>3. CASE StartBatch
  BY <1>3 DEF StartBatch
<1>4. CASE OnNewMessage
  BY <1>4 DEF OnNewMessage
<1>5. CASE LockToInstall \/ SetForward \/ BeginAssign \/ EndAssign
  BY <1>5 DEF LockToInstall, SetForward, BeginAssign, EndAssign
<1>6. CASE ConsumeOne \/ ConsumeReturns \/ DrainEnds \/ Abort \/ GetNextMessage
  BY <1>6 DEF ConsumeOne, ConsumeReturns, DrainEnds, Abort, GetNextMessage
<1>7. CASE FlushStore \/ UNCHANGED vars
  BY <1>7 DEF FlushStore, vars
<1> QED
  BY NextCases, <1>1, <1>2, <1>3, <1>4, <1>5, <1>6, <1>7

LEMMA PlaceTypesStep ==
  ASSUME PlaceTypes, [Next]_vars
  PROVE  PlaceTypes'
<1> USE ForwardAssumption DEF PlaceTypes, hookVars, Goto, THREAD, PUBLISHER, CLIENT,
        PublisherLabel, ClientLabel
<1>1. CASE PushMessage
  BY <1>1 DEF PushMessage
<1>2. CASE TestForward
  BY <1>2 DEF TestForward
<1>3. CASE PushToQueue
  BY <1>3 DEF PushToQueue
<1>4. CASE LockToForward
  BY <1>4 DEF LockToForward, Acquire
<1>5. CASE CallOnNewMessage
  BY <1>5 DEF CallOnNewMessage, Release
<1>6. CASE CallbackReturns
  BY <1>6 DEF CallbackReturns, Release
<1>7. CASE StartBatch \/ EndBatch \/ Abort \/ GetNextMessage
  BY <1>7 DEF StartBatch, EndBatch, Abort, GetNextMessage
<1>8. CASE OnNewMessage
  BY <1>8 DEF OnNewMessage
<1>9. CASE LockToInstall
  BY <1>9 DEF LockToInstall, Acquire
<1>10. CASE SetForward
  BY <1>10 DEF SetForward
<1>11. CASE BeginAssign
  BY <1>11 DEF BeginAssign, torn
<1>12. CASE EndAssign
  BY <1>12 DEF EndAssign
<1>13. CASE ConsumeOne
  BY <1>13 DEF ConsumeOne
<1>14. CASE ConsumeReturns
  BY <1>14 DEF ConsumeReturns
<1>15. CASE DrainEnds
  BY <1>15 DEF DrainEnds, Release
<1>16. CASE FlushStore \/ UNCHANGED vars
  BY <1>16 DEF FlushStore, vars
<1> QED
  BY NextCases, <1>1, <1>2, <1>3, <1>4, <1>5, <1>6, <1>7, <1>8, <1>9, <1>10, <1>11,
     <1>12, <1>13, <1>14, <1>15, <1>16

(* Sequences: a larger range, and what Append and Tail do index by index. *)
LEMMA SeqOfMore ==
  ASSUME NEW S, NEW T, S \subseteq T, NEW s \in Seq(S)
  PROVE  s \in Seq(T)
<1>1. /\ s \in [1 .. Len(s) -> S] /\ Len(s) \in Nat
  OBVIOUS
<1>2. s \in [1 .. Len(s) -> T]
  BY <1>1
<1> QED
  BY <1>1, <1>2

LEMMA AppendFacts ==
  ASSUME NEW S, NEW s \in Seq(S), NEW x \in S
  PROVE  /\ Append(s, x) \in Seq(S)
         /\ Len(s) \in Nat /\ Len(Append(s, x)) = Len(s) + 1
         /\ DOMAIN s = 1 .. Len(s) /\ DOMAIN Append(s, x) = 1 .. Len(s) + 1
         /\ \A i \in DOMAIN s : Append(s, x)[i] = s[i]
         /\ Append(s, x)[Len(s) + 1] = x
OBVIOUS

LEMMA TailFacts ==
  ASSUME NEW S, NEW s \in Seq(S), s # <<>>
  PROVE  /\ Head(s) \in S /\ Tail(s) \in Seq(S)
         /\ Len(s) \in Nat \ {0} /\ Len(Tail(s)) = Len(s) - 1
         /\ DOMAIN s = 1 .. Len(s) /\ DOMAIN Tail(s) = 1 .. Len(s) - 1
         /\ Head(s) = s[1]
         /\ \A i \in DOMAIN Tail(s) : i + 1 \in DOMAIN s /\ Tail(s)[i] = s[i + 1]
OBVIOUS

(* Where the client sees something there is something. *)
LEMMA SomethingThere == LogTypes /\ visible > 0 => messages # <<>>
<1> SUFFICES ASSUME LogTypes, visible > 0, messages = <<>> PROVE FALSE
  OBVIOUS
<1> QED
  BY DEF LogTypes

LEMMA LogTypesStep ==
  ASSUME LogTypes, HandInv, [Next]_vars
  PROVE  LogTypes'
<1>0. ForwardAssumption /\ pushed \in Nat /\ messages \in Seq(1 .. pushed) /\ Len(messages) \in Nat
      /\ visible \in 0 .. Len(messages)
  BY ForwardAssumption DEF LogTypes
<1>1. CASE PushMessage
  <2>1. /\ pushed' = pushed + 1 /\ pushed' \in 0 .. MaxMessages
        /\ UNCHANGED <<messages, visible, seen, refused, late, misfired>>
    BY <1>0, <1>1 DEF PushMessage, queueVars, logVars, LogTypes, ForwardAssumption
  <2>2. 1 .. pushed \subseteq 1 .. pushed'
    BY <1>0, <2>1
  <2>3. messages \in Seq(1 .. pushed') /\ seen \in Seq(1 .. pushed')
    BY <2>2, SeqOfMore DEF LogTypes
  <2> QED
    BY <2>1, <2>2, <2>3 DEF LogTypes
<1>2. CASE PushToQueue
  <2>1. pushed \in 1 .. pushed
    BY <1>0, <1>2 DEF PushToQueue, HandInv
  <2>2. /\ messages' = messages \/ (Len(messages) < Capacity /\ messages' = Append(messages, pushed))
        /\ refused' \in {refused, refused \cup {pushed}}
        /\ UNCHANGED <<pushed, visible, seen, late, misfired>>
    BY <1>2 DEF PushToQueue, HasRoom
  <2>3. messages' \in Seq(1 .. pushed) /\ Len(messages') <= Capacity /\ visible \in 0 .. Len(messages')
    <3>1. messages \in Seq(1 .. pushed) /\ Len(messages) \in Nat /\ Len(messages) <= Capacity
      BY DEF LogTypes
    <3>2. /\ Append(messages, pushed) \in Seq(1 .. pushed)
          /\ Len(Append(messages, pushed)) = Len(messages) + 1
      BY <2>1, <3>1, AppendFacts
    <3>3. CASE messages' = messages
      BY <1>0, <3>1, <3>3
    <3>4. CASE Len(messages) < Capacity /\ messages' = Append(messages, pushed)
      BY <1>0, <3>1, <3>2, <3>4 DEF ForwardAssumption
    <3> QED
      BY <2>2, <3>3, <3>4
  <2> QED
    BY <2>1, <2>2, <2>3 DEF LogTypes
<1>3. CASE CallOnNewMessage
  <2>1. pushed \in 1 .. pushed
    BY <1>0, <1>3 DEF CallOnNewMessage, HandInv
  <2>2. /\ misfired' \in {misfired, misfired \cup {pushed}}
        /\ UNCHANGED <<pushed, messages, visible, seen, refused, late>>
    BY <1>3 DEF CallOnNewMessage, queueVars
  <2> QED
    BY <2>1, <2>2 DEF LogTypes
<1>4. CASE CallbackReturns
  <2>1. pushed \in 1 .. pushed
    BY <1>0, <1>4 DEF CallbackReturns, HandInv
  <2>2. seen' = Append(seen, pushed) /\ UNCHANGED <<pushed, messages, visible, logVars>>
    BY <1>4 DEF CallbackReturns, queueVars
  <2> QED
    BY <2>1, <2>2 DEF LogTypes, logVars
<1>5. CASE ConsumeReturns \/ GetNextMessage
  <2>1. /\ visible > 0 /\ messages' = Tail(messages) /\ seen' = Append(seen, Head(messages))
        /\ visible' = visible - 1 /\ UNCHANGED <<pushed, logVars>>
    BY <1>5 DEF ConsumeReturns, GetNextMessage, HandInv
  <2>2. /\ Head(messages) \in 1 .. pushed /\ Tail(messages) \in Seq(1 .. pushed)
        /\ Len(Tail(messages)) = Len(messages) - 1
    <3>1. messages # <<>>
      BY <1>0, <2>1
    <3> QED
      BY <1>0, <3>1, TailFacts
  <2>3. Len(Tail(messages)) <= Capacity /\ visible' \in 0 .. Len(messages')
    BY <1>0, <2>1, <2>2 DEF LogTypes, ForwardAssumption
  <2> QED
    BY <2>1, <2>2, <2>3 DEF LogTypes, logVars
<1>6. ASSUME UNCHANGED <<pushed, messages, visible, seen, refused, late, misfired>> PROVE LogTypes'
  BY <1>6 DEF LogTypes
<1>7. CASE TestForward \/ LockToForward \/ StartBatch \/ EndBatch
  BY <1>6, <1>7 DEF TestForward, LockToForward, StartBatch, EndBatch, queueVars, logVars
<1>8. CASE OnNewMessage \/ LockToInstall \/ SetForward \/ BeginAssign \/ EndAssign
  BY <1>6, <1>8 DEF OnNewMessage, LockToInstall, SetForward, BeginAssign, EndAssign, queueVars, logVars
<1>9. CASE ConsumeOne \/ DrainEnds \/ Abort \/ UNCHANGED vars
  BY <1>6, <1>9 DEF ConsumeOne, DrainEnds, Abort, vars, queueVars, logVars
<1>10. CASE FlushStore
  <2>1. /\ visible' = visible + 1 /\ visible' \in 1 .. Len(messages)
        /\ late' \in {late, late \cup {messages[visible']}}
        /\ UNCHANGED <<pushed, messages, seen, refused, misfired>>
    BY <1>0, <1>10 DEF FlushStore, Drained
  <2>2. messages[visible'] \in 1 .. pushed
    BY <1>0, <2>1
  <2> QED
    BY <1>0, <2>1, <2>2 DEF LogTypes
<1> QED
  BY NextCases, <1>1, <1>2, <1>3, <1>4, <1>5, <1>7, <1>8, <1>9, <1>10

LEMMA HandStep ==
  ASSUME FlagTypes, PlaceTypes, LogTypes, HandInv, [Next]_vars
  PROVE  HandInv'
<1> USE DEF HandInv, hookVars, queueVars, logVars, Goto, THREAD, PUBLISHER, CLIENT
<1>0. pushed \in Nat /\ visible \in Nat /\ pc \in [THREAD -> PublisherLabel \cup ClientLabel]
  BY DEF LogTypes, PlaceTypes
<1>1. CASE PushMessage
  BY <1>0, <1>1 DEF PushMessage
<1>2. CASE TestForward
  BY <1>0, <1>2 DEF TestForward
<1>3. CASE PushToQueue
  BY <1>0, <1>3 DEF PushToQueue
<1>4. CASE LockToForward
  BY <1>0, <1>4 DEF LockToForward
<1>5. CASE CallOnNewMessage
  BY <1>0, <1>5 DEF CallOnNewMessage
<1>6. CASE CallbackReturns
  BY <1>0, <1>6 DEF CallbackReturns
<1>7. CASE StartBatch \/ EndBatch \/ Abort
  BY <1>7 DEF StartBatch, EndBatch, Abort
<1>8. CASE OnNewMessage \/ LockToInstall \/ SetForward
  BY <1>0, <1>8 DEF OnNewMessage, LockToInstall, SetForward
<1>9. CASE BeginAssign \/ EndAssign
  BY <1>0, <1>9 DEF BeginAssign, EndAssign
<1>10. CASE ConsumeOne \/ DrainEnds
  BY <1>0, <1>10 DEF ConsumeOne, DrainEnds
<1>11. CASE ConsumeReturns
  BY <1>0, <1>11 DEF ConsumeReturns
<1>12. CASE GetNextMessage
  BY <1>0, <1>12 DEF GetNextMessage
<1>13. CASE FlushStore \/ UNCHANGED vars
  BY <1>0, <1>13 DEF FlushStore, vars
<1> QED
  BY NextCases, <1>1, <1>2, <1>3, <1>4, <1>5, <1>6, <1>7, <1>8, <1>9, <1>10, <1>11,
     <1>12, <1>13

LEMMA TypeStep ==
  ASSUME TypeInv, [Next]_vars
  PROVE  TypeInv'
BY FlagTypesStep, PlaceTypesStep, LogTypesStep, HandStep DEF TypeInv

-----------------------------------------------------------------------------
(* The mutex.  The client holds it from LockToInstall to DrainEnds; the     *)
(* publisher holds it around its callback, unless a batch is open, and then *)
(* an installation under way is an overlap.                                 *)
Draining == pc[CLIENT] \in {"assign", "assigning", "drain", "drain_callback"}
Installing == Draining \/ pc[CLIENT] = "set_flag"
Forwarding == pc[PUBLISHER] \in {"call", "in_callback"}

MutexInv ==
  /\ Installing <=> onNotifyMutex = CLIENT
  /\ onNotifyMutex = PUBLISHER => Forwarding
  /\ Forwarding => onNotifyMutex = PUBLISHER \/ batching
  /\ batching /\ InCall => overlap
  /\ Forwarding \/ pc[PUBLISHER] = "lock" => forwardMessage

CallbackInv ==
  /\ InCall => calls > 0
  /\ forwardMessage /\ onNewMessage \in {nullptr, torn} => pc[CLIENT] \in {"assign", "assigning"}
  /\ ~overlap => misfired = {}

LEMMA MutexStep ==
  ASSUME TypeInv, MutexInv, [Next]_vars
  PROVE  MutexInv'
<1> USE DEF MutexInv, Installing, Draining, Forwarding, InCall, hookVars, queueVars, logVars, Goto,
        THREAD, PUBLISHER, CLIENT, nobody
<1>0. /\ pc \in [THREAD -> PublisherLabel \cup ClientLabel]
      /\ forwardMessage \in BOOLEAN /\ batching \in BOOLEAN /\ overlap \in BOOLEAN
  BY DEF TypeInv, PlaceTypes, FlagTypes
<1>1. CASE PushMessage
  BY <1>0, <1>1 DEF PushMessage
<1>2. CASE TestForward
  BY <1>0, <1>2 DEF TestForward
<1>3. CASE PushToQueue
  BY <1>0, <1>3 DEF PushToQueue
<1>4. CASE LockToForward
  BY <1>0, <1>4 DEF LockToForward, Acquire
<1>5. CASE CallOnNewMessage
  BY <1>0, <1>5 DEF CallOnNewMessage, Release
<1>6. CASE CallbackReturns
  BY <1>0, <1>6 DEF CallbackReturns, Release
<1>7. CASE StartBatch
  BY <1>0, <1>7 DEF StartBatch
<1>8. CASE EndBatch
  BY <1>0, <1>8 DEF EndBatch
<1>9. CASE OnNewMessage
  BY <1>0, <1>9 DEF OnNewMessage
<1>10. CASE LockToInstall
  BY <1>0, <1>10 DEF LockToInstall, Acquire
<1>11. CASE SetForward
  BY <1>0, <1>11 DEF SetForward
<1>12. CASE BeginAssign
  BY <1>0, <1>12 DEF BeginAssign
<1>13. CASE EndAssign
  BY <1>0, <1>13 DEF EndAssign
<1>14. CASE ConsumeOne
  BY <1>0, <1>14 DEF ConsumeOne
<1>15. CASE ConsumeReturns
  BY <1>0, <1>15 DEF ConsumeReturns
<1>16. CASE DrainEnds
  BY <1>0, <1>16 DEF DrainEnds, Release
<1>17. CASE Abort \/ GetNextMessage
  BY <1>17 DEF Abort, GetNextMessage
<1>18. CASE FlushStore \/ UNCHANGED vars
  BY <1>18 DEF FlushStore, vars
<1> QED
  BY NextCases, <1>1, <1>2, <1>3, <1>4, <1>5, <1>6, <1>7, <1>8, <1>9, <1>10, <1>11,
     <1>12, <1>13, <1>14, <1>15, <1>16, <1>17, <1>18

(* Outside a batch that overlaps it, no callback of the publisher meets an *)
(* installation under way.                                                 *)
LEMMA NoMeeting ==
  ASSUME MutexInv, Forwarding, Installing
  PROVE  overlap
<1>1. onNotifyMutex # PUBLISHER /\ batching /\ InCall
  BY DEF MutexInv, Installing, Draining, InCall, PUBLISHER, CLIENT
<1> QED
  BY <1>1 DEF MutexInv

LEMMA CallbackStep ==
  ASSUME TypeInv, MutexInv, CallbackInv, [Next]_vars
  PROVE  CallbackInv'
<1> USE DEF CallbackInv, InCall, hookVars, queueVars, logVars, Goto, THREAD, PUBLISHER, CLIENT,
        nullptr, torn
<1>0. /\ pc \in [THREAD -> PublisherLabel \cup ClientLabel] /\ calls \in 0 .. MaxCalls
      /\ forwardMessage \in BOOLEAN /\ overlap \in BOOLEAN /\ MaxCalls \in Nat
  BY ForwardAssumption DEF TypeInv, PlaceTypes, FlagTypes, ForwardAssumption
<1>1. CASE PushMessage \/ TestForward \/ PushToQueue
  BY <1>0, <1>1 DEF PushMessage, TestForward, PushToQueue
<1>2. CASE LockToForward \/ CallbackReturns
  BY <1>0, <1>2 DEF LockToForward, CallbackReturns
<1>3. CASE CallOnNewMessage
  <2>1. /\ pc'[CLIENT] = pc[CLIENT] /\ UNCHANGED <<hookVars, overlap>>
        /\ misfired' # misfired => onNewMessage \in {nullptr, torn}
    BY <1>0, <1>3 DEF CallOnNewMessage
  <2>2. onNewMessage \in {nullptr, torn} => overlap
    <3>1. SUFFICES ASSUME onNewMessage \in {nullptr, torn} PROVE overlap
      OBVIOUS
    <3>2. Forwarding /\ forwardMessage
      BY <1>3 DEF CallOnNewMessage, Forwarding, MutexInv
    <3>3. Installing
      BY <3>1, <3>2 DEF Installing, Draining
    <3> QED
      BY <3>2, <3>3, NoMeeting
  <2> QED
    BY <2>1, <2>2
<1>4. CASE StartBatch \/ EndBatch \/ Abort \/ GetNextMessage
  BY <1>0, <1>4 DEF StartBatch, EndBatch, Abort, GetNextMessage
<1>5. CASE OnNewMessage
  BY <1>0, <1>5 DEF OnNewMessage
<1>6. CASE LockToInstall
  BY <1>0, <1>6 DEF LockToInstall
<1>7. CASE SetForward
  BY <1>0, <1>7 DEF SetForward
<1>8. CASE BeginAssign
  BY <1>0, <1>8 DEF BeginAssign
<1>9. CASE EndAssign
  BY <1>0, <1>9 DEF EndAssign
<1>10. CASE ConsumeOne \/ ConsumeReturns \/ DrainEnds
  BY <1>0, <1>10 DEF ConsumeOne, ConsumeReturns, DrainEnds
<1>11. CASE FlushStore \/ UNCHANGED vars
  BY <1>11 DEF FlushStore, vars
<1> QED
  BY NextCases, <1>1, <1>2, <1>3, <1>4, <1>5, <1>6, <1>7, <1>8, <1>9, <1>10, <1>11

-----------------------------------------------------------------------------
(* What may still wait in the store buffer: outside a batch no more than    *)
(* the push of a call that is over, but for the unlock; and once messages   *)
(* are forwarded nothing in a batch, unless it overlaps the installation.   *)
DelayInv ==
  /\ ~batching => Len(messages) <= visible + 1 /\ (pc[PUBLISHER] # "idle" => Drained)
  /\ batching /\ forwardMessage /\ ~overlap => Drained /\ pc[PUBLISHER] # "push"

(* What the queue still holds once messages are forwarded: what was pushed, *)
(* or stored for the client, after the flag was set.                        *)
LateInv ==
  /\ late # {} => forwardMessage
  /\ ~overlap =>
       /\ forwardMessage /\ (pc[PUBLISHER] = "push" \/ ~Drained) => late = {}
       /\ late = {} \/ \E m \in 1 .. pushed : late = {m}

LeftInv ==
  forwardMessage /\ ~aborted /\ ~Draining => \A k \in 1 .. visible : messages[k] \in late

LEMMA DelayStep ==
  ASSUME TypeInv, MutexInv, DelayInv, [Next]_vars
  PROVE  DelayInv'
<1> USE DEF DelayInv, Drained, hookVars, queueVars, logVars, Goto, THREAD, PUBLISHER, CLIENT
<1>0. /\ pc \in [THREAD -> PublisherLabel \cup ClientLabel]
      /\ messages \in Seq(1 .. pushed) /\ Len(messages) \in Nat /\ visible \in 0 .. Len(messages)
      /\ batching \in BOOLEAN /\ forwardMessage \in BOOLEAN /\ overlap \in BOOLEAN
  BY DEF TypeInv, PlaceTypes, FlagTypes, LogTypes
<1>1. CASE PushMessage
  BY <1>0, <1>1 DEF PushMessage
<1>2. CASE TestForward
  BY <1>0, <1>2 DEF TestForward
<1>3. CASE PushToQueue
  <2>1. /\ pc[PUBLISHER] = "push" /\ pc'[PUBLISHER] = "idle"
        /\ UNCHANGED <<visible, batching, forwardMessage, overlap>>
        /\ messages' = messages \/ messages' = Append(messages, pushed)
    BY <1>0, <1>3 DEF PushToQueue
  <2>2. Len(messages') <= Len(messages) + 1
    BY <1>0, <2>1
  <2> QED
    BY <1>0, <2>1, <2>2
<1>4. CASE LockToForward \/ CallOnNewMessage \/ CallbackReturns
  BY <1>0, <1>4 DEF LockToForward, CallOnNewMessage, CallbackReturns
<1>5. CASE StartBatch \/ EndBatch \/ Abort
  BY <1>0, <1>5 DEF StartBatch, EndBatch, Abort
<1>6. CASE OnNewMessage \/ LockToInstall \/ BeginAssign \/ EndAssign
  BY <1>0, <1>6 DEF OnNewMessage, LockToInstall, BeginAssign, EndAssign
<1>7. CASE SetForward
  BY <1>0, <1>7 DEF SetForward, MutexInv, InCall
<1>8. CASE ConsumeOne \/ DrainEnds
  BY <1>0, <1>8 DEF ConsumeOne, DrainEnds
<1>9. CASE ConsumeReturns \/ GetNextMessage
  <2>1. /\ visible > 0 /\ messages' = Tail(messages) /\ visible' = visible - 1
        /\ pc'[PUBLISHER] = pc[PUBLISHER] /\ UNCHANGED <<batching, forwardMessage, overlap>>
    BY <1>0, <1>9 DEF ConsumeReturns, GetNextMessage, TypeInv, HandInv
  <2>2. Len(messages') = Len(messages) - 1
    BY <1>0, <2>1
  <2> QED
    BY <1>0, <2>1, <2>2
<1>10. CASE FlushStore \/ UNCHANGED vars
  BY <1>0, <1>10 DEF FlushStore, vars
<1> QED
  BY NextCases, <1>1, <1>2, <1>3, <1>4, <1>5, <1>6, <1>7, <1>8, <1>9, <1>10

LEMMA LateStep ==
  ASSUME TypeInv, DelayInv, LateInv, [Next]_vars
  PROVE  LateInv'
<1> USE DEF LateInv, Drained, hookVars, queueVars, logVars, Goto, THREAD, PUBLISHER, CLIENT
<1>0. /\ pc \in [THREAD -> PublisherLabel \cup ClientLabel] /\ pushed \in Nat
      /\ messages \in Seq(1 .. pushed) /\ Len(messages) \in Nat /\ visible \in 0 .. Len(messages)
      /\ forwardMessage \in BOOLEAN /\ overlap \in BOOLEAN
  BY DEF TypeInv, PlaceTypes, LogTypes, FlagTypes
<1>1. CASE PushMessage
  BY <1>0, <1>1 DEF PushMessage
<1>2. CASE TestForward
  BY <1>0, <1>2 DEF TestForward
<1>3. CASE PushToQueue
  BY <1>0, <1>3 DEF PushToQueue
<1>4. CASE LockToForward \/ CallOnNewMessage \/ CallbackReturns
  BY <1>0, <1>4 DEF LockToForward, CallOnNewMessage, CallbackReturns
<1>5. CASE StartBatch \/ EndBatch \/ Abort
  BY <1>5 DEF StartBatch, EndBatch, Abort
<1>6. CASE OnNewMessage \/ LockToInstall \/ BeginAssign \/ EndAssign
  BY <1>0, <1>6 DEF OnNewMessage, LockToInstall, BeginAssign, EndAssign
<1>7. CASE SetForward
  BY <1>0, <1>7 DEF SetForward
<1>8. CASE ConsumeOne \/ DrainEnds
  BY <1>0, <1>8 DEF ConsumeOne, DrainEnds
<1>9. CASE ConsumeReturns \/ GetNextMessage
  <2>1. /\ visible > 0 /\ messages' = Tail(messages) /\ visible' = visible - 1
        /\ pc'[PUBLISHER] = pc[PUBLISHER]
        /\ UNCHANGED <<pushed, late, forwardMessage, overlap>>
    BY <1>0, <1>9 DEF ConsumeReturns, GetNextMessage, TypeInv, HandInv
  <2>2. Len(messages') = Len(messages) - 1
    BY <1>0, <2>1
  <2>3. Drained' <=> Drained
    BY <1>0, <2>1, <2>2
  <2> QED
    BY <2>1, <2>3
<1>10. CASE FlushStore
  <2>1. /\ visible' = visible + 1 /\ ~Drained /\ visible' \in 1 .. Len(messages)
        /\ UNCHANGED <<pc, pushed, messages, forwardMessage, overlap>>
        /\ late' = IF forwardMessage THEN late \cup {messages[visible']} ELSE late
    BY <1>0, <1>10 DEF FlushStore
  <2>2. messages[visible'] \in 1 .. pushed
    BY <1>0, <2>1
  <2>3. ~overlap /\ forwardMessage => Drained' /\ pc[PUBLISHER] # "push" /\ late = {}
    BY <1>0, <2>1 DEF DelayInv
  <2> QED
    BY <2>1, <2>2, <2>3
<1>11. CASE UNCHANGED vars
  BY <1>11 DEF vars
<1> QED
  BY NextCases, <1>1, <1>2, <1>3, <1>4, <1>5, <1>6, <1>7, <1>8, <1>9, <1>10, <1>11

(* A message taken from the front leaves the others where they were. *)
LEMMA PopKeeps ==
  ASSUME LogTypes, messages # <<>>, messages' = Tail(messages),
         NEW k \in DOMAIN messages'
  PROVE  k \in Nat /\ k + 1 \in DOMAIN messages /\ messages'[k] = messages[k + 1]
BY TailFacts DEF LogTypes

(* A message queued at the back leaves the others where they were. *)
LEMMA PushKeeps ==
  ASSUME LogTypes, pushed \in 1 .. pushed, messages' = Append(messages, pushed),
         NEW k \in DOMAIN messages'
  PROVE  \/ k \in DOMAIN messages /\ messages'[k] = messages[k]
         \/ k = Len(messages) + 1 /\ messages'[k] = pushed
<1>1. messages \in Seq(1 .. pushed)
  BY DEF LogTypes
<1> QED
  BY <1>1, AppendFacts

LEMMA LeftStep ==
  ASSUME TypeInv, LeftInv, [Next]_vars
  PROVE  LeftInv'
<1> USE DEF LeftInv, Draining, hookVars, queueVars, logVars, Goto, THREAD, PUBLISHER, CLIENT
<1>0. /\ pc \in [THREAD -> PublisherLabel \cup ClientLabel]
      /\ messages \in Seq(1 .. pushed) /\ Len(messages) \in Nat /\ visible \in 0 .. Len(messages)
      /\ pushed \in Nat /\ pc[PUBLISHER] # "idle" => pushed > 0
      /\ aborted \in BOOLEAN /\ forwardMessage \in BOOLEAN
  BY DEF TypeInv, PlaceTypes, LogTypes, HandInv, FlagTypes
<1>1. CASE PushMessage \/ TestForward
  BY <1>0, <1>1 DEF PushMessage, TestForward
<1>2. CASE PushToQueue
  <2>1. /\ pc[PUBLISHER] = "push" /\ pc'[CLIENT] = pc[CLIENT]
        /\ UNCHANGED <<visible, late, forwardMessage, aborted>>
        /\ messages' = messages \/ messages' = Append(messages, pushed)
    BY <1>0, <1>2 DEF PushToQueue
  <2>2. \A k \in 1 .. visible : messages'[k] = messages[k]
    BY <1>0, <2>1, AppendFacts
  <2> QED
    BY <2>1, <2>2
<1>3. CASE LockToForward \/ CallOnNewMessage \/ CallbackReturns
  BY <1>0, <1>3 DEF LockToForward, CallOnNewMessage, CallbackReturns
<1>4. CASE StartBatch \/ EndBatch \/ Abort
  BY <1>4 DEF StartBatch, EndBatch, Abort
<1>5. CASE OnNewMessage \/ LockToInstall \/ SetForward \/ BeginAssign \/ EndAssign
  BY <1>0, <1>5 DEF OnNewMessage, LockToInstall, SetForward, BeginAssign, EndAssign
<1>6. CASE ConsumeOne \/ ConsumeReturns
  BY <1>0, <1>6 DEF ConsumeOne, ConsumeReturns
<1>7. CASE DrainEnds
  BY <1>0, <1>7 DEF DrainEnds
<1>8. CASE GetNextMessage
  <2>1. /\ visible > 0 /\ messages' = Tail(messages) /\ visible' = visible - 1
        /\ UNCHANGED <<late, pc, forwardMessage, aborted>>
    BY <1>8 DEF GetNextMessage
  <2>2. ASSUME NEW k \in 1 .. visible'
        PROVE  k + 1 \in 1 .. visible /\ messages'[k] = messages[k + 1]
    <3>1. messages # <<>> /\ k \in DOMAIN Tail(messages)
      BY <1>0, <2>1
    <3> QED
      BY <1>0, <2>1, <3>1, TailFacts
  <2> QED
    BY <2>1, <2>2
<1>9. CASE FlushStore
  <2>1. /\ visible' = visible + 1 /\ UNCHANGED <<messages, pc, forwardMessage, aborted>>
        /\ late' = IF forwardMessage THEN late \cup {messages[visible']} ELSE late
    BY <1>9 DEF FlushStore
  <2>2. 1 .. visible' = (1 .. visible) \cup {visible'}
    BY <1>0, <2>1
  <2> QED
    BY <2>1, <2>2
<1>10. CASE UNCHANGED vars
  BY <1>10 DEF vars
<1> QED
  BY NextCases, <1>1, <1>2, <1>3, <1>4, <1>5, <1>6, <1>7, <1>8, <1>9, <1>10

-----------------------------------------------------------------------------
(* Order.  What excuses a message that comes late stays once it is there,   *)
(* the queue is in the order of publication, and a message still queued is  *)
(* not overtaken without an excuse.                                        *)
Excused(m) == overlap \/ aborted \/ m \in late

OrderInv ==
  /\ \A i, k \in DOMAIN seen : i < k /\ seen[i] > seen[k] => Excused(seen[k])
  /\ \A i, k \in DOMAIN messages : i < k => messages[i] <= messages[k]
  /\ \A i \in DOMAIN seen, k \in DOMAIN messages : seen[i] > messages[k] => Excused(messages[k])

LEMMA ExcusesStay ==
  ASSUME TypeInv, [Next]_vars, NEW m, Excused(m)
  PROVE  Excused(m)'
<1> USE DEF Excused, hookVars, queueVars, logVars
<1>1. CASE PushMessage \/ TestForward \/ LockToForward \/ CallOnNewMessage \/ CallbackReturns
  BY <1>1 DEF PushMessage, TestForward, LockToForward, CallOnNewMessage, CallbackReturns
<1>2. CASE PushToQueue
  BY <1>2 DEF PushToQueue
<1>3. CASE StartBatch \/ EndBatch \/ OnNewMessage \/ LockToInstall \/ SetForward
  BY <1>3 DEF StartBatch, EndBatch, OnNewMessage, LockToInstall, SetForward
<1>4. CASE BeginAssign \/ EndAssign \/ ConsumeOne \/ ConsumeReturns \/ DrainEnds
  BY <1>4 DEF BeginAssign, EndAssign, ConsumeOne, ConsumeReturns, DrainEnds
<1>5. CASE Abort \/ GetNextMessage \/ FlushStore \/ UNCHANGED vars
  BY <1>5 DEF Abort, GetNextMessage, FlushStore, vars
<1> QED
  BY NextCases, <1>1, <1>2, <1>3, <1>4, <1>5

(* What a step does to the queue and to the messages seen. *)
LEMMA MoveCases ==
  ASSUME TypeInv, [Next]_vars
  PROVE  \/ UNCHANGED <<messages, seen>>
         \/ PushToQueue /\ messages' = Append(messages, pushed) /\ UNCHANGED seen
         \/ CallbackReturns
         \/ messages # <<>> /\ messages' = Tail(messages) /\ seen' = Append(seen, Head(messages))
<1> USE DEF hookVars, queueVars, logVars
<1>1. CASE PushMessage \/ TestForward \/ LockToForward \/ CallOnNewMessage \/ CallbackReturns
  BY <1>1 DEF PushMessage, TestForward, LockToForward, CallOnNewMessage
<1>2. CASE PushToQueue
  BY <1>2 DEF PushToQueue
<1>3. CASE StartBatch \/ EndBatch \/ OnNewMessage \/ LockToInstall \/ SetForward
  BY <1>3 DEF StartBatch, EndBatch, OnNewMessage, LockToInstall, SetForward
<1>4. CASE BeginAssign \/ EndAssign \/ ConsumeOne \/ DrainEnds \/ Abort
  BY <1>4 DEF BeginAssign, EndAssign, ConsumeOne, DrainEnds, Abort
<1>5. CASE ConsumeReturns \/ GetNextMessage
  BY <1>5, SomethingThere DEF ConsumeReturns, GetNextMessage, TypeInv, HandInv
<1>6. CASE FlushStore \/ UNCHANGED vars
  BY <1>6 DEF FlushStore, vars
<1> QED
  BY NextCases, <1>1, <1>2, <1>3, <1>4, <1>5, <1>6

(* A message seen is added behind those seen before. *)
LEMMA SeeKeeps ==
  ASSUME LogTypes, NEW x \in 1 .. pushed, seen' = Append(seen, x), NEW i \in DOMAIN seen'
  PROVE  /\ i \in 1 .. Len(seen) + 1 /\ Len(seen) \in Nat /\ DOMAIN seen = 1 .. Len(seen)
         /\ i <= Len(seen) => i \in DOMAIN seen /\ seen'[i] = seen[i]
         /\ i = Len(seen) + 1 => seen'[i] = x
<1>1. seen \in Seq(1 .. pushed)
  BY DEF LogTypes
<1> QED
  BY <1>1, AppendFacts

LEMMA OrderStep ==
  ASSUME TypeInv, MutexInv, DelayInv, LeftInv, OrderInv, [Next]_vars
  PROVE  OrderInv'
<1>0. /\ LogTypes /\ pushed \in Nat
      /\ \A i \in DOMAIN seen : seen[i] \in 1 .. pushed
      /\ \A k \in DOMAIN messages : messages[k] \in 1 .. pushed
      /\ pc[PUBLISHER] # "idle" => pushed \in 1 .. pushed
  <2>1. LogTypes /\ HandInv
    BY DEF TypeInv
  <2>2. pushed \in Nat /\ messages \in Seq(1 .. pushed) /\ seen \in Seq(1 .. pushed)
    BY <2>1 DEF LogTypes
  <2> QED
    BY <2>1, <2>2 DEF HandInv
<1>1. CASE UNCHANGED <<messages, seen>>
  BY <1>1, ExcusesStay DEF OrderInv
<1>2. CASE PushToQueue /\ messages' = Append(messages, pushed) /\ UNCHANGED seen
  <2>1. pushed \in 1 .. pushed /\ UNCHANGED seen
    BY <1>0, <1>2 DEF PushToQueue
  <2>2. ASSUME NEW k \in DOMAIN messages'
        PROVE  \/ k \in DOMAIN messages /\ messages'[k] = messages[k]
               \/ k = Len(messages) + 1 /\ messages'[k] = pushed
    BY <1>0, <1>2, <2>1, PushKeeps
  <2>3. DOMAIN messages = 1 .. Len(messages) /\ Len(messages) \in Nat
    BY <1>0 DEF LogTypes
  <2>4. ASSUME NEW i \in DOMAIN seen', NEW k \in DOMAIN seen', i < k, seen'[i] > seen'[k]
        PROVE  Excused(seen[k])'
    BY <2>1, <2>4, ExcusesStay DEF OrderInv
  <2>5. ASSUME NEW i \in DOMAIN messages', NEW k \in DOMAIN messages', i < k
        PROVE  messages'[i] <= messages'[k]
    <3>1. CASE k \in DOMAIN messages /\ messages'[k] = messages[k]
      <4>1. i \in DOMAIN messages /\ messages'[i] = messages[i]
        BY <2>2, <2>3, <2>5, <3>1
      <4> QED
        BY <2>5, <3>1, <4>1 DEF OrderInv
    <3>2. CASE k = Len(messages) + 1 /\ messages'[k] = pushed
      <4>1. messages'[i] \in 1 .. pushed
        BY <1>0, <2>1, <2>2
      <4> QED
        BY <1>0, <3>2, <4>1
    <3> QED
      BY <2>2, <3>1, <3>2
  <2>6. ASSUME NEW i \in DOMAIN seen', NEW k \in DOMAIN messages', seen'[i] > messages'[k]
        PROVE  Excused(messages[k])'
    <3>1. i \in DOMAIN seen /\ seen'[i] = seen[i] /\ seen[i] \in 1 .. pushed
      BY <1>0, <2>1
    <3>2. k \in DOMAIN messages /\ messages'[k] = messages[k]
      BY <1>0, <2>2, <2>6, <3>1
    <3>3. Excused(messages[k])
      BY <2>6, <3>1, <3>2 DEF OrderInv
    <3> QED
      BY <3>2, <3>3, ExcusesStay
  <2> QED
    BY <2>4, <2>5, <2>6 DEF OrderInv
<1>3. CASE CallbackReturns
  <2>1. /\ pushed \in 1 .. pushed /\ UNCHANGED messages /\ seen' = Append(seen, pushed)
        /\ Forwarding /\ forwardMessage
    BY <1>0, <1>3 DEF CallbackReturns, Forwarding, MutexInv, queueVars
  <2>2. \A k \in DOMAIN messages : Excused(messages[k])
    <3>1. CASE Draining
      BY <2>1, <3>1, NoMeeting DEF Installing, Excused
    <3>2. CASE ~Draining
      <4>1. Drained \/ overlap
        BY <1>3, <2>1 DEF CallbackReturns, DelayInv
      <4>2. DOMAIN messages = 1 .. Len(messages)
        BY <1>0 DEF LogTypes
      <4> QED
        BY <2>1, <3>2, <4>1, <4>2 DEF LeftInv, Excused, Drained
    <3> QED
      BY <3>1, <3>2
  <2>3. \A k \in DOMAIN messages' : Excused(messages[k])'
    BY <2>1, <2>2, ExcusesStay
  <2>4. ASSUME NEW i \in DOMAIN seen', NEW k \in DOMAIN seen', i < k, seen'[i] > seen'[k]
        PROVE  Excused(seen[k])'
    <3>1. i \in 1 .. Len(seen) + 1 /\ k \in 1 .. Len(seen) + 1 /\ Len(seen) \in Nat
      BY <1>0, <2>1, SeeKeeps
    <3>2. i \in DOMAIN seen /\ seen'[i] = seen[i]
      <4>1. i <= Len(seen)
        BY <2>4, <3>1
      <4> QED
        BY <1>0, <2>1, <4>1, SeeKeeps
    <3>3. k # Len(seen) + 1
      <4>1. k = Len(seen) + 1 => seen'[k] = pushed
        BY <1>0, <2>1, SeeKeeps
      <4>2. seen[i] \in 1 .. pushed
        BY <1>0, <3>2
      <4> QED
        BY <1>0, <2>4, <3>2, <4>1, <4>2
    <3>4. k \in DOMAIN seen /\ seen'[k] = seen[k]
      <4>1. k <= Len(seen)
        BY <3>1, <3>3
      <4> QED
        BY <1>0, <2>1, <4>1, SeeKeeps
    <3>5. Excused(seen[k])
      BY <2>4, <3>2, <3>4 DEF OrderInv
    <3> QED
      BY <3>4, <3>5, ExcusesStay
  <2> QED
    BY <2>1, <2>3, <2>4 DEF OrderInv
<1>4. CASE messages # <<>> /\ messages' = Tail(messages) /\ seen' = Append(seen, Head(messages))
  <2>1. Head(messages) \in 1 .. pushed /\ Head(messages) = messages[1] /\ 1 \in DOMAIN messages
    BY <1>0, <1>4, TailFacts DEF LogTypes
  <2>2. ASSUME NEW k \in DOMAIN messages'
        PROVE  /\ k \in Nat /\ k + 1 \in DOMAIN messages /\ messages'[k] = messages[k + 1]
    BY <1>0, <1>4, PopKeeps
  <2>3. ASSUME NEW i \in DOMAIN seen'
        PROVE  \/ i \in DOMAIN seen /\ seen'[i] = seen[i]
               \/ i = Len(seen) + 1 /\ seen'[i] = messages[1]
    <3>1. /\ i \in 1 .. Len(seen) + 1 /\ Len(seen) \in Nat
          /\ i <= Len(seen) => i \in DOMAIN seen /\ seen'[i] = seen[i]
          /\ i = Len(seen) + 1 => seen'[i] = messages[1]
      BY <1>0, <1>4, <2>1, SeeKeeps
    <3> QED
      BY <3>1
  <2>4. DOMAIN seen = 1 .. Len(seen) /\ Len(seen) \in Nat /\ DOMAIN messages \subseteq Nat
    BY <1>0 DEF LogTypes
  <2>5. ASSUME NEW i \in DOMAIN seen', NEW k \in DOMAIN seen', i < k, seen'[i] > seen'[k]
        PROVE  Excused(seen[k])'
    <3>1. i \in DOMAIN seen /\ seen'[i] = seen[i]
      BY <2>3, <2>4, <2>5
    <3>2. CASE k \in DOMAIN seen /\ seen'[k] = seen[k]
      <4>1. Excused(seen[k])
        BY <2>5, <3>1, <3>2 DEF OrderInv
      <4> QED
        BY <3>2, <4>1, ExcusesStay
    <3>3. CASE k = Len(seen) + 1 /\ seen'[k] = messages[1]
      <4>1. Excused(messages[1])
        BY <2>1, <2>5, <3>1, <3>3 DEF OrderInv
      <4> QED
        BY <3>3, <4>1, ExcusesStay
    <3> QED
      BY <2>3, <3>2, <3>3
  <2>6. ASSUME NEW i \in DOMAIN messages', NEW k \in DOMAIN messages', i < k
        PROVE  messages'[i] <= messages'[k]
    <3>1. /\ i \in Nat /\ i + 1 \in DOMAIN messages /\ messages'[i] = messages[i + 1]
          /\ k \in Nat /\ k + 1 \in DOMAIN messages /\ messages'[k] = messages[k + 1]
      BY <2>2
    <3>2. i + 1 < k + 1
      BY <2>6, <3>1
    <3> QED
      BY <3>1, <3>2 DEF OrderInv
  <2>7. ASSUME NEW i \in DOMAIN seen', NEW k \in DOMAIN messages', seen'[i] > messages'[k]
        PROVE  Excused(messages[k])'
    <3>1. k \in Nat /\ k + 1 \in DOMAIN messages /\ messages'[k] = messages[k + 1]
      BY <2>2
    <3>2. CASE i \in DOMAIN seen /\ seen'[i] = seen[i]
      <4>1. Excused(messages[k + 1])
        BY <2>7, <3>1, <3>2 DEF OrderInv
      <4> QED
        BY <3>1, <4>1, ExcusesStay
    <3>3. CASE seen'[i] = messages[1]
      <4>1. k # 0 => messages[1] <= messages[k + 1]
        <5>1. k # 0 => 1 < k + 1
          BY <3>1
        <5> QED
          BY <2>1, <3>1, <5>1 DEF OrderInv
      <4>2. messages[1] \in 1 .. pushed /\ messages[k + 1] \in 1 .. pushed
        BY <1>0, <2>1, <3>1
      <4>3. k = 0 => messages[1] = messages[k + 1]
        BY <3>1
      <4> QED
        BY <1>0, <2>7, <3>1, <3>3, <4>1, <4>2, <4>3
    <3> QED
      BY <2>3, <3>2, <3>3
  <2> QED
    BY <2>5, <2>6, <2>7 DEF OrderInv
<1> QED
  BY MoveCases, <1>1, <1>2, <1>3, <1>4

-----------------------------------------------------------------------------
(* Every message is in one place.  Queue and log hold nothing twice, and    *)
(* with the messages that are gone and the one in hand they divide those    *)
(* pushed among them.                                                      *)
Once(s) == \A i, k \in DOMAIN s : s[i] = s[k] => i = k
Lost == refused \cup misfired
Hand == IF pc[PUBLISHER] = "idle" THEN {} ELSE {pushed}

PlaceInv ==
  /\ Once(seen) /\ Once(messages)
  /\ ToSet(seen) \cap ToSet(messages) = {}
  /\ (ToSet(seen) \cup ToSet(messages)) \cap (Lost \cup Hand) = {}
  /\ Lost \cap Hand = {}
  /\ ToSet(seen) \cup ToSet(messages) \cup Lost \cup Hand = 1 .. pushed

LEMMA OnceAppend ==
  ASSUME NEW S, NEW s \in Seq(S), Once(s), NEW x \in S, x \notin ToSet(s)
  PROVE  Once(Append(s, x)) /\ ToSet(Append(s, x)) = ToSet(s) \cup {x}
<1>1. /\ Len(s) \in Nat /\ DOMAIN s = 1 .. Len(s) /\ DOMAIN Append(s, x) = 1 .. Len(s) + 1
      /\ \A i \in DOMAIN s : Append(s, x)[i] = s[i]
      /\ Append(s, x)[Len(s) + 1] = x
  BY AppendFacts
<1>2. \A i \in DOMAIN Append(s, x) : i \in DOMAIN s \/ i = Len(s) + 1
  BY <1>1
<1>3. \A i \in DOMAIN s : s[i] # x
  BY DEF ToSet
<1>4. Once(Append(s, x))
  BY <1>1, <1>2, <1>3 DEF Once
<1>5. DOMAIN s \subseteq DOMAIN Append(s, x) /\ Len(s) + 1 \in DOMAIN Append(s, x)
  BY <1>1
<1>6. ToSet(Append(s, x)) = ToSet(s) \cup {x}
  BY <1>1, <1>2, <1>5 DEF ToSet
<1> QED
  BY <1>4, <1>6

LEMMA OnceTail ==
  ASSUME NEW S, NEW s \in Seq(S), Once(s), s # <<>>
  PROVE  /\ Once(Tail(s)) /\ Head(s) \in ToSet(s)
         /\ ToSet(Tail(s)) = ToSet(s) \ {Head(s)}
<1>1. /\ Len(s) \in Nat \ {0} /\ DOMAIN s = 1 .. Len(s) /\ DOMAIN Tail(s) = 1 .. Len(s) - 1
      /\ Head(s) = s[1]
      /\ \A i \in DOMAIN Tail(s) : i + 1 \in DOMAIN s /\ Tail(s)[i] = s[i + 1]
  BY TailFacts
<1>2. 1 \in DOMAIN s
  BY <1>1
<1>3. Once(Tail(s))
  <2>1. ASSUME NEW i \in DOMAIN Tail(s), NEW k \in DOMAIN Tail(s), Tail(s)[i] = Tail(s)[k]
        PROVE  i = k
    <3>1. i + 1 = k + 1
      BY <1>1, <2>1 DEF Once
    <3> QED
      BY <1>1, <3>1
  <2> QED
    BY <2>1 DEF Once
<1>4. ASSUME NEW i \in DOMAIN Tail(s)
      PROVE  Tail(s)[i] \in ToSet(s) /\ Tail(s)[i] # Head(s)
  <2>1. i + 1 # 1 /\ i + 1 \in DOMAIN s /\ Tail(s)[i] = s[i + 1]
    BY <1>1
  <2> QED
    BY <1>1, <1>2, <2>1 DEF Once, ToSet
<1>5. ASSUME NEW i \in DOMAIN s, s[i] # Head(s)
      PROVE  s[i] \in ToSet(Tail(s))
  <2>1. i # 1
    BY <1>1, <1>5
  <2>2. i - 1 \in DOMAIN Tail(s) /\ (i - 1) + 1 = i
    BY <1>1, <2>1
  <2>3. Tail(s)[i - 1] = s[i]
    BY <1>1, <2>2
  <2> QED
    BY <2>2, <2>3 DEF ToSet
<1>6. ToSet(Tail(s)) \subseteq ToSet(s) \ {Head(s)}
  BY <1>4 DEF ToSet
<1>7. ToSet(s) \ {Head(s)} \subseteq ToSet(Tail(s))
  BY <1>5 DEF ToSet
<1> QED
  BY <1>1, <1>2, <1>3, <1>6, <1>7 DEF ToSet

LEMMA PlaceStep ==
  ASSUME TypeInv, PlaceInv, [Next]_vars
  PROVE  PlaceInv'
<1> USE DEF Lost, hookVars, queueVars, logVars, Goto
<1>0. /\ pc \in [THREAD -> PublisherLabel \cup ClientLabel] /\ PUBLISHER \in THREAD
      /\ PUBLISHER # CLIENT /\ pushed \in Nat
      /\ messages \in Seq(1 .. pushed) /\ seen \in Seq(1 .. pushed)
      /\ pc[PUBLISHER] # "idle" => pushed \in 1 .. pushed
  BY DEF TypeInv, PlaceTypes, LogTypes, HandInv, THREAD, PUBLISHER, CLIENT
<1>1. ASSUME UNCHANGED <<seen, messages, refused, misfired, pushed>>,
             pc'[PUBLISHER] = pc[PUBLISHER] \/ (pc[PUBLISHER] # "idle" /\ pc'[PUBLISHER] # "idle")
      PROVE  PlaceInv'
  <2>1. Hand' = Hand
    BY <1>1 DEF Hand
  <2> QED
    BY <1>1, <2>1 DEF PlaceInv
<1>2. CASE PushMessage
  <2>1. /\ pushed' = pushed + 1 /\ UNCHANGED <<seen, messages, refused, misfired>>
        /\ Hand = {} /\ Hand' = {pushed'}
    BY <1>0, <1>2 DEF PushMessage, Hand
  <2>2. 1 .. pushed' = (1 .. pushed) \cup {pushed'} /\ pushed' \notin 1 .. pushed
    BY <1>0, <2>1
  <2> QED
    BY <2>1, <2>2 DEF PlaceInv
<1>3. CASE PushToQueue
  <2>1. Hand = {pushed} /\ Hand' = {} /\ UNCHANGED <<pushed, seen, misfired>>
    BY <1>0, <1>3 DEF PushToQueue, Hand
  <2>2. pushed \in 1 .. pushed /\ pushed \notin ToSet(seen) \cup ToSet(messages) \cup Lost
    BY <1>0, <1>3, <2>1 DEF PlaceInv, PushToQueue
  <2>3. CASE messages' = messages /\ refused' = refused \cup {pushed}
    BY <2>1, <2>2, <2>3 DEF PlaceInv
  <2>4. CASE messages' = Append(messages, pushed) /\ refused' = refused
    <3>1. Once(messages') /\ ToSet(messages') = ToSet(messages) \cup {pushed}
      BY <1>0, <2>2, <2>4, OnceAppend DEF PlaceInv
    <3> QED
      BY <2>1, <2>2, <2>4, <3>1 DEF PlaceInv
  <2> QED
    BY <1>3, <2>3, <2>4 DEF PushToQueue
<1>4. CASE CallOnNewMessage
  <2>1. CASE onNewMessage \in {nullptr, torn}
    <3>1. /\ Hand = {pushed} /\ Hand' = {} /\ misfired' = misfired \cup {pushed}
          /\ UNCHANGED <<pushed, seen, messages, refused>>
      BY <1>0, <1>4, <2>1 DEF CallOnNewMessage, Hand
    <3> QED
      BY <3>1 DEF PlaceInv
  <2>2. CASE onNewMessage \notin {nullptr, torn}
    BY <1>0, <1>1, <1>4, <2>2 DEF CallOnNewMessage
  <2> QED
    BY <2>1, <2>2
<1>5. CASE CallbackReturns
  <2>1. /\ Hand = {pushed} /\ Hand' = {} /\ seen' = Append(seen, pushed)
        /\ UNCHANGED <<pushed, messages, refused, misfired>>
    BY <1>0, <1>5 DEF CallbackReturns, Hand
  <2>2. pushed \in 1 .. pushed /\ pushed \notin ToSet(seen) \cup ToSet(messages) \cup Lost
    BY <1>0, <1>5, <2>1 DEF PlaceInv, CallbackReturns
  <2>3. Once(seen') /\ ToSet(seen') = ToSet(seen) \cup {pushed}
    BY <1>0, <2>1, <2>2, OnceAppend DEF PlaceInv
  <2> QED
    BY <2>1, <2>2, <2>3 DEF PlaceInv
<1>6. CASE ConsumeReturns \/ GetNextMessage
  <2>1. /\ messages # <<>> /\ messages' = Tail(messages) /\ seen' = Append(seen, Head(messages))
        /\ UNCHANGED <<pushed, refused, misfired>>
    BY <1>6, SomethingThere DEF ConsumeReturns, GetNextMessage, TypeInv, HandInv
  <2>2. Hand' = Hand
    BY <1>0, <1>6 DEF ConsumeReturns, GetNextMessage, Hand
  <2>3. /\ Once(messages') /\ Head(messages) \in ToSet(messages)
        /\ ToSet(messages') = ToSet(messages) \ {Head(messages)}
    BY <1>0, <2>1, OnceTail DEF PlaceInv
  <2>4. Head(messages) \in 1 .. pushed /\ Head(messages) \notin ToSet(seen)
    BY <2>3 DEF PlaceInv
  <2>5. Once(seen') /\ ToSet(seen') = ToSet(seen) \cup {Head(messages)}
    BY <1>0, <2>1, <2>4, OnceAppend DEF PlaceInv
  <2> QED
    BY <2>1, <2>2, <2>3, <2>4, <2>5 DEF PlaceInv
<1>7. CASE TestForward \/ LockToForward
  BY <1>0, <1>1, <1>7 DEF TestForward, LockToForward
<1>8. CASE StartBatch \/ EndBatch \/ Abort \/ FlushStore \/ UNCHANGED vars
  BY <1>1, <1>8 DEF StartBatch, EndBatch, Abort, FlushStore, vars
<1>9. CASE OnNewMessage \/ LockToInstall \/ SetForward \/ BeginAssign \/ EndAssign
  BY <1>0, <1>1, <1>9 DEF OnNewMessage, LockToInstall, SetForward, BeginAssign, EndAssign
<1>10. CASE ConsumeOne \/ DrainEnds
  BY <1>0, <1>1, <1>10 DEF ConsumeOne, DrainEnds
<1> QED
  BY NextCases, <1>2, <1>3, <1>4, <1>5, <1>6, <1>7, <1>8, <1>9, <1>10

(* Copies counts to one at most where nothing is there twice. *)
LEMMA CopiesOnce ==
  ASSUME NEW s, Once(s), NEW m
  PROVE  Copies(s, m) = IF m \in ToSet(s) THEN 1 ELSE 0
<1>1. CASE m \in ToSet(s)
  <2>1. PICK i \in DOMAIN s : s[i] = m
    BY <1>1 DEF ToSet
  <2>2. {k \in DOMAIN s : s[k] = m} = {i}
    BY <2>1 DEF Once
  <2> QED
    BY <1>1, <2>2, FS_Singleton DEF Copies
<1>2. CASE m \notin ToSet(s)
  <2>1. {k \in DOMAIN s : s[k] = m} = {}
    BY <1>2 DEF ToSet
  <2> QED
    BY <1>2, <2>1, FS_EmptySet DEF Copies
<1> QED
  BY <1>1, <1>2

-----------------------------------------------------------------------------
(* The inductive invariant and what it implies. *)
IInv ==
  /\ TypeInv /\ MutexInv /\ CallbackInv
  /\ DelayInv /\ LateInv /\ LeftInv /\ OrderInv /\ PlaceInv

LEMMA InitIInv ==
  ASSUME Init
  PROVE  IInv
<1>1. TypeInv
  <2>1. MaxMessages \in Nat /\ MaxCalls \in Nat /\ Capacity \in Nat
    BY ForwardAssumption DEF ForwardAssumption
  <2>2. FlagTypes /\ HandInv
    BY DEF Init, FlagTypes, HandInv, THREAD, PUBLISHER, CLIENT
  <2>3. PlaceTypes
    BY <2>1 DEF Init, PlaceTypes, PublisherLabel, ClientLabel, THREAD, PUBLISHER, CLIENT,
       nobody, nullptr
  <2>4. LogTypes
    <3>1. <<>> \in Seq(1 .. 0) /\ Len(<<>>) = 0
      OBVIOUS
    <3> QED
      BY <2>1, <3>1 DEF Init, LogTypes
  <2> QED
    BY <2>2, <2>3, <2>4 DEF TypeInv
<1>2. MutexInv /\ CallbackInv
  BY DEF Init, MutexInv, CallbackInv, Installing, Draining, Forwarding, InCall,
     THREAD, PUBLISHER, CLIENT, nobody
<1>3. DelayInv /\ LateInv /\ LeftInv /\ OrderInv
  BY DEF Init, DelayInv, LateInv, LeftInv, OrderInv, Drained, THREAD, PUBLISHER, CLIENT
<1>4. PlaceInv
  <2>1. /\ messages = <<>> /\ seen = <<>> /\ pushed = 0 /\ Lost = {} /\ Hand = {}
    BY DEF Init, Lost, Hand, THREAD, PUBLISHER
  <2>2. ToSet(<<>>) = {} /\ Once(<<>>) /\ 1 .. 0 = {}
    BY DEF ToSet, Once
  <2> QED
    BY <2>1, <2>2 DEF PlaceInv
<1> QED
  BY <1>1, <1>2, <1>3, <1>4 DEF IInv

(* IInv holds of every reachable state. *)
THEOREM IInvCorrect == Spec => []IInv
<1>1. Init => IInv
  BY InitIInv
<1>2. IInv /\ [Next]_vars => IInv'
  BY TypeStep, MutexStep, CallbackStep, DelayStep, LateStep, LeftStep, OrderStep, PlaceStep DEF IInv
<1> QED
  BY <1>1, <1>2, PTL DEF Spec

(* Every variable keeps its type: the queue stays within maxSize, a message *)
(* in the logs was pushed (PipeSubscriber.hpp:679-703, 815-824).            *)
THEOREM TypeCorrect == Spec => []TypeOK
<1>1. IInv => TypeOK
  BY DEF IInv, TypeInv, FlagTypes, PlaceTypes, LogTypes, PublisherLabel, ClientLabel, TypeOK
<1> QED
  BY <1>1, IInvCorrect, PTL

(* Every message goes one way only, whatever of queue, callback and drain   *)
(* the two threads race for.                                               *)
THEOREM ForwardedOnce == Spec => []GoesOneWay
<1>1. IInv => GoesOneWay
  <2>1. SUFFICES ASSUME IInv, NEW m \in 1 .. pushed
                 PROVE  Copies(seen, m) + Copies(messages, m)
                          = IF InHand(m) \/ Gone(m) THEN 0 ELSE 1
    BY DEF GoesOneWay
  <2>2. /\ Copies(seen, m) = IF m \in ToSet(seen) THEN 1 ELSE 0
        /\ Copies(messages, m) = IF m \in ToSet(messages) THEN 1 ELSE 0
    BY <2>1, CopiesOnce DEF IInv, PlaceInv
  <2>3. /\ InHand(m) \/ Gone(m) <=> m \in Lost \cup Hand
        /\ m \in ToSet(seen) \/ m \in ToSet(messages) \/ m \in Lost \cup Hand
        /\ ~(m \in ToSet(seen) /\ m \in ToSet(messages))
        /\ m \in Lost \cup Hand => m \notin ToSet(seen) /\ m \notin ToSet(messages)
    BY <2>1 DEF IInv, PlaceInv, InHand, Gone, Lost, Hand
  <2> QED
    BY <2>2, <2>3
<1> QED
  BY <1>1, IInvCorrect, PTL

(* The order of publication is kept, but for a message queued behind the    *)
(* drain, one left by an abort, and a batch over the installation.          *)
THEOREM ForwardedInOrder == Spec => []OrderKept
<1>1. IInv => OrderKept
  BY DEF IInv, OrderInv, OrderKept, Excused
<1> QED
  BY <1>1, IInvCorrect, PTL

(* Outside a batch over the installation the callback is run by one thread  *)
(* at a time, and only when it is there.                                   *)
THEOREM CallbackIsGuarded == Spec => []CallbackGuarded
<1>1. IInv => CallbackGuarded
  <2>1. ASSUME IInv, pc[PUBLISHER] = "in_callback", pc[CLIENT] = "drain_callback"
        PROVE  overlap
    BY <2>1, NoMeeting DEF IInv, Forwarding, Installing, Draining
  <2> QED
    BY <2>1 DEF IInv, CallbackInv, CallbackGuarded
<1> QED
  BY <1>1, IInvCorrect, PTL

(* OnNewMessage leaves nothing it could see in the queue, and, unless a      *)
(* batch overlaps it, no more than one message at all: the one whose        *)
(* PushMessage had tested the flag before.                                  *)
THEOREM AtMostOneStranded == Spec => []OnlyOneLeftBehind
<1>1. IInv => OnlyOneLeftBehind
  <2>1. SUFFICES ASSUME IInv PROVE OnlyOneLeftBehind
    OBVIOUS
  <2>2. Forwards => \A k \in 1 .. visible : messages[k] \in late
    BY <2>1 DEF IInv, LeftInv, Forwards, InCall, Draining
  <2>3. ASSUME ~overlap
        PROVE  Cardinality(late) <= 1
    <3>1. late = {} \/ \E m \in 1 .. pushed : late = {m}
      BY <2>1, <2>3 DEF IInv, LateInv
    <3>2. Cardinality({}) = 0 /\ \A m : Cardinality({m}) = 1
      BY FS_EmptySet, FS_Singleton
    <3>3. Cardinality(late) = 0 \/ Cardinality(late) = 1
      BY <3>1, <3>2
    <3> QED
      BY <3>3
  <2>4. ASSUME ~overlap, Forwards
        PROVE  Len(messages) <= 1
    <3>1. /\ messages \in Seq(1 .. pushed) /\ Len(messages) \in Nat
          /\ visible \in 0 .. Len(messages) /\ batching \in BOOLEAN
      BY <2>1 DEF IInv, TypeInv, LogTypes, FlagTypes
    <3>2. CASE late = {}
      <4>1. visible = 0
        <5>1. visible # 0 => 1 \in 1 .. visible
          BY <3>1
        <5> QED
          BY <2>2, <2>4, <3>2, <5>1
      <4> QED
        BY <2>1, <2>4, <3>1, <4>1 DEF IInv, DelayInv, Drained, Forwards
    <3>3. CASE late # {}
      <4>1. PICK m : late = {m}
        BY <2>1, <2>4, <3>3 DEF IInv, LateInv
      <4>2. Drained
        BY <2>1, <2>4, <3>3 DEF IInv, LateInv, Forwards
      <4>3. ASSUME Len(messages) > 1 PROVE FALSE
        <5>1. 1 \in DOMAIN messages /\ 2 \in DOMAIN messages /\ 1 \in 1 .. visible /\ 2 \in 1 .. visible
          BY <3>1, <4>2, <4>3 DEF Drained
        <5>2. messages[1] = messages[2]
          BY <2>2, <2>4, <4>1, <5>1
        <5> QED
          BY <2>1, <5>1, <5>2 DEF IInv, PlaceInv, Once
      <4> QED
        BY <3>1, <4>3
    <3> QED
      BY <3>2, <3>3
  <2> QED
    BY <2>2, <2>3, <2>4 DEF OnlyOneLeftBehind
<1> QED
  BY <1>1, IInvCorrect, PTL
=============================================================================
