------------------------- MODULE WorkerConsumeProofs -------------------------
(* Proofs about WorkerConsume, for every number of messages, tasks and       *)
(* hooks and every length of a slice.  Its behaviours are behaviours of its  *)
(* two components, so that what PipeSubscriberProofs shows of every client   *)
(* holds of the worker.  On top of that invariant:                           *)
(*                                                                           *)
(* - ChainInv: consumption goes on in one way, and only the latest hook may  *)
(*   not have been invoked;                                                  *)
(* - CalmInv: a client that registers only when its last hook was invoked    *)
(*   never meets the publisher in the middle of a reconfiguration;           *)
(* - SliceInv: a task of others is never behind two slices.                  *)
EXTENDS WorkerConsume, PipeSubscriberProofs, FiniteSetTheorems

-----------------------------------------------------------------------------
(* The steps of ConsumeNext as one list. *)
LEMMA ConsumeCases ==
  ASSUME ConsumeNext
  PROVE  \/ ConsumeUpdates
         \/ PostOther
         \/ BeginTask
         \/ HandleUpdate
         \/ PostRegistration
         \/ Register
         \/ FinishTask
         \/ \E t \in THREAD : PostCallback(t)
         \/ AnnouncePush
         \/ BoundedBatch
         \/ SubscriberNext
BY DEF ConsumeNext, TaskSteps

(* The steps of the subscriber that register and invoke no hook. *)
LEMMA SubscriberCases ==
  ASSUME SubscriberNext
  PROVE  \/ PushMessage
         \/ EndBatch
         \/ DoneOnce
         \/ PublishComplete
         \/ PublisherReturns
         \/ NotifyRequested
         \/ SetLive
         \/ SetPending
         \/ NotifyPendingConfigured
         \/ PullComplete
         \/ \E t \in THREAD :
              \/ ConfigurePendingNotify(t)
              \/ CheckQueue(t)
              \/ NotifyConfigured(t)
              \/ ClearHook(t)
BY DEF SubscriberNext, PublisherTurn, ClientTurn, ProtocolStep, THREAD

LEMMA SubscriberQuiet ==
  ASSUME SubscriberNext
  PROVE  UNCHANGED <<nextHook, fired, executorVars, taskVars>>
<1>1. UNCHANGED <<executorVars, taskVars>>
  BY DEF SubscriberNext
<1>2. UNCHANGED <<nextHook, fired>>
  BY SubscriberCases DEF PushMessage, EndBatch, DoneOnce, Done, PublishComplete,
     PublisherReturns, NotifyRequested, SetLive, SetPending, NotifyPendingConfigured,
     PullComplete, ConfigurePendingNotify, CheckQueue, NotifyConfigured, ClearHook, hookVars
<1> QED
  BY <1>1, <1>2

-----------------------------------------------------------------------------
(* The composition: every step is one of the subscriber, or leaves it alone. *)
LEMMA StepOfSubscriber ==
  ASSUME [ConsumeNext]_consumeVars
  PROVE  [Next]_vars
<1>1. CASE SubscriberNext
  BY <1>1, SubscriberCases DEF Next, PublisherStarts, PublisherSteps, ClientStarts,
     ClientSteps, SharedSteps, DoneOnce
<1>2. CASE BeginTask \/ ConsumeUpdates \/ PostOther \/ PostRegistration \/ FinishTask
  BY <1>2 DEF BeginTask, ConsumeUpdates, PostOther, PostRegistration, FinishTask, subscriberVars
<1>3. CASE HandleUpdate \/ Register
  BY <1>3 DEF HandleUpdate, Register, Next, ClientStarts
<1>4. CASE AnnouncePush \/ BoundedBatch
  BY <1>4 DEF AnnouncePush, BoundedBatch, Next, PublisherStarts, PublisherSteps
<1>5. CASE \E t \in THREAD : PostCallback(t)
  BY <1>5 DEF PostCallback, Next, SharedSteps
<1>6. CASE UNCHANGED consumeVars
  BY <1>6 DEF consumeVars
<1> QED
  BY ConsumeCases, <1>1, <1>2, <1>3, <1>4, <1>5, <1>6

(* A worker that consumes a subscriber is one of its clients: whatever is    *)
(* proved of PipeSubscriber holds here (WorkerThread.h:204-256).             *)
THEOREM ConsumingIsSubscribing == ConsumeSpec => Spec
<1>1. ConsumeInit => Init
  BY DEF ConsumeInit
<1>2. [ConsumeNext]_consumeVars => [Next]_vars
  BY StepOfSubscriber
<1> QED
  BY <1>1, <1>2, PTL DEF ConsumeSpec, Spec

-----------------------------------------------------------------------------
(* The executor's steps, seen from the tasks. *)
LEMMA AcceptFacts ==
  ASSUME NEW t, Worker!Accept(t)
  PROVE  accepted' = Append(accepted, t) /\ UNCHANGED <<current, answer>>
BY DEF Worker!Accept

LEMMA BeginFacts ==
  ASSUME Worker!BeginTask
  PROVE  /\ current = <<>> /\ accepted # <<>>
         /\ current' = <<Head(accepted)>> /\ accepted' = Tail(accepted)
         /\ UNCHANGED <<promised, answer>>
BY DEF Worker!BeginTask, Worker!Begin

LEMMA FinishFacts ==
  ASSUME Worker!FinishTask, current' = <<>>
  PROVE  /\ current # <<>> /\ UNCHANGED <<accepted, promised>>
         /\ answer' = [t \in Task |-> IF t = Head(current) /\ t \in promised
                                      THEN "true" ELSE answer[t]]
BY DEF Worker!FinishTask, Worker!Begin

LEMMA StepOfExecutor ==
  ASSUME [ConsumeNext]_consumeVars
  PROVE  [Worker!ExecutorNext]_(Worker!executorVars)
<1> USE DEF Worker!ExecutorNext, Worker!executorVars, executorVars
<1>1. CASE ConsumeUpdates
  BY <1>1 DEF ConsumeUpdates, Task
<1>2. CASE PostOther
  BY <1>2 DEF PostOther, Task
<1>3. CASE BeginTask
  BY <1>3 DEF BeginTask
<1>4. CASE PostRegistration
  BY <1>4 DEF PostRegistration, Task
<1>5. CASE FinishTask
  BY <1>5 DEF FinishTask
<1>6. CASE \E t \in THREAD : PostCallback(t)
  BY <1>6 DEF PostCallback, Task
<1>7. CASE HandleUpdate \/ Register \/ AnnouncePush \/ BoundedBatch \/ SubscriberNext
  <2>1. UNCHANGED executorVars
    BY <1>7 DEF HandleUpdate, Register, AnnouncePush, BoundedBatch, SubscriberNext
  <2> QED
    BY <2>1 DEF closed
<1>8. CASE UNCHANGED consumeVars
  BY <1>8 DEF consumeVars, closed
<1> QED
  BY ConsumeCases, <1>1, <1>2, <1>3, <1>4, <1>5, <1>6, <1>7, <1>8

(* The worker's tasks use its executor as WorkerThread implements it: they   *)
(* only post, and leave the rest to it (WorkerThread.h:204-256).             *)
THEOREM ConsumingIsExecuting == ConsumeSpec => Worker!ExecutorSpec
<1>1. ConsumeInit => Worker!ExecutorInit
  BY DEF ConsumeInit, Worker!ExecutorInit, closed
<1>2. [ConsumeNext]_consumeVars => [Worker!ExecutorNext]_(Worker!executorVars)
  BY StepOfExecutor
<1> QED
  BY <1>1, <1>2, PTL DEF ConsumeSpec, Worker!ExecutorSpec

-----------------------------------------------------------------------------
(* Types of what the composition adds. *)
TaskTypes ==
  /\ accepted \in Seq(Task) /\ current \in Seq(Task) /\ Len(current) <= 1
  /\ promised \subseteq {"initializer"} /\ answer \in [Task -> {"none", "true"}]
  /\ handled \in 0 .. MaxSlice /\ waiting \in Nat
CountTypes == others \in 0 .. MaxOther /\ batches \in 0 .. MaxBatches
FlagTypes == posted \in BOOLEAN /\ burst \in BOOLEAN

LEMMA TaskTypesStep ==
  ASSUME TaskTypes, [ConsumeNext]_consumeVars
  PROVE  TaskTypes'
<1>0. 0 \in 0 .. MaxSlice /\ MaxSlice \in Nat
  BY SliceAssumption
<1>1. ASSUME NEW t \in Task, Worker!Accept(t), promised' \subseteq {"initializer"},
             UNCHANGED <<handled, waiting>>
      PROVE  TaskTypes'
  <2>1. accepted' = Append(accepted, t) /\ UNCHANGED <<current, answer>>
    BY <1>1, AcceptFacts
  <2> QED
    BY <1>1, <2>1 DEF TaskTypes
<1>2. CASE ConsumeUpdates
  BY <1>1, <1>2 DEF ConsumeUpdates, taskVars, Task
<1>3. CASE PostOther
  BY <1>1, <1>3 DEF PostOther, Task, TaskTypes
<1>4. CASE BeginTask
  <2>1. /\ accepted # <<>> /\ current' = <<Head(accepted)>> /\ accepted' = Tail(accepted)
        /\ UNCHANGED <<promised, answer>>
        /\ handled' = 0 /\ waiting' \in {0, waiting}
    BY <1>4, BeginFacts DEF BeginTask
  <2>2. Head(accepted) \in Task /\ Tail(accepted) \in Seq(Task)
    BY <2>1 DEF TaskTypes
  <2> QED
    BY <1>0, <2>1, <2>2 DEF TaskTypes
<1>5. CASE HandleUpdate
  <2>1. /\ handled < MaxSlice /\ handled' = handled + 1
        /\ waiting' \in {waiting + 1, 0} /\ UNCHANGED executorVars
    BY <1>5 DEF HandleUpdate, CountWaiting
  <2> QED
    BY <1>0, <2>1 DEF TaskTypes, executorVars
<1>6. CASE PostRegistration
  BY <1>1, <1>6 DEF PostRegistration, Task, TaskTypes
<1>7. CASE Register
  BY <1>7 DEF Register, TaskTypes, executorVars
<1>8. CASE FinishTask
  <2>1. /\ current' = <<>> /\ UNCHANGED <<accepted, promised, handled, waiting>>
        /\ answer' = [t \in Task |-> IF t = Head(current) /\ t \in promised
                                      THEN "true" ELSE answer[t]]
    BY <1>8, FinishFacts DEF FinishTask, taskVars
  <2> QED
    BY <2>1 DEF TaskTypes
<1>9. ASSUME NEW t \in THREAD, PostCallback(t) PROVE TaskTypes'
  BY <1>1, <1>9 DEF PostCallback, Task, taskVars, TaskTypes
<1>10. CASE AnnouncePush \/ BoundedBatch \/ SubscriberNext
  <2>1. UNCHANGED <<executorVars, handled, waiting>>
    BY <1>10 DEF AnnouncePush, BoundedBatch, SubscriberNext, taskVars
  <2> QED
    BY <2>1 DEF TaskTypes, executorVars
<1>11. CASE UNCHANGED consumeVars
  BY <1>11 DEF consumeVars, executorVars, taskVars, TaskTypes
<1> QED
  BY ConsumeCases, <1>2, <1>3, <1>4, <1>5, <1>6, <1>7, <1>8, <1>9, <1>10, <1>11

LEMMA CountTypesStep ==
  ASSUME CountTypes, [ConsumeNext]_consumeVars
  PROVE  CountTypes'
<1> USE SliceAssumption DEF CountTypes, taskVars
<1>1. CASE ConsumeUpdates \/ BeginTask \/ HandleUpdate \/ PostRegistration \/ Register \/ FinishTask
  BY <1>1 DEF ConsumeUpdates, BeginTask, HandleUpdate, PostRegistration, Register, FinishTask
<1>2. CASE PostOther
  BY <1>2 DEF PostOther
<1>3. CASE BoundedBatch
  BY <1>3 DEF BoundedBatch
<1>4. CASE AnnouncePush \/ SubscriberNext \/ \E t \in THREAD : PostCallback(t)
  BY <1>4 DEF AnnouncePush, SubscriberNext, PostCallback
<1>5. CASE UNCHANGED consumeVars
  BY <1>5 DEF consumeVars
<1> QED
  BY ConsumeCases, <1>1, <1>2, <1>3, <1>4, <1>5

LEMMA FlagTypesStep ==
  ASSUME FlagTypes, [ConsumeNext]_consumeVars
  PROVE  FlagTypes'
<1> USE DEF FlagTypes, taskVars
<1>1. CASE ConsumeUpdates \/ PostOther \/ BeginTask \/ HandleUpdate \/ FinishTask
  BY <1>1 DEF ConsumeUpdates, PostOther, BeginTask, HandleUpdate, FinishTask
<1>2. CASE PostRegistration \/ Register \/ BoundedBatch
  BY <1>2 DEF PostRegistration, Register, BoundedBatch
<1>3. CASE AnnouncePush
  BY <1>3 DEF AnnouncePush
<1>4. CASE SubscriberNext \/ \E t \in THREAD : PostCallback(t)
  BY <1>4 DEF SubscriberNext, PostCallback
<1>5. CASE UNCHANGED consumeVars
  BY <1>5 DEF consumeVars
<1> QED
  BY ConsumeCases, <1>1, <1>2, <1>3, <1>4, <1>5

-----------------------------------------------------------------------------
(* Consumption goes on in one way. *)
NoneIn(s) == \A i \in DOMAIN s : s[i] \notin Chain
OneIn(s) == \E i \in DOMAIN s : \A k \in DOMAIN s : s[k] \in Chain <=> k = i
TaskHasIt == current # <<>> /\ Head(current) \in Chain /\ ~posted
HookHasIt == nextHook # nullptr /\ nextHook \notin fired

ChainInv ==
  /\ \A h \in 1 .. nextHook - 1 : h \in fired
  /\ \/ promised = {} /\ NoneIn(accepted) /\ ~TaskHasIt /\ ~HookHasIt
     \/ promised # {} /\ OneIn(accepted) /\ ~TaskHasIt /\ ~HookHasIt
     \/ promised # {} /\ NoneIn(accepted) /\ TaskHasIt /\ ~HookHasIt
     \/ promised # {} /\ NoneIn(accepted) /\ ~TaskHasIt /\ HookHasIt

LEMMA AppendChain ==
  ASSUME NEW s \in Seq(Task), NEW t \in Task, NoneIn(s)
  PROVE  IF t \in Chain THEN OneIn(Append(s, t)) ELSE NoneIn(Append(s, t))
<1>1. /\ DOMAIN Append(s, t) = 1 .. Len(s) + 1 /\ DOMAIN s = 1 .. Len(s) /\ Len(s) \in Nat
      /\ \A i \in 1 .. Len(s) : Append(s, t)[i] = s[i]
      /\ Append(s, t)[Len(s) + 1] = t
  OBVIOUS
<1>2. \A i \in 1 .. Len(s) + 1 : i \in 1 .. Len(s) \/ i = Len(s) + 1
  BY <1>1
<1>3. CASE t \in Chain
  <2>1. \A k \in DOMAIN Append(s, t) : Append(s, t)[k] \in Chain <=> k = Len(s) + 1
    BY <1>1, <1>2, <1>3 DEF NoneIn
  <2>2. Len(s) + 1 \in DOMAIN Append(s, t)
    BY <1>1
  <2> QED
    BY <1>3, <2>1, <2>2 DEF OneIn
<1>4. CASE t \notin Chain
  BY <1>1, <1>2, <1>4 DEF NoneIn
<1> QED
  BY <1>3, <1>4

(* A task of others may come while another one is queued. *)
LEMMA AppendOther ==
  ASSUME NEW s \in Seq(Task), OneIn(s)
  PROVE  OneIn(Append(s, "other"))
<1>1. /\ DOMAIN Append(s, "other") = 1 .. Len(s) + 1 /\ DOMAIN s = 1 .. Len(s) /\ Len(s) \in Nat
      /\ \A i \in 1 .. Len(s) : Append(s, "other")[i] = s[i]
      /\ Append(s, "other")[Len(s) + 1] = "other"
  BY DEF Task
<1>2. \A i \in 1 .. Len(s) + 1 : i \in 1 .. Len(s) \/ i = Len(s) + 1
  BY <1>1
<1>3. PICK i \in DOMAIN s : \A k \in DOMAIN s : s[k] \in Chain <=> k = i
  BY DEF OneIn
<1>4. "other" \notin Chain
  BY DEF Chain
<1>5. i # Len(s) + 1 /\ i \in DOMAIN Append(s, "other")
  BY <1>1
<1>6. \A k \in DOMAIN Append(s, "other") : Append(s, "other")[k] \in Chain <=> k = i
  BY <1>1, <1>2, <1>3, <1>4, <1>5
<1> QED
  BY <1>5, <1>6 DEF OneIn

(* The chain's task leaves the queue, or stays in it. *)
LEMMA TailChain ==
  ASSUME NEW s \in Seq(Task), s # <<>>
  PROVE  /\ NoneIn(s) => NoneIn(Tail(s)) /\ Head(s) \notin Chain
         /\ OneIn(s) => IF Head(s) \in Chain THEN NoneIn(Tail(s)) ELSE OneIn(Tail(s))
<1>1. /\ Head(s) = s[1] /\ DOMAIN s = 1 .. Len(s) /\ Len(s) \in Nat /\ 1 \in DOMAIN s
      /\ DOMAIN Tail(s) = 1 .. Len(s) - 1
      /\ \A i \in 1 .. Len(s) - 1 : Tail(s)[i] = s[i + 1]
  OBVIOUS
<1>2. \A i \in 1 .. Len(s) - 1 : i + 1 \in 1 .. Len(s) /\ i + 1 # 1
  BY <1>1
<1>3. ASSUME NoneIn(s) PROVE NoneIn(Tail(s)) /\ Head(s) \notin Chain
  BY <1>1, <1>2, <1>3 DEF NoneIn
<1>4. ASSUME OneIn(s)
      PROVE  IF Head(s) \in Chain THEN NoneIn(Tail(s)) ELSE OneIn(Tail(s))
  <2>1. PICK i \in DOMAIN s : \A k \in DOMAIN s : s[k] \in Chain <=> k = i
    BY <1>4 DEF OneIn
  <2>2. CASE i = 1
    <3>1. Head(s) \in Chain
      BY <1>1, <2>1, <2>2
    <3>2. NoneIn(Tail(s))
      BY <1>1, <1>2, <2>1, <2>2 DEF NoneIn
    <3> QED
      BY <3>1, <3>2
  <2>3. CASE i # 1
    <3>1. Head(s) \notin Chain
      BY <1>1, <2>1, <2>3
    <3>2. i - 1 \in DOMAIN Tail(s)
      BY <1>1, <2>1, <2>3
    <3>3. ASSUME NEW k \in DOMAIN Tail(s) PROVE Tail(s)[k] \in Chain <=> k = i - 1
      <4>1. k + 1 \in DOMAIN s /\ Tail(s)[k] = s[k + 1] /\ k \in Int /\ i \in Int
        BY <1>1, <1>2
      <4>2. s[k + 1] \in Chain <=> k + 1 = i
        BY <2>1, <4>1
      <4>3. k + 1 = i <=> k = i - 1
        BY <4>1
      <4> QED
        BY <4>1, <4>2, <4>3
    <3> QED
      BY <3>1, <3>2, <3>3 DEF OneIn
  <2> QED
    BY <2>2, <2>3
<1> QED
  BY <1>3, <1>4

(* Steps that neither queue, run, register nor invoke. *)
LEMMA ChainUnchanged ==
  ASSUME ChainInv, UNCHANGED <<accepted, current, promised, posted, nextHook, fired>>
  PROVE  ChainInv'
BY DEF ChainInv, NoneIn, OneIn, TaskHasIt, HookHasIt

LEMMA ChainStep ==
  ASSUME TaskTypes, IInv, ChainInv, [ConsumeNext]_consumeVars
  PROVE  ChainInv'
<1>0. /\ accepted \in Seq(Task) /\ nextHook \in Nat /\ onNotify \in 0 .. nextHook
      /\ fired \subseteq 0 .. nextHook
  BY DEF TaskTypes, IInv, TypeOK, DataOK
<1>1. CASE ConsumeUpdates
  <2>1. /\ accepted' = Append(accepted, "initializer") /\ current' = current
        /\ promised = {} /\ promised' # {} /\ UNCHANGED <<posted, nextHook, fired>>
    BY <1>1, AcceptFacts DEF ConsumeUpdates, subscriberVars, vars, hookVars, taskVars
  <2>2. NoneIn(accepted) /\ ~TaskHasIt /\ ~HookHasIt
    BY <2>1 DEF ChainInv
  <2>3. OneIn(accepted')
    BY <1>0, <2>1, <2>2, AppendChain DEF Task, Chain
  <2> QED
    BY <2>1, <2>2, <2>3 DEF ChainInv, TaskHasIt, HookHasIt
<1>2. CASE PostOther
  <2>1. /\ accepted' = Append(accepted, "other")
        /\ UNCHANGED <<current, promised, posted, nextHook, fired>>
    BY <1>2, AcceptFacts DEF PostOther, subscriberVars, vars, hookVars
  <2>2. NoneIn(accepted) => NoneIn(accepted')
    BY <1>0, <2>1, AppendChain DEF Task, Chain
  <2>3. OneIn(accepted) => OneIn(accepted')
    BY <1>0, <2>1, AppendOther
  <2> QED
    BY <2>1, <2>2, <2>3 DEF ChainInv, TaskHasIt, HookHasIt
<1>3. CASE BeginTask
  <2>1. /\ current = <<>> /\ accepted # <<>>
        /\ current' = <<Head(accepted)>> /\ accepted' = Tail(accepted)
        /\ posted' = FALSE /\ UNCHANGED <<promised, nextHook, fired>>
    BY <1>3, BeginFacts DEF BeginTask, subscriberVars, vars, hookVars
  <2>2. ~TaskHasIt /\ (TaskHasIt' <=> Head(accepted) \in Chain)
    BY <2>1 DEF TaskHasIt
  <2>3. /\ NoneIn(accepted) => NoneIn(accepted') /\ Head(accepted) \notin Chain
        /\ OneIn(accepted) => IF Head(accepted) \in Chain THEN NoneIn(accepted')
                                                          ELSE OneIn(accepted')
    BY <1>0, <2>1, TailChain
  <2> QED
    BY <2>1, <2>2, <2>3 DEF ChainInv, HookHasIt
<1>4. CASE HandleUpdate
  BY <1>4, ChainUnchanged DEF HandleUpdate, GetNextMessage, Polled, hookVars, executorVars
<1>5. CASE PostRegistration
  <2>1. /\ accepted' = Append(accepted, "registration") /\ current' = current
        /\ posted' = TRUE /\ UNCHANGED <<promised, nextHook, fired>>
    BY <1>5, AcceptFacts DEF PostRegistration, subscriberVars, vars, hookVars
  <2>2. TaskHasIt
    BY <1>5 DEF PostRegistration, Handling, Running, TaskHasIt, Chain
  <2>3. promised # {} /\ NoneIn(accepted) /\ ~HookHasIt
    BY <2>2 DEF ChainInv
  <2>4. OneIn(accepted')
    BY <1>0, <2>1, <2>3, AppendChain DEF Task, Chain
  <2> QED
    BY <2>1, <2>3, <2>4 DEF ChainInv, TaskHasIt, HookHasIt
<1>6. CASE Register
  <2>1. /\ nextHook' = nextHook + 1 /\ fired' = fired /\ posted' = TRUE
        /\ UNCHANGED <<accepted, current, promised>>
    BY <1>6 DEF Register, OnNextMessage, EnterOnNextMessage, executorVars
  <2>2. TaskHasIt
    BY <1>6 DEF Register, Running, TaskHasIt, Chain
  <2>3. promised # {} /\ NoneIn(accepted) /\ ~HookHasIt
    BY <2>2 DEF ChainInv
  <2>4. HookHasIt'
    BY <1>0, <2>1 DEF HookHasIt, nullptr
  <2>5. \A h \in 1 .. nextHook' - 1 : h \in fired'
    <3>1. \A h \in 1 .. nextHook : h \in 1 .. nextHook - 1 \/ (h = nextHook /\ h # nullptr)
      BY <1>0 DEF nullptr
    <3> QED
      BY <1>0, <2>1, <2>3, <3>1 DEF ChainInv, HookHasIt
  <2> QED
    BY <2>1, <2>3, <2>4, <2>5 DEF ChainInv, TaskHasIt, NoneIn
<1>7. CASE FinishTask
  <2>1. current' = <<>> /\ UNCHANGED <<accepted, promised, posted, nextHook, fired>>
    BY <1>7, FinishFacts DEF FinishTask, subscriberVars, vars, hookVars, taskVars
  <2>2. posted \/ Head(current) = "other"
    BY <1>7 DEF FinishTask, Running
  <2>3. ~TaskHasIt /\ ~TaskHasIt'
    BY <2>1, <2>2 DEF TaskHasIt, Chain
  <2> QED
    BY <2>1, <2>3 DEF ChainInv, HookHasIt, NoneIn, OneIn
<1>8. ASSUME NEW t \in THREAD, PostCallback(t) PROVE ChainInv'
  <2>1. /\ accepted' = Append(accepted, "callback") /\ fired' = fired \cup {onNotify}
        /\ UNCHANGED <<current, promised, posted, nextHook>>
    BY <1>8, AcceptFacts DEF PostCallback, CallHook, taskVars
  <2>2. Fresh(onNotify)
    BY <1>8 DEF PostCallback, CallHook, IInv, FreshInv
  <2>3. onNotify \notin fired /\ onNotify # nullptr
    BY <1>0, <2>2 DEF Fresh
  <2>4. onNotify = nextHook
    <3>1. onNotify \notin 1 .. nextHook - 1
      BY <2>3 DEF ChainInv
    <3> QED
      BY <1>0, <2>3, <3>1 DEF nullptr
  <2>5. HookHasIt /\ ~HookHasIt'
    BY <2>1, <2>3, <2>4 DEF HookHasIt
  <2>6. promised # {} /\ NoneIn(accepted) /\ ~TaskHasIt
    BY <2>5 DEF ChainInv
  <2>7. OneIn(accepted')
    BY <1>0, <2>1, <2>6, AppendChain DEF Task, Chain
  <2> QED
    BY <2>1, <2>5, <2>6, <2>7 DEF ChainInv, TaskHasIt
<1>9. CASE AnnouncePush
  BY <1>9, ChainUnchanged DEF AnnouncePush, PushComplete, hookVars, executorVars
<1>10. CASE BoundedBatch
  BY <1>10, ChainUnchanged DEF BoundedBatch, StartBatch, hookVars, executorVars
<1>11. CASE SubscriberNext
  BY <1>11, SubscriberQuiet, ChainUnchanged DEF executorVars, taskVars
<1>12. CASE UNCHANGED consumeVars
  BY <1>12, ChainUnchanged DEF consumeVars, executorVars, taskVars, vars, hookVars
<1> QED
  BY ConsumeCases, <1>1, <1>2, <1>3, <1>4, <1>5, <1>6, <1>7, <1>8, <1>9, <1>10, <1>11, <1>12

-----------------------------------------------------------------------------
(* A client that is not asleep and has not thrown, and whose hooks were all *)
(* invoked before it registers the next.                                    *)
CalmInv ==
  /\ threw = {} /\ caller = "app" /\ ~aborted
  /\ notifyState \notin {"SUB_WAKEUP_REQUIRED", "RECONFIGURE_REQUIRED"}
  /\ notifyState \in {"CONFIGURING", "PULL_REQUIRED"} =>
       pc[CLIENT] \in {"set_live", "adopt_pending", "configured", "configured_cas"}
  /\ pc[CLIENT] \notin {"enter_wait", "asleep", "wake"}

(* When the worker registers, the publisher is not adopting a hook. *)
LEMMA NothingToAdopt ==
  ASSUME IInv, ChainInv, pc[CLIENT] = "request"
  PROVE  notifyState # "PUB_RECONFIGURING"
<1> SUFFICES ASSUME notifyState = "PUB_RECONFIGURING" PROVE FALSE
  OBVIOUS
<1>0. /\ nextHook \in Nat /\ onNotify \in 0 .. nextHook /\ pending \in 0 .. nextHook
      /\ fired \subseteq 0 .. nextHook
  BY DEF IInv, TypeOK, DataOK
<1>1. pc[PUBLISHER] \in {"adopt_pending", "configured"}
  BY DEF IInv, PhaseInv, PublisherPhase, AdoptingStates
<1>2. Fresh(pending) \/ Fresh(onNotify)
  BY <1>1 DEF IInv, FreshInv, THREAD
<1>3. onNotify < nextHook /\ pending < nextHook
  BY DEF IInv, FreshInv, Newest
<1>4. ASSUME NEW h \in 0 .. nextHook, Fresh(h), h < nextHook PROVE FALSE
  <2>1. h \in 1 .. nextHook - 1
    BY <1>0, <1>4 DEF Fresh, nullptr
  <2>2. h \in fired
    BY <2>1 DEF ChainInv
  <2> QED
    BY <1>0, <1>4, <2>2 DEF Fresh
<1> QED
  BY <1>0, <1>2, <1>3, <1>4

LEMMA CalmSubscriber ==
  ASSUME IInv, IInv', CalmInv, ChainInv, SubscriberNext
  PROVE  CalmInv'
<1>p. /\ pc \in [THREAD -> Label] /\ PUBLISHER \in THREAD /\ CLIENT \in THREAD
      /\ PUBLISHER # CLIENT
  BY DEF IInv, TypeOK, DataOK, THREAD, PUBLISHER, CLIENT
<1>0. PUBLISHER \notin threw'
  BY DEF IInv, PhaseInv, PublisherPhase, PublisherNeverThrows
<1>1. CASE PushMessage
  BY <1>1, <1>p DEF Goto, PushMessage, consumerVars, logVars, CalmInv
<1>2. CASE EndBatch
  BY <1>2, <1>p DEF Goto, EndBatch, consumerVars, logVars, CalmInv
<1>3. CASE DoneOnce
  <2>1. UNCHANGED <<threw, caller, aborted, notifyState>>
        /\ (pc' = pc \/ Goto(PUBLISHER, "push_complete"))
    BY <1>3 DEF DoneOnce, Done, logVars
  <2>2. CASE pc' = pc
    BY <2>1, <2>2 DEF CalmInv
  <2>3. CASE Goto(PUBLISHER, "push_complete")
    BY <2>1, <2>3, <1>p DEF Goto, CalmInv
  <2> QED
    BY <2>1, <2>2, <2>3
<1>4. CASE PublishComplete
  BY <1>0, <1>4, <1>p DEF Goto, PublishComplete, AfterPublish, Resolve, ThrowViolation,
     Throw, consumerVars, logVars, CalmInv
<1>5. CASE PublisherReturns
  BY <1>5, <1>p DEF Goto, PublisherReturns, logVars, CalmInv
<1>6. CASE NotifyRequested
  <2>1. pc[CLIENT] = "request" /\ notifyState # "PUB_RECONFIGURING"
    BY <1>6, NothingToAdopt DEF NotifyRequested
  <2>2. notifyState \in {"DISABLED", "NOTHING_TO_NOTIFY", "PUBLISHING", "PUB_WILL_RECONFIGURE"}
    BY <2>1 DEF IInv, TypeOK, DataOK, NOTIFY_STATE, PhaseInv, ClientPhase, CalmInv
  <2> QED
    BY <1>6, <2>2, <1>p DEF Goto, NotifyRequested, AfterRequest, Resolve, Throw,
       consumerVars, logVars, CalmInv
<1>7. CASE SetLive
  BY <1>7, <1>p DEF Goto, SetLive, consumerVars, logVars, CalmInv
<1>8. CASE SetPending
  <2>1. notifyState \notin {"CONFIGURING", "PULL_REQUIRED"}
    BY <1>8 DEF SetPending, IInv, PhaseInv, ClientPhase
  <2> QED
    BY <1>8, <2>1, <1>p DEF Goto, SetPending, consumerVars, logVars, CalmInv
<1>9. CASE NotifyPendingConfigured
  <2>1. notifyState \in {"PREPARING_PUB_RECONFIGURE", "CLIENT_WILL_RECONFIGURE"}
    BY <1>9 DEF NotifyPendingConfigured, IInv, PhaseInv, ClientPhase, CalmInv
  <2> QED
    BY <1>9, <2>1, <1>p DEF Goto, NotifyPendingConfigured, AfterPendingConfigured, Resolve,
       Throw, ReturnLabel, PUBLISHER, CLIENT, consumerVars, logVars, CalmInv
<1>10. CASE PullComplete
  <2>1. notifyState = "PULLING"
    BY <1>10 DEF PullComplete, IInv, PhaseInv, ClientPhase, CalmInv
  <2> QED
    BY <1>10, <2>1, <1>p DEF Goto, PullComplete, AfterPull, Resolve, Throw, ReturnLabel,
       PUBLISHER, CLIENT, consumerVars, logVars, CalmInv
<1>11. ASSUME NEW t \in THREAD, ConfigurePendingNotify(t) PROVE CalmInv'
  BY <1>11, <1>p DEF Goto, ConfigurePendingNotify, THREAD, consumerVars,
     logVars, CalmInv
<1>12. ASSUME NEW t \in THREAD, CheckQueue(t) PROVE CalmInv'
  BY <1>12, <1>p DEF Goto, CheckQueue, THREAD, consumerVars, logVars, CalmInv
<1>13. ASSUME NEW t \in THREAD, NotifyConfigured(t) PROVE CalmInv'
  <2>1. CASE t = PUBLISHER
    <3>1. notifyState = "PUB_RECONFIGURING"
      BY <1>13, <2>1 DEF NotifyConfigured, IInv, PhaseInv, PublisherPhase, AdoptingStates, CalmInv
    <3> QED
      BY <1>13, <2>1, <3>1, <1>p DEF Goto, NotifyConfigured, AfterConfigured, Resolve,
         Throw, ReturnLabel, consumerVars, logVars, CalmInv
  <2>2. CASE t = CLIENT
    <3>1. notifyState \in {"CONFIGURING", "PULL_REQUIRED"}
      BY <1>13, <2>2 DEF NotifyConfigured, IInv, PhaseInv, ClientPhase
    <3>2. AfterConfigured(notifyState, sawData) \in {"PULLING", "NOTHING_TO_NOTIFY"}
      BY <3>1 DEF AfterConfigured
    <3> QED
      BY <1>13, <2>2, <3>2, <1>p DEF Goto, NotifyConfigured, Resolve,
         Throw, ReturnLabel, PUBLISHER, CLIENT, consumerVars, logVars, CalmInv
  <2> QED
    BY <2>1, <2>2 DEF THREAD
<1>14. ASSUME NEW t \in THREAD, ClearHook(t) PROVE CalmInv'
  <2>1. t = CLIENT => notifyState \notin {"CONFIGURING", "PULL_REQUIRED"}
    BY <1>14 DEF ClearHook, IInv, PhaseInv, ClientPhase
  <2> QED
    BY <1>14, <2>1, <1>p DEF Goto, ClearHook, THREAD, consumerVars, logVars,
       CalmInv
<1> QED
  BY SubscriberCases, <1>1, <1>2, <1>3, <1>4, <1>5, <1>6, <1>7, <1>8, <1>9, <1>10,
     <1>11, <1>12, <1>13, <1>14

LEMMA CalmStep ==
  ASSUME IInv, IInv', CalmInv, ChainInv, [ConsumeNext]_consumeVars
  PROVE  CalmInv'
<1>p. /\ pc \in [THREAD -> Label] /\ PUBLISHER \in THREAD /\ CLIENT \in THREAD
      /\ PUBLISHER # CLIENT
  BY DEF IInv, TypeOK, DataOK, THREAD, PUBLISHER, CLIENT
<1>1. CASE SubscriberNext
  BY <1>1, CalmSubscriber
<1>2. ASSUME UNCHANGED vars PROVE CalmInv'
  BY <1>2 DEF vars, logVars, consumerVars, CalmInv
<1>3. CASE ConsumeUpdates \/ PostOther \/ BeginTask \/ PostRegistration \/ FinishTask
  BY <1>2, <1>3 DEF ConsumeUpdates, PostOther, BeginTask, PostRegistration, FinishTask,
     subscriberVars
<1>4. CASE HandleUpdate
  <2>1. pc[CLIENT] = "idle" /\ Goto(CLIENT, "idle")
        /\ UNCHANGED <<threw, caller, aborted, notifyState>>
    BY <1>4 DEF HandleUpdate, GetNextMessage, ReturnMessage, Polled, consumerVars
  <2> QED
    BY <2>1, <1>p DEF Goto, CalmInv
<1>5. CASE Register
  <2>1. /\ pc[CLIENT] = "idle" /\ Goto(CLIENT, "request")
        /\ UNCHANGED <<threw, aborted, notifyState>> /\ caller' = "app"
    BY <1>5 DEF Register, OnNextMessage, EnterOnNextMessage, consumerVars, logVars, CalmInv
  <2> QED
    BY <2>1, <1>p DEF Goto, CalmInv
<1>6. CASE AnnouncePush
  <2>1. PUBLISHER \notin threw'
    BY DEF IInv, PhaseInv, PublisherPhase, PublisherNeverThrows
  <2>2. AfterPush(notifyState) # Throw
    BY <1>6, <2>1 DEF AnnouncePush, PushComplete, ThrowViolation
  <2>3. /\ notifyState' = AfterPush(notifyState)
        /\ Goto(PUBLISHER, IF notifyState' = "PUBLISHING" THEN "call_hook" ELSE "returned")
        /\ UNCHANGED <<threw, caller, aborted>>
    BY <1>6, <2>2 DEF AnnouncePush, PushComplete, consumerVars
  <2> QED
    BY <2>2, <2>3, <1>p DEF Goto, AfterPush, CalmInv
<1>7. CASE BoundedBatch
  BY <1>7 DEF BoundedBatch, StartBatch, logVars, CalmInv
<1>8. ASSUME NEW t \in THREAD, PostCallback(t) PROVE CalmInv'
  <2>1. t = CLIENT => notifyState \notin {"CONFIGURING", "PULL_REQUIRED"}
    BY <1>8 DEF PostCallback, CallHook, IInv, PhaseInv, ClientPhase
  <2> QED
    BY <1>8, <2>1, <1>p DEF Goto, PostCallback, CallHook, THREAD,
       consumerVars, logVars, CalmInv
<1>9. CASE UNCHANGED consumeVars
  BY <1>2, <1>9 DEF consumeVars
<1> QED
  BY ConsumeCases, <1>1, <1>3, <1>4, <1>5, <1>6, <1>7, <1>8, <1>9

-----------------------------------------------------------------------------
(* While a slice is read, waiting counts no more than the slice; after it,  *)
(* the waiting task is in front of the one that continues the reading.      *)
OtherFirst(s) == \E i \in DOMAIN s : s[i] = "other" /\ \A k \in DOMAIN s : k < i => s[k] \notin Chain
SliceInv ==
  /\ OthersServed
  /\ TaskHasIt => waiting <= handled
  /\ waiting > 0 => IF TaskHasIt THEN "other" \in ToSet(accepted) ELSE OtherFirst(accepted)

LEMMA AppendFirst ==
  ASSUME NEW s \in Seq(Task), NEW t \in Task
  PROVE  /\ OtherFirst(s) => OtherFirst(Append(s, t))
         /\ "other" \in ToSet(s) => "other" \in ToSet(Append(s, t))
         /\ "other" \in ToSet(s) /\ NoneIn(s) => OtherFirst(s)
<1>1. /\ DOMAIN Append(s, t) = 1 .. Len(s) + 1 /\ DOMAIN s = 1 .. Len(s) /\ Len(s) \in Nat
      /\ \A i \in 1 .. Len(s) : Append(s, t)[i] = s[i]
  OBVIOUS
<1>2. ASSUME OtherFirst(s) PROVE OtherFirst(Append(s, t))
  <2>1. PICK i \in DOMAIN s : s[i] = "other" /\ \A k \in DOMAIN s : k < i => s[k] \notin Chain
    BY <1>2 DEF OtherFirst
  <2>2. i \in DOMAIN Append(s, t) /\ Append(s, t)[i] = "other"
    BY <1>1, <2>1
  <2>3. \A k \in DOMAIN Append(s, t) : k < i => Append(s, t)[k] \notin Chain
    BY <1>1, <2>1
  <2> QED
    BY <2>2, <2>3 DEF OtherFirst
<1>3. ASSUME "other" \in ToSet(s) PROVE "other" \in ToSet(Append(s, t))
  BY <1>1, <1>3 DEF ToSet
<1>4. ASSUME "other" \in ToSet(s), NoneIn(s) PROVE OtherFirst(s)
  BY <1>4 DEF ToSet, NoneIn, OtherFirst
<1> QED
  BY <1>2, <1>3, <1>4

LEMMA SliceAppends ==
  ASSUME TaskTypes, SliceInv, NEW t \in Task, accepted' = Append(accepted, t),
         UNCHANGED <<current, posted, waiting, handled>>
  PROVE  SliceInv'
<1>1. TaskHasIt' <=> TaskHasIt
  BY DEF TaskHasIt
<1>2. /\ OtherFirst(accepted) => OtherFirst(accepted')
      /\ "other" \in ToSet(accepted) => "other" \in ToSet(accepted')
  BY AppendFirst DEF TaskTypes
<1> QED
  BY <1>1, <1>2 DEF SliceInv, OthersServed

LEMMA SliceUnchanged ==
  ASSUME SliceInv, UNCHANGED <<accepted, current, posted, waiting, handled>>
  PROVE  SliceInv'
BY DEF SliceInv, OthersServed, TaskHasIt

LEMMA SliceStep ==
  ASSUME TaskTypes, ChainInv, SliceInv, [ConsumeNext]_consumeVars
  PROVE  SliceInv'
<1>0. /\ accepted \in Seq(Task) /\ handled \in 0 .. MaxSlice /\ waiting \in Nat
      /\ MaxSlice \in Nat
  BY SliceAssumption DEF TaskTypes
<1>1. CASE ConsumeUpdates
  BY <1>1, AcceptFacts, SliceAppends DEF ConsumeUpdates, taskVars, Task
<1>2. CASE PostOther
  BY <1>2, AcceptFacts, SliceAppends DEF PostOther, Task
<1>3. CASE BeginTask
  <2>1. /\ current = <<>> /\ accepted # <<>>
        /\ current' = <<Head(accepted)>> /\ accepted' = Tail(accepted)
        /\ handled' = 0
        /\ waiting' = IF Head(accepted) = "other" THEN 0 ELSE waiting
    BY <1>3, BeginFacts DEF BeginTask
  <2>2. Head(accepted) \in Task /\ Head(accepted) = accepted[1] /\ 1 \in DOMAIN accepted
        /\ \A i \in DOMAIN accepted : i = 1 \/ 1 < i
    BY <1>0, <2>1
  <2>3. ASSUME Head(accepted) # "other" PROVE waiting = 0
    <3>1. Head(accepted) \in Chain
      BY <2>2, <2>3 DEF Task, Chain
    <3>2. ~OtherFirst(accepted)
      BY <2>2, <2>3, <3>1 DEF OtherFirst
    <3>3. ~TaskHasIt
      BY <2>1 DEF TaskHasIt
    <3> QED
      BY <1>0, <3>2, <3>3 DEF SliceInv
  <2>4. waiting' = 0
    BY <2>1, <2>3
  <2> QED
    BY <1>0, <2>1, <2>4 DEF SliceInv, OthersServed
<1>4. CASE HandleUpdate
  <2>1. /\ handled < MaxSlice /\ handled' = handled + 1
        /\ waiting' = IF "other" \in ToSet(accepted) THEN waiting + 1 ELSE 0
        /\ UNCHANGED <<accepted, current, posted>>
    BY <1>4 DEF HandleUpdate, CountWaiting, executorVars
  <2>2. TaskHasIt /\ TaskHasIt'
    BY <1>4, <2>1 DEF HandleUpdate, Handling, Running, TaskHasIt, Chain
  <2>3. waiting' \in Nat /\ waiting' <= handled' /\ handled' <= MaxSlice
    BY <1>0, <2>1, <2>2 DEF SliceInv
  <2> QED
    BY <1>0, <2>1, <2>2, <2>3 DEF SliceInv, OthersServed
<1>5. CASE PostRegistration \/ Register
  <2>1. /\ TaskHasIt /\ ~TaskHasIt' /\ UNCHANGED waiting
        /\ accepted' = Append(accepted, "registration") \/ accepted' = accepted
    BY <1>5, AcceptFacts DEF PostRegistration, Register, Handling, Running, TaskHasIt, Chain,
       executorVars
  <2>2. NoneIn(accepted)
    BY <2>1 DEF ChainInv
  <2>3. waiting > 0 => OtherFirst(accepted')
    BY <1>0, <2>1, <2>2, AppendFirst DEF SliceInv, Task
  <2> QED
    BY <2>1, <2>3 DEF SliceInv, OthersServed
<1>6. CASE FinishTask
  <2>1. current' = <<>> /\ UNCHANGED <<accepted, waiting, handled, posted>>
    BY <1>6, FinishFacts DEF FinishTask, taskVars
  <2>2. ~TaskHasIt /\ ~TaskHasIt'
    BY <1>6, <2>1 DEF FinishTask, Running, TaskHasIt, Chain
  <2> QED
    BY <2>1, <2>2 DEF SliceInv, OthersServed
<1>7. ASSUME NEW t \in THREAD, PostCallback(t) PROVE SliceInv'
  BY <1>7, AcceptFacts, SliceAppends DEF PostCallback, taskVars, Task
<1>8. CASE AnnouncePush \/ BoundedBatch \/ SubscriberNext
  BY <1>8, SliceUnchanged DEF AnnouncePush, BoundedBatch, SubscriberNext, executorVars, taskVars
<1>9. CASE UNCHANGED consumeVars
  BY <1>9, SliceUnchanged DEF consumeVars, executorVars, taskVars
<1> QED
  BY ConsumeCases, <1>1, <1>2, <1>3, <1>4, <1>5, <1>6, <1>7, <1>8, <1>9

-----------------------------------------------------------------------------
(* The invariant of the composition. *)
ConsumeInv ==
  /\ IInv /\ TaskTypes /\ CountTypes /\ FlagTypes
  /\ ChainInv /\ CalmInv /\ SliceInv

LEMMA ConsumeInvInit ==
  ASSUME ConsumeInit, IInv
  PROVE  ConsumeInv
<1> USE DEF ConsumeInit, Init
<1>1. TaskTypes
  BY SliceAssumption DEF TaskTypes
<1>2. CountTypes
  BY SliceAssumption DEF CountTypes
<1>3. FlagTypes
  BY DEF FlagTypes
<1>4. ChainInv
  BY DEF ChainInv, NoneIn, TaskHasIt, HookHasIt, nullptr
<1>5. CalmInv
  BY DEF CalmInv, THREAD, CLIENT
<1>6. SliceInv
  BY SliceAssumption DEF SliceInv, OthersServed, TaskHasIt
<1> QED
  BY <1>1, <1>2, <1>3, <1>4, <1>5, <1>6 DEF ConsumeInv

LEMMA ConsumeInvStep ==
  ASSUME ConsumeInv, IInv', [ConsumeNext]_consumeVars
  PROVE  ConsumeInv'
BY TaskTypesStep, CountTypesStep, FlagTypesStep, ChainStep, CalmStep, SliceStep DEF ConsumeInv

LEMMA ConsumeInvCorrect == ConsumeSpec => []ConsumeInv
<1>1. ConsumeInit /\ IInv => ConsumeInv
  BY ConsumeInvInit
<1>2. ConsumeInv /\ IInv' /\ [ConsumeNext]_consumeVars => ConsumeInv'
  BY ConsumeInvStep
<1> QED
  BY <1>1, <1>2, ConsumingIsSubscribing, IInvCorrect, PTL DEF ConsumeSpec

(* Every variable of the composition keeps its type. *)
THEOREM ConsumeTypeCorrect == ConsumeSpec => []ConsumeTypeOK
<1>1. ConsumeInv => ConsumeTypeOK
  <2>1. ConsumeInv => TypeOK
    BY DEF ConsumeInv, IInv
  <2> QED
    BY <2>1, Zenon DEF ConsumeInv, TaskTypes, CountTypes, FlagTypes, ConsumeTypeOK
<1> QED
  BY <1>1, ConsumeInvCorrect, PTL

(* There is exactly one way in which consumption goes on, whatever the       *)
(* publisher and the other tasks do: the chain of tasks, registrations and   *)
(* hooks neither breaks nor forks (WorkerThread.h:236-257).                  *)
THEOREM ChainKept == ConsumeSpec => []OneChain
<1>1. ASSUME ConsumeInv PROVE OneChain
  <2> SUFFICES ASSUME promised # {} PROVE InQueue + InTask + InHook = 1
    BY DEF OneChain
  <2> DEFINE S == {i \in DOMAIN accepted : accepted[i] \in Chain}
  <2>1. IsFiniteSet(S)
    <3>1. accepted \in Seq(Task)
      BY <1>1 DEF ConsumeInv, TaskTypes
    <3>2. DOMAIN accepted = 1 .. Len(accepted) /\ Len(accepted) \in Int
      BY <3>1
    <3>3. IsFiniteSet(1 .. Len(accepted))
      BY <3>2, FS_Interval
    <3> QED
      BY <3>2, <3>3, FS_Subset
  <2>2. InQueue = Cardinality(S)
    BY DEF InQueue
  <2>3. NoneIn(accepted) => InQueue = 0
    <3>1. NoneIn(accepted) => S = {}
      BY DEF NoneIn
    <3> QED
      BY <2>2, <3>1, FS_EmptySet
  <2>4. OneIn(accepted) => InQueue = 1
    <3>1. OneIn(accepted) => \E i : S = {i}
      BY DEF OneIn
    <3> QED
      BY <2>1, <2>2, <3>1, FS_Singleton
  <2>5. InTask = (IF TaskHasIt THEN 1 ELSE 0) /\ InHook = (IF HookHasIt THEN 1 ELSE 0)
    BY DEF InTask, InHook, TaskHasIt, HookHasIt
  <2> QED
    BY <1>1, <2>3, <2>4, <2>5 DEF ConsumeInv, ChainInv
<1> QED
  BY <1>1, ConsumeInvCorrect, PTL

(* ConsumeUpdates uses the subscriber in the one way that neither throws on  *)
(* the client's thread nor waits there for the publisher, which would stop   *)
(* the worker's event loop (PipeSubscriber.hpp:301-345, WorkerThread.h:      *)
(* 249-256).                                                                 *)
THEOREM WorkerStaysResponsive == ConsumeSpec => []WorkerNeverThrowsOrSleeps
<1>1. ConsumeInv => WorkerNeverThrowsOrSleeps
  BY DEF ConsumeInv, CalmInv, WorkerNeverThrowsOrSleeps
<1> QED
  BY <1>1, ConsumeInvCorrect, PTL

(* However many messages there are, a task of others waits for at most one   *)
(* slice of them (WorkerThread.h:78-81, 246).                                *)
THEOREM OthersAreServed == ConsumeSpec => []OthersServed
<1>1. ConsumeInv => OthersServed
  BY DEF ConsumeInv, SliceInv
<1> QED
  BY <1>1, ConsumeInvCorrect, PTL
=============================================================================
