---------------------------- MODULE WorkerConsume ----------------------------
(***************************************************************************)
(* WorkerThread::ConsumeUpdates: a worker reads a PipeSubscriber on its own *)
(* thread.  A task reads at most MaxSlice messages, posts a task that       *)
(* registers the next one with OnNextMessage, and returns; the subscriber's *)
(* hook posts the reading task to the worker again.                         *)
(*                                                                         *)
(* The module composes the two components.  The subscriber is module        *)
(* PipeSubscriber, step by step, with the worker as its client thread.  The *)
(* worker is the abstract executor of module TaskExecutor, which module     *)
(* WorkerThread implements; it is running and is not stopped here.          *)
(***************************************************************************)
EXTENDS PipeSubscriber, Sequences, SequencesExt

CONSTANTS
  MaxSlice,    \* maxSlizeSize
  MaxOther,    \* bound on the tasks others post to the worker
  MaxBatches   \* bound on the batches, which may be empty

ASSUME SliceAssumption ==
  MaxSlice \in Nat \ {0} /\ MaxOther \in Nat /\ MaxBatches \in Nat

(* The tasks of the worker: the initializer and the callback, which both    *)
(* run HandleUpdates, the registration, and what others post.               *)
Task == {"initializer", "callback", "registration", "other"}

VARIABLES
  accepted, current, promised, answer,  \* the worker's executor
  handled,   \* messages read by the HandleUpdates in progress
  posted,    \* has the current task done its last call?
  others,    \* number of tasks posted by others so far
  batches,   \* number of batches so far
  waiting,   \* history: messages read while the next task of others waits
  burst      \* history: was a hook ever invoked over more than MaxSlice messages?

closed == FALSE
Worker == INSTANCE TaskExecutor

executorVars == <<accepted, current, promised, answer>>
taskVars == <<handled, posted, others, batches, waiting, burst>>
subscriberVars == vars
consumeVars == <<vars, executorVars, taskVars>>

Running(t) == current = <<t>>
WorkerFree == pc[CLIENT] = "idle"

-----------------------------------------------------------------------------
(* The worker's tasks. *)

(* ConsumeUpdates, from any thread, and its DoTask. *)
ConsumeUpdates ==
  /\ promised = {}
  /\ promised' = {"initializer"}
  /\ Worker!Accept("initializer")
  /\ UNCHANGED <<subscriberVars, taskVars>>

PostOther ==
  /\ others < MaxOther
  /\ others' = others + 1
  /\ UNCHANGED promised /\ Worker!Accept("other")
  /\ UNCHANGED <<subscriberVars, handled, posted, batches, waiting, burst>>

BeginTask ==
  /\ Worker!BeginTask
  /\ handled' = 0 /\ posted' = FALSE
  /\ waiting' = IF current' = <<"other">> THEN 0 ELSE waiting
  /\ UNCHANGED <<subscriberVars, others, batches, burst>>

CountWaiting == waiting' = IF "other" \in ToSet(accepted) THEN waiting + 1 ELSE 0

Handling == (Running("initializer") \/ Running("callback")) /\ ~posted

(* Mutant: a slice takes one message too many. *)
MutHandleUpdate ==
  /\ Handling
  /\ handled <= MaxSlice
  /\ GetNextMessage
  /\ handled' = handled + 1
  /\ CountWaiting
  /\ UNCHANGED <<executorVars, posted, others, batches, burst>>

(* HandleUpdates: its loop... *)
HandleUpdate ==
  /\ Handling
  /\ handled < MaxSlice
  /\ GetNextMessage
  /\ handled' = handled + 1
  /\ CountWaiting
  /\ UNCHANGED <<executorVars, posted, others, batches, burst>>

(* Mutant: nothing is registered when the slice is used up. *)
MutPostRegistration ==
  /\ Handling
  /\ handled >= MaxSlice \/ ~HasMessage
  /\ IF handled < MaxSlice
     THEN UNCHANGED promised /\ Worker!Accept("registration")
     ELSE UNCHANGED executorVars
  /\ posted' = TRUE
  /\ UNCHANGED <<subscriberVars, handled, others, batches, waiting, burst>>

(* Mutant: the registration is posted by the slice and by its end. *)
MutPostTwice ==
  /\ Handling
  /\ handled >= MaxSlice \/ ~HasMessage
  /\ accepted' = accepted \o <<"registration", "registration">>
  /\ posted' = TRUE
  /\ UNCHANGED <<current, promised, answer, subscriberVars, handled, others, batches,
                 waiting, burst>>

(* ...and its end, which posts the registration. *)
PostRegistration ==
  /\ Handling
  /\ handled >= MaxSlice \/ ~HasMessage
  /\ UNCHANGED promised /\ Worker!Accept("registration")
  /\ posted' = TRUE
  /\ UNCHANGED <<subscriberVars, handled, others, batches, waiting, burst>>

(* The registration: OnNextMessage, with the worker as the target. *)
Register ==
  /\ Running("registration") /\ ~posted
  /\ OnNextMessage
  /\ posted' = TRUE
  /\ UNCHANGED <<executorVars, handled, others, batches, waiting, burst>>

FinishTask ==
  /\ WorkerFree
  /\ posted \/ Running("other")
  /\ Worker!FinishTask /\ current' = <<>>
  /\ UNCHANGED <<subscriberVars, taskVars>>

-----------------------------------------------------------------------------
(* The subscriber. *)

(* Mutant: a hook that the client thread pulls is not posted. *)
MutPullUnposted(t) ==
  /\ CallHook(t)
  /\ UNCHANGED promised
  /\ IF t = CLIENT THEN UNCHANGED executorVars ELSE Worker!Accept("callback")
  /\ UNCHANGED taskVars

(* The hook is posted to the worker. *)
PostCallback(t) ==
  /\ CallHook(t)
  /\ UNCHANGED promised /\ Worker!Accept("callback")
  /\ UNCHANGED taskVars

(* The publisher's push, and the history of what it announces. *)
AnnouncePush ==
  /\ PushComplete
  /\ burst' = (burst \/ (pc'[PUBLISHER] = "call_hook" /\ pushed - popped > MaxSlice))
  /\ UNCHANGED <<executorVars, handled, posted, others, batches, waiting>>

BoundedBatch ==
  /\ batches < MaxBatches
  /\ batches' = batches + 1
  /\ StartBatch
  /\ UNCHANGED <<executorVars, handled, posted, others, waiting, burst>>

DoneOnce == Done /\ state # "FINSIHED"

PublisherTurn == PublishComplete \/ PublisherReturns
ProtocolStep(t) ==
  \/ ConfigurePendingNotify(t) \/ CheckQueue(t) \/ NotifyConfigured(t) \/ ClearHook(t)
ClientTurn ==
  \/ NotifyRequested \/ SetLive \/ SetPending \/ NotifyPendingConfigured
  \/ PullComplete \/ ProtocolStep(CLIENT)

SubscriberNext ==
  /\ \/ PushMessage \/ EndBatch \/ DoneOnce \/ PublisherTurn
     \/ ProtocolStep(PUBLISHER) \/ ClientTurn
  /\ UNCHANGED <<executorVars, taskVars>>

-----------------------------------------------------------------------------
ConsumeInit ==
  /\ Init
  /\ accepted = <<>> /\ current = <<>> /\ promised = {}
  /\ answer = [t \in Task |-> "none"]
  /\ handled = 0 /\ posted = FALSE /\ others = 0 /\ batches = 0
  /\ waiting = 0 /\ burst = FALSE

TaskSteps == BeginTask \/ HandleUpdate \/ PostRegistration \/ Register \/ FinishTask

ConsumeNext ==
  \/ ConsumeUpdates \/ PostOther \/ TaskSteps
  \/ (\E t \in THREAD : PostCallback(t)) \/ AnnouncePush
  \/ BoundedBatch \/ SubscriberNext

ConsumeSpec == ConsumeInit /\ [][ConsumeNext]_consumeVars

(* The worker runs its tasks, a call of the publisher finishes, and a batch *)
(* is ended.                                                                *)
ConsumeFairness ==
  /\ WF_consumeVars(TaskSteps \/ PostCallback(CLIENT)
                      \/ (ClientTurn /\ UNCHANGED <<executorVars, taskVars>>))
  /\ WF_consumeVars(AnnouncePush \/ PostCallback(PUBLISHER)
                      \/ ((PublisherTurn \/ ProtocolStep(PUBLISHER))
                         /\ UNCHANGED <<executorVars, taskVars>>))
  /\ WF_consumeVars(EndBatch /\ UNCHANGED <<executorVars, taskVars>>)

FairConsumeSpec == ConsumeSpec /\ ConsumeFairness

-----------------------------------------------------------------------------
(* Every variable has its type. *)
ConsumeTypeOK ==
  /\ TypeOK
  /\ accepted \in Seq(Task) /\ current \in Seq(Task) /\ Len(current) <= 1
  /\ promised \subseteq {"initializer"}
  /\ answer \in [Task -> {"none", "true"}]
  /\ handled \in 0 .. MaxSlice /\ posted \in BOOLEAN
  /\ others \in 0 .. MaxOther /\ batches \in 0 .. MaxBatches /\ burst \in BOOLEAN

-----------------------------------------------------------------------------
(* Safety. *)

(* Once ConsumeUpdates is called there is one and only one way in which     *)
(* consumption goes on: a task that is queued, a task that has not yet      *)
(* passed it on, or the latest hook, not yet invoked.  With none of them    *)
(* the worker would never read again, with two it would register a hook     *)
(* over its own (WorkerThread.h:236-257).                                   *)
Chain == {"initializer", "callback", "registration"}
InQueue == Cardinality({i \in DOMAIN accepted : accepted[i] \in Chain})
InTask == IF current # <<>> /\ Head(current) \in Chain /\ ~posted THEN 1 ELSE 0
InHook == IF nextHook # nullptr /\ nextHook \notin fired THEN 1 ELSE 0
OneChain == promised # {} => InQueue + InTask + InHook = 1

(* The worker's use of the subscriber never makes the worker thread throw a *)
(* ThreadingViolation, nor wait for the publisher in WaitForWake            *)
(* (PipeSubscriber.hpp:301-345).                                            *)
WorkerNeverThrowsOrSleeps ==
  threw = {} /\ pc[CLIENT] \notin {"enter_wait", "asleep", "wake"}

(* A task that others post waits for one slice at most, however much there  *)
(* is to read (WorkerThread.h:78-81).                                       *)
OthersServed == waiting <= MaxSlice

-----------------------------------------------------------------------------
(* Liveness. *)

(* Every message is read in the end, unless a single notification ever      *)
(* stood for more messages than a slice has room for (PipeSubscriber.hpp:   *)
(* 429-434, WorkerThread.h:246).                                            *)
AllHandled == promised # {} /\ popped < pushed ~> popped = pushed \/ burst

(* Consumption is resumed after a slice (WorkerThread.h:78-81). *)
ConsumptionResumes == promised # {} /\ popped < pushed ~> popped = pushed
=============================================================================
