--------------------------- MODULE PipeSubscriber ---------------------------
(***************************************************************************)
(* One PipeSubscriber: the single-producer single-consumer queue and the   *)
(* lock-free protocol by which the publisher thread and the client thread  *)
(* decide which of them invokes the OnNextMessage hook.                    *)
(*                                                                         *)
(* A thread is a program counter.  Every access to shared memory is a step *)
(* of its own, except that a load / compare_exchange_strong loop is one    *)
(* step taken when the exchange succeeds: a failed exchange only reloads   *)
(* the expected value.  The one loop that reads more than notifyState      *)
(* (NotifyConfigured reads messages.empty() first) keeps its two steps.    *)
(*                                                                         *)
(* Messages are numbered in push order, so the FIFO queue is the interval  *)
(* popped+1 .. pushed.  A hook is the pair (callback, target); hooks are   *)
(* numbered in the order of the OnNextMessage calls that supply them, and  *)
(* a hook that has a target counts as invoked when the task is posted.     *)
(*                                                                         *)
(* boost's push publishes the write index with a release store.  When      *)
(* StoreBuffering is TRUE that store may still sit in the publisher's      *)
(* store buffer (x86-TSO) until a read-modify-write or FlushStore; visible *)
(* is what the client can see.  When FALSE the model is sequentially       *)
(* consistent.                                                             *)
(***************************************************************************)
EXTENDS Naturals, FiniteSets

CONSTANTS
  MaxMessages,     \* bound on the messages ever pushed
  MaxHooks,        \* bound on the hooks ever supplied to OnNextMessage
  MaxInitial,      \* bound on the constructor's initialData
  Capacity,        \* maxSize of the queue
  PublisherOps,    \* optional publisher operations in use
  ClientOps,       \* client operations in use
  StoreBuffering,  \* may a push be delayed in the store buffer?
  SpuriousWakeups  \* may condition_variable::wait return unnotified?

ASSUME BoundsAssumption ==
  /\ MaxMessages \in Nat /\ MaxHooks \in Nat
  /\ MaxInitial \in 0 .. MaxMessages /\ MaxInitial <= Capacity
  /\ Capacity \in Nat
ASSUME OpsAssumption ==
  /\ PublisherOps \subseteq {"batch", "done"}
  /\ ClientOps \subseteq {"get", "notify", "renew", "wait", "abort"}
  /\ StoreBuffering \in BOOLEAN /\ SpuriousWakeups \in BOOLEAN

PUBLISHER == "PUBLISHER"
CLIENT == "CLIENT"
THREAD == {PUBLISHER, CLIENT}

NOTIFY_STATE ==
  {"DISABLED", "NOTHING_TO_NOTIFY", "CONFIGURING", "PULL_REQUIRED",
   "PULLING", "RECONFIGURE_REQUIRED", "PUBLISHING", "SUB_WAKEUP_REQUIRED",
   "PREPARING_PUB_RECONFIGURE", "PUB_WILL_RECONFIGURE",
   "CLIENT_WILL_RECONFIGURE", "PUB_RECONFIGURING"}

Throw == "ThreadingViolation"  \* outcome of a resolution: the case throws
nullptr == 0                   \* no hook

VARIABLES
  notifyState,  \* atomic<NOTIFY_STATE>
  onNotify,     \* live hook: onNotify with targetToNotify
  pending,      \* pending_onNotify with pending_targetToNotify
  state,        \* IPipeConsumer::state
  aborted,      \* the client thread's plain copy of ABORTING
  batching,     \* publisher's flag
  pushed,       \* messages pushed so far
  visible,      \* of those, the ones whose write index the client can see
  popped,       \* messages popped so far
  pc,           \* program counter of each thread
  caller,       \* who called OnNextMessage: "app", "wait" or "callback"
  sawData,      \* NotifyConfigured's result of messages.empty() == false
  waitResult,   \* outcome of the last WaitForMessage
  nextHook,     \* history: number of hooks supplied so far
  fired,        \* history: hooks invoked or posted
  announced,    \* history: value of pushed when a hook was last published
  threw         \* history: the threads that threw a ThreadingViolation

queueVars == <<pushed, visible, popped>>
consumerVars == <<state, aborted, batching>>
hookVars == <<onNotify, pending, nextHook, fired>>
logVars == <<waitResult, announced, threw>>
vars == <<notifyState, queueVars, consumerVars, hookVars, logVars,
          pc, caller, sawData>>

-----------------------------------------------------------------------------
(* The state tables: the switch of each resolution loop. *)

(* Mutant: a push during a configuration is not passed on to the client. *)
MutPushForgotten(s) ==
  IF s = "NOTHING_TO_NOTIFY" THEN "PUBLISHING"
  ELSE IF s \in {"DISABLED", "CONFIGURING", "PULL_REQUIRED", "PULLING",
                 "CLIENT_WILL_RECONFIGURE", "RECONFIGURE_REQUIRED"} THEN s
  ELSE Throw

AfterPush(s) ==
  IF s = "NOTHING_TO_NOTIFY" THEN "PUBLISHING"
  ELSE IF s = "CONFIGURING" THEN "PULL_REQUIRED"
  ELSE IF s \in {"DISABLED", "PULL_REQUIRED", "CLIENT_WILL_RECONFIGURE",
                 "PULLING", "RECONFIGURE_REQUIRED"} THEN s
  ELSE Throw

(* Mutant: the publisher adopts a hook that the client is still preparing. *)
MutAdoptTooEarly(s) ==
  IF s = "PUBLISHING" THEN "DISABLED"
  ELSE IF s \in {"PREPARING_PUB_RECONFIGURE", "PUB_WILL_RECONFIGURE"}
       THEN "PUB_RECONFIGURING"
  ELSE Throw

(* Mutant: the publisher primes the notification without adopting the hook. *)
MutPrimeWithoutHook(s) ==
  IF s = "PUBLISHING" THEN "DISABLED"
  ELSE IF s = "PREPARING_PUB_RECONFIGURE" THEN "CLIENT_WILL_RECONFIGURE"
  ELSE IF s = "PUB_WILL_RECONFIGURE" THEN "NOTHING_TO_NOTIFY"
  ELSE Throw

AfterPublish(s) ==
  IF s = "PUBLISHING" THEN "DISABLED"
  ELSE IF s = "PREPARING_PUB_RECONFIGURE" THEN "CLIENT_WILL_RECONFIGURE"
  ELSE IF s = "PUB_WILL_RECONFIGURE" THEN "PUB_RECONFIGURING"
  ELSE Throw

(* Mutant: the client configures the live hook while it is being published. *)
MutRequestWhilePublishing(s) ==
  IF s \in {"DISABLED", "NOTHING_TO_NOTIFY", "CONFIGURING", "PUBLISHING"}
  THEN "CONFIGURING"
  ELSE IF s = "PUB_WILL_RECONFIGURE" THEN "PREPARING_PUB_RECONFIGURE"
  ELSE IF s \in {"PULLING", "RECONFIGURE_REQUIRED"} THEN "RECONFIGURE_REQUIRED"
  ELSE IF s = "PUB_RECONFIGURING" THEN "SUB_WAKEUP_REQUIRED"
  ELSE Throw

AfterRequest(s) ==
  IF s \in {"DISABLED", "NOTHING_TO_NOTIFY", "CONFIGURING"} THEN "CONFIGURING"
  ELSE IF s \in {"PUBLISHING", "PUB_WILL_RECONFIGURE"} THEN "PREPARING_PUB_RECONFIGURE"
  ELSE IF s \in {"PULLING", "RECONFIGURE_REQUIRED"} THEN "RECONFIGURE_REQUIRED"
  ELSE IF s = "PUB_RECONFIGURING" THEN "SUB_WAKEUP_REQUIRED"
  ELSE Throw

(* Mutant: an adopted hook is left disabled. *)
MutAdoptedButDisabled(s, hasData) ==
  IF s = "PULL_REQUIRED" \/ (s = "CONFIGURING" /\ hasData) THEN "PULLING"
  ELSE IF s = "CONFIGURING" THEN "NOTHING_TO_NOTIFY"
  ELSE IF s = "PUB_RECONFIGURING" THEN "DISABLED"
  ELSE IF s = "SUB_WAKEUP_REQUIRED" THEN "CONFIGURING"
  ELSE Throw

AfterConfigured(s, hasData) ==
  IF s = "PULL_REQUIRED" \/ (s = "CONFIGURING" /\ hasData) THEN "PULLING"
  ELSE IF s \in {"CONFIGURING", "PUB_RECONFIGURING"} THEN "NOTHING_TO_NOTIFY"
  ELSE IF s = "SUB_WAKEUP_REQUIRED" THEN "CONFIGURING"
  ELSE Throw

(* Mutant: with the publisher gone, the client leaves its hook pending. *)
MutLeavePending(s) ==
  IF s = "PREPARING_PUB_RECONFIGURE" THEN "PUB_WILL_RECONFIGURE"
  ELSE IF s = "CLIENT_WILL_RECONFIGURE" THEN "DISABLED"
  ELSE Throw

AfterPendingConfigured(s) ==
  IF s = "PREPARING_PUB_RECONFIGURE" THEN "PUB_WILL_RECONFIGURE"
  ELSE IF s = "CLIENT_WILL_RECONFIGURE" THEN "CONFIGURING"
  ELSE Throw

AfterPull(s) ==
  IF s = "PULLING" THEN "DISABLED"
  ELSE IF s = "RECONFIGURE_REQUIRED" THEN "PULL_REQUIRED"
  ELSE Throw

-----------------------------------------------------------------------------
Goto(t, label) == pc' = [pc EXCEPT ![t] = label]

(* Where a thread continues once the framework call it is in returns. *)
ReturnLabel(t) ==
  IF t = PUBLISHER THEN "returned"
  ELSE IF caller = "wait" THEN "wait_recheck"
  ELSE IF caller = "callback" THEN "clear_hook"
  ELSE "idle"

Complete == state \in {"FINSIHED", "ABORTED"}   \* FINSIHED: as the code spells it

(* A ThreadingViolation leaves notifyState as it is.  On the client thread  *)
(* it unwinds to the application, or to a callback that may catch it.       *)
ThrowViolation(t) ==
  /\ threw' = threw \cup {t}
  /\ \E label \in IF t = PUBLISHER THEN {"returned"}
                  ELSE {"idle"} \cup (IF caller = "callback" THEN {"clear_hook"} ELSE {}) :
       Goto(t, label)
  /\ caller' = IF t = CLIENT THEN "app" ELSE caller
  /\ UNCHANGED <<notifyState, waitResult, announced>>

(* notifyState moves to s and the thread to label, or the case throws. *)
Resolve(t, s, label) ==
  IF s = Throw
  THEN ThrowViolation(t)
  ELSE /\ notifyState' = s
       /\ Goto(t, label)
       /\ UNCHANGED <<caller, logVars>>

(* A compare-exchange drains the publisher's store buffer. *)
Drain(isRMW) == visible' = IF isRMW THEN pushed ELSE visible

-----------------------------------------------------------------------------
(* Publisher thread: the calls PipePublisher makes. *)

(* A push to a full queue throws PushToFullQueueException, changing nothing. *)
(* Nothing is published after Done: the caller's contract.                  *)
PushMessage ==
  /\ pc[PUBLISHER] = "idle"
  /\ state # "FINSIHED"
  /\ pushed < MaxMessages
  /\ pushed - popped < Capacity
  /\ pushed' = pushed + 1
  /\ visible' = IF StoreBuffering THEN visible ELSE pushed'
  /\ Goto(PUBLISHER, IF batching THEN "idle" ELSE "push_complete")
  /\ UNCHANGED <<notifyState, popped, consumerVars, hookVars, logVars, caller, sawData>>

StartBatch ==
  /\ "batch" \in PublisherOps
  /\ pc[PUBLISHER] = "idle" /\ ~batching
  /\ state # "FINSIHED"
  /\ batching' = TRUE
  /\ UNCHANGED <<notifyState, queueVars, state, aborted, hookVars, logVars,
                 pc, caller, sawData>>

(* batching is cleared by PublisherReturns, after PushComplete. *)
EndBatch ==
  /\ pc[PUBLISHER] = "idle" /\ batching
  /\ Goto(PUBLISHER, "push_complete")
  /\ UNCHANGED <<notifyState, queueVars, consumerVars, hookVars, logVars,
                 caller, sawData>>

(* Mutant: Done does not resolve the notification. *)
MutDoneQuietly ==
  /\ "done" \in PublisherOps
  /\ pc[PUBLISHER] = "idle" /\ ~batching
  /\ state' = IF state = "ABORTING" THEN state ELSE "FINSIHED"
  /\ visible' = pushed
  /\ UNCHANGED <<notifyState, pushed, popped, aborted, batching, hookVars,
                 logVars, pc, caller, sawData>>

(* PipePublisher::Done has already ended the batch.  ChangeState fails if   *)
(* the client is aborting; otherwise, and on a repeated Done, OnStateChange *)
(* runs PushComplete.                                                       *)
Done ==
  /\ "done" \in PublisherOps
  /\ pc[PUBLISHER] = "idle" /\ ~batching
  /\ IF state = "ABORTING"
     THEN UNCHANGED <<state, pc>>
     ELSE state' = "FINSIHED" /\ Goto(PUBLISHER, "push_complete")
  /\ visible' = pushed
  /\ UNCHANGED <<notifyState, pushed, popped, aborted, batching, hookVars,
                 logVars, caller, sawData>>

PushComplete ==
  LET s == AfterPush(notifyState) IN
  /\ pc[PUBLISHER] = "push_complete"
  /\ IF s = Throw
     THEN ThrowViolation(PUBLISHER)
     ELSE /\ notifyState' = s
          /\ Goto(PUBLISHER, IF s = "PUBLISHING" THEN "call_hook" ELSE "returned")
          /\ announced' = IF s = "PUBLISHING" THEN pushed ELSE announced
          /\ UNCHANGED <<caller, waitResult, threw>>
  /\ Drain(s \notin {Throw, notifyState})
  /\ UNCHANGED <<pushed, popped, consumerVars, hookVars, sawData>>

(* PublishComplete after PublishNextMessage has invoked the hook. *)
PublishComplete ==
  LET s == AfterPublish(notifyState) IN
  /\ pc[PUBLISHER] = "hook_done"
  /\ Resolve(PUBLISHER, s,
             IF s = "PUB_RECONFIGURING" THEN "adopt_pending" ELSE "returned")
  /\ UNCHANGED <<queueVars, consumerVars, hookVars, sawData>>

(* WakeWaiter: notify_one reaches the client only if it is in the wait set. *)
WakeWaiter ==
  /\ pc[PUBLISHER] = "wake"
  /\ pc' = [pc EXCEPT ![PUBLISHER] = "returned",
                      ![CLIENT] = IF @ = "asleep" THEN "request" ELSE @]
  /\ UNCHANGED <<notifyState, queueVars, consumerVars, hookVars, logVars,
                 caller, sawData>>

(* The call is over: EndBatch clears its flag and PipePublisher releases    *)
(* its mutex, which drains the store buffer.                                *)
PublisherReturns ==
  /\ pc[PUBLISHER] = "returned"
  /\ Goto(PUBLISHER, "idle")
  /\ batching' = FALSE
  /\ visible' = pushed
  /\ UNCHANGED <<notifyState, pushed, popped, state, aborted, hookVars, logVars,
                 caller, sawData>>

(* The delayed store of the write index reaches memory. *)
FlushStore ==
  /\ visible < pushed
  /\ visible' = visible + 1
  /\ UNCHANGED <<notifyState, pushed, popped, consumerVars, hookVars, logVars,
                 pc, caller, sawData>>

-----------------------------------------------------------------------------
(* Steps either thread takes, once the protocol has made it responsible.    *)

(* ConfigurePendingNotify: the pending hook is moved into the live one. *)
ConfigurePendingNotify(t) ==
  /\ pc[t] = "adopt_pending"
  /\ onNotify' = pending
  /\ pending' = nullptr
  /\ Goto(t, "configured")
  /\ UNCHANGED <<notifyState, queueVars, consumerVars, nextHook, fired, logVars,
                 caller, sawData>>

(* NotifyConfigured, first half: in CONFIGURING it looks at the queue... *)
CheckQueue(t) ==
  /\ pc[t] = "configured"
  /\ notifyState = "CONFIGURING"
  /\ sawData' = (popped < visible)
  /\ Goto(t, "configured_cas")
  /\ UNCHANGED <<notifyState, queueVars, consumerVars, hookVars, logVars, caller>>

(* ...second half: the exchange, which finds PULL_REQUIRED if the publisher *)
(* pushed in between.                                                       *)
NotifyConfigured(t) ==
  LET s == AfterConfigured(notifyState, sawData) IN
  /\ \/ pc[t] = "configured_cas"
     \/ pc[t] = "configured" /\ notifyState # "CONFIGURING"
  /\ Resolve(t, s, IF s = "PULLING" THEN "call_hook"
                   ELSE IF s = "CONFIGURING" THEN "wake"
                   ELSE ReturnLabel(t))
  /\ UNCHANGED <<queueVars, consumerVars, hookVars, sawData>>

(* PublishNextMessage / PullNextMessage: invoke or post the live hook... *)
CallHook(t) ==
  /\ pc[t] = "call_hook"
  /\ fired' = fired \cup {onNotify}
  /\ Goto(t, "clear_hook")
  /\ UNCHANGED <<notifyState, queueVars, consumerVars, onNotify, pending, nextHook,
                 logVars, caller, sawData>>

(* ...and forget it. *)
ClearHook(t) ==
  /\ pc[t] = "clear_hook"
  /\ onNotify' = nullptr
  /\ Goto(t, "hook_done")
  /\ caller' = IF t = CLIENT /\ caller = "callback" THEN "app" ELSE caller
  /\ UNCHANGED <<notifyState, queueVars, consumerVars, pending, nextHook, fired,
                 logVars, sawData>>

PullComplete ==
  LET s == AfterPull(notifyState) IN
  /\ pc[CLIENT] = "hook_done"
  /\ Resolve(CLIENT, s,
             IF s = "PULL_REQUIRED" THEN "adopt_pending" ELSE ReturnLabel(CLIENT))
  /\ UNCHANGED <<queueVars, consumerVars, hookVars, sawData>>

-----------------------------------------------------------------------------
(* Client thread. *)

(* The body of OnNextMessage up to NotifyRequested, called by who.          *)
(* nextHook' names the hook, which an aborted subscriber ignores.           *)
EnterOnNextMessage(who, ignored) ==
  /\ nextHook < MaxHooks
  /\ nextHook' = nextHook + 1
  /\ IF aborted
     THEN Goto(CLIENT, ignored) /\ UNCHANGED caller
     ELSE Goto(CLIENT, "request") /\ caller' = who
  /\ UNCHANGED <<notifyState, queueVars, consumerVars, onNotify, pending, sawData>>

OnNextMessage ==
  /\ "notify" \in ClientOps
  /\ pc[CLIENT] = "idle"
  /\ EnterOnNextMessage("app", "idle")
  /\ UNCHANGED <<fired, logVars>>

(* A pulled callback runs on the client thread and registers its successor. *)
RenewInCallback ==
  /\ "renew" \in ClientOps
  /\ pc[CLIENT] = "call_hook" /\ caller = "app"
  /\ fired' = fired \cup {onNotify}
  /\ EnterOnNextMessage("callback", "clear_hook")
  /\ UNCHANGED logVars

NotifyRequested ==
  LET s == AfterRequest(notifyState) IN
  /\ pc[CLIENT] = "request"
  /\ Resolve(CLIENT, s, IF s = "CONFIGURING" THEN "set_live"
                        ELSE IF s = "SUB_WAKEUP_REQUIRED" THEN "enter_wait"
                        ELSE "set_pending")
  /\ UNCHANGED <<queueVars, consumerVars, hookVars, sawData>>

(* WaitForWake: from here on notify_one finds the client. *)
WaitForWake ==
  /\ pc[CLIENT] = "enter_wait"
  /\ Goto(CLIENT, "asleep")
  /\ UNCHANGED <<notifyState, queueVars, consumerVars, hookVars, logVars,
                 caller, sawData>>

(* The wait has no predicate, so a spurious wakeup re-enters the loop. *)
SpuriousWakeup ==
  /\ SpuriousWakeups
  /\ pc[CLIENT] = "asleep"
  /\ Goto(CLIENT, "request")
  /\ UNCHANGED <<notifyState, queueVars, consumerVars, hookVars, logVars,
                 caller, sawData>>

SetLive ==
  /\ pc[CLIENT] = "set_live"
  /\ onNotify' = nextHook
  /\ Goto(CLIENT, "configured")
  /\ UNCHANGED <<notifyState, queueVars, consumerVars, pending, nextHook, fired,
                 logVars, caller, sawData>>

SetPending ==
  /\ pc[CLIENT] = "set_pending"
  /\ pending' = nextHook
  /\ Goto(CLIENT, "pending_configured")
  /\ UNCHANGED <<notifyState, queueVars, consumerVars, onNotify, nextHook, fired,
                 logVars, caller, sawData>>

NotifyPendingConfigured ==
  LET s == AfterPendingConfigured(notifyState) IN
  /\ pc[CLIENT] = "pending_configured"
  /\ Resolve(CLIENT, s,
             IF s = "CONFIGURING" THEN "adopt_pending" ELSE ReturnLabel(CLIENT))
  /\ UNCHANGED <<queueVars, consumerVars, hookVars, sawData>>

-----------------------------------------------------------------------------
HasMessage == popped < visible

(* Mutant: a pop does not look whether there is a message. *)
MutPopUnchecked(result) ==
  /\ popped' = popped + 1
  /\ waitResult' = result
  /\ Goto(CLIENT, "idle")

(* GetNextMessage: a pop ends the call it is made from with result... *)
ReturnMessage(result) ==
  /\ HasMessage
  /\ popped' = popped + 1
  /\ waitResult' = result
  /\ Goto(CLIENT, "idle")

(* ...and a miss lets it continue at label. *)
NoMessage(result, label) ==
  /\ ~HasMessage
  /\ waitResult' = result
  /\ Goto(CLIENT, label)
  /\ UNCHANGED popped

Polled ==
  UNCHANGED <<notifyState, pushed, visible, consumerVars, hookVars, announced,
              threw, caller, sawData>>

GetNextMessage ==
  /\ "get" \in ClientOps
  /\ pc[CLIENT] = "idle"
  /\ ReturnMessage(waitResult)
  /\ Polled

(* WaitForMessage, in the order of its statements. *)
WaitForMessage ==
  /\ "wait" \in ClientOps
  /\ pc[CLIENT] = "idle"
  /\ ReturnMessage("msg") \/ NoMessage("none", "wait_complete")
  /\ Polled

WaitComplete ==
  /\ pc[CLIENT] = "wait_complete"
  /\ IF Complete
     THEN /\ Goto(CLIENT, "wait_last")
          /\ UNCHANGED <<notifyState, queueVars, consumerVars, onNotify, pending,
                         nextHook, caller, sawData>>
     ELSE EnterOnNextMessage("wait", "wait_recheck")
  /\ UNCHANGED <<fired, logVars>>

WaitRecheck ==
  /\ pc[CLIENT] = "wait_recheck"
  /\ ReturnMessage("msg") \/ NoMessage(waitResult, "wait_recomplete")
  /\ Polled

WaitRecomplete ==
  /\ pc[CLIENT] = "wait_recomplete"
  /\ waitResult' = IF Complete THEN "false" ELSE waitResult
  /\ Goto(CLIENT, IF Complete THEN "idle" ELSE "wait_block")
  /\ UNCHANGED <<notifyState, queueVars, consumerVars, hookVars, announced,
                 threw, caller, sawData>>

(* The promise is set by the hook this call supplied. *)
WaitUnblocked ==
  /\ pc[CLIENT] = "wait_block"
  /\ nextHook \in fired
  /\ Goto(CLIENT, "wait_last")
  /\ UNCHANGED <<notifyState, queueVars, consumerVars, hookVars, logVars,
                 caller, sawData>>

WaitLast ==
  /\ pc[CLIENT] = "wait_last"
  /\ ReturnMessage("msg") \/ NoMessage("false", "idle")
  /\ Polled

(* Abort on the client thread, with its OnStateChange. *)
Abort ==
  /\ "abort" \in ClientOps
  /\ pc[CLIENT] = "idle"
  /\ state = "CONSUMING"
  /\ state' = "ABORTING"
  /\ aborted' = TRUE
  /\ UNCHANGED <<notifyState, queueVars, batching, hookVars, logVars,
                 pc, caller, sawData>>

-----------------------------------------------------------------------------
(* initialData is pushed by the constructor, before the threads share it. *)
Init ==
  /\ notifyState = "DISABLED"
  /\ onNotify = nullptr /\ pending = nullptr
  /\ state = "CONSUMING" /\ aborted = FALSE /\ batching = FALSE
  /\ pushed \in 0 .. MaxInitial
  /\ visible = pushed /\ popped = 0
  /\ pc = [t \in THREAD |-> "idle"]
  /\ caller = "app" /\ sawData = FALSE
  /\ waitResult = "none" /\ nextHook = 0 /\ fired = {}
  /\ announced = 0 /\ threw = {}

(* Starting an operation is up to the application; the steps below finish   *)
(* the operation a thread is in.                                            *)
PublisherStarts == PushMessage \/ StartBatch \/ Done
PublisherSteps ==
  \/ PushComplete \/ PublishComplete \/ WakeWaiter \/ PublisherReturns
ClientStarts ==
  OnNextMessage \/ GetNextMessage \/ WaitForMessage \/ Abort
ClientSteps ==
  \/ NotifyRequested \/ WaitForWake \/ SetLive \/ SetPending
  \/ NotifyPendingConfigured \/ PullComplete
  \/ WaitComplete \/ WaitRecheck \/ WaitRecomplete \/ WaitUnblocked \/ WaitLast
SharedSteps(t) ==
  \/ ConfigurePendingNotify(t) \/ CheckQueue(t) \/ NotifyConfigured(t)
  \/ CallHook(t) \/ ClearHook(t)

Next ==
  \/ PublisherStarts \/ EndBatch \/ PublisherSteps \/ FlushStore
  \/ ClientStarts \/ ClientSteps \/ RenewInCallback \/ SpuriousWakeup
  \/ \E t \in THREAD : SharedSteps(t)

Spec == Init /\ [][Next]_vars

(* A thread that is inside a call keeps running, a batch is ended (the     *)
(* contract of StartBatch), and store buffers drain.                       *)
Fairness ==
  /\ WF_vars(PublisherSteps \/ SharedSteps(PUBLISHER))
  /\ WF_vars(ClientSteps \/ SharedSteps(CLIENT))
  /\ WF_vars(EndBatch)
  /\ WF_vars(FlushStore)

FairSpec == Spec /\ Fairness

-----------------------------------------------------------------------------
(* Types. *)

Label == {"idle", "push_complete", "call_hook", "clear_hook", "hook_done",
          "adopt_pending", "configured", "configured_cas", "wake", "returned",
          "request", "enter_wait", "asleep", "set_live", "set_pending",
          "pending_configured", "wait_complete", "wait_recheck",
          "wait_recomplete", "wait_block", "wait_last"}

FlagsOK == aborted \in BOOLEAN /\ batching \in BOOLEAN /\ sawData \in BOOLEAN

(* The client's view of the queue is an interval of the pushed messages,    *)
(* which never exceeds the capacity, and hooks are among those registered.  *)
DataOK ==
  /\ notifyState \in NOTIFY_STATE
  /\ pushed \in Nat /\ visible \in 0 .. pushed /\ popped \in 0 .. visible
  /\ pushed - popped <= Capacity
  /\ state \in {"CONSUMING", "ABORTING", "FINSIHED"}
  /\ pc \in [THREAD -> Label]
  /\ caller \in {"app", "wait", "callback"}
  /\ waitResult \in {"none", "msg", "false"}
  /\ nextHook \in Nat /\ onNotify \in 0 .. nextHook /\ pending \in 0 .. nextHook
  /\ fired \subseteq 0 .. nextHook
  /\ announced \in 0 .. pushed
  /\ threw \subseteq THREAD

(* Every variable has its type.                                             *)
TypeOK == DataOK /\ FlagsOK

-----------------------------------------------------------------------------
(* Safety. *)

(* The hooks are plain std::function and pointer members: the protocol must *)
(* keep the two threads from touching the live hook, or the pending one, at *)
(* the same time (PipeSubscriber.hpp:649-676, 801-808).                     *)
UsesLive(t) ==
  \/ pc[t] \in {"call_hook", "clear_hook", "adopt_pending", "set_live"}
  \/ t = CLIENT /\ caller = "callback"
UsesPending(t) == pc[t] \in {"adopt_pending", "set_pending"}
NoHookRace ==
  /\ ~(UsesLive(PUBLISHER) /\ UsesLive(CLIENT))
  /\ ~(UsesPending(PUBLISHER) /\ UsesPending(CLIENT))

(* Every "this can't happen" case of the publisher's three resolutions is   *)
(* unreachable, whatever the client does (PipeSubscriber.hpp:127-150,       *)
(* 206-246, 438-460).                                                       *)
PublisherNeverThrows == PUBLISHER \notin threw

(* A hook that is about to be invoked exists, was never invoked before and  *)
(* was not superseded by one that was (PipeSubscriber.h:166 "triggered      *)
(* exactly once").                                                          *)
Fresh(h) == h # nullptr /\ \A f \in fired : f < h
InvokesFreshHook ==
  \A t \in THREAD : pc[t] = "call_hook" => Fresh(onNotify)

(* A registration is never lost: once the client is outside OnNextMessage,  *)
(* its latest hook was invoked or is the one the next push will invoke.     *)
ClientQuiet == {"idle", "request", "wait_complete", "wait_recheck",
                "wait_recomplete", "wait_block", "wait_last"}
WillInvoke(h) ==
  \/ notifyState = "NOTHING_TO_NOTIFY" /\ onNotify = h
  \/ pc[PUBLISHER] = "call_hook" /\ onNotify = h
  \/ notifyState = "PUB_WILL_RECONFIGURE" /\ pending = h
  \/ pc[PUBLISHER] = "adopt_pending" /\ pending = h
  \/ pc[PUBLISHER] = "configured" /\ onNotify = h
LatestHookKept ==
  pc[CLIENT] \in ClientQuiet \ {"request"} /\ nextHook # nullptr
    /\ ~aborted /\ CLIENT \notin threw
  => nextHook \in fired \/ WillInvoke(nextHook)

(* With a hook primed and the publisher between calls, every message was    *)
(* read or its arrival was announced by invoking an earlier hook: the claim *)
(* of the memory-order comment (PipeSubscriber.hpp:402-413) and of the one  *)
(* at PipeSubscriber.hpp:430-431.                                           *)
NothingUnannounced ==
  notifyState = "NOTHING_TO_NOTIFY" /\ pc[PUBLISHER] = "idle" /\ ~batching
  => popped = pushed \/ announced = pushed

-----------------------------------------------------------------------------
(* The protocol implements the abstract hooks.  A hook is registered as     *)
(* long as the next push, or the rest of a call in progress, invokes it:    *)
(* which thread has it, and where, is all a matter of notifyState and of    *)
(* how far that call is (PipeSubscriber.hpp:75-460).                        *)
InHand(h) ==
  \/ pc[CLIENT] \in {"request", "enter_wait", "asleep", "set_live", "set_pending"}
       /\ nextHook = h
  \/ pc[CLIENT] \in {"pending_configured", "adopt_pending"} /\ pending = h
  \/ pc[CLIENT] \in {"configured", "configured_cas", "call_hook"} /\ onNotify = h
  \/ pc[CLIENT] \in {"clear_hook", "hook_done"}
       /\ notifyState = "RECONFIGURE_REQUIRED" /\ pending = h
Registered == {h \in 1 .. nextHook : WillInvoke(h) \/ InHand(h)}
Quit == aborted \/ CLIENT \in threw
Hooks == INSTANCE OneShotHooks WITH
  supplied <- nextHook,
  registered <- Registered,
  invoked <- fired,
  quit <- Quit
ImplementsHooks == Hooks!HooksSpec

-----------------------------------------------------------------------------
(* Liveness. *)

(* A blocked WaitForMessage wakes once there is something to read or the    *)
(* publisher is done (PipeSubscriber.h:149-152).                            *)
WaitWakes ==
  pc[CLIENT] = "wait_block" /\ ~aborted
    /\ (popped < pushed \/ state = "FINSIHED")
  ~> pc[CLIENT] # "wait_block"

(* A client that let the publisher finish its reconfiguration gets out of   *)
(* WaitForWake (PipeSubscriber.hpp:312-323).                                *)
SleeperWakes == pc[CLIENT] = "asleep" ~> pc[CLIENT] # "asleep"
=============================================================================
