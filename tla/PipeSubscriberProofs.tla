------------------------ MODULE PipeSubscriberProofs ------------------------
(* Proofs about PipeSubscriber, for every value of its constants: the       *)
(* publisher and the client never hold the same hook, the publisher never   *)
(* reaches a "can't happen" case, every invoked hook is fresh, and the      *)
(* latest registration is never lost.                                       *)
(*                                                                         *)
(* The inductive invariant is layered.  PhaseInv is the protocol proper:    *)
(* which steps each thread can be at in each notifyState.  FreshInv orders  *)
(* the hooks by registration on top of it, and KeptInv follows the latest   *)
(* one.  Each layer is inductive relative to the ones below.                *)
EXTENDS PipeSubscriber, TLAPS

-----------------------------------------------------------------------------
(* Which states of notifyState the publisher owns, by what it is doing. *)
PublishingStates == {"PUBLISHING", "PREPARING_PUB_RECONFIGURE", "PUB_WILL_RECONFIGURE"}
AdoptingStates == {"PUB_RECONFIGURING", "SUB_WAKEUP_REQUIRED"}

PublisherPhase ==
  /\ notifyState \in PublishingStates <=>
       pc[PUBLISHER] \in {"call_hook", "clear_hook", "hook_done"}
  /\ notifyState \in AdoptingStates <=>
       pc[PUBLISHER] \in {"adopt_pending", "configured"}
  /\ pc[PUBLISHER] \notin {"configured_cas", "set_live", "set_pending"}
  /\ PublisherNeverThrows

(* Which states allow each step of the client. *)
ClientPhase ==
  /\ pc[CLIENT] \in {"set_pending", "pending_configured"} =>
       notifyState \in {"PREPARING_PUB_RECONFIGURE", "CLIENT_WILL_RECONFIGURE",
                        "RECONFIGURE_REQUIRED"}
  /\ notifyState \in {"PREPARING_PUB_RECONFIGURE", "CLIENT_WILL_RECONFIGURE"} =>
       pc[CLIENT] \in {"set_pending", "pending_configured"}
  /\ pc[CLIENT] \in {"set_live", "adopt_pending", "configured", "configured_cas"} =>
       notifyState \in {"CONFIGURING", "PULL_REQUIRED"}
  /\ pc[CLIENT] \in {"enter_wait", "asleep"} =>
       notifyState \in {"SUB_WAKEUP_REQUIRED", "CONFIGURING", "PULL_REQUIRED"}
  /\ pc[CLIENT] = "call_hook" => notifyState = "PULLING"
  /\ pc[CLIENT] \in {"clear_hook", "hook_done"} =>
       notifyState \in {"PULLING", "RECONFIGURE_REQUIRED"}
  /\ notifyState = "PULLING" =>
       pc[CLIENT] \in {"call_hook", "clear_hook", "hook_done"} \/ caller = "callback"
  /\ pc[CLIENT] # "wake"

(* A nested OnNextMessage runs inside a pulled callback. *)
NestedPhase ==
  caller = "callback" =>
    /\ pc[CLIENT] \in {"request", "set_pending", "pending_configured"}
    /\ notifyState = IF pc[CLIENT] = "request" THEN "PULLING" ELSE "RECONFIGURE_REQUIRED"

PhaseInv == PublisherPhase /\ ClientPhase /\ NestedPhase

-----------------------------------------------------------------------------
(* Hook h is newer than everything registered before it. *)
Newest(h) == Fresh(h) /\ onNotify < h /\ pending < h

FreshInv ==
  /\ pc[CLIENT] \in {"request", "enter_wait", "asleep", "set_live", "set_pending"} =>
       Newest(nextHook)
  /\ notifyState = "NOTHING_TO_NOTIFY" => Fresh(onNotify)
  /\ \A t \in THREAD :
       pc[t] \in {"call_hook", "configured", "configured_cas"} => Fresh(onNotify)
  /\ \A t \in THREAD : pc[t] = "adopt_pending" => Fresh(pending)
  /\ notifyState = "PUB_WILL_RECONFIGURE" \/ pc[CLIENT] = "pending_configured" =>
       Fresh(pending) /\ onNotify < pending
  /\ notifyState = "RECONFIGURE_REQUIRED" /\ pc[CLIENT] \in {"clear_hook", "hook_done"} =>
       Fresh(pending)

-----------------------------------------------------------------------------
(* Until the client aborts or throws, its latest hook is where each of its  *)
(* steps needs it.                                                          *)
KeptInv ==
  ~aborted /\ CLIENT \notin threw =>
    /\ pc[CLIENT] \in {"configured", "configured_cas", "call_hook"} => onNotify = nextHook
    /\ pc[CLIENT] \in {"pending_configured", "adopt_pending"} => pending = nextHook
    /\ pc[CLIENT] \in {"clear_hook", "hook_done"} => nextHook \in fired
    /\ notifyState = "RECONFIGURE_REQUIRED" => caller = "callback"
    /\ notifyState = "SUB_WAKEUP_REQUIRED" =>
         pc[CLIENT] \in {"enter_wait", "asleep", "request"}
    /\ LatestHookKept

IInv == TypeOK /\ PhaseInv /\ FreshInv /\ KeptInv
-----------------------------------------------------------------------------
(* The steps of Next as one list, so that the proofs below can split on it. *)
LEMMA NextCases ==
  ASSUME Next
  PROVE  \/ PushMessage
         \/ StartBatch
         \/ EndBatch
         \/ Done
         \/ PushComplete
         \/ PublishComplete
         \/ WakeWaiter
         \/ PublisherReturns
         \/ FlushStore
         \/ OnNextMessage
         \/ RenewInCallback
         \/ NotifyRequested
         \/ WaitForWake
         \/ SpuriousWakeup
         \/ SetLive
         \/ SetPending
         \/ NotifyPendingConfigured
         \/ PullComplete
         \/ GetNextMessage
         \/ WaitForMessage
         \/ WaitComplete
         \/ WaitRecheck
         \/ WaitRecomplete
         \/ WaitUnblocked
         \/ WaitLast
         \/ Abort
         \/ \E t \in THREAD :
              \/ ConfigurePendingNotify(t)
              \/ CheckQueue(t)
              \/ NotifyConfigured(t)
              \/ CallHook(t)
              \/ ClearHook(t)
BY DEF Next, PublisherStarts, PublisherSteps, ClientStarts, ClientSteps,
       SharedSteps

-----------------------------------------------------------------------------
(* Types, in two halves: the provers treat truth values and integers apart. *)
(* A resolution that leaves the queue and the hooks alone keeps the types,  *)
(* whether it exchanges the state or throws.                                *)
LEMMA ResolveData ==
  ASSUME TypeOK, UNCHANGED <<queueVars, consumerVars, hookVars>>,
         NEW t \in THREAD, NEW s \in NOTIFY_STATE \cup {Throw},
         NEW label \in Label, Resolve(t, s, label)
  PROVE  DataOK'
<1> USE DEF TypeOK, DataOK, Goto, queueVars, consumerVars, hookVars, logVars
<1>1. CASE s = Throw
  <2>1. {"idle", "returned", "clear_hook"} \subseteq Label
    BY DEF Label
  <2>2. /\ UNCHANGED <<notifyState, waitResult, announced>>
        /\ pc' \in [THREAD -> Label]
        /\ threw' \subseteq THREAD
        /\ caller' \in {"app", "wait", "callback"}
    BY <1>1, <2>1 DEF Resolve, ThrowViolation
  <2> QED
    BY <2>2
<1>2. CASE s # Throw
  BY <1>2 DEF Resolve
<1> QED
  BY <1>1, <1>2, Zenon

(* Every step keeps the counters, hooks, states and labels in their types. *)
LEMMA DataStep ==
  ASSUME TypeOK, [Next]_vars
  PROVE  DataOK'
<1> USE BoundsAssumption DEF TypeOK, DataOK, NOTIFY_STATE, Label,
        THREAD, PUBLISHER, CLIENT, nullptr
<1>1. CASE PushMessage
  BY <1>1 DEF PushMessage, Goto, queueVars, consumerVars, hookVars, logVars
<1>2. CASE StartBatch
  BY <1>2 DEF StartBatch, queueVars, hookVars, logVars
<1>3. CASE EndBatch
  BY <1>3 DEF EndBatch, Goto, queueVars, consumerVars, hookVars, logVars
<1>4. CASE Done
  <2>1. CASE state = "ABORTING"
    BY <1>4, <2>1 DEF Done, hookVars, logVars
  <2>2. CASE state # "ABORTING"
    BY <1>4, <2>2 DEF Done, Goto, hookVars, logVars
  <2> QED
    BY <2>1, <2>2, Zenon
<1>5. CASE PushComplete
  <2>1. AfterPush(notifyState) \in NOTIFY_STATE \cup {Throw}
    BY DEF AfterPush
  <2>2. /\ notifyState' \in NOTIFY_STATE
        /\ pc' \in [THREAD -> Label]
        /\ announced' \in {announced, pushed}
        /\ threw' \subseteq THREAD
        /\ UNCHANGED <<caller, waitResult>>
    BY <1>5, <2>1, ZenonT(60) DEF PushComplete, ThrowViolation, Goto
  <2>3. visible' \in {visible, pushed}
    BY <1>5 DEF PushComplete, Drain
  <2>4. UNCHANGED <<pushed, popped, consumerVars, hookVars>>
    BY <1>5 DEF PushComplete
  <2> QED
    BY <2>2, <2>3, <2>4 DEF consumerVars, hookVars
<1>6. CASE PublishComplete
  <2>1. AfterPublish(notifyState) \in NOTIFY_STATE \cup {Throw}
    BY DEF AfterPublish
  <2> QED
    BY <1>6, <2>1, ResolveData, ZenonT(60) DEF PublishComplete
<1>7. CASE WakeWaiter
  BY <1>7 DEF WakeWaiter, queueVars, consumerVars, hookVars, logVars
<1>8. CASE PublisherReturns
  BY <1>8 DEF PublisherReturns, Goto, hookVars, logVars
<1>9. CASE FlushStore
  BY <1>9 DEF FlushStore, consumerVars, hookVars, logVars
<1>10. CASE OnNextMessage
  BY <1>10 DEF OnNextMessage, EnterOnNextMessage, Goto, queueVars, consumerVars,
         logVars
<1>11. CASE RenewInCallback
  BY <1>11 DEF RenewInCallback, EnterOnNextMessage, Goto, queueVars, consumerVars,
         logVars
<1>12. CASE NotifyRequested
  <2>1. AfterRequest(notifyState) \in NOTIFY_STATE \cup {Throw}
    BY DEF AfterRequest
  <2> QED
    BY <1>12, <2>1, ResolveData, ZenonT(60) DEF NotifyRequested
<1>13. CASE WaitForWake
  BY <1>13 DEF WaitForWake, Goto, queueVars, consumerVars, hookVars, logVars
<1>14. CASE SpuriousWakeup
  BY <1>14 DEF SpuriousWakeup, Goto, queueVars, consumerVars, hookVars, logVars
<1>15. CASE SetLive
  BY <1>15 DEF SetLive, Goto, queueVars, consumerVars, logVars
<1>16. CASE SetPending
  BY <1>16, SMTT(40) DEF SetPending, Goto, queueVars, consumerVars, logVars
<1>17. CASE NotifyPendingConfigured
  <2>1. AfterPendingConfigured(notifyState) \in NOTIFY_STATE \cup {Throw}
    BY DEF AfterPendingConfigured
  <2>2. ReturnLabel(CLIENT) \in Label
    BY DEF ReturnLabel
  <2> QED
    BY <1>17, <2>1, <2>2, ResolveData, ZenonT(60) DEF NotifyPendingConfigured
<1>18. CASE PullComplete
  <2>1. AfterPull(notifyState) \in NOTIFY_STATE \cup {Throw}
    BY DEF AfterPull
  <2>2. ReturnLabel(CLIENT) \in Label
    BY DEF ReturnLabel
  <2> QED
    BY <1>18, <2>1, <2>2, ResolveData, ZenonT(60) DEF PullComplete
<1>19. CASE GetNextMessage
  BY <1>19 DEF GetNextMessage, ReturnMessage, Polled, HasMessage, Goto,
         consumerVars, hookVars
<1>20. CASE WaitForMessage
  BY <1>20 DEF WaitForMessage, ReturnMessage, NoMessage, Polled, HasMessage, Goto,
         consumerVars, hookVars
<1>21. CASE WaitComplete
  BY <1>21 DEF WaitComplete, EnterOnNextMessage, Goto, queueVars, consumerVars,
         logVars
<1>22. CASE WaitRecheck
  BY <1>22 DEF WaitRecheck, ReturnMessage, NoMessage, Polled, HasMessage, Goto,
         consumerVars, hookVars
<1>23. CASE WaitRecomplete
  BY <1>23 DEF WaitRecomplete, Goto, queueVars, consumerVars, hookVars
<1>24. CASE WaitUnblocked
  BY <1>24 DEF WaitUnblocked, Goto, queueVars, consumerVars, hookVars, logVars
<1>25. CASE WaitLast
  BY <1>25 DEF WaitLast, ReturnMessage, NoMessage, Polled, HasMessage, Goto,
         consumerVars, hookVars
<1>26. CASE Abort
  BY <1>26 DEF Abort, queueVars, hookVars, logVars
<1>27. ASSUME NEW t \in THREAD, ConfigurePendingNotify(t) PROVE DataOK'
  BY <1>27 DEF ConfigurePendingNotify, Goto, queueVars, consumerVars, logVars
<1>28. ASSUME NEW t \in THREAD, CheckQueue(t) PROVE DataOK'
  BY <1>28, SMTT(40) DEF CheckQueue, Goto, queueVars, consumerVars, hookVars, logVars
<1>29. ASSUME NEW t \in THREAD, NotifyConfigured(t) PROVE DataOK'
  <2>1. AfterConfigured(notifyState, sawData) \in NOTIFY_STATE \cup {Throw}
    BY DEF AfterConfigured
  <2>2. ReturnLabel(t) \in Label
    BY DEF ReturnLabel
  <2> QED
    BY <1>29, <2>1, <2>2, ResolveData, ZenonT(60) DEF NotifyConfigured
<1>30. ASSUME NEW t \in THREAD, CallHook(t) PROVE DataOK'
  BY <1>30 DEF CallHook, Goto, queueVars, consumerVars, logVars
<1>31. ASSUME NEW t \in THREAD, ClearHook(t) PROVE DataOK'
  BY <1>31 DEF ClearHook, Goto, queueVars, consumerVars, logVars
<1>32. CASE UNCHANGED vars
  BY <1>32 DEF vars, queueVars, consumerVars, hookVars, logVars
<1> QED
  BY NextCases, <1>1, <1>2, <1>3, <1>4, <1>5, <1>6, <1>7, <1>8, <1>9, <1>10, <1>11,
     <1>12, <1>13, <1>14, <1>15, <1>16, <1>17, <1>18, <1>19, <1>20, <1>21,
     <1>22, <1>23, <1>24, <1>25, <1>26, <1>27, <1>28, <1>29, <1>30, <1>31,
     <1>32

(* Every step keeps the flags aborted, batching and sawData truth values. *)
LEMMA FlagsStep ==
  ASSUME TypeOK, [Next]_vars
  PROVE  FlagsOK'
<1> USE DEF TypeOK, FlagsOK
<1>1. CASE PushMessage
  BY <1>1 DEF PushMessage, Goto, queueVars, consumerVars, hookVars, logVars
<1>2. CASE StartBatch
  BY <1>2 DEF StartBatch, queueVars, hookVars, logVars
<1>3. CASE EndBatch
  BY <1>3 DEF EndBatch, Goto, queueVars, consumerVars, hookVars, logVars
<1>4. CASE Done
  BY <1>4 DEF Done, Goto, hookVars, logVars
<1>5. CASE PushComplete
  BY <1>5 DEF PushComplete, AfterPush, Throw, ThrowViolation, Goto, Drain,
         consumerVars, hookVars
<1>6. CASE PublishComplete
  BY <1>6 DEF PublishComplete, AfterPublish, Throw, Resolve, ThrowViolation,
         Goto, queueVars, consumerVars, hookVars, logVars
<1>7. CASE WakeWaiter
  BY <1>7 DEF WakeWaiter, queueVars, consumerVars, hookVars, logVars
<1>8. CASE PublisherReturns
  BY <1>8 DEF PublisherReturns, Goto, hookVars, logVars
<1>9. CASE FlushStore
  BY <1>9 DEF FlushStore, consumerVars, hookVars, logVars
<1>10. CASE OnNextMessage
  BY <1>10 DEF OnNextMessage, EnterOnNextMessage, Goto, queueVars, consumerVars,
         logVars
<1>11. CASE RenewInCallback
  BY <1>11 DEF RenewInCallback, EnterOnNextMessage, Goto, queueVars, consumerVars,
         logVars
<1>12. CASE NotifyRequested
  BY <1>12 DEF NotifyRequested, AfterRequest, Throw, Resolve, ThrowViolation,
         Goto, queueVars, consumerVars, hookVars, logVars
<1>13. CASE WaitForWake
  BY <1>13 DEF WaitForWake, Goto, queueVars, consumerVars, hookVars, logVars
<1>14. CASE SpuriousWakeup
  BY <1>14 DEF SpuriousWakeup, Goto, queueVars, consumerVars, hookVars, logVars
<1>15. CASE SetLive
  BY <1>15 DEF SetLive, Goto, queueVars, consumerVars, logVars
<1>16. CASE SetPending
  BY <1>16 DEF SetPending, Goto, queueVars, consumerVars, logVars
<1>17. CASE NotifyPendingConfigured
  BY <1>17 DEF NotifyPendingConfigured, AfterPendingConfigured, ReturnLabel,
         Throw, Resolve, ThrowViolation, Goto, queueVars, consumerVars,
         hookVars, logVars
<1>18. CASE PullComplete
  BY <1>18 DEF PullComplete, AfterPull, ReturnLabel, Throw, Resolve,
         ThrowViolation, Goto, queueVars, consumerVars, hookVars, logVars
<1>19. CASE GetNextMessage
  BY <1>19 DEF GetNextMessage, ReturnMessage, Polled, HasMessage, Goto,
         consumerVars, hookVars
<1>20. CASE WaitForMessage
  BY <1>20 DEF WaitForMessage, ReturnMessage, NoMessage, Polled, HasMessage, Goto,
         consumerVars, hookVars
<1>21. CASE WaitComplete
  BY <1>21 DEF WaitComplete, EnterOnNextMessage, Goto, queueVars, consumerVars,
         logVars
<1>22. CASE WaitRecheck
  BY <1>22 DEF WaitRecheck, ReturnMessage, NoMessage, Polled, HasMessage, Goto,
         consumerVars, hookVars
<1>23. CASE WaitRecomplete
  BY <1>23 DEF WaitRecomplete, Goto, queueVars, consumerVars, hookVars
<1>24. CASE WaitUnblocked
  BY <1>24 DEF WaitUnblocked, Goto, queueVars, consumerVars, hookVars, logVars
<1>25. CASE WaitLast
  BY <1>25 DEF WaitLast, ReturnMessage, NoMessage, Polled, HasMessage, Goto,
         consumerVars, hookVars
<1>26. CASE Abort
  BY <1>26 DEF Abort, queueVars, hookVars, logVars
<1>27. ASSUME NEW t \in THREAD, ConfigurePendingNotify(t) PROVE FlagsOK'
  BY <1>27 DEF ConfigurePendingNotify, Goto, queueVars, consumerVars, logVars
<1>28. ASSUME NEW t \in THREAD, CheckQueue(t) PROVE FlagsOK'
  BY <1>28 DEF CheckQueue, Goto, queueVars, consumerVars, hookVars, logVars
<1>29. ASSUME NEW t \in THREAD, NotifyConfigured(t) PROVE FlagsOK'
  BY <1>29 DEF NotifyConfigured, AfterConfigured, ReturnLabel, Throw, Resolve,
         ThrowViolation, Goto, queueVars, consumerVars, hookVars, logVars
<1>30. ASSUME NEW t \in THREAD, CallHook(t) PROVE FlagsOK'
  BY <1>30 DEF CallHook, Goto, queueVars, consumerVars, logVars
<1>31. ASSUME NEW t \in THREAD, ClearHook(t) PROVE FlagsOK'
  BY <1>31 DEF ClearHook, Goto, queueVars, consumerVars, logVars
<1>32. CASE UNCHANGED vars
  BY <1>32 DEF vars, queueVars, consumerVars, hookVars, logVars
<1> QED
  BY NextCases, <1>1, <1>2, <1>3, <1>4, <1>5, <1>6, <1>7, <1>8, <1>9, <1>10, <1>11,
     <1>12, <1>13, <1>14, <1>15, <1>16, <1>17, <1>18, <1>19, <1>20, <1>21,
     <1>22, <1>23, <1>24, <1>25, <1>26, <1>27, <1>28, <1>29, <1>30, <1>31,
     <1>32

(* Every reachable state is well typed; in particular the client never pops *)
(* a message it cannot see and the queue never exceeds its capacity.        *)
THEOREM TypeCorrect == Spec => []TypeOK
<1>1. Init => TypeOK
  <2>1. Init => DataOK
    BY BoundsAssumption DEF Init, DataOK, NOTIFY_STATE, Label, THREAD, nullptr
  <2>2. Init => FlagsOK
    BY DEF Init, FlagsOK
  <2> QED
    BY <2>1, <2>2 DEF TypeOK
<1>2. TypeOK /\ [Next]_vars => TypeOK'
  BY DataStep, FlagsStep DEF TypeOK
<1> QED
  BY <1>1, <1>2, PTL DEF Spec

-----------------------------------------------------------------------------
(* The protocol: every step keeps the two threads in the phases that        *)
(* notifyState allows, and no resolution of the publisher throws.           *)
LEMMA PhaseStep ==
  ASSUME TypeOK, PhaseInv, [Next]_vars
  PROVE  PhaseInv'
<1> USE DEF PhaseInv, PublisherPhase, ClientPhase, NestedPhase,
        PublishingStates, AdoptingStates, PublisherNeverThrows,
        THREAD, PUBLISHER, CLIENT
<1>0. /\ pc \in [THREAD -> Label]
      /\ notifyState \in NOTIFY_STATE
  BY DEF TypeOK, DataOK
<1>1. CASE PushMessage
  BY <1>0, <1>1 DEF PushMessage, Goto, logVars
<1>2. CASE StartBatch
  BY <1>0, <1>2 DEF StartBatch, logVars
<1>3. CASE EndBatch
  BY <1>0, <1>3 DEF EndBatch, Goto, logVars
<1>4. CASE Done
  BY <1>0, <1>4 DEF Done, Goto, logVars
<1>5. CASE PushComplete
  <2>1. AfterPush(notifyState) # Throw
    BY <1>0, <1>5 DEF PushComplete, AfterPush, Throw, NOTIFY_STATE
  <2>2. /\ notifyState' = AfterPush(notifyState)
        /\ pc' = [pc EXCEPT ![PUBLISHER] =
                      IF notifyState' = "PUBLISHING" THEN "call_hook" ELSE "returned"]
        /\ UNCHANGED <<threw, caller>>
    BY <1>5, <2>1 DEF PushComplete, Goto
  <2> QED
    BY <1>0, <1>5, <2>1, <2>2 DEF PushComplete, AfterPush, Throw
<1>6. CASE PublishComplete
  BY <1>0, <1>6 DEF PublishComplete, AfterPublish, Throw, Resolve, ThrowViolation, Goto,
         logVars
<1>7. CASE WakeWaiter
  BY <1>0, <1>7 DEF WakeWaiter, logVars
<1>8. CASE PublisherReturns
  BY <1>0, <1>8 DEF PublisherReturns, Goto, logVars
<1>9. CASE FlushStore
  BY <1>0, <1>9 DEF FlushStore, logVars
<1>10. CASE OnNextMessage
  BY <1>0, <1>10 DEF OnNextMessage, EnterOnNextMessage, Goto, logVars
<1>11. CASE RenewInCallback
  BY <1>0, <1>11 DEF RenewInCallback, EnterOnNextMessage, Goto, logVars
<1>12. CASE NotifyRequested
  BY <1>0, <1>12 DEF NotifyRequested, AfterRequest, Throw, Resolve, ThrowViolation, Goto,
         logVars
<1>13. CASE WaitForWake
  BY <1>0, <1>13 DEF WaitForWake, Goto, logVars
<1>14. CASE SpuriousWakeup
  BY <1>0, <1>14 DEF SpuriousWakeup, Goto, logVars
<1>15. CASE SetLive
  BY <1>0, <1>15 DEF SetLive, Goto, logVars
<1>16. CASE SetPending
  BY <1>0, <1>16 DEF SetPending, Goto, logVars
<1>17. CASE NotifyPendingConfigured
  BY <1>0, <1>17 DEF NotifyPendingConfigured, AfterPendingConfigured, ReturnLabel, Throw,
         Resolve, ThrowViolation, Goto, logVars
<1>18. CASE PullComplete
  BY <1>0, <1>18 DEF PullComplete, AfterPull, ReturnLabel, Throw, Resolve, ThrowViolation,
         Goto, logVars
<1>19. CASE GetNextMessage
  BY <1>0, <1>19 DEF GetNextMessage, ReturnMessage, Polled, Goto, logVars
<1>20. CASE WaitForMessage
  BY <1>0, <1>20 DEF WaitForMessage, ReturnMessage, NoMessage, Polled, Goto, logVars
<1>21. CASE WaitComplete
  BY <1>0, <1>21 DEF WaitComplete, EnterOnNextMessage, Goto, logVars
<1>22. CASE WaitRecheck
  BY <1>0, <1>22 DEF WaitRecheck, ReturnMessage, NoMessage, Polled, Goto, logVars
<1>23. CASE WaitRecomplete
  BY <1>0, <1>23 DEF WaitRecomplete, Goto, logVars
<1>24. CASE WaitUnblocked
  BY <1>0, <1>24 DEF WaitUnblocked, Goto, logVars
<1>25. CASE WaitLast
  BY <1>0, <1>25 DEF WaitLast, ReturnMessage, NoMessage, Polled, Goto, logVars
<1>26. CASE Abort
  BY <1>0, <1>26 DEF Abort, logVars
<1>27. ASSUME NEW t \in THREAD, ConfigurePendingNotify(t) PROVE PhaseInv'
  BY <1>0, <1>27 DEF ConfigurePendingNotify, Goto, logVars
<1>28. ASSUME NEW t \in THREAD, CheckQueue(t) PROVE PhaseInv'
  BY <1>0, <1>28 DEF CheckQueue, Goto, logVars
<1>29. ASSUME NEW t \in THREAD, NotifyConfigured(t) PROVE PhaseInv'
  BY <1>0, <1>29 DEF NotifyConfigured, AfterConfigured, ReturnLabel, Throw, Resolve,
         ThrowViolation, Goto, logVars
<1>30. ASSUME NEW t \in THREAD, CallHook(t) PROVE PhaseInv'
  BY <1>0, <1>30 DEF CallHook, Goto, logVars
<1>31. ASSUME NEW t \in THREAD, ClearHook(t) PROVE PhaseInv'
  BY <1>0, <1>31 DEF ClearHook, Goto, logVars
<1>32. CASE UNCHANGED vars
  BY <1>0, <1>32 DEF vars, logVars
<1> QED
  BY NextCases, <1>1, <1>2, <1>3, <1>4, <1>5, <1>6, <1>7, <1>8, <1>9, <1>10, <1>11,
     <1>12, <1>13, <1>14, <1>15, <1>16, <1>17, <1>18, <1>19, <1>20, <1>21,
     <1>22, <1>23, <1>24, <1>25, <1>26, <1>27, <1>28, <1>29, <1>30, <1>31,
     <1>32

(* Every step keeps the order of the hooks: what is invoked or will be is   *)
(* newer than all that was.                                                 *)
LEMMA FreshStep ==
  ASSUME TypeOK, PhaseInv, FreshInv, [Next]_vars
  PROVE  FreshInv'
<1> USE DEF FreshInv, Newest, Fresh, nullptr, PhaseInv, PublisherPhase,
        ClientPhase, NestedPhase, PublishingStates, AdoptingStates,
        THREAD, PUBLISHER, CLIENT
<1>0. /\ pc \in [THREAD -> Label]
      /\ notifyState \in NOTIFY_STATE
      /\ nextHook \in Nat /\ onNotify \in 0 .. nextHook /\ pending \in 0 .. nextHook
      /\ fired \subseteq 0 .. nextHook
  BY DEF TypeOK, DataOK
<1>1. CASE PushMessage
  BY <1>0, <1>1 DEF PushMessage, Goto, hookVars
<1>2. CASE StartBatch
  BY <1>0, <1>2 DEF StartBatch, hookVars
<1>3. CASE EndBatch
  BY <1>0, <1>3 DEF EndBatch, Goto, hookVars
<1>4. CASE Done
  BY <1>0, <1>4 DEF Done, Goto, hookVars
<1>5. CASE PushComplete
  BY <1>0, <1>5 DEF PushComplete, AfterPush, Throw, ThrowViolation, Goto, hookVars
<1>6. CASE PublishComplete
  BY <1>0, <1>6 DEF PublishComplete, AfterPublish, Throw, Resolve, ThrowViolation, Goto,
         hookVars
<1>7. CASE WakeWaiter
  BY <1>0, <1>7 DEF WakeWaiter, hookVars
<1>8. CASE PublisherReturns
  BY <1>0, <1>8 DEF PublisherReturns, Goto, hookVars
<1>9. CASE FlushStore
  BY <1>0, <1>9 DEF FlushStore, hookVars
<1>10. CASE OnNextMessage
  BY <1>0, <1>10 DEF OnNextMessage, EnterOnNextMessage, Goto, hookVars
<1>11. CASE RenewInCallback
  BY <1>0, <1>11 DEF RenewInCallback, EnterOnNextMessage, Goto, hookVars
<1>12. CASE NotifyRequested
  BY <1>0, <1>12 DEF NotifyRequested, AfterRequest, Throw, Resolve, ThrowViolation, Goto,
         hookVars
<1>13. CASE WaitForWake
  BY <1>0, <1>13 DEF WaitForWake, Goto, hookVars
<1>14. CASE SpuriousWakeup
  BY <1>0, <1>14 DEF SpuriousWakeup, Goto, hookVars
<1>15. CASE SetLive
  BY <1>0, <1>15 DEF SetLive, Goto, hookVars
<1>16. CASE SetPending
  BY <1>0, <1>16 DEF SetPending, Goto, hookVars
<1>17. CASE NotifyPendingConfigured
  BY <1>0, <1>17 DEF NotifyPendingConfigured, AfterPendingConfigured, ReturnLabel, Throw,
         Resolve, ThrowViolation, Goto, hookVars
<1>18. CASE PullComplete
  BY <1>0, <1>18 DEF PullComplete, AfterPull, ReturnLabel, Throw, Resolve, ThrowViolation,
         Goto, hookVars
<1>19. CASE GetNextMessage
  BY <1>0, <1>19 DEF GetNextMessage, ReturnMessage, Polled, Goto, hookVars
<1>20. CASE WaitForMessage
  BY <1>0, <1>20 DEF WaitForMessage, ReturnMessage, NoMessage, Polled, Goto, hookVars
<1>21. CASE WaitComplete
  BY <1>0, <1>21 DEF WaitComplete, EnterOnNextMessage, Goto, hookVars
<1>22. CASE WaitRecheck
  BY <1>0, <1>22 DEF WaitRecheck, ReturnMessage, NoMessage, Polled, Goto, hookVars
<1>23. CASE WaitRecomplete
  BY <1>0, <1>23 DEF WaitRecomplete, Goto, hookVars
<1>24. CASE WaitUnblocked
  BY <1>0, <1>24 DEF WaitUnblocked, Goto, hookVars
<1>25. CASE WaitLast
  BY <1>0, <1>25 DEF WaitLast, ReturnMessage, NoMessage, Polled, Goto, hookVars
<1>26. CASE Abort
  BY <1>0, <1>26 DEF Abort, hookVars
<1>27. ASSUME NEW t \in THREAD, ConfigurePendingNotify(t) PROVE FreshInv'
  BY <1>0, <1>27 DEF ConfigurePendingNotify, Goto, hookVars
<1>28. ASSUME NEW t \in THREAD, CheckQueue(t) PROVE FreshInv'
  BY <1>0, <1>28 DEF CheckQueue, Goto, hookVars
<1>29. ASSUME NEW t \in THREAD, NotifyConfigured(t) PROVE FreshInv'
  BY <1>0, <1>29 DEF NotifyConfigured, AfterConfigured, ReturnLabel, Throw, Resolve,
         ThrowViolation, Goto, hookVars
<1>30. ASSUME NEW t \in THREAD, CallHook(t) PROVE FreshInv'
  BY <1>0, <1>30 DEF CallHook, Goto, hookVars
<1>31. ASSUME NEW t \in THREAD, ClearHook(t) PROVE FreshInv'
  BY <1>0, <1>31 DEF ClearHook, Goto, hookVars
<1>32. CASE UNCHANGED vars
  BY <1>0, <1>32 DEF vars, hookVars
<1> QED
  BY NextCases, <1>1, <1>2, <1>3, <1>4, <1>5, <1>6, <1>7, <1>8, <1>9, <1>10, <1>11,
     <1>12, <1>13, <1>14, <1>15, <1>16, <1>17, <1>18, <1>19, <1>20, <1>21,
     <1>22, <1>23, <1>24, <1>25, <1>26, <1>27, <1>28, <1>29, <1>30, <1>31,
     <1>32

(* Every step of either thread leaves the latest hook where it will be      *)
(* invoked from.                                                            *)
LEMMA KeptStep ==
  ASSUME TypeOK, PhaseInv, KeptInv, [Next]_vars
  PROVE  KeptInv'
<1> USE DEF KeptInv, LatestHookKept, WillInvoke, ClientQuiet, nullptr,
        PhaseInv, PublisherPhase, ClientPhase, NestedPhase,
        PublishingStates, AdoptingStates, THREAD, PUBLISHER, CLIENT
<1>0. /\ pc \in [THREAD -> Label]
      /\ notifyState \in NOTIFY_STATE
      /\ nextHook \in Nat /\ fired \subseteq 0 .. nextHook
  BY DEF TypeOK, DataOK
<1>1. CASE PushMessage
  BY <1>0, <1>1 DEF PushMessage, Goto, hookVars, logVars, consumerVars
<1>2. CASE StartBatch
  BY <1>0, <1>2 DEF StartBatch, hookVars, logVars, consumerVars
<1>3. CASE EndBatch
  BY <1>0, <1>3 DEF EndBatch, Goto, hookVars, logVars, consumerVars
<1>4. CASE Done
  BY <1>0, <1>4 DEF Done, Goto, hookVars, logVars, consumerVars
<1>5. CASE PushComplete
  BY <1>0, <1>5 DEF PushComplete, AfterPush, Throw, ThrowViolation, Goto, hookVars,
         logVars, consumerVars
<1>6. CASE PublishComplete
  BY <1>0, <1>6 DEF PublishComplete, AfterPublish, Throw, Resolve, ThrowViolation, Goto,
         hookVars, logVars, consumerVars
<1>7. CASE WakeWaiter
  BY <1>0, <1>7 DEF WakeWaiter, hookVars, logVars, consumerVars
<1>8. CASE PublisherReturns
  BY <1>0, <1>8 DEF PublisherReturns, Goto, hookVars, logVars, consumerVars
<1>9. CASE FlushStore
  BY <1>0, <1>9 DEF FlushStore, hookVars, logVars, consumerVars
<1>10. CASE OnNextMessage
  BY <1>0, <1>10 DEF OnNextMessage, EnterOnNextMessage, Goto, hookVars, logVars,
         consumerVars
<1>11. CASE RenewInCallback
  BY <1>0, <1>11 DEF RenewInCallback, EnterOnNextMessage, Goto, hookVars, logVars,
         consumerVars
<1>12. CASE NotifyRequested
  <2>1. CASE AfterRequest(notifyState) = Throw
    BY <1>0, <1>12, <2>1 DEF NotifyRequested, Resolve, ThrowViolation, consumerVars
  <2>2. CASE AfterRequest(notifyState) # Throw
    <3>1. /\ notifyState' = AfterRequest(notifyState)
          /\ pc'[PUBLISHER] = pc[PUBLISHER]
          /\ pc'[CLIENT] \in {"set_live", "enter_wait", "set_pending"}
          /\ pc'[CLIENT] = "enter_wait" <=> notifyState' = "SUB_WAKEUP_REQUIRED"
          /\ UNCHANGED <<aborted, threw, caller>>
      BY <1>0, <1>12, <2>2 DEF NotifyRequested, Resolve, Goto, AfterRequest,
         Throw, consumerVars, logVars
    <3>2. notifyState' = "RECONFIGURE_REQUIRED" =>
            notifyState \in {"PULLING", "RECONFIGURE_REQUIRED"}
      BY <3>1 DEF AfterRequest, Throw
    <3>3. pc[CLIENT] = "request" /\ UNCHANGED nextHook
      BY <1>12 DEF NotifyRequested, hookVars
    <3> QED
      BY <1>0, <3>1, <3>2, <3>3
  <2> QED
    BY <2>1, <2>2, Zenon
<1>13. CASE WaitForWake
  BY <1>0, <1>13 DEF WaitForWake, Goto, hookVars, logVars, consumerVars
<1>14. CASE SpuriousWakeup
  BY <1>0, <1>14 DEF SpuriousWakeup, Goto, hookVars, logVars, consumerVars
<1>15. CASE SetLive
  BY <1>0, <1>15 DEF SetLive, Goto, hookVars, logVars, consumerVars
<1>16. CASE SetPending
  BY <1>0, <1>16 DEF SetPending, Goto, hookVars, logVars, consumerVars
<1>17. CASE NotifyPendingConfigured
  BY <1>0, <1>17 DEF NotifyPendingConfigured, AfterPendingConfigured, ReturnLabel, Throw,
         Resolve, ThrowViolation, Goto, hookVars, logVars, consumerVars
<1>18. CASE PullComplete
  BY <1>0, <1>18 DEF PullComplete, AfterPull, ReturnLabel, Throw, Resolve, ThrowViolation,
         Goto, hookVars, logVars, consumerVars
<1>19. CASE GetNextMessage
  BY <1>0, <1>19 DEF GetNextMessage, ReturnMessage, Polled, Goto, hookVars, logVars,
         consumerVars
<1>20. CASE WaitForMessage
  BY <1>0, <1>20 DEF WaitForMessage, ReturnMessage, NoMessage, Polled, Goto, hookVars,
         logVars, consumerVars
<1>21. CASE WaitComplete
  BY <1>0, <1>21 DEF WaitComplete, EnterOnNextMessage, Goto, hookVars, logVars,
         consumerVars
<1>22. CASE WaitRecheck
  BY <1>0, <1>22 DEF WaitRecheck, ReturnMessage, NoMessage, Polled, Goto, hookVars,
         logVars, consumerVars
<1>23. CASE WaitRecomplete
  BY <1>0, <1>23 DEF WaitRecomplete, Goto, hookVars, logVars, consumerVars
<1>24. CASE WaitUnblocked
  BY <1>0, <1>24 DEF WaitUnblocked, Goto, hookVars, logVars, consumerVars
<1>25. CASE WaitLast
  BY <1>0, <1>25 DEF WaitLast, ReturnMessage, NoMessage, Polled, Goto, hookVars, logVars,
         consumerVars
<1>26. CASE Abort
  BY <1>0, <1>26 DEF Abort, hookVars, logVars, consumerVars
<1>27. ASSUME NEW t \in THREAD, ConfigurePendingNotify(t) PROVE KeptInv'
  BY <1>0, <1>27 DEF ConfigurePendingNotify, Goto, hookVars, logVars, consumerVars
<1>28. ASSUME NEW t \in THREAD, CheckQueue(t) PROVE KeptInv'
  BY <1>0, <1>28 DEF CheckQueue, Goto, hookVars, logVars, consumerVars
<1>29. ASSUME NEW t \in THREAD, NotifyConfigured(t) PROVE KeptInv'
  BY <1>0, <1>29 DEF NotifyConfigured, AfterConfigured, ReturnLabel, Throw, Resolve,
         ThrowViolation, Goto, hookVars, logVars, consumerVars
<1>30. ASSUME NEW t \in THREAD, CallHook(t) PROVE KeptInv'
  BY <1>0, <1>30 DEF CallHook, Goto, hookVars, logVars, consumerVars
<1>31. ASSUME NEW t \in THREAD, ClearHook(t) PROVE KeptInv'
  BY <1>0, <1>31 DEF ClearHook, Goto, hookVars, logVars, consumerVars
<1>32. CASE UNCHANGED vars
  BY <1>0, <1>32 DEF vars, hookVars, logVars, consumerVars
<1> QED
  BY NextCases, <1>1, <1>2, <1>3, <1>4, <1>5, <1>6, <1>7, <1>8, <1>9, <1>10, <1>11,
     <1>12, <1>13, <1>14, <1>15, <1>16, <1>17, <1>18, <1>19, <1>20, <1>21,
     <1>22, <1>23, <1>24, <1>25, <1>26, <1>27, <1>28, <1>29, <1>30, <1>31,
     <1>32

(* The four layers together are an inductive invariant. *)
THEOREM IInvCorrect == Spec => []IInv
<1>1. Init => PhaseInv /\ FreshInv /\ KeptInv
  BY DEF Init, PhaseInv, PublisherPhase, ClientPhase, NestedPhase, FreshInv,
     Newest, Fresh, KeptInv, LatestHookKept, PublishingStates, AdoptingStates,
     PublisherNeverThrows, THREAD, PUBLISHER, CLIENT, nullptr
<1>2. TypeOK /\ TypeOK' /\ PhaseInv /\ FreshInv /\ KeptInv /\ [Next]_vars
      => PhaseInv' /\ FreshInv' /\ KeptInv'
  BY PhaseStep, FreshStep, KeptStep
<1> QED
  BY <1>1, <1>2, TypeCorrect, PTL DEF Spec, IInv

-----------------------------------------------------------------------------
(* The two threads never touch the same hook at the same time. *)
THEOREM HookRaceFreedom == Spec => []NoHookRace
<1>1. PhaseInv => NoHookRace
  BY DEF PhaseInv, PublisherPhase, ClientPhase, NestedPhase, NoHookRace,
     UsesLive, UsesPending, PublishingStates, AdoptingStates, PUBLISHER, CLIENT
<1> QED
  BY <1>1, IInvCorrect, PTL DEF IInv

(* The publisher's "can't happen" cases cannot happen. *)
THEOREM PublisherSafety == Spec => []PublisherNeverThrows
<1>1. PhaseInv => PublisherNeverThrows
  BY DEF PhaseInv, PublisherPhase
<1> QED
  BY <1>1, IInvCorrect, PTL DEF IInv

(* No hook is invoked twice, after a newer one, or when there is none. *)
THEOREM HookFreshness == Spec => []InvokesFreshHook
<1>1. FreshInv => InvokesFreshHook
  BY DEF FreshInv, InvokesFreshHook
<1> QED
  BY <1>1, IInvCorrect, PTL DEF IInv

(* The latest registration is never lost. *)
THEOREM RegistrationKept == Spec => []LatestHookKept
<1>1. KeptInv => LatestHookKept
  BY DEF KeptInv, LatestHookKept
<1> QED
  BY <1>1, IInvCorrect, PTL DEF IInv

-----------------------------------------------------------------------------
(* Without store buffering the memory-order comment of NotifyConfigured is  *)
(* right.  Settled: the publisher has resolved the state for every message  *)
(* it pushed, so a batch in progress does not count.                        *)
Settled == pc[PUBLISHER] # "push_complete" /\ (batching => pc[PUBLISHER] # "idle")

AnnouncedInv ==
  /\ visible = pushed
  /\ notifyState = "NOTHING_TO_NOTIFY" /\ Settled =>
       popped = pushed \/ announced = pushed
  /\ pc[CLIENT] = "configured_cas" /\ notifyState = "CONFIGURING" /\ Settled =>
       sawData \/ popped = pushed
  /\ notifyState \in PublishingStates \cup AdoptingStates => announced = pushed

(* Every step keeps the bookkeeping of announced messages, when a push is   *)
(* visible at once.                                                         *)
LEMMA AnnouncedStep ==
  ASSUME StoreBuffering = FALSE, TypeOK, PhaseInv, AnnouncedInv, [Next]_vars
  PROVE  AnnouncedInv'
<1> USE DEF AnnouncedInv, Settled, PhaseInv, PublisherPhase, ClientPhase,
        PublishingStates, AdoptingStates, THREAD, PUBLISHER, CLIENT
<1>0. /\ StoreBuffering = FALSE
      /\ pc \in [THREAD -> Label]
      /\ notifyState \in NOTIFY_STATE
      /\ pushed \in Nat /\ popped \in Nat /\ popped <= pushed
  BY DEF TypeOK, DataOK
<1>1. CASE PushMessage
  BY <1>0, <1>1 DEF PushMessage, Goto, queueVars, logVars, consumerVars
<1>2. CASE StartBatch
  BY <1>0, <1>2 DEF StartBatch, queueVars, logVars, consumerVars
<1>3. CASE EndBatch
  BY <1>0, <1>3 DEF EndBatch, Goto, queueVars, logVars, consumerVars
<1>4. CASE Done
  BY <1>0, <1>4 DEF Done, Goto, queueVars, logVars, consumerVars
<1>5. CASE PushComplete
  BY <1>0, <1>5 DEF PushComplete, AfterPush, Throw, ThrowViolation, Goto, Drain, queueVars,
         logVars, consumerVars
<1>6. CASE PublishComplete
  BY <1>0, <1>6 DEF PublishComplete, AfterPublish, Throw, Resolve, ThrowViolation, Goto,
         queueVars, logVars, consumerVars
<1>7. CASE WakeWaiter
  BY <1>0, <1>7 DEF WakeWaiter, queueVars, logVars, consumerVars
<1>8. CASE PublisherReturns
  BY <1>0, <1>8 DEF PublisherReturns, Goto, queueVars, logVars, consumerVars
<1>9. CASE FlushStore
  BY <1>0, <1>9 DEF FlushStore, queueVars, logVars, consumerVars
<1>10. CASE OnNextMessage
  BY <1>0, <1>10 DEF OnNextMessage, EnterOnNextMessage, Goto, queueVars, logVars,
         consumerVars
<1>11. CASE RenewInCallback
  BY <1>0, <1>11 DEF RenewInCallback, EnterOnNextMessage, Goto, queueVars, logVars,
         consumerVars
<1>12. CASE NotifyRequested
  BY <1>0, <1>12 DEF NotifyRequested, AfterRequest, Throw, Resolve, ThrowViolation, Goto,
         queueVars, logVars, consumerVars
<1>13. CASE WaitForWake
  BY <1>0, <1>13 DEF WaitForWake, Goto, queueVars, logVars, consumerVars
<1>14. CASE SpuriousWakeup
  BY <1>0, <1>14 DEF SpuriousWakeup, Goto, queueVars, logVars, consumerVars
<1>15. CASE SetLive
  BY <1>0, <1>15 DEF SetLive, Goto, queueVars, logVars, consumerVars
<1>16. CASE SetPending
  BY <1>0, <1>16 DEF SetPending, Goto, queueVars, logVars, consumerVars
<1>17. CASE NotifyPendingConfigured
  BY <1>0, <1>17 DEF NotifyPendingConfigured, AfterPendingConfigured, ReturnLabel, Throw,
         Resolve, ThrowViolation, Goto, queueVars, logVars, consumerVars
<1>18. CASE PullComplete
  BY <1>0, <1>18 DEF PullComplete, AfterPull, ReturnLabel, Throw, Resolve, ThrowViolation,
         Goto, queueVars, logVars, consumerVars
<1>19. CASE GetNextMessage
  BY <1>0, <1>19 DEF GetNextMessage, ReturnMessage, Polled, HasMessage, Goto, queueVars, logVars,
         consumerVars
<1>20. CASE WaitForMessage
  BY <1>0, <1>20 DEF WaitForMessage, ReturnMessage, NoMessage, Polled, HasMessage, Goto, queueVars,
         logVars, consumerVars
<1>21. CASE WaitComplete
  BY <1>0, <1>21 DEF WaitComplete, EnterOnNextMessage, Goto, queueVars, logVars,
         consumerVars
<1>22. CASE WaitRecheck
  BY <1>0, <1>22 DEF WaitRecheck, ReturnMessage, NoMessage, Polled, HasMessage, Goto, queueVars,
         logVars, consumerVars
<1>23. CASE WaitRecomplete
  BY <1>0, <1>23 DEF WaitRecomplete, Goto, queueVars, logVars, consumerVars
<1>24. CASE WaitUnblocked
  BY <1>0, <1>24 DEF WaitUnblocked, Goto, queueVars, logVars, consumerVars
<1>25. CASE WaitLast
  BY <1>0, <1>25 DEF WaitLast, ReturnMessage, NoMessage, Polled, HasMessage, Goto, queueVars, logVars,
         consumerVars
<1>26. CASE Abort
  BY <1>0, <1>26 DEF Abort, queueVars, logVars, consumerVars
<1>27. ASSUME NEW t \in THREAD, ConfigurePendingNotify(t) PROVE AnnouncedInv'
  BY <1>0, <1>27 DEF ConfigurePendingNotify, Goto, queueVars, logVars, consumerVars
<1>28. ASSUME NEW t \in THREAD, CheckQueue(t) PROVE AnnouncedInv'
  <2>1. t = CLIENT
    BY <1>28 DEF CheckQueue
  <2>2. /\ pc'[PUBLISHER] = pc[PUBLISHER]
        /\ UNCHANGED <<notifyState, pushed, visible, popped, batching, announced>>
    BY <1>0, <1>28, <2>1 DEF CheckQueue, Goto, queueVars, consumerVars, logVars
  <2>3. ~sawData' => ~(popped < visible)
    BY <1>28, Zenon DEF CheckQueue
  <2>4. sawData' \/ popped = pushed
    BY <1>0, <2>3
  <2> QED
    BY <2>2, <2>4
<1>29. ASSUME NEW t \in THREAD, NotifyConfigured(t) PROVE AnnouncedInv'
  BY <1>0, <1>29 DEF NotifyConfigured, AfterConfigured, ReturnLabel, Throw, Resolve,
         ThrowViolation, Goto, queueVars, logVars, consumerVars
<1>30. ASSUME NEW t \in THREAD, CallHook(t) PROVE AnnouncedInv'
  BY <1>0, <1>30 DEF CallHook, Goto, queueVars, logVars, consumerVars
<1>31. ASSUME NEW t \in THREAD, ClearHook(t) PROVE AnnouncedInv'
  BY <1>0, <1>31 DEF ClearHook, Goto, queueVars, logVars, consumerVars
<1>32. CASE UNCHANGED vars
  BY <1>0, <1>32 DEF vars, queueVars, logVars, consumerVars
<1> QED
  BY NextCases, <1>1, <1>2, <1>3, <1>4, <1>5, <1>6, <1>7, <1>8, <1>9, <1>10, <1>11,
     <1>12, <1>13, <1>14, <1>15, <1>16, <1>17, <1>18, <1>19, <1>20, <1>21,
     <1>22, <1>23, <1>24, <1>25, <1>26, <1>27, <1>28, <1>29, <1>30, <1>31,
     <1>32

(* Every message is read or announced, on a sequentially consistent memory. *)
THEOREM AnnouncedOnSC ==
  ASSUME StoreBuffering = FALSE
  PROVE  Spec => []NothingUnannounced
<1>1. Init => AnnouncedInv
  BY DEF Init, AnnouncedInv, Settled, PublishingStates, AdoptingStates, PUBLISHER,
     CLIENT, THREAD
<1>2. TypeOK /\ PhaseInv /\ AnnouncedInv /\ [Next]_vars => AnnouncedInv'
  BY AnnouncedStep
<1>3. AnnouncedInv => NothingUnannounced
  BY DEF AnnouncedInv, NothingUnannounced, Settled
<1> QED
  BY <1>1, <1>2, <1>3, IInvCorrect, PTL DEF Spec, IInv
=============================================================================
