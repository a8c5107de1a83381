------------------------- MODULE OneShotHooksProofs -------------------------
(***************************************************************************)
(* Proof that PipeSubscriber implements OneShotHooks, for every value of   *)
(* its constants.  A step that supplies or invokes no hook can only take   *)
(* hooks away from the registered ones, which is one case for each step of *)
(* the protocol; that it takes the latest one only from a client that has  *)
(* quit is then a consequence of the inductive invariant of                *)
(* PipeSubscriberProofs, before and after the step.                        *)
(***************************************************************************)
EXTENDS PipeSubscriberProofs

-----------------------------------------------------------------------------
(* The labels of the publisher's calls are not the client's. *)
ClientLabels == pc[CLIENT] \notin {"push_complete", "returned"}

LEMMA ClientLabelsStep == TypeOK /\ PhaseInv /\ ClientLabels /\ [Next]_vars => ClientLabels'
<1> SUFFICES ASSUME TypeOK, PhaseInv, ClientLabels, [Next]_vars PROVE ClientLabels'
  OBVIOUS
<1> USE DEF ClientLabels, Goto, THREAD, PUBLISHER, CLIENT
<1>0. pc \in [THREAD -> Label]
  BY DEF TypeOK, DataOK
<1>1. CASE \/ PushMessage \/ StartBatch \/ EndBatch \/ Done \/ WakeWaiter \/ PublisherReturns
           \/ FlushStore \/ UNCHANGED vars
  BY <1>0, <1>1 DEF PushMessage, StartBatch, EndBatch, Done, WakeWaiter, PublisherReturns,
                    FlushStore, vars
<1>2. CASE PushComplete \/ PublishComplete
  BY <1>0, <1>2 DEF PushComplete, PublishComplete, Resolve, ThrowViolation
<1>3. CASE NotifyRequested \/ NotifyPendingConfigured \/ PullComplete
  BY <1>0, <1>3 DEF NotifyRequested, NotifyPendingConfigured, PullComplete, Resolve,
                    ThrowViolation, ReturnLabel
<1>4. CASE OnNextMessage \/ RenewInCallback \/ WaitComplete
  BY <1>0, <1>4 DEF OnNextMessage, RenewInCallback, WaitComplete, EnterOnNextMessage
<1>5. CASE WaitForWake \/ SpuriousWakeup \/ SetLive \/ SetPending \/ WaitUnblocked
           \/ WaitRecomplete \/ Abort
  BY <1>0, <1>5 DEF WaitForWake, SpuriousWakeup, SetLive, SetPending, WaitUnblocked,
                    WaitRecomplete, Abort
<1>6. CASE GetNextMessage \/ WaitForMessage \/ WaitRecheck \/ WaitLast
  BY <1>0, <1>6 DEF GetNextMessage, WaitForMessage, WaitRecheck, WaitLast, ReturnMessage,
                    NoMessage
<1>7. ASSUME NEW t \in THREAD,
             \/ ConfigurePendingNotify(t) \/ CheckQueue(t) \/ CallHook(t) \/ ClearHook(t)
      PROVE  ClientLabels'
  BY <1>0, <1>7 DEF ConfigurePendingNotify, CheckQueue, CallHook, ClearHook
<1>8. ASSUME NEW t \in THREAD, NotifyConfigured(t) PROVE ClientLabels'
  BY <1>0, <1>8 DEF NotifyConfigured, Resolve, ThrowViolation, ReturnLabel
<1> QED
  BY NextCases, <1>1, <1>2, <1>3, <1>4, <1>5, <1>6, <1>7, <1>8

HooksInv == IInv /\ ClientLabels

-----------------------------------------------------------------------------
(* What the mapping sees of a state.                                         *)
MayInvoke(h) == WillInvoke(h) \/ InHand(h)

(* A registered hook was not invoked. *)
LEMMA RegisteredFresh ==
  ASSUME IInv, NEW h \in Registered
  PROVE  Fresh(h)
<1>1. WillInvoke(h) => Fresh(h)
  BY DEF Registered, WillInvoke, IInv, FreshInv, THREAD, PUBLISHER, CLIENT
<1>2. InHand(h) => Fresh(h)
  BY DEF Registered, InHand, IInv, FreshInv, Newest, THREAD, PUBLISHER, CLIENT
<1> QED
  BY <1>1, <1>2 DEF Registered

(* The latest hook of a client that has not quit is invoked or registered. *)
LatestInv == ~Quit /\ nextHook # 0 => nextHook \in fired \/ nextHook \in Registered

LEMMA LatestRegistered == HooksInv => LatestInv
<1> SUFFICES ASSUME HooksInv, ~Quit, nextHook # 0
             PROVE  nextHook \in fired \/ nextHook \in Registered
  BY DEF LatestInv
<1>1. nextHook \in 1 .. nextHook
  BY DEF HooksInv, IInv, TypeOK, DataOK
<1>2. nextHook \in fired \/ MayInvoke(nextHook)
  <2>1. pc[CLIENT] \in Label
    BY DEF HooksInv, IInv, TypeOK, DataOK, THREAD
  <2>2. CASE pc[CLIENT] \in {"request", "enter_wait", "asleep", "set_live", "set_pending"}
    BY <2>2 DEF MayInvoke, InHand
  <2>3. CASE pc[CLIENT] \in {"configured", "configured_cas", "call_hook",
                             "pending_configured", "adopt_pending"}
    BY <2>3 DEF HooksInv, IInv, KeptInv, Quit, MayInvoke, InHand
  <2>4. CASE pc[CLIENT] \in {"clear_hook", "hook_done"}
    BY <2>4 DEF HooksInv, IInv, KeptInv, Quit
  <2>5. CASE pc[CLIENT] \in ClientQuiet \ {"request"}
    BY <2>5 DEF HooksInv, IInv, KeptInv, LatestHookKept, Quit, MayInvoke, nullptr
  <2>6. pc[CLIENT] \notin {"wake", "push_complete", "returned"}
    BY DEF HooksInv, ClientLabels, IInv, PhaseInv, ClientPhase
  <2> QED
    BY <2>1, <2>2, <2>3, <2>4, <2>5, <2>6 DEF Label, ClientQuiet
<1> QED
  BY <1>1, <1>2 DEF Registered, MayInvoke

-----------------------------------------------------------------------------
(* The steps of the abstract hooks, in the subscriber's terms. *)

(* A step that supplies and invokes nothing. *)
LEMMA AbstractShrink ==
  ASSUME HooksInv, LatestInv', UNCHANGED <<nextHook, fired>>, Quit => Quit',
         \A h \in 1 .. nextHook : MayInvoke(h)' => MayInvoke(h)
  PROVE  Hooks!HooksNext
<1>1. Registered' \in SUBSET Registered
  BY DEF Registered, MayInvoke
<1>2. CASE Quit'
  <2>1. Quit' = TRUE
    BY <1>2 DEF Quit
  <2> QED
    BY <1>1, <2>1 DEF Hooks!HooksNext, Hooks!Quit
<1>3. CASE ~Quit'
  <2>1. Quit' = Quit
    BY <1>3 DEF Quit
  <2>2. ASSUME nextHook \in Registered PROVE nextHook \in Registered'
    <3>1. nextHook \notin fired
      <4>1. Fresh(nextHook)
        BY <2>2, RegisteredFresh DEF HooksInv
      <4>2. nextHook \in Nat
        BY DEF HooksInv, IInv, TypeOK, DataOK
      <4> QED
        BY <4>1, <4>2 DEF Fresh
    <3>2. nextHook # 0
      BY <2>2 DEF Registered
    <3>3. nextHook \in fired \/ nextHook \in Registered'
      BY <1>3, <3>2 DEF LatestInv
    <3> QED
      BY <3>1, <3>3
  <2> QED
    BY <1>1, <2>1, <2>2 DEF Hooks!HooksNext, Hooks!Supersede
<1> QED
  BY <1>2, <1>3

LEMMA AbstractSupply ==
  ASSUME nextHook' = nextHook + 1, fired' = fired, Quit' = Quit,
         \/ Registered' = Registered \cup {nextHook + 1}
         \/ Quit /\ Registered' = Registered
  PROVE  Hooks!HooksNext
BY DEF Hooks!HooksNext, Hooks!Supply, Hooks!Register

LEMMA AbstractInvoke ==
  ASSUME NEW h \in Registered, fired' = fired \cup {h}, nextHook' = nextHook, Quit' = Quit,
         Registered' = {k \in Registered : k > h}
  PROVE  Hooks!HooksNext
BY DEF Hooks!HooksNext, Hooks!Invoke

LEMMA AbstractRenew ==
  ASSUME NEW h \in Registered, fired' = fired \cup {h}, nextHook' = nextHook + 1, Quit' = Quit,
         \/ Registered' = {k \in Registered : k > h} \cup {nextHook + 1}
         \/ Quit /\ Registered' = {k \in Registered : k > h}
  PROVE  Hooks!HooksNext
BY DEF Hooks!HooksNext, Hooks!Invoke, Hooks!Register

-----------------------------------------------------------------------------
(* The steps that leave the hooks alone, with all that tells where they are  *)
(* kept and which thread is about to invoke them.                            *)
MapInv == TypeOK /\ PhaseInv

LEMMA ShrinkStep ==
  ASSUME MapInv, [Next]_vars, UNCHANGED <<nextHook, fired>>, NEW h \in 1 .. nextHook, MayInvoke(h)'
  PROVE  MayInvoke(h)
<1> USE DEF MapInv, PhaseInv, PublisherPhase, ClientPhase, NestedPhase,
        PublishingStates, AdoptingStates, THREAD, PUBLISHER, CLIENT
<1>0. /\ pc \in [THREAD -> Label] /\ notifyState \in NOTIFY_STATE
      /\ h # 0 /\ nextHook + 1 # nextHook
  BY DEF TypeOK, DataOK
<1> USE DEF MayInvoke, WillInvoke, InHand, Goto
<1>1. CASE \/ PushMessage \/ StartBatch \/ EndBatch \/ Done \/ WakeWaiter \/ PublisherReturns
           \/ FlushStore \/ UNCHANGED vars
  BY <1>0, <1>1 DEF PushMessage, StartBatch, EndBatch, Done, WakeWaiter, PublisherReturns,
                    FlushStore, vars, hookVars
<1>2. CASE PushComplete
  BY <1>0, <1>2 DEF PushComplete, AfterPush, Throw, ThrowViolation, hookVars
<1>3. CASE PublishComplete
  BY <1>0, <1>3 DEF PublishComplete, AfterPublish, Throw, Resolve, ThrowViolation, hookVars
<1>4. CASE NotifyRequested
  BY <1>0, <1>4 DEF NotifyRequested, AfterRequest, Throw, Resolve, ThrowViolation, hookVars
<1>5. CASE WaitForWake \/ SpuriousWakeup \/ WaitUnblocked \/ WaitRecomplete \/ Abort
  BY <1>0, <1>5 DEF WaitForWake, SpuriousWakeup, WaitUnblocked, WaitRecomplete, Abort, hookVars
<1>6. CASE SetLive
  BY <1>0, <1>6 DEF SetLive
<1>7. CASE SetPending
  BY <1>0, <1>7 DEF SetPending
<1>8. CASE NotifyPendingConfigured
  BY <1>0, <1>8 DEF NotifyPendingConfigured, AfterPendingConfigured, ReturnLabel, Throw,
                    Resolve, ThrowViolation, hookVars
<1>9. CASE PullComplete
  BY <1>0, <1>9 DEF PullComplete, AfterPull, ReturnLabel, Throw, Resolve, ThrowViolation,
                    hookVars
<1>10. CASE GetNextMessage \/ WaitForMessage \/ WaitRecheck \/ WaitLast
  BY <1>0, <1>10 DEF GetNextMessage, WaitForMessage, WaitRecheck, WaitLast, ReturnMessage,
                     NoMessage, Polled, hookVars
<1>11. CASE OnNextMessage \/ RenewInCallback
  BY <1>0, <1>11 DEF OnNextMessage, RenewInCallback, EnterOnNextMessage
<1>12. CASE WaitComplete
  BY <1>0, <1>12 DEF WaitComplete, EnterOnNextMessage
<1>13. ASSUME NEW t \in THREAD, ConfigurePendingNotify(t) PROVE MayInvoke(h)
  BY <1>0, <1>13 DEF ConfigurePendingNotify, nullptr
<1>14. ASSUME NEW t \in THREAD, CheckQueue(t) PROVE MayInvoke(h)
  BY <1>0, <1>14 DEF CheckQueue, hookVars
<1>15. ASSUME NEW t \in THREAD, NotifyConfigured(t) PROVE MayInvoke(h)
  BY <1>0, <1>15 DEF NotifyConfigured, AfterConfigured, ReturnLabel, Throw, Resolve,
                     ThrowViolation, hookVars
<1>16. ASSUME NEW t \in THREAD, CallHook(t) PROVE MayInvoke(h)
  BY <1>0, <1>16 DEF CallHook
<1>17. ASSUME NEW t \in THREAD, ClearHook(t) PROVE MayInvoke(h)
  BY <1>0, <1>17 DEF ClearHook, nullptr
<1> QED
  BY NextCases, <1>1, <1>2, <1>3, <1>4, <1>5, <1>6, <1>7, <1>8, <1>9, <1>10, <1>11, <1>12,
     <1>13, <1>14, <1>15, <1>16, <1>17

(* Which steps supply or invoke a hook, and that a client has quit for good. *)
LEMMA StepKinds ==
  ASSUME MapInv, [Next]_vars
  PROVE  /\ Quit => Quit'
         /\ \/ UNCHANGED <<nextHook, fired>>
            \/ OnNextMessage
            \/ WaitComplete /\ EnterOnNextMessage("wait", "wait_recheck")
            \/ RenewInCallback
            \/ \E t \in THREAD : CallHook(t)
<1> USE DEF Quit, hookVars, consumerVars, logVars
<1>1. CASE \/ PushMessage \/ StartBatch \/ EndBatch \/ Done \/ WakeWaiter \/ PublisherReturns
           \/ FlushStore \/ UNCHANGED vars
  BY <1>1 DEF PushMessage, StartBatch, EndBatch, Done, WakeWaiter, PublisherReturns,
              FlushStore, vars
<1>2. CASE PushComplete \/ PublishComplete
  BY <1>2 DEF PushComplete, PublishComplete, Resolve, ThrowViolation
<1>3. CASE NotifyRequested \/ NotifyPendingConfigured \/ PullComplete
  BY <1>3 DEF NotifyRequested, NotifyPendingConfigured, PullComplete, Resolve, ThrowViolation
<1>4. CASE OnNextMessage \/ RenewInCallback
  BY <1>4 DEF OnNextMessage, RenewInCallback, EnterOnNextMessage
<1>5. CASE WaitComplete
  BY <1>5 DEF WaitComplete, EnterOnNextMessage
<1>6. CASE \/ WaitForWake \/ SpuriousWakeup \/ SetLive \/ SetPending \/ WaitUnblocked
           \/ WaitRecomplete \/ Abort
  BY <1>6 DEF WaitForWake, SpuriousWakeup, SetLive, SetPending, WaitUnblocked,
              WaitRecomplete, Abort
<1>7. CASE GetNextMessage \/ WaitForMessage \/ WaitRecheck \/ WaitLast
  BY <1>7 DEF GetNextMessage, WaitForMessage, WaitRecheck, WaitLast, ReturnMessage,
              NoMessage, Polled
<1>8. ASSUME NEW t \in THREAD,
             ConfigurePendingNotify(t) \/ CheckQueue(t) \/ ClearHook(t) \/ NotifyConfigured(t)
      PROVE  (Quit => Quit') /\ UNCHANGED <<nextHook, fired>>
  BY <1>8 DEF ConfigurePendingNotify, CheckQueue, ClearHook, NotifyConfigured, Resolve,
              ThrowViolation
<1>9. ASSUME NEW t \in THREAD, CallHook(t) PROVE Quit => Quit'
  BY <1>9 DEF CallHook
<1> QED
  BY NextCases, <1>1, <1>2, <1>3, <1>4, <1>5, <1>6, <1>7, <1>8, <1>9

-----------------------------------------------------------------------------
(* The steps that supply a hook, invoke one, or do both. *)
LEMMA SupplyStep ==
  ASSUME MapInv,
         \/ OnNextMessage
         \/ WaitComplete /\ EnterOnNextMessage("wait", "wait_recheck")
  PROVE  Hooks!HooksNext
<1>0. /\ pc \in [THREAD -> Label] /\ nextHook \in Nat
      /\ onNotify \in 0 .. nextHook /\ pending \in 0 .. nextHook
  BY DEF MapInv, TypeOK, DataOK
<1>1. /\ nextHook' = nextHook + 1 /\ fired' = fired
      /\ UNCHANGED <<notifyState, onNotify, pending, aborted, threw>>
      /\ pc[CLIENT] \in {"idle", "wait_complete"}
      /\ \/ aborted /\ pc' = [pc EXCEPT ![CLIENT] = "idle"]
         \/ aborted /\ pc' = [pc EXCEPT ![CLIENT] = "wait_recheck"]
         \/ pc' = [pc EXCEPT ![CLIENT] = "request"]
  BY DEF OnNextMessage, WaitComplete, EnterOnNextMessage, Goto, consumerVars, logVars
<1>2. /\ pc'[PUBLISHER] = pc[PUBLISHER]
      /\ pc'[CLIENT] = "request" \/ (aborted /\ pc'[CLIENT] \in {"idle", "wait_recheck"})
  BY <1>0, <1>1 DEF THREAD, PUBLISHER, CLIENT
<1>3. \A h : WillInvoke(h)' <=> WillInvoke(h)
  BY <1>1, <1>2 DEF WillInvoke
<1>4. \A h : ~InHand(h) /\ (InHand(h)' <=> pc'[CLIENT] = "request" /\ h = nextHook + 1)
  BY <1>1, <1>2 DEF InHand
<1>5. ~WillInvoke(nextHook + 1)
  BY <1>0 DEF WillInvoke
<1>6. /\ 1 .. nextHook' = (1 .. nextHook) \cup {nextHook + 1}
      /\ nextHook + 1 \notin 1 .. nextHook
  BY <1>0, <1>1
<1>7. /\ Registered = {h \in 1 .. nextHook : WillInvoke(h)}
      /\ Registered' = {h \in 1 .. nextHook' : WillInvoke(h)' \/ InHand(h)'}
  BY <1>4 DEF Registered
<1>8. \/ Registered' = Registered \cup {nextHook + 1}
      \/ Quit /\ Registered' = Registered
  <2>1. CASE pc'[CLIENT] = "request"
    <3>1. Registered' = Registered \cup {nextHook + 1}
      BY <1>3, <1>4, <1>5, <1>6, <1>7, <2>1
    <3> QED
      BY <3>1
  <2>2. CASE aborted /\ pc'[CLIENT] \in {"idle", "wait_recheck"}
    <3>1. Registered' = Registered
      BY <1>3, <1>4, <1>5, <1>6, <1>7, <2>2
    <3> QED
      BY <2>2, <3>1 DEF Quit
  <2> QED
    BY <1>2, <2>1, <2>2
<1>9. Quit' = Quit
  BY <1>1 DEF Quit
<1> QED
  BY <1>1, <1>8, <1>9, AbstractSupply

(* What is registered while the client runs its own hook. *)
LEMMA PulledAlone ==
  ASSUME MapInv, pc[CLIENT] = "call_hook", NEW h
  PROVE  MayInvoke(h) <=> h = onNotify
<1>1. notifyState = "PULLING"
  BY DEF MapInv, PhaseInv, ClientPhase
<1>2. pc[PUBLISHER] \notin {"call_hook", "adopt_pending", "configured"}
  BY <1>1 DEF MapInv, PhaseInv, PublisherPhase, PublishingStates, AdoptingStates
<1> QED
  BY <1>1, <1>2 DEF MayInvoke, WillInvoke, InHand

LEMMA InvokeStep ==
  ASSUME MapInv, FreshInv, NEW t \in THREAD, CallHook(t)
  PROVE  Hooks!HooksNext
<1>0. /\ pc \in [THREAD -> Label] /\ nextHook \in Nat
      /\ onNotify \in 0 .. nextHook /\ pending \in 0 .. nextHook
  BY DEF MapInv, TypeOK, DataOK
<1>1. /\ pc[t] = "call_hook" /\ pc' = [pc EXCEPT ![t] = "clear_hook"]
      /\ fired' = fired \cup {onNotify}
      /\ UNCHANGED <<notifyState, onNotify, pending, nextHook, aborted, threw>>
  BY DEF CallHook, Goto, consumerVars, logVars
<1>2. onNotify \in 1 .. nextHook
  BY <1>0, <1>1 DEF FreshInv, Fresh, nullptr
<1>3. Quit' = Quit
  BY <1>1 DEF Quit
<1>4. MayInvoke(onNotify)
  BY <1>1 DEF MayInvoke, WillInvoke, InHand, THREAD
<1>5. \A h \in 1 .. nextHook : MayInvoke(h)' <=> MayInvoke(h) /\ h > onNotify
  <2>1. CASE t = CLIENT
    <3>1. pc'[CLIENT] = "clear_hook" /\ pc'[PUBLISHER] = pc[PUBLISHER]
      BY <1>0, <1>1, <2>1 DEF THREAD, PUBLISHER, CLIENT
    <3>2. notifyState = "PULLING"
      BY <1>1, <2>1 DEF MapInv, PhaseInv, ClientPhase
    <3>3. pc[PUBLISHER] \notin {"call_hook", "adopt_pending", "configured"}
      BY <3>2 DEF MapInv, PhaseInv, PublisherPhase, PublishingStates, AdoptingStates
    <3>4. \A h \in 1 .. nextHook : ~MayInvoke(h)'
      BY <1>1, <3>1, <3>2, <3>3 DEF MayInvoke, WillInvoke, InHand
    <3>5. \A h \in 1 .. nextHook : MayInvoke(h) => ~(h > onNotify)
      <4>1. \A h \in 1 .. nextHook : MayInvoke(h) => h = onNotify
        BY <1>1, <2>1, PulledAlone
      <4> QED
        BY <1>2, <4>1
    <3> QED
      BY <3>4, <3>5
  <2>2. CASE t = PUBLISHER
    <3>1. pc'[CLIENT] = pc[CLIENT] /\ pc'[PUBLISHER] = "clear_hook" /\ pc[PUBLISHER] = "call_hook"
      BY <1>0, <1>1, <2>2 DEF THREAD, PUBLISHER, CLIENT
    <3>2. notifyState \in PublishingStates
      BY <3>1 DEF MapInv, PhaseInv, PublisherPhase
    <3>3. pc[CLIENT] \notin {"set_live", "adopt_pending", "configured", "configured_cas",
                            "call_hook", "clear_hook", "hook_done", "enter_wait", "asleep"}
      BY <3>2 DEF MapInv, PhaseInv, ClientPhase, PublishingStates
    <3>4. \A h \in 1 .. nextHook :
            MayInvoke(h)' <=>
              \/ notifyState = "PUB_WILL_RECONFIGURE" /\ pending = h
              \/ pc[CLIENT] \in {"request", "set_pending"} /\ nextHook = h
              \/ pc[CLIENT] = "pending_configured" /\ pending = h
      BY <1>1, <3>1, <3>2, <3>3 DEF MayInvoke, WillInvoke, InHand, PublishingStates
    <3>5. \A h \in 1 .. nextHook : MayInvoke(h) <=> MayInvoke(h)' \/ h = onNotify
      BY <3>1, <3>2, <3>3, <3>4 DEF MayInvoke, WillInvoke, InHand, PublishingStates
    <3>6. \A h \in 1 .. nextHook : MayInvoke(h)' => h > onNotify
      <4>1. notifyState = "PUB_WILL_RECONFIGURE" \/ pc[CLIENT] = "pending_configured" =>
              onNotify < pending
        BY DEF FreshInv
      <4>2. pc[CLIENT] \in {"request", "set_pending"} => onNotify < nextHook
        BY DEF FreshInv, Newest
      <4> QED
        BY <1>0, <3>4, <4>1, <4>2
    <3> QED
      BY <1>2, <3>5, <3>6
  <2> QED
    BY <2>1, <2>2 DEF THREAD
<1>6. Registered' = {k \in Registered : k > onNotify}
  <2>1. /\ Registered = {h \in 1 .. nextHook : MayInvoke(h)}
        /\ Registered' = {h \in 1 .. nextHook' : MayInvoke(h)'}
    BY DEF Registered, MayInvoke
  <2> QED
    BY <1>1, <1>5, <2>1
<1>7. onNotify \in Registered
  BY <1>2, <1>4 DEF Registered, MayInvoke
<1> QED
  BY <1>1, <1>3, <1>6, <1>7, AbstractInvoke

(* A hook that the client runs supplies the next. *)
LEMMA RenewStep ==
  ASSUME MapInv, FreshInv, RenewInCallback
  PROVE  Hooks!HooksNext
<1>0. /\ pc \in [THREAD -> Label] /\ nextHook \in Nat
      /\ onNotify \in 0 .. nextHook /\ pending \in 0 .. nextHook
  BY DEF MapInv, TypeOK, DataOK
<1>1. /\ pc[CLIENT] = "call_hook" /\ fired' = fired \cup {onNotify}
      /\ nextHook' = nextHook + 1
      /\ UNCHANGED <<notifyState, onNotify, pending, aborted, threw>>
      /\ \/ aborted /\ pc' = [pc EXCEPT ![CLIENT] = "clear_hook"]
         \/ pc' = [pc EXCEPT ![CLIENT] = "request"]
  BY DEF RenewInCallback, EnterOnNextMessage, Goto, consumerVars, logVars
<1>2. /\ pc'[PUBLISHER] = pc[PUBLISHER]
      /\ pc'[CLIENT] = "request" \/ (aborted /\ pc'[CLIENT] = "clear_hook")
  BY <1>0, <1>1 DEF THREAD, PUBLISHER, CLIENT
<1>3. onNotify \in 1 .. nextHook
  BY <1>0, <1>1 DEF FreshInv, Fresh, nullptr, THREAD
<1>4. \A h : MayInvoke(h) <=> h = onNotify
  BY <1>1, PulledAlone
<1>5. onNotify \in Registered /\ {k \in Registered : k > onNotify} = {}
  <2>1. Registered = {onNotify}
    BY <1>3, <1>4 DEF Registered, MayInvoke
  <2>2. ~(onNotify > onNotify)
    BY <1>3
  <2> QED
    BY <2>1, <2>2
<1>6. notifyState = "PULLING"
  BY <1>1 DEF MapInv, PhaseInv, ClientPhase
<1>7. pc[PUBLISHER] \notin {"call_hook", "adopt_pending", "configured"}
  BY <1>6 DEF MapInv, PhaseInv, PublisherPhase, PublishingStates, AdoptingStates
<1>8. \A h : MayInvoke(h)' <=> pc'[CLIENT] = "request" /\ h = nextHook + 1
  BY <1>1, <1>2, <1>6, <1>7 DEF MayInvoke, WillInvoke, InHand
<1>9. \/ Registered' = {} \cup {nextHook + 1}
      \/ Quit /\ Registered' = {}
  <2>1. Registered' = {h \in 1 .. nextHook + 1 : MayInvoke(h)'}
    BY <1>1 DEF Registered, MayInvoke
  <2>2. nextHook + 1 \in 1 .. nextHook + 1
    BY <1>0
  <2> QED
    BY <1>2, <1>8, <2>1, <2>2 DEF Quit
<1>10. Quit' = Quit
  BY <1>1 DEF Quit
<1> QED
  BY <1>1, <1>5, <1>9, <1>10, AbstractRenew

-----------------------------------------------------------------------------
LEMMA HooksStep ==
  ASSUME HooksInv, LatestInv', [Next]_vars
  PROVE  Hooks!HooksNext
<1>1. MapInv /\ FreshInv
  BY DEF HooksInv, IInv, MapInv
<1>2. CASE UNCHANGED <<nextHook, fired>>
  BY <1>1, <1>2, StepKinds, ShrinkStep, AbstractShrink
<1> QED
  BY <1>1, <1>2, StepKinds, SupplyStep, InvokeStep, RenewStep

(* The subscriber implements the abstract hooks: whatever the twelve states *)
(* of the protocol do between the two threads, a hook is invoked at most    *)
(* once and never after a later one, and it is given up only for a later    *)
(* one or by a client that aborts or breaks the rules                       *)
(* (PipeSubscriber.hpp:75-460).                                             *)
THEOREM SubscriberImplementsHooks == Spec => ImplementsHooks
<1>1. Init => Hooks!HooksInit /\ ClientLabels
  <2> SUFFICES ASSUME Init PROVE Hooks!HooksInit /\ ClientLabels
    OBVIOUS
  <2>1. nextHook = 0 /\ fired = {} /\ Registered = {}
    BY DEF Init, Registered
  <2>2. aborted = FALSE /\ threw = {} /\ pc[CLIENT] = "idle"
    BY DEF Init, THREAD
  <2>3. Quit = FALSE
    BY <2>2 DEF Quit
  <2> QED
    BY <2>1, <2>2, <2>3 DEF Hooks!HooksInit, ClientLabels
<1>2. IInv /\ ClientLabels /\ [Next]_vars => ClientLabels'
  BY ClientLabelsStep DEF IInv
<1>3. IInv /\ ClientLabels => LatestInv
  BY LatestRegistered DEF HooksInv
<1>4. IInv /\ ClientLabels /\ LatestInv' /\ [Next]_vars => [Hooks!HooksNext]_(Hooks!hooksVars)
  BY HooksStep DEF HooksInv
<1> QED
  BY <1>1, <1>2, <1>3, <1>4, IInvCorrect, PTL DEF Spec, ImplementsHooks, Hooks!HooksSpec
=============================================================================
