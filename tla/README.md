# CPPThreadUtils: TLA+ models and proofs

CPPThreadUtils is a small C++ library for passing work and messages between
threads: an event loop (`WorkerThread`), a publisher with many subscribers
(`PipePublisher`), a lock-free single-producer single-consumer subscriber
(`PipeSubscriber`) and a publisher of an aggregated data set (`AggPipePub`).
This directory holds TLA+ models of it, the TLC instances that check them, and
TLAPS proofs about them. All paths below are relative to the repository.

## 1. The system

| Part | State | Operations | Who calls it |
|---|---|---|---|
| `PipeSubscriber` queue and notification (`include/PipeSubscriber.hpp`) | `messages` (spsc queue), atomic `notifyState` (12 states), live hook `onNotify`/`targetToNotify`, pending hook, `batching`, `aborted`, atomic `state` | `PushMessage`, `StartBatch`, `EndBatch`, `Done` / `OnNextMessage`, `GetNextMessage`, `WaitForMessage`, `Abort` | publisher thread / client thread |
| `PipeSubscriber` forwarding | `forwardMessage`, `onNewMessage`, `onNotifyMutex` | `OnNewMessage`, the forwarding branch of `PushMessage` | client / publisher |
| `PipePublisher` (`include/PipePublisher.hpp`) | `clients`, `numClients`, `subscriptionMutex`, `currentBatch` | `Publish`, `NewClient`, `StartBatch`, `EndBatch`, `Done` | one publishing thread; `NewClient` from any |
| `WorkerThread` (`src/WorkerThread.cpp`) | `workQueue`, atomic `state`, `queueMutex`, `notification`, the thread | `PostTask`, `DoTask`, `Start`, `Abort`, `Join`, destructor | any thread, tasks included |
| `WorkerThread` consumption (`include/WorkerThread.h:194-258`) | `clients`, a slice limit | `ConsumeUpdates`, `HandleUpdates` | any thread / the worker |
| `AggPipePub` (`include/AggPipePub.hpp`) | `data` under `dataMutex`, a `PipePublisher` | `Update`, `ResetMessages`, `NewClient` | publisher / any |

How they interact. `PipePublisher::Publish` calls `PushMessage` of every client
under its mutex. `PipeSubscriber` invokes a hook on whichever thread the state
machine makes responsible, or posts it to an `IPostable`; `WorkerThread` is the
one implementation of that. `HandleUpdates` runs on the worker, drains a
subscriber and registers itself again. `AggPipePub` keeps the newest message per
id and publishes the differences through a `PipePublisher`.

What is hard here, and what each part must get right:

- *PipeSubscriber.* No lock protects the hooks: the twelve states decide which
  thread may touch which one. Correct means no race on a hook, no throw into
  the publisher, each hook invoked once and in order, no registration lost, and
  no message left unread without a hook having been invoked for it.
- *WorkerThread.* The lock is released while a task executes; `Abort` is two
  critical sections; the condition variable is waited for without a predicate.
  Correct means jobs run once and in order, `DoTask`'s answer is true, and no
  job or caller is left behind.
- *Forwarding.* The flag that redirects messages is set while the publisher may
  be past its test. Correct means that messages reach the callback once and in order.
- *PipePublisher.* A client is added, aborts or is dropped while a batch or a
  publish is under way; one full queue throws out of the loop. Correct means
  that every installed client gets every message, in order.
- *Consumption.* A slice limit stops a drain before the queue is empty. Correct
  means that consumption always resumes.
- *AggPipePub.* A snapshot for a new client and the updates are taken under
  different locks. Correct means that a client's view equals the data set.

`PROJECT.json` lists every hazard at its line.

## 2. Modules

| Module | Models |
|---|---|
| `PipeSubscriber` | one subscriber: publisher and client threads as program counters |
| `PipeForward` | `OnNewMessage` against `PushMessage`: the forwarding of messages to a callback |
| `WorkerThread` | the event loop, its callers, the running task and the destructor |
| `TaskExecutor` | the abstract specification of a worker: a queue of tasks, executed in order, answered, closed |
| `WorkerConsume` | `ConsumeUpdates`: composes `PipeSubscriber` with `TaskExecutor` |
| `PipePublisher` | the publisher, its client list and lock, and the owners of its subscribers |
| `MessageBroadcast` | the abstract specification of a publisher: each message once to every member there is when it sets out |
| `OneShotHooks` | the abstract specification of a subscriber's hooks: registered, then invoked once or superseded |
| `AggPipePub` | the data set, its updates and resets, and the creation of clients |
| `PipeSubscriberProofs`, `WorkerThreadProofs`, `WorkerConsumeProofs`, `PipeForwardProofs`, `PipePublisherProofs`, `AggPipePubProofs` | theorems about them, for all values of the constants |
| `MessageBroadcastProofs`, `OneShotHooksProofs` | that `PipePublisher` and `PipeSubscriber` implement these specifications |
| `MC...` | the modules TLC runs |

Three refinements are checked and proved: `WorkerThread` of `TaskExecutor`
(`ImplementsExecutor`), `PipePublisher` of `MessageBroadcast`
(`ImplementsBroadcast`) and `PipeSubscriber` of `OneShotHooks`
(`ImplementsHooks`). `WorkerConsume` uses `TaskExecutor` in the place of
`WorkerThread`, next to the detailed `PipeSubscriber`; that it uses both as they
are specified is proved too (section 4).

### PipeSubscriber

`pc[PUBLISHER]` and `pc[CLIENT]` are the threads. Each access to shared memory is
a step; a load / `compare_exchange_strong` loop is one step, taken when the
exchange succeeds, because a failed exchange only reloads the expected value and
the switch starts again. `NotifyConfigured` also reads `messages.empty()` and so
keeps two steps, `CheckQueue` and `NotifyConfigured`.

| Code | Model |
|---|---|
| the `switch` of each resolution | `AfterPush`, `AfterPublish`, `AfterRequest`, `AfterConfigured`, `AfterPendingConfigured`, `AfterPull`; `Throw` stands for the cases that throw |
| `PushMessage`, `PushComplete`, `PublishNextMessage`, `PublishComplete` | `PushMessage`, `PushComplete`, `CallHook`, `ClearHook`, `PublishComplete` |
| `OnNextMessage` | `OnNextMessage`, `NotifyRequested`, then `SetLive` or `SetPending`, `NotifyPendingConfigured`, `ConfigurePendingNotify`, `CheckQueue`, `NotifyConfigured`, `CallHook`, `ClearHook`, `PullComplete` |
| `onNotifyFlag` | `WaitForWake` puts the client in the wait set (`asleep`), `WakeWaiter` wakes it only from there, `SpuriousWakeup` whenever allowed |
| `WaitForMessage` | `WaitForMessage`, `WaitComplete`, `WaitRecheck`, `WaitRecomplete`, `WaitUnblocked`, `WaitLast`, one per access |
| `Done`, `Abort`, `ChangeState`, `OnStateChange` | `Done`, `Abort` |
| a callback that registers its successor | `RenewInCallback` |

Abstractions. A message is its number in push order, so the queue is the
interval `popped+1 .. pushed`. A hook is the pair of callback and target,
numbered in the order of the calls; posting it counts as invoking it. `visible`
is how far the client can see the queue: a push is a release store, which on x86
may wait in the store buffer until the next read-modify-write or the unlock of
the publisher's mutex (`StoreBuffering`). `announced`, `fired`, `threw` and
`nextHook` are histories. After a throw on the client thread, `notifyState` stays
as it is and the client continues in the application, or in a callback that
caught the exception.

`OneShotHooks` has neither the states nor the threads: a hook is supplied, and
may be invoked once, never after a later one, until a later one is supplied. The
mapping counts a hook as registered when a thread will invoke it
(`WillInvoke`: it is live, pending, or being called) or is still on its way there
(`InHand`), and the client as having quit when it aborted or was thrown a
`ThreadingViolation`. Only such a client may lose its latest hook.

### WorkerThread

A critical section under `queueMutex` is one step, since everything it touches is
protected by it; what remains is the order of sections and the task that executes
between them. `Continue` is the loop of `Run` from its test to the next release
of the lock. `Abort` is two steps because it takes the lock twice. `TASK` is a
caller that exists while a task executes. Jobs are numbered as pushed, `ran` is
the order in which they began. `Destroy` assumes what C++ demands: no other
thread starts a call on an object being destroyed; threads that wait in `DoTask`
may still be there.

### PipePublisher

A call is a sequence `todo` of passes over the client list: `StartBatch` is
`<<"end", "start">>` when a batch is open, `Done` is `<<"end", "done">>`, and so on.
`Enter` takes the lock, `Examine` looks at the client under the iterator,
`RemoveClient` erases it, `Act` serves it, `Leave` ends the pass and releases
the lock unless a batch keeps it. Between `Examine` and `Act` an owner may abort or
drop its subscriber. `InstallClient` is one critical section and one step. Of a
subscriber only the queue, `batching`, `state` and what `PushComplete` was
called for (`told`) are kept; what `PushComplete` then does is in `PipeSubscriber`,
whose publisher actions are the calls made here on one client. A full queue
throws: the call ends where it is, and a batch with its lock stays open. In
`PipeSubscriber` and `WorkerConsume`, where such a push changes nothing, room in
the queue is a guard of the push.

`client.unique()` is `phase[c] = "dropped"`: only the owner and the list hold a
reference. `erase` invalidates the iterator in the letter of the standard; the model
takes what every implementation of `std::vector` does, which leaves it at the
next client.

`MessageBroadcast` has no list, lock, pass or batch: a message sets out to all
members, is given to each of them, unless it resigns or the rest is abandoned,
and nobody joins in between. A message sets out when its pass has the lock, or
in the call itself when nobody subscribes (`Posted`); it is owed to the clients at
the iterator or behind it (`InFlight`); who aborted or dropped its subscriber has
resigned (`Resigned`).

### PipeForward

`PipeSubscriber` leaves `OnNewMessage` out, and this module leaves `notifyState`
out: the two protocols share only the queue. A step is one access to
`forwardMessage`, `onNewMessage` or the queue, or one lock operation; the
assignment of the `std::function` is two steps, with the value `torn` between
them, and a callback runs between two steps, on the publisher (`in_callback`) or
on the client's drain (`drain_callback`).

As in `PipeSubscriber`, a push is a release store, which may wait in the
publisher's store buffer: `messages` is what was pushed, `visible` how much of it
the client sees, and `FlushStore` lets one store out. `PipePublisher`'s mutex
drains the buffer, so that outside a batch a push is visible before the next
call, and in a batch before its end (`Drained`); between the pushes of a batch
there is nothing that would. `forwardMessage` is sequentially consistent, and the
place of a message that was read is free at once: a delay there could only
refuse a later push.

| Code | Model |
|---|---|
| `PushMessage` (679-703) | `PushMessage`, `TestForward`, then `PushToQueue`, or `LockToForward`, `CallOnNewMessage`, `CallbackReturns` |
| `messages.push` (695) | `PushToQueue`; the client sees it after `FlushStore` |
| `OnNewMessage` (811-826) | `OnNewMessage`, `LockToInstall`, `SetForward`, `BeginAssign`, `EndAssign`, `ConsumeOne` and `ConsumeReturns` for each message, `DrainEnds` |
| `StartBatch`, `EndBatch` | the flag `batching`: `TestForward` takes no lock in a batch |

Calling an empty `std::function` throws, calling one that is being assigned is
undefined; both are recorded in `misfired` and end the call. `overlap`, `late`,
`refused` and `seen` are histories.

### WorkerConsume and TaskExecutor

`TaskExecutor` is what a caller of a `WorkerThread` may rely on: tasks are
accepted at the end of a queue, executed one at a time in order, a promise is
answered with true when the task was executed and with false when it was
dropped, and a closed executor begins nothing. Under the refinement mapping of
`WorkerThread`, the job at the front of `workQueue` is `current` while the
worker executes it, and the executor is closed in `STOPPED` and `ABORTED`.

`WorkerConsume` has the worker as the client thread of one subscriber. The
initializer and the callback are tasks that run `HandleUpdates`: at most
`MaxSlice` times `HandleUpdate`, then `PostRegistration`. The registration is a
task that runs `OnNextMessage` with the worker as its target, so that
`CallHook`, on either thread, is `PostCallback`. `PostOther` are the tasks of
everybody else. The subscriber is taken as existing: the overload of
`ConsumeUpdates` that creates it does so in the initializer, before the first
read. The worker is running and nobody stops it: what becomes of tasks on a
stopped worker is in `WorkerThread`. `waiting` and `burst` are histories.

### AggPipePub

What happens under `dataMutex` is one step (`Update`, the snapshot of
`NewClient`), and `ResetMessages`, which publishes under it, is one step per
turn of the merge (`Merge`, `Leftover`, `Replace`) and per publication. `outbox`
holds the updates that the publishing thread has computed and not published:
`Update` publishes after it released `dataMutex`, so `NewClient` and
`InstallClient` come in between.

The iterators of the merge, `existingIt` and `newIt`, are the sets of the keys
each has not passed; what an iterator points at is the least of them.

Abstractions. A message is an id and a version, and `IsAggEqual` is an
equivalence of versions coarser than identity. One `Publish` is one step, since
`PipePublisher` has its passes: it serves the clients in the order of the list
up to the first whose queue is full, which throws, and the unwinding drops the
rest (`PublishThrows`). Of a client the model keeps what the updates make of its
initial data (`copy`) and the length of its queue. A filter restricts the
initial data only: later updates reach every client, as in the code.

A filter is any set of versions, also one that tells apart versions that
`IsAggEqual` does not. A change from one of those to the other is not published
(except in `NO_DUPLICATE_CHECKING`), so a client whose filter refused the old one
never gets the new one, although it would accept it. `CopiesConverge` therefore
compares a copy with the data set up to the changes that the update mode does not
publish (`StandsFor`): an item may be absent where the filter refuses some version
that stands for the present one. In `NO_DUPLICATE_CHECKING` that is equality.

## 3. Checks

All runs set `CHECK_DEADLOCK FALSE`: the application may stop calling, the bounds
end every behaviour, and a client waiting for a message that never comes is no error.

| Run | Instance | Result |
|---|---|---|
| `ps_safety` | 4 messages, 4 hooks, up to 1 initial, capacity 2, every operation, delayed stores, spurious wakeups | about 1.06 million states; `TypeOK`, `NoHookRace`, `PublisherNeverThrows`, `InvokesFreshHook`, `LatestHookKept` and the refinement `ImplementsHooks` hold |
| `ps_progress` | 3 messages, 3 hooks, all but nested registration, SC memory, no spurious wakeups, fairness | about 125 thousand states; `NothingUnannounced`, `WaitWakes` hold |
| `forward` | 6 messages, 3 installations, capacity 2, batches, reads, an abort, delayed stores | about 238 thousand states; `GoesOneWay`, `OrderKept`, `CallbackGuarded`, `OnlyOneLeftBehind` hold |
| `worker` | 3 clients, 3 jobs, aborts, destruction, tasks that call back, spurious wakeups, fairness | about 37 thousand states; `RunsInOrder`, `PromiseHonest`, `SleepsOnlyWhenIdle`, `DestructorAnswersAll`, `PostedRuns` and the refinement `ImplementsExecutor` hold |
| `consume` | 3 messages and up to 1 initial, slices of 1, 1 task of others, 2 batches, SC memory, fairness | about 253 thousand states; `OneChain`, `WorkerNeverThrowsOrSleeps`, `OthersServed`, `AllHandled` hold |
| `publisher` | 2 subscribers, 3 messages, capacity 2, batches, aborts, drops, fairness of the publisher | about 1.33 million states; `DeliveredInOrder`, `BatchIsUniform`, `DoneReachesAll`, `ListMatchesOwners`, `CallsReturn` and the refinement `ImplementsBroadcast` hold |
| `agg` | 2 ids, 3 versions of which two are equal, 2 interchangeable clients, all update modes, without a filter and with one that separates the two equal versions, 2 calls, resets of up to 2 messages, capacity 2 | about 2.03 million states; `CopiesConverge`, `ResetIsDifference`, `RetryRepairs`, `KindIsHonest` hold |
| `ps_store_buffer` | delayed stores | `NothingUnannounced` is violated |
| `ps_lost_wakeup` | no spurious wakeups | `SleeperWakes` is violated |
| `worker_abort` | one abort against one `DoTask` | `AbortAnswers` is violated |
| `agg_lost` | one client, no filter, nothing full | `InitialisedClientIsCurrent` is violated |
| `consume_stall` | as `consume`, without other tasks | `ConsumptionResumes` is violated |

The type invariants `TypeOK` and `ConsumeTypeOK` are checked by the passing runs
of their modules, too.

Bounds. The protocol has twelve states and two threads, and one call of the
publisher can meet at most three registrations (one published, one pending, one
waiting), so four hooks and four messages let every transition follow every
other and still leave one of each to observe the result. Capacity 2 with 4
messages reaches a full queue and reuses it. For the forwarding, capacity 2 is
refilled during and after a drain, and three installations give a second one
over a live callback and a third over that. For the worker, three jobs give one
executing, one cancelled and one that arrives late; three clients give an
abort, a `DoTask` and an owner at once. For the consumption, slices of 1 make
every message a slice of its own; a registration follows the call of
`ConsumeUpdates` or an announcement, and three messages, two batches and `Done`
cannot give more than ten, so that the bound on the hooks does not stop the
worker. For the publisher, two subscribers are the
one that is removed or full and the one behind it in the list, and three messages
overfill a queue of two. For the data set, two ids reach every case of the
merge (equal keys, a smaller one on either side, a rest on either side), and the
second call follows one that threw.

Fairness. A thread that is inside a library call keeps running
(`PublisherSteps`, `ClientSteps`, `SharedSteps`, `CallerSteps`), as the operating
system guarantees; nothing forces the application to start a call. A batch is
ended, which `PipePublisher.h:61` requires. A store leaves the store buffer.
Tasks return and the worker thread is scheduled; in `WorkerConsume` the worker
executes its tasks (`TaskSteps`), which its refinement by a running
`WorkerThread` justifies. Spurious wakeups are never fair: no property relies on
one.

### Findings

1. *Store buffering* (`ps_store_buffer`, `PipeSubscriber.hpp:415`). In `DISABLED`,
   `PushComplete` only loads `notifyState`: the comment's memory fence is not
   there on the publisher's side, and a push can be missed.
2. *Lost wakeup* (`ps_lost_wakeup`, `PipeSubscriber.hpp:644`). The publisher can
   notify between the client's exchange and its wait.
3. *DoTask during Abort* (`worker_abort`, `WorkerThread.cpp:88`). A task accepted
   between the two halves of `Abort` is neither executed nor answered.
4. *A client misses an update* (`agg_lost`, `AggPipePub.hpp:21`). The snapshot is
   taken and the client installed under two locks, one after the other; what is
   published in between never reaches it.
5. *Consumption stalls* (`consume_stall`, `PipeSubscriber.hpp:430`). A slice
   leaves messages unread and registers the next hook while the publisher is
   still in the callback that announced them; the publisher then arms that hook without looking at
   the queue. `AllHandled` shows that this takes a notification that
   stands for more messages than a slice has room for.

Seen while modelling, without a run of their own:

- a pulled callback that calls `OnNextMessage` always gets a
  `ThreadingViolation`, because `NotifyPendingConfigured` throws in
  `RECONFIGURE_REQUIRED` (`PipeSubscriber.hpp:533`) although `PullComplete` has a
  case for it (580-584);
- a spurious wakeup of `WaitForWake`, and a second push before the woken client
  looks, throw on the client thread (325-329, 336-337);
- `WaitForMessage` may return false with a message in the queue when `Done` comes
  between its second look and `Complete` (764);
- `ABORTED` is never assigned, so `WaitForMessage` after `Abort` blocks for ever;
- a spurious wakeup ends the worker's loop, because nothing restores `RUNNING`
  (`WorkerThread.cpp:156`); `PostedRuns` excepts it;
- a full queue throws out of `Publish` before the clients behind it in the list
  are served (`PipePublisher.hpp:87`); `DeliveredInOrder` excepts such messages;
- once `OnNewMessage` has returned, messages may stay in the queue, against
  `PipeSubscriber.h:193-195`: those whose push had tested the flag before it was
  set and reached the client after it. Without a batch that overlaps the call
  that is at most one; in a batch the stores of several pushes may be delayed
  past the drain, as many as the queue takes. `OnlyOneLeftBehind` says so;
- in a batch that overlaps `OnNewMessage` the callback is called without the lock
  (`PipeSubscriber.hpp:686`: 'Already locked...'), by both threads at once or
  while it is being assigned; `CallbackGuarded` excepts such a batch;
- a client may lack an item its filter accepts (`AggPipePub.h:122`), when the
  filter refused an equal one that this item then replaced without publication.

The safety properties are checked and proved with all of these in the models.

## 4. Proofs

The theorems hold for every value of the constants that satisfies the named
assumptions of the modules: bounds are naturals, options are in range, the
initial data fits the queue, a slice is not empty, the owner of a worker is one
of its clients, the ids and versions of a data set are naturals and the data sets
it starts with finite, one of the filters accepts everything.

| Module | Theorem | Statement |
|---|---|---|
| `PipeSubscriberProofs` | `TypeCorrect` | `Spec => []TypeOK` |
| | `HookRaceFreedom` | `Spec => []NoHookRace` |
| | `PublisherSafety` | `Spec => []PublisherNeverThrows` |
| | `HookFreshness` | `Spec => []InvokesFreshHook` |
| | `RegistrationKept` | `Spec => []LatestHookKept` |
| | `AnnouncedOnSC` | with `StoreBuffering = FALSE`, `Spec => []NothingUnannounced` |
| `WorkerThreadProofs` | `TypeCorrect` | `Spec => []TypeOK` |
| | `ExecutionInOrder` | `Spec => []RunsInOrder` |
| | `AnswersHonest` | `Spec => []PromiseHonest` |
| | `NoLostWakeup` | `Spec => []SleepsOnlyWhenIdle` |
| | `DestructorLeavesNobody` | `Spec => []DestructorAnswersAll` |
| | `WorkerImplementsExecutor` | `Spec => ImplementsExecutor` (refinement of `TaskExecutor`) |
| `WorkerConsumeProofs` | `ConsumingIsSubscribing` | `ConsumeSpec => Spec` of `PipeSubscriber` |
| | `ConsumingIsExecuting` | `ConsumeSpec => Worker!ExecutorSpec` |
| | `ConsumeTypeCorrect` | `ConsumeSpec => []ConsumeTypeOK` |
| | `ChainKept` | `ConsumeSpec => []OneChain` |
| | `WorkerStaysResponsive` | `ConsumeSpec => []WorkerNeverThrowsOrSleeps` |
| | `OthersAreServed` | `ConsumeSpec => []OthersServed` |
| `PipeForwardProofs` | `TypeCorrect` | `Spec => []TypeOK` |
| | `ForwardedOnce` | `Spec => []GoesOneWay` |
| | `ForwardedInOrder` | `Spec => []OrderKept` |
| | `CallbackIsGuarded` | `Spec => []CallbackGuarded` |
| | `AtMostOneStranded` | `Spec => []OnlyOneLeftBehind` |
| `PipePublisherProofs` | `TypeCorrect` | `Spec => []TypeOK` |
| | `ListCorrect` | `Spec => []ListMatchesOwners` |
| | `BatchCorrect` | `Spec => []BatchIsUniform` |
| | `DoneCorrect` | `Spec => []DoneReachesAll` |
| | `DeliveryCorrect` | `Spec => []DeliveredInOrder` |
| `MessageBroadcastProofs` | `PublisherImplementsBroadcast` | `Spec => ImplementsBroadcast` (refinement of `MessageBroadcast`) |
| `OneShotHooksProofs` | `SubscriberImplementsHooks` | `Spec => ImplementsHooks` (refinement of `OneShotHooks`) |
| `AggPipePubProofs` | `TypeCorrect` | `Spec => []TypeOK` |
| | `CopiesCorrect` | `Spec => []CopiesConverge` |
| | `ResetCorrect` | `Spec => []ResetIsDifference` |
| | `RetryCorrect` | `Spec => []RetryRepairs` |
| | `KindsCorrect` | `Spec => KindIsHonest` (an action property) |

None of the properties after a type invariant is inductive. Each module has one
layered invariant, every layer preserved by each action under the lower ones,
in a lemma with one step per action.

*PipeSubscriberProofs.* The invariant `IInv` has three layers above the types.

- `PhaseInv` is the protocol as the code's authors must have had it in mind:
  `notifyState` is in a publishing state exactly while the publisher invokes a
  hook, in an adopting state exactly while it adopts the pending one, and each
  step of the client is possible only in the states listed for it. Race freedom
  and the publisher's safety follow from it: the throwing cases are the states a
  phase excludes.
- `FreshInv` says who holds a hook that is newer than everything invoked:
  the live one when the notification is primed, the pending one when the
  publisher will adopt it, the argument while the client is still configuring.
- `KeptInv` follows the client's latest hook through its hand-overs, for a client
  that did not abort and did not get an exception.

`AnnouncedOnSC` adds `AnnouncedInv`, whose key part is that between
`CheckQueue` and its exchange an empty answer is still right unless the
publisher has a resolution to make: the comment's argument at
`PipeSubscriber.hpp:403-413`, which holds on an SC memory only.

*WorkerThreadProofs.* `WakeInv` ties the worker's state to what its thread does,
`OrderInv` orders the queue against what has run, `AnswerInv` ties the promises to
both, and `AwaitInv` says that whoever waits in `DoTask` has a job that is queued
or answered. The refinement needs in addition that a closed worker stays closed
while its owner joins (`ClosedInv`); each step of the worker maps to a step of the
executor or to a stutter (`ExecutorStep`), a cancellation to `Close`.

*WorkerConsumeProofs.* Because the composition's behaviours are behaviours of
`PipeSubscriber`, its inductive invariant is available; three layers are added.
`ChainInv` says that consumption goes on in exactly one way (a queued task, the
running one, or the latest hook, which is the only one not yet invoked). With
it, a registration never meets a pending one, and `CalmInv` follows: the worker
is never in the states that wait or throw. `SliceInv` bounds what is read while
a task of others waits.

*PipeForwardProofs.* `MutexInv` says who holds `onNotifyMutex` where, and that a
publisher inside its callback without it is in a batch; with `CallbackInv` it
gives `CallbackIsGuarded`. `DelayInv` says when a push can still wait in the
store buffer: outside a batch one at most, and none when the next call begins; in a batch that
overlaps no installation none once the flag is set. From it `LateInv` allows one
late message per subscriber unless a batch overlaps an installation, because the
flag is never reset, and `LeftInv` says that after a drain the client sees none but
late messages in the queue. `OrderInv` adds that nothing in the queue was overtaken
without an excuse. `PlaceInv` says that queue, what was seen, what was lost and
what is in hand divide the messages among them, each in one place; counting them
comes last, from the library's facts on the cardinality of singletons.

*PipePublisherProofs.* `CallInv` says which passes a call can have left under
which batch, and with it who may hold the lock; `ListInv` ties the list to its
owners. The heart is `Ahead(c)`: the pass has not served `c` yet, either because
it has not begun or because `c` stands at the iterator or behind it. Five lemmas
say what each step does to it; `AheadRemove` is the one that `erase` has to get
right. Each promise of a call then has an invariant for its middle: `BatchInv`
for the flags, `DoneInv` for the clients still to be finished, `OrderInv` and
`OwedInv` for the message in hand.

*MessageBroadcastProofs.* On top of the invariant above it needs `FreshInv`: a
subscriber that was never installed is still consuming, so that it can join. Five
of the abstract steps are matched by one step each of the publisher (`AbstractJoin`
to `AbstractGive`); giving the message and moving the iterator on are one step,
which is why `InFlight` loses exactly the client that was served, and an `erase`
loses exactly the client that has resigned. The full queue
that throws out of the pass maps to `Abandon`.

*OneShotHooksProofs.* One lemma carries most steps: a step that supplies and
invokes nothing can only shrink the registered hooks (`ShrinkStep`). That it does
not lose the latest one is then not a fact about the step but about the state
after it, where `KeptInv` holds again (`LatestRegistered`). The steps that supply
(`SupplyStep`), invoke (`InvokeStep`) or invoke with a successor registered from
inside the callback (`RenewStep`) follow, and `PulledAlone` says that
while the client invokes a hook no other is registered.

*AggPipePubProofs.* The first lemmas are about ordered maps as functions: what
`Put`, `Erase` and an update do to them, and what `Difference` contains for one
id. Nothing is assumed of a filter; that an equal item stands for one refused is
carried by `StandsFor` being an equivalence (`LikeSame`). Two layers say where the publishing thread is: `OutboxInv`, the updates that
wait are of one id and the last of them settles it; `MergeInv`, the merge passes
the ids in order and has published exactly the difference of those it passed,
from which `ResetCorrect` follows. `CopyInv` compares each copy with the map that
the id is taken from at that moment, the new messages for what the merge has
passed and the old data for the rest; excepted are the ids a client missed between
its snapshot and its installation, those a thrown call left half-published
(`dirty`), and the one in the outbox. When nothing is under way that is
`CopiesConverge`. `RetryInv` says that a half-published id still differs from the
messages of the failed call, so that the same call again publishes it;
`HonestInv` carries the kind of the next update from the moment it is computed
to the moment it is published.

Only model-checked: the liveness properties (`WaitWakes`, `PostedRuns`,
`AllHandled`, `CallsReturn`), which are out of the prover's reach, as are ENABLED,
induction over data and recursive operators. Every other property of the passing
runs is the statement of a theorem. The findings are counterexamples and stay
with TLC.

## 5. Not modelled, and what could follow

What could follow: an abstract replicated map that `AggPipePub` refines (its
clients converge to the data set but for what they missed); the promises of
`OneShotHooks` and `MessageBroadcast` restated for the compositions
(`WorkerConsume`, whose behaviours are behaviours of `PipeSubscriber`, has the former
already); the notification and the client list in one model, which the
subscriber destroyed during a batch would need.

Left out for good: the adapter of `AggPipePub_MessageAdaption.h` beyond which
messages are equal (template selection at compile time), the stream operator of
`AggUpdate`, the benchmark `publisherSpeed.cpp`, the empty `dummy.cpp`, the build
files and the diagram in `docs/`. `DoTask` called on the worker's own thread is a
contract of the caller and a guard of the model. That `CurrentlyOnWorkerThread`
reads `worker.get_id()` while `Start` assigns `worker` is a race on a `std::thread`
below the granularity of the module. A subscriber destroyed by its owner during
a batch runs `PushComplete`, and with it the hook, on the owner's thread:
`PipePublisher` has the call but not the hook, `PipeSubscriber` the hook but not
that third thread.
