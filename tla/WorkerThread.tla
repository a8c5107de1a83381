---------------------------- MODULE WorkerThread ----------------------------
(***************************************************************************)
(* A WorkerThread: an event loop on a thread of its own that executes the  *)
(* tasks other threads post to it, in order.                               *)
(*                                                                         *)
(* Every access to the work queue is made with queueMutex held, so a       *)
(* critical section is one step: what the mutex leaves open is the order   *)
(* of the sections, and the time a task executes, when it is released.     *)
(* The destructor's last CancelJobs holds no lock, but runs after Join.    *)
(*                                                                         *)
(* Jobs are numbered in the order they are pushed.  TASK stands for the    *)
(* code of the task being executed, which may call back into its worker.   *)
(***************************************************************************)
EXTENDS Naturals, Sequences, SequencesExt

CONSTANTS
  Clients,         \* threads that hold a reference to the worker
  Owner,           \* the one of them that destroys it
  MaxJobs,         \* bound on the jobs ever pushed
  ClientOps,       \* optional operations in use
  SpuriousWakeups  \* may condition_variable::wait return unnotified?

TASK == "TASK"
Callers == Clients \cup {TASK}

ASSUME WorkerAssumption ==
  /\ Owner \in Clients /\ TASK \notin Clients
  /\ MaxJobs \in Nat
  /\ ClientOps \subseteq {"abort", "destroy"}
  /\ SpuriousWakeups \in BOOLEAN

WORKER_STATE == {"NOT_STARTED", "RUNNING", "SLEEPING", "STOPPED", "ABORTED"}
Job == 1 .. MaxJobs

VARIABLES
  state,      \* atomic<STATE>
  workQueue,  \* the jobs not yet popped; the first may be executing
  promised,   \* the jobs pushed by DoTask
  result,     \* what each promise was set to
  worker,     \* where the worker thread is
  pc,         \* where each caller is
  awaited,    \* the job whose result each caller waits for
  nextJob,    \* history: number of jobs pushed so far
  ran         \* history: the jobs in the order their execution began

jobVars == <<promised, nextJob>>
callerVars == <<pc, awaited>>
vars == <<state, workQueue, jobVars, result, worker, callerVars, ran>>

-----------------------------------------------------------------------------
(* Mutant: the worker is not notified. *)
MutWakeSilently(newState) == state' = newState /\ UNCHANGED worker

(* Wake: the state changes at once, and a worker in the wait set is         *)
(* notified.                                                                *)
Wake(newState) ==
  /\ state' = newState
  /\ worker' = IF state = "SLEEPING" /\ worker = "asleep" THEN "woken" ELSE worker

(* Mutant: the jobs that are kept are failed as well. *)
MutCancelAll(n) ==
  /\ workQueue' = SubSeq(workQueue, 1, n)
  /\ result' = [j \in Job |-> IF j \in ToSet(workQueue) \cap promised
                              THEN "false" ELSE result[j]]

(* CancelJobs: drop the jobs after the first n and fail their promises. *)
CancelJobs(n) ==
  LET kept == SubSeq(workQueue, 1, n)
      cancelled == ToSet(workQueue) \ ToSet(kept)
  IN /\ workQueue' = kept
     /\ result' = [j \in Job |-> IF j \in cancelled \cap promised
                                 THEN "false" ELSE result[j]]

(* Mutant: the job being executed is cancelled too. *)
MutStopExecuting == CancelJobs(0) /\ Wake("STOPPED")

(* Stop: the first job may be executing and is left in the queue. *)
Stop ==
  /\ CancelJobs(IF workQueue = <<>> THEN 0 ELSE 1)
  /\ Wake("STOPPED")

(* A client between calls, or the task being executed. *)
Free(c) ==
  /\ pc[c] = "idle"
  /\ c = TASK => worker = "executing"
  /\ pc[Owner] # "destroyed"

-----------------------------------------------------------------------------
(* The calls. *)

(* Mutant: a push leaves a sleeping worker asleep. *)
MutPushWithoutWake ==
  /\ state # "ABORTED"
  /\ nextJob < MaxJobs
  /\ nextJob' = nextJob + 1
  /\ workQueue' = Append(workQueue, nextJob')
  /\ UNCHANGED <<state, worker, result, ran>>

(* PostTask and DoTask are ignored once the worker is ABORTED. *)
Push ==
  /\ state # "ABORTED"
  /\ nextJob < MaxJobs
  /\ nextJob' = nextJob + 1
  /\ workQueue' = Append(workQueue, nextJob')
  /\ IF state = "SLEEPING" THEN Wake("RUNNING") ELSE UNCHANGED <<state, worker>>
  /\ UNCHANGED <<result, ran>>

PostTask(c) ==
  /\ Free(c)
  /\ Push
  /\ UNCHANGED <<promised, callerVars>>

(* Mutant: the caller takes the future of the job after its own. *)
MutDoTaskWrongFuture(c) ==
  /\ c # TASK /\ Free(c)
  /\ Push
  /\ promised' = promised \cup {nextJob'}
  /\ awaited' = [awaited EXCEPT ![c] = nextJob' + 1]
  /\ pc' = [pc EXCEPT ![c] = "await"]

(* DoTask on the worker's own thread would wait for itself: callers must    *)
(* not, see CurrentlyOnWorkerThread.                                        *)
DoTask(c) ==
  /\ c # TASK /\ Free(c)
  /\ Push
  /\ promised' = promised \cup {nextJob'}
  /\ awaited' = [awaited EXCEPT ![c] = nextJob']
  /\ pc' = [pc EXCEPT ![c] = "await"]

DoTaskReturns(c) ==
  /\ pc[c] = "await"
  /\ result[awaited[c]] # "none"
  /\ pc' = [pc EXCEPT ![c] = "idle"]
  /\ UNCHANGED <<state, workQueue, jobVars, result, worker, awaited, ran>>

Start(c) ==
  /\ Free(c)
  /\ state = "NOT_STARTED"
  /\ state' = "RUNNING"
  /\ worker' = "ready"
  /\ UNCHANGED <<workQueue, jobVars, result, callerVars, ran>>

(* Abort takes the lock twice: others run between Stop and Wake(ABORTED). *)
Abort(c) ==
  /\ "abort" \in ClientOps
  /\ Free(c)
  /\ Stop
  /\ pc' = [pc EXCEPT ![c] = "aborting"]
  /\ UNCHANGED <<jobVars, awaited, ran>>

AbortWake(c) ==
  /\ pc[c] \in {"aborting", "destroying"}
  /\ Wake("ABORTED")
  /\ pc' = [pc EXCEPT ![c] = IF @ = "aborting" THEN "idle" ELSE "joining"]
  /\ UNCHANGED <<workQueue, jobVars, result, awaited, ran>>

(* The destructor: Abort, Join, CancelJobs.  Its owner makes sure that no   *)
(* other client calls the worker any more; some may still await a result.   *)
Destroy ==
  /\ "destroy" \in ClientOps
  /\ Free(Owner)
  /\ \A c \in Clients \ {Owner} : pc[c] \in {"idle", "await"}
  /\ Stop
  /\ pc' = [c \in Callers |-> IF c = Owner THEN "destroying"
                              ELSE IF c \in Clients /\ pc[c] = "idle" THEN "gone"
                              ELSE pc[c]]
  /\ UNCHANGED <<jobVars, awaited, ran>>

(* Mutant: the destructor does not cancel what Join left in the queue. *)
MutDestroyWithoutCancel ==
  /\ pc[Owner] = "joining"
  /\ worker \in {"none", "exited"}
  /\ pc' = [pc EXCEPT ![Owner] = "destroyed"]
  /\ UNCHANGED <<state, workQueue, result, jobVars, worker, awaited, ran>>

DestroyJoin ==
  /\ pc[Owner] = "joining"
  /\ worker \in {"none", "exited"}
  /\ CancelJobs(0)
  /\ pc' = [pc EXCEPT ![Owner] = "destroyed"]
  /\ UNCHANGED <<state, jobVars, worker, awaited, ran>>

-----------------------------------------------------------------------------
(* The worker thread. *)

(* Mutant: the queue is looked at before the state. *)
MutContinueStopped(q) ==
  IF q # <<>>
  THEN worker' = "executing" /\ ran' = Append(ran, Head(q)) /\ UNCHANGED state
  ELSE IF state = "RUNNING"
       THEN worker' = "asleep" /\ state' = "SLEEPING" /\ UNCHANGED ran
       ELSE worker' = "exited" /\ UNCHANGED <<state, ran>>

(* Run from the test of its loop to the next release of the lock, with q    *)
(* the queue: GetTask finds a task to execute, or the loop sleeps or ends.  *)
Continue(q) ==
  IF state = "RUNNING"
  THEN IF q # <<>>
       THEN worker' = "executing" /\ ran' = Append(ran, Head(q)) /\ UNCHANGED state
       ELSE worker' = "asleep" /\ state' = "SLEEPING" /\ UNCHANGED ran
  ELSE worker' = "exited" /\ UNCHANGED <<state, ran>>

Run ==
  /\ worker \in {"ready", "woken"}
  /\ Continue(workQueue)
  /\ UNCHANGED <<workQueue, jobVars, result, callerVars>>

(* The task returns: TaskDone answers and pops the job at the front. *)
TaskDone ==
  LET job == Head(workQueue) IN
  /\ worker = "executing" /\ pc[TASK] = "idle"
  /\ result' = [result EXCEPT ![job] = IF job \in promised THEN "true" ELSE @]
  /\ workQueue' = Tail(workQueue)
  /\ Continue(workQueue')
  /\ UNCHANGED <<jobVars, callerVars>>

(* The wait has no predicate. *)
SpuriousWakeup ==
  /\ SpuriousWakeups
  /\ worker = "asleep"
  /\ worker' = "woken"
  /\ UNCHANGED <<state, workQueue, jobVars, result, callerVars, ran>>

-----------------------------------------------------------------------------
Init ==
  /\ state = "NOT_STARTED" /\ workQueue = <<>> /\ worker = "none"
  /\ promised = {} /\ result = [j \in Job |-> "none"]
  /\ pc = [c \in Callers |-> "idle"] /\ awaited = [c \in Callers |-> 0]
  /\ nextJob = 0 /\ ran = <<>>

CallerSteps(c) == DoTaskReturns(c) \/ AbortWake(c)
WorkerSteps == Run \/ TaskDone

Next ==
  \/ \E c \in Callers : PostTask(c) \/ DoTask(c) \/ Start(c) \/ Abort(c) \/ CallerSteps(c)
  \/ Destroy \/ DestroyJoin
  \/ WorkerSteps \/ SpuriousWakeup

Spec == Init /\ [][Next]_vars

(* Calls in progress finish, tasks return, and the worker thread runs. *)
Fairness ==
  /\ \A c \in Callers : WF_vars(CallerSteps(c))
  /\ WF_vars(DestroyJoin)
  /\ WF_vars(WorkerSteps)

FairSpec == Spec /\ Fairness

-----------------------------------------------------------------------------
(* Every variable has its type. *)
TypeOK ==
  /\ state \in WORKER_STATE
  /\ workQueue \in Seq(Job) /\ Len(workQueue) <= MaxJobs
  /\ nextJob \in 0 .. MaxJobs
  /\ promised \subseteq 1 .. nextJob
  /\ result \in [Job -> {"none", "true", "false"}]
  /\ worker \in {"none", "ready", "executing", "asleep", "woken", "exited"}
  /\ pc \in [Callers -> {"idle", "await", "aborting", "destroying", "joining",
                         "destroyed", "gone"}]
  /\ awaited \in [Callers -> 0 .. nextJob]
  /\ ran \in Seq(Job)

(* Jobs begin in the order they were pushed, each at most once, and the job *)
(* that TaskDone will answer and pop is the one that executed, whatever was *)
(* pushed or cancelled while the lock was released (WorkerThread.cpp:38,    *)
(* 68-77, 135-142).                                                         *)
RunsInOrder ==
  /\ \A i, k \in DOMAIN ran : i < k => ran[i] < ran[k]
  /\ worker = "executing" => workQueue # <<>> /\ Head(workQueue) = Last(ran)
  /\ \A i \in DOMAIN ran, k \in DOMAIN workQueue :
       k > 1 \/ worker # "executing" => ran[i] < workQueue[k]

(* DoTask tells the truth: true only of a job that was executed, false only *)
(* of one that never will be; and a job still queued has no answer yet, so  *)
(* no promise is set twice (WorkerThread.h:37, WorkerThread.cpp:26-32).     *)
PromiseHonest ==
  /\ \A j \in promised :
       /\ result[j] = "true" => j \in ToSet(ran)
       /\ result[j] = "false" => j \notin ToSet(ran) \cup ToSet(workQueue)
  /\ \A j \in ToSet(workQueue) : result[j] = "none"

(* No lost wakeup: while the worker sleeps it has nothing to do, and whoever *)
(* pushes will see that it must be notified (WorkerThread.cpp:20, 58-61).    *)
SleepsOnlyWhenIdle ==
  /\ worker = "asleep" => state = "SLEEPING"
  /\ state = "SLEEPING" => workQueue = <<>>

(* The destructor leaves nobody waiting for a job it dropped                *)
(* (WorkerThread.cpp:44-48).                                                *)
DestructorAnswersAll ==
  pc[Owner] = "destroyed" =>
    /\ worker \in {"none", "exited"}
    /\ \A c \in Callers : pc[c] = "await" => result[awaited[c]] # "none"

(* The worker implements the abstract executor: whoever posts to it can     *)
(* forget its states, its wakeups and the two halves of Abort.              *)
Executing == worker = "executing"
Executor == INSTANCE TaskExecutor WITH
  Task <- Job,
  accepted <- IF Executing THEN Tail(workQueue) ELSE workQueue,
  current <- IF Executing THEN <<Head(workQueue)>> ELSE <<>>,
  answer <- result,
  closed <- state \in {"STOPPED", "ABORTED"}
ImplementsExecutor == Executor!ExecutorSpec

(* A job pushed to a running worker is executed, unless the worker is        *)
(* stopped, or a spurious wakeup has made it leave (WorkerThread.cpp:50-66,   *)
(* 153-160).                                                                  *)
PostedRuns ==
  \A j \in Job :
    j \in ToSet(workQueue) /\ state \in {"RUNNING", "SLEEPING"}
    ~> j \in ToSet(ran) \/ state \in {"STOPPED", "ABORTED"} \/ worker = "exited"

(* DoTask returns false if the job was aborted (WorkerThread.h:37). *)
AbortAnswers ==
  \A c \in Callers : pc[c] = "await" /\ state = "ABORTED" ~> pc[c] # "await"
=============================================================================
