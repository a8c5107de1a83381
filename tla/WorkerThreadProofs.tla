-------------------------- MODULE WorkerThreadProofs --------------------------
(* Proofs about WorkerThread, for any number of clients and jobs: jobs begin *)
(* in order and once, promises are answered truthfully and once, the worker  *)
(* sleeps only when it has nothing to do, the destructor leaves nobody       *)
(* waiting, and the worker implements the abstract executor.                 *)
(*                                                                           *)
(* The inductive invariant is layered: TypeInv, WakeInv (state against the   *)
(* worker thread), OrderInv (the queue against what has run), AnswerInv (the *)
(* promises against both) and AwaitInv (the callers against the promises).   *)
EXTENDS WorkerThread, TLAPS

-----------------------------------------------------------------------------
TypeInv == TypeOK /\ Len(workQueue) <= nextJob

WakeInv == SleepsOnlyWhenIdle /\ (state = "NOT_STARTED" => worker = "none")

(* The queue is in the order of the pushes, and nothing is from the future. *)
QueueOrdered ==
  /\ \A i, k \in DOMAIN workQueue : i < k => workQueue[i] < workQueue[k]
  /\ \A k \in DOMAIN workQueue : workQueue[k] <= nextJob
  /\ \A i \in DOMAIN ran : ran[i] <= nextJob
  /\ worker = "executing" => ran # <<>>
OrderInv == QueueOrdered /\ RunsInOrder

AnswerInv == PromiseHonest /\ \A j \in Job : j > nextJob => result[j] = "none"

(* Whoever waits has a promise, that is answered or whose job is queued. *)
AwaitInv ==
  /\ \A c \in Callers :
       pc[c] = "await" =>
         /\ awaited[c] \in promised
         /\ result[awaited[c]] = "none" => awaited[c] \in ToSet(workQueue)
  /\ pc[Owner] = "destroyed" => worker \in {"none", "exited"} /\ workQueue = <<>>

IInv == TypeInv /\ WakeInv /\ OrderInv /\ AnswerInv /\ AwaitInv

-----------------------------------------------------------------------------
(* The steps of Next as one list, so that the proofs below can split on it. *)
LEMMA NextCases ==
  ASSUME Next
  PROVE  \/ \E c \in Callers :
              \/ PostTask(c)
              \/ DoTask(c)
              \/ DoTaskReturns(c)
              \/ Start(c)
              \/ Abort(c)
              \/ AbortWake(c)
         \/ Destroy
         \/ DestroyJoin
         \/ Run
         \/ TaskDone
         \/ SpuriousWakeup
BY DEF Next, CallerSteps, WorkerSteps

(* What Push does to the queue. *)
LEMMA PushFacts ==
  ASSUME TypeInv, Push
  PROVE  /\ nextJob' = nextJob + 1 /\ nextJob' \in Job
         /\ workQueue' \in Seq(Job) /\ Len(workQueue') = Len(workQueue) + 1
         /\ \A k \in 1 .. Len(workQueue) : workQueue'[k] = workQueue[k]
         /\ workQueue'[Len(workQueue) + 1] = nextJob'
         /\ UNCHANGED <<result, ran>>
         /\ state' \in WORKER_STATE
BY WorkerAssumption DEF TypeInv, TypeOK, Push, Wake, Job, WORKER_STATE

(* What CancelJobs(n) keeps, and whom it answers. *)
LEMMA CancelFacts ==
  ASSUME TypeInv, NEW n \in 0 .. Len(workQueue), CancelJobs(n)
  PROVE  /\ workQueue' \in Seq(Job) /\ Len(workQueue') = n
         /\ \A k \in 1 .. n : workQueue'[k] = workQueue[k]
         /\ result' \in [Job -> {"none", "true", "false"}]
         /\ \A j \in Job :
              IF j \in promised \cap (ToSet(workQueue) \ ToSet(workQueue'))
              THEN result'[j] = "false" ELSE result'[j] = result[j]
<1>1. workQueue \in Seq(Job) /\ result \in [Job -> {"none", "true", "false"}]
  BY DEF TypeInv, TypeOK
<1>2. workQueue' = SubSeq(workQueue, 1, n)
  BY DEF CancelJobs
<1>3. /\ workQueue' \in Seq(Job) /\ Len(workQueue') = n
      /\ \A k \in 1 .. n : workQueue'[k] = workQueue[k]
  BY <1>1, <1>2
<1>4. result' = [j \in Job |-> IF j \in (ToSet(workQueue) \ ToSet(workQueue')) \cap promised
                               THEN "false" ELSE result[j]]
  BY <1>2 DEF CancelJobs
<1> QED
  BY <1>1, <1>3, <1>4

(* Stop keeps the first job only. *)
LEMMA StopFacts ==
  ASSUME TypeInv, Stop
  PROVE  \E n \in 0 .. Len(workQueue) :
           /\ CancelJobs(n)
           /\ n = IF workQueue = <<>> THEN 0 ELSE 1
           /\ n <= Len(workQueue)
           /\ Wake("STOPPED")
BY DEF TypeInv, TypeOK, Stop

(* Where the worker thread goes on. *)
LEMMA ContinueFacts ==
  ASSUME TypeInv, NEW q \in Seq(Job), Continue(q)
  PROVE  /\ state' \in WORKER_STATE
         /\ worker' \in {"executing", "asleep", "exited"}
         /\ worker' = "executing" =>
              q # <<>> /\ state' = state /\ state = "RUNNING" /\ ran' = Append(ran, Head(q))
         /\ worker' # "executing" => ran' = ran
         /\ worker' = "asleep" => q = <<>> /\ state' = "SLEEPING"
         /\ worker' = "exited" => state' = state /\ state # "RUNNING"
         /\ ran' \in Seq(Job)
<1>1. state \in WORKER_STATE /\ ran \in Seq(Job)
  BY DEF TypeInv, TypeOK
<1>2. CASE state = "RUNNING" /\ q # <<>>
  <2>1. Head(q) \in Job
    BY <1>2
  <2> QED
    BY <1>1, <1>2, <2>1, SMTT(30) DEF Continue, WORKER_STATE
<1>3. CASE ~(state = "RUNNING" /\ q # <<>>)
  BY <1>1, <1>3 DEF Continue, WORKER_STATE
<1> QED
  BY <1>2, <1>3

-----------------------------------------------------------------------------
(* Types, in three parts: each action disturbs some of them. *)
Label == {"idle", "await", "aborting", "destroying", "joining", "destroyed", "gone"}
Place == {"none", "ready", "executing", "asleep", "woken", "exited"}

QueueTypes ==
  /\ workQueue \in Seq(Job) /\ Len(workQueue) <= nextJob /\ nextJob \in 0 .. MaxJobs
  /\ result \in [Job -> {"none", "true", "false"}]
  /\ ran \in Seq(Job)
CallerTypes ==
  /\ promised \subseteq 1 .. nextJob
  /\ pc \in [Callers -> Label] /\ awaited \in [Callers -> 0 .. nextJob]
WorkerTypes == state \in WORKER_STATE /\ worker \in Place

LEMMA TypeParts ==
  /\ TypeInv <=> QueueTypes /\ CallerTypes /\ WorkerTypes
  /\ TypeInv' <=> (QueueTypes /\ CallerTypes /\ WorkerTypes)'
BY WorkerAssumption DEF TypeInv, TypeOK, QueueTypes, CallerTypes, WorkerTypes, Label, Place

LEMMA StopTypes ==
  ASSUME TypeInv, Stop, UNCHANGED <<jobVars, awaited, ran>>, pc' \in [Callers -> Label]
  PROVE  TypeInv'
<1>1. PICK n \in 0 .. Len(workQueue) : CancelJobs(n) /\ Wake("STOPPED")
  BY StopFacts
<1>2. /\ workQueue' \in Seq(Job) /\ Len(workQueue') = n
      /\ result' \in [Job -> {"none", "true", "false"}]
  BY <1>1, CancelFacts
<1>3. QueueTypes'
  BY <1>2, TypeParts DEF QueueTypes, jobVars
<1>4. CallerTypes'
  BY TypeParts DEF CallerTypes, jobVars
<1>5. WorkerTypes'
  BY <1>1, TypeParts DEF WorkerTypes, Wake, Place, WORKER_STATE
<1> QED
  BY <1>3, <1>4, <1>5, TypeParts

LEMMA TypeStep ==
  ASSUME TypeInv, RunsInOrder, [Next]_vars
  PROVE  TypeInv'
<1>0. QueueTypes /\ CallerTypes /\ WorkerTypes
  BY TypeParts
<1>1. ASSUME Push PROVE QueueTypes' /\ WorkerTypes'
  <2>1. /\ nextJob' = nextJob + 1 /\ nextJob' \in Job
        /\ workQueue' \in Seq(Job) /\ Len(workQueue') = Len(workQueue) + 1
        /\ UNCHANGED <<result, ran>> /\ state' \in WORKER_STATE
    BY <1>1, PushFacts
  <2>2. worker' \in Place
    BY <1>0, <1>1 DEF Push, Wake, WorkerTypes, Place
  <2> QED
    BY <1>0, <2>1, <2>2, WorkerAssumption DEF QueueTypes, WorkerTypes, Job
<1>2. ASSUME NEW c \in Callers, PostTask(c) PROVE TypeInv'
  <2>1. Push /\ UNCHANGED <<promised, callerVars>>
    BY <1>2 DEF PostTask
  <2>2. nextJob' = nextJob + 1
    BY <2>1, PushFacts
  <2>3. CallerTypes'
    BY <1>0, <2>1, <2>2 DEF CallerTypes, QueueTypes, callerVars
  <2> QED
    BY <1>1, <2>1, <2>3, TypeParts
<1>3. ASSUME NEW c \in Callers, DoTask(c) PROVE TypeInv'
  <2>1. /\ Push
        /\ promised' = promised \cup {nextJob'}
        /\ awaited' = [awaited EXCEPT ![c] = nextJob']
        /\ pc' = [pc EXCEPT ![c] = "await"]
    BY <1>3 DEF DoTask
  <2>2. nextJob' = nextJob + 1 /\ nextJob \in Nat
    BY <1>0, <2>1, PushFacts DEF QueueTypes
  <2>3. pc' \in [Callers -> Label]
    BY <1>0, <2>1 DEF CallerTypes, Label
  <2>4. promised' \subseteq 1 .. nextJob' /\ awaited' \in [Callers -> 0 .. nextJob']
    BY <1>0, <2>1, <2>2 DEF CallerTypes
  <2> QED
    BY <1>1, <2>1, <2>3, <2>4, TypeParts DEF CallerTypes
<1>4. ASSUME NEW c \in Callers, DoTaskReturns(c) PROVE TypeInv'
  <2>1. pc' \in [Callers -> Label]
    BY <1>0, <1>4 DEF DoTaskReturns, CallerTypes, Label
  <2> QED
    BY <1>0, <1>4, <2>1, TypeParts
    DEF DoTaskReturns, jobVars, QueueTypes, CallerTypes, WorkerTypes
<1>5. ASSUME NEW c \in Callers, Start(c) PROVE TypeInv'
  BY <1>0, <1>5, TypeParts
  DEF Start, jobVars, callerVars, QueueTypes, CallerTypes, WorkerTypes, Place, WORKER_STATE
<1>6. ASSUME NEW c \in Callers, Abort(c) PROVE TypeInv'
  <2>1. pc' \in [Callers -> Label]
    BY <1>0, <1>6 DEF Abort, CallerTypes, Label
  <2> QED
    BY <1>6, <2>1, StopTypes DEF Abort
<1>7. ASSUME NEW c \in Callers, AbortWake(c) PROVE TypeInv'
  <2>1. pc' \in [Callers -> Label]
    BY <1>0, <1>7 DEF AbortWake, CallerTypes, Label
  <2>2. WorkerTypes'
    BY <1>0, <1>7 DEF AbortWake, Wake, WorkerTypes, Place, WORKER_STATE
  <2> QED
    BY <1>0, <1>7, <2>1, <2>2, TypeParts DEF AbortWake, jobVars, QueueTypes, CallerTypes
<1>8. CASE Destroy
  <2>1. pc' \in [Callers -> Label]
    BY <1>0, <1>8 DEF Destroy, CallerTypes, Label
  <2> QED
    BY <1>8, <2>1, StopTypes DEF Destroy
<1>9. CASE DestroyJoin
  <2>1. CancelJobs(0) /\ 0 \in 0 .. Len(workQueue)
    BY <1>0, <1>9 DEF DestroyJoin, QueueTypes
  <2>2. /\ workQueue' \in Seq(Job) /\ Len(workQueue') = 0
        /\ result' \in [Job -> {"none", "true", "false"}]
    BY <2>1, CancelFacts
  <2>3. pc' \in [Callers -> Label]
    BY <1>0, <1>9 DEF DestroyJoin, CallerTypes, Label
  <2> QED
    BY <1>0, <1>9, <2>2, <2>3, TypeParts
    DEF DestroyJoin, jobVars, QueueTypes, CallerTypes, WorkerTypes
<1>10. CASE Run
  <2>1. Continue(workQueue) /\ workQueue \in Seq(Job)
    BY <1>0, <1>10 DEF Run, QueueTypes
  <2>2. state' \in WORKER_STATE /\ worker' \in Place /\ ran' \in Seq(Job)
    BY <2>1, ContinueFacts DEF Place
  <2> QED
    BY <1>0, <1>10, <2>2, TypeParts
    DEF Run, jobVars, callerVars, QueueTypes, CallerTypes, WorkerTypes
<1>11. CASE TaskDone
  <2>1. workQueue # <<>>
    BY <1>11 DEF TaskDone, RunsInOrder
  <2>2. /\ workQueue' \in Seq(Job) /\ Len(workQueue') <= Len(workQueue)
        /\ result' \in [Job -> {"none", "true", "false"}]
        /\ Continue(workQueue')
    BY <1>0, <1>11, <2>1 DEF TaskDone, QueueTypes
  <2>3. state' \in WORKER_STATE /\ worker' \in Place /\ ran' \in Seq(Job)
    BY <2>2, ContinueFacts DEF Place
  <2> QED
    BY <1>0, <1>11, <2>2, <2>3, TypeParts
    DEF TaskDone, jobVars, callerVars, QueueTypes, CallerTypes, WorkerTypes
<1>12. CASE SpuriousWakeup
  BY <1>0, <1>12, TypeParts
  DEF SpuriousWakeup, jobVars, callerVars, QueueTypes, CallerTypes, WorkerTypes, Place
<1>13. CASE UNCHANGED vars
  BY <1>0, <1>13, TypeParts
  DEF vars, jobVars, callerVars, QueueTypes, CallerTypes, WorkerTypes
<1> QED
  BY NextCases, <1>2, <1>3, <1>4, <1>5, <1>6, <1>7, <1>8, <1>9, <1>10, <1>11, <1>12, <1>13

-----------------------------------------------------------------------------
(* The state against the worker thread. *)
LEMMA WakeStep ==
  ASSUME TypeInv, RunsInOrder, WakeInv, [Next]_vars
  PROVE  WakeInv'
<1>0. QueueTypes /\ CallerTypes /\ WorkerTypes
  BY TypeParts
<1>1. ASSUME Push PROVE WakeInv'
  BY <1>0, <1>1 DEF Push, Wake, WakeInv, SleepsOnlyWhenIdle, WorkerTypes, WORKER_STATE
<1>2. ASSUME NEW s \in {"STOPPED", "ABORTED"}, Wake(s) PROVE WakeInv'
  BY <1>2 DEF Wake, WakeInv, SleepsOnlyWhenIdle
<1>3. ASSUME NEW q \in Seq(Job), Continue(q), workQueue' = q, worker # "none",
             state = "SLEEPING" => q = <<>>
      PROVE  WakeInv'
  <2>1. worker' \in {"executing", "asleep", "exited"} /\ state # "NOT_STARTED"
    BY <1>3, ContinueFacts DEF WakeInv
  <2>2. CASE worker' = "executing"
    BY <1>3, <2>1, <2>2, ContinueFacts DEF WakeInv, SleepsOnlyWhenIdle
  <2>3. CASE worker' = "asleep"
    BY <1>3, <2>1, <2>3, ContinueFacts DEF WakeInv, SleepsOnlyWhenIdle
  <2>4. CASE worker' = "exited"
    BY <1>3, <2>1, <2>4, ContinueFacts DEF WakeInv, SleepsOnlyWhenIdle
  <2> QED
    BY <2>1, <2>2, <2>3, <2>4
<1>4. ASSUME NEW c \in Callers, PostTask(c) PROVE WakeInv'
  BY <1>1, <1>4 DEF PostTask
<1>5. ASSUME NEW c \in Callers, DoTask(c) PROVE WakeInv'
  BY <1>1, <1>5 DEF DoTask
<1>6. ASSUME NEW c \in Callers, DoTaskReturns(c) PROVE WakeInv'
  BY <1>6 DEF DoTaskReturns, WakeInv, SleepsOnlyWhenIdle
<1>7. ASSUME NEW c \in Callers, Start(c) PROVE WakeInv'
  BY <1>7 DEF Start, WakeInv, SleepsOnlyWhenIdle
<1>8. ASSUME NEW c \in Callers, Abort(c) PROVE WakeInv'
  BY <1>2, <1>8 DEF Abort, Stop
<1>9. ASSUME NEW c \in Callers, AbortWake(c) PROVE WakeInv'
  BY <1>2, <1>9 DEF AbortWake
<1>10. CASE Destroy
  BY <1>2, <1>10 DEF Destroy, Stop
<1>11. CASE DestroyJoin
  <2>1. CancelJobs(0) /\ 0 \in 0 .. Len(workQueue)
    BY <1>0, <1>11 DEF DestroyJoin, QueueTypes
  <2>2. workQueue' = <<>>
    BY <2>1, CancelFacts
  <2> QED
    BY <1>11, <2>2 DEF DestroyJoin, WakeInv, SleepsOnlyWhenIdle
<1>12. CASE Run
  BY <1>0, <1>3, <1>12 DEF Run, QueueTypes, WakeInv, SleepsOnlyWhenIdle
<1>13. CASE TaskDone
  <2>1. workQueue # <<>>
    BY <1>13 DEF TaskDone, RunsInOrder
  <2>2. workQueue' \in Seq(Job) /\ Continue(workQueue') /\ worker # "none" /\ state # "SLEEPING"
    BY <1>0, <1>13, <2>1 DEF TaskDone, QueueTypes, WakeInv, SleepsOnlyWhenIdle
  <2> QED
    BY <1>3, <2>2
<1>14. CASE SpuriousWakeup
  BY <1>14 DEF SpuriousWakeup, WakeInv, SleepsOnlyWhenIdle
<1>15. CASE UNCHANGED vars
  BY <1>15 DEF vars, WakeInv, SleepsOnlyWhenIdle
<1> QED
  BY NextCases, <1>4, <1>5, <1>6, <1>7, <1>8, <1>9, <1>10, <1>11, <1>12, <1>13, <1>14, <1>15

-----------------------------------------------------------------------------
(* The queue against what has run. *)
LEMMA OrderContinues ==
  ASSUME TypeInv, OrderInv, NEW q \in Seq(Job), Continue(q), workQueue' = q,
         nextJob' = nextJob,
         \A i, k \in DOMAIN q : i < k => q[i] < q[k],
         \A k \in DOMAIN q : q[k] <= nextJob,
         \A i \in DOMAIN ran, k \in DOMAIN q : ran[i] < q[k]
  PROVE  OrderInv'
<1>1. ran \in Seq(Job) /\ nextJob \in Nat
  BY DEF TypeInv, TypeOK
<1>2. CASE worker' = "executing"
  <2>1. q # <<>> /\ ran' = Append(ran, Head(q))
    BY <1>2, ContinueFacts
  <2>2. /\ Len(ran') = Len(ran) + 1 /\ ran' \in Seq(Job)
        /\ \A i \in 1 .. Len(ran) : ran'[i] = ran[i]
        /\ ran'[Len(ran) + 1] = q[1]
        /\ 1 \in DOMAIN q /\ Head(q) = q[1] /\ ran' # <<>>
    BY <1>1, <2>1
  <2>3. \A i, k \in DOMAIN ran' : i < k => ran'[i] < ran'[k]
    BY <1>1, <2>2 DEF OrderInv, RunsInOrder
  <2>4. \A i \in DOMAIN ran', k \in DOMAIN q : k > 1 => ran'[i] < q[k]
    BY <1>1, <2>2
  <2>5. \A i \in DOMAIN ran' : ran'[i] <= nextJob
    BY <1>1, <2>2 DEF OrderInv, QueueOrdered
  <2> QED
    BY <1>2, <2>2, <2>3, <2>4, <2>5 DEF OrderInv, QueueOrdered, RunsInOrder, Last
<1>3. CASE worker' # "executing"
  <2>1. ran' = ran
    BY <1>3, ContinueFacts
  <2> QED
    BY <1>3, <2>1 DEF OrderInv, QueueOrdered, RunsInOrder
<1> QED
  BY <1>2, <1>3

LEMMA OrderStops ==
  ASSUME TypeInv, OrderInv, Stop, UNCHANGED <<nextJob, ran>>
  PROVE  OrderInv'
<1>1. PICK n \in 0 .. Len(workQueue) :
        /\ CancelJobs(n) /\ n = (IF workQueue = <<>> THEN 0 ELSE 1) /\ Wake("STOPPED")
  BY StopFacts
<1>2. /\ workQueue' \in Seq(Job) /\ Len(workQueue') = n
      /\ \A k \in 1 .. n : workQueue'[k] = workQueue[k]
  BY <1>1, CancelFacts
<1>3. worker' = "executing" <=> worker = "executing"
  BY <1>1 DEF Wake
<1>4. workQueue \in Seq(Job) /\ ran \in Seq(Job)
  BY DEF TypeInv, TypeOK
<1>5. DOMAIN workQueue' \subseteq DOMAIN workQueue
  BY <1>2, <1>4
<1>6. QueueOrdered'
  BY <1>2, <1>3, <1>4, <1>5 DEF OrderInv, QueueOrdered
<1>7. worker = "executing" => workQueue' # <<>> /\ Head(workQueue') = Head(workQueue)
  <2>1. ASSUME worker = "executing" PROVE n = 1
    BY <1>1, <2>1 DEF OrderInv, RunsInOrder
  <2>2. ASSUME n = 1 PROVE workQueue' # <<>> /\ workQueue'[1] = workQueue[1]
    <3>1. Len(workQueue') = 1 /\ 1 \in 1 .. n
      BY <1>2, <2>2
    <3>2. workQueue'[1] = workQueue[1]
      BY <1>2, <3>1
    <3> QED
      BY <3>1, <3>2, SMTT(30)
  <2> QED
    BY <1>2, <1>4, <2>1, <2>2
<1>8. RunsInOrder'
  BY <1>2, <1>3, <1>4, <1>5, <1>7 DEF OrderInv, RunsInOrder, Last
<1> QED
  BY <1>6, <1>8 DEF OrderInv

LEMMA OrderStep ==
  ASSUME TypeInv, WakeInv, OrderInv, [Next]_vars
  PROVE  OrderInv'
<1>0. workQueue \in Seq(Job) /\ ran \in Seq(Job) /\ nextJob \in Nat
  BY DEF TypeInv, TypeOK
<1>1. ASSUME Push PROVE OrderInv'
  <2>1. /\ nextJob' = nextJob + 1
        /\ workQueue' \in Seq(Job) /\ Len(workQueue') = Len(workQueue) + 1
        /\ \A k \in 1 .. Len(workQueue) : workQueue'[k] = workQueue[k]
        /\ workQueue'[Len(workQueue) + 1] = nextJob + 1
        /\ ran' = ran
    BY <1>1, PushFacts
  <2>2. worker' = "executing" <=> worker = "executing"
    BY <1>1 DEF Push, Wake
  <2>2a. /\ DOMAIN workQueue = 1 .. Len(workQueue) /\ Len(workQueue) \in Nat
         /\ DOMAIN workQueue' = 1 .. (Len(workQueue) + 1)
         /\ \A k \in DOMAIN workQueue : workQueue[k] \in Nat
         /\ \A k \in DOMAIN workQueue' : k \in DOMAIN workQueue \/ k = Len(workQueue) + 1
         /\ \A i \in DOMAIN ran : ran[i] \in Nat
    BY <1>0, <2>1, WorkerAssumption, SMTT(30) DEF Job
  <2>3. QueueOrdered'
    <3>1. \A i, k \in DOMAIN workQueue' : i < k => workQueue'[i] < workQueue'[k]
      BY <1>0, <2>1, <2>2a DEF OrderInv, QueueOrdered
    <3>2. \A k \in DOMAIN workQueue' : workQueue'[k] <= nextJob'
      BY <1>0, <2>1, <2>2a DEF OrderInv, QueueOrdered
    <3>3. \A i \in DOMAIN ran' : ran'[i] <= nextJob'
      <4>1. \A i \in DOMAIN ran : ran[i] <= nextJob /\ ran[i] \in Nat
        BY <2>2a DEF OrderInv, QueueOrdered
      <4>2. ran' = ran /\ nextJob' = nextJob + 1 /\ nextJob \in Nat
        BY <1>0, <2>1
      <4> QED
        BY <4>1, <4>2
    <3> QED
      BY <2>1, <2>2, <3>1, <3>2, <3>3 DEF OrderInv, QueueOrdered
  <2>4. worker = "executing" => workQueue' # <<>> /\ Head(workQueue') = Head(workQueue)
    BY <1>0, <2>1 DEF OrderInv, RunsInOrder
  <2>5. \A i \in DOMAIN ran', k \in DOMAIN workQueue' :
          k > 1 \/ worker' # "executing" => ran'[i] < workQueue'[k]
    <3>1. TAKE i \in DOMAIN ran', k \in DOMAIN workQueue'
    <3>2. /\ ran'[i] = ran[i] /\ i \in DOMAIN ran
          /\ ran[i] <= nextJob /\ ran[i] \in Nat /\ nextJob \in Nat
      BY <1>0, <2>1, <2>2a DEF OrderInv, QueueOrdered
    <3>3. CASE k \in DOMAIN workQueue
      BY <2>1, <2>2, <2>2a, <3>2, <3>3 DEF OrderInv, RunsInOrder
    <3>4. CASE k = Len(workQueue) + 1
      BY <2>1, <3>2, <3>4
    <3> QED
      BY <2>2a, <3>3, <3>4
  <2>6. RunsInOrder'
    BY <2>1, <2>2, <2>4, <2>5 DEF OrderInv, RunsInOrder, Last
  <2> QED
    BY <2>3, <2>6 DEF OrderInv
<1>2. ASSUME UNCHANGED <<workQueue, nextJob, ran>>,
             worker' = "executing" <=> worker = "executing"
      PROVE  OrderInv'
  BY <1>2 DEF OrderInv, QueueOrdered, RunsInOrder
<1>3. ASSUME NEW c \in Callers, PostTask(c) PROVE OrderInv'
  BY <1>1, <1>3 DEF PostTask
<1>4. ASSUME NEW c \in Callers, DoTask(c) PROVE OrderInv'
  BY <1>1, <1>4 DEF DoTask
<1>5. ASSUME NEW c \in Callers, DoTaskReturns(c) PROVE OrderInv'
  BY <1>2, <1>5 DEF DoTaskReturns, jobVars
<1>6. ASSUME NEW c \in Callers, Start(c) PROVE OrderInv'
  BY <1>2, <1>6 DEF Start, jobVars, WakeInv
<1>7. ASSUME NEW c \in Callers, Abort(c) PROVE OrderInv'
  BY <1>7, OrderStops DEF Abort, jobVars
<1>8. ASSUME NEW c \in Callers, AbortWake(c) PROVE OrderInv'
  BY <1>2, <1>8 DEF AbortWake, Wake, jobVars
<1>9. CASE Destroy
  BY <1>9, OrderStops DEF Destroy, jobVars
<1>10. CASE DestroyJoin
  <2>1. CancelJobs(0) /\ 0 \in 0 .. Len(workQueue)
    BY <1>0, <1>10 DEF DestroyJoin
  <2>2. workQueue' = <<>>
    BY <2>1, CancelFacts
  <2> QED
    BY <1>10, <2>2 DEF DestroyJoin, OrderInv, QueueOrdered, RunsInOrder, jobVars
<1>11. CASE Run
  <2>1. Continue(workQueue) /\ worker # "executing" /\ workQueue' = workQueue
    BY <1>11 DEF Run
  <2>2. \A i \in DOMAIN ran, k \in DOMAIN workQueue : ran[i] < workQueue[k]
    BY <2>1 DEF OrderInv, RunsInOrder
  <2> QED
    BY <1>0, <1>11, <2>1, <2>2, OrderContinues DEF Run, jobVars, OrderInv, QueueOrdered
<1>12. CASE TaskDone
  <2>1. workQueue # <<>> /\ workQueue' = Tail(workQueue) /\ Continue(workQueue')
    BY <1>12 DEF TaskDone, OrderInv, RunsInOrder
  <2>2. /\ workQueue' \in Seq(Job) /\ Len(workQueue') = Len(workQueue) - 1
        /\ \A k \in DOMAIN workQueue' : k + 1 \in DOMAIN workQueue /\ k + 1 > 1
                                         /\ workQueue'[k] = workQueue[k + 1]
    BY <1>0, <2>1
  <2>3. \A i, k \in DOMAIN workQueue' : i < k => workQueue'[i] < workQueue'[k]
    BY <1>0, <2>2 DEF OrderInv, QueueOrdered
  <2>4. \A i \in DOMAIN ran, k \in DOMAIN workQueue' : ran[i] < workQueue'[k]
    BY <1>0, <2>2 DEF OrderInv, RunsInOrder
  <2>5. \A k \in DOMAIN workQueue' : workQueue'[k] <= nextJob
    BY <2>2 DEF OrderInv, QueueOrdered
  <2> QED
    BY <1>12, <2>1, <2>2, <2>3, <2>4, <2>5, OrderContinues DEF TaskDone, jobVars
<1>13. CASE SpuriousWakeup
  BY <1>2, <1>13 DEF SpuriousWakeup, jobVars
<1>14. CASE UNCHANGED vars
  BY <1>2, <1>14 DEF vars, jobVars
<1> QED
  BY NextCases, <1>3, <1>4, <1>5, <1>6, <1>7, <1>8, <1>9, <1>10, <1>11, <1>12, <1>13, <1>14

-----------------------------------------------------------------------------
(* The promises against the queue and what has run. *)
LEMMA AnswerCancels ==
  ASSUME TypeInv, OrderInv, AnswerInv, NEW n \in 0 .. Len(workQueue), CancelJobs(n),
         n >= 1 \/ worker # "executing", UNCHANGED <<jobVars, ran>>
  PROVE  AnswerInv'
<1>1. /\ workQueue' \in Seq(Job) /\ Len(workQueue') = n
      /\ \A k \in 1 .. n : workQueue'[k] = workQueue[k]
      /\ \A j \in Job :
           IF j \in promised \cap (ToSet(workQueue) \ ToSet(workQueue'))
           THEN result'[j] = "false" ELSE result'[j] = result[j]
  BY CancelFacts
<1>2. /\ workQueue \in Seq(Job) /\ ran \in Seq(Job) /\ promised \subseteq Job
      /\ nextJob \in Nat /\ Job \subseteq Nat /\ promised' = promised
  BY WorkerAssumption DEF TypeInv, TypeOK, Job, jobVars
<1>3. ToSet(workQueue') \subseteq ToSet(workQueue)
  <2>1. ASSUME NEW k \in DOMAIN workQueue'
        PROVE  k \in DOMAIN workQueue /\ workQueue'[k] = workQueue[k]
    <3>1. k \in 1 .. n
      BY <1>1
    <3> QED
      BY <1>1, <1>2, <3>1
  <2> QED
    BY <2>1 DEF ToSet
<1>4. ASSUME NEW j \in ToSet(workQueue) \ ToSet(workQueue') PROVE j \notin ToSet(ran)
  <2>1. PICK k \in DOMAIN workQueue : workQueue[k] = j
    BY DEF ToSet
  <2>2. ~(k <= n)
    BY <1>1, <1>2, <2>1 DEF ToSet
  <2>3. k > 1 \/ worker # "executing"
    BY <1>2, <2>2
  <2>4. \A i \in DOMAIN ran : ran[i] < workQueue[k]
    BY <2>3 DEF OrderInv, RunsInOrder
  <2>5. workQueue[k] \in Nat
    <3>1. k \in 1 .. Len(workQueue)
      BY <1>2, <2>1
    <3>2. workQueue[k] \in Job
      BY <1>2, <3>1
    <3> QED
      BY <1>2, <3>2
  <2> QED
    BY <1>2, <2>1, <2>4, <2>5 DEF ToSet
<1>5. ASSUME NEW j \in promised
      PROVE  /\ result'[j] = "true" => j \in ToSet(ran)
             /\ result'[j] = "false" => j \notin ToSet(ran) \cup ToSet(workQueue')
  <2>1. CASE j \in ToSet(workQueue) \ ToSet(workQueue')
    BY <1>1, <1>2, <1>4, <2>1
  <2>2. CASE j \notin ToSet(workQueue) \ ToSet(workQueue')
    <3>1. result'[j] = result[j]
      BY <1>1, <1>2, <2>2
    <3> QED
      BY <1>3, <3>1 DEF AnswerInv, PromiseHonest
  <2> QED
    BY <2>1, <2>2
<1>6. ASSUME NEW j \in ToSet(workQueue') PROVE result'[j] = "none"
  <2>1. j \in ToSet(workQueue)
    BY <1>3
  <2>2. j \in Job
    BY <1>2, <2>1 DEF ToSet
  <2>3. result'[j] = result[j]
    BY <1>1, <2>2
  <2> QED
    BY <2>1, <2>3 DEF AnswerInv, PromiseHonest
<1>7. ASSUME NEW j \in Job, j > nextJob PROVE result'[j] = "none"
  <2>1. j \notin ToSet(workQueue)
    BY <1>2, <1>7 DEF ToSet, OrderInv, QueueOrdered
  <2> QED
    BY <1>1, <1>7, <2>1 DEF AnswerInv
<1> QED
  BY <1>2, <1>5, <1>6, <1>7 DEF AnswerInv, PromiseHonest, jobVars

LEMMA AnswerContinues ==
  ASSUME TypeInv, NEW q \in Seq(Job), Continue(q), workQueue' = q, promised' = promised,
         \A j \in promised :
           /\ result'[j] = "true" => j \in ToSet(ran)
           /\ result'[j] = "false" => j \notin ToSet(ran) \cup ToSet(q),
         \A j \in ToSet(q) : result'[j] = "none"
  PROVE  PromiseHonest'
<1>1. ran \in Seq(Job)
  BY DEF TypeInv, TypeOK
<1>2. CASE worker' = "executing"
  <2>1. q # <<>> /\ ran' = Append(ran, Head(q))
    BY <1>2, ContinueFacts
  <2>2. Head(q) \in ToSet(q)
    BY <2>1 DEF ToSet
  <2>3. ToSet(ran') = ToSet(ran) \cup {Head(q)}
    BY <1>1, <2>1 DEF ToSet
  <2> QED
    BY <2>2, <2>3 DEF PromiseHonest
<1>3. CASE worker' # "executing"
  <2>1. ran' = ran
    BY <1>3, ContinueFacts
  <2> QED
    BY <2>1 DEF PromiseHonest
<1> QED
  BY <1>2, <1>3

LEMMA AnswerStep ==
  ASSUME TypeInv, OrderInv, AnswerInv, [Next]_vars
  PROVE  AnswerInv'
<1>0. /\ workQueue \in Seq(Job) /\ ran \in Seq(Job) /\ promised \subseteq Job
      /\ nextJob \in Nat /\ Job \subseteq Nat
      /\ result \in [Job -> {"none", "true", "false"}]
  BY WorkerAssumption DEF TypeInv, TypeOK, Job
<1>1. ASSUME Push, promised' \subseteq promised \cup {nextJob'} PROVE AnswerInv'
  <2>1. /\ nextJob' = nextJob + 1 /\ nextJob' \in Job
        /\ workQueue' \in Seq(Job) /\ Len(workQueue') = Len(workQueue) + 1
        /\ \A k \in 1 .. Len(workQueue) : workQueue'[k] = workQueue[k]
        /\ workQueue'[Len(workQueue) + 1] = nextJob'
        /\ UNCHANGED <<result, ran>>
    BY <1>1, PushFacts
  <2>2. ToSet(workQueue') = ToSet(workQueue) \cup {nextJob'}
    <3>1. /\ DOMAIN workQueue = 1 .. Len(workQueue) /\ Len(workQueue) \in Nat
          /\ DOMAIN workQueue' = 1 .. Len(workQueue) + 1
      BY <1>0, <2>1
    <3>2. \A k \in DOMAIN workQueue' : k \in DOMAIN workQueue \/ k = Len(workQueue) + 1
      BY <3>1
    <3> QED
      BY <2>1, <3>1, <3>2 DEF ToSet
  <2>3. result[nextJob'] = "none"
    BY <1>0, <2>1 DEF AnswerInv
  <2>4. PromiseHonest'
    BY <1>1, <2>1, <2>2, <2>3 DEF AnswerInv, PromiseHonest
  <2> QED
    BY <1>0, <2>1, <2>4 DEF AnswerInv
<1>2. ASSUME Stop, UNCHANGED <<jobVars, ran>> PROVE AnswerInv'
  <2>1. PICK n \in 0 .. Len(workQueue) :
          CancelJobs(n) /\ n = (IF workQueue = <<>> THEN 0 ELSE 1)
    BY <1>2, StopFacts
  <2>2. n >= 1 \/ worker # "executing"
    BY <2>1 DEF OrderInv, RunsInOrder
  <2> QED
    BY <1>2, <2>1, <2>2, AnswerCancels
<1>3. ASSUME UNCHANGED <<workQueue, result, promised, nextJob, ran>> PROVE AnswerInv'
  BY <1>3 DEF AnswerInv, PromiseHonest
<1>4. ASSUME NEW c \in Callers, PostTask(c) PROVE AnswerInv'
  BY <1>1, <1>4 DEF PostTask
<1>5. ASSUME NEW c \in Callers, DoTask(c) PROVE AnswerInv'
  BY <1>1, <1>5 DEF DoTask
<1>6. ASSUME NEW c \in Callers, DoTaskReturns(c) PROVE AnswerInv'
  BY <1>3, <1>6 DEF DoTaskReturns, jobVars
<1>7. ASSUME NEW c \in Callers, Start(c) PROVE AnswerInv'
  BY <1>3, <1>7 DEF Start, jobVars
<1>8. ASSUME NEW c \in Callers, Abort(c) PROVE AnswerInv'
  BY <1>2, <1>8 DEF Abort
<1>9. ASSUME NEW c \in Callers, AbortWake(c) PROVE AnswerInv'
  BY <1>3, <1>9 DEF AbortWake, jobVars
<1>10. CASE Destroy
  BY <1>2, <1>10 DEF Destroy
<1>11. CASE DestroyJoin
  <2>1. CancelJobs(0) /\ 0 \in 0 .. Len(workQueue) /\ worker # "executing"
    BY <1>0, <1>11 DEF DestroyJoin
  <2> QED
    BY <1>11, <2>1, AnswerCancels DEF DestroyJoin
<1>12. CASE Run
  <2>1. PromiseHonest'
    BY <1>0, <1>12, AnswerContinues DEF Run, jobVars, AnswerInv, PromiseHonest
  <2> QED
    BY <1>12, <2>1 DEF Run, jobVars, AnswerInv
<1>13. CASE TaskDone
  <2> DEFINE job == Head(workQueue)
  <2>1. /\ workQueue # <<>> /\ workQueue' = Tail(workQueue) /\ Continue(workQueue')
        /\ job = Last(ran) /\ promised' = promised /\ nextJob' = nextJob
        /\ result' = [result EXCEPT ![job] = IF job \in promised THEN "true" ELSE @]
    BY <1>13 DEF TaskDone, OrderInv, RunsInOrder, jobVars
  <2>2. ran # <<>>
    BY <1>13 DEF TaskDone, OrderInv, QueueOrdered
  <2>3. job \in ToSet(ran)
    BY <1>0, <2>1, <2>2 DEF Last, ToSet
  <2>4. workQueue' \in Seq(Job) /\ ToSet(workQueue') \subseteq ToSet(workQueue) /\ job \in Job
    BY <1>0, <2>1 DEF ToSet
  <2>5. job \notin ToSet(workQueue')
    <3>1. \A k \in DOMAIN workQueue' : k + 1 \in DOMAIN workQueue /\ 1 < k + 1
                                        /\ workQueue'[k] = workQueue[k + 1]
      BY <1>0, <2>1
    <3>2. job = workQueue[1] /\ 1 \in DOMAIN workQueue
      BY <1>0, <2>1
    <3>3. ASSUME NEW k \in DOMAIN workQueue' PROVE workQueue'[k] # job
      <4>1. k + 1 \in DOMAIN workQueue /\ 1 < k + 1 /\ workQueue'[k] = workQueue[k + 1]
        BY <3>1
      <4>2. workQueue[1] < workQueue[k + 1]
        BY <3>2, <4>1 DEF OrderInv, QueueOrdered
      <4>3. workQueue[1] \in Nat /\ workQueue[k + 1] \in Nat
        BY <1>0, <3>2, <4>1, SMTT(30)
      <4> QED
        BY <3>2, <4>1, <4>2, <4>3
    <3> QED
      BY <3>3 DEF ToSet
  <2>6. \A j \in Job : j # job => result'[j] = result[j]
    BY <1>0, <2>1
  <2>7. job \in promised => result'[job] = "true"
    BY <1>0, <2>1, <2>4
  <2>8. \A j \in promised :
          /\ result'[j] = "true" => j \in ToSet(ran)
          /\ result'[j] = "false" => j \notin ToSet(ran) \cup ToSet(workQueue')
    BY <1>0, <2>3, <2>4, <2>6, <2>7 DEF AnswerInv, PromiseHonest
  <2>9. \A j \in ToSet(workQueue') : result'[j] = "none"
    <3>1. ToSet(workQueue) \subseteq Job
      BY <1>0 DEF ToSet
    <3> QED
      BY <2>4, <2>5, <2>6, <3>1 DEF AnswerInv, PromiseHonest
  <2>10. PromiseHonest'
    BY <2>1, <2>4, <2>8, <2>9, AnswerContinues
  <2>11. \A j \in Job : j > nextJob => j # job
    BY <1>0, <2>1 DEF OrderInv, QueueOrdered
  <2> QED
    BY <2>1, <2>6, <2>10, <2>11 DEF AnswerInv
<1>14. CASE SpuriousWakeup
  BY <1>3, <1>14 DEF SpuriousWakeup, jobVars
<1>15. CASE UNCHANGED vars
  BY <1>3, <1>15 DEF vars, jobVars
<1> QED
  BY NextCases, <1>4, <1>5, <1>6, <1>7, <1>8, <1>9, <1>10, <1>11, <1>12, <1>13, <1>14, <1>15

-----------------------------------------------------------------------------
(* The callers against the promises. *)
Waiting(c) ==
  pc[c] = "await" =>
    /\ awaited[c] \in promised
    /\ result[awaited[c]] = "none" => awaited[c] \in ToSet(workQueue)
Destroyed == pc[Owner] = "destroyed" => worker \in {"none", "exited"} /\ workQueue = <<>>

LEMMA AwaitParts ==
  /\ AwaitInv <=> (\A c \in Callers : Waiting(c)) /\ Destroyed
  /\ AwaitInv' <=> (\A c \in Callers : Waiting(c)') /\ Destroyed'
BY DEF AwaitInv, Waiting, Destroyed

(* A queue that is cut answers whom it drops. *)
LEMMA AwaitCancels ==
  ASSUME TypeInv, NEW n \in 0 .. Len(workQueue), CancelJobs(n), NEW c \in Callers,
         Waiting(c), pc'[c] = "await" => pc[c] = "await", UNCHANGED <<promised, awaited>>
  PROVE  Waiting(c)'
<1> SUFFICES ASSUME pc[c] = "await", pc'[c] = "await"
             PROVE  Waiting(c)'
  BY DEF Waiting
<1>1. \A j \in Job :
        IF j \in promised \cap (ToSet(workQueue) \ ToSet(workQueue'))
        THEN result'[j] = "false" ELSE result'[j] = result[j]
  BY CancelFacts
<1>2. promised \subseteq Job
  BY WorkerAssumption DEF TypeInv, TypeOK, Job
<1>3. awaited[c] \in promised /\ awaited[c] \in Job
  BY <1>2 DEF Waiting
<1>4. CASE awaited[c] \in ToSet(workQueue) \ ToSet(workQueue')
  <2>1. result'[awaited[c]] = "false"
    BY <1>1, <1>3, <1>4
  <2> QED
    BY <1>3, <2>1 DEF Waiting
<1>5. CASE awaited[c] \notin ToSet(workQueue) \ ToSet(workQueue')
  <2>1. result'[awaited[c]] = result[awaited[c]]
    BY <1>1, <1>3, <1>5
  <2> QED
    BY <1>3, <1>5, <2>1 DEF Waiting
<1> QED
  BY <1>4, <1>5

LEMMA AwaitStep ==
  ASSUME TypeInv, WakeInv, OrderInv, AnswerInv, AwaitInv, [Next]_vars
  PROVE  AwaitInv'
<1>0. /\ workQueue \in Seq(Job) /\ promised \subseteq Job
      /\ result \in [Job -> {"none", "true", "false"}]
      /\ pc \in [Callers -> Label] /\ awaited \in [Callers -> 0 .. nextJob]
      /\ Owner \in Callers /\ Owner # TASK /\ 0 \in 0 .. Len(workQueue)
  BY WorkerAssumption DEF TypeInv, TypeOK, Job, Label, Callers
<1>1. (\A c \in Callers : Waiting(c)) /\ Destroyed
  BY AwaitParts
<1>2. ASSUME Push
      PROVE  ToSet(workQueue') = ToSet(workQueue) \cup {nextJob'} /\ result' = result
  <2>1. /\ workQueue' \in Seq(Job) /\ Len(workQueue') = Len(workQueue) + 1
        /\ \A k \in 1 .. Len(workQueue) : workQueue'[k] = workQueue[k]
        /\ workQueue'[Len(workQueue) + 1] = nextJob'
        /\ UNCHANGED <<result, ran>>
    BY <1>2, PushFacts
  <2>2. /\ DOMAIN workQueue = 1 .. Len(workQueue) /\ Len(workQueue) \in Nat
        /\ DOMAIN workQueue' = 1 .. Len(workQueue) + 1
    BY <1>0, <2>1
  <2>3. \A k \in DOMAIN workQueue' : k \in DOMAIN workQueue \/ k = Len(workQueue) + 1
    BY <2>2
  <2> QED
    BY <2>1, <2>2, <2>3 DEF ToSet
<1>3. ASSUME Stop, UNCHANGED <<promised, awaited>>,
             \A c \in Callers : pc'[c] = "await" => pc[c] = "await",
             pc'[Owner] # "destroyed"
      PROVE  AwaitInv'
  <2>1. PICK n \in 0 .. Len(workQueue) : CancelJobs(n)
    BY <1>3, StopFacts
  <2>2. \A c \in Callers : Waiting(c)'
    BY <1>1, <1>3, <2>1, AwaitCancels
  <2> QED
    BY <1>3, <2>2, AwaitParts DEF Destroyed
<1>4. ASSUME UNCHANGED <<workQueue, result, promised, awaited>>,
             \A c \in Callers : pc'[c] = "await" => pc[c] = "await",
             Destroyed'
      PROVE  AwaitInv'
  <2>1. \A c \in Callers : Waiting(c)'
    BY <1>1, <1>4 DEF Waiting
  <2> QED
    BY <1>4, <2>1, AwaitParts
<1>5. ASSUME NEW c \in Callers, PostTask(c) PROVE AwaitInv'
  <2>1. UNCHANGED <<promised, pc, awaited>> /\ pc[Owner] # "destroyed"
        /\ ToSet(workQueue') = ToSet(workQueue) \cup {nextJob'} /\ result' = result
    BY <1>2, <1>5 DEF PostTask, callerVars, Free
  <2>2. \A d \in Callers : Waiting(d)'
    BY <1>1, <2>1 DEF Waiting
  <2> QED
    BY <2>1, <2>2, AwaitParts DEF Destroyed
<1>6. ASSUME NEW c \in Callers, DoTask(c) PROVE AwaitInv'
  <2>1. /\ pc[Owner] # "destroyed" /\ promised' = promised \cup {nextJob'}
        /\ pc' = [pc EXCEPT ![c] = "await"] /\ awaited' = [awaited EXCEPT ![c] = nextJob']
        /\ ToSet(workQueue') = ToSet(workQueue) \cup {nextJob'} /\ result' = result
    BY <1>2, <1>6 DEF DoTask, Free
  <2>2. pc'[Owner] # "destroyed"
    BY <1>0, <2>1
  <2>3. ASSUME NEW d \in Callers PROVE Waiting(d)'
    <3>1. CASE d = c
      BY <1>0, <2>1, <3>1 DEF Waiting
    <3>2. CASE d # c
      <4>1. pc'[d] = pc[d] /\ awaited'[d] = awaited[d] /\ Waiting(d)
        BY <1>0, <1>1, <2>1, <3>2
      <4> QED
        BY <2>1, <4>1 DEF Waiting
    <3> QED
      BY <3>1, <3>2
  <2> QED
    BY <2>2, <2>3, AwaitParts DEF Destroyed
<1>7. ASSUME NEW c \in Callers, DoTaskReturns(c) PROVE AwaitInv'
  <2>1. /\ pc' = [pc EXCEPT ![c] = "idle"]
        /\ UNCHANGED <<workQueue, promised, result, worker, awaited>>
    BY <1>7 DEF DoTaskReturns, jobVars
  <2>2. \A d \in Callers : pc'[d] = pc[d] \/ pc'[d] = "idle"
    BY <1>0, <2>1
  <2>3. Destroyed'
    BY <1>0, <1>1, <2>1, <2>2 DEF Destroyed
  <2> QED
    BY <1>4, <2>1, <2>2, <2>3
<1>8. ASSUME NEW c \in Callers, Start(c) PROVE AwaitInv'
  <2>1. UNCHANGED <<workQueue, promised, result, awaited, pc>> /\ pc[Owner] # "destroyed"
    BY <1>8 DEF Start, jobVars, callerVars, Free
  <2> QED
    BY <1>4, <2>1 DEF Destroyed
<1>9. ASSUME NEW c \in Callers, Abort(c) PROVE AwaitInv'
  <2>1. /\ Stop /\ UNCHANGED <<promised, awaited>> /\ pc[Owner] # "destroyed"
        /\ pc' = [pc EXCEPT ![c] = "aborting"]
    BY <1>9 DEF Abort, jobVars, Free
  <2>2. \A d \in Callers : pc'[d] = pc[d] \/ pc'[d] = "aborting"
    BY <1>0, <2>1
  <2> QED
    BY <1>0, <1>3, <2>1, <2>2
<1>10. ASSUME NEW c \in Callers, AbortWake(c) PROVE AwaitInv'
  <2>1. /\ pc' = [pc EXCEPT ![c] = IF @ = "aborting" THEN "idle" ELSE "joining"]
        /\ UNCHANGED <<workQueue, promised, result, awaited>>
        /\ Wake("ABORTED")
    BY <1>10 DEF AbortWake, jobVars
  <2>2. \A d \in Callers : pc'[d] = pc[d] \/ pc'[d] \in {"idle", "joining"}
    BY <1>0, <2>1
  <2>3. worker \in {"none", "exited"} => worker' = worker
    BY <2>1 DEF Wake
  <2>4. Destroyed'
    BY <1>0, <1>1, <2>1, <2>2, <2>3 DEF Destroyed
  <2> QED
    BY <1>4, <2>1, <2>2, <2>4
<1>11. CASE Destroy
  <2>1. Stop /\ UNCHANGED <<promised, awaited>>
    BY <1>11 DEF Destroy, jobVars
  <2>2. \A c \in Callers : pc'[c] \in {"destroying", "gone", pc[c]}
    BY <1>11 DEF Destroy
  <2>3. pc'[Owner] = "destroying"
    BY <1>0, <1>11 DEF Destroy
  <2> QED
    BY <1>3, <2>1, <2>2, <2>3
<1>12. CASE DestroyJoin
  <2>1. /\ CancelJobs(0) /\ UNCHANGED <<promised, awaited, worker>>
        /\ pc' = [pc EXCEPT ![Owner] = "destroyed"] /\ worker \in {"none", "exited"}
    BY <1>12 DEF DestroyJoin, jobVars
  <2>2. \A c \in Callers : pc'[c] = pc[c] \/ pc'[c] = "destroyed"
    BY <1>0, <2>1
  <2>3. \A c \in Callers : Waiting(c)'
    BY <1>0, <1>1, <2>1, <2>2, AwaitCancels
  <2>4. workQueue' = <<>>
    <3>1. workQueue' \in Seq(Job) /\ Len(workQueue') = 0
      BY <1>0, <2>1, CancelFacts
    <3> QED
      BY <3>1
  <2> QED
    BY <2>1, <2>3, <2>4, AwaitParts DEF Destroyed
<1>13. CASE Run
  <2>1. UNCHANGED <<workQueue, promised, result, awaited, pc>> /\ worker \in {"ready", "woken"}
    BY <1>13 DEF Run, jobVars, callerVars
  <2>2. Destroyed'
    BY <1>1, <2>1 DEF Destroyed
  <2> QED
    BY <1>4, <2>1, <2>2
<1>14. CASE TaskDone
  <2> DEFINE job == Head(workQueue)
  <2>1. /\ worker = "executing" /\ workQueue # <<>> /\ workQueue' = Tail(workQueue)
        /\ UNCHANGED <<promised, awaited, pc>>
        /\ result' = [result EXCEPT ![job] = IF job \in promised THEN "true" ELSE @]
    BY <1>14 DEF TaskDone, OrderInv, RunsInOrder, jobVars, callerVars
  <2>2. /\ \A k \in DOMAIN workQueue : k = 1 \/ k - 1 \in DOMAIN workQueue'
        /\ \A k \in DOMAIN workQueue' : workQueue'[k] = workQueue[k + 1]
        /\ DOMAIN workQueue \subseteq Int
        /\ job = workQueue[1] /\ job \in Job
    BY <1>0, <2>1
  <2>3. ASSUME NEW j \in ToSet(workQueue), j # job PROVE j \in ToSet(workQueue')
    <3>1. PICK k \in DOMAIN workQueue : workQueue[k] = j
      BY DEF ToSet
    <3>2. k # 1 /\ k - 1 \in DOMAIN workQueue' /\ (k - 1) + 1 = k
      BY <2>2, <2>3, <3>1
    <3>3. workQueue'[k - 1] = j
      BY <2>2, <3>1, <3>2
    <3> QED
      BY <3>2, <3>3 DEF ToSet
  <2>4. ASSUME NEW c \in Callers PROVE Waiting(c)'
    <3> SUFFICES ASSUME pc[c] = "await" PROVE Waiting(c)'
      BY <2>1 DEF Waiting
    <3>1. awaited[c] \in promised /\ awaited[c] \in Job
      BY <1>0, <1>1 DEF Waiting
    <3>2. CASE awaited[c] = job
      BY <1>0, <2>1, <3>1, <3>2 DEF Waiting
    <3>3. CASE awaited[c] # job
      <4>1. result'[awaited[c]] = result[awaited[c]]
        BY <1>0, <2>1, <3>1, <3>3
      <4> QED
        BY <1>1, <2>1, <2>3, <3>1, <3>3, <4>1 DEF Waiting
    <3> QED
      BY <3>2, <3>3
  <2> QED
    BY <1>1, <2>1, <2>4, AwaitParts DEF Destroyed
<1>15. CASE SpuriousWakeup
  <2>1. UNCHANGED <<workQueue, promised, result, awaited, pc>> /\ worker = "asleep"
    BY <1>15 DEF SpuriousWakeup, jobVars, callerVars
  <2>2. Destroyed'
    BY <1>1, <2>1 DEF Destroyed
  <2> QED
    BY <1>4, <2>1, <2>2
<1>16. CASE UNCHANGED vars
  <2>1. UNCHANGED <<workQueue, promised, result, awaited, pc, worker>>
    BY <1>16 DEF vars, jobVars, callerVars
  <2>2. Destroyed'
    BY <1>1, <2>1 DEF Destroyed
  <2> QED
    BY <1>4, <2>1, <2>2
<1> QED
  BY NextCases, <1>5, <1>6, <1>7, <1>8, <1>9, <1>10, <1>11, <1>12, <1>13, <1>14, <1>15, <1>16

-----------------------------------------------------------------------------
(* The invariant holds in every reachable state. *)
LEMMA IInvInit ==
  ASSUME Init
  PROVE  IInv
<1>1. workQueue = <<>> /\ ran = <<>> /\ ToSet(workQueue) = {} /\ promised = {}
  BY DEF Init, ToSet
<1>2. TypeInv
  BY <1>1, WorkerAssumption DEF Init, TypeInv, TypeOK, WORKER_STATE, Job
<1>3. WakeInv
  BY DEF Init, WakeInv, SleepsOnlyWhenIdle
<1>4. OrderInv
  BY <1>1 DEF Init, OrderInv, QueueOrdered, RunsInOrder
<1>5. AnswerInv
  BY <1>1 DEF Init, AnswerInv, PromiseHonest
<1>6. AwaitInv
  BY <1>1, WorkerAssumption DEF Init, AwaitInv, Callers
<1> QED
  BY <1>2, <1>3, <1>4, <1>5, <1>6 DEF IInv

LEMMA IInvStep ==
  ASSUME IInv, [Next]_vars
  PROVE  IInv'
<1>1. TypeInv /\ WakeInv /\ OrderInv /\ AnswerInv /\ AwaitInv
  BY DEF IInv
<1>2. TypeInv'
  BY <1>1, TypeStep DEF OrderInv
<1>3. WakeInv'
  BY <1>1, WakeStep DEF OrderInv
<1>4. OrderInv'
  BY <1>1, OrderStep
<1>5. AnswerInv'
  BY <1>1, AnswerStep
<1>6. AwaitInv'
  BY <1>1, AwaitStep
<1> QED
  BY <1>2, <1>3, <1>4, <1>5, <1>6 DEF IInv

LEMMA IInvCorrect == Spec => []IInv
<1>1. Init => IInv
  BY IInvInit
<1>2. IInv /\ [Next]_vars => IInv'
  BY IInvStep
<1> QED
  BY <1>1, <1>2, PTL DEF Spec

(* Every variable keeps its type. *)
THEOREM TypeCorrect == Spec => []TypeOK
<1>1. IInv => TypeOK
  BY DEF IInv, TypeInv
<1> QED
  BY <1>1, IInvCorrect, PTL

(* However calls, cancellations and the worker's iterations interleave, jobs *)
(* begin in the order of their push and at most once, and TaskDone pops the  *)
(* job that was executed (WorkerThread.cpp:38, 68-77, 135-142).              *)
THEOREM ExecutionInOrder == Spec => []RunsInOrder
<1>1. IInv => RunsInOrder
  BY DEF IInv, OrderInv
<1> QED
  BY <1>1, IInvCorrect, PTL

(* The answer of DoTask is true only of a job that was executed and false    *)
(* only of one that never will be, and no promise is set twice               *)
(* (WorkerThread.h:37, WorkerThread.cpp:26-32, 68-77).                       *)
THEOREM AnswersHonest == Spec => []PromiseHonest
<1>1. IInv => PromiseHonest
  BY DEF IInv, AnswerInv
<1> QED
  BY <1>1, IInvCorrect, PTL

(* The worker is never asleep with a job in its queue, spurious wakeups      *)
(* included (WorkerThread.cpp:20, 58-61, 153-160).                           *)
THEOREM NoLostWakeup == Spec => []SleepsOnlyWhenIdle
<1>1. IInv => SleepsOnlyWhenIdle
  BY DEF IInv, WakeInv
<1> QED
  BY <1>1, IInvCorrect, PTL

(* Once the destructor is through, its thread has ended and every client     *)
(* still in DoTask has its answer (WorkerThread.cpp:44-48).                  *)
THEOREM DestructorLeavesNobody == Spec => []DestructorAnswersAll
<1>1. IInv => DestructorAnswersAll
  <2> SUFFICES ASSUME IInv, pc[Owner] = "destroyed"
               PROVE  /\ worker \in {"none", "exited"}
                      /\ \A c \in Callers : pc[c] = "await" => result[awaited[c]] # "none"
    BY DEF DestructorAnswersAll
  <2>1. worker \in {"none", "exited"} /\ workQueue = <<>>
    BY DEF IInv, AwaitInv
  <2>2. ToSet(workQueue) = {}
    BY <2>1 DEF ToSet
  <2> QED
    BY <2>1, <2>2 DEF IInv, AwaitInv
<1> QED
  BY <1>1, IInvCorrect, PTL

-----------------------------------------------------------------------------
(* The refinement: what the abstract executor sees of the worker. *)
Acc == IF Executing THEN Tail(workQueue) ELSE workQueue
Cur == IF Executing THEN <<Head(workQueue)>> ELSE <<>>
Closed == state \in {"STOPPED", "ABORTED"}

(* An owner that waits in Join has closed the worker. *)
ClosedInv == pc[Owner] = "joining" => Closed

LEMMA ClosedStep ==
  ASSUME TypeInv, WakeInv, ClosedInv, [Next]_vars
  PROVE  (Closed => Closed') /\ ClosedInv'
<1>0. pc \in [Callers -> Label] /\ Owner \in Callers
  BY WorkerAssumption DEF TypeInv, TypeOK, Label, Callers
<1>1. ASSUME pc'[Owner] = "joining" => pc[Owner] = "joining" \/ Closed', Closed => Closed'
      PROVE  ClosedInv'
  BY <1>1 DEF ClosedInv
<1>2. Push => (Closed => Closed')
  BY DEF Push, Closed, Wake
<1>3. \A q \in Seq(Job) : Continue(q) => (Closed => Closed')
  BY DEF Continue, Closed
<1>4. Stop => Closed'
  BY DEF Stop, Wake, Closed
<1>5. ASSUME NEW c \in Callers,
             PostTask(c) \/ DoTask(c) \/ DoTaskReturns(c) \/ Start(c) \/ Abort(c) \/ AbortWake(c)
      PROVE  (Closed => Closed') /\ (pc'[Owner] = "joining" => pc[Owner] = "joining" \/ Closed')
  <2>1. CASE PostTask(c)
    BY <1>2, <2>1 DEF PostTask, callerVars
  <2>2. CASE DoTask(c)
    BY <1>0, <1>2, <2>2 DEF DoTask
  <2>3. CASE DoTaskReturns(c)
    BY <1>0, <2>3 DEF DoTaskReturns, Closed
  <2>4. CASE Start(c)
    BY <2>4 DEF Start, callerVars, Closed
  <2>5. CASE Abort(c)
    BY <1>4, <2>5 DEF Abort
  <2>6. CASE AbortWake(c)
    BY <2>6 DEF AbortWake, Wake, Closed
  <2> QED
    BY <1>5, <2>1, <2>2, <2>3, <2>4, <2>5, <2>6
<1>6. CASE Destroy
  BY <1>1, <1>4, <1>6 DEF Destroy
<1>7. CASE DestroyJoin
  BY <1>0, <1>1, <1>7 DEF DestroyJoin, Closed
<1>8. CASE Run
  BY <1>1, <1>3, <1>8 DEF Run, callerVars, TypeInv, TypeOK
<1>9. CASE TaskDone
  <2>1. worker = "executing" /\ workQueue' = Tail(workQueue) /\ Continue(workQueue') /\ pc' = pc
    BY <1>9 DEF TaskDone, callerVars
  <2>2. Closed => Closed'
    BY <2>1 DEF Continue, Closed
  <2> QED
    BY <1>1, <2>1, <2>2
<1>10. CASE SpuriousWakeup
  BY <1>1, <1>10 DEF SpuriousWakeup, callerVars, Closed
<1>11. CASE UNCHANGED vars
  BY <1>1, <1>11 DEF vars, callerVars, Closed
<1> QED
  BY NextCases, <1>1, <1>5, <1>6, <1>7, <1>8, <1>9, <1>10, <1>11

(* The steps of the executor, in these words. *)
LEMMA AbstractStutter ==
  ASSUME Acc' = Acc, Cur' = Cur, promised' = promised, result' = result, Closed' <=> Closed
  PROVE  UNCHANGED Executor!executorVars
BY DEF Acc, Cur, Closed, Executor!executorVars

LEMMA AbstractAccept ==
  ASSUME NEW t \in Job, Acc' = Append(Acc, t), promised' \in {promised, promised \cup {t}},
         Cur' = Cur, result' = result, Closed' <=> Closed
  PROVE  Executor!ExecutorNext
BY DEF Acc, Cur, Closed, Executor!ExecutorNext, Executor!Accept

LEMMA AbstractBegin ==
  ASSUME ~Closed, ~Closed', Cur = <<>>, Acc # <<>>, Cur' = <<Head(Acc)>>, Acc' = Tail(Acc),
         promised' = promised, result' = result
  PROVE  Executor!ExecutorNext
BY DEF Acc, Cur, Closed, Executor!ExecutorNext, Executor!BeginTask, Executor!Begin

LEMMA AbstractFinish ==
  ASSUME Cur # <<>>, promised' = promised, Closed' <=> Closed,
         result' = [t \in Job |-> IF t = Head(Cur) /\ t \in promised THEN "true" ELSE result[t]],
         \/ Cur' = <<>> /\ Acc' = Acc
         \/ ~Closed /\ Acc # <<>> /\ Cur' = <<Head(Acc)>> /\ Acc' = Tail(Acc)
  PROVE  Executor!ExecutorNext
BY DEF Acc, Cur, Closed, Executor!ExecutorNext, Executor!FinishTask, Executor!Begin

LEMMA AbstractClose ==
  ASSUME Closed', NEW n \in 0 .. Len(Acc), Acc' = SubSeq(Acc, 1, n),
         result' = [t \in Job |->
           IF t \in promised \cap ToSet(SubSeq(Acc, n + 1, Len(Acc))) THEN "false" ELSE result[t]],
         Cur' = Cur, promised' = promised
  PROVE  Executor!ExecutorNext
<1>1. \A s : Executor!ToSet(s) = ToSet(s)
  BY DEF Executor!ToSet, ToSet
<1>2. \E m \in 0 .. Len(Acc) :
        /\ Acc' = SubSeq(Acc, 1, m)
        /\ result' = [t \in Job |->
             IF t \in promised \cap Executor!ToSet(SubSeq(Acc, m + 1, Len(Acc)))
             THEN "false" ELSE result[t]]
  BY <1>1
<1>3. Executor!Close
  BY <1>2, Zenon DEF Acc, Cur, Closed, Executor!Close
<1> QED
  BY <1>3 DEF Executor!ExecutorNext

(* CancelJobs(n) drops the end of the queue: with a task executing it must  *)
(* keep that one.                                                           *)
LEMMA CancelIsClose ==
  ASSUME TypeInv, OrderInv, NEW n \in 0 .. Len(workQueue), CancelJobs(n),
         Executing => n >= 1, Executing' <=> Executing, Closed', promised' = promised
  PROVE  Executor!ExecutorNext
<1> DEFINE m == IF Executing THEN n - 1 ELSE n
<1>1. /\ workQueue \in Seq(Job) /\ Len(workQueue) \in Nat /\ Job \subseteq Nat
      /\ Executing => workQueue # <<>>
  BY WorkerAssumption DEF TypeInv, TypeOK, Job, OrderInv, RunsInOrder, Executing
<1>2. workQueue' = SubSeq(workQueue, 1, n)
  BY DEF CancelJobs
<1>3. /\ Acc \in Seq(Job) /\ m \in 0 .. Len(Acc)
      /\ Len(Acc) = IF Executing THEN Len(workQueue) - 1 ELSE Len(workQueue)
  BY <1>1 DEF Acc
<1>4. Cur' = Cur
  BY <1>1, <1>2 DEF Cur
<1>5. Acc' = SubSeq(Acc, 1, m)
  <2>1. CASE Executing
    <3>1. Acc = Tail(workQueue) /\ Acc' = Tail(workQueue')
      BY <2>1 DEF Acc
    <3>2. /\ Acc' \in Seq(Job) /\ Len(Acc') = n - 1
          /\ \A k \in 1 .. n - 1 : Acc'[k] = workQueue[k + 1]
      <4>1. /\ workQueue' \in Seq(Job) /\ Len(workQueue') = n /\ n >= 1
            /\ \A k \in 1 .. n : workQueue'[k] = workQueue[k]
        BY <2>1, CancelFacts
      <4>2. /\ Acc' \in Seq(Job) /\ Len(Acc') = n - 1
            /\ \A k \in 1 .. n - 1 : Acc'[k] = workQueue'[k + 1]
        BY <3>1, <4>1
      <4> QED
        BY <4>1, <4>2
    <3>3. /\ SubSeq(Acc, 1, m) \in Seq(Job) /\ Len(SubSeq(Acc, 1, m)) = n - 1
          /\ \A k \in 1 .. n - 1 : SubSeq(Acc, 1, m)[k] = workQueue[k + 1]
      BY <1>1, <2>1, <3>1
    <3> QED
      BY <3>2, <3>3
  <2>2. CASE ~Executing
    BY <1>2, <2>2 DEF Acc
  <2> QED
    BY <2>1, <2>2
<1>6. ToSet(workQueue) \ ToSet(workQueue') = ToSet(SubSeq(Acc, m + 1, Len(Acc)))
  <2>1. /\ Len(workQueue') = n /\ DOMAIN workQueue' = 1 .. n
        /\ \A k \in 1 .. n : workQueue'[k] = workQueue[k]
    BY <1>1, <1>2
  <2> DEFINE rest == SubSeq(Acc, m + 1, Len(Acc))
  <2>2. /\ DOMAIN rest = 1 .. Len(workQueue) - n
        /\ \A k \in 1 .. Len(workQueue) - n : rest[k] = workQueue[n + k]
    <3>1. CASE Executing
      BY <1>1, <1>3, <3>1 DEF Acc
    <3>2. CASE ~Executing
      BY <1>1, <1>3, <3>2 DEF Acc
    <3> QED
      BY <3>1, <3>2
  <2>3. \A i, k \in 1 .. Len(workQueue) : i # k => workQueue[i] # workQueue[k]
    <3> SUFFICES ASSUME NEW i \in 1 .. Len(workQueue), NEW k \in 1 .. Len(workQueue), i < k
                 PROVE  workQueue[i] # workQueue[k]
      OBVIOUS
    <3>1. workQueue[i] < workQueue[k]
      BY <1>1 DEF OrderInv, QueueOrdered
    <3>2. workQueue[i] \in Job /\ workQueue[k] \in Job
      BY <1>1
    <3>3. \A x, y \in Nat : x < y => x # y
      OBVIOUS
    <3>4. workQueue[i] \in Nat /\ workQueue[k] \in Nat
      BY <1>1, <3>2, Zenon
    <3> QED
      BY <3>1, <3>3, <3>4, Zenon
  <2>4. ASSUME NEW j \in ToSet(workQueue) \ ToSet(workQueue') PROVE j \in ToSet(rest)
    <3>1. PICK k \in 1 .. Len(workQueue) : workQueue[k] = j
      BY <1>1 DEF ToSet
    <3>2. k \notin 1 .. n
      BY <2>1, <2>4, <3>1 DEF ToSet
    <3>3. k - n \in 1 .. Len(workQueue) - n /\ n + (k - n) = k
      BY <1>1, <3>2
    <3>4. rest[k - n] = j
      BY <2>2, <3>1, <3>3
    <3> QED
      BY <2>2, <3>3, <3>4 DEF ToSet
  <2>5. ASSUME NEW j \in ToSet(rest) PROVE j \in ToSet(workQueue) \ ToSet(workQueue')
    <3>1. PICK k \in 1 .. Len(workQueue) - n : rest[k] = j
      BY <2>2, <2>5 DEF ToSet
    <3>2. n + k \in 1 .. Len(workQueue) /\ n + k \notin 1 .. n /\ workQueue[n + k] = j
      <4>1. workQueue[n + k] = j
        BY <2>2, <3>1
      <4>2. n \in Int /\ Len(workQueue) \in Int /\ k \in Int /\ 1 <= k /\ k <= Len(workQueue) - n
        BY <1>1
      <4> QED
        BY <4>1, <4>2
    <3>3. \A i \in 1 .. n : i \in 1 .. Len(workQueue) /\ workQueue'[i] # j
      BY <1>1, <2>1, <2>3, <3>2
    <3>4. j \notin ToSet(workQueue')
      BY <2>1, <3>3 DEF ToSet
    <3>5. DOMAIN workQueue = 1 .. Len(workQueue)
      BY <1>1
    <3> QED
      BY <3>2, <3>4, <3>5 DEF ToSet
  <2> QED
    BY <2>4, <2>5
<1>7. result' = [t \in Job |-> IF t \in promised \cap ToSet(SubSeq(Acc, m + 1, Len(Acc)))
                               THEN "false" ELSE result[t]]
  <2>1. result' = [t \in Job |-> IF t \in (ToSet(workQueue) \ ToSet(workQueue')) \cap promised
                                 THEN "false" ELSE result[t]]
    BY <1>2 DEF CancelJobs
  <2> QED
    BY <1>6, <2>1
<1> HIDE DEF m
<1> QED
  BY <1>3, <1>4, <1>5, <1>7, AbstractClose

LEMMA ExecutorStep ==
  ASSUME TypeInv, WakeInv, OrderInv, ClosedInv, [Next]_vars
  PROVE  [Executor!ExecutorNext]_(Executor!executorVars)
<1>0. /\ workQueue \in Seq(Job) /\ promised \subseteq Job
      /\ result \in [Job -> {"none", "true", "false"}]
      /\ Executing => workQueue # <<>>
  BY WorkerAssumption DEF TypeInv, TypeOK, Job, OrderInv, RunsInOrder, Executing
<1>1. ASSUME Push, promised' \in {promised, promised \cup {nextJob'}}
      PROVE  Executor!ExecutorNext
  <2>1. nextJob' \in Job /\ workQueue' = Append(workQueue, nextJob') /\ result' = result
    BY <1>1, PushFacts DEF Push
  <2>2. (Executing' <=> Executing) /\ (Closed' <=> Closed)
    BY <1>1 DEF Push, Wake, Executing, Closed
  <2>3. Acc' = Append(Acc, nextJob') /\ Cur' = Cur
    <3>1. CASE Executing
      BY <1>0, <2>1, <2>2, <3>1 DEF Acc, Cur
    <3>2. CASE ~Executing
      BY <2>1, <2>2, <3>2 DEF Acc, Cur
    <3> QED
      BY <3>1, <3>2
  <2> QED
    BY <1>1, <2>1, <2>2, <2>3, AbstractAccept
<1>2. ASSUME Stop, promised' = promised PROVE Executor!ExecutorNext
  <2>1. PICK n \in 0 .. Len(workQueue) :
          CancelJobs(n) /\ n = (IF workQueue = <<>> THEN 0 ELSE 1)
    BY <1>2, StopFacts
  <2>2. (Executing' <=> Executing) /\ Closed'
    BY <1>2 DEF Stop, Wake, Executing, Closed
  <2> QED
    BY <1>0, <1>2, <2>1, <2>2, CancelIsClose
<1>3. ASSUME UNCHANGED <<workQueue, promised, result>>, Executing' <=> Executing,
             Closed' <=> Closed
      PROVE  UNCHANGED Executor!executorVars
  <2>1. Acc' = Acc /\ Cur' = Cur
    BY <1>3 DEF Acc, Cur
  <2> QED
    BY <1>3, <2>1, AbstractStutter
<1>4. ASSUME NEW c \in Callers, PostTask(c) PROVE Executor!ExecutorNext
  BY <1>1, <1>4 DEF PostTask
<1>5. ASSUME NEW c \in Callers, DoTask(c) PROVE Executor!ExecutorNext
  BY <1>1, <1>5 DEF DoTask
<1>6. ASSUME NEW c \in Callers, DoTaskReturns(c) PROVE UNCHANGED Executor!executorVars
  BY <1>3, <1>6 DEF DoTaskReturns, jobVars, Executing, Closed
<1>7. ASSUME NEW c \in Callers, Start(c) PROVE UNCHANGED Executor!executorVars
  BY <1>3, <1>7 DEF Start, jobVars, Executing, Closed, WakeInv
<1>8. ASSUME NEW c \in Callers, Abort(c) PROVE Executor!ExecutorNext
  BY <1>2, <1>8 DEF Abort, jobVars
<1>9. ASSUME NEW c \in Callers, AbortWake(c) PROVE Executor!ExecutorNext
  <2>1. UNCHANGED <<workQueue, promised, result>> /\ Wake("ABORTED")
    BY <1>9 DEF AbortWake, jobVars
  <2>2. (Executing' <=> Executing) /\ Closed'
    BY <2>1 DEF Wake, Executing, Closed
  <2>3. Acc' = Acc /\ Cur' = Cur /\ Acc \in Seq(Job)
    BY <1>0, <2>1, <2>2 DEF Acc, Cur
  <2>4. Len(Acc) \in 0 .. Len(Acc) /\ Acc' = SubSeq(Acc, 1, Len(Acc))
    BY <2>3
  <2>5. ToSet(SubSeq(Acc, Len(Acc) + 1, Len(Acc))) = {}
    BY <2>3 DEF ToSet
  <2>6. result' = [t \in Job |->
          IF t \in promised \cap ToSet(SubSeq(Acc, Len(Acc) + 1, Len(Acc)))
          THEN "false" ELSE result[t]]
    BY <1>0, <2>1, <2>5
  <2> QED
    BY <2>1, <2>2, <2>3, <2>4, <2>6, AbstractClose
<1>10. CASE Destroy
  BY <1>2, <1>10 DEF Destroy, jobVars
<1>11. CASE DestroyJoin
  <2>1. /\ CancelJobs(0) /\ 0 \in 0 .. Len(workQueue) /\ promised' = promised
        /\ ~Executing /\ ~Executing' /\ Closed'
    BY <1>0, <1>11 DEF DestroyJoin, jobVars, Executing, ClosedInv, Closed
  <2> QED
    BY <2>1, CancelIsClose
<1>12. CASE Run
  <2>1. /\ Continue(workQueue) /\ ~Executing /\ UNCHANGED <<workQueue, promised, result>>
    BY <1>12 DEF Run, jobVars, Executing
  <2>2. CASE state = "RUNNING" /\ workQueue # <<>>
    <3>1. Executing' /\ ~Closed /\ ~Closed'
      BY <2>1, <2>2 DEF Continue, Executing, Closed
    <3>2. Cur = <<>> /\ Acc = workQueue /\ Cur' = <<Head(Acc)>> /\ Acc' = Tail(Acc)
      BY <2>1, <3>1 DEF Acc, Cur
    <3> QED
      BY <2>1, <2>2, <3>1, <3>2, AbstractBegin
  <2>3. CASE ~(state = "RUNNING" /\ workQueue # <<>>)
    BY <1>3, <2>1, <2>3 DEF Continue, Executing, Closed
  <2> QED
    BY <2>2, <2>3
<1>13. CASE TaskDone
  <2> DEFINE job == Head(workQueue)
  <2>1. /\ Executing /\ workQueue' = Tail(workQueue) /\ Continue(workQueue')
        /\ promised' = promised
        /\ result' = [result EXCEPT ![job] = IF job \in promised THEN "true" ELSE @]
    BY <1>13 DEF TaskDone, jobVars, Executing
  <2>2. Cur = <<job>> /\ Acc = workQueue' /\ job \in Job
    BY <1>0, <2>1 DEF Acc, Cur
  <2>3. result' = [t \in Job |-> IF t = Head(Cur) /\ t \in promised THEN "true" ELSE result[t]]
    <3>1. Head(Cur) = job
      BY <2>2
    <3> QED
      BY <1>0, <2>1, <2>2, <3>1
  <2>4. Closed' <=> Closed
    BY <2>1 DEF Continue, Closed
  <2>5. CASE state = "RUNNING" /\ workQueue' # <<>>
    <3>1. Executing' /\ ~Closed
      BY <2>1, <2>5 DEF Continue, Executing, Closed
    <3>2. Acc # <<>> /\ Cur' = <<Head(Acc)>> /\ Acc' = Tail(Acc)
      BY <2>2, <2>5, <3>1 DEF Acc, Cur
    <3> QED
      BY <2>1, <2>2, <2>3, <2>4, <3>1, <3>2, AbstractFinish
  <2>6. CASE ~(state = "RUNNING" /\ workQueue' # <<>>)
    <3>1. ~Executing'
      BY <2>1, <2>6 DEF Continue, Executing
    <3>2. Cur' = <<>> /\ Acc' = Acc
      BY <2>2, <3>1 DEF Acc, Cur
    <3> QED
      BY <2>1, <2>2, <2>3, <2>4, <3>2, AbstractFinish
  <2> QED
    BY <2>5, <2>6
<1>14. CASE SpuriousWakeup
  BY <1>3, <1>14 DEF SpuriousWakeup, jobVars, Executing, Closed
<1>15. CASE UNCHANGED vars
  BY <1>3, <1>15 DEF vars, jobVars, Executing, Closed
<1> QED
  BY NextCases, <1>4, <1>5, <1>6, <1>7, <1>8, <1>9, <1>10, <1>11, <1>12, <1>13, <1>14, <1>15

(* Every behaviour of the worker is one of the abstract executor: a client   *)
(* can forget its states, its wakeups and the two halves of Abort            *)
(* (WorkerThread.cpp:13-165).                                                *)
THEOREM WorkerImplementsExecutor == Spec => ImplementsExecutor
<1>1. Init => Executor!ExecutorInit /\ ClosedInv
  BY WorkerAssumption DEF Init, Executor!ExecutorInit, Executing, ClosedInv, Callers
<1>2. IInv /\ ClosedInv /\ [Next]_vars =>
        ClosedInv' /\ [Executor!ExecutorNext]_(Executor!executorVars)
  BY ClosedStep, ExecutorStep DEF IInv
<1> QED
  BY <1>1, <1>2, IInvCorrect, PTL DEF Spec, ImplementsExecutor, Executor!ExecutorSpec
=============================================================================
