----------------------------- MODULE TaskExecutor -----------------------------
(***************************************************************************)
(* What a WorkerThread promises to those who post tasks to it, without its *)
(* states, locks and wakeups: an executor with one queue, that executes    *)
(* one task at a time in the order they were accepted, until it is closed; *)
(* and that answers a promised task with true when it has been executed    *)
(* and with false when it is dropped, and only then.                       *)
(***************************************************************************)
EXTENDS Naturals, Sequences, SequencesExt

CONSTANT Task

VARIABLES
  accepted,  \* the tasks accepted and not yet begun, in order
  current,   \* the task being executed, as a sequence of at most one
  promised,  \* the tasks whose caller waits for an answer
  answer,    \* what each caller was told: "none", "true" or "false"
  closed     \* does the executor begin no more tasks?

executorVars == <<accepted, current, promised, answer, closed>>

ExecutorInit ==
  /\ accepted = <<>> /\ current = <<>> /\ promised = {}
  /\ answer = [t \in Task |-> "none"]
  /\ closed = FALSE

(* A task is accepted at the end of the queue, with or without a promise. *)
Accept(t) ==
  /\ accepted' = Append(accepted, t)
  /\ promised' \in {promised, promised \cup {t}}
  /\ UNCHANGED <<current, answer>> /\ closed' = closed

(* The first task of the queue begins. *)
Begin ==
  /\ ~closed
  /\ accepted # <<>>
  /\ current' = <<Head(accepted)>>
  /\ accepted' = Tail(accepted)

BeginTask ==
  /\ current = <<>>
  /\ Begin
  /\ UNCHANGED <<promised, answer>> /\ closed' = closed

(* The task returns and is answered; the next may begin in the same step. *)
FinishTask ==
  /\ current # <<>>
  /\ answer' = [t \in Task |-> IF t = Head(current) /\ t \in promised
                               THEN "true" ELSE answer[t]]
  /\ \/ current' = <<>> /\ UNCHANGED accepted
     \/ Begin
  /\ UNCHANGED promised /\ closed' = closed

(* The executor is closed and may drop the last of the tasks it accepted:   *)
(* not the one being executed, and never without an answer.                 *)
Close ==
  /\ closed' = TRUE
  /\ \E n \in 0 .. Len(accepted) :
       /\ accepted' = SubSeq(accepted, 1, n)
       /\ answer' = [t \in Task |->
            IF t \in promised \cap ToSet(SubSeq(accepted, n + 1, Len(accepted)))
            THEN "false" ELSE answer[t]]
  /\ UNCHANGED <<current, promised>>

ExecutorNext == (\E t \in Task : Accept(t)) \/ BeginTask \/ FinishTask \/ Close

ExecutorSpec == ExecutorInit /\ [][ExecutorNext]_executorVars
=============================================================================
