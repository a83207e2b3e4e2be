-------------------------------- MODULE Fifo --------------------------------
(***************************************************************************)
(* The bounded queue of rpc/fifo.h, a monitor of one mutex and two         *)
(* condition variables.  It hands the jobs of ThrPool from the threads     *)
(* that add them to the workers.                                           *)
(*                                                                         *)
(* A thread holds the mutex from the top of the loop of enq or deq to its  *)
(* return or its next wait, so that is one step.  A thread that was woken  *)
(* has to get the mutex like any other, and a thread that enters meanwhile *)
(* may get it first.  pthread_cond_wait may also return without a signal.  *)
(***************************************************************************)
EXTENDS Integers, Sequences, FiniteSets

CONSTANTS Producers,  \* threads that call enq
          Workers,    \* threads that call deq, over and over
          Jobs,       \* what is enqueued, each once
          limit       \* max_: the capacity, or 0 for none

ASSUME FifoAssumption ==
  /\ limit \in Nat
  /\ IsFiniteSet(Producers) /\ IsFiniteSet(Workers)
  /\ Producers \cap Workers = {}

VARIABLES q_,    \* the queue
          todo,  \* the jobs that were not given to enq yet
          pc,    \* "out", "in" (has or wants the mutex) or "wait" (on a condition)
          job    \* the job that a producer enqueues, and whether it may block

vars == <<q_, todo, pc, job>>

Threads == Producers \cup Workers
Job     == [job : Jobs, blocking : BOOLEAN]
NoJob   == [job |-> {}, blocking |-> FALSE]

Init ==
  /\ q_ = <<>>
  /\ todo = Jobs
  /\ pc = [t \in Threads |-> "out"]
  /\ job = [p \in Producers |-> NoJob]

\* Mutant: one job too many.
HasSpace_one_more == limit = 0 \/ Len(q_) <= limit

HasSpace == limit = 0 \/ Len(q_) < limit

At(S, place) == {t \in S : pc[t] = place}

\* pthread_cond_signal wakes one of the threads of S that wait, if one does.
Signal(t, then, S) ==
  IF At(S, "wait") = {}
  THEN pc' = [pc EXCEPT ![t] = then]
  ELSE \E w \in At(S, "wait") : pc' = [pc EXCEPT ![t] = then, ![w] = "in"]

CallEnq(p, j, blocking) ==
  /\ pc[p] = "out"
  /\ todo' = todo \ {j}
  /\ job' = [job EXCEPT ![p] = [job |-> j, blocking |-> blocking]]
  /\ pc' = [pc EXCEPT ![p] = "in"]
  /\ UNCHANGED q_

\* Mutant: a worker is told only when the queue was empty.
Push_tells_when_empty(p) ==
  /\ pc[p] = "in"
  /\ HasSpace
  /\ q_' = Append(q_, job[p].job)
  /\ IF q_ = <<>> THEN Signal(p, "out", Workers) ELSE pc' = [pc EXCEPT ![p] = "out"]
  /\ UNCHANGED <<todo, job>>

\* Mutant: no worker is told.
Push_silently(p) ==
  /\ pc[p] = "in"
  /\ HasSpace
  /\ q_' = Append(q_, job[p].job)
  /\ pc' = [pc EXCEPT ![p] = "out"]
  /\ UNCHANGED <<todo, job>>

\* Mutant: the newest job comes first.
Push_front(p) ==
  /\ pc[p] = "in"
  /\ HasSpace
  /\ q_' = <<job[p].job>> \o q_
  /\ Signal(p, "out", Workers)
  /\ UNCHANGED <<todo, job>>

\* enq: add the job and tell a worker, wait for space, or give up.
Push(p) ==
  /\ pc[p] = "in"
  /\ HasSpace
  /\ q_' = Append(q_, job[p].job)
  /\ Signal(p, "out", Workers)
  /\ UNCHANGED <<todo, job>>

\* Mutant: the job is given away before there is space for it.
WaitForSpace_without_job(p) ==
  /\ pc[p] = "in"
  /\ ~ HasSpace
  /\ job[p].blocking
  /\ job' = [job EXCEPT ![p] = NoJob]
  /\ pc' = [pc EXCEPT ![p] = "wait"]
  /\ UNCHANGED <<q_, todo>>

WaitForSpace(p) ==
  /\ pc[p] = "in"
  /\ ~ HasSpace
  /\ job[p].blocking
  /\ pc' = [pc EXCEPT ![p] = "wait"]
  /\ UNCHANGED <<q_, todo, job>>

GiveUp(p) ==
  /\ pc[p] = "in"
  /\ ~ HasSpace
  /\ ~ job[p].blocking
  /\ pc' = [pc EXCEPT ![p] = "out"]
  /\ UNCHANGED <<q_, todo, job>>

CallDeq(w) ==
  /\ pc[w] = "out"
  /\ pc' = [pc EXCEPT ![w] = "in"]
  /\ UNCHANGED <<q_, todo, job>>

\* Mutant: a producer is told only when the queue was full.
Pop_tells_when_full(w) ==
  /\ pc[w] = "in"
  /\ q_ # <<>>
  /\ q_' = Tail(q_)
  /\ IF Len(q_) = limit THEN Signal(w, "out", Producers)
                        ELSE pc' = [pc EXCEPT ![w] = "out"]
  /\ UNCHANGED <<todo, job>>

\* Mutant: no producer is told.
Pop_silently(w) ==
  /\ pc[w] = "in"
  /\ q_ # <<>>
  /\ q_' = Tail(q_)
  /\ pc' = [pc EXCEPT ![w] = "out"]
  /\ UNCHANGED <<todo, job>>

\* Mutant: the job is read and stays in the queue while it is the only one.
Pop_keeps_last(w) ==
  /\ pc[w] = "in"
  /\ q_ # <<>>
  /\ q_' = IF Len(q_) = 1 THEN q_ ELSE Tail(q_)
  /\ pc' = [pc EXCEPT ![w] = "out"]
  /\ UNCHANGED <<todo, job>>

\* deq: take the oldest job and tell a producer that there is space, or wait.
Pop(w) ==
  /\ pc[w] = "in"
  /\ q_ # <<>>
  /\ q_' = Tail(q_)
  /\ IF limit # 0 /\ Len(q_') < limit THEN Signal(w, "out", Producers)
                                      ELSE pc' = [pc EXCEPT ![w] = "out"]
  /\ UNCHANGED <<todo, job>>

WaitForJob(w) ==
  /\ pc[w] = "in"
  /\ q_ = <<>>
  /\ pc' = [pc EXCEPT ![w] = "wait"]
  /\ UNCHANGED <<q_, todo, job>>

Spurious(t) ==
  /\ pc[t] = "wait"
  /\ pc' = [pc EXCEPT ![t] = "in"]
  /\ UNCHANGED <<q_, todo, job>>

EnqStep(p) == Push(p) \/ WaitForSpace(p) \/ GiveUp(p)
DeqStep(w) == Pop(w) \/ WaitForJob(w)

Next ==
  \/ \E p \in Producers :
       \/ \E j \in todo, blocking \in BOOLEAN : CallEnq(p, j, blocking)
       \/ EnqStep(p)
  \/ \E w \in Workers : CallDeq(w) \/ DeqStep(w)
  \/ \E t \in Threads : Spurious(t)

\* A thread that wants the mutex gets it in the end, and a worker that has
\* finished a job comes back for the next (ThrPool's workers loop over takeJob).
\* Nothing is assumed of which waiter a signal wakes, nor of the callers of enq.
Fairness ==
  /\ \A p \in Producers : WF_vars(EnqStep(p))
  /\ \A w \in Workers : WF_vars(DeqStep(w)) /\ WF_vars(CallDeq(w))

Spec == Init /\ [][Next]_vars /\ Fairness

-----------------------------------------------------------------------------
(* Properties.                                                             *)

TypeOK ==
  /\ q_ \in Seq(Jobs)
  /\ todo \subseteq Jobs
  /\ pc \in [Threads -> {"out", "in", "wait"}]
  /\ job \in [Producers -> Job \cup {NoJob}]
  /\ \A p \in Producers : pc[p] # "out" => job[p] \in Job

\* A producer that was woken looks again before it pushes, so one that enters
\* in between cannot make the queue longer than its limit.
Bounded == limit # 0 => Len(q_) <= limit

\* No wake-up is lost: while workers sleep, there is a worker awake for each job
\* of the queue, though every enq signals only once and a worker that enters may
\* take a job before the worker it was signalled for.
JobsAreSeen == At(Workers, "wait") # {} => Len(q_) <= Cardinality(At(Workers, "in"))

\* Likewise for producers: there is one awake for each free place.
SpaceIsSeen ==
  At(Producers, "wait") # {} => limit - Len(q_) <= Cardinality(At(Producers, "in"))

\* A blocking enq returns: a producer that waits for space gets it, because jobs
\* end and the callers' jobs are finitely many.
EnqReturns == \A p \in Producers : pc[p] # "out" ~> pc[p] = "out"
=============================================================================
