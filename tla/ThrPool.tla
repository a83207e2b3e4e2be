------------------------------ MODULE ThrPool ------------------------------
(***************************************************************************)
(* The thread pool of rpc/thr_pool.h over the queue of rpc/fifo.h.         *)
(*                                                                         *)
(* addObjJob makes an object that holds the call (objfunc_wrapper) and     *)
(* gives its address to the queue; the worker that takes it calls and then *)
(* deletes it.  The constructor, the destructor and the loop of a worker   *)
(* are in librpc.a only.  The destructor enqueues one job without a        *)
(* function (here a pill) for each worker, which ends the worker that      *)
(* takes it, and joins the workers.  A pool is destroyed by one thread     *)
(* after the last addObjJob has returned, as any C++ object must be.       *)
(***************************************************************************)
EXTENDS Fifo

CONSTANTS Owner,  \* the thread that destroys the pool
          Pills,  \* the jobs of the destructor
          None    \* what a worker has before it takes a job, and after it

ASSUME PoolAssumption ==
  /\ Owner \in Producers
  /\ Pills \subseteq Jobs
  /\ Workers # {}
  /\ IsFiniteSet(Pills) /\ Cardinality(Pills) = Cardinality(Workers)
  /\ None \notin Jobs

VARIABLES blockadd_,  \* the pool waits for space instead of refusing a job
          wrapper,    \* the objects of the jobs: "none", "live" or "deleted"
          taken,      \* what each worker has taken; a pill ends it
          calling,    \* the workers that are in the method of their job
          ran,        \* how often the method of each job was called
          refused,    \* the jobs for which addObjJob returned false
          pool        \* "up", "closing" (in the destructor) or "gone"

poolVars == <<blockadd_, wrapper, taken, calling, ran, refused, pool>>

Wrappers == Jobs \ Pills

PoolInit ==
  /\ Init
  /\ blockadd_ \in BOOLEAN
  /\ wrapper = [j \in Wrappers |-> "none"]
  /\ taken = [w \in Workers |-> None]
  /\ calling = {}
  /\ ran = [j \in Wrappers |-> 0]
  /\ refused = {}
  /\ pool = "up"

addObjJob(p, j) ==
  /\ pool = "up"
  /\ CallEnq(p, j, blockadd_)
  /\ wrapper' = [wrapper EXCEPT ![j] = "live"]
  /\ UNCHANGED <<blockadd_, taken, calling, ran, refused, pool>>

\* A refused job's object is left as it is: nobody deletes it.
addJob(p) ==
  \/ (Push(p) \/ WaitForSpace(p)) /\ UNCHANGED poolVars
  \/ /\ GiveUp(p)
     /\ refused' = refused \cup {job[p].job}
     /\ UNCHANGED <<blockadd_, wrapper, taken, calling, ran, pool>>

\* do_worker: takeJob, unless the last one was a pill.
CallTakeJob(w) ==
  /\ taken[w] = None
  /\ CallDeq(w)
  /\ UNCHANGED poolVars

takeJob(w) ==
  \/ /\ Pop(w)
     /\ taken' = [taken EXCEPT ![w] = Head(q_)]
     /\ UNCHANGED <<blockadd_, wrapper, calling, ran, refused, pool>>
  \/ WaitForJob(w) /\ UNCHANGED poolVars

\* Mutant: the object is deleted before the call.
Call_deletes(w) ==
  /\ taken[w] \in Wrappers /\ w \notin calling
  /\ calling' = calling \cup {w}
  /\ ran' = [ran EXCEPT ![taken[w]] = @ + 1]
  /\ wrapper' = [wrapper EXCEPT ![taken[w]] = "deleted"]
  /\ UNCHANGED <<vars, blockadd_, taken, refused, pool>>

\* objfunc_wrapper::func: the method is called with what the object holds, and
\* the object is deleted when the method has returned.
Call(w) ==
  /\ taken[w] \in Wrappers /\ w \notin calling
  /\ calling' = calling \cup {w}
  /\ ran' = [ran EXCEPT ![taken[w]] = @ + 1]
  /\ UNCHANGED <<vars, blockadd_, wrapper, taken, refused, pool>>

Delete(w) ==
  /\ w \in calling
  /\ calling' = calling \ {w}
  /\ wrapper' = [wrapper EXCEPT ![taken[w]] = "deleted"]
  /\ taken' = [taken EXCEPT ![w] = None]
  /\ UNCHANGED <<vars, blockadd_, ran, refused, pool>>

\* ~ThrPool: nobody is in addObjJob; a pill for each worker, in blocking calls
\* of enq; then pthread_join of each worker.
Destroy ==
  /\ pool = "up"
  /\ At(Producers, "out") = Producers
  /\ pool' = "closing"
  /\ UNCHANGED <<vars, blockadd_, wrapper, taken, calling, ran, refused>>

EnqPill(j) ==
  /\ pool = "closing"
  /\ CallEnq(Owner, j, TRUE)
  /\ UNCHANGED poolVars

Join ==
  /\ pool = "closing"
  /\ pc[Owner] = "out"
  /\ Pills \cap todo = {}
  /\ \A w \in Workers : taken[w] \in Pills
  /\ pool' = "gone"
  /\ UNCHANGED <<vars, blockadd_, wrapper, taken, calling, ran, refused>>

Close == \/ \E j \in Pills \cap todo : EnqPill(j)
         \/ Join

PoolNext ==
  \/ \E p \in Producers :
       \/ \E j \in Wrappers \cap todo : addObjJob(p, j)
       \/ addJob(p)
  \/ \E w \in Workers : CallTakeJob(w) \/ takeJob(w) \/ Call(w) \/ Delete(w)
  \/ Destroy \/ Close
  \/ \E t \in Threads : Spurious(t) /\ UNCHANGED poolVars

\* As in Fifo; and the methods of the jobs return, and the owner goes on with
\* the destructor.  Nobody has to add a job or to destroy the pool.
PoolFairness ==
  /\ \A p \in Producers : WF_<<vars, poolVars>>(addJob(p))
  /\ \A w \in Workers : /\ WF_<<vars, poolVars>>(CallTakeJob(w))
                        /\ WF_<<vars, poolVars>>(takeJob(w))
                        /\ WF_<<vars, poolVars>>(Call(w))
                        /\ WF_<<vars, poolVars>>(Delete(w))
  /\ WF_<<vars, poolVars>>(Close)

PoolSpec == PoolInit /\ [][PoolNext]_<<vars, poolVars>> /\ PoolFairness

-----------------------------------------------------------------------------
(* Properties.                                                             *)

PoolTypeOK ==
  /\ blockadd_ \in BOOLEAN
  /\ wrapper \in [Wrappers -> {"none", "live", "deleted"}]
  /\ taken \in [Workers -> Jobs \cup {None}]
  /\ calling \subseteq Workers
  /\ ran \in [Wrappers -> {0, 1}]
  /\ refused \subseteq Wrappers
  /\ pool \in {"up", "closing", "gone"}

\* Where a job is: with a producer in enq, in the queue, with a worker.
InEnq(j)  == {p \in Producers : pc[p] # "out" /\ job[p].job = j}
InQueue(j) == {k \in DOMAIN q_ : q_[k] = j}
Taken(j)  == {w \in Workers : taken[w] = j}

\* The object of a job has one holder from addObjJob to the end of the call, so
\* it is called once and deleted once, by that holder, and a job that was not
\* refused is not lost.  Only a refused job's object stays behind.
OneHolder ==
  \A j \in Wrappers :
    Cardinality(InEnq(j)) + Cardinality(InQueue(j)) + Cardinality(Taken(j))
      = IF wrapper[j] = "live" /\ j \notin refused THEN 1 ELSE 0

\* The destructor returns when every job that was accepted has been run and no
\* thread uses the queue ("fifo is to be deleted only when no threads are using
\* it!", fifo.h): the pills are behind the jobs, and a pill takes one worker.
Drained ==
  pool = "gone" =>
    /\ q_ = <<>> /\ At(Threads, "out") = Threads
    /\ \A j \in Wrappers \ (todo \cup refused) : ran[j] = 1 /\ wrapper[j] = "deleted"

\* The destructor returns, however full the queue and whoever sleeps.
DestructorReturns == pool = "closing" ~> pool = "gone"

\* A job that addObjJob accepts runs.
AcceptedJobsRun == \A j \in Wrappers : InQueue(j) # {} ~> ran[j] = 1
=============================================================================
