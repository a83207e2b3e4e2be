--------------------------- MODULE ThrPoolProofs ---------------------------
(***************************************************************************)
(* The pool uses its queue as Fifo says: every step of the pool is a step  *)
(* of Fifo or leaves the queue alone.  So what is proved of the queue      *)
(* holds in the pool, for any number of threads, jobs and any limit.       *)
(* Then, from an invariant of the pool's own (PInv): a job's object has one *)
(* holder, and the destructor leaves nothing behind.                       *)
(***************************************************************************)
EXTENDS ThrPool, FifoProofs

\* What PoolNext needs to be a step of Fifo: the flag that addJob passes on.
FlagOK == blockadd_ \in BOOLEAN

\* A step of the pool is a step of its queue, or leaves the queue alone.
LEMMA PoolStep == FlagOK /\ [PoolNext]_<<vars, poolVars>> => [Next]_vars /\ FlagOK'
<1> SUFFICES ASSUME FlagOK, [PoolNext]_<<vars, poolVars>>
             PROVE  [Next]_vars /\ FlagOK'
  OBVIOUS
<1> USE DEF FlagOK
<1>1. ASSUME NEW p \in Producers, NEW j \in Wrappers \cap todo, addObjJob(p, j)
      PROVE  Next /\ FlagOK'
  BY <1>1 DEF addObjJob, Next
<1>2. ASSUME NEW p \in Producers, addJob(p)
      PROVE  Next /\ FlagOK'
  BY <1>2 DEF addJob, Next, EnqStep, poolVars
<1>3. ASSUME NEW w \in Workers, CallTakeJob(w)
      PROVE  Next /\ FlagOK'
  BY <1>3 DEF CallTakeJob, Next, poolVars
<1>4. ASSUME NEW w \in Workers, takeJob(w)
      PROVE  Next /\ FlagOK'
  BY <1>4 DEF takeJob, Next, DeqStep, poolVars
<1>5. ASSUME NEW w \in Workers, Call(w) \/ Delete(w)
      PROVE  UNCHANGED vars /\ FlagOK'
  BY <1>5 DEF Call, Delete
<1>6. ASSUME Destroy \/ Join
      PROVE  UNCHANGED vars /\ FlagOK'
  BY <1>6 DEF Destroy, Join
<1>7. ASSUME NEW j \in Pills \cap todo, EnqPill(j)
      PROVE  Next /\ FlagOK'
  BY <1>7, PoolAssumption DEF EnqPill, Next, poolVars
<1>8. ASSUME NEW t \in Threads, Spurious(t), UNCHANGED poolVars
      PROVE  Next /\ FlagOK'
  BY <1>8 DEF Next, poolVars
<1>9. CASE UNCHANGED <<vars, poolVars>>
  BY <1>9 DEF poolVars
<1>10. CASE PoolNext
  BY <1>10, <1>1, <1>2, <1>3, <1>4, <1>5, <1>6, <1>7, <1>8 DEF PoolNext, Close
<1> QED BY <1>9, <1>10

\* Every behaviour of the pool is one of its queue's.
THEOREM PoolUsesFifo == PoolSpec => Init /\ [][Next]_vars
<1>1. PoolInit => Init /\ FlagOK
  BY DEF PoolInit, FlagOK
<1> QED BY <1>1, PoolStep, PTL DEF PoolSpec

\* In the pool too, a thread in enq has its job, the queue keeps its limit, and
\* no wake-up is lost.
THEOREM PoolKeepsQueue == PoolSpec => [](TypeOK /\ Bounded /\ JobsAreSeen /\ SpaceIsSeen)
<1>1. IInv => TypeOK /\ Bounded /\ JobsAreSeen /\ SpaceIsSeen
  BY DEF IInv
<1> QED BY <1>1, PoolUsesFifo, InitInv, NextInv, PTL

-----------------------------------------------------------------------------
(* Who has a job.  OneHolder counts; the proof speaks of the holders        *)
(* themselves, and counts at the end.                                       *)

Busy(p) == pc[p] # "out"

\* No job is in two places, and a job that was not given to enq is in none.
Apart ==
  /\ \A p, r \in Producers : Busy(p) /\ Busy(r) /\ job[p].job = job[r].job => p = r
  /\ \A k, l \in DOMAIN q_ : q_[k] = q_[l] => k = l
  /\ \A w, v \in Workers : taken[w] = taken[v] /\ taken[w] # None => w = v
  /\ \A p \in Producers, k \in DOMAIN q_ : Busy(p) => q_[k] # job[p].job
  /\ \A p \in Producers, w \in Workers : Busy(p) => taken[w] # job[p].job
  /\ \A k \in DOMAIN q_, w \in Workers : taken[w] # q_[k]
  /\ \A p \in Producers : Busy(p) => job[p].job \notin todo
  /\ \A k \in DOMAIN q_ : q_[k] \notin todo
  /\ \A w \in Workers : taken[w] \notin todo

Held(j) == \/ \E p \in Producers : Busy(p) /\ job[p].job = j
           \/ \E k \in DOMAIN q_ : q_[k] = j
           \/ \E w \in Workers : taken[w] = j

\* The life of a job's object.
Lives ==
  \A j \in Wrappers :
    /\ j \in todo <=> wrapper[j] = "none"
    /\ Held(j) <=> wrapper[j] = "live" /\ j \notin refused
    /\ ran[j] = 1 <=> wrapper[j] = "deleted" \/ \E w \in calling : taken[w] = j
    /\ j \in refused => wrapper[j] = "live"

\* A worker calls only what it has taken, and takes only when it has nothing.
Workings ==
  /\ \A w \in calling : taken[w] \in Wrappers
  /\ \A w \in Workers : Busy(w) => taken[w] = None

\* Pills come after the last job, in blocking calls of the owner.
PillsLast ==
  /\ pool = "up" => Pills \subseteq todo
  /\ pool # "up" => \A p \in Producers : Busy(p) => p = Owner /\ job[p].job \in Pills /\ job[p].blocking
  /\ \A k, l \in DOMAIN q_ : k < l /\ q_[k] \in Pills => q_[l] \in Pills
  /\ (\E w \in Workers : taken[w] \in Pills) => \A k \in DOMAIN q_ : q_[k] \in Pills

\* What Join has seen.
Closed ==
  pool = "gone" => /\ \A p \in Producers : ~ Busy(p)
                   /\ Pills \cap todo = {}
                   /\ \A w \in Workers : taken[w] \in Pills

PInv == IInv /\ PoolTypeOK /\ Apart /\ Lives /\ Workings /\ PillsLast /\ Closed

\* The invariant holds at the start.
LEMMA PoolInitInv == PoolInit => PInv
<1> SUFFICES ASSUME PoolInit PROVE PInv
  OBVIOUS
<1> USE DEF PoolInit, Init
<1>1. IInv
  BY InitInv
<1>2. PoolTypeOK
  BY DEF PoolTypeOK
<1>3. q_ = <<>> /\ DOMAIN q_ = {} /\ \A t \in Threads : ~ Busy(t)
  BY DEF Busy
<1>4. Producers \subseteq Threads /\ Workers \subseteq Threads
  BY DEF Threads
<1>5. Apart
  BY <1>3, <1>4, PoolAssumption DEF Apart
<1>6. \A j \in Wrappers : ~ Held(j)
  BY <1>3, <1>4, PoolAssumption DEF Held, Wrappers
<1>7. Lives
  BY <1>6 DEF Lives, Wrappers
<1>8. Workings
  BY DEF Workings
<1>9. PillsLast
  BY <1>3, <1>4, PoolAssumption DEF PillsLast
<1>10. Closed
  BY DEF Closed
<1> QED BY <1>1, <1>2, <1>5, <1>7, <1>8, <1>9, <1>10 DEF PInv

\* A signal leaves everyone in or out of the monitor.
LEMMA SignalBusy ==
  ASSUME TypeOK, NEW S, S \subseteq Threads, NEW t \in Threads, t \notin S,
         pc[t] = "in", Signal(t, "out", S)
  PROVE  /\ pc'[t] = "out"
         /\ \A u \in Threads \ {t} : pc'[u] = "out" <=> pc[u] = "out"
<1>1. pc \in [Threads -> {"out", "in", "wait"}]
  BY DEF TypeOK
<1>2. CASE At(S, "wait") = {}
  BY <1>1, <1>2 DEF Signal
<1>3. CASE At(S, "wait") # {}
  <2>1. PICK w \in At(S, "wait") : pc' = [pc EXCEPT ![t] = "out", ![w] = "in"]
    BY <1>3 DEF Signal
  <2>2. w \in S /\ pc[w] = "wait" /\ w # t
    BY <2>1 DEF At
  <2> QED BY <1>1, <2>1, <2>2
<1> QED BY <1>2, <1>3

\* What is left of the invariant beside the queue's own.
Rest == PoolTypeOK /\ Apart /\ Lives /\ Workings /\ PillsLast /\ Closed

\* Every step of the pool keeps the invariant.
LEMMA PoolNextInv == PInv /\ [PoolNext]_<<vars, poolVars>> => PInv'
<1> SUFFICES ASSUME PInv, [PoolNext]_<<vars, poolVars>> PROVE PInv'
  OBVIOUS
<1>i. IInv /\ Rest
  BY DEF PInv, Rest
<1>q. IInv'
  BY <1>i, PoolStep, NextInv DEF Rest, PoolTypeOK, FlagOK
<1>t. /\ q_ \in Seq(Jobs) /\ todo \subseteq Jobs
      /\ pc \in [Threads -> {"out", "in", "wait"}]
      /\ job \in [Producers -> Job \cup {NoJob}]
      /\ \A p \in Producers : pc[p] # "out" => job[p].job \in Jobs
      /\ Producers \subseteq Threads /\ Workers \subseteq Threads
      /\ Producers \cap Workers = {}
      /\ None \notin Jobs /\ Pills \subseteq Jobs /\ Owner \in Producers
      /\ PoolTypeOK /\ Apart /\ Lives /\ Workings /\ PillsLast /\ Closed
  BY <1>i, PoolAssumption, FifoAssumption DEF IInv, TypeOK, Job, Threads, Rest
<1>1. ASSUME NEW p \in Producers, NEW j \in Wrappers \cap todo, addObjJob(p, j)
      PROVE  Rest'
  <2>a. /\ ~ Busy(p) /\ Busy(p)' /\ job'[p].job = j
        /\ \A r \in Producers \ {p} : (Busy(r)' <=> Busy(r)) /\ job'[r] = job[r]
    BY <1>1, <1>t DEF addObjJob, CallEnq, Busy
  <2>1. PoolTypeOK'
    BY <1>1, <1>t DEF addObjJob, CallEnq, Wrappers, PoolTypeOK
  <2>2. Apart'
    BY <1>1, <1>t DEF addObjJob, CallEnq, Wrappers, Apart, Busy
  <2>3. Lives'
    <3>1. ASSUME NEW i \in Wrappers PROVE Held(i)' <=> Held(i) \/ i = j
      BY <1>1, <1>t, <2>a DEF addObjJob, CallEnq, Held
    <3>2. ~ Held(j) /\ j \notin refused /\ wrapper[j] = "none"
      BY <1>1, <1>t DEF Lives
    <3> QED BY <1>1, <1>t, <3>1, <3>2 DEF addObjJob, CallEnq, Lives, PoolTypeOK
  <2>4. Workings'
    BY <1>1, <1>t DEF addObjJob, CallEnq, Wrappers, Workings, Busy
  <2>5. PillsLast'
    BY <1>1, <1>t DEF addObjJob, CallEnq, Wrappers, PillsLast, Busy
  <2>6. Closed'
    BY <1>1, <1>t DEF addObjJob, CallEnq, Wrappers, Closed, Busy
  <2> QED BY <2>1, <2>2, <2>3, <2>4, <2>5, <2>6 DEF Rest
<1>2. ASSUME NEW p \in Producers, Push(p), UNCHANGED poolVars
      PROVE  Rest'
  <2>a. /\ pc[p] = "in" /\ Busy(p) /\ ~ Busy(p)' /\ job' = job
        /\ \A u \in Threads \ {p} : Busy(u)' <=> Busy(u)
    BY <1>2, <1>t, <1>i, SignalBusy DEF Push, Busy, IInv
  <2>b. /\ Len(q_) \in Nat /\ DOMAIN q_ = 1..Len(q_) /\ DOMAIN q_' = 1..(Len(q_) + 1)
        /\ \A k \in DOMAIN q_ : q_'[k] = q_[k]
        /\ q_'[Len(q_) + 1] = job[p].job /\ job[p].job \in Jobs
        /\ Len(q_) + 1 \notin DOMAIN q_ /\ DOMAIN q_' = DOMAIN q_ \cup {Len(q_) + 1}
    BY <1>2, <1>t, <2>a DEF Push, Busy
  <2>c. todo' = todo /\ UNCHANGED poolVars
    BY <1>2 DEF Push
  <2>1. PoolTypeOK'
    BY <1>2, <1>t DEF Push, poolVars, Wrappers, PoolTypeOK
  <2>2. Apart'
    BY <1>t, <2>a, <2>b, <2>c DEF Apart, poolVars
  <2>3. Lives'
    <3>1. ASSUME NEW i \in Wrappers PROVE Held(i)' <=> Held(i)
      BY <1>t, <2>a, <2>b, <2>c DEF Held, poolVars
    <3> QED BY <1>t, <2>c, <3>1 DEF Lives, poolVars
  <2>4. Workings'
    BY <1>t, <2>a, <2>c DEF Workings, poolVars
  <2>5. PillsLast'
    <3>1. ASSUME NEW k \in DOMAIN q_', NEW l \in DOMAIN q_', k < l, q_'[k] \in Pills
          PROVE  q_'[l] \in Pills
      BY <1>t, <2>a, <2>b, <3>1 DEF PillsLast, Apart
    <3>2. ASSUME NEW w \in Workers, taken[w] \in Pills, NEW k \in DOMAIN q_'
          PROVE  q_'[k] \in Pills
      BY <1>t, <2>a, <2>b, <3>2 DEF PillsLast, Apart
    <3> QED BY <1>t, <2>a, <2>c, <3>1, <3>2 DEF PillsLast, poolVars
  <2>6. Closed'
    BY <1>t, <2>a, <2>c DEF Closed, poolVars
  <2> QED BY <2>1, <2>2, <2>3, <2>4, <2>5, <2>6 DEF Rest
<1>3. ASSUME NEW p \in Producers, WaitForSpace(p), UNCHANGED poolVars
      PROVE  Rest'
  <2>a. /\ UNCHANGED <<q_, todo, job, poolVars>> /\ \A u \in Threads : Busy(u)' <=> Busy(u)
    BY <1>3, <1>t DEF WaitForSpace, Busy
  <2>1. PoolTypeOK'
    BY <1>3, <1>t DEF WaitForSpace, poolVars, Wrappers, PoolTypeOK
  <2>2. Apart'
    BY <1>t, <2>a DEF Apart, poolVars
  <2>3. Lives'
    BY <1>t, <2>a DEF Lives, poolVars, Held
  <2>4. Workings'
    BY <1>t, <2>a DEF Workings, poolVars
  <2>5. PillsLast'
    BY <1>t, <2>a DEF PillsLast, poolVars
  <2>6. Closed'
    BY <1>t, <2>a DEF Closed, poolVars
  <2> QED BY <2>1, <2>2, <2>3, <2>4, <2>5, <2>6 DEF Rest
<1>4. ASSUME NEW p \in Producers, GiveUp(p), refused' = refused \cup {job[p].job},
             UNCHANGED <<blockadd_, wrapper, taken, calling, ran, pool>>
      PROVE  Rest'
  <2>a. /\ Busy(p) /\ ~ Busy(p)' /\ UNCHANGED <<q_, todo, job>> /\ ~ job[p].blocking
        /\ \A u \in Threads \ {p} : Busy(u)' <=> Busy(u)
    BY <1>4, <1>t DEF GiveUp, Busy
  <2>b. job[p].job \in Wrappers /\ pool = "up"
    BY <1>4, <1>t, <2>a DEF PillsLast, Apart, PoolTypeOK, Wrappers, Busy
  <2>1. PoolTypeOK'
    BY <1>4, <1>t, <2>b DEF PoolTypeOK
  <2>2. Apart'
    BY <1>4, <1>t, <2>a DEF Apart
  <2>3. Lives'
    <3>1. ASSUME NEW i \in Wrappers PROVE Held(i)' <=> Held(i) /\ i # job[p].job
      BY <1>4, <1>t, <2>a DEF Held, Apart
    <3>2. Held(job[p].job)
      BY <2>a DEF Held
    <3>3. wrapper[job[p].job] = "live"
      BY <1>t, <2>b, <3>2 DEF Lives
    <3> QED BY <1>4, <1>t, <2>a, <2>b, <3>1, <3>3 DEF Lives
  <2>4. Workings'
    BY <1>4, <1>t, <2>a DEF Workings
  <2>5. PillsLast'
    BY <1>4, <1>t, <2>a DEF PillsLast
  <2>6. Closed'
    BY <1>4, <1>t, <2>a DEF Closed
  <2> QED BY <2>1, <2>2, <2>3, <2>4, <2>5, <2>6 DEF Rest
<1>5. ASSUME NEW w \in Workers, CallTakeJob(w)
      PROVE  Rest'
  <2>1. PoolTypeOK'
    BY <1>5, <1>t DEF CallTakeJob, CallDeq, poolVars, Wrappers, PoolTypeOK
  <2>2. Apart'
    BY <1>5, <1>t DEF CallTakeJob, CallDeq, poolVars, Wrappers, Apart, Busy
  <2>3. Lives'
    BY <1>5, <1>t DEF CallTakeJob, CallDeq, poolVars, Wrappers, Lives, Held, Busy, Apart
  <2>4. Workings'
    BY <1>5, <1>t DEF CallTakeJob, CallDeq, poolVars, Wrappers, Workings, Busy
  <2>5. PillsLast'
    BY <1>5, <1>t DEF CallTakeJob, CallDeq, poolVars, Wrappers, PillsLast, Busy
  <2>6. Closed'
    BY <1>5, <1>t DEF CallTakeJob, CallDeq, poolVars, Wrappers, Closed, Busy
  <2> QED BY <2>1, <2>2, <2>3, <2>4, <2>5, <2>6 DEF Rest
<1>6. ASSUME NEW w \in Workers, Pop(w), taken' = [taken EXCEPT ![w] = Head(q_)],
             UNCHANGED <<blockadd_, wrapper, calling, ran, refused, pool>>
      PROVE  Rest'
  <2>a. /\ Busy(w) /\ ~ Busy(w)' /\ UNCHANGED <<todo, job>>
        /\ \A u \in Threads \ {w} : Busy(u)' <=> Busy(u)
    <3>1. pc[w] = "in" /\ UNCHANGED <<todo, job>>
      BY <1>6 DEF Pop
    <3>2. CASE Signal(w, "out", Producers)
      BY <1>t, <1>i, <3>1, <3>2, SignalBusy DEF Busy, IInv
    <3>3. CASE pc' = [pc EXCEPT ![w] = "out"]
      BY <1>t, <3>1, <3>3 DEF Busy
    <3> QED BY <1>6, <3>2, <3>3 DEF Pop
  <2>b. /\ Len(q_) \in Nat \ {0} /\ DOMAIN q_ = 1..Len(q_) /\ DOMAIN q_' = 1..(Len(q_) - 1)
        /\ \A k \in DOMAIN q_' : k + 1 \in DOMAIN q_ /\ q_'[k] = q_[k + 1]
        /\ Head(q_) = q_[1] /\ 1 \in DOMAIN q_ /\ q_[1] \in Jobs
    BY <1>6, <1>t DEF Pop
  <2>c. taken \in [Workers -> Jobs \cup {None}] /\ taken[w] = None /\ taken'[w] = q_[1]
        /\ \A v \in Workers \ {w} : taken'[v] = taken[v]
    BY <1>6, <1>t, <2>a, <2>b DEF PoolTypeOK, Workings
  <2>1. PoolTypeOK'
    BY <1>6, <1>t, <2>b, <2>c DEF PoolTypeOK
  <2>2. Apart'
    <3>1. \A k, l \in DOMAIN q_' : q_'[k] = q_'[l] => k = l
      BY <1>t, <2>b DEF Apart
    <3>2. \A u, v \in Workers : taken'[u] = taken'[v] /\ taken'[u] # None => u = v
      BY <1>t, <2>b, <2>c DEF Apart
    <3>3. \A k \in DOMAIN q_', v \in Workers : taken'[v] # q_'[k]
      BY <1>t, <2>b, <2>c DEF Apart
    <3>4. /\ \A p \in Producers, k \in DOMAIN q_' : Busy(p) => q_'[k] # job[p].job
          /\ \A k \in DOMAIN q_' : q_'[k] \notin todo
      BY <1>t, <2>b DEF Apart
    <3>5. /\ \A p \in Producers, v \in Workers : Busy(p) => taken'[v] # job[p].job
          /\ \A v \in Workers : taken'[v] \notin todo
      BY <1>t, <2>b, <2>c DEF Apart
    <3> QED BY <1>t, <2>a, <3>1, <3>2, <3>3, <3>4, <3>5 DEF Apart
  <2>3. Lives'
    <3>1. ASSUME NEW i \in Wrappers PROVE Held(i)' <=> Held(i)
      <4>1. (\E k \in DOMAIN q_ : q_[k] = i) <=> i = q_[1] \/ \E k \in DOMAIN q_' : q_'[k] = i
        <5>1. ASSUME NEW k \in DOMAIN q_, q_[k] = i, k # 1 PROVE \E l \in DOMAIN q_' : q_'[l] = i
          <6>1. k - 1 \in DOMAIN q_' /\ q_'[k - 1] = q_[k]
            BY <2>b, <5>1
          <6> QED BY <5>1, <6>1
        <5> QED BY <2>b, <5>1
      <4>2. (\E v \in Workers : taken'[v] = i) <=> i = q_[1] \/ \E v \in Workers : taken[v] = i
        BY <1>t, <2>c DEF Wrappers
      <4>3. (\E p \in Producers : Busy(p)' /\ job'[p].job = i) <=> \E p \in Producers : Busy(p) /\ job[p].job = i
        BY <1>t, <2>a
      <4> QED BY <4>1, <4>2, <4>3 DEF Held
    <3>2. \A v \in calling : v # w /\ taken'[v] = taken[v]
      BY <1>t, <2>c DEF Workings, Wrappers, PoolTypeOK
    <3> QED BY <1>6, <1>t, <2>a, <3>1, <3>2 DEF Lives
  <2>4. Workings'
    BY <1>6, <1>t, <2>a, <2>c DEF Workings, PoolTypeOK, Wrappers
  <2>5. PillsLast'
    <3>1. \A k, l \in DOMAIN q_' : k < l /\ q_'[k] \in Pills => q_'[l] \in Pills
      BY <1>t, <2>b DEF PillsLast
    <3>2. ASSUME NEW v \in Workers, taken'[v] \in Pills, NEW k \in DOMAIN q_' PROVE q_'[k] \in Pills
      BY <1>t, <2>b, <2>c, <3>2 DEF PillsLast
    <3> QED BY <1>6, <1>t, <2>a, <3>1, <3>2 DEF PillsLast
  <2>6. Closed'
    BY <1>6, <1>t, <2>a, <2>c DEF Closed
  <2> QED BY <2>1, <2>2, <2>3, <2>4, <2>5, <2>6 DEF Rest
<1>7. ASSUME NEW w \in Workers, WaitForJob(w), UNCHANGED poolVars
      PROVE  Rest'
  <2>a. /\ UNCHANGED <<q_, todo, job, poolVars>> /\ \A u \in Threads : Busy(u)' <=> Busy(u)
    BY <1>7, <1>t DEF WaitForJob, Busy
  <2>1. PoolTypeOK'
    BY <1>7, <1>t DEF WaitForJob, poolVars, Wrappers, PoolTypeOK
  <2>2. Apart'
    BY <1>t, <2>a DEF Apart, poolVars
  <2>3. Lives'
    BY <1>t, <2>a DEF Lives, poolVars, Held
  <2>4. Workings'
    BY <1>t, <2>a DEF Workings, poolVars
  <2>5. PillsLast'
    BY <1>t, <2>a DEF PillsLast, poolVars
  <2>6. Closed'
    BY <1>t, <2>a DEF Closed, poolVars
  <2> QED BY <2>1, <2>2, <2>3, <2>4, <2>5, <2>6 DEF Rest
<1>8. ASSUME NEW w \in Workers, Call(w)
      PROVE  Rest'
  <2>a. /\ taken[w] \in Wrappers /\ Held(taken[w])
        /\ \A v \in calling : taken[v] # taken[w]
    BY <1>8, <1>t DEF Call, Held, Apart, PoolTypeOK, Wrappers
  <2>b. ran[taken[w]] = 0 /\ wrapper[taken[w]] = "live"
    BY <1>t, <2>a DEF Lives, PoolTypeOK
  <2>1. PoolTypeOK'
    BY <1>8, <1>t, <2>a, <2>b DEF Call, PoolTypeOK
  <2>2. Apart'
    BY <1>8, <1>t DEF Call, vars, Wrappers, Apart, Busy
  <2>3. Lives'
    <3>1. ASSUME NEW i \in Wrappers PROVE Held(i)' <=> Held(i)
      BY <1>8 DEF Call, vars, Held, Busy
    <3> QED BY <1>8, <1>t, <2>a, <2>b, <3>1 DEF Call, vars, Lives, PoolTypeOK
  <2>4. Workings'
    BY <1>8, <1>t DEF Call, vars, Wrappers, Workings, Busy
  <2>5. PillsLast'
    BY <1>8, <1>t DEF Call, vars, Wrappers, PillsLast, Busy
  <2>6. Closed'
    BY <1>8, <1>t DEF Call, vars, Wrappers, Closed, Busy
  <2> QED BY <2>1, <2>2, <2>3, <2>4, <2>5, <2>6 DEF Rest
<1>9. ASSUME NEW w \in Workers, Delete(w)
      PROVE  Rest'
  <2>a. /\ taken[w] \in Wrappers /\ taken[w] # None /\ Held(taken[w])
        /\ taken'[w] = None /\ \A v \in Workers \ {w} : taken'[v] = taken[v] /\ taken[v] # taken[w]
    BY <1>9, <1>t DEF Delete, Workings, Held, Apart, PoolTypeOK, Wrappers
  <2>1. PoolTypeOK'
    BY <1>9, <1>t DEF Delete, vars, Wrappers, PoolTypeOK
  <2>2. Apart'
    BY <1>9, <1>t DEF Delete, vars, Wrappers, Apart, Busy
  <2>3. Lives'
    <3>1. ASSUME NEW i \in Wrappers PROVE Held(i)' <=> Held(i) /\ i # taken[w]
      BY <1>9, <1>t, <2>a DEF Delete, vars, Held, Busy, Apart, Wrappers
    <3>2. wrapper[taken[w]] = "live" /\ ran[taken[w]] = 1 /\ taken[w] \notin refused /\ taken[w] \notin todo
      BY <1>9, <1>t, <2>a DEF Delete, Lives
    <3>3. ASSUME NEW i \in Wrappers, i # taken[w]
          PROVE  (\E v \in calling' : taken'[v] = i) <=> \E v \in calling : taken[v] = i
      BY <1>9, <1>t, <2>a, <3>3 DEF Delete, PoolTypeOK, Wrappers
    <3> QED BY <1>9, <1>t, <2>a, <3>1, <3>2, <3>3 DEF Delete, vars, Lives, PoolTypeOK
  <2>4. Workings'
    BY <1>9, <1>t DEF Delete, vars, Wrappers, Workings, Busy
  <2>5. PillsLast'
    BY <1>9, <1>t DEF Delete, vars, Wrappers, PillsLast, Busy
  <2>6. Closed'
    BY <1>9, <1>t, <2>a DEF Delete, vars, Closed, Wrappers
  <2> QED BY <2>1, <2>2, <2>3, <2>4, <2>5, <2>6 DEF Rest
<1>10. ASSUME Destroy
      PROVE  Rest'
  <2>1. PoolTypeOK'
    BY <1>10, <1>t DEF Destroy, vars, Wrappers, At, PoolTypeOK
  <2>2. Apart'
    BY <1>10, <1>t DEF Destroy, vars, Wrappers, At, Apart, Busy
  <2>3. Lives'
    BY <1>10, <1>t DEF Destroy, vars, Wrappers, At, Lives, Held, Busy, Apart
  <2>4. Workings'
    BY <1>10, <1>t DEF Destroy, vars, Wrappers, At, Workings, Busy
  <2>5. PillsLast'
    BY <1>10, <1>t DEF Destroy, vars, Wrappers, At, PillsLast, Busy
  <2>6. Closed'
    BY <1>10, <1>t DEF Destroy, vars, Wrappers, At, Closed, Busy
  <2> QED BY <2>1, <2>2, <2>3, <2>4, <2>5, <2>6 DEF Rest
<1>11. ASSUME NEW j \in Pills \cap todo, EnqPill(j)
      PROVE  Rest'
  <2>1. PoolTypeOK'
    BY <1>11, <1>t DEF EnqPill, CallEnq, poolVars, Wrappers, PoolTypeOK
  <2>2. Apart'
    BY <1>11, <1>t DEF EnqPill, CallEnq, poolVars, Wrappers, Apart, Busy
  <2>3. Lives'
    BY <1>11, <1>t DEF EnqPill, CallEnq, poolVars, Wrappers, Lives, Held, Busy, Apart
  <2>4. Workings'
    BY <1>11, <1>t DEF EnqPill, CallEnq, poolVars, Wrappers, Workings, Busy
  <2>5. PillsLast'
    BY <1>11, <1>t DEF EnqPill, CallEnq, poolVars, Wrappers, PillsLast, Busy
  <2>6. Closed'
    BY <1>11, <1>t DEF EnqPill, CallEnq, poolVars, Wrappers, Closed, Busy
  <2> QED BY <2>1, <2>2, <2>3, <2>4, <2>5, <2>6 DEF Rest
<1>12. ASSUME Join
      PROVE  Rest'
  <2>1. PoolTypeOK'
    BY <1>12, <1>t DEF Join, vars, Wrappers, PoolTypeOK
  <2>2. Apart'
    BY <1>12, <1>t DEF Join, vars, Wrappers, Apart, Busy
  <2>3. Lives'
    BY <1>12, <1>t DEF Join, vars, Wrappers, Lives, Held, Busy, Apart
  <2>4. Workings'
    BY <1>12, <1>t DEF Join, vars, Wrappers, Workings, Busy
  <2>5. PillsLast'
    BY <1>12, <1>t DEF Join, vars, Wrappers, PillsLast, Busy
  <2>6. Closed'
    BY <1>12, <1>t DEF Join, vars, Closed, PillsLast, Busy
  <2> QED BY <2>1, <2>2, <2>3, <2>4, <2>5, <2>6 DEF Rest
<1>13. ASSUME NEW t \in Threads, Spurious(t), UNCHANGED poolVars
      PROVE  Rest'
  <2>1. PoolTypeOK'
    BY <1>13, <1>t DEF Spurious, poolVars, Wrappers, PoolTypeOK
  <2>2. Apart'
    BY <1>13, <1>t DEF Spurious, poolVars, Wrappers, Apart, Busy
  <2>3. Lives'
    BY <1>13, <1>t DEF Spurious, poolVars, Wrappers, Lives, Held, Busy, Apart
  <2>4. Workings'
    BY <1>13, <1>t DEF Spurious, poolVars, Wrappers, Workings, Busy
  <2>5. PillsLast'
    BY <1>13, <1>t DEF Spurious, poolVars, Wrappers, PillsLast, Busy
  <2>6. Closed'
    BY <1>13, <1>t DEF Spurious, poolVars, Wrappers, Closed, Busy
  <2> QED BY <2>1, <2>2, <2>3, <2>4, <2>5, <2>6 DEF Rest
<1>14. ASSUME UNCHANGED <<vars, poolVars>>
      PROVE  Rest'
  <2>1. PoolTypeOK'
    BY <1>14, <1>t DEF vars, poolVars, Wrappers, PoolTypeOK
  <2>2. Apart'
    BY <1>14, <1>t DEF vars, poolVars, Wrappers, Apart, Busy
  <2>3. Lives'
    BY <1>14, <1>t DEF vars, poolVars, Wrappers, Lives, Held, Busy, Apart
  <2>4. Workings'
    BY <1>14, <1>t DEF vars, poolVars, Wrappers, Workings, Busy
  <2>5. PillsLast'
    BY <1>14, <1>t DEF vars, poolVars, Wrappers, PillsLast, Busy
  <2>6. Closed'
    BY <1>14, <1>t DEF vars, poolVars, Wrappers, Closed, Busy
  <2> QED BY <2>1, <2>2, <2>3, <2>4, <2>5, <2>6 DEF Rest
<1>15. ASSUME NEW p \in Producers, addJob(p) PROVE Rest'
  BY <1>2, <1>3, <1>4, <1>15 DEF addJob
<1>16. ASSUME NEW w \in Workers, takeJob(w) PROVE Rest'
  BY <1>6, <1>7, <1>16 DEF takeJob
<1>17. ASSUME NEW p \in Producers, (\E j \in Wrappers \cap todo : addObjJob(p, j)) \/ addJob(p)
       PROVE  Rest'
  BY <1>1, <1>15, <1>17
<1>18. ASSUME NEW w \in Workers, CallTakeJob(w) \/ takeJob(w) \/ Call(w) \/ Delete(w)
       PROVE  Rest'
  BY <1>5, <1>8, <1>9, <1>16, <1>18
<1>19. ASSUME Close PROVE Rest'
  BY <1>11, <1>12, <1>19 DEF Close
<1>20. ASSUME PoolNext PROVE Rest'
  BY <1>10, <1>13, <1>17, <1>18, <1>19, <1>20 DEF PoolNext
<1>21. Rest'
  BY <1>14, <1>20
<1> QED BY <1>q, <1>21 DEF PInv, Rest

\* The invariant holds in every state of the pool.
LEMMA PoolInvariance == PoolSpec => []PInv
BY PoolInitInv, PoolNextInv, PTL DEF PoolSpec

\* The variables of the pool have their types: no job is called twice.
THEOREM PoolTypeCorrect == PoolSpec => []PoolTypeOK
<1>1. PInv => PoolTypeOK
  BY DEF PInv
<1> QED BY <1>1, PoolInvariance, PTL

\* The cardinality of a set whose elements are all the same.
LEMMA AtMostOne ==
  ASSUME NEW S, \A x, y \in S : x = y
  PROVE  Cardinality(S) = IF S = {} THEN 0 ELSE 1
<1>1. CASE S = {}
  BY <1>1, FS_EmptySet
<1>2. CASE S # {}
  <2>1. PICK x \in S : S = {x}
    BY <1>2
  <2> QED BY <1>2, <2>1, FS_Singleton
<1> QED BY <1>1, <1>2

\* A job's object has one holder from addObjJob until the worker deletes it.
THEOREM PoolOneHolder == PoolSpec => []OneHolder
<1>1. PInv => OneHolder
  <2> SUFFICES ASSUME PInv, NEW j \in Wrappers
               PROVE  Cardinality(InEnq(j)) + Cardinality(InQueue(j)) + Cardinality(Taken(j))
                        = IF wrapper[j] = "live" /\ j \notin refused THEN 1 ELSE 0
    BY DEF OneHolder
  <2>1. Apart /\ Lives /\ j # None
    BY PoolAssumption DEF PInv, Wrappers
  <2>2. Cardinality(InEnq(j)) = IF InEnq(j) = {} THEN 0 ELSE 1
    <3>1. \A x, y \in InEnq(j) : x = y
      BY <2>1 DEF Apart, InEnq, Busy
    <3> QED BY <3>1, AtMostOne
  <2>3. Cardinality(InQueue(j)) = IF InQueue(j) = {} THEN 0 ELSE 1
    <3>1. \A x, y \in InQueue(j) : x = y
      BY <2>1 DEF Apart, InQueue
    <3> QED BY <3>1, AtMostOne
  <2>4. Cardinality(Taken(j)) = IF Taken(j) = {} THEN 0 ELSE 1
    <3>1. \A x, y \in Taken(j) : x = y
      BY <2>1 DEF Apart, Taken
    <3> QED BY <3>1, AtMostOne
  <2>5. /\ InEnq(j) = {} \/ InQueue(j) = {}
        /\ InEnq(j) = {} \/ Taken(j) = {}
        /\ InQueue(j) = {} \/ Taken(j) = {}
    BY <2>1 DEF Apart, InEnq, InQueue, Taken, Busy
  <2>6. Held(j) <=> InEnq(j) # {} \/ InQueue(j) # {} \/ Taken(j) # {}
    BY DEF Held, InEnq, InQueue, Taken, Busy
  <2>7. Held(j) <=> wrapper[j] = "live" /\ j \notin refused
    BY <2>1 DEF Lives
  <2> QED BY <2>2, <2>3, <2>4, <2>5, <2>6, <2>7
<1> QED BY <1>1, PoolInvariance, PTL

\* The destructor leaves no accepted job behind and no thread in the queue.
THEOREM PoolDrained == PoolSpec => []Drained
<1>1. PInv => Drained
  <2> SUFFICES ASSUME PInv, pool = "gone"
               PROVE  /\ q_ = <<>> /\ At(Threads, "out") = Threads
                      /\ \A j \in Wrappers \ (todo \cup refused) :
                           ran[j] = 1 /\ wrapper[j] = "deleted"
    BY DEF Drained
  <2>1. /\ \A p \in Producers : ~ Busy(p)
        /\ \A w \in Workers : taken[w] \in Pills
    BY DEF PInv, Closed
  <2>2. At(Threads, "out") = Threads
    <3>1. \A w \in Workers : ~ Busy(w)
      BY <2>1, PoolAssumption DEF PInv, Workings
    <3> QED BY <2>1, <3>1 DEF At, Threads, Busy
  <2>3. \A n \in Pills : \E w \in Workers : taken[w] = n
    <3>1. taken \in [Workers -> Pills]
      BY <2>1 DEF PInv, PoolTypeOK
    <3>2. \A w, v \in Workers : taken[w] = taken[v] => w = v
      BY <2>1, PoolAssumption DEF PInv, Apart
    <3>3. taken \in Injection(Workers, Pills)
      BY <3>1, <3>2 DEF Injection, IsInjective
    <3>4. taken \in Surjection(Workers, Pills)
      BY <3>3, FS_Injection, PoolAssumption
    <3> QED BY <3>4 DEF Surjection
  <2>4. q_ = <<>>
    <3>1. q_ \in Seq(Jobs)
      BY DEF PInv, IInv, TypeOK
    <3>2. \A k \in DOMAIN q_ : q_[k] \in Pills
      BY <2>1, PoolAssumption DEF PInv, PillsLast
    <3>3. \A k \in DOMAIN q_, w \in Workers : taken[w] # q_[k]
      BY DEF PInv, Apart
    <3>4. DOMAIN q_ = {}
      BY <2>3, <3>2, <3>3
    <3> QED BY <3>1, <3>4
  <2>5. ASSUME NEW j \in Wrappers \ (todo \cup refused)
        PROVE  ran[j] = 1 /\ wrapper[j] = "deleted"
    <3>1. DOMAIN q_ = {}
      BY <2>4
    <3>2. ~ Held(j)
      BY <2>1, <3>1 DEF Held, Wrappers
    <3>3. wrapper[j] \in {"none", "live", "deleted"}
      BY DEF PInv, PoolTypeOK
    <3> QED BY <2>5, <3>2, <3>3 DEF PInv, Lives
  <2> QED BY <2>2, <2>4, <2>5
<1> QED BY <1>1, PoolInvariance, PTL
=============================================================================
