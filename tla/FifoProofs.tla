----------------------------- MODULE FifoProofs -----------------------------
(***************************************************************************)
(* The safety of Fifo for any number of threads, any jobs and any limit.   *)
(* The invariants are inductive together: that no wake-up is lost on the   *)
(* producers' side needs the bound on the queue, because deq signals only  *)
(* when the queue is shorter than its limit.                               *)
(***************************************************************************)
EXTENDS Fifo, FiniteSetTheorems, TLAPS

\* The inductive invariant.
IInv == TypeOK /\ Bounded /\ JobsAreSeen /\ SpaceIsSeen

Sleeping(S) == At(S, "wait")
Awake(S)    == At(S, "in")

\* The awake threads of a group are finitely many.
LEMMA AwakeFinite ==
  ASSUME NEW S, IsFiniteSet(S)
  PROVE  /\ IsFiniteSet(Awake(S)) /\ Cardinality(Awake(S)) \in Nat
         /\ IsFiniteSet(Awake(S)') /\ Cardinality(Awake(S)') \in Nat
<1>1. Awake(S) \subseteq S /\ Awake(S)' \subseteq S
  BY DEF Awake, At
<1> QED BY <1>1, FS_Subset, FS_CardinalityType

\* How the number of awake threads changes with the place of one thread.
LEMMA AwakeChange ==
  ASSUME NEW S, IsFiniteSet(S), NEW t \in S, \A u \in S \ {t} : pc'[u] = pc[u]
  PROVE  /\ pc[t] # "in" /\ pc'[t] = "in"
              => Cardinality(Awake(S)') = Cardinality(Awake(S)) + 1
         /\ pc[t] = "in" /\ pc'[t] # "in"
              => Cardinality(Awake(S)') = Cardinality(Awake(S)) - 1
<1>1. ASSUME pc[t] # "in", pc'[t] = "in"
      PROVE  Cardinality(Awake(S)') = Cardinality(Awake(S)) + 1
  <2>1. Awake(S)' = Awake(S) \cup {t} /\ t \notin Awake(S)
    BY <1>1 DEF Awake, At
  <2> QED BY <2>1, AwakeFinite, FS_AddElement
<1>2. ASSUME pc[t] = "in", pc'[t] # "in"
      PROVE  Cardinality(Awake(S)') = Cardinality(Awake(S)) - 1
  <2>1. Awake(S)' = Awake(S) \ {t} /\ t \in Awake(S)
    BY <1>2 DEF Awake, At
  <2> QED BY <2>1, AwakeFinite, FS_RemoveElement
<1> QED BY <1>1, <1>2

\* A step of thread t that signals nobody: S is a group t belongs to, R the other.
LEMMA Moves ==
  ASSUME TypeOK, NEW S, NEW R, IsFiniteSet(S), IsFiniteSet(R), S \cap R = {},
         S \cup R = Threads, NEW t \in S, NEW then \in {"out", "in", "wait"},
         pc' = [pc EXCEPT ![t] = then]
  PROVE  /\ pc' \in [Threads -> {"out", "in", "wait"}]
         /\ Sleeping(R)' = Sleeping(R)
         /\ Cardinality(Awake(R)') = Cardinality(Awake(R))
         /\ Cardinality(Awake(S)) \in Nat /\ Cardinality(Awake(S)') \in Nat
         /\ Cardinality(Awake(R)) \in Nat
         /\ then # "wait" => Sleeping(S)' \subseteq Sleeping(S)
         /\ pc[t] # "in" /\ then = "in"
              => Cardinality(Awake(S)') = Cardinality(Awake(S)) + 1
         /\ pc[t] = "in" /\ then # "in"
              => Cardinality(Awake(S)') = Cardinality(Awake(S)) - 1
<1>1. pc \in [Threads -> {"out", "in", "wait"}]
  BY DEF TypeOK
<1>2. /\ pc' \in [Threads -> {"out", "in", "wait"}] /\ pc'[t] = then
      /\ \A u \in Threads \ {t} : pc'[u] = pc[u]
  BY <1>1
<1>3. /\ \A u \in R : pc'[u] = pc[u]
      /\ \A u \in S \ {t} : pc'[u] = pc[u]
  BY <1>2
<1>4. Sleeping(R)' = Sleeping(R) /\ Awake(R)' = Awake(R)
  BY <1>3 DEF Sleeping, Awake, At
<1>5. then # "wait" => Sleeping(S)' \subseteq Sleeping(S)
  BY <1>2, <1>3 DEF Sleeping, At
<1>6. /\ Cardinality(Awake(S)) \in Nat /\ Cardinality(Awake(S)') \in Nat
      /\ Cardinality(Awake(R)) \in Nat
  BY AwakeFinite
<1>7. /\ pc[t] # "in" /\ then = "in"
           => Cardinality(Awake(S)') = Cardinality(Awake(S)) + 1
      /\ pc[t] = "in" /\ then # "in"
           => Cardinality(Awake(S)') = Cardinality(Awake(S)) - 1
  BY <1>2, <1>3, AwakeChange
<1> QED BY <1>2, <1>4, <1>5, <1>6, <1>7

\* A step of thread t that leaves the mutex and signals the other group R.
LEMMA Signals ==
  ASSUME TypeOK, NEW S, NEW R, IsFiniteSet(S), IsFiniteSet(R), S \cap R = {},
         S \cup R = Threads, NEW t \in S, pc[t] = "in", Signal(t, "out", R)
  PROVE  /\ pc' \in [Threads -> {"out", "in", "wait"}]
         /\ pc'[t] = "out"
         /\ \A u \in S \ {t} : pc'[u] = pc[u]
         /\ Sleeping(S)' = Sleeping(S)
         /\ Cardinality(Awake(S)') = Cardinality(Awake(S)) - 1
         /\ Cardinality(Awake(S)) \in Nat
         /\ Cardinality(Awake(R)) \in Nat
         /\ Sleeping(R)' \subseteq Sleeping(R)
         /\ Sleeping(R) # {} => Cardinality(Awake(R)') = Cardinality(Awake(R)) + 1
<1>1. pc \in [Threads -> {"out", "in", "wait"}]
  BY DEF TypeOK
<1>2. /\ Cardinality(Awake(S)) \in Nat /\ Cardinality(Awake(R)) \in Nat
  BY AwakeFinite
<1>3. CASE Sleeping(R) = {}
  <2>1. pc' = [pc EXCEPT ![t] = "out"]
    BY <1>3 DEF Signal, Sleeping
  <2>2. /\ pc' \in [Threads -> {"out", "in", "wait"}] /\ pc'[t] = "out"
        /\ \A u \in Threads \ {t} : pc'[u] = pc[u]
    BY <1>1, <2>1
  <2>3. Sleeping(S)' = Sleeping(S) /\ Sleeping(R)' = Sleeping(R)
    BY <2>2 DEF Sleeping, At
  <2>4. Cardinality(Awake(S)') = Cardinality(Awake(S)) - 1
    BY <2>2, AwakeChange
  <2> QED BY <1>2, <1>3, <2>2, <2>3, <2>4
<1>4. CASE Sleeping(R) # {}
  <2>1. PICK w \in Sleeping(R) : pc' = [pc EXCEPT ![t] = "out", ![w] = "in"]
    BY <1>4 DEF Signal, Sleeping
  <2>2. w \in R /\ w # t /\ pc[w] = "wait"
    BY <2>1 DEF Sleeping, At
  <2>3. /\ pc' \in [Threads -> {"out", "in", "wait"}] /\ pc'[t] = "out" /\ pc'[w] = "in"
        /\ \A u \in Threads \ {t, w} : pc'[u] = pc[u]
    BY <1>1, <2>1, <2>2
  <2>4. /\ \A u \in S \ {t} : pc'[u] = pc[u]
        /\ \A u \in R \ {w} : pc'[u] = pc[u]
    BY <2>2, <2>3
  <2>5. Sleeping(S)' = Sleeping(S) /\ Sleeping(R)' \subseteq Sleeping(R)
    BY <2>3, <2>4 DEF Sleeping, At
  <2>6. Cardinality(Awake(S)') = Cardinality(Awake(S)) - 1
    BY <2>3, <2>4, AwakeChange
  <2>7. Cardinality(Awake(R)') = Cardinality(Awake(R)) + 1
    BY <2>2, <2>3, <2>4, AwakeChange
  <2> QED BY <1>2, <1>4, <2>3, <2>4, <2>5, <2>6, <2>7
<1> QED BY <1>3, <1>4

\* The queue starts empty, with nobody asleep.
LEMMA InitInv == Init => IInv
<1> SUFFICES ASSUME Init PROVE IInv
  OBVIOUS
<1>1. q_ = <<>> /\ Len(q_) = 0 /\ q_ \in Seq(Jobs)
  BY DEF Init
<1>3. \A p \in Producers : pc[p] = "out"
  BY DEF Init, Threads
<1>4. TypeOK
  BY <1>1, <1>3 DEF Init, TypeOK
<1>5. Bounded
  BY <1>1, FifoAssumption DEF Bounded
<1>2. At(Workers, "wait") = {} /\ At(Producers, "wait") = {}
  BY DEF Init, At, Threads
<1> QED BY <1>2, <1>4, <1>5 DEF IInv, JobsAreSeen, SpaceIsSeen

\* Every step of a thread keeps the bound and both counts of awake threads.
LEMMA NextInv == IInv /\ [Next]_vars => IInv'
<1> SUFFICES ASSUME IInv, [Next]_vars PROVE IInv'
  OBVIOUS
<1> USE DEF IInv
<1> DEFINE P == Producers
           W == Workers
<1>1. /\ limit \in Nat /\ IsFiniteSet(P) /\ IsFiniteSet(W) /\ P \cap W = {} /\ W \cap P = {}
      /\ P \cup W = Threads /\ W \cup P = Threads
  BY FifoAssumption DEF Threads
<1>2. TypeOK /\ q_ \in Seq(Jobs) /\ Len(q_) \in Nat
  BY DEF TypeOK
<1>3. /\ Sleeping(W) # {} => Len(q_) <= Cardinality(Awake(W))
      /\ Sleeping(P) # {} => limit - Len(q_) <= Cardinality(Awake(P))
  BY DEF JobsAreSeen, SpaceIsSeen, Sleeping, Awake
<1> DEFINE Kept == /\ TypeOK' /\ Bounded'
                   /\ Sleeping(W)' # {} => Len(q_)' <= Cardinality(Awake(W)')
                   /\ Sleeping(P)' # {} => limit - Len(q_)' <= Cardinality(Awake(P)')
<1>4. SUFFICES Kept
  BY DEF JobsAreSeen, SpaceIsSeen, Sleeping, Awake
<1>5. ASSUME NEW p \in P, NEW j \in todo, NEW blocking \in BOOLEAN, CallEnq(p, j, blocking)
      PROVE  Kept
  <2>1. /\ pc' = [pc EXCEPT ![p] = "in"] /\ pc[p] # "in" /\ q_' = q_
        /\ todo' = todo \ {j}
        /\ job' = [job EXCEPT ![p] = [job |-> j, blocking |-> blocking]]
    BY <1>5 DEF CallEnq
  <2>2. /\ pc' \in [Threads -> {"out", "in", "wait"}]
        /\ Sleeping(W)' = Sleeping(W) /\ Cardinality(Awake(W)') = Cardinality(Awake(W))
        /\ Sleeping(P)' \subseteq Sleeping(P)
        /\ Cardinality(Awake(P)') = Cardinality(Awake(P)) + 1
        /\ Cardinality(Awake(P)) \in Nat
    BY <1>1, <1>2, <2>1, Moves
  <2>3. TypeOK'
    <3>1. j \in Jobs /\ todo' \subseteq Jobs
      BY <2>1 DEF TypeOK
    <3>2. [job |-> j, blocking |-> blocking] \in Job
      BY <3>1 DEF Job
    <3>3. /\ job' \in [Producers -> Job \cup {NoJob}] /\ job'[p] \in Job
          /\ \A r \in Producers \ {p} : job'[r] = job[r]
      BY <2>1, <3>2 DEF TypeOK
    <3>4. \A r \in Producers \ {p} : pc'[r] = pc[r]
      BY <2>1, <1>1 DEF TypeOK
    <3> QED BY <2>1, <2>2, <3>1, <3>3, <3>4 DEF TypeOK
  <2> QED BY <1>1, <1>2, <1>3, <2>1, <2>2, <2>3 DEF Bounded
<1>6. ASSUME NEW p \in P, Push(p) PROVE Kept
  <2>1. /\ pc[p] = "in" /\ Signal(p, "out", W) /\ todo' = todo /\ job' = job
        /\ HasSpace /\ q_' = Append(q_, job[p].job)
    BY <1>6 DEF Push
  <2>2. /\ pc' \in [Threads -> {"out", "in", "wait"}] /\ pc'[p] = "out"
        /\ \A u \in P \ {p} : pc'[u] = pc[u]
        /\ Sleeping(P)' = Sleeping(P)
        /\ Cardinality(Awake(P)') = Cardinality(Awake(P)) - 1
        /\ Cardinality(Awake(P)) \in Nat /\ Cardinality(Awake(W)) \in Nat
        /\ Sleeping(W)' \subseteq Sleeping(W)
        /\ Sleeping(W) # {} => Cardinality(Awake(W)') = Cardinality(Awake(W)) + 1
    BY <1>1, <1>2, <2>1, Signals
  <2>3. job[p].job \in Jobs
    BY <2>1 DEF TypeOK, Job
  <2>4. q_' \in Seq(Jobs) /\ Len(q_') = Len(q_) + 1
    BY <1>2, <2>1, <2>3
  <2>5. TypeOK'
    BY <2>1, <2>2, <2>4 DEF TypeOK
  <2> QED BY <1>1, <1>2, <1>3, <2>1, <2>2, <2>4, <2>5 DEF Bounded, HasSpace
<1>7. ASSUME NEW p \in P, WaitForSpace(p) PROVE Kept
  <2>1. /\ pc[p] = "in" /\ pc' = [pc EXCEPT ![p] = "wait"]
        /\ q_' = q_ /\ todo' = todo /\ job' = job /\ ~ HasSpace
    BY <1>7 DEF WaitForSpace
  <2>2. /\ pc' \in [Threads -> {"out", "in", "wait"}]
        /\ Sleeping(W)' = Sleeping(W) /\ Cardinality(Awake(W)') = Cardinality(Awake(W))
        /\ Cardinality(Awake(P)') \in Nat
    BY <1>1, <1>2, <2>1, Moves
  <2>3. TypeOK'
    BY <1>1, <2>1, <2>2 DEF TypeOK
  <2> QED BY <1>1, <1>2, <1>3, <2>1, <2>2, <2>3 DEF Bounded, HasSpace
<1>8. ASSUME NEW p \in P, GiveUp(p) PROVE Kept
  <2>1. /\ pc[p] = "in" /\ pc' = [pc EXCEPT ![p] = "out"]
        /\ q_' = q_ /\ todo' = todo /\ job' = job /\ ~ HasSpace
    BY <1>8 DEF GiveUp
  <2>2. /\ pc' \in [Threads -> {"out", "in", "wait"}]
        /\ Sleeping(W)' = Sleeping(W) /\ Cardinality(Awake(W)') = Cardinality(Awake(W))
        /\ Cardinality(Awake(P)') \in Nat
    BY <1>1, <1>2, <2>1, Moves
  <2>3. TypeOK'
    BY <1>1, <2>1, <2>2 DEF TypeOK
  <2> QED BY <1>1, <1>2, <1>3, <2>1, <2>2, <2>3 DEF Bounded, HasSpace
<1>9. ASSUME NEW w \in W, CallDeq(w) PROVE Kept
  <2>1. /\ pc[w] # "in" /\ pc' = [pc EXCEPT ![w] = "in"]
        /\ q_' = q_ /\ todo' = todo /\ job' = job
    BY <1>9 DEF CallDeq
  <2>2. /\ pc' \in [Threads -> {"out", "in", "wait"}]
        /\ Sleeping(P)' = Sleeping(P) /\ Cardinality(Awake(P)') = Cardinality(Awake(P))
        /\ Sleeping(W)' \subseteq Sleeping(W) /\ Cardinality(Awake(W)) \in Nat
        /\ Cardinality(Awake(W)') = Cardinality(Awake(W)) + 1
    BY <1>1, <1>2, <2>1, Moves
  <2>3. TypeOK'
    BY <1>1, <2>1, <2>2 DEF TypeOK
  <2> QED BY <1>1, <1>2, <1>3, <2>1, <2>2, <2>3 DEF Bounded
<1>10. ASSUME NEW w \in W, Pop(w) PROVE Kept
  <2>1. /\ pc[w] = "in" /\ q_ # <<>> /\ q_' = Tail(q_) /\ todo' = todo /\ job' = job
    BY <1>10 DEF Pop
  <2>2. /\ q_' \in Seq(Jobs) /\ Len(q_') = Len(q_) - 1 /\ Len(q_') \in Nat
    BY <1>2, <2>1
  <2>3. CASE limit # 0
    <3>1. Len(q_') < limit
      BY <1>1, <1>2, <2>2, <2>3 DEF Bounded
    <3>2. Signal(w, "out", P)
      BY <1>10, <2>3, <3>1 DEF Pop
    <3>3. /\ pc' \in [Threads -> {"out", "in", "wait"}]
          /\ Sleeping(W)' = Sleeping(W)
          /\ Cardinality(Awake(W)') = Cardinality(Awake(W)) - 1
          /\ Cardinality(Awake(W)) \in Nat /\ Cardinality(Awake(P)) \in Nat
          /\ Sleeping(P)' \subseteq Sleeping(P)
          /\ Sleeping(P) # {} => Cardinality(Awake(P)') = Cardinality(Awake(P)) + 1
      BY <1>1, <1>2, <2>1, <3>2, Signals
    <3>4. \A r \in P : pc'[r] # "out" => pc[r] # "out"
      <4>1. w \notin P
        BY <1>1
      <4>2. CASE At(P, "wait") = {}
        BY <1>1, <3>2, <4>1, <4>2 DEF Signal, TypeOK
      <4>3. CASE At(P, "wait") # {}
        <5>1. PICK r \in At(P, "wait") : pc' = [pc EXCEPT ![w] = "out", ![r] = "in"]
          BY <3>2, <4>3 DEF Signal
        <5> QED BY <1>1, <4>1, <5>1 DEF At, TypeOK
      <4> QED BY <4>2, <4>3
    <3>5. TypeOK'
      BY <2>1, <2>2, <3>3, <3>4 DEF TypeOK
    <3> QED BY <1>1, <1>2, <1>3, <2>2, <3>1, <3>3, <3>5 DEF Bounded
  <2>4. CASE limit = 0
    <3>1. pc' = [pc EXCEPT ![w] = "out"]
      BY <1>10, <2>4 DEF Pop
    <3>2. /\ pc' \in [Threads -> {"out", "in", "wait"}]
          /\ Sleeping(P)' = Sleeping(P) /\ Cardinality(Awake(P)') = Cardinality(Awake(P))
          /\ Cardinality(Awake(P)) \in Nat
          /\ Sleeping(W)' \subseteq Sleeping(W) /\ Cardinality(Awake(W)) \in Nat
          /\ Cardinality(Awake(W)') = Cardinality(Awake(W)) - 1
      BY <1>1, <1>2, <2>1, <3>1, Moves
    <3>3. TypeOK'
      BY <1>1, <2>1, <2>2, <3>1, <3>2 DEF TypeOK
    <3> QED BY <1>2, <1>3, <2>2, <2>4, <3>2, <3>3 DEF Bounded
  <2> QED BY <2>3, <2>4
<1>11. ASSUME NEW w \in W, WaitForJob(w) PROVE Kept
  <2>1. /\ pc[w] = "in" /\ pc' = [pc EXCEPT ![w] = "wait"]
        /\ q_' = q_ /\ todo' = todo /\ job' = job /\ q_ = <<>>
    BY <1>11 DEF WaitForJob
  <2>2. /\ pc' \in [Threads -> {"out", "in", "wait"}]
        /\ Sleeping(P)' = Sleeping(P) /\ Cardinality(Awake(P)') = Cardinality(Awake(P))
        /\ Cardinality(Awake(W)') \in Nat
    BY <1>1, <1>2, <2>1, Moves
  <2>3. TypeOK'
    BY <1>1, <2>1, <2>2 DEF TypeOK
  <2> QED BY <1>1, <1>2, <1>3, <2>1, <2>2, <2>3 DEF Bounded
<1>12. ASSUME NEW t \in P, Spurious(t) PROVE Kept
  <2>1. /\ pc[t] = "wait" /\ pc' = [pc EXCEPT ![t] = "in"]
        /\ q_' = q_ /\ todo' = todo /\ job' = job
    BY <1>12 DEF Spurious
  <2>2. /\ pc' \in [Threads -> {"out", "in", "wait"}]
        /\ Sleeping(W)' = Sleeping(W) /\ Cardinality(Awake(W)') = Cardinality(Awake(W))
        /\ Sleeping(P)' \subseteq Sleeping(P) /\ Cardinality(Awake(P)) \in Nat
        /\ Cardinality(Awake(P)') = Cardinality(Awake(P)) + 1
    BY <1>1, <1>2, <2>1, Moves
  <2>3. TypeOK'
    BY <1>1, <2>1, <2>2 DEF TypeOK
  <2> QED BY <1>1, <1>2, <1>3, <2>1, <2>2, <2>3 DEF Bounded
<1>13. ASSUME NEW t \in W, Spurious(t) PROVE Kept
  <2>1. /\ pc[t] = "wait" /\ pc' = [pc EXCEPT ![t] = "in"]
        /\ q_' = q_ /\ todo' = todo /\ job' = job
    BY <1>13 DEF Spurious
  <2>2. /\ pc' \in [Threads -> {"out", "in", "wait"}]
        /\ Sleeping(P)' = Sleeping(P) /\ Cardinality(Awake(P)') = Cardinality(Awake(P))
        /\ Sleeping(W)' \subseteq Sleeping(W) /\ Cardinality(Awake(W)) \in Nat
        /\ Cardinality(Awake(W)') = Cardinality(Awake(W)) + 1
    BY <1>1, <1>2, <2>1, Moves
  <2>3. TypeOK'
    BY <1>1, <2>1, <2>2 DEF TypeOK
  <2> QED BY <1>1, <1>2, <1>3, <2>1, <2>2, <2>3 DEF Bounded
<1>14. CASE UNCHANGED vars
  BY <1>3, <1>14 DEF vars, TypeOK, Bounded, Sleeping, Awake, At
<1>15. \A t \in Threads : t \in P \/ t \in W
  BY <1>1
<1> QED BY <1>5, <1>6, <1>7, <1>8, <1>9, <1>10, <1>11, <1>12, <1>13, <1>14, <1>15
        DEF Next, EnqStep, DeqStep

\* What enq, deq and their waits keep true at every step.
THEOREM Invariance == Spec => []IInv
BY InitInv, NextInv, PTL DEF Spec

\* A thread that is in enq, awake or waiting, still has the job it came with.
THEOREM TypeCorrect == Spec => []TypeOK
<1>1. IInv => TypeOK
  BY DEF IInv
<1> QED BY <1>1, Invariance, PTL

\* The queue never grows beyond its limit.
THEOREM QueueBounded == Spec => []Bounded
<1>1. IInv => Bounded
  BY DEF IInv
<1> QED BY <1>1, Invariance, PTL

\* While workers sleep, enough of them are awake for the jobs of the queue.
THEOREM NoJobWakeupLost == Spec => []JobsAreSeen
<1>1. IInv => JobsAreSeen
  BY DEF IInv
<1> QED BY <1>1, Invariance, PTL

\* While producers sleep, enough of them are awake for the places of the queue.
THEOREM NoSpaceWakeupLost == Spec => []SpaceIsSeen
<1>1. IInv => SpaceIsSeen
  BY DEF IInv
<1> QED BY <1>1, Invariance, PTL
=============================================================================
