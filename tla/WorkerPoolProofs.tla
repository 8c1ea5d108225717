-------------------------- MODULE WorkerPoolProofs --------------------------
(***************************************************************************)
(* Proofs about WorkerPool, for any set of threads and any queue bound,    *)
(* with tasks that may throw.  The count of pending tasks is exact, which  *)
(* gives the backpressure bound and what a return of wait() means.         *)
(***************************************************************************)
EXTENDS WorkerPool, FiniteSetTheorems, TLAPS

\* A submitter has room for its task within the model's bound.
SubmitterFits == owner \in {"submit", "submit_asleep"} => submitted < MaxTasks

IInv == TypeOK /\ PendingCounts /\ Backpressure /\ SubmitterFits

poolCounts == <<queued, pending, submitted>>

\* The running workers are finitely many, and taking or ending a task changes
\* their number by one.
LEMMA RunningCounts ==
    ASSUME TypeOK
    PROVE  /\ Cardinality(Running) \in Nat
           /\ Cardinality(Running) = 0 => Running = {}
           /\ \A w \in Workers \ Running :
                Cardinality(Running \union {w}) = Cardinality(Running) + 1
           /\ \A w \in Running :
                Cardinality(Running \ {w}) = Cardinality(Running) - 1
<1>1. IsFiniteSet(Running)
  BY FS_Subset, PoolAssumption DEF Running
<1>2. Cardinality(Running) \in Nat
  BY <1>1, FS_CardinalityType
<1>3. Cardinality(Running) = 0 => Running = {}
  BY <1>1, FS_EmptySet
<1>4. \A w \in Workers \ Running :
        Cardinality(Running \union {w}) = Cardinality(Running) + 1
  BY <1>1, FS_AddElement
<1>5. \A w \in Running : Cardinality(Running \ {w}) = Cardinality(Running) - 1
  BY <1>1, FS_RemoveElement
<1> QED BY <1>2, <1>3, <1>4, <1>5

LEMMA StartedType ==
    \A T : Started(T) \in [Workers -> {"ready", "asleep", "running", "exited"}]
BY DEF Started

LEMMA InitInvariant == Init => IInv
<1> SUFFICES ASSUME Init PROVE IInv
  OBVIOUS
<1>1. TypeOK
  <2>1. worker \in [Workers -> {"ready", "asleep", "running", "exited"}]
    BY StartedType DEF Init
  <2>2. error \in BOOLEAN /\ shutting \in BOOLEAN
    BY DEF Init
  <2>3. threads \in (SUBSET Workers) \ {{}}
    BY DEF Init
  <2> QED BY <2>1, <2>2, <2>3, PoolAssumption DEF Init, TypeOK
<1>2. Running = {}
  BY DEF Init, Running, Started
<1>3. Cardinality(Running) = 0
  BY <1>2, FS_EmptySet
<1> QED BY <1>1, <1>3, PoolAssumption DEF Init, IInv, PendingCounts, Backpressure, SubmitterFits

\* A step of the owner or of a worker preserves the invariant.
LEMMA StepInvariant == IInv /\ [Next]_vars => IInv'
<1> SUFFICES ASSUME IInv, [Next]_vars PROVE IInv'
  OBVIOUS
<1> USE PoolAssumption
<1>t. TypeOK /\ PendingCounts /\ Backpressure /\ SubmitterFits
  BY DEF IInv
<1>0. /\ Cardinality(Running) \in Nat
      /\ \A w \in Workers \ Running :
            Cardinality(Running \union {w}) = Cardinality(Running) + 1
      /\ \A w \in Running : Cardinality(Running \ {w}) = Cardinality(Running) - 1
  BY <1>t, RunningCounts
<1>a. ASSUME TypeOK', Running' = Running, pending' = pending, queued' = queued,
             SubmitterFits'
      PROVE  IInv'
  BY <1>t, <1>a DEF IInv, PendingCounts, Backpressure
<1>1. CASE CallSubmit
  BY <1>1, <1>t, <1>a DEF CallSubmit, TypeOK, Running, SubmitterFits
<1>2. CASE SubmitBlocks
  BY <1>2, <1>t, <1>a DEF SubmitBlocks, TypeOK, Running, SubmitterFits
<1>3. CASE SubmitPushes
  <2>1. \A w \in Workers : worker'[w] = "running" <=> worker[w] = "running"
    BY <1>3, <1>t DEF SubmitPushes, TypeOK, Asleep
  <2>2. Running' = Running
    BY <2>1 DEF Running
  <2>3. worker' \in [Workers -> {"ready", "asleep", "running", "exited"}]
    BY <1>3, <1>t DEF SubmitPushes, TypeOK, Asleep
  <2>4. TypeOK' /\ SubmitterFits'
    BY <1>3, <1>t, <2>3 DEF SubmitPushes, TypeOK, SubmitterFits
  <2>5. PendingCounts'
    BY <1>3, <1>t, <1>0, <2>2 DEF SubmitPushes, PendingCounts, TypeOK
  <2>6. Backpressure'
    BY <1>3, <1>t DEF SubmitPushes, Backpressure, TypeOK
  <2> QED BY <2>4, <2>5, <2>6 DEF IInv
<1>4. CASE SubmitThrows
  BY <1>4, <1>t, <1>a DEF SubmitThrows, TypeOK, Running, SubmitterFits
<1>5. CASE CallWait \/ CallResize \/ WaitBlocks \/ WaitThrows \/ WaitReturns \/ Joined
  <2>1. /\ UNCHANGED <<queued, pending, shutting, threads, worker, submitted>>
        /\ error' \in BOOLEAN
        /\ owner' \in {"free", "wait", "resize", "wait_asleep", "resize_asleep", "down"}
    BY <1>5, <1>t DEF CallWait, CallResize, WaitBlocks, WaitThrows, WaitReturns,
                      Joined, TypeOK
  <2> QED BY ONLY <2>1, <1>t, <1>a DEF TypeOK, Running, SubmitterFits
<1>6. CASE CallShutdown \/ ReplaceImpl
  <2>1. Shutdown /\ owner' \in {"join", "replace"}
    BY <1>6 DEF CallShutdown, ReplaceImpl
  <2>2. \A w \in Workers : worker'[w] = "running" <=> worker[w] = "running"
    BY <2>1, <1>t DEF Shutdown, TypeOK, Asleep
  <2>3. Running' = Running
    BY <2>2 DEF Running
  <2> QED BY <2>1, <2>3, <1>t, <1>a DEF Shutdown, TypeOK, Asleep, SubmitterFits
<1>7. CASE Replaced
  <2>1. PICK T \in (SUBSET Workers) \ {{}} : threads' = T /\ worker' = Started(T)
    BY <1>7 DEF Replaced
  <2>2. Running' = {}
    BY <2>1 DEF Running, Started
  <2>3. Cardinality(Running') = 0
    BY <2>2, FS_EmptySet
  <2>4. TypeOK' /\ SubmitterFits'
    <3>1. worker' \in [Workers -> {"ready", "asleep", "running", "exited"}]
      BY <2>1, StartedType
    <3>2. error' \in BOOLEAN /\ shutting' \in BOOLEAN
      BY <1>7 DEF Replaced
    <3>3. queued' = 0 /\ pending' = 0 /\ owner' = "free" /\ submitted' = 0
      BY <1>7 DEF Replaced
    <3> QED BY <2>1, <3>1, <3>2, <3>3 DEF TypeOK, SubmitterFits
  <2>5. PendingCounts'
    BY <1>7, <2>3 DEF Replaced, PendingCounts
  <2>6. Backpressure'
    BY <1>7 DEF Replaced, Backpressure
  <2> QED BY <2>4, <2>5, <2>6 DEF IInv
<1>8. ASSUME NEW w \in Workers, WorkerStep(w) PROVE IInv'
  <2>1. CASE WorkerSleeps(w) \/ WorkerExits(w)
    <3>1. /\ worker[w] = "ready"
          /\ \E s \in {"asleep", "exited"} : worker' = [worker EXCEPT ![w] = s]
          /\ UNCHANGED <<queued, pending, error, shutting, owner, submitted, threads>>
      BY <2>1 DEF WorkerSleeps, WorkerExits
    <3>2. Running' = Running
      BY <3>1, <1>t DEF Running, TypeOK
    <3> QED BY <3>1, <3>2, <1>t, <1>a DEF TypeOK, SubmitterFits
  <2>2. CASE TakeTask(w)
    <3>1. Running' = Running \union {w} /\ w \notin Running
      BY <2>2, <1>t DEF TakeTask, Running, TypeOK
    <3>2. Cardinality(Running') = Cardinality(Running) + 1
      BY <3>1, <1>0
    <3>3. PendingCounts' /\ queued' \in Nat
      BY <2>2, <3>2, <1>0, <1>t DEF TakeTask, PendingCounts, TypeOK
    <3>4. TypeOK' /\ SubmitterFits' /\ Backpressure'
      BY <2>2, <3>3, <1>t DEF TakeTask, TypeOK, SubmitterFits, Backpressure
    <3> QED BY <3>3, <3>4 DEF IInv
  <2>3. CASE TaskDone(w) \/ mark_failed(w)
    <3>1. /\ worker[w] = "running" /\ Completed
          /\ error' \in BOOLEAN
          /\ UNCHANGED <<queued, shutting, submitted, threads>>
      BY <2>3, <1>t DEF TaskDone, mark_failed, TypeOK
    <3>2. /\ worker' \in [Workers -> {"ready", "asleep", "running", "exited"}]
          /\ \A v \in Workers : worker'[v] = "running" <=> (v # w /\ worker[v] = "running")
      <4>1. CASE TaskDone(w)
        BY <4>1, <1>t DEF TaskDone, TypeOK
      <4>2. CASE mark_failed(w)
        BY <4>2, <1>t DEF mark_failed, TypeOK, Asleep
      <4> QED BY <2>3, <4>1, <4>2
    <3>3. Running' = Running \ {w} /\ w \in Running
      BY <3>1, <3>2 DEF Running
    <3>4. Cardinality(Running') = Cardinality(Running) - 1
      BY <3>3, <1>0
    <3>4a. Cardinality(Running') \in Nat
      <4>1. IsFiniteSet(Running')
        BY FS_Subset DEF Running
      <4> QED BY <4>1, FS_CardinalityType
    <3>5. PendingCounts' /\ pending' = pending - 1 /\ pending' \in Nat
      BY <3>1, <3>4, <3>4a, <1>0, <1>t DEF Completed, PendingCounts, TypeOK
    <3>6. /\ owner' \in {"free", "submit", "submit_asleep", "wait", "wait_asleep",
                         "resize", "resize_asleep", "replace", "join", "down"}
          /\ owner' = "submit" => owner \in {"submit", "submit_asleep"}
          /\ owner' = "submit_asleep" => owner = "submit_asleep"
      BY <3>1, <1>t DEF Completed, TypeOK
    <3>7. TypeOK' /\ SubmitterFits' /\ Backpressure'
      BY <3>1, <3>2, <3>5, <3>6, <1>t DEF TypeOK, SubmitterFits, Backpressure
    <3> QED BY <3>5, <3>7 DEF IInv
  <2> QED BY <1>8, <2>1, <2>2, <2>3 DEF WorkerStep
<1>9. CASE UNCHANGED vars
  BY <1>9, <1>t, <1>a DEF vars, TypeOK, Running, SubmitterFits
<1> QED
  BY <1>1, <1>2, <1>3, <1>4, <1>5, <1>6, <1>7, <1>8, <1>9 DEF Next, OwnerStep

LEMMA Invariance == Spec => []IInv
<1>1. Init => IInv
  BY InitInvariant
<1>2. IInv /\ [Next]_vars => IInv'
  BY StepInvariant
<1> QED BY <1>1, <1>2, PTL DEF Spec

\* The pool's count of pending tasks is the queued tasks and the running ones,
\* whatever tasks throw and however the pool is resized.
THEOREM PendingIsExact == Spec => []PendingCounts
<1>1. IInv => PendingCounts
  BY DEF IInv
<1> QED BY <1>1, Invariance, PTL

\* submit() never lets the pool hold more than config.max_queue tasks.
THEOREM QueueIsBounded == Spec => []Backpressure
<1>1. IInv => Backpressure
  BY DEF IInv
<1> QED BY <1>1, Invariance, PTL

\* A wait() that returns without an error leaves no task queued or running,
\* which is what resize() relies on when it replaces the threads.
THEOREM WaitDrains == Spec => WaitMeansDone
<1> DEFINE Drained == (owner \in {"wait", "resize"} /\ owner' \in {"free", "replace"} /\ ~error)
                        => queued = 0 /\ Running = {}
<1>1. IInv /\ [Next]_vars => [Drained]_vars
  <2> SUFFICES ASSUME IInv, Next, owner \in {"wait", "resize"},
                      owner' \in {"free", "replace"}, ~error
               PROVE  queued = 0 /\ Running = {}
    BY DEF vars
  <2>t. TypeOK /\ PendingCounts
    BY DEF IInv
  <2>0. Cardinality(Running) \in Nat /\ (Cardinality(Running) = 0 => Running = {})
    BY <2>t, RunningCounts
  <2>1. \A w \in Workers : ~WorkerStep(w)
    BY DEF WorkerStep, WorkerSleeps, WorkerExits, TakeTask, TaskDone, mark_failed, Completed
  <2>2. pending = 0
    BY <2>1 DEF Next, OwnerStep, CallSubmit, CallWait, CallResize, CallShutdown,
                SubmitBlocks, SubmitPushes, SubmitThrows, WaitBlocks, WaitThrows,
                WaitReturns, Joined, Replaced, ReplaceImpl
  <2> QED BY <2>2, <2>t, <2>0 DEF PendingCounts, TypeOK
<1> QED BY <1>1, Invariance, PTL DEF Spec, WaitMeansDone
=============================================================================
