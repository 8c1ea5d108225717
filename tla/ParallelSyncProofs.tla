------------------------- MODULE ParallelSyncProofs -------------------------
(***************************************************************************)
(* TLAPS proofs about the parallel traversal, for any threads, queue bound *)
(* and timeline.  A traversal uses the pool as its specification allows,   *)
(* so what is proved of the pool (WorkerPoolProofs) holds here: a wait     *)
(* that returns leaves no task.  The rest is that one fetch at most is     *)
(* outstanding, and where the owner is while it is.                        *)
(***************************************************************************)
EXTENDS ParallelSync, FiniteSetTheorems, TLAPS

PP == INSTANCE WorkerPoolProofs WITH TaskFails <- FALSE

Draining == at \in {"drain", "to_sleep", "asleep"}

\* The page asked for, and the answers a worker may push for it.
Asked == [seq |-> consumed, page |-> cursor]
Answers == {<<[seq |-> consumed, page |-> p]>> : p \in {cursor, 0}}

\* No fetch is queued or under way; or exactly one is, for the page asked for.
NoneOut == fetches = <<>> /\ \A w \in Workers : body[w] # "fetch"
OneOut ==
    \/ fetches = <<Asked>> /\ \A w \in Workers : body[w] # "fetch"
    \/ fetches = <<>> /\ \E w \in Workers : /\ body[w] = "fetch" /\ job[w] = Asked
                                            /\ \A v \in Workers \ {w} : body[v] # "fetch"

\* While the owner drains, its fetch is outstanding, answered or failed; at any
\* other time there is none.
Fetching ==
    \/ Draining /\ OneOut /\ ready = <<>> /\ ~fetchError
    \/ Draining /\ NoneOut /\ ready \in Answers /\ ~fetchError
    \/ Draining /\ NoneOut /\ ready = <<>> /\ fetchError
    \/ ~Draining /\ NoneOut /\ ready = <<>> /\ (fetchError => ~InFrame)

\* The pool call that each place of the owner is in.
OwnerAt ==
    /\ at \in {"idle", "submit", "drain", "to_sleep", "asleep", "handle", "finish", "threw"} =>
           owner = "free"
    /\ at = "begin" => owner \in {"free", "resize", "resize_asleep", "replace"}
    /\ at = "submitting" => owner \in {"submit", "submit_asleep"}
    /\ at = "waiting" => owner \in {"wait", "wait_asleep"}
    /\ at \in {"stopping", "dying"} => owner = "join"
    /\ at \in {"stopped", "dead"} => owner = "down"

\* A worker is in a task exactly while the pool counts it as running, and none
\* is between two calls.
Bodies ==
    /\ \A w \in Workers : body[w] # "none" <=> worker[w] = "running"
    /\ at \in {"idle", "begin", "stopping", "stopped"} => \A w \in Workers : body[w] = "none"

\* The counters of a call advance with its pages.
Counting ==
    /\ at \in {"submit", "submitting", "drain", "to_sleep", "asleep", "handle"} =>
           pages < MaxPages /\ cursor < Pages
    /\ at \in {"submit", "submitting"} => next = pages /\ consumed = pages
    /\ Draining => next = pages + 1 /\ consumed = pages
    /\ at = "handle" => next = pages + 1 /\ consumed = pages + 1
    /\ saved < Pages

\* The pages before the traversal's cursor are handled, and so are those before
\* the saved one.
Prefix ==
    /\ InFrame => \A p \in 0..(cursor - 1) : p \in handled
    /\ CursorBehindHandled

Own == TypeOK /\ Fetching /\ OwnerAt /\ Bodies /\ Counting /\ Prefix

-----------------------------------------------------------------------------
(* The pool under the traversal.                                             *)

LEMMA PoolAssumed == PP!PoolAssumption
<1>1. IsFiniteSet(Workers) /\ Workers # {} /\ MaxQueue \in Nat \ {0} /\ MaxTasks \in Nat
        /\ FALSE \in BOOLEAN
  BY ParallelAssumption
<1> QED BY <1>1 DEF PP!PoolAssumption, IsFiniteSet, PP!IsFiniteSet

\* The pool that the traversal instantiates is the one the proofs are about.
LEMMA SamePool ==
    /\ Pool!Init => PP!Init
    /\ [Pool!Next]_Pool!vars => [PP!Next]_PP!vars
    /\ PP!IInv => Pool!TypeOK
<1>1. Pool!Init => PP!Init
  BY DEF Pool!Init, PP!Init, Pool!Started, PP!Started
<1>2. ASSUME NEW w, Pool!WorkerStep(w) PROVE PP!WorkerStep(w)
  BY <1>2 DEF Pool!WorkerStep, PP!WorkerStep, Pool!TaskDone, PP!TaskDone, Pool!WorkerSleeps,
              PP!WorkerSleeps, Pool!WorkerExits, PP!WorkerExits, Pool!TakeTask, PP!TakeTask,
              Pool!mark_failed, PP!mark_failed, Pool!Completed, PP!Completed, Pool!Asleep, PP!Asleep
<1>3. ASSUME Pool!OwnerStep PROVE PP!OwnerStep
  <2>1. Pool!SubmitPushes => PP!SubmitPushes
    BY DEF Pool!SubmitPushes, PP!SubmitPushes, Pool!Asleep, PP!Asleep
  <2>2. Pool!ReplaceImpl => PP!ReplaceImpl
    BY DEF Pool!ReplaceImpl, PP!ReplaceImpl, Pool!Shutdown, PP!Shutdown, Pool!Asleep, PP!Asleep
  <2>3. Pool!Replaced => PP!Replaced
    BY DEF Pool!Replaced, PP!Replaced, Pool!Started, PP!Started, Pool!Cardinality, PP!Cardinality
  <2>4. Pool!SubmitBlocks => PP!SubmitBlocks
    BY DEF Pool!SubmitBlocks, PP!SubmitBlocks
  <2>5. Pool!SubmitThrows => PP!SubmitThrows
    BY DEF Pool!SubmitThrows, PP!SubmitThrows
  <2>6. Pool!WaitBlocks => PP!WaitBlocks
    BY DEF Pool!WaitBlocks, PP!WaitBlocks
  <2>7. Pool!WaitThrows => PP!WaitThrows
    BY DEF Pool!WaitThrows, PP!WaitThrows
  <2>8. Pool!WaitReturns => PP!WaitReturns
    BY DEF Pool!WaitReturns, PP!WaitReturns
  <2>9. Pool!Joined => PP!Joined
    BY DEF Pool!Joined, PP!Joined
  <2> QED BY <1>3, <2>1, <2>2, <2>3, <2>4, <2>5, <2>6, <2>7, <2>8, <2>9
          DEF Pool!OwnerStep, PP!OwnerStep
<1>4. Pool!CallSubmit => PP!CallSubmit
  BY DEF Pool!CallSubmit, PP!CallSubmit
<1>5. Pool!CallWait => PP!CallWait
  BY DEF Pool!CallWait, PP!CallWait
<1>6. Pool!CallResize => PP!CallResize
  BY DEF Pool!CallResize, PP!CallResize, Pool!Cardinality, PP!Cardinality
<1>7. Pool!CallShutdown => PP!CallShutdown
  BY DEF Pool!CallShutdown, PP!CallShutdown, Pool!Shutdown, PP!Shutdown, Pool!Asleep, PP!Asleep
<1>8. Pool!Next => PP!Next
  BY <1>2, <1>3, <1>4, <1>5, <1>6, <1>7 DEF Pool!Next, PP!Next
<1>9. PP!IInv => Pool!TypeOK
  BY DEF PP!IInv, PP!TypeOK, Pool!TypeOK
<1> QED BY <1>1, <1>8, <1>9 DEF Pool!vars, PP!vars

\* Every step of the traversal is a step of the pool or leaves it alone.
LEMMA PoolSteps == [Next]_vars => [Pool!Next]_Pool!vars
<1> SUFFICES ASSUME [Next]_vars PROVE Pool!Next \/ UNCHANGED poolVars
  BY DEF Pool!vars, poolVars
<1>1. ASSUME NEW w \in Workers, WorkerStep(w) PROVE Pool!Next \/ UNCHANGED poolVars
  BY <1>1 DEF WorkerStep, TakeTask, Push, StoreError, Notify, TaskEnds, Idle,
              Pool!Next, Pool!WorkerStep
<1>2. CASE OwnerStep
  BY <1>2 DEF OwnerStep, Begin, CallSubmit, submit_fetch, DrainTakes, DrainThrows,
              DrainFindsNothing, DrainSleeps, HandlePage, HandleThrows, CallWait, Return,
              Joined, PoolCall, Pool!Next, Pool!OwnerStep
<1>3. CASE Cycle \/ CallShutdown
  BY <1>3 DEF Cycle, CallShutdown, Pool!Next
<1>4. CASE UNCHANGED vars
  BY <1>4 DEF vars
<1> QED BY <1>1, <1>2, <1>3, <1>4 DEF Next

\* So the pool's invariant is one of the traversal.
LEMMA PoolHolds ==
    /\ Init => PP!IInv
    /\ PP!IInv /\ [Next]_vars => PP!IInv'
<1>1. PP!Init => PP!IInv
  BY PoolAssumed, PP!InitInvariant
<1>2. PP!IInv /\ [PP!Next]_PP!vars => PP!IInv'
  BY PoolAssumed, PP!StepInvariant
<1> QED BY <1>1, <1>2, SamePool, PoolSteps DEF Init

\* A wait that may return finds no worker in a task.
LEMMA DrainedPool ==
    ASSUME PP!IInv, pending = 0
    PROVE  queued = 0 /\ \A w \in Workers : worker[w] # "running"
<1>1. PP!TypeOK /\ PP!PendingCounts
  BY DEF PP!IInv
<1>2. PP!Cardinality(PP!Running) \in Nat /\ (PP!Cardinality(PP!Running) = 0 => PP!Running = {})
  BY <1>1, PoolAssumed, PP!RunningCounts
<1>3. queued = 0 /\ PP!Running = {}
  BY <1>1, <1>2 DEF PP!PendingCounts, PP!TypeOK
<1> QED BY <1>3 DEF PP!Running

-----------------------------------------------------------------------------
(* The traversal.                                                            *)

\* What the pool's steps leave alone: which workers are in a task.
SameRunning == \A w \in Workers : worker'[w] = "running" <=> worker[w] = "running"

LEMMA OwnInit == Init => Own
<1> SUFFICES ASSUME Init PROVE Own
  OBVIOUS
<1>1. Pool!TypeOK
  BY PoolHolds, SamePool
<1>2. NoFetch \in Fetch /\ 0 \in 0..Pages /\ 0 \in 0..MaxPages /\ 0 \in 0..MaxCalls
  BY ParallelAssumption DEF NoFetch, Fetch
<1>3. queued = 0 /\ owner = "free" /\ \A w \in Workers : worker[w] # "running"
  BY DEF Init, Pool!Init, Pool!Started
<1>4. TypeOK
  <2>1. fetchError \in BOOLEAN
    BY DEF Init
  <2>2. ready \in Seq(Fetch) /\ fetches \in Seq(Fetch) /\ Len(fetches) = queued
    BY <1>3 DEF Init
  <2> QED BY <1>1, <1>2, <2>1, <2>2 DEF Init, TypeOK
<1>5. Fetching
  BY DEF Init, Fetching, Draining, NoneOut
<1>6. OwnerAt /\ Bodies
  BY <1>3 DEF Init, OwnerAt, Bodies
<1>7. Counting /\ Prefix
  BY ParallelAssumption DEF Init, Counting, Prefix, InFrame, CursorBehindHandled, Draining
<1> QED BY <1>4, <1>5, <1>6, <1>7 DEF Own

\* A step of the owner that stays outside the draining of a page, submits
\* nothing and leaves the workers' tasks as they are.
LEMMA QuietFetching ==
    ASSUME Fetching, ~Draining, ~Draining', UNCHANGED <<ready, fetchError, taskVars>>,
           InFrame' => InFrame
    PROVE  Fetching'
BY DEF Fetching, NoneOut, taskVars, Draining

LEMMA BodiesKept ==
    ASSUME Bodies, SameRunning, UNCHANGED body,
           at' \in {"idle", "begin", "stopping", "stopped"} =>
               at \in {"idle", "begin", "stopping", "stopped"}
    PROVE  Bodies'
BY DEF Bodies, SameRunning

LEMMA OwnerNext ==
    ASSUME PP!IInv, PP!IInv', Own, Cycle \/ CallShutdown \/ OwnerStep
    PROVE  Own'
<1>t. TypeOK /\ Fetching /\ OwnerAt /\ Bodies /\ Counting /\ Prefix
  BY DEF Own
<1>p. Pool!TypeOK /\ Pool!TypeOK'
  BY DEF PP!IInv, PP!TypeOK, Pool!TypeOK
<1>a. /\ Pages \in Nat \ {0} /\ MaxPages \in Nat \ {0} /\ MaxCalls \in Nat
      /\ cursor \in 0..Pages /\ pages \in 0..MaxPages /\ calls \in 0..MaxCalls /\ saved \in 0..Pages
  BY <1>t, ParallelAssumption DEF TypeOK
<1>1. CASE Cycle
  <2>1. at = "idle" /\ at' = "begin" /\ owner' \in {"free", "resize"} /\ UNCHANGED <<queued, worker>>
          /\ UNCHANGED <<frameVars, taskVars, stateVars>> /\ calls' \in 0..MaxCalls
    BY <1>1, <1>a DEF Cycle, Pool!CallResize, poolVars
  <2>2. TypeOK'
    BY <2>1, <1>t, <1>p DEF TypeOK, frameVars, taskVars, stateVars
  <2>3. Fetching'
    BY <2>1, <1>t, QuietFetching DEF Draining, InFrame, frameVars
  <2>4. OwnerAt' /\ Bodies'
    BY <2>1, <1>t DEF OwnerAt, Bodies, taskVars
  <2>5. Counting' /\ Prefix'
    BY <2>1, <1>t DEF Counting, Prefix, Draining, InFrame, CursorBehindHandled, frameVars, stateVars
  <2> QED BY <2>2, <2>3, <2>4, <2>5 DEF Own
<1>2. CASE Begin
  <2>1. at = "begin" /\ at' = "submit" /\ owner = "free" /\ cursor' = saved /\ pages' = 0
          /\ ready' = <<>> /\ next' = 0 /\ consumed' = 0 /\ fetchError' = FALSE
          /\ UNCHANGED <<queued, worker, owner, taskVars, stateVars, calls>>
    BY <1>2 DEF Begin, poolVars
  <2>2. TypeOK'
    <3>1. fetchError' \in BOOLEAN
      BY <2>1
    <3>2. ready' \in Seq(Fetch)
      BY <2>1
    <3> QED BY <2>1, <3>1, <3>2, <1>t, <1>p, <1>a DEF TypeOK, taskVars, stateVars
  <2>3. Fetching'
    BY <2>1, <1>t DEF Fetching, Draining, NoneOut, taskVars
  <2>4. OwnerAt' /\ Bodies'
    BY <2>1, <1>t DEF OwnerAt, Bodies, taskVars
  <2>5. Counting' /\ Prefix'
    BY <2>1, <1>t, <1>a DEF Counting, Prefix, Draining, InFrame, CursorBehindHandled, stateVars
  <2> QED BY <2>2, <2>3, <2>4, <2>5 DEF Own
<1>3. CASE CallSubmit
  <2>1. at = "submit" /\ at' = "submitting" /\ owner' = "submit"
          /\ UNCHANGED <<queued, worker, frameVars, taskVars, stateVars, calls>>
    BY <1>3 DEF CallSubmit, Pool!CallSubmit
  <2>2. TypeOK'
    BY <2>1, <1>t, <1>p DEF TypeOK, frameVars, taskVars, stateVars
  <2>3. Fetching'
    BY <2>1, <1>t, QuietFetching DEF Draining, InFrame, frameVars
  <2>4. OwnerAt' /\ Bodies'
    BY <2>1, <1>t DEF OwnerAt, Bodies, taskVars
  <2>5. Counting' /\ Prefix'
    BY <2>1, <1>t DEF Counting, Prefix, Draining, InFrame, CursorBehindHandled, frameVars, stateVars
  <2> QED BY <2>2, <2>3, <2>4, <2>5 DEF Own
<1>4. CASE submit_fetch
  <2>1. at = "submitting" /\ at' = "drain" /\ owner' = "free" /\ queued' = queued + 1
          /\ fetches' = Append(fetches, [seq |-> next, page |-> cursor]) /\ next' = next + 1
          /\ UNCHANGED <<cursor, pages, ready, consumed, fetchError, job, body, stateVars, calls>>
    BY <1>4 DEF submit_fetch, Pool!SubmitPushes
  <2>2. SameRunning
    BY <1>4, <1>p DEF submit_fetch, Pool!SubmitPushes, Pool!TypeOK, Pool!Asleep, SameRunning
  <2>3. fetches = <<>> /\ ready = <<>> /\ next = consumed /\ consumed = pages /\ pages < MaxPages
          /\ cursor < Pages /\ ~fetchError /\ \A w \in Workers : body[w] # "fetch"
    BY <2>1, <1>t DEF Fetching, Draining, InFrame, NoneOut, Counting
  <2>4. [seq |-> next, page |-> cursor] \in Fetch /\ fetches' = <<Asked>>
    BY <2>1, <2>3, <1>a DEF Fetch, Asked
  <2>6. TypeOK'
    BY <2>1, <2>3, <2>4, <1>t, <1>p, <1>a DEF TypeOK, stateVars
  <2>7. Fetching'
    BY <2>1, <2>3, <2>4 DEF Fetching, Draining, OneOut, Asked
  <2>8. OwnerAt' /\ Bodies'
    BY <2>1, <2>2, <1>t, BodiesKept DEF OwnerAt
  <2>9. Counting' /\ Prefix'
    BY <2>1, <2>3, <1>t DEF Counting, Prefix, Draining, InFrame, CursorBehindHandled, stateVars
  <2> QED BY <2>6, <2>7, <2>8, <2>9 DEF Own
<1>5. CASE DrainTakes
  <2>1. at = "drain" /\ at' = "handle" /\ ~fetchError /\ ready # <<>> /\ cursor' = Head(ready).page
          /\ ready' = Tail(ready) /\ consumed' = consumed + 1
          /\ UNCHANGED <<poolVars, pages, next, fetchError, taskVars, stateVars, calls>>
    BY <1>5 DEF DrainTakes, PageReady
  <2>2. NoneOut /\ ready \in Answers
    BY <2>1, <1>t DEF Fetching, Draining
  <2>3. PICK p \in {cursor, 0} : ready = <<[seq |-> consumed, page |-> p]>>
    BY <2>2 DEF Answers
  <2>4. cursor' = p /\ ready' = <<>>
    BY <2>1, <2>3
  <2>5. pages < MaxPages /\ cursor < Pages /\ next = pages + 1 /\ consumed = pages
    BY <2>1, <1>t DEF Counting, Draining
  <2>6. TypeOK'
    <3>1. cursor' \in 0..Pages /\ consumed' \in 0..MaxPages /\ ready' \in Seq(Fetch)
      BY <2>1, <2>3, <2>4, <2>5, <1>a
    <3> QED BY <2>1, <3>1, <1>t, <1>p DEF TypeOK, poolVars, taskVars, stateVars
  <2>7. Fetching'
    BY <2>1, <2>2, <2>4 DEF Fetching, Draining, NoneOut, taskVars
  <2>8. OwnerAt' /\ Bodies'
    BY <2>1, <1>t DEF OwnerAt, Bodies, poolVars, taskVars
  <2>9. Counting'
    BY <2>1, <2>3, <2>4, <2>5, <1>t, <1>a DEF Counting, Draining, stateVars
  <2>10. Prefix'
    <3>1. \A x \in 0..(cursor - 1) : x \in handled
      BY <2>1, <1>t DEF Prefix, InFrame
    <3>2. \A x \in 0..(p - 1) : x \in handled
      BY <2>3, <3>1, <1>a
    <3> QED BY <2>1, <2>4, <3>2, <1>t DEF Prefix, CursorBehindHandled, stateVars
  <2> QED BY <2>6, <2>7, <2>8, <2>9, <2>10 DEF Own
<1>6. CASE DrainThrows
  <2>1. at = "drain" /\ at' = "threw" /\ fetchError
          /\ UNCHANGED <<poolVars, frameVars, taskVars, stateVars, calls>>
    BY <1>6 DEF DrainThrows
  <2>2. TypeOK' /\ OwnerAt' /\ Bodies'
    BY <2>1, <1>t, <1>p DEF TypeOK, OwnerAt, Bodies, poolVars, frameVars, taskVars, stateVars
  <2>3. Fetching'
    BY <2>1, <1>t DEF Fetching, Draining, NoneOut, InFrame, frameVars, taskVars
  <2>4. Counting' /\ Prefix'
    BY <2>1, <1>t DEF Counting, Prefix, Draining, InFrame, CursorBehindHandled, frameVars, stateVars
  <2> QED BY <2>2, <2>3, <2>4 DEF Own
<1>7. CASE DrainFindsNothing \/ DrainSleeps
  <2>1. Draining /\ Draining' /\ UNCHANGED <<poolVars, frameVars, taskVars, stateVars, calls>>
          /\ at' \in {"to_sleep", "asleep"}
    BY <1>7 DEF DrainFindsNothing, DrainSleeps, Draining
  <2>2. TypeOK' /\ OwnerAt' /\ Bodies'
    BY <2>1, <1>t, <1>p DEF TypeOK, OwnerAt, Bodies, Draining, poolVars, frameVars, taskVars, stateVars
  <2>3. Fetching'
    BY <2>1, <1>t DEF Fetching, NoneOut, OneOut, Asked, Answers, frameVars, taskVars
  <2>4. Counting' /\ Prefix'
    BY <2>1, <1>t DEF Counting, Prefix, Draining, InFrame, CursorBehindHandled, frameVars, stateVars
  <2> QED BY <2>2, <2>3, <2>4 DEF Own
<1>8. CASE HandlePage
  <2>1. /\ at = "handle" /\ handled' = handled \union {cursor} /\ pages' = pages + 1
        /\ cursor' = cursor + 1
        /\ at' = "finish" \/ (at' = "submit" /\ pages' < MaxPages /\ cursor' < Pages)
        /\ UNCHANGED <<poolVars, ready, next, consumed, fetchError, taskVars, saved, calls>>
    BY <1>8 DEF HandlePage
  <2>2. pages < MaxPages /\ cursor < Pages /\ next = pages + 1 /\ consumed = pages + 1
    BY <2>1, <1>t DEF Counting
  <2>3. TypeOK'
    <3>1. cursor' \in 0..Pages /\ pages' \in 0..MaxPages /\ handled' \in SUBSET (0..(Pages - 1))
      BY <2>1, <2>2, <1>t, <1>a DEF TypeOK
    <3>2. at' \in {"finish", "submit"} /\ Pool!TypeOK'
      BY <2>1, <1>p
    <3> QED BY <2>1, <3>1, <3>2, <1>t DEF TypeOK, poolVars, taskVars
  <2>4. Fetching'
    BY <2>1, <1>t, QuietFetching DEF Draining, InFrame
  <2>5. OwnerAt' /\ Bodies'
    BY <2>1, <1>t DEF OwnerAt, Bodies, poolVars, taskVars
  <2>6. Counting'
    BY <2>1, <2>2, <1>t DEF Counting, Draining
  <2>7. Prefix'
    <3>1. \A x \in 0..(cursor - 1) : x \in handled
      BY <2>1, <1>t DEF Prefix, InFrame
    <3>2. \A x \in 0..(cursor' - 1) : x \in handled'
      BY <2>1, <3>1, <1>a
    <3> QED BY <2>1, <3>2, <1>t DEF Prefix, CursorBehindHandled
  <2> QED BY <2>3, <2>4, <2>5, <2>6, <2>7 DEF Own
<1>9. CASE HandleThrows
  <2>1. at = "handle" /\ at' = "threw" /\ UNCHANGED <<poolVars, frameVars, taskVars, stateVars, calls>>
    BY <1>9 DEF HandleThrows
  <2>2. TypeOK' /\ OwnerAt' /\ Bodies'
    BY <2>1, <1>t, <1>p DEF TypeOK, OwnerAt, Bodies, poolVars, frameVars, taskVars, stateVars
  <2>3. Fetching'
    BY <2>1, <1>t, QuietFetching DEF Draining, InFrame, frameVars
  <2>4. Counting' /\ Prefix'
    BY <2>1, <1>t DEF Counting, Prefix, Draining, InFrame, CursorBehindHandled, frameVars, stateVars
  <2> QED BY <2>2, <2>3, <2>4 DEF Own
<1>10. CASE CallWait
  <2>1. at = "finish" /\ at' = "waiting" /\ owner' = "wait"
          /\ UNCHANGED <<queued, worker, frameVars, taskVars, stateVars, calls>>
    BY <1>10 DEF CallWait, Pool!CallWait
  <2>2. TypeOK' /\ OwnerAt' /\ Bodies'
    BY <2>1, <1>t, <1>p DEF TypeOK, OwnerAt, Bodies, frameVars, taskVars, stateVars
  <2>3. Fetching'
    BY <2>1, <1>t, QuietFetching DEF Draining, InFrame, frameVars
  <2>4. Counting' /\ Prefix'
    BY <2>1, <1>t DEF Counting, Prefix, Draining, InFrame, CursorBehindHandled, frameVars, stateVars
  <2> QED BY <2>2, <2>3, <2>4 DEF Own
<1>11. CASE Return
  <2>1. at = "waiting" /\ at' = "idle" /\ owner' = "free" /\ pending = 0
          /\ saved' = (IF cursor = Pages THEN 0 ELSE cursor)
          /\ UNCHANGED <<queued, worker, frameVars, taskVars, handled, calls>>
    BY <1>11 DEF Return, Pool!WaitReturns
  <2>2. \A w \in Workers : body[w] = "none"
    BY <2>1, <1>t, DrainedPool DEF Bodies
  <2>3. saved' \in 0..Pages /\ saved' < Pages /\ (saved' = cursor \/ saved' = 0)
    BY <2>1, <1>a
  <2>4. TypeOK'
    BY <2>1, <2>3, <1>t, <1>p DEF TypeOK, frameVars, taskVars
  <2>5. OwnerAt' /\ Bodies'
    BY <2>1, <2>2, <1>t DEF OwnerAt, Bodies, taskVars
  <2>6. Fetching'
    BY <2>1, <1>t, QuietFetching DEF Draining, InFrame, frameVars
  <2>7. Counting'
    BY <2>1, <2>3 DEF Counting, Draining
  <2>8. Prefix'
    <3>1. \A x \in 0..(cursor - 1) : x \in handled
      BY <2>1, <1>t DEF Prefix, InFrame
    <3> QED BY <2>1, <2>3, <3>1 DEF Prefix, InFrame, CursorBehindHandled
  <2> QED BY <2>4, <2>5, <2>6, <2>7, <2>8 DEF Own
<1>12. CASE CallShutdown
  <2>1. /\ (at = "idle" /\ at' = "stopping") \/ (at = "threw" /\ at' = "dying")
        /\ owner' = "join" /\ UNCHANGED <<queued, frameVars, taskVars, stateVars, calls>>
    BY <1>12 DEF CallShutdown, Pool!CallShutdown, Pool!Shutdown
  <2>2. SameRunning
    BY <1>12, <1>p DEF CallShutdown, Pool!CallShutdown, Pool!Shutdown, Pool!Asleep, Pool!TypeOK,
                       SameRunning
  <2>3. TypeOK'
    BY <2>1, <1>t, <1>p DEF TypeOK, frameVars, taskVars, stateVars
  <2>4. Fetching'
    BY <2>1, <1>t, QuietFetching DEF Draining, InFrame, frameVars
  <2>5. OwnerAt' /\ Bodies'
    BY <2>1, <2>2, <1>t, BodiesKept DEF OwnerAt, taskVars
  <2>6. Counting' /\ Prefix'
    BY <2>1, <1>t DEF Counting, Prefix, Draining, InFrame, CursorBehindHandled, frameVars, stateVars
  <2> QED BY <2>3, <2>4, <2>5, <2>6 DEF Own
<1>13. CASE Joined
  <2>1. /\ owner = "join" /\ at' = (IF at = "stopping" THEN "stopped" ELSE "dead")
        /\ owner' = "down" /\ UNCHANGED <<queued, worker, frameVars, taskVars, stateVars, calls>>
    BY <1>13 DEF Joined, Pool!Joined
  <2>2. (at = "stopping" /\ at' = "stopped") \/ (at = "dying" /\ at' = "dead")
    BY <2>1, <1>t DEF OwnerAt, TypeOK
  <2>3. TypeOK' /\ OwnerAt' /\ Bodies'
    BY <2>1, <2>2, <1>t, <1>p DEF TypeOK, OwnerAt, Bodies, frameVars, taskVars, stateVars
  <2>4. Fetching'
    BY <2>1, <2>2, <1>t, QuietFetching DEF Draining, InFrame, frameVars
  <2>5. Counting' /\ Prefix'
    BY <2>1, <2>2, <1>t DEF Counting, Prefix, Draining, InFrame, CursorBehindHandled, frameVars,
                            stateVars
  <2> QED BY <2>3, <2>4, <2>5 DEF Own
<1>14. CASE PoolCall
  <2>0. UNCHANGED <<frameVars, taskVars, stateVars, at, calls>>
    BY <1>14 DEF PoolCall
  <2>1. CASE Pool!SubmitBlocks \/ Pool!WaitBlocks
    <3>1. /\ UNCHANGED <<queued, worker>>
          /\ \/ owner = "submit" /\ owner' = "submit_asleep"
             \/ owner = "wait" /\ owner' = "wait_asleep"
             \/ owner = "resize" /\ owner' = "resize_asleep"
      BY <2>1 DEF Pool!SubmitBlocks, Pool!WaitBlocks
    <3> QED BY <2>0, <3>1, <1>t, <1>p DEF Own, TypeOK, Fetching, OwnerAt, Bodies, Counting, Prefix,
              Draining, NoneOut, OneOut, Asked, Answers, InFrame, CursorBehindHandled, frameVars,
              taskVars, stateVars
  <2>2. CASE Pool!ReplaceImpl
    <3>1. owner = "resize" /\ owner' = "replace" /\ queued' = queued
      BY <2>2 DEF Pool!ReplaceImpl, Pool!Shutdown
    <3>2. SameRunning
      BY <2>2, <1>p DEF Pool!ReplaceImpl, Pool!Shutdown, Pool!Asleep, Pool!TypeOK, SameRunning
    <3>3. Bodies'
      BY <2>0, <3>2, <1>t, BodiesKept DEF taskVars
    <3> QED BY <2>0, <3>1, <3>3, <1>t, <1>p DEF Own, TypeOK, Fetching, OwnerAt, Counting, Prefix,
              Draining, NoneOut, OneOut, Asked, Answers, InFrame, CursorBehindHandled, frameVars,
              taskVars, stateVars
  <2>3. CASE Pool!Replaced
    <3>1. owner = "replace" /\ owner' = "free" /\ queued' = 0
            /\ \A w \in Workers : worker'[w] # "running"
      BY <2>3 DEF Pool!Replaced, Pool!Started
    <3>2. at = "begin"
      BY <3>1, <1>t DEF OwnerAt, TypeOK
    <3>3. Bodies' /\ OwnerAt'
      BY <2>0, <3>1, <3>2, <1>t DEF Bodies, OwnerAt, taskVars
    <3>4. fetches = <<>>
      BY <3>2, <1>t DEF Fetching, Draining, NoneOut
    <3> QED BY <2>0, <3>1, <3>2, <3>3, <3>4, <1>t, <1>p DEF Own, TypeOK, Fetching, Counting, Prefix,
              Draining, NoneOut, InFrame, CursorBehindHandled, frameVars, taskVars, stateVars
  <2> QED BY <1>14, <2>1, <2>2, <2>3 DEF PoolCall
<1> QED BY <1>1, <1>2, <1>3, <1>4, <1>5, <1>6, <1>7, <1>8, <1>9, <1>10, <1>11, <1>12, <1>13, <1>14
        DEF OwnerStep

LEMMA WorkerNext ==
    ASSUME PP!IInv, PP!IInv', Own, NEW w \in Workers, WorkerStep(w)
    PROVE  Own'
<1>t. TypeOK /\ Fetching /\ OwnerAt /\ Bodies /\ Counting /\ Prefix
  BY DEF Own
<1>p. Pool!TypeOK /\ Pool!TypeOK'
  BY DEF PP!IInv, PP!TypeOK, Pool!TypeOK
<1>w. worker \in [Workers -> {"ready", "asleep", "running", "exited"}]
        /\ body \in [Workers -> {"none", "fetch", "notify", "end"}] /\ job \in [Workers -> Fetch]
        /\ ready \in Seq(Fetch) /\ fetches \in Seq(Fetch) /\ Len(fetches) = queued
  BY <1>t, <1>p DEF Pool!TypeOK, TypeOK
<1>1. CASE TakeTask(w)
  <2>1. /\ worker[w] = "ready" /\ worker' = [worker EXCEPT ![w] = "running"] /\ queued > 0
        /\ queued' = queued - 1 /\ owner' = owner
        /\ job' = [job EXCEPT ![w] = Head(fetches)] /\ fetches' = Tail(fetches)
        /\ body' = [body EXCEPT ![w] = "fetch"]
        /\ UNCHANGED <<frameVars, stateVars, at, calls>>
    BY <1>1 DEF TakeTask, Pool!TakeTask
  <2>2. fetches # <<>>
    BY <2>1, <1>w
  <2>3. Draining /\ OneOut /\ ready = <<>> /\ ~fetchError
    BY <2>2, <1>t DEF Fetching, NoneOut
  <2>4. fetches = <<Asked>> /\ \A v \in Workers : body[v] # "fetch"
    BY <2>2, <2>3 DEF OneOut
  <2>5. fetches' = <<>> /\ job' \in [Workers -> Fetch] /\ job'[w] = Asked
    BY <2>1, <2>4, <1>w
  <2>6. Asked' = Asked
    BY <2>1 DEF Asked, frameVars
  <2>7. OneOut'
    BY <2>1, <2>4, <2>5, <2>6, <1>w DEF OneOut
  <2>8. Fetching'
    BY <2>1, <2>3, <2>7 DEF Fetching, Draining, frameVars
  <2>9. TypeOK'
    <3>1. Len(fetches') = queued' /\ fetches' \in Seq(Fetch)
      BY <2>1, <2>4, <2>5, <1>w
    <3> QED BY <2>1, <2>5, <3>1, <1>t, <1>p DEF TypeOK, frameVars, stateVars
  <2>10. Bodies'
    BY <2>1, <2>3, <1>t, <1>w DEF Bodies, Draining
  <2>11. OwnerAt' /\ Counting' /\ Prefix'
    BY <2>1, <1>t DEF OwnerAt, Counting, Prefix, Draining, InFrame, CursorBehindHandled, frameVars,
                      stateVars
  <2> QED BY <2>8, <2>9, <2>10, <2>11 DEF Own
<1>2. CASE Push(w)
  <2>1. /\ body[w] = "fetch" /\ body' = [body EXCEPT ![w] = "notify"]
        /\ UNCHANGED <<poolVars, cursor, pages, next, consumed, fetchError, fetches, job, stateVars,
                       at, calls>>
    BY <1>2 DEF Push
  <2>2. PICK p \in {job[w].page, 0} : ready' = Append(ready, [job[w] EXCEPT !.page = p])
    BY <1>2 DEF Push
  <2>3. Draining /\ OneOut /\ ready = <<>> /\ ~fetchError
    BY <2>1, <1>t DEF Fetching, NoneOut
  <2>4. job[w] = Asked /\ fetches = <<>> /\ \A v \in Workers \ {w} : body[v] # "fetch"
    BY <2>1, <2>3 DEF OneOut
  <2>5. p \in {cursor, 0} /\ ready' = <<[seq |-> consumed, page |-> p]>>
    BY <2>2, <2>3, <2>4 DEF Asked
  <2>6. ready' \in Answers'
    BY <2>1, <2>5 DEF Answers
  <2>7. NoneOut'
    BY <2>1, <2>4, <1>w DEF NoneOut
  <2>8. Fetching'
    BY <2>1, <2>3, <2>6, <2>7 DEF Fetching, Draining
  <2>9. TypeOK'
    <3>1. [seq |-> consumed, page |-> p] \in Fetch
      <4>1. consumed \in Nat /\ p \in 0..(Pages - 1)
        BY <2>3, <2>5, <1>t, ParallelAssumption DEF TypeOK, Counting, Draining
      <4> QED BY <4>1 DEF Fetch
    <3>2. ready' \in Seq(Fetch)
      BY <2>5, <3>1
    <3> QED BY <2>1, <3>2, <1>t, <1>p DEF TypeOK, poolVars, stateVars
  <2>10. Bodies'
    BY <2>1, <2>3, <1>t, <1>w DEF Bodies, Draining, poolVars
  <2>11. OwnerAt' /\ Counting' /\ Prefix'
    BY <2>1, <1>t DEF OwnerAt, Counting, Prefix, Draining, InFrame, CursorBehindHandled, poolVars,
                      stateVars
  <2> QED BY <2>8, <2>9, <2>10, <2>11 DEF Own
<1>3. CASE StoreError(w)
  <2>1. /\ body[w] = "fetch" /\ body' = [body EXCEPT ![w] = "notify"] /\ fetchError' = TRUE
        /\ UNCHANGED <<poolVars, cursor, pages, ready, next, consumed, fetches, job, stateVars,
                       at, calls>>
    BY <1>3 DEF StoreError
  <2>2. Draining /\ OneOut /\ ready = <<>>
    BY <2>1, <1>t DEF Fetching, NoneOut
  <2>3. fetches = <<>> /\ \A v \in Workers \ {w} : body[v] # "fetch"
    BY <2>1, <2>2 DEF OneOut
  <2>4. NoneOut'
    BY <2>1, <2>3, <1>w DEF NoneOut
  <2>5. Fetching'
    BY <2>1, <2>2, <2>4 DEF Fetching, Draining
  <2>6. TypeOK'
    <3>1. fetchError' \in BOOLEAN
      BY <2>1
    <3> QED BY <2>1, <3>1, <1>t, <1>p DEF TypeOK, poolVars, stateVars
  <2>7. Bodies'
    BY <2>1, <2>2, <1>t, <1>w DEF Bodies, Draining, poolVars
  <2>8. OwnerAt' /\ Counting' /\ Prefix'
    BY <2>1, <1>t DEF OwnerAt, Counting, Prefix, Draining, InFrame, CursorBehindHandled, poolVars,
                      stateVars
  <2> QED BY <2>5, <2>6, <2>7, <2>8 DEF Own
<1>4. CASE Notify(w)
  <2>1. /\ body[w] = "notify" /\ body' = [body EXCEPT ![w] = "end"]
        /\ at' = at \/ (at = "asleep" /\ at' = "drain")
        /\ UNCHANGED <<poolVars, frameVars, fetches, job, stateVars, calls>>
    BY <1>4 DEF Notify
  <2>2. \A v \in Workers : body'[v] = "fetch" <=> body[v] = "fetch"
    BY <2>1, <1>w
  <2>3. Fetching'
    <3>1. NoneOut => NoneOut'
      BY <2>1, <2>2 DEF NoneOut
    <3>2. OneOut => OneOut'
      BY <2>1, <2>2 DEF OneOut, Asked, frameVars
    <3>3. (Draining' <=> Draining) /\ (InFrame' => InFrame)
      BY <2>1 DEF Draining, InFrame
    <3> QED BY <2>1, <3>1, <3>2, <3>3, <1>t DEF Fetching, Answers, frameVars
  <2>4. TypeOK'
    BY <2>1, <1>t, <1>p DEF TypeOK, poolVars, frameVars, stateVars
  <2>5. Bodies'
    <3>1. at \notin {"idle", "begin", "stopping", "stopped"}
      BY <2>1, <1>t DEF Bodies
    <3> QED BY <2>1, <3>1, <1>t, <1>w DEF Bodies, poolVars
  <2>6. OwnerAt' /\ Counting' /\ Prefix'
    BY <2>1, <1>t DEF OwnerAt, Counting, Prefix, Draining, InFrame, CursorBehindHandled, poolVars,
                      frameVars, stateVars
  <2> QED BY <2>3, <2>4, <2>5, <2>6 DEF Own
<1>5. CASE TaskEnds(w)
  <2>1. /\ body[w] = "end" /\ body' = [body EXCEPT ![w] = "none"]
        /\ worker' = [worker EXCEPT ![w] = "ready"] /\ queued' = queued
        /\ UNCHANGED <<frameVars, fetches, job, stateVars, at, calls>>
    BY <1>5 DEF TaskEnds, Pool!TaskDone
  <2>2. \/ owner' = owner \/ (owner = "submit_asleep" /\ owner' = "submit")
        \/ (owner = "wait_asleep" /\ owner' = "wait") \/ (owner = "resize_asleep" /\ owner' = "resize")
    BY <1>5 DEF TaskEnds, Pool!TaskDone, Pool!Completed
  <2>3. \A v \in Workers : body'[v] = "fetch" <=> body[v] = "fetch"
    BY <2>1, <1>w
  <2>4. Fetching'
    <3>1. NoneOut => NoneOut'
      BY <2>1, <2>3 DEF NoneOut
    <3>2. OneOut => OneOut'
      BY <2>1, <2>3 DEF OneOut, Asked, frameVars
    <3>3. (Draining' <=> Draining) /\ (InFrame' => InFrame)
      BY <2>1 DEF Draining, InFrame
    <3> QED BY <2>1, <3>1, <3>2, <3>3, <1>t DEF Fetching, Answers, frameVars
  <2>5. TypeOK'
    BY <2>1, <1>t, <1>p DEF TypeOK, frameVars, stateVars
  <2>6. Bodies'
    BY <2>1, <1>t, <1>w DEF Bodies
  <2>7. OwnerAt'
    BY <2>1, <2>2, <1>t DEF OwnerAt
  <2>8. Counting' /\ Prefix'
    BY <2>1, <1>t DEF Counting, Prefix, Draining, InFrame, CursorBehindHandled, frameVars, stateVars
  <2> QED BY <2>4, <2>5, <2>6, <2>7, <2>8 DEF Own
<1>6. CASE Idle(w)
  <2>1. /\ worker[w] = "ready" /\ \E s \in {"asleep", "exited"} : worker' = [worker EXCEPT ![w] = s]
        /\ UNCHANGED <<queued, owner>> /\ UNCHANGED <<frameVars, taskVars, stateVars, at, calls>>
    BY <1>6 DEF Idle, Pool!WorkerSleeps, Pool!WorkerExits
  <2>2. SameRunning
    BY <2>1, <1>w DEF SameRunning
  <2>3. Bodies'
    BY <2>1, <2>2, <1>t, BodiesKept DEF taskVars
  <2> QED BY <2>1, <2>3, <1>t, <1>p DEF Own, TypeOK, Fetching, OwnerAt, Counting, Prefix, Draining,
            NoneOut, OneOut, Asked, Answers, InFrame, CursorBehindHandled, frameVars, taskVars, stateVars
<1> QED BY <1>1, <1>2, <1>3, <1>4, <1>5, <1>6 DEF WorkerStep

LEMMA OwnInvariant == Spec => [](PP!IInv /\ Own)
<1>1. Init => PP!IInv /\ Own
  BY PoolHolds, OwnInit
<1>2. PP!IInv /\ Own /\ [Next]_vars => (PP!IInv /\ Own)'
  <2> SUFFICES ASSUME PP!IInv, Own, [Next]_vars PROVE PP!IInv' /\ Own'
    OBVIOUS
  <2>1. PP!IInv'
    BY PoolHolds
  <2>2. CASE Next
    BY <2>1, <2>2, OwnerNext, WorkerNext DEF Next
  <2>3. CASE UNCHANGED vars
    <3> USE <2>3 DEF vars, poolVars, frameVars, taskVars, stateVars
    <3>1. TypeOK'
      BY DEF Own, TypeOK, Pool!TypeOK
    <3>2. Fetching'
      BY DEF Own, Fetching, Draining, InFrame, NoneOut, OneOut, Asked, Answers
    <3>3. OwnerAt' /\ Bodies'
      BY DEF Own, OwnerAt, Bodies
    <3>4. Counting' /\ Prefix'
      BY DEF Own, Counting, Prefix, Draining, InFrame, CursorBehindHandled
    <3> QED BY <2>1, <3>1, <3>2, <3>3, <3>4 DEF Own
  <2> QED BY <2>1, <2>2, <2>3
<1> QED BY <1>1, <1>2, PTL DEF Spec

\* Counters, cursors and the shared queue keep their types; in particular the
\* pages of a call stay within max_pages and its cursor within the timeline.
THEOREM ParallelTypeCorrect == Spec => []TypeOK
<1>1. Own => TypeOK
  BY DEF Own
<1> QED BY <1>1, OwnInvariant, PTL

\* run_sync_parallel's locals outlive the tasks that use them, unless it threw,
\* and a fetch runs only while the owner waits for its page: wait() returns
\* with no task left, and no second fetch is submitted before the page is in.
THEOREM SharingSafe == Spec => []SharingIsSafe
<1>1. Own => SharingIsSafe
  <2> SUFFICES ASSUME Own PROVE SharingIsSafe
    OBVIOUS
  <2>t. TypeOK /\ Fetching /\ Bodies
    BY DEF Own
  <2>1. fetches # <<>> \/ (\E w \in Workers : body[w] = "fetch") => Draining
    BY <2>t DEF Fetching, NoneOut
  <2>2. (\E w \in Workers : body[w] \in {"fetch", "notify"}) =>
            at \notin {"idle", "begin", "stopping", "stopped"}
    BY <2>t DEF Bodies
  <2>3. FrameOutlivesTask
    <3>1. at \in {"idle", "begin", "stopping", "stopped", "threw", "dying", "dead"} \/ InFrame
      BY <2>t DEF TypeOK, InFrame
    <3>2. Draining => InFrame
      BY DEF Draining, InFrame
    <3> QED BY <2>1, <2>2, <3>1, <3>2 DEF FrameOutlivesTask
  <2>4. OneGraphUser
    BY <2>1 DEF OneGraphUser, Draining
  <2> QED BY <2>3, <2>4 DEF SharingIsSafe
<1> QED BY <1>1, OwnInvariant, PTL

\* The page a later call resumes at is past handled pages only, although the
\* service may answer with the head page and a call may be aborted anywhere.
THEOREM ResumesBehindHandled == Spec => []CursorBehindHandled
<1>1. Own => CursorBehindHandled
  BY DEF Own, Prefix
<1> QED BY <1>1, OwnInvariant, PTL
=============================================================================
