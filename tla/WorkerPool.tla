----------------------------- MODULE WorkerPool -----------------------------
(***************************************************************************)
(* The bounded thread pool (src/src/app/worker/pool.cpp): one owner that   *)
(* submits, waits, resizes and shuts down, and the worker threads.         *)
(*                                                                         *)
(* An action is what a thread does while it holds mutex_, from taking it   *)
(* to releasing it or going to sleep on a condition variable.  A thread    *)
(* that sleeps runs again only when it is notified (a spurious wakeup is   *)
(* never needed by a correct program and is left out).                     *)
(***************************************************************************)
EXTENDS Integers, FiniteSets

CONSTANTS
    Workers,    \* the threads
    MaxQueue,   \* config.max_queue
    MaxTasks,   \* bound: tasks the owner submits to one Impl
    TaskFails   \* TRUE: a task may throw

ASSUME PoolAssumption ==
    /\ IsFiniteSet(Workers) /\ Workers # {}
    /\ MaxQueue \in Nat \ {0} /\ MaxTasks \in Nat
    /\ TaskFails \in BOOLEAN

VARIABLES
    queued,     \* tasks in the queue
    pending,    \* tasks submitted and not completed
    error,      \* a worker's error is stored
    shutting,   \* shutting_down
    threads,    \* the threads of this Impl (config.thread_count of them)
    worker,     \* what each thread is doing
    owner,      \* the owner's call under way
    submitted   \* tasks this Impl was given

vars == <<queued, pending, error, shutting, threads, worker, owner, submitted>>

Running == {w \in Workers : worker[w] = "running"}
Asleep == {w \in Workers : worker[w] = "asleep"}

\* The states of an Impl's threads when it starts; the others do not exist.
Started(T) == [w \in Workers |-> IF w \in T THEN "ready" ELSE "exited"]

Init ==
    /\ queued = 0 /\ pending = 0 /\ error = FALSE /\ shutting = FALSE
    /\ threads \in (SUBSET Workers) \ {{}} /\ worker = Started(threads)
    /\ owner = "free" /\ submitted = 0

-----------------------------------------------------------------------------
(* The owner.                                                              *)

CallSubmit ==
    /\ owner = "free" /\ submitted < MaxTasks
    /\ owner' = "submit"
    /\ UNCHANGED <<queued, pending, error, shutting, worker, submitted, threads>>

SubmitBlocks ==
    /\ owner = "submit" /\ pending >= MaxQueue /\ ~error
    /\ owner' = "submit_asleep"
    /\ UNCHANGED <<queued, pending, error, shutting, worker, submitted, threads>>

\* Push the task; notify_one wakes one idle worker.
SubmitPushes ==
    /\ owner = "submit" /\ pending < MaxQueue /\ ~error
    /\ queued' = queued + 1 /\ pending' = pending + 1
    /\ submitted' = submitted + 1
    /\ IF Asleep = {} THEN worker' = worker
       ELSE \E w \in Asleep : worker' = [worker EXCEPT ![w] = "ready"]
    /\ owner' = "free"
    /\ UNCHANGED <<error, shutting, threads>>

\* throw_first_error_locked: the error is handed to the owner and forgotten.
SubmitThrows ==
    /\ owner = "submit" /\ error
    /\ error' = FALSE
    /\ owner' = "free"
    /\ UNCHANGED <<queued, pending, shutting, worker, submitted, threads>>

CallWait ==
    /\ owner = "free"
    /\ owner' = "wait"
    /\ UNCHANGED <<queued, pending, error, shutting, threads, worker, submitted>>

\* resize() to another number of threads: wait(), then a new Impl.
CallResize ==
    /\ owner = "free" /\ Cardinality(Workers) > 1
    /\ owner' = "resize"
    /\ UNCHANGED <<queued, pending, error, shutting, threads, worker, submitted>>

WaitBlocks ==
    /\ owner \in {"wait", "resize"} /\ pending > 0 /\ ~error
    /\ owner' = IF owner = "wait" THEN "wait_asleep" ELSE "resize_asleep"
    /\ UNCHANGED <<queued, pending, error, shutting, worker, submitted, threads>>

WaitThrows ==
    /\ owner \in {"wait", "resize"} /\ error
    /\ error' = FALSE
    /\ owner' = "free"
    /\ UNCHANGED <<queued, pending, shutting, worker, submitted, threads>>

\* Mutation: wait() looks at the queue and not at the tasks under way.
WaitReturns_queue_empty ==
    /\ owner = "wait" /\ queued = 0 /\ ~error
    /\ owner' = "free"
    /\ UNCHANGED <<queued, pending, error, shutting, worker, submitted, threads>>

WaitReturns ==
    /\ owner = "wait" /\ pending = 0 /\ ~error
    /\ owner' = "free"
    /\ UNCHANGED <<queued, pending, error, shutting, worker, submitted, threads>>

\* The locked part of shutdown().  The tasks still queued are dropped.
Shutdown ==
    /\ shutting' = TRUE
    /\ worker' = [w \in Workers |-> IF w \in Asleep THEN "ready" ELSE worker[w]]
    /\ UNCHANGED <<queued, pending, error, submitted, threads>>

\* The owner's last call: nothing in the program uses a pool it shut down.
CallShutdown == owner = "free" /\ Shutdown /\ owner' = "join"

\* resize()'s wait() has returned: ~Impl shuts the old threads down.
ReplaceImpl ==
    /\ owner = "resize" /\ pending = 0 /\ ~error
    /\ Shutdown
    /\ owner' = "replace"

Joined ==
    /\ owner = "join" /\ \A w \in Workers : worker[w] = "exited"
    /\ owner' = "down"
    /\ UNCHANGED <<queued, pending, error, shutting, worker, submitted, threads>>

\* A new Impl takes the place of the old one.
Replaced ==
    /\ owner = "replace" /\ \A w \in Workers : worker[w] = "exited"
    /\ queued' = 0 /\ pending' = 0 /\ error' = FALSE /\ shutting' = FALSE
    /\ \E T \in (SUBSET Workers) \ {{}} :
        /\ Cardinality(T) # Cardinality(threads)
        /\ threads' = T /\ worker' = Started(T)
    /\ owner' = "free" /\ submitted' = 0
-----------------------------------------------------------------------------
(* A worker thread.                                                        *)

WorkerSleeps(w) ==
    /\ worker[w] = "ready" /\ queued = 0 /\ ~error /\ ~shutting
    /\ worker' = [worker EXCEPT ![w] = "asleep"]
    /\ UNCHANGED <<queued, pending, error, shutting, owner, submitted, threads>>

WorkerExits(w) ==
    /\ worker[w] = "ready" /\ (error \/ shutting)
    /\ worker' = [worker EXCEPT ![w] = "exited"]
    /\ UNCHANGED <<queued, pending, error, shutting, owner, submitted, threads>>

TakeTask(w) ==
    /\ worker[w] = "ready" /\ queued > 0 /\ ~error /\ ~shutting
    /\ worker' = [worker EXCEPT ![w] = "running"]
    /\ queued' = queued - 1
    /\ UNCHANGED <<pending, error, shutting, owner, submitted, threads>>

\* Mutation: work_done is not notified.
Completed_silently ==
    /\ pending' = pending - 1
    /\ owner' = IF owner = "submit_asleep" THEN "submit" ELSE owner

\* One task less: space_available is always notified, work_done at zero.
Completed ==
    /\ pending' = pending - 1
    /\ owner' = CASE owner = "submit_asleep" -> "submit"
                  [] owner = "wait_asleep" /\ pending' = 0 -> "wait"
                  [] owner = "resize_asleep" /\ pending' = 0 -> "resize"
                  [] OTHER -> owner

TaskDone(w) ==
    /\ worker[w] = "running"
    /\ worker' = [worker EXCEPT ![w] = "ready"]
    /\ Completed
    /\ UNCHANGED <<queued, error, shutting, submitted, threads>>

\* mark_failed: the first error wakes the other workers, which then leave.
mark_failed(w) ==
    /\ TaskFails /\ worker[w] = "running"
    /\ error' = TRUE
    /\ worker' = [v \in Workers |->
                    IF v = w THEN "exited"
                    ELSE IF v \in Asleep /\ ~error THEN "ready" ELSE worker[v]]
    /\ Completed
    /\ UNCHANGED <<queued, shutting, submitted, threads>>
-----------------------------------------------------------------------------
OwnerStep ==
    \/ SubmitBlocks \/ SubmitPushes \/ SubmitThrows
    \/ WaitBlocks \/ WaitThrows \/ WaitReturns
    \/ Joined \/ Replaced
    \/ ReplaceImpl

WorkerStep(w) ==
    WorkerSleeps(w) \/ WorkerExits(w) \/ TakeTask(w) \/ TaskDone(w) \/ mark_failed(w)

Next ==
    \/ CallSubmit \/ CallWait \/ CallResize \/ CallShutdown
    \/ OwnerStep
    \/ \E w \in Workers : WorkerStep(w)

Spec == Init /\ [][Next]_vars

\* Threads are scheduled and tasks end; the owner need not make another call.
FairSpec ==
    /\ Spec
    /\ WF_vars(OwnerStep)
    /\ \A w \in Workers : WF_vars(WorkerStep(w))
-----------------------------------------------------------------------------
TypeOK ==
    /\ queued \in Nat /\ pending \in Nat /\ submitted \in 0..MaxTasks
    /\ error \in BOOLEAN /\ shutting \in BOOLEAN
    /\ threads \in (SUBSET Workers) \ {{}}
    /\ worker \in [Workers -> {"ready", "asleep", "running", "exited"}]
    /\ owner \in {"free", "submit", "submit_asleep", "wait", "wait_asleep",
                  "resize", "resize_asleep", "replace", "join", "down"}

\* The count the owner waits on is exact: the tasks queued and those in hand.
PendingCounts == pending = queued + Cardinality(Running)

\* The backpressure bound holds at all times.
Backpressure == pending <= MaxQueue

\* When wait() returns without an error, or resize() goes on to replace the
\* workers, no task is queued and none is running.
WaitMeansDone ==
    [][(owner \in {"wait", "resize"} /\ owner' \in {"free", "replace"} /\ ~error)
            => queued = 0 /\ Running = {}]_vars

\* A task has thrown: threads of this Impl leave, or have left.
Failed == error \/ (~shutting /\ \E w \in threads : worker[w] = "exited")

\* Every call of the owner returns (pool.hpp's contracts), unless a task of the
\* same Impl has thrown.
CallsReturn ==
    (owner \notin {"free", "down"}) ~> (owner \in {"free", "down"} \/ Failed)
=============================================================================
