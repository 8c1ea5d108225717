---------------------------- MODULE ParallelSync ----------------------------
(***************************************************************************)
(* The daemon's parallel traversal, run_sync_parallel                      *)
(* (src/src/app/sync/parallel.cpp), over the thread pool: the owner        *)
(* submits a page's fetch, drains the page from `ready` and handles it.    *)
(*                                                                         *)
(* The task runs in a worker and works on the owner's frame: ready,        *)
(* ready_mutex, ready_cv and fetch_error are locals of the call.  An       *)
(* action is what a thread does while it holds a mutex, except that the    *)
(* owner's step from its last check to its sleep on ready_cv is split in   *)
(* two: a worker that stores fetch_error takes no mutex and runs between.  *)
(***************************************************************************)
EXTENDS Integers, FiniteSets, Sequences

CONSTANTS
    Workers, MaxQueue, MaxTasks,
    Pages,        \* pages of the timeline
    MaxPages,     \* limits.max_pages
    MaxCalls,     \* bound: cycles of the daemon
    FetchFails,   \* TRUE: a fetch may throw
    HandleFails   \* TRUE: handling a page may throw (ledger, linker)

ASSUME ParallelAssumption ==
    /\ Pages \in Nat \ {0} /\ MaxPages \in Nat \ {0} /\ MaxCalls \in Nat
    /\ FetchFails \in BOOLEAN /\ HandleFails \in BOOLEAN
    /\ IsFiniteSet(Workers) /\ Workers # {} /\ MaxQueue \in Nat \ {0}
    /\ MaxTasks \in Nat /\ MaxCalls * MaxPages <= MaxTasks

VARIABLES
    \* the pool (see WorkerPool)
    queued, pending, error, shutting, threads, worker, owner, submitted,
    at,           \* where the owner is
    cursor,       \* the page to fetch next
    pages,        \* pages this call has handled
    ready,        \* fetched pages, as [seq, page]
    next, consumed,  \* sequence numbers: the next fetch's, the next page's
    fetchError,   \* fetch_error
    calls,        \* traversals started
    fetches,      \* the queued fetches, in the order of the pool's queue
    job,          \* the fetch in each worker's hands
    body,         \* where each worker is in its task
    saved,        \* state.catchup: the page to resume at, 0 for the head
    handled       \* pages whose observations are committed

poolVars == <<queued, pending, error, shutting, threads, worker, owner, submitted>>
frameVars == <<cursor, pages, ready, next, consumed, fetchError>>
taskVars == <<fetches, job, body>>
stateVars == <<saved, handled>>
vars == <<poolVars, frameVars, taskVars, stateVars, at, calls>>

\* Every exception of a task is caught inside it, so no task fails.
Pool == INSTANCE WorkerPool WITH TaskFails <- FALSE

Fetch == [seq : Nat, page : 0..(Pages - 1)]
NoFetch == [seq |-> 0, page |-> 0]

Init ==
    /\ Pool!Init
    /\ at = "idle" /\ calls = 0
    /\ cursor = 0 /\ pages = 0 /\ ready = <<>> /\ next = 0 /\ consumed = 0
    /\ fetchError = FALSE
    /\ fetches = <<>> /\ job = [w \in Workers |-> NoFetch]
    /\ body = [w \in Workers |-> "none"]
    /\ saved = 0 /\ handled = {}

-----------------------------------------------------------------------------
(* The owner.                                                              *)

\* run_cycle: the pool is resized, or keeps its size, before the traversal.
Cycle ==
    /\ at = "idle" /\ calls < MaxCalls
    /\ Pool!CallResize \/ (owner = "free" /\ UNCHANGED poolVars)
    /\ at' = "begin" /\ calls' = calls + 1
    /\ UNCHANGED <<frameVars, taskVars, stateVars>>

Begin ==
    /\ at = "begin" /\ owner = "free"
    /\ cursor' = saved /\ pages' = 0
    /\ ready' = <<>> /\ next' = 0 /\ consumed' = 0 /\ fetchError' = FALSE
    /\ at' = "submit"
    /\ UNCHANGED <<poolVars, taskVars, stateVars, calls>>

CallSubmit ==
    /\ at = "submit" /\ Pool!CallSubmit
    /\ at' = "submitting"
    /\ UNCHANGED <<frameVars, taskVars, stateVars, calls>>

submit_fetch ==
    /\ at = "submitting" /\ Pool!SubmitPushes
    /\ fetches' = Append(fetches, [seq |-> next, page |-> cursor])
    /\ next' = next + 1
    /\ at' = "drain"
    /\ UNCHANGED <<cursor, pages, ready, consumed, fetchError, job, body,
                   stateVars, calls>>

PageReady == ready # <<>> /\ Head(ready).seq = consumed

\* Mutation: the traversal's cursor moves before the page is handled.
DrainTakes_and_saves ==
    /\ at = "drain" /\ ~fetchError /\ PageReady
    /\ cursor' = Head(ready).page /\ saved' = cursor' + 1
    /\ ready' = Tail(ready) /\ consumed' = consumed + 1
    /\ at' = "handle"
    /\ UNCHANGED <<poolVars, pages, next, fetchError, taskVars, handled, calls>>

DrainTakes ==
    /\ at = "drain" /\ ~fetchError /\ PageReady
    /\ cursor' = Head(ready).page
    /\ ready' = Tail(ready) /\ consumed' = consumed + 1
    /\ at' = "handle"
    /\ UNCHANGED <<poolVars, pages, next, fetchError, taskVars, stateVars, calls>>

DrainThrows ==
    /\ at = "drain" /\ fetchError
    /\ at' = "threw"
    /\ UNCHANGED <<poolVars, frameVars, taskVars, stateVars, calls>>

\* Nothing to take: the owner still holds ready_mutex ...
DrainFindsNothing ==
    /\ at = "drain" /\ ~fetchError /\ ~PageReady
    /\ at' = "to_sleep"
    /\ UNCHANGED <<poolVars, frameVars, taskVars, stateVars, calls>>

\* ... and releases it as it goes to sleep.
DrainSleeps ==
    /\ at = "to_sleep"
    /\ at' = "asleep"
    /\ UNCHANGED <<poolVars, frameVars, taskVars, stateVars, calls>>

\* Every observation of the page, then the cursor of the next page.  The call
\* ends at the last page, at max_pages or at max_observations.
HandlePage ==
    /\ at = "handle"
    /\ handled' = handled \union {cursor}
    /\ pages' = pages + 1 /\ cursor' = cursor + 1
    /\ \/ pages' < MaxPages /\ cursor' < Pages /\ at' = "submit"
       \/ at' = "finish"
    /\ UNCHANGED <<poolVars, ready, next, consumed, fetchError, taskVars, saved, calls>>

HandleThrows ==
    /\ HandleFails /\ at = "handle"
    /\ at' = "threw"
    /\ UNCHANGED <<poolVars, frameVars, taskVars, stateVars, calls>>

\* Mutation: the call returns without waiting for the pool.
CallWait_skipped ==
    /\ at = "finish"
    /\ saved' = IF cursor = Pages THEN 0 ELSE cursor
    /\ at' = "idle"
    /\ UNCHANGED <<poolVars, frameVars, taskVars, handled, calls>>

CallWait ==
    /\ at = "finish" /\ Pool!CallWait
    /\ at' = "waiting"
    /\ UNCHANGED <<frameVars, taskVars, stateVars, calls>>

\* The pool is drained: the traversal's state is set and the call returns.
Return ==
    /\ at = "waiting" /\ Pool!WaitReturns
    /\ saved' = IF cursor = Pages THEN 0 ELSE cursor
    /\ at' = "idle"
    /\ UNCHANGED <<frameVars, taskVars, handled, calls>>

\* The daemon ends its loop, or an exception that is not a RetryableError
\* ends the daemon: shutdown() either way.
CallShutdown ==
    /\ at \in {"idle", "threw"} /\ Pool!CallShutdown
    /\ at' = IF at = "idle" THEN "stopping" ELSE "dying"
    /\ UNCHANGED <<frameVars, taskVars, stateVars, calls>>

Joined ==
    /\ Pool!Joined
    /\ at' = IF at = "stopping" THEN "stopped" ELSE "dead"
    /\ UNCHANGED <<frameVars, taskVars, stateVars, calls>>

\* The rest of a pool call that the owner is in.
PoolCall ==
    /\ \/ Pool!SubmitBlocks \/ Pool!WaitBlocks
       \/ Pool!ReplaceImpl \/ Pool!Replaced
    /\ UNCHANGED <<frameVars, taskVars, stateVars, at, calls>>
-----------------------------------------------------------------------------
(* A worker.                                                               *)

TakeTask(w) ==
    /\ Pool!TakeTask(w)
    /\ job' = [job EXCEPT ![w] = Head(fetches)] /\ fetches' = Tail(fetches)
    /\ body' = [body EXCEPT ![w] = "fetch"]
    /\ UNCHANGED <<frameVars, stateVars, at, calls>>

\* The page arrived, or the head page when the service rejected the cursor:
\* pushed under ready_mutex.
Push(w) ==
    /\ body[w] = "fetch" /\ at # "to_sleep"
    /\ \E p \in {job[w].page, 0} : ready' = Append(ready, [job[w] EXCEPT !.page = p])
    /\ body' = [body EXCEPT ![w] = "notify"]
    /\ UNCHANGED <<poolVars, cursor, pages, next, consumed, fetchError,
                   fetches, job, stateVars, at, calls>>

\* The fetch threw: the flag is stored without the mutex.
StoreError(w) ==
    /\ FetchFails /\ body[w] = "fetch"
    /\ fetchError' = TRUE
    /\ body' = [body EXCEPT ![w] = "notify"]
    /\ UNCHANGED <<poolVars, cursor, pages, ready, next, consumed,
                   fetches, job, stateVars, at, calls>>

\* Mutation: the owner is not notified.
Notify_nobody(w) ==
    /\ body[w] = "notify"
    /\ body' = [body EXCEPT ![w] = "end"]
    /\ UNCHANGED <<poolVars, frameVars, fetches, job, stateVars, at, calls>>

\* ready_cv.notify_one(), without the mutex: only an owner already asleep
\* hears it.
Notify(w) ==
    /\ body[w] = "notify"
    /\ at' = IF at = "asleep" THEN "drain" ELSE at
    /\ body' = [body EXCEPT ![w] = "end"]
    /\ UNCHANGED <<poolVars, frameVars, fetches, job, stateVars, calls>>

TaskEnds(w) ==
    /\ body[w] = "end" /\ Pool!TaskDone(w)
    /\ body' = [body EXCEPT ![w] = "none"]
    /\ UNCHANGED <<frameVars, fetches, job, stateVars, at, calls>>

Idle(w) ==
    /\ Pool!WorkerSleeps(w) \/ Pool!WorkerExits(w)
    /\ UNCHANGED <<frameVars, taskVars, stateVars, at, calls>>
-----------------------------------------------------------------------------
\* The owner's steps inside a call; Cycle and a shutdown of an idle daemon
\* depend on timers and signals.
OwnerStep ==
    \/ Begin \/ CallSubmit \/ submit_fetch
    \/ DrainTakes \/ DrainThrows \/ DrainFindsNothing \/ DrainSleeps
    \/ HandlePage \/ HandleThrows \/ CallWait \/ Return
    \/ Joined \/ PoolCall

WorkerStep(w) ==
    \/ TakeTask(w) \/ Push(w) \/ StoreError(w) \/ Notify(w) \/ TaskEnds(w)
    \/ Idle(w)

Next ==
    \/ Cycle \/ CallShutdown \/ OwnerStep
    \/ \E w \in Workers : WorkerStep(w)

Spec == Init /\ [][Next]_vars

\* Threads are scheduled and a fetch ends (it has a timeout).
FairSpec ==
    /\ Spec
    /\ WF_vars(OwnerStep)
    /\ WF_vars(at = "threw" /\ CallShutdown)
    /\ \A w \in Workers : WF_vars(WorkerStep(w))
-----------------------------------------------------------------------------
TypeOK ==
    /\ Pool!TypeOK
    /\ at \in {"idle", "begin", "submit", "submitting", "drain", "to_sleep",
               "asleep", "handle", "finish", "waiting", "threw", "stopping",
               "stopped", "dying", "dead"}
    /\ cursor \in 0..Pages /\ pages \in 0..MaxPages
    /\ next \in 0..MaxPages /\ consumed \in 0..MaxPages
    /\ fetchError \in BOOLEAN /\ calls \in 0..MaxCalls
    /\ ready \in Seq(Fetch) /\ fetches \in Seq(Fetch) /\ Len(fetches) = queued
    /\ job \in [Workers -> Fetch]
    /\ body \in [Workers -> {"none", "fetch", "notify", "end"}]
    /\ saved \in 0..Pages /\ handled \in SUBSET (0..(Pages - 1))

\* The owner's frame exists: the call has started and not returned or thrown.
InFrame == at \in {"submit", "submitting", "drain", "to_sleep", "asleep",
                   "handle", "finish", "waiting"}

\* A fetch works on the owner's locals, and is drained before run_sync_parallel
\* returns (cli/daemon.cpp:258): it finds them gone only after an exception.
FrameOutlivesTask ==
    (\E w \in Workers : body[w] \in {"fetch", "notify"}) \/ fetches # <<>>
        => InFrame \/ at \in {"threw", "dying", "dead"}

\* The graph and the daemon's limits have one user at a time: a fetch, which
\* refreshes the graph's resource limits in the worker (cli/daemon.cpp:211),
\* runs only while the owner waits for its page.
OneGraphUser ==
    (\E w \in Workers : body[w] = "fetch")
        => at \in {"submitting", "drain", "to_sleep", "asleep"}

\* What owner and worker share is used by one of them at a time, and only while
\* it exists (parallel.cpp:64-66, cli/daemon.cpp:211).
SharingIsSafe == FrameOutlivesTask /\ OneGraphUser

\* The cursor the next call resumes at is past handled pages only, also when
\* a call was aborted (parallel.hpp:27).
CursorBehindHandled == \A p \in 0..(saved - 1) : p \in handled

\* A call of run_sync_parallel ends, unless a fetch has failed: no wakeup of
\* the owner is lost when pages arrive or handling them throws.
SyncEnds == InFrame ~> (~InFrame \/ fetchError)
=============================================================================
