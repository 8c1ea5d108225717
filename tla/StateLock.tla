----------------------------- MODULE StateLock -----------------------------
(***************************************************************************)
(* The state directory's lock file (src/src/app/state/lock.cpp): created   *)
(* with O_CREAT|O_EXCL, filled with its owner's metadata, removed by the   *)
(* destructor, and stolen when its owner is provably dead.                 *)
(*                                                                         *)
(* One action is one system call (open, write, stat, read, kill, unlink),   *)
(* so everything a process has learned about the file may be stale when it *)
(* acts on it.                                                             *)
(*                                                                         *)
(* What is abstracted.  The metadata is whether it names its owner ("ok"), *)
(* was cut short ("torn") or is not there yet ("empty"), and whether the   *)
(* process it names still runs: a dead pid and a boot marker of an earlier *)
(* boot are the same thing.  A pid is never given to another process.      *)
(***************************************************************************)
EXTENDS Integers, FiniteSets

CONSTANTS
    Procs,        \* processes that want the lock
    NoProc,       \* no lock file
    EmptyRetries, \* kEmptyRetries: looks at an empty file before stealing it
    WriteFaults,  \* TRUE: the metadata may not be written, or only in part
    MaxCrashes    \* bound: processes that die with the lock or on the way to it

LockAssumption ==
    /\ NoProc \notin Procs
    /\ EmptyRetries \in Nat /\ MaxCrashes \in Nat
    /\ WriteFaults \in BOOLEAN

ASSUME LockConstants == LockAssumption

VARIABLES
    file,     \* the lock file
    pc,       \* where each process is
    retries,  \* empty_retries of each constructor
    seen,     \* whom each has judged by: the pid it read, and whether that runs
    crashes,
    fresh,    \* history: the file each judged is still the one at the path
    mistaken  \* history: a steal took the file of a process that runs

vars == <<file, pc, retries, seen, crashes, fresh, mistaken>>

Absent == [owner |-> NoProc, text |-> "none", alive |-> FALSE]
LockFile == [owner : Procs, text : {"empty", "ok", "torn"}, alive : BOOLEAN]

Nobody == [owner |-> NoProc, alive |-> FALSE]
Contents == [owner : Procs \cup {NoProc}, alive : BOOLEAN]

Init ==
    /\ file = Absent
    /\ pc = [p \in Procs |-> "out"]
    /\ retries = [p \in Procs |-> 0]
    /\ seen = [p \in Procs |-> Nobody]
    /\ crashes = 0
    /\ fresh = [p \in Procs |-> FALSE]
    /\ mistaken = FALSE

Goto(p, l) == pc' = [pc EXCEPT ![p] = l]

judgement == <<seen, fresh>>

\* p no longer goes by what it has seen.
Forget(p) ==
    /\ seen' = [seen EXCEPT ![p] = Nobody]
    /\ fresh' = [fresh EXCEPT ![p] = FALSE]

\* The path is unlinked, whoever's file is there: no judgement is of the file
\* that comes next.
Unlink ==
    /\ file' = Absent
    /\ fresh' = [q \in Procs |-> FALSE]

\* The pid of p no longer exists.
PidGone(p) ==
    /\ file' = IF file.owner = p THEN [file EXCEPT !.alive = FALSE] ELSE file
    /\ seen' = [q \in Procs |->
                  IF q = p THEN Nobody
                  ELSE IF seen[q].owner = p THEN [seen[q] EXCEPT !.alive = FALSE]
                  ELSE seen[q]]

\* A command begins, or a process that has had a lock takes the next.
Start(p) ==
    /\ pc[p] \in {"out", "done"}
    /\ Goto(p, "create")
    /\ retries' = [retries EXCEPT ![p] = 0]
    /\ UNCHANGED <<file, judgement, crashes, mistaken>>

\* open(O_CREAT | O_EXCL)
Create(p) ==
    /\ pc[p] = "create" /\ file = Absent
    /\ file' = [owner |-> p, text |-> "empty", alive |-> TRUE]
    /\ Goto(p, "write")
    /\ UNCHANGED <<retries, judgement, crashes, mistaken>>

Exists(p) ==
    /\ pc[p] = "create" /\ file # Absent
    /\ Goto(p, "size")
    /\ UNCHANGED <<file, retries, judgement, crashes, mistaken>>

\* write_lock_file goes to the descriptor: when the file was stolen meanwhile
\* it reaches nobody.  Its failure is ignored.
WriteMetadata(p) ==
    /\ pc[p] = "write"
    /\ \E text \in {"ok"} \cup (IF WriteFaults THEN {"empty", "torn"} ELSE {}) :
        file' = IF file.owner = p THEN [file EXCEPT !.text = text] ELSE file
    /\ Goto(p, "held")
    /\ UNCHANGED <<retries, judgement, crashes, mistaken>>

\* Mutation: an empty file is stolen at once.
SizeEmpty_steals(p) ==
    /\ pc[p] = "size" /\ file.text = "empty"
    /\ Goto(p, "remove")
    /\ fresh' = [fresh EXCEPT ![p] = TRUE]
    /\ UNCHANGED <<file, retries, seen, crashes, mistaken>>

\* file_size: an empty file is looked at again a bounded number of times, and
\* then stolen.  Its owner may be slow, or have failed to write.
SizeEmpty(p) ==
    /\ pc[p] = "size" /\ file.text = "empty"
    /\ IF retries[p] < EmptyRetries
       THEN /\ Goto(p, "create")
            /\ retries' = [retries EXCEPT ![p] = @ + 1]
            /\ UNCHANGED fresh
       ELSE /\ Goto(p, "remove")
            /\ fresh' = [fresh EXCEPT ![p] = TRUE]
            /\ UNCHANGED retries
    /\ UNCHANGED <<file, seen, crashes, mistaken>>

SizeOther(p) ==
    /\ pc[p] = "size" /\ file.text # "empty"
    /\ Goto(p, "parse")
    /\ UNCHANGED <<file, retries, judgement, crashes, mistaken>>

\* parse_lock_file reads the owner's pid.
Parse(p) ==
    /\ pc[p] = "parse" /\ file.text = "ok"
    /\ Goto(p, "probe")
    /\ seen' = [seen EXCEPT ![p] = [owner |-> file.owner, alive |-> file.alive]]
    /\ fresh' = [fresh EXCEPT ![p] = TRUE]
    /\ UNCHANGED <<file, retries, crashes, mistaken>>

\* No file by now, or no readable owner: StateLockError.
ParseRefuse(p) ==
    /\ pc[p] = "parse" /\ file.text # "ok"
    /\ Goto(p, "done")
    /\ UNCHANGED <<file, retries, judgement, crashes, mistaken>>

\* Mutation: no owner is ever found dead.
lock_is_stale_never(contents) == FALSE

\* kill(pid, 0): of the pid that was read, whatever file is there by now.
lock_is_stale(contents) == ~contents.alive

ProbeStale(p) ==
    /\ pc[p] = "probe" /\ lock_is_stale(seen[p])
    /\ Goto(p, "remove")
    /\ UNCHANGED <<file, retries, judgement, crashes, mistaken>>

\* A live owner: StateLockError.
ProbeRefuse(p) ==
    /\ pc[p] = "probe" /\ ~lock_is_stale(seen[p])
    /\ Goto(p, "done")
    /\ Forget(p)
    /\ UNCHANGED <<file, retries, crashes, mistaken>>

\* The two ways a steal takes a live process's file: another file has come in
\* the place of the one p judged, or the file stayed empty for every retry.
Overtaken(p) == ~fresh[p]
LeftEmpty(p) == seen[p] = Nobody /\ retries[p] = EmptyRetries

\* remove() names the path.
Remove(p) ==
    /\ pc[p] = "remove"
    /\ mistaken' = (mistaken \/ (file.alive /\ (Overtaken(p) \/ LeftEmpty(p))))
    /\ Unlink
    /\ Goto(p, "create")
    /\ seen' = [seen EXCEPT ![p] = Nobody]
    /\ UNCHANGED <<retries, crashes>>

\* ~StateLock removes the path as well.
Release(p) ==
    /\ pc[p] = "held"
    /\ Unlink
    /\ Goto(p, "done")
    /\ UNCHANGED <<retries, seen, crashes, mistaken>>

\* The process ends, refused or done with its lock.
Exit(p) ==
    /\ pc[p] = "done"
    /\ PidGone(p)
    /\ Goto(p, "out")
    /\ UNCHANGED <<retries, crashes, fresh, mistaken>>

Crash(p) ==
    /\ pc[p] # "out" /\ crashes < MaxCrashes
    /\ crashes' = crashes + 1
    /\ PidGone(p)
    /\ fresh' = [fresh EXCEPT ![p] = FALSE]
    /\ Goto(p, "out")
    /\ UNCHANGED <<retries, mistaken>>

Step(p) ==
    \/ Start(p) \/ Create(p) \/ Exists(p) \/ WriteMetadata(p)
    \/ SizeEmpty(p) \/ SizeOther(p) \/ Parse(p) \/ ParseRefuse(p)
    \/ ProbeStale(p) \/ ProbeRefuse(p) \/ Remove(p) \/ Release(p) \/ Exit(p)

Next == \E p \in Procs : Step(p) \/ Crash(p)

Spec == Init /\ [][Next]_vars

\* Every process is scheduled, commands end, and new ones are started.
FairSpec == Spec /\ \A p \in Procs : WF_vars(Step(p))
-----------------------------------------------------------------------------
TypeOK ==
    /\ file \in LockFile \cup {Absent}
    /\ pc \in [Procs -> {"out", "create", "write", "size", "parse", "probe", "remove",
                         "held", "done"}]
    /\ retries \in [Procs -> 0..EmptyRetries]
    /\ seen \in [Procs -> Contents]
    /\ crashes \in 0..MaxCrashes
    /\ fresh \in [Procs -> BOOLEAN]
    /\ mistaken \in BOOLEAN

\* Two commands never own the state directory together (StateLock's purpose).
MutualExclusion ==
    \A p, q \in Procs : pc[p] = "held" /\ pc[q] = "held" => p = q

\* lock.hpp:20-21 "A lockfile owned by a live process on the current boot is
\* respected".  The code keeps this except in two windows, which `mistaken'
\* marks: a contender that read the file and found its owner dead (its process
\* crashed or just ended) removes by path whatever has been created there since
\* (lock.cpp:165, 178-179); and a file that stays empty through all the retries,
\* whose owner is slow or failed to write, is stolen (lock.cpp:167-175).  As long
\* as neither has happened, through any crashes, exits and failed writes, the lock
\* has one owner and that owner's file is in place.
LiveOwnerIsRespected ==
    ~mistaken => /\ MutualExclusion
                 /\ \A p \in Procs : pc[p] = "held" => file.owner = p

\* The lock of a dead owner is taken over in the end: the directory is never
\* locked for good.
DeadLockIsRecovered ==
    (file # Absent /\ ~file.alive) ~> (file = Absent \/ file.alive)
=============================================================================
