--------------------------- MODULE RecordsProofs ---------------------------
(***************************************************************************)
(* What the components of Records promise, for every number of processes,  *)
(* actions and records.  Each component has an inductive invariant of its  *)
(* own; a behaviour of Records is one component's, so the invariant of a   *)
(* part is disturbed by the steps of that part alone.                      *)
(***************************************************************************)
EXTENDS Records, FiniteSets, FiniteSetTheorems, WellFoundedInduction, TLAPS

---------------------------------------------------------------------------
(* Reflection. *)

PassType ==
  [pc : {"idle", "lock", "load", "write", "snapshot"}, store : Reflect!Stores \cup {None},
   now : Nat, facts : SUBSET (Topics \X Nat), left : SUBSET Topics,
   consolidate : BOOLEAN, budget : 0..MaxThoughts, prev : Nat]

\* The stores are sequences of records, a pass knows which store it is about.
ReflectionTyped ==
  /\ rf_clock \in Nat
  /\ rf_moved \subseteq Topics \X Nat
  /\ rf_thoughts \in Seq([kind : Reflect!ThoughtKinds, topic : Topics \cup {None}, at : Nat])
  /\ rf_snapshots \in Seq([at : Nat, previous : Nat])
  /\ rf_holder \in [Reflect!Stores -> Procs \cup {None}]
  /\ rf_proc \in [Procs -> PassType]

\* A pass past the lock has the lock of its store.
Holding(p) ==
  /\ rf_proc[p].pc = "lock" => rf_proc[p].store \in Reflect!Stores
  /\ rf_proc[p].pc \in {"load", "write", "snapshot"} =>
       rf_proc[p].store \in Reflect!Stores /\ rf_holder[rf_proc[p].store] = p
  /\ rf_proc[p].pc = "write" => rf_proc[p].store = "thoughts"
  /\ rf_proc[p].pc = "snapshot" => rf_proc[p].store = "metrics"

\* What a pass has still to write is not in the store: no note of its instant on
\* a topic that is left, and the snapshot it compares with is the last one.
Pending(p) ==
  /\ rf_proc[p].pc = "write" =>
       \A i \in DOMAIN rf_thoughts :
         rf_thoughts[i].kind = "movement" /\ rf_thoughts[i].at = rf_proc[p].now =>
           rf_thoughts[i].topic \notin rf_proc[p].left
  /\ rf_proc[p].pc = "snapshot" => rf_proc[p].prev = Len(rf_snapshots)

ReflectionInv ==
  /\ ReflectionTyped
  /\ \A p \in Procs : Holding(p)
  /\ \A p \in Procs : Pending(p)
  /\ Reflect!PassesAreSerial

\* A process outside a pass.
LEMMA IdleTyped == Reflect!Idle \in PassType
  BY RecordsAssumption DEF PassType, Reflect!Idle, Reflect!ReflectionAssumption

\* Nothing has run: the stores are empty and nobody is in a pass.
LEMMA ReflectionStarts == Reflect!Init => ReflectionInv
  <1> SUFFICES ASSUME Reflect!Init PROVE ReflectionInv
    OBVIOUS
  <1> USE RecordsAssumption DEF Reflect!Init, Reflect!ReflectionAssumption
  <1>1. ReflectionTyped
    BY IdleTyped DEF ReflectionTyped, Reflect!Stores
  <1>2. \A p \in Procs : Holding(p)
    BY DEF Holding, Reflect!Idle
  <1>3. \A p \in Procs : Pending(p)
    BY DEF Pending, Reflect!Idle
  <1>4. Reflect!PassesAreSerial
    BY DEF Reflect!PassesAreSerial, Reflect!MovementsAreNotedOnce, Reflect!SnapshotsFormAChain
  <1> QED
    BY <1>1, <1>2, <1>3, <1>4 DEF ReflectionInv

\* Two passes past the lock of one store are the same pass.
LEMMA HoldersAreAlone ==
  ASSUME \A p \in Procs : Holding(p),
         NEW p \in Procs, NEW q \in Procs,
         rf_proc[p].pc \in {"load", "write", "snapshot"},
         rf_proc[q].pc \in {"load", "write", "snapshot"},
         rf_proc[p].store = rf_proc[q].store
  PROVE  p = q
  BY DEF Holding

\* Where a pass stands does not matter to its store: the properties of the
\* stores are about the stores alone.
LEMMA StoresUnchanged ==
  ASSUME Reflect!PassesAreSerial, UNCHANGED <<rf_thoughts, rf_snapshots>>
  PROVE  Reflect!PassesAreSerial'
  BY DEF Reflect!PassesAreSerial, Reflect!MovementsAreNotedOnce, Reflect!SnapshotsFormAChain

\* A pass is begun: the clock and the facts are read, no store is touched.
LEMMA BeginKeeps ==
  ASSUME ReflectionInv, NEW p \in Procs, NEW store \in Reflect!Stores, Reflect!Begin(p, store)
  PROVE  ReflectionInv'
  <1> USE RecordsAssumption DEF Reflect!ReflectionAssumption
  <1>0. [Reflect!Idle EXCEPT !.pc = "lock", !.store = store, !.now = rf_clock,
                             !.facts = rf_moved] \in PassType
    <2>1. rf_moved \in SUBSET (Topics \X Nat) /\ rf_clock \in Nat
      BY DEF ReflectionInv, ReflectionTyped
    <2> QED
      BY IdleTyped, <2>1 DEF PassType
  <1>1. ReflectionTyped'
    BY <1>0 DEF ReflectionInv, ReflectionTyped, Reflect!Begin
  <1>2. \A q \in Procs : rf_proc'[q] = IF q = p THEN rf_proc'[p] ELSE rf_proc[q]
    BY DEF ReflectionInv, ReflectionTyped, Reflect!Begin
  <1>3. rf_proc'[p].pc = "lock" /\ rf_proc'[p].store = store
    BY DEF ReflectionInv, ReflectionTyped, Reflect!Begin, Reflect!Idle
  <1>4. ASSUME NEW q \in Procs PROVE Holding(q)'
    BY <1>2, <1>3, <1>4 DEF ReflectionInv, Holding, Reflect!Begin
  <1>5. ASSUME NEW q \in Procs PROVE Pending(q)'
    BY <1>2, <1>3, <1>5 DEF ReflectionInv, Pending, Reflect!Begin
  <1>6. Reflect!PassesAreSerial'
    BY StoresUnchanged DEF ReflectionInv, Reflect!Begin
  <1> QED
    BY <1>1, <1>4, <1>5, <1>6 DEF ReflectionInv

\* The lock is taken when it is free; a pass that finds it held is given up.
LEMMA LockKeeps ==
  ASSUME ReflectionInv, NEW p \in Procs, Reflect!Lock(p)
  PROVE  ReflectionInv'
  <1> DEFINE s == rf_proc[p].store
             free == rf_holder[s] = None
  <1> USE RecordsAssumption DEF Reflect!ReflectionAssumption
  <1>0. rf_proc[p].pc = "lock" /\ s \in Reflect!Stores
    BY DEF ReflectionInv, Holding, Reflect!Lock
  <1>1. ReflectionTyped'
    <2>1. [rf_proc[p] EXCEPT !.pc = "load"] \in PassType
      BY ZenonT(60) DEF ReflectionInv, ReflectionTyped, PassType
    <2> QED
      BY <1>0, <2>1, IdleTyped DEF ReflectionInv, ReflectionTyped, Reflect!Lock
  <1>2. \A q \in Procs : q # p => rf_proc'[q] = rf_proc[q]
    BY DEF ReflectionInv, ReflectionTyped, Reflect!Lock
  <1>3. free => /\ rf_proc'[p].pc = "load" /\ rf_proc'[p].store = s
                /\ rf_holder' = [rf_holder EXCEPT ![s] = p]
    BY DEF ReflectionInv, ReflectionTyped, Reflect!Lock
  <1>4. ~free => rf_proc'[p].pc = "idle" /\ rf_holder' = rf_holder
    BY DEF ReflectionInv, ReflectionTyped, Reflect!Lock, Reflect!Idle
  <1>5. ASSUME NEW q \in Procs PROVE Holding(q)'
    <2>0. rf_holder \in [Reflect!Stores -> Procs \cup {None}]
      BY DEF ReflectionInv, ReflectionTyped
    <2>1. CASE q = p
      BY <1>0, <1>3, <1>4, <2>0, <2>1 DEF Holding
    <2>2. CASE q # p
      <3>1. Holding(q) /\ rf_proc'[q] = rf_proc[q]
        BY <1>2, <2>2 DEF ReflectionInv
      <3> QED
        BY <1>0, <1>3, <1>4, <2>0, <2>2, <3>1 DEF Holding
    <2> QED
      BY <2>1, <2>2
  <1>6. ASSUME NEW q \in Procs PROVE Pending(q)'
    BY <1>2, <1>3, <1>4, <1>6 DEF ReflectionInv, Pending, Reflect!Lock
  <1>7. Reflect!PassesAreSerial'
    BY StoresUnchanged DEF ReflectionInv, Reflect!Lock
  <1> QED
    BY <1>1, <1>5, <1>6, <1>7 DEF ReflectionInv

\* The end of a pass gives back the lock it has and no other.
LEMMA UnlockKeeps ==
  ASSUME ReflectionInv, NEW p \in Procs, rf_proc[p].pc \in {"load", "write", "snapshot"},
         Reflect!Unlock(p)
  PROVE  /\ rf_proc' \in [Procs -> PassType]
         /\ rf_holder' \in [Reflect!Stores -> Procs \cup {None}]
         /\ \A q \in Procs : Holding(q)'
         /\ rf_proc'[p].pc = "idle"
         /\ \A q \in Procs : q # p => rf_proc'[q] = rf_proc[q]
  <1> DEFINE s == rf_proc[p].store
  <1>0. /\ rf_proc \in [Procs -> PassType]
        /\ rf_holder \in [Reflect!Stores -> Procs \cup {None}]
        /\ s \in Reflect!Stores /\ rf_holder[s] = p
    BY DEF ReflectionInv, ReflectionTyped, Holding
  <1>1. rf_proc' = [rf_proc EXCEPT ![p] = Reflect!Idle]
        /\ rf_holder' = [rf_holder EXCEPT ![s] = None]
    BY DEF Reflect!Unlock
  <1>2. rf_proc' \in [Procs -> PassType] /\ rf_holder' \in [Reflect!Stores -> Procs \cup {None}]
    BY <1>0, <1>1, IdleTyped
  <1>3. rf_proc'[p].pc = "idle" /\ \A q \in Procs : q # p => rf_proc'[q] = rf_proc[q]
    BY <1>0, <1>1 DEF Reflect!Idle
  <1>4. ASSUME NEW q \in Procs PROVE Holding(q)'
    <2>1. CASE q = p
      BY <1>3, <2>1 DEF Holding
    <2>2. CASE q # p
      <3>1. Holding(q) /\ rf_proc'[q] = rf_proc[q]
        BY <1>3, <2>2 DEF ReflectionInv
      <3> QED
        BY <1>0, <1>1, <2>2, <3>1 DEF Holding
    <2> QED
      BY <2>1, <2>2
  <1> QED
    BY <1>2, <1>3, <1>4

\* The store of thoughts is read under its lock: what is left to write has no
\* note of this instant yet.
LEMMA LoadThoughtsKeeps ==
  ASSUME ReflectionInv, NEW p \in Procs, Reflect!LoadThoughts(p)
  PROVE  ReflectionInv'
  <1> USE RecordsAssumption DEF Reflect!ReflectionAssumption
  <1>0. PICK facts \in {rf_proc[p].facts, rf_moved} :
          rf_proc' = [rf_proc EXCEPT
            ![p].pc = "write",
            ![p].left = Reflect!Candidates(rf_thoughts, facts, rf_proc[p].now),
            ![p].consolidate = Reflect!due(Reflect!last_consolidation(rf_thoughts), rf_proc[p].now),
            ![p].budget = MaxThoughts]
    BY DEF Reflect!LoadThoughts
  <1> DEFINE left == Reflect!Candidates(rf_thoughts, facts, rf_proc[p].now)
             again == Reflect!due(Reflect!last_consolidation(rf_thoughts), rf_proc[p].now)
  <1>a. left \subseteq Topics
    BY DEF Reflect!Candidates, Reflect!Triggered
  <1>b. again \in BOOLEAN
    BY DEF Reflect!due
  <1>c. \A i \in DOMAIN rf_thoughts :
          rf_thoughts[i].kind = "movement" /\ rf_thoughts[i].at = rf_proc[p].now => left = {}
    BY DEF Reflect!Candidates, Reflect!already_has
  <1> HIDE DEF left, again
  <1>d. /\ rf_proc \in [Procs -> PassType]
        /\ rf_proc[p].pc = "load" /\ rf_proc[p].store = "thoughts"
        /\ UNCHANGED <<rf_clock, rf_moved, rf_thoughts, rf_snapshots, rf_holder>>
    BY DEF ReflectionInv, ReflectionTyped, Reflect!LoadThoughts
  <1>e. rf_proc' = [rf_proc EXCEPT ![p] = [rf_proc[p] EXCEPT !.pc = "write", !.left = left,
                                       !.consolidate = again, !.budget = MaxThoughts]]
    BY <1>0, <1>d DEF left, again
  <1>f. [rf_proc[p] EXCEPT !.pc = "write", !.left = left, !.consolidate = again,
                           !.budget = MaxThoughts] \in PassType
    <2>1. left \in SUBSET Topics /\ MaxThoughts \in 0..MaxThoughts /\ rf_proc[p] \in PassType
      BY <1>a, <1>d
    <2> QED
      BY <1>b, <2>1 DEF PassType
  <1>1. ReflectionTyped'
    BY <1>d, <1>e, <1>f DEF ReflectionInv, ReflectionTyped
  <1>2. \A q \in Procs : q # p => rf_proc'[q] = rf_proc[q]
    BY <1>d, <1>e
  <1>3. /\ rf_proc'[p].pc = "write" /\ rf_proc'[p].left = left
        /\ rf_proc'[p].now = rf_proc[p].now /\ rf_proc'[p].store = rf_proc[p].store
    BY <1>d, <1>e DEF PassType
  <1>4. ASSUME NEW q \in Procs PROVE Holding(q)'
    BY <1>2, <1>3, <1>4, <1>d DEF ReflectionInv, Holding
  <1>5. ASSUME NEW q \in Procs PROVE Pending(q)'
    <2>1. CASE q = p
      BY <1>3, <1>c, <1>d, <2>1 DEF Pending
    <2>2. CASE q # p
      BY <1>2, <1>5, <1>d, <2>2 DEF ReflectionInv, Pending
    <2> QED
      BY <2>1, <2>2
  <1>6. Reflect!PassesAreSerial'
    BY <1>d, StoresUnchanged DEF ReflectionInv
  <1> QED
    BY <1>1, <1>4, <1>5, <1>6 DEF ReflectionInv

\* A thought is added: who else is in the store's write phase would have its lock.
LEMMA ThoughtAdded ==
  ASSUME ReflectionTyped,
         NEW kind \in Reflect!ThoughtKinds, NEW topic \in Topics \cup {None}, NEW at \in Nat,
         rf_thoughts' = Append(rf_thoughts, Reflect!Thought(kind, topic, at))
  PROVE  /\ rf_thoughts' \in Seq([kind : Reflect!ThoughtKinds, topic : Topics \cup {None}, at : Nat])
         /\ DOMAIN rf_thoughts' = DOMAIN rf_thoughts \cup {Len(rf_thoughts) + 1}
         /\ Len(rf_thoughts) + 1 \notin DOMAIN rf_thoughts
         /\ \A i \in DOMAIN rf_thoughts : rf_thoughts'[i] = rf_thoughts[i]
         /\ rf_thoughts'[Len(rf_thoughts) + 1] = [kind |-> kind, topic |-> topic, at |-> at]
  <1> DEFINE T == [kind : Reflect!ThoughtKinds, topic : Topics \cup {None}, at : Nat]
             t == Reflect!Thought(kind, topic, at)
  <1>1. t \in T /\ t = [kind |-> kind, topic |-> topic, at |-> at]
    BY DEF Reflect!Thought
  <1>2. rf_thoughts \in Seq(T)
    BY DEF ReflectionTyped
  <1> HIDE DEF T, t
  <1>3. rf_thoughts' = Append(rf_thoughts, t)
    BY DEF t
  <1>4. /\ rf_thoughts' \in Seq(T)
        /\ DOMAIN rf_thoughts' = DOMAIN rf_thoughts \cup {Len(rf_thoughts) + 1}
        /\ Len(rf_thoughts) + 1 \notin DOMAIN rf_thoughts
        /\ \A i \in DOMAIN rf_thoughts : rf_thoughts'[i] = rf_thoughts[i]
        /\ rf_thoughts'[Len(rf_thoughts) + 1] = t
    BY <1>1, <1>2, <1>3
  <1> QED
    BY <1>1, <1>4 DEF T

\* One movement is noted: its topic leaves what is left with its note.
LEMMA WriteMovementKeeps ==
  ASSUME ReflectionInv, NEW p \in Procs, NEW topic \in Topics, Reflect!WriteMovement(p, topic)
  PROVE  ReflectionInv'
  <1> DEFINE n == Len(rf_thoughts) + 1
             left == rf_proc[p].left \ {topic}
             budget == rf_proc[p].budget - 1
  <1>0. /\ ReflectionTyped /\ rf_proc[p] \in PassType /\ rf_proc \in [Procs -> PassType]
        /\ rf_proc[p].pc = "write" /\ topic \in rf_proc[p].left /\ rf_proc[p].budget > 0
        /\ UNCHANGED <<rf_clock, rf_moved, rf_snapshots, rf_holder>>
    BY DEF ReflectionInv, ReflectionTyped, Reflect!WriteMovement
  <1>1. rf_proc' = [rf_proc EXCEPT ![p] = [rf_proc[p] EXCEPT !.left = left, !.budget = budget]]
    BY <1>0 DEF Reflect!WriteMovement
  <1>2. /\ rf_thoughts' \in Seq([kind : Reflect!ThoughtKinds, topic : Topics \cup {None}, at : Nat])
        /\ DOMAIN rf_thoughts' = DOMAIN rf_thoughts \cup {n}
        /\ n \notin DOMAIN rf_thoughts
        /\ \A i \in DOMAIN rf_thoughts : rf_thoughts'[i] = rf_thoughts[i]
        /\ rf_thoughts'[n] = [kind |-> "movement", topic |-> topic, at |-> rf_proc[p].now]
    <2>1. "movement" \in Reflect!ThoughtKinds /\ topic \in Topics \cup {None}
          /\ rf_proc[p].now \in Nat
      BY <1>0 DEF Reflect!ThoughtKinds, PassType
    <2>2. rf_thoughts' = Append(rf_thoughts, Reflect!Thought("movement", topic, rf_proc[p].now))
      BY DEF Reflect!WriteMovement
    <2> QED
      BY <1>0, <2>1, <2>2, ThoughtAdded
  <1>3. left \in SUBSET Topics /\ budget \in 0..MaxThoughts
    BY <1>0, RecordsAssumption DEF PassType, Reflect!ReflectionAssumption
  <1> HIDE DEF n, left, budget
  <1>4. ReflectionTyped'
    <2>1. [rf_proc[p] EXCEPT !.left = left, !.budget = budget] \in PassType
      BY <1>0, <1>3 DEF PassType
    <2> QED
      BY <1>0, <1>1, <1>2, <2>1 DEF ReflectionTyped
  <1>5. \A q \in Procs : q # p => rf_proc'[q] = rf_proc[q]
    BY <1>0, <1>1
  <1>6. /\ rf_proc'[p].pc = "write" /\ rf_proc'[p].left = left
        /\ rf_proc'[p].now = rf_proc[p].now /\ rf_proc'[p].store = rf_proc[p].store
    BY <1>0, <1>1 DEF PassType
  <1>7. ASSUME NEW q \in Procs PROVE Holding(q)'
    BY <1>0, <1>5, <1>6, <1>7 DEF ReflectionInv, Holding
  <1>8. ASSUME NEW q \in Procs PROVE Pending(q)'
    <2>1. CASE q = p
      <3>1. Pending(p)
        BY DEF ReflectionInv
      <3>2. ASSUME NEW i \in DOMAIN rf_thoughts', rf_thoughts'[i].kind = "movement",
                   rf_thoughts'[i].at = rf_proc[p].now
            PROVE  rf_thoughts'[i].topic \notin left
        BY <1>0, <1>2, <3>1, <3>2 DEF Pending, left
      <3> QED
        BY <1>6, <2>1, <3>2 DEF Pending
    <2>2. CASE q # p
      <3>1. rf_proc[q].pc # "write"
        <4> SUFFICES ASSUME rf_proc[q].pc = "write" PROVE FALSE
          OBVIOUS
        <4>1. rf_proc[q].store = "thoughts" /\ rf_proc[p].store = "thoughts"
          BY <1>0 DEF ReflectionInv, Holding
        <4> QED
          BY <1>0, <2>2, <4>1, HoldersAreAlone DEF ReflectionInv
      <3> QED
        BY <1>0, <1>5, <2>2, <3>1 DEF ReflectionInv, Pending
    <2> QED
      BY <2>1, <2>2
  <1>9. Reflect!PassesAreSerial'
    <2>1. Reflect!SnapshotsFormAChain'
      BY <1>0 DEF ReflectionInv, Reflect!PassesAreSerial, Reflect!SnapshotsFormAChain
    <2>2. Pending(p) /\ Reflect!MovementsAreNotedOnce
      BY DEF ReflectionInv, Reflect!PassesAreSerial
    <2>3. ASSUME NEW i \in DOMAIN rf_thoughts, rf_thoughts[i].kind = "movement",
                 rf_thoughts[i].at = rf_proc[p].now
          PROVE  rf_thoughts[i].topic # topic
      BY <1>0, <2>2, <2>3 DEF Pending
    <2>4. ASSUME NEW i \in DOMAIN rf_thoughts', NEW k \in DOMAIN rf_thoughts',
                 rf_thoughts'[i].kind = "movement", rf_thoughts'[k].kind = "movement",
                 rf_thoughts'[i].topic = rf_thoughts'[k].topic,
                 rf_thoughts'[i].at = rf_thoughts'[k].at
          PROVE  i = k
      <3>1. CASE i \in DOMAIN rf_thoughts /\ k \in DOMAIN rf_thoughts
        BY <1>2, <2>2, <2>4, <3>1 DEF Reflect!MovementsAreNotedOnce
      <3>2. CASE i = n /\ k \in DOMAIN rf_thoughts
        BY <1>2, <2>3, <2>4, <3>2
      <3>3. CASE k = n /\ i \in DOMAIN rf_thoughts
        BY <1>2, <2>3, <2>4, <3>3
      <3> QED
        BY <1>2, <3>1, <3>2, <3>3
    <2> QED
      BY <2>1, <2>4 DEF Reflect!PassesAreSerial, Reflect!MovementsAreNotedOnce
  <1> QED
    BY <1>4, <1>7, <1>8, <1>9 DEF ReflectionInv

\* Any other thought is no movement, so no note is repeated.
LEMMA OtherThoughtKeepsNotes ==
  ASSUME ReflectionInv, UNCHANGED rf_snapshots,
         NEW kind \in Reflect!ThoughtKinds \ {"movement"}, NEW at \in Nat,
         rf_thoughts' = Append(rf_thoughts, Reflect!Thought(kind, None, at))
  PROVE  /\ rf_thoughts' \in Seq([kind : Reflect!ThoughtKinds, topic : Topics \cup {None}, at : Nat])
         /\ \A i \in DOMAIN rf_thoughts' : rf_thoughts'[i].kind = "movement" =>
              i \in DOMAIN rf_thoughts /\ rf_thoughts'[i] = rf_thoughts[i]
         /\ Reflect!PassesAreSerial'
  <1>1. /\ rf_thoughts' \in Seq([kind : Reflect!ThoughtKinds, topic : Topics \cup {None}, at : Nat])
        /\ DOMAIN rf_thoughts' = DOMAIN rf_thoughts \cup {Len(rf_thoughts) + 1}
        /\ \A i \in DOMAIN rf_thoughts : rf_thoughts'[i] = rf_thoughts[i]
        /\ rf_thoughts'[Len(rf_thoughts) + 1] = [kind |-> kind, topic |-> None, at |-> at]
    <2>1. ReflectionTyped /\ kind \in Reflect!ThoughtKinds /\ None \in Topics \cup {None}
      BY DEF ReflectionInv
    <2> QED
      BY <2>1, ThoughtAdded
  <1>2. \A i \in DOMAIN rf_thoughts' : rf_thoughts'[i].kind = "movement" =>
          i \in DOMAIN rf_thoughts /\ rf_thoughts'[i] = rf_thoughts[i]
    BY <1>1
  <1>3. Reflect!MovementsAreNotedOnce'
    BY <1>2 DEF ReflectionInv, Reflect!PassesAreSerial, Reflect!MovementsAreNotedOnce
  <1>4. Reflect!SnapshotsFormAChain'
    BY DEF ReflectionInv, Reflect!PassesAreSerial, Reflect!SnapshotsFormAChain
  <1> QED
    BY <1>1, <1>2, <1>3, <1>4 DEF Reflect!PassesAreSerial

\* The consolidation comes after the movements.
LEMMA WriteConsolidationKeeps ==
  ASSUME ReflectionInv, NEW p \in Procs, Reflect!WriteConsolidation(p)
  PROVE  ReflectionInv'
  <1>0. /\ ReflectionTyped /\ rf_proc[p] \in PassType /\ rf_proc \in [Procs -> PassType]
        /\ UNCHANGED <<rf_clock, rf_moved, rf_snapshots, rf_holder>>
    BY DEF ReflectionInv, ReflectionTyped, Reflect!WriteConsolidation
  <1>1. rf_proc' = [rf_proc EXCEPT ![p] = [rf_proc[p] EXCEPT !.consolidate = FALSE]]
    BY <1>0 DEF Reflect!WriteConsolidation
  <1>2. /\ rf_thoughts' \in Seq([kind : Reflect!ThoughtKinds, topic : Topics \cup {None}, at : Nat])
        /\ \A i \in DOMAIN rf_thoughts' : rf_thoughts'[i].kind = "movement" =>
             i \in DOMAIN rf_thoughts /\ rf_thoughts'[i] = rf_thoughts[i]
        /\ Reflect!PassesAreSerial'
    <2>1. "consolidation" \in Reflect!ThoughtKinds \ {"movement"} /\ rf_proc[p].now \in Nat
      BY <1>0 DEF Reflect!ThoughtKinds, PassType
    <2>2. rf_thoughts' = Append(rf_thoughts,
                                Reflect!Thought("consolidation", None, rf_proc[p].now))
      BY DEF Reflect!WriteConsolidation
    <2> QED
      BY <1>0, <2>1, <2>2, OtherThoughtKeepsNotes
  <1>3. ReflectionTyped'
    <2>1. [rf_proc[p] EXCEPT !.consolidate = FALSE] \in PassType
      BY <1>0 DEF PassType
    <2> QED
      BY <1>0, <1>1, <1>2, <2>1 DEF ReflectionTyped
  <1>4. ASSUME NEW q \in Procs
        PROVE  /\ rf_proc'[q].pc = rf_proc[q].pc /\ rf_proc'[q].left = rf_proc[q].left
               /\ rf_proc'[q].now = rf_proc[q].now /\ rf_proc'[q].store = rf_proc[q].store
               /\ rf_proc'[q].prev = rf_proc[q].prev
    <2>1. CASE q = p
      BY <1>0, <1>1, <2>1 DEF PassType
    <2>2. CASE q # p
      BY <1>0, <1>1, <2>2
    <2> QED
      BY <2>1, <2>2
  <1>5. ASSUME NEW q \in Procs PROVE Holding(q)'
    BY <1>0, <1>4 DEF ReflectionInv, Holding
  <1>6. ASSUME NEW q \in Procs PROVE Pending(q)'
    BY <1>0, <1>2, <1>4 DEF ReflectionInv, Pending
  <1> QED
    BY <1>2, <1>3, <1>5, <1>6 DEF ReflectionInv

\* A pass over the thoughts ends.
LEMMA EndReflectionKeeps ==
  ASSUME ReflectionInv, NEW p \in Procs, Reflect!EndReflection(p)
  PROVE  ReflectionInv'
  <1>1. /\ rf_proc[p].pc \in {"load", "write", "snapshot"} /\ Reflect!Unlock(p)
        /\ UNCHANGED <<rf_clock, rf_moved, rf_thoughts, rf_snapshots>>
    BY DEF Reflect!EndReflection
  <1>2. /\ rf_proc' \in [Procs -> PassType]
        /\ rf_holder' \in [Reflect!Stores -> Procs \cup {None}]
        /\ \A q \in Procs : Holding(q)'
        /\ rf_proc'[p].pc = "idle"
        /\ \A q \in Procs : q # p => rf_proc'[q] = rf_proc[q]
    BY <1>1, UnlockKeeps
  <1>3. ReflectionTyped'
    BY <1>1, <1>2 DEF ReflectionInv, ReflectionTyped
  <1>4. ASSUME NEW q \in Procs PROVE Pending(q)'
    BY <1>1, <1>2, <1>4 DEF ReflectionInv, Pending
  <1>5. Reflect!PassesAreSerial'
    BY <1>1, StoresUnchanged DEF ReflectionInv
  <1> QED
    BY <1>2, <1>3, <1>4, <1>5 DEF ReflectionInv

\* The metrics are read under their lock, which is kept until the snapshot is
\* written.
LEMMA LoadMetricsKeeps ==
  ASSUME ReflectionInv, NEW p \in Procs, Reflect!LoadMetrics(p)
  PROVE  ReflectionInv'
  <1> DEFINE prev == Reflect!previous(rf_snapshots)
             next == [rf_proc[p] EXCEPT !.pc = "snapshot", !.prev = prev]
  <1>0. /\ ReflectionTyped /\ rf_proc[p] \in PassType /\ rf_proc \in [Procs -> PassType]
        /\ rf_proc[p].pc = "load" /\ rf_proc[p].store = "metrics"
        /\ UNCHANGED <<rf_clock, rf_moved, rf_thoughts, rf_snapshots>>
    BY DEF ReflectionInv, ReflectionTyped, Reflect!LoadMetrics
  <1>1. \/ UNCHANGED rf_holder /\ rf_proc' = [rf_proc EXCEPT ![p] = next]
        \/ Reflect!Unlock(p)
    BY <1>0 DEF Reflect!LoadMetrics
  <1>2. Reflect!PassesAreSerial'
    BY <1>0, StoresUnchanged DEF ReflectionInv
  <1>3. prev \in Nat /\ prev = Len(rf_snapshots)
    BY <1>0 DEF ReflectionTyped, Reflect!previous
  <1> HIDE DEF prev
  <1>4. CASE UNCHANGED rf_holder /\ rf_proc' = [rf_proc EXCEPT ![p] = next]
    <2>1. next \in PassType
      BY <1>0, <1>3 DEF PassType
    <2>2. next.pc = "snapshot" /\ next.prev = prev /\ next.store = rf_proc[p].store
      BY <1>0 DEF PassType
    <2> HIDE DEF next
    <2>3. ReflectionTyped'
      BY <1>0, <1>4, <2>1 DEF ReflectionTyped
    <2>4. \A q \in Procs : rf_proc'[q] = IF q = p THEN next ELSE rf_proc[q]
      BY <1>0, <1>4
    <2>5. ASSUME NEW q \in Procs PROVE Holding(q)'
      BY <1>0, <1>4, <2>2, <2>4, <2>5 DEF ReflectionInv, Holding
    <2>6. ASSUME NEW q \in Procs PROVE Pending(q)'
      BY <1>0, <1>3, <1>4, <2>2, <2>4, <2>6 DEF ReflectionInv, Pending
    <2> QED
      BY <1>2, <2>3, <2>5, <2>6 DEF ReflectionInv
  <1>5. CASE Reflect!Unlock(p)
    <2>1. /\ rf_proc' \in [Procs -> PassType]
          /\ rf_holder' \in [Reflect!Stores -> Procs \cup {None}]
          /\ \A q \in Procs : Holding(q)'
          /\ rf_proc'[p].pc = "idle"
          /\ \A q \in Procs : q # p => rf_proc'[q] = rf_proc[q]
      BY <1>0, <1>5, UnlockKeeps
    <2>2. ReflectionTyped'
      BY <1>0, <2>1 DEF ReflectionTyped
    <2>3. ASSUME NEW q \in Procs PROVE Pending(q)'
      BY <1>0, <2>1, <2>3 DEF ReflectionInv, Pending
    <2> QED
      BY <1>2, <2>1, <2>2, <2>3 DEF ReflectionInv
  <1> QED
    BY <1>1, <1>4, <1>5

\* The snapshot names the one that is still the last: its pass has had the lock
\* since it was read.
LEMMA WriteSnapshotKeeps ==
  ASSUME ReflectionInv, NEW p \in Procs, Reflect!WriteSnapshot(p)
  PROVE  ReflectionInv'
  <1> DEFINE n == Len(rf_snapshots) + 1
             M == [at : Nat, previous : Nat]
             m == Reflect!MetricSnapshot(rf_proc[p].now, rf_proc[p].prev)
  <1>0. /\ ReflectionTyped /\ rf_proc[p] \in PassType /\ rf_proc[p].pc = "snapshot"
        /\ UNCHANGED <<rf_clock, rf_moved, rf_thoughts>>
    BY DEF ReflectionInv, ReflectionTyped, Reflect!WriteSnapshot
  <1>1. rf_proc[p].pc \in {"load", "write", "snapshot"} /\ Reflect!Unlock(p)
    BY DEF Reflect!WriteSnapshot
  <1>2. /\ rf_proc' \in [Procs -> PassType]
        /\ rf_holder' \in [Reflect!Stores -> Procs \cup {None}]
        /\ \A q \in Procs : Holding(q)'
        /\ rf_proc'[p].pc = "idle"
        /\ \A q \in Procs : q # p => rf_proc'[q] = rf_proc[q]
    BY <1>1, UnlockKeeps
  <1>3. m \in M /\ m.previous = Len(rf_snapshots)
    BY <1>0 DEF ReflectionInv, Pending, PassType, Reflect!MetricSnapshot
  <1>4. rf_snapshots \in Seq(M) /\ rf_snapshots' = Append(rf_snapshots, m)
    BY <1>0 DEF ReflectionTyped, Reflect!WriteSnapshot
  <1> HIDE DEF M, m
  <1>5. /\ rf_snapshots' \in Seq(M) /\ DOMAIN rf_snapshots' = DOMAIN rf_snapshots \cup {n}
        /\ \A i \in DOMAIN rf_snapshots : rf_snapshots'[i] = rf_snapshots[i]
        /\ rf_snapshots'[n] = m
    BY <1>3, <1>4
  <1>6. ReflectionTyped'
    BY <1>0, <1>2, <1>5 DEF ReflectionTyped, M
  <1>7. ASSUME NEW q \in Procs PROVE Pending(q)'
    <2>1. CASE q = p
      BY <1>2, <2>1 DEF Pending
    <2>2. CASE q # p
      <3>1. rf_proc[q].pc # "snapshot"
        <4> SUFFICES ASSUME rf_proc[q].pc = "snapshot" PROVE FALSE
          OBVIOUS
        <4>1. rf_proc[q].store = "metrics" /\ rf_proc[p].store = "metrics"
          BY <1>0 DEF ReflectionInv, Holding
        <4> QED
          BY <1>0, <2>2, <4>1, HoldersAreAlone DEF ReflectionInv
      <3> QED
        BY <1>0, <1>2, <2>2, <3>1 DEF ReflectionInv, Pending
    <2> QED
      BY <2>1, <2>2
  <1>8. Reflect!MovementsAreNotedOnce'
    BY <1>0 DEF ReflectionInv, Reflect!PassesAreSerial, Reflect!MovementsAreNotedOnce
  <1>9. Reflect!SnapshotsFormAChain'
    <2>1. ASSUME NEW i \in DOMAIN rf_snapshots' PROVE rf_snapshots'[i].previous = i - 1
      <3>1. CASE i \in DOMAIN rf_snapshots
        BY <1>5, <3>1 DEF ReflectionInv, Reflect!PassesAreSerial, Reflect!SnapshotsFormAChain
      <3>2. CASE i = n
        BY <1>3, <1>4, <1>5, <3>2
      <3> QED
        BY <1>5, <3>1, <3>2
    <2> QED
      BY <2>1 DEF Reflect!SnapshotsFormAChain
  <1> QED
    BY <1>2, <1>6, <1>7, <1>8, <1>9 DEF ReflectionInv, Reflect!PassesAreSerial

\* The operator's own note.
LEMMA RecordThoughtKeeps ==
  ASSUME ReflectionInv, Reflect!RecordThought
  PROVE  ReflectionInv'
  <1>0. ReflectionTyped /\ UNCHANGED <<rf_clock, rf_moved, rf_snapshots, rf_holder, rf_proc>>
    BY DEF ReflectionInv, Reflect!RecordThought
  <1>1. /\ rf_thoughts' \in Seq([kind : Reflect!ThoughtKinds, topic : Topics \cup {None}, at : Nat])
        /\ \A i \in DOMAIN rf_thoughts' : rf_thoughts'[i].kind = "movement" =>
             i \in DOMAIN rf_thoughts /\ rf_thoughts'[i] = rf_thoughts[i]
        /\ Reflect!PassesAreSerial'
    <2>1. "reflection" \in Reflect!ThoughtKinds \ {"movement"} /\ rf_clock \in Nat
      BY <1>0 DEF Reflect!ThoughtKinds, ReflectionTyped
    <2>2. rf_thoughts' = Append(rf_thoughts, Reflect!Thought("reflection", None, rf_clock))
      BY DEF Reflect!RecordThought
    <2> QED
      BY <1>0, <2>1, <2>2, OtherThoughtKeepsNotes
  <1>2. ReflectionTyped'
    BY <1>0, <1>1 DEF ReflectionTyped
  <1>3. ASSUME NEW q \in Procs PROVE Holding(q)'
    BY <1>0 DEF ReflectionInv, Holding
  <1>4. ASSUME NEW q \in Procs PROVE Pending(q)'
    BY <1>0, <1>1 DEF ReflectionInv, Pending
  <1> QED
    BY <1>1, <1>2, <1>3, <1>4 DEF ReflectionInv

\* A process dies: its locks are free, its notes stay.
LEMMA ReflectionCrashKeeps ==
  ASSUME ReflectionInv, NEW p \in Procs, Reflect!Crash(p)
  PROVE  ReflectionInv'
  <1>0. /\ ReflectionTyped /\ rf_proc \in [Procs -> PassType]
        /\ rf_holder \in [Reflect!Stores -> Procs \cup {None}]
        /\ UNCHANGED <<rf_clock, rf_moved, rf_thoughts, rf_snapshots>>
    BY DEF ReflectionInv, ReflectionTyped, Reflect!Crash
  <1>1. /\ rf_proc' = [rf_proc EXCEPT ![p] = Reflect!Idle]
        /\ rf_holder' = [s \in Reflect!Stores |-> IF rf_holder[s] = p THEN None ELSE rf_holder[s]]
    BY DEF Reflect!Crash
  <1>2. rf_proc'[p].pc = "idle" /\ \A q \in Procs : q # p => rf_proc'[q] = rf_proc[q]
    BY <1>0, <1>1 DEF Reflect!Idle
  <1>3. ReflectionTyped'
    <2>1. rf_proc' \in [Procs -> PassType] /\ rf_holder' \in [Reflect!Stores -> Procs \cup {None}]
      BY <1>0, <1>1, IdleTyped
    <2> QED
      BY <1>0, <2>1 DEF ReflectionTyped
  <1>4. ASSUME NEW q \in Procs PROVE Holding(q)'
    <2>1. CASE q = p
      BY <1>2, <2>1 DEF Holding
    <2>2. CASE q # p
      <3>1. Holding(q) /\ rf_proc'[q] = rf_proc[q]
        BY <1>2, <2>2 DEF ReflectionInv
      <3> QED
        BY <1>0, <1>1, <2>2, <3>1 DEF Holding
    <2> QED
      BY <2>1, <2>2
  <1>5. ASSUME NEW q \in Procs PROVE Pending(q)'
    BY <1>0, <1>2, <1>5 DEF ReflectionInv, Pending
  <1>6. Reflect!PassesAreSerial'
    BY <1>0, StoresUnchanged DEF ReflectionInv
  <1> QED
    BY <1>3, <1>4, <1>5, <1>6 DEF ReflectionInv

\* The world moves on: facts are added and time passes.
LEMMA ReflectionWorldKeeps ==
  ASSUME ReflectionInv, (\E topic \in Topics : Reflect!Move(topic)) \/ Reflect!Tick
  PROVE  ReflectionInv'
  <1>0. ReflectionTyped /\ UNCHANGED <<rf_thoughts, rf_snapshots, rf_holder, rf_proc>>
    BY DEF ReflectionInv, Reflect!Move, Reflect!Tick
  <1>1. rf_clock' \in Nat /\ rf_moved' \subseteq Topics \X Nat
    <2>1. CASE \E topic \in Topics : Reflect!Move(topic)
      BY <1>0, <2>1 DEF ReflectionTyped, Reflect!Move
    <2>2. CASE Reflect!Tick
      BY <1>0, <2>2 DEF ReflectionTyped, Reflect!Tick
    <2> QED
      BY <2>1, <2>2
  <1>2. ReflectionTyped'
    BY <1>0, <1>1 DEF ReflectionTyped
  <1>3. ASSUME NEW q \in Procs PROVE Holding(q)' /\ Pending(q)'
    BY <1>0 DEF ReflectionInv, Holding, Pending
  <1>4. Reflect!PassesAreSerial'
    BY <1>0, StoresUnchanged DEF ReflectionInv
  <1> QED
    BY <1>2, <1>3, <1>4 DEF ReflectionInv

\* Every step of the notes keeps the invariant.
LEMMA ReflectionStep == ReflectionInv /\ Reflect!Next => ReflectionInv'
  <1> SUFFICES ASSUME ReflectionInv, Reflect!Next PROVE ReflectionInv'
    OBVIOUS
  <1>1. ASSUME NEW p \in Procs, NEW store \in Reflect!Stores, Reflect!Begin(p, store)
        PROVE  ReflectionInv'
    BY <1>1, BeginKeeps
  <1>2. ASSUME NEW p \in Procs,
               \/ Reflect!Lock(p) \/ Reflect!LoadThoughts(p) \/ Reflect!WriteConsolidation(p)
               \/ Reflect!EndReflection(p) \/ Reflect!LoadMetrics(p)
               \/ Reflect!WriteSnapshot(p) \/ Reflect!Crash(p)
        PROVE  ReflectionInv'
    BY <1>2, LockKeeps, LoadThoughtsKeeps, WriteConsolidationKeeps, EndReflectionKeeps,
       LoadMetricsKeeps, WriteSnapshotKeeps, ReflectionCrashKeeps
  <1>3. ASSUME NEW p \in Procs, NEW topic \in Topics, Reflect!WriteMovement(p, topic)
        PROVE  ReflectionInv'
    BY <1>3, WriteMovementKeeps
  <1>4. ASSUME Reflect!RecordThought PROVE ReflectionInv'
    BY <1>4, RecordThoughtKeeps
  <1>5. ASSUME (\E topic \in Topics : Reflect!Move(topic)) \/ Reflect!Tick PROVE ReflectionInv'
    BY <1>5, ReflectionWorldKeeps
  <1> QED
    BY <1>1, <1>2, <1>3, <1>4, <1>5 DEF Reflect!Next

\* However the passes of the daemon and of commands overlap and whoever dies in
\* the middle of one, a movement is noted once and the snapshots are a chain, for
\* any number of processes and topics (run_reflection_pass, run_self_eval_pass).
THEOREM PassesSerial == Spec => []PassesAreSerial
  <1> DEFINE Inv == part = "reflection" => ReflectionInv
  <1>1. Init => Inv
    BY ReflectionStarts DEF Init
  <1>2. Inv /\ [Next]_records_vars => Inv'
    <2> SUFFICES ASSUME Inv, part' = "reflection",
                        [Next]_records_vars
                 PROVE  ReflectionInv'
      OBVIOUS
    <2>1. \/ part = "reflection" /\ Reflect!Next
          \/ part = "reflection" /\ UNCHANGED reflection_vars
      BY DEF Next, JournalNext, ReplicationNext, ReflectionNext, records_vars
    <2>2. CASE part = "reflection" /\ Reflect!Next
      BY <2>2, ReflectionStep
    <2>3. CASE part = "reflection" /\ UNCHANGED reflection_vars
      BY <2>3 DEF ReflectionInv, ReflectionTyped, Holding, Pending, reflection_vars,
         Reflect!PassesAreSerial, Reflect!MovementsAreNotedOnce, Reflect!SnapshotsFormAChain
    <2> QED
      BY <2>1, <2>2, <2>3
  <1>3. Inv => PassesAreSerial
    BY DEF PassesAreSerial, ReflectionInv
  <1> QED
    BY <1>1, <1>2, <1>3, PTL DEF Spec

---------------------------------------------------------------------------
(* The action journal: lines, and what an append does. *)

\* A set of naturals that is not empty has a least element.
LEMMA LeastNatural ==
  ASSUME NEW S \in SUBSET Nat, S # {}
  PROVE  \E x \in S : \A y \in S : x <= y
  <1> DEFINE R == {ss \in Nat \X Nat : ss[1] < ss[2]}
  <1>1. IsWellFoundedOn(R, Nat)
    BY NatLessThanWellFounded DEF OpToRel
  <1>2. \A x \in S, y \in S : ~ (<<y, x>> \in R) => x <= y
    OBVIOUS
  <1> HIDE DEF R
  <1>3. \E x \in S : \A y \in S : ~ (<<y, x>> \in R)
    BY <1>1, WFMin
  <1> QED
    BY <1>2, <1>3

ActionLines == [id : Actions, outcome : Acts!Outcomes, expectation : BOOLEAN, at : Nat]
EventLines == [action : Actions, uri : Citations, via : {"parent", "root", "quote"}, at : Nat]
ResolutionLines == [action : Actions, state : Acts!TerminalStates]
IntentLines == [id : Actions, actions : SUBSET Actions, expires : Nat, state : Acts!IntentStates]
ValenceLines == [source : Actions, provenance : Nat]

LinesOf == [actions |-> ActionLines, events |-> EventLines, resolutions |-> ResolutionLines,
            intents |-> IntentLines, valence |-> ValenceLines]

\* The i-th intent line is the last one of its thread.
IsLatest(id, i) ==
  /\ i \in DOMAIN jn_journal["intents"]
  /\ jn_journal["intents"][i].id = id
  /\ \A k \in DOMAIN jn_journal["intents"] : jn_journal["intents"][k].id = id => k <= i

\* Every line has its kind's fields, a thread has a last line, and the file ends
\* in whole lines or in one that the next append repairs.
FileTyped ==
  /\ DOMAIN jn_journal = Acts!Kinds
  /\ \A kind \in Acts!Kinds : jn_journal[kind] \in Seq(LinesOf[kind])
  /\ \A id \in Acts!Threads : \E i \in Nat : IsLatest(id, i)
  /\ jn_tail \in {"clean", "torn"}

\* What an append does to the lines.
LEMMA AppendLine ==
  ASSUME FileTyped, NEW kind \in Acts!Kinds, NEW line \in LinesOf[kind],
         Acts!append_line(kind, line)
  PROVE  /\ DOMAIN jn_journal' = Acts!Kinds
         /\ \A k \in Acts!Kinds : jn_journal'[k] \in Seq(LinesOf[k])
         /\ \A k \in Acts!Kinds : k # kind => jn_journal'[k] = jn_journal[k]
         /\ DOMAIN jn_journal'[kind] = DOMAIN jn_journal[kind] \cup {Len(jn_journal[kind]) + 1}
         /\ Len(jn_journal[kind]) \in Nat
         /\ DOMAIN jn_journal[kind] = 1..Len(jn_journal[kind])
         /\ \A i \in DOMAIN jn_journal[kind] : jn_journal'[kind][i] = jn_journal[kind][i]
         /\ jn_journal'[kind][Len(jn_journal[kind]) + 1] = line
         /\ jn_tail' = "clean"
  <1>1. jn_journal' = [jn_journal EXCEPT ![kind] = Append(jn_journal[kind], line)]
    BY DEF Acts!append_line
  <1>2. jn_tail' = "clean"
    BY DEF FileTyped, Acts!append_line, Acts!repair_torn_tail
  <1>3. DOMAIN jn_journal' = Acts!Kinds
    BY <1>1 DEF FileTyped
  <1>4. \A k \in Acts!Kinds : k # kind => jn_journal'[k] = jn_journal[k]
    BY <1>1 DEF FileTyped
  <1>5. jn_journal'[kind] = Append(jn_journal[kind], line)
    BY <1>1 DEF FileTyped
  <1> DEFINE S == LinesOf[kind]
             s == jn_journal[kind]
             t == jn_journal'[kind]
  <1>6. s \in Seq(S) /\ line \in S /\ t = Append(s, line)
    BY <1>5 DEF FileTyped
  <1> HIDE DEF S, s, t
  <1>7. /\ t \in Seq(S) /\ DOMAIN t = DOMAIN s \cup {Len(s) + 1}
        /\ Len(s) \in Nat /\ DOMAIN s = 1..Len(s)
        /\ \A i \in DOMAIN s : t[i] = s[i]
        /\ t[Len(s) + 1] = line
    BY <1>6
  <1>8. \A k \in Acts!Kinds : jn_journal'[k] \in Seq(LinesOf[k])
    BY <1>4, <1>7 DEF FileTyped, S, s, t
  <1> QED
    BY <1>2, <1>3, <1>4, <1>7, <1>8 DEF s, t

\* The lines of a kind, as a set: an append adds its own.
LEMMA AppendedLines ==
  ASSUME FileTyped, NEW kind \in Acts!Kinds, NEW line \in LinesOf[kind],
         Acts!append_line(kind, line)
  PROVE  /\ Acts!Lines(kind)' = Acts!Lines(kind) \cup {line}
         /\ \A k \in Acts!Kinds : k # kind => Acts!Lines(k)' = Acts!Lines(k)
  <1>1. /\ \A k \in Acts!Kinds : k # kind => jn_journal'[k] = jn_journal[k]
        /\ DOMAIN jn_journal'[kind] = DOMAIN jn_journal[kind] \cup {Len(jn_journal[kind]) + 1}
        /\ \A i \in DOMAIN jn_journal[kind] : jn_journal'[kind][i] = jn_journal[kind][i]
        /\ jn_journal'[kind][Len(jn_journal[kind]) + 1] = line
    BY AppendLine
  <1>2. \A k \in Acts!Kinds : k # kind => Acts!Lines(k)' = Acts!Lines(k)
    BY <1>1 DEF Acts!Lines
  <1>3. Acts!Lines(kind)' = Acts!Lines(kind) \cup {line}
    BY <1>1 DEF Acts!Lines
  <1> QED
    BY <1>2, <1>3

\* A thread's last line is the one latest_intent finds.
LEMMA LatestIntent ==
  ASSUME FileTyped, NEW id, NEW i \in Nat, IsLatest(id, i)
  PROVE  Acts!latest_intent(id) = jn_journal["intents"][i]
  <1> DEFINE at == {k \in DOMAIN jn_journal["intents"] : jn_journal["intents"][k].id = id}
             j == CHOOSE x \in at : \A k \in at : k <= x
  <1>1. at \subseteq Nat
    BY DEF FileTyped, Acts!Kinds
  <1>2. i \in at /\ \A k \in at : k <= i
    BY DEF IsLatest
  <1>3. j \in at /\ \A k \in at : k <= j
    BY <1>2
  <1>4. i <= j /\ j <= i
    BY <1>2, <1>3
  <1>5. i = j
    BY <1>1, <1>2, <1>3, <1>4
  <1> QED
    BY <1>5 DEF Acts!latest_intent

\* Every thread's last line is an intent line of that thread.
LEMMA LatestTyped ==
  ASSUME FileTyped, NEW id \in Acts!Threads
  PROVE  /\ Acts!latest_intent(id) \in IntentLines /\ Acts!latest_intent(id).id = id
         /\ Acts!latest_intent(id) \in Acts!Lines("intents")
  <1>1. PICK i \in Nat : IsLatest(id, i)
    BY DEF FileTyped
  <1>2. Acts!latest_intent(id) = jn_journal["intents"][i]
    BY <1>1, LatestIntent
  <1>3. jn_journal["intents"] \in Seq(IntentLines)
    BY DEF FileTyped, Acts!Kinds, LinesOf
  <1>4. jn_journal["intents"][i] \in IntentLines
    BY <1>1, <1>3 DEF IsLatest
  <1> QED
    BY <1>1, <1>2, <1>4 DEF IsLatest, Acts!Lines

\* After an append every thread still has a last line: the new one, for its own.
LEMMA AppendKeepsFile ==
  ASSUME FileTyped, NEW kind \in Acts!Kinds, NEW line \in LinesOf[kind],
         Acts!append_line(kind, line)
  PROVE  FileTyped'
  <1>0. PICK n \in Nat : n = Len(jn_journal["intents"]) + 1
    BY DEF FileTyped, Acts!Kinds
  <1>1. /\ DOMAIN jn_journal' = Acts!Kinds
        /\ \A k \in Acts!Kinds : jn_journal'[k] \in Seq(LinesOf[k])
        /\ \A k \in Acts!Kinds : k # kind => jn_journal'[k] = jn_journal[k]
        /\ jn_tail' = "clean"
    BY AppendLine
  <1>2. \A id \in Acts!Threads' : \E i \in Nat : IsLatest(id, i)'
    <2>1. CASE kind # "intents"
      <3>1. jn_journal'["intents"] = jn_journal["intents"]
        BY <1>1, <2>1 DEF Acts!Kinds
      <3>2. Acts!Threads' = Acts!Threads
        BY <3>1 DEF Acts!Threads, Acts!Lines
      <3>3. \A id, i : IsLatest(id, i)' <=> IsLatest(id, i)
        BY <3>1 DEF IsLatest
      <3> QED
        BY <3>2, <3>3 DEF FileTyped
    <2>2. CASE kind = "intents"
      <3>1. /\ DOMAIN jn_journal'["intents"] = DOMAIN jn_journal["intents"] \cup {n}
            /\ n \in Nat /\ DOMAIN jn_journal["intents"] = 1..(n - 1)
            /\ \A i \in DOMAIN jn_journal["intents"] :
                 jn_journal'["intents"][i] = jn_journal["intents"][i]
            /\ jn_journal'["intents"][n] = line
        BY <1>0, <2>2, AppendLine
      <3>2. ASSUME NEW id \in Acts!Threads' PROVE \E i \in Nat : IsLatest(id, i)'
        <4>1. CASE id = line.id
          <5>1. IsLatest(id, n)'
            BY <3>1, <4>1 DEF IsLatest
          <5> QED
            BY <3>1, <5>1
        <4>2. CASE id # line.id
          <5>1. id \in Acts!Threads
            BY <3>1, <3>2, <4>2 DEF Acts!Threads, Acts!Lines
          <5>2. PICK i \in Nat : IsLatest(id, i)
            BY <5>1 DEF FileTyped
          <5>3. IsLatest(id, i)'
            BY <3>1, <4>2, <5>2 DEF IsLatest
          <5> QED
            BY <5>3
        <4> QED
          BY <4>1, <4>2
      <3> QED
        BY <3>2
    <2> QED
      BY <2>1, <2>2
  <1> QED
    BY <1>1, <1>2 DEF FileTyped

\* The lines stay, and the file's end is one of the two that a load accepts.
LEMMA FileKept ==
  ASSUME FileTyped, UNCHANGED jn_journal, jn_tail' \in {"clean", "torn"}
  PROVE  FileTyped'
  <1>1. Acts!Threads' = Acts!Threads
    BY DEF Acts!Threads, Acts!Lines
  <1>2. \A id, i : IsLatest(id, i)' <=> IsLatest(id, i)
    BY DEF IsLatest
  <1> QED
    BY <1>1, <1>2 DEF FileTyped

\* The i-th intent line of s is the last one of its thread.
IsLastOf(s, id, i) ==
  /\ i \in DOMAIN s /\ s[i].id = id
  /\ \A k \in DOMAIN s : s[k].id = id => k <= i

\* Lines that can be the journal's.
Sound(j) ==
  /\ DOMAIN j = Acts!Kinds
  /\ \A kind \in Acts!Kinds : j[kind] \in Seq(LinesOf[kind])
  /\ \A n \in DOMAIN j["intents"] : \E i \in Nat :
       IsLastOf(j["intents"], j["intents"][n].id, i)

LEMMA FileSound == FileTyped <=> Sound(jn_journal) /\ jn_tail \in {"clean", "torn"}
  <1>1. \A id, i : IsLatest(id, i) <=> IsLastOf(jn_journal["intents"], id, i)
    BY DEF IsLatest, IsLastOf
  <1>2. Acts!Threads = {jn_journal["intents"][n].id : n \in DOMAIN jn_journal["intents"]}
    BY DEF Acts!Threads, Acts!Lines
  <1> QED
    BY <1>1, <1>2 DEF FileTyped, Sound

LEMMA FileSoundLater == FileTyped' <=> Sound(jn_journal') /\ jn_tail' \in {"clean", "torn"}
  <1>1. (FileTyped <=> Sound(jn_journal) /\ jn_tail \in {"clean", "torn"})'
    BY FileSound, PTL
  <1>2. Sound(jn_journal)' <=> Sound(jn_journal')
    BY DEF Sound, IsLastOf, Acts!Kinds
  <1> QED
    BY <1>1, <1>2

\* The file j with one more line.
Plus(j, kind, line) == [j EXCEPT ![kind] = Append(j[kind], line)]

\* A line that is no intent leaves them sound.
LEMMA SoundAppend ==
  ASSUME NEW j, Sound(j), NEW line \in ActionLines,
         NEW k, k = [j EXCEPT !["actions"] = Append(j["actions"], line)]
  PROVE  Sound(k)
  <1>1. DOMAIN k = Acts!Kinds /\ k["intents"] = j["intents"]
    BY DEF Sound, Acts!Kinds
  <1>2. ASSUME NEW kind \in Acts!Kinds PROVE k[kind] \in Seq(LinesOf[kind])
    <2>1. CASE kind = "actions"
      <3>1. j["actions"] \in Seq(ActionLines)
        BY DEF Sound, LinesOf, Acts!Kinds
      <3>2. Append(j["actions"], line) \in Seq(ActionLines)
        BY <3>1
      <3>3. k["actions"] = Append(j["actions"], line)
        BY DEF Sound, Acts!Kinds
      <3> QED
        BY <2>1, <3>2, <3>3 DEF LinesOf
    <2>2. CASE kind # "actions"
      <3>1. k[kind] = j[kind]
        BY <2>2 DEF Sound
      <3> QED
        BY <3>1 DEF Sound
    <2> QED
      BY <2>1, <2>2
  <1> QED
    BY <1>1, <1>2 DEF Sound

\* What the disk has, and what a repair under way saw, can be the journal's.
CopiesTyped ==
  /\ Sound(jn_disk)
  /\ jn_repair # None => Sound(jn_repair)
  /\ jn_lost = [cut |-> jn_lost.cut, actions |-> jn_lost.actions, valence |-> jn_lost.valence]

Contexts ==
  [parent : Actions \cup {None}, root : Actions \cup {None}, quote : Actions \cup {None},
   at : Nat, text : Acts!Texts]

DaemonType ==
  [pc : {"down", "perceive", "link", "checkpoint", "drain", "sweep", "resolve", "decide",
         "execute", "record"},
   linker : BOOLEAN, actions : SUBSET Actions, events : SUBSET (Actions \X Citations),
   page : Citations \cup {None}, left : SUBSET Actions, act : Actions \cup {None}]

\* What waits for execution has its thread frozen; a mapper holds action lines.
StateTyped ==
  /\ jn_clock \in Nat
  /\ jn_root \in [Actions -> Actions \cup {None}]
  /\ \A a \in jn_queue : a \in Actions /\ jn_root[a] \in Actions
  /\ jn_spool \subseteq Actions
  /\ jn_posted \in [Citations -> Contexts \cup {None}]
  /\ jn_mapper # None =>
       /\ jn_mapper = [learned |-> jn_mapper.learned, lines |-> jn_mapper.lines,
                       applied |-> jn_mapper.applied]
       /\ jn_mapper.lines \subseteq ActionLines

\* The daemon perceives a public record, and records an action it executed.
DaemonTyped ==
  /\ jn_daemon \in DaemonType
  /\ jn_daemon.pc \in {"link", "checkpoint"} =>
       jn_daemon.page \in Citations /\ jn_posted[jn_daemon.page] # None
  /\ jn_daemon.pc = "record" => jn_daemon.act \in Actions /\ jn_root[jn_daemon.act] \in Actions

JournalTyped == FileTyped /\ StateTyped /\ DaemonTyped

\* The lines are of their kind.
LEMMA LinesTyped ==
  ASSUME FileTyped
  PROVE  /\ Acts!Lines("actions") \subseteq ActionLines
         /\ Acts!Lines("events") \subseteq EventLines
         /\ Acts!Lines("resolutions") \subseteq ResolutionLines
         /\ Acts!Lines("intents") \subseteq IntentLines
         /\ Acts!Lines("valence") \subseteq ValenceLines
  <1>1. /\ jn_journal["actions"] \in Seq(ActionLines)
        /\ jn_journal["events"] \in Seq(EventLines)
        /\ jn_journal["resolutions"] \in Seq(ResolutionLines)
        /\ jn_journal["intents"] \in Seq(IntentLines)
        /\ jn_journal["valence"] \in Seq(ValenceLines)
    BY DEF FileTyped, Acts!Kinds, LinesOf
  <1> QED
    BY <1>1 DEF Acts!Lines

LEMMA ThreadsTyped ==
  ASSUME FileTyped
  PROVE  Acts!Threads \subseteq Actions
  BY LinesTyped DEF Acts!Threads, IntentLines

LEMMA DownTyped == Acts!Down \in DaemonType
  BY DEF DaemonType, Acts!Down

\* The journal's first state.
LEMMA JournalStartsTyped == Acts!Init => JournalTyped
  <1> SUFFICES ASSUME Acts!Init PROVE JournalTyped
    OBVIOUS
  <1>1. FileTyped
    <2>1. \A kind \in Acts!Kinds : jn_journal[kind] = <<>>
      BY DEF Acts!Init
    <2>2. Acts!Threads = {}
      BY <2>1 DEF Acts!Threads, Acts!Lines, Acts!Kinds
    <2> QED
      BY <2>1, <2>2 DEF FileTyped, Acts!Init
  <1>2. StateTyped
    BY DEF StateTyped, Acts!Init
  <1>3. DaemonTyped
    BY DownTyped DEF DaemonTyped, Acts!Init, Acts!Down
  <1> QED
    BY <1>1, <1>2, <1>3 DEF JournalTyped

\* The daemon reads the journal.
LEMMA StartTyped ==
  ASSUME JournalTyped, Acts!Start
  PROVE  JournalTyped'
  <1> DEFINE acts == {l.id : l \in {x \in Acts!Lines("actions") : x.outcome = "executed"}}
             evs  == {<<e.action, e.uri>> : e \in Acts!Lines("events")}
             d    == [Acts!Down EXCEPT !.pc = "perceive", !.linker = Acts!FileExists,
                                       !.actions = acts, !.events = evs]
  <1>1. FileTyped'
    BY FileKept DEF JournalTyped, FileTyped, Acts!Start
  <1>2. StateTyped'
    BY DEF JournalTyped, StateTyped, Acts!Start
  <1>3. acts \in SUBSET Actions
    BY LinesTyped DEF JournalTyped, ActionLines
  <1>4. evs \in SUBSET (Actions \X Citations)
    BY LinesTyped DEF JournalTyped, EventLines
  <1>5. jn_daemon' = d
    BY DEF Acts!Start
  <1>6. Acts!FileExists \in BOOLEAN
    BY DEF Acts!FileExists
  <1> HIDE DEF acts, evs
  <1>7. d \in DaemonType /\ d.pc = "perceive"
    BY <1>3, <1>4, <1>6, DownTyped DEF DaemonType
  <1>8. DaemonTyped'
    BY <1>5, <1>7 DEF DaemonTyped
  <1> QED
    BY <1>1, <1>2, <1>8 DEF JournalTyped

\* Perceiving: a record that is public is taken up, and left when it is behind
\* the cursor.
LEMMA PerceiveTyped ==
  ASSUME JournalTyped,
         (\E r \in Citations : Acts!process_observation(r)) \/ Acts!Checkpoint
  PROVE  JournalTyped'
  <1>1. FileTyped'
    BY FileKept DEF JournalTyped, FileTyped, Acts!process_observation, Acts!Checkpoint
  <1>2. StateTyped'
    BY DEF JournalTyped, StateTyped, Acts!process_observation, Acts!Checkpoint
  <1>3. DaemonTyped'
    <2>1. ASSUME NEW r \in Citations, Acts!process_observation(r) PROVE DaemonTyped'
      BY <2>1 DEF JournalTyped, DaemonTyped, DaemonType, Acts!process_observation
    <2>2. ASSUME Acts!Checkpoint PROVE DaemonTyped'
      BY <2>2 DEF JournalTyped, DaemonTyped, DaemonType, Acts!Checkpoint
    <2> QED
      BY <2>1, <2>2
  <1> QED
    BY <1>1, <1>2, <1>3 DEF JournalTyped

\* What a link does: nothing, or one event line for an action of the daemon's
\* copy that is not linked to this record yet.
LEMMA LinkEffect ==
  ASSUME JournalTyped, Acts!Link
  PROVE  \/ /\ UNCHANGED <<jn_journal, jn_tail, jn_disk>>
            /\ jn_daemon' = [jn_daemon EXCEPT !.pc = "checkpoint"]
         \/ \E a \in jn_daemon.actions, line \in EventLines :
              /\ line.action = a /\ line.uri = jn_daemon.page
              /\ <<a, jn_daemon.page>> \notin jn_daemon.events
              /\ Acts!append_line("events", line)
              /\ jn_daemon' = [jn_daemon EXCEPT !.pc = "checkpoint",
                                                !.events = @ \cup {<<a, jn_daemon.page>>}]
  <1> DEFINE r == jn_daemon.page
             cited == [via \in {"parent", "root", "quote"} |->
                         Acts!journal_find_action_by_uri(jn_posted[r][via])]
             via == CASE cited["parent"] # None                         -> "parent"
                      [] cited["parent"] = None /\ cited["root"] # None -> "root"
                      [] OTHER                                          -> "quote"
             a == cited[via]
             line == Acts!EventLine(a, r, via, jn_posted[r].at)
  <1>1. r \in Citations /\ jn_posted[r] \in Contexts /\ jn_daemon.actions \subseteq Actions
    BY DEF JournalTyped, DaemonTyped, DaemonType, StateTyped, Acts!Link
  <1>2. via \in {"parent", "root", "quote"}
    OBVIOUS
  <1>3. a # None => a \in jn_daemon.actions
    BY <1>2 DEF Acts!journal_find_action_by_uri
  <1>4. Acts!link_observation(r)
    BY SMTT(60) DEF Acts!Link
  <1>5. IF ~jn_daemon.linker \/ a = None \/ Acts!journal_has_event(a, r)
        THEN /\ jn_daemon' = [jn_daemon EXCEPT !.pc = "checkpoint"]
             /\ UNCHANGED <<jn_journal, jn_tail, jn_disk>>
        ELSE /\ Acts!append_line("events", line)
             /\ jn_daemon' = [jn_daemon EXCEPT !.pc = "checkpoint", !.events = @ \cup {<<a, r>>}]
    BY <1>4 DEF Acts!link_observation
  <1> HIDE DEF via, a
  <1>6. CASE ~jn_daemon.linker \/ a = None \/ Acts!journal_has_event(a, r)
    BY <1>5, <1>6
  <1>7. CASE ~(~jn_daemon.linker \/ a = None \/ Acts!journal_has_event(a, r))
    <2>1. a \in jn_daemon.actions /\ <<a, r>> \notin jn_daemon.events
      BY <1>3, <1>7 DEF Acts!journal_has_event
    <2>2. line \in EventLines /\ line.action = a /\ line.uri = r
      BY <1>1, <1>2, <2>1 DEF EventLines, Contexts, Acts!EventLine
    <2> HIDE DEF line
    <2> QED
      BY <1>5, <1>7, <2>1, <2>2
  <1> QED
    BY <1>6, <1>7

LEMMA LinkTyped ==
  ASSUME JournalTyped, Acts!Link
  PROVE  JournalTyped'
  <1>0. FileTyped /\ StateTyped /\ DaemonTyped
    BY DEF JournalTyped
  <1>1. StateTyped'
    BY <1>0 DEF StateTyped, Acts!Link
  <1>2. jn_daemon.pc = "link" /\ UNCHANGED jn_posted
    BY DEF Acts!Link
  <1>3. CASE /\ UNCHANGED <<jn_journal, jn_tail, jn_disk>>
             /\ jn_daemon' = [jn_daemon EXCEPT !.pc = "checkpoint"]
    <2>1. FileTyped'
      BY <1>0, <1>3, FileKept DEF FileTyped
    <2>2. DaemonTyped'
      BY <1>0, <1>2, <1>3 DEF DaemonTyped, DaemonType
    <2> QED
      BY <1>1, <2>1, <2>2 DEF JournalTyped
  <1>4. ASSUME NEW a \in jn_daemon.actions, NEW line \in EventLines,
               Acts!append_line("events", line),
               jn_daemon' = [jn_daemon EXCEPT !.pc = "checkpoint",
                                              !.events = @ \cup {<<a, jn_daemon.page>>}]
        PROVE  JournalTyped'
    <2>1. FileTyped'
      <3>1. "events" \in Acts!Kinds /\ line \in LinesOf["events"]
        BY DEF Acts!Kinds, LinesOf
      <3> QED
        BY <1>0, <1>4, <3>1, AppendKeepsFile
    <2>2. jn_daemon.page \in Citations /\ a \in Actions
      BY <1>0, <1>2 DEF DaemonTyped, DaemonType
    <2>3. DaemonTyped'
      <3> DEFINE evs == jn_daemon.events \cup {<<a, jn_daemon.page>>}
                 d == [jn_daemon EXCEPT !.pc = "checkpoint", !.events = evs]
      <3>1. evs \in SUBSET (Actions \X Citations)
        BY <1>0, <2>2 DEF DaemonTyped, DaemonType
      <3> HIDE DEF evs
      <3>2. d \in DaemonType /\ d.page = jn_daemon.page /\ d.pc = "checkpoint"
        BY <1>0, <3>1 DEF DaemonTyped, DaemonType
      <3>3. jn_daemon' = d
        BY <1>4 DEF evs
      <3> QED
        BY <1>0, <1>2, <3>2, <3>3 DEF DaemonTyped
    <2> QED
      BY <1>1, <2>1, <2>3 DEF JournalTyped
  <1> QED
    BY <1>3, <1>4, LinkEffect

\* A step of the cycle that only moves on.
LEMMA GotoTyped ==
  ASSUME JournalTyped, NEW from,
         NEW to \in {"perceive", "drain", "sweep", "resolve", "decide", "execute"},
         Acts!Goto(from, to)
  PROVE  JournalTyped'
  <1>1. FileTyped'
    BY FileKept DEF JournalTyped, FileTyped, Acts!Goto
  <1>2. StateTyped'
    BY DEF JournalTyped, StateTyped, Acts!Goto
  <1>3. DaemonTyped'
    BY DEF JournalTyped, DaemonTyped, DaemonType, Acts!Goto
  <1> QED
    BY <1>1, <1>2, <1>3 DEF JournalTyped

\* The daemon with entries left to drain.
LEMMA LeftTyped ==
  ASSUME DaemonTyped, NEW entries \in SUBSET Actions
  PROVE  /\ Acts!WithLeft(entries) \in DaemonType
         /\ Acts!WithLeft(entries).pc \in {"sweep", "drain"}
         /\ Acts!WithLeft(entries).actions = jn_daemon.actions
         /\ Acts!WithLeft(entries).events = jn_daemon.events
  <1>1. CASE entries = {}
    <2>1. Acts!WithLeft(entries) = [jn_daemon EXCEPT !.left = entries, !.pc = "sweep"]
      BY <1>1 DEF Acts!WithLeft
    <2> QED
      BY <2>1 DEF DaemonTyped, DaemonType
  <1>2. CASE entries # {}
    <2>1. Acts!WithLeft(entries) = [jn_daemon EXCEPT !.left = entries, !.pc = "drain"]
      BY <1>2 DEF Acts!WithLeft
    <2> QED
      BY <2>1 DEF DaemonTyped, DaemonType
  <1> QED
    BY <1>1, <1>2

LEMMA BeginCycleTyped ==
  ASSUME JournalTyped, Acts!BeginCycle
  PROVE  JournalTyped'
  <1>1. FileTyped'
    BY FileKept DEF JournalTyped, FileTyped, Acts!BeginCycle
  <1>2. StateTyped'
    BY DEF JournalTyped, StateTyped, Acts!BeginCycle
  <1>3. DaemonTyped'
    <2>1. jn_spool \in SUBSET Actions /\ {} \in SUBSET Actions /\ DaemonTyped
      BY DEF JournalTyped, StateTyped
    <2>2. PICK entries \in SUBSET Actions : jn_daemon' = Acts!WithLeft(entries)
      BY <2>1 DEF Acts!BeginCycle
    <2>3. jn_daemon' \in DaemonType /\ jn_daemon'.pc \in {"sweep", "drain"}
      BY <2>1, <2>2, LeftTyped
    <2> QED
      BY <2>3 DEF DaemonTyped
  <1> QED
    BY <1>1, <1>2, <1>3 DEF JournalTyped

\* The attempts, whoever makes them.
Attempt ==
  \E a \in Actions, outcome \in Acts!Outcomes :
    Acts!Drain(a, outcome) \/ Acts!Execute(a, outcome) \/ Acts!Publish(a, outcome)

\* An attempt is one action line, of which a concurrent repair may make more or less.
LEMMA AttemptEffect ==
  ASSUME JournalTyped, Attempt
  PROVE  /\ \E line \in ActionLines :
              \/ Acts!append_line("actions", line) /\ UNCHANGED <<jn_repair, jn_lost>>
              \/ Acts!PublishRepaired(line) /\ UNCHANGED jn_daemon
              \/ Acts!PublishOverrun(line)
         /\ UNCHANGED jn_clock
  <1>1. PICK a \in Actions, outcome \in Acts!Outcomes :
          Acts!Drain(a, outcome) \/ Acts!Execute(a, outcome) \/ Acts!Publish(a, outcome)
    BY DEF Attempt
  <1>2. \A expected \in BOOLEAN : Acts!ActionLine(a, outcome, expected, jn_clock) \in ActionLines
    BY DEF JournalTyped, StateTyped, ActionLines, Acts!ActionLine
  <1>3. CASE Acts!Drain(a, outcome)
    <2>1. PICK expected \in BOOLEAN : expected = Acts!Scored(a)
      BY DEF Acts!Scored
    <2>2. /\ Acts!append_line("actions", Acts!ActionLine(a, outcome, expected, jn_clock))
          /\ UNCHANGED <<jn_repair, jn_lost, jn_clock>>
      BY <1>3, <2>1 DEF Acts!Drain
    <2> QED
      BY <1>2, <2>2
  <1>4. CASE Acts!Execute(a, outcome)
    <2>1. /\ Acts!append_line("actions", Acts!ActionLine(a, outcome, TRUE, jn_clock))
          /\ UNCHANGED <<jn_repair, jn_lost, jn_clock>>
      BY <1>4 DEF Acts!Execute
    <2> QED
      BY <1>2, <2>1
  <1>5. CASE Acts!Publish(a, outcome)
    <2>1. PICK line : line = Acts!ActionLine(a, outcome, FALSE, jn_clock)
      OBVIOUS
    <2>2. /\ UNCHANGED <<jn_clock, jn_daemon>>
          /\ \/ Acts!append_line("actions", line) /\ UNCHANGED <<jn_repair, jn_lost>>
             \/ Acts!PublishRepaired(line)
             \/ Acts!PublishOverrun(line)
      BY <1>5, <2>1 DEF Acts!Publish
    <2> QED
      BY <1>2, <2>1, <2>2
  <1> QED
    BY <1>1, <1>3, <1>4, <1>5

\* What `publish` leaves after its repair.
LEMMA RepairedFile ==
  ASSUME CopiesTyped, NEW line \in ActionLines, Acts!PublishRepaired(line)
  PROVE  /\ FileTyped' /\ jn_repair # None /\ jn_repair' = None
         /\ jn_journal' = Plus(jn_repair, "actions", line)
         /\ jn_disk' \in {jn_journal', jn_disk, jn_repair}
  <1>1. /\ jn_repair # None /\ jn_repair' = None
        /\ jn_journal' = [jn_repair EXCEPT !["actions"] = Append(jn_repair["actions"], line)]
        /\ jn_tail' = "clean" /\ Acts!WriteBack({jn_disk, jn_repair})
    BY DEF Acts!PublishRepaired
  <1>2. Sound(jn_repair)
    BY <1>1 DEF CopiesTyped
  <1>3. Sound(jn_journal')
    BY <1>1, <1>2, SoundAppend
  <1>4. jn_disk' \in {jn_journal', jn_disk, jn_repair}
    BY <1>1 DEF Acts!WriteBack
  <1> QED
    BY <1>1, <1>3, <1>4, FileSoundLater DEF Plus

\* Whole lines went from the file: to the power cut, or to the repair of `publish'.
CutOff ==
  /\ jn_lost'.cut /\ jn_repair' = None
  /\ \/ jn_journal' = jn_disk /\ jn_daemon' = Acts!Down
     \/ /\ jn_repair # None /\ UNCHANGED jn_daemon
        /\ \E line \in ActionLines : jn_journal' = Plus(jn_repair, "actions", line)

Adds(kind) == \E line \in LinesOf[kind] : Acts!append_line(kind, line)

\* An attempt adds a line, but for the two ways in which a repair meets it.
LEMMA AttemptAdds ==
  ASSUME JournalTyped, CopiesTyped, Attempt
  PROVE  /\ UNCHANGED jn_clock
         /\ UNCHANGED jn_journal \/ Adds("actions") \/ CutOff
  <1>1. PICK line \in ActionLines :
          \/ Acts!append_line("actions", line) /\ UNCHANGED <<jn_repair, jn_lost>>
          \/ Acts!PublishRepaired(line) /\ UNCHANGED jn_daemon
          \/ Acts!PublishOverrun(line)
    BY AttemptEffect
  <1>2. ASSUME Acts!append_line("actions", line) PROVE Adds("actions")
    BY <1>2 DEF Adds, LinesOf
  <1>3. ASSUME Acts!PublishRepaired(line), UNCHANGED jn_daemon PROVE Adds("actions") \/ CutOff
    <2>1. CASE jn_journal = jn_repair
      <3>1. jn_tail \in {"clean", "torn"}
        BY DEF JournalTyped, FileTyped
      <3>2. Acts!append_line("actions", line)
        BY <1>3, <2>1, <3>1 DEF Acts!PublishRepaired, Acts!append_line, Acts!repair_torn_tail
      <3> QED
        BY <1>2, <3>2
    <2>2. CASE jn_journal # jn_repair
      <3>1. jn_lost'.cut
        BY <1>3, <2>2 DEF Acts!PublishRepaired, Acts!Cut
      <3> QED
        BY <1>3, <3>1, RepairedFile DEF CutOff
    <2> QED
      BY <2>1, <2>2
  <1>4. ASSUME Acts!PublishOverrun(line) PROVE UNCHANGED jn_journal
    BY <1>4 DEF Acts!PublishOverrun
  <1> QED
    BY <1>1, <1>2, <1>3, <1>4, AttemptEffect

LEMMA AttemptTyped ==
  ASSUME JournalTyped, CopiesTyped, Attempt
  PROVE  JournalTyped'
  <1>0. FileTyped /\ StateTyped /\ DaemonTyped
    BY DEF JournalTyped
  <1>1. FileTyped'
    <2>1. PICK line \in ActionLines :
            \/ Acts!append_line("actions", line) /\ UNCHANGED <<jn_repair, jn_lost>>
            \/ Acts!PublishRepaired(line)
            \/ Acts!PublishOverrun(line)
      BY AttemptEffect
    <2>2. "actions" \in Acts!Kinds /\ line \in LinesOf["actions"]
      BY DEF Acts!Kinds, LinesOf
    <2>3. Acts!PublishOverrun(line) => FileTyped'
      BY <1>0, FileKept DEF Acts!PublishOverrun
    <2> QED
      BY <1>0, <2>1, <2>2, <2>3, AppendKeepsFile, RepairedFile
  <1>2. PICK a \in Actions, outcome \in Acts!Outcomes :
          Acts!Drain(a, outcome) \/ Acts!Execute(a, outcome) \/ Acts!Publish(a, outcome)
    BY DEF Attempt
  <1>3. CASE Acts!Drain(a, outcome)
    <2>1. jn_spool' \subseteq jn_spool
          /\ UNCHANGED <<jn_clock, jn_root, jn_queue, jn_posted, jn_mapper>>
      BY <1>3 DEF Acts!Drain, Acts!Outcomes
    <2>2. StateTyped'
      BY <1>0, <2>1 DEF StateTyped
    <2>3. jn_daemon.left \ {a} \in SUBSET Actions /\ {} \in SUBSET Actions
      BY <1>0 DEF DaemonTyped, DaemonType
    <2>4. PICK entries \in SUBSET Actions : jn_daemon' = Acts!WithLeft(entries)
      BY <1>3, <2>3 DEF Acts!Drain
    <2>5. jn_daemon' \in DaemonType /\ jn_daemon'.pc \in {"sweep", "drain"}
      BY <1>0, <2>4, LeftTyped
    <2>6. DaemonTyped'
      BY <2>5 DEF DaemonTyped
    <2> QED
      BY <1>1, <2>2, <2>6 DEF JournalTyped
  <1>4. CASE Acts!Execute(a, outcome)
    <2>1. StateTyped'
      BY <1>0, <1>4 DEF StateTyped, Acts!Execute
    <2>2. jn_root[a] \in Actions
      BY <1>0, <1>4 DEF StateTyped, Acts!Execute
    <2>3. DaemonTyped'
      BY <1>0, <1>4, <2>2 DEF DaemonTyped, DaemonType, Acts!Execute
    <2> QED
      BY <1>1, <2>1, <2>3 DEF JournalTyped
  <1>5. CASE Acts!Publish(a, outcome)
    <2>1. jn_root' = [jn_root EXCEPT ![a] = a]
          /\ jn_spool' \subseteq jn_spool \cup {a}
          /\ UNCHANGED <<jn_clock, jn_queue, jn_posted, jn_daemon, jn_mapper>>
      BY <1>5 DEF Acts!Publish
    <2>2. StateTyped'
      BY <1>0, <2>1 DEF StateTyped
    <2>3. DaemonTyped'
      BY <1>0, <2>1 DEF DaemonTyped, DaemonType, StateTyped
    <2> QED
      BY <1>1, <2>2, <2>3 DEF JournalTyped
  <1> QED
    BY <1>1, <1>2, <1>3, <1>4, <1>5

\* The effective state of an intent is a state.
LEMMA IntentStateTyped ==
  ASSUME NEW l \in IntentLines, NEW now
  PROVE  Acts!derive_intent_state(l, now) \in Acts!IntentStates
  BY DEF IntentLines, Acts!IntentStates, Acts!derive_intent_state

\* The line a sweep appends.
SweptLine(id) ==
  Acts!IntentLine(id, Acts!latest_intent(id).actions, Acts!latest_intent(id).expires,
                  Acts!derive_intent_state(Acts!latest_intent(id), jn_clock))

LEMMA SweepEffect ==
  ASSUME JournalTyped, NEW id \in Acts!Threads, Acts!Sweep(id)
  PROVE  /\ id \in Acts!Sweepable(jn_clock)
         /\ SweptLine(id) \in IntentLines /\ Acts!append_line("intents", SweptLine(id))
         /\ UNCHANGED <<jn_clock, jn_root, jn_queue, jn_spool, jn_posted, jn_daemon, jn_mapper,
                        jn_model>>
  <1>1. Acts!latest_intent(id) \in IntentLines /\ id \in Actions
    BY LatestTyped, ThreadsTyped DEF JournalTyped
  <1>2. Acts!derive_intent_state(Acts!latest_intent(id), jn_clock) \in Acts!IntentStates
    BY <1>1, IntentStateTyped
  <1>3. SweptLine(id) \in IntentLines
    BY <1>1, <1>2 DEF SweptLine, IntentLines, Acts!IntentLine
  <1> QED
    BY <1>3 DEF SweptLine, Acts!Sweep

LEMMA SweepTyped ==
  ASSUME JournalTyped, NEW id \in Acts!Threads, Acts!Sweep(id)
  PROVE  JournalTyped'
  <1>1. FileTyped'
    <2>1. "intents" \in Acts!Kinds /\ SweptLine(id) \in LinesOf["intents"]
      BY SweepEffect DEF Acts!Kinds, LinesOf
    <2> QED
      BY <2>1, SweepEffect, AppendKeepsFile DEF JournalTyped
  <1>2. StateTyped' /\ DaemonTyped'
    BY SweepEffect DEF JournalTyped, StateTyped, DaemonTyped
  <1> QED
    BY <1>1, <1>2 DEF JournalTyped

\* A resolution names an action and a terminal state.
LEMMA UnresolvedTyped ==
  ASSUME JournalTyped, NEW line \in Acts!Unresolved(jn_clock)
  PROVE  line \in ResolutionLines
  BY LinesTyped DEF JournalTyped, ActionLines, ResolutionLines, Acts!Unresolved,
     Acts!ResolutionLine

LEMMA ResolveTyped ==
  ASSUME JournalTyped, NEW line \in Acts!Unresolved(jn_clock),
         Acts!Resolve(line) \/ Acts!ResolveCommand(line)
  PROVE  JournalTyped'
  <1>1. FileTyped'
    <2>1. "resolutions" \in Acts!Kinds /\ line \in LinesOf["resolutions"]
      BY UnresolvedTyped DEF Acts!Kinds, LinesOf
    <2> QED
      BY <2>1, AppendKeepsFile DEF JournalTyped, Acts!Resolve, Acts!ResolveCommand
  <1>2. StateTyped' /\ DaemonTyped'
    BY DEF JournalTyped, StateTyped, DaemonTyped, Acts!Resolve, Acts!ResolveCommand
  <1> QED
    BY <1>1, <1>2 DEF JournalTyped

\* A proposal freezes its thread.
LEMMA ProposeTyped ==
  ASSUME JournalTyped, NEW a \in Actions,
         Acts!ProposePost(a) \/ \E r \in Citations : Acts!ProposeReply(a, r)
  PROVE  JournalTyped'
  <1>0. FileTyped /\ StateTyped /\ DaemonTyped
    BY DEF JournalTyped
  <1>1. FileTyped'
    BY <1>0, FileKept DEF FileTyped, Acts!ProposePost, Acts!ProposeReply
  <1>2. /\ \E id \in Actions : jn_root' = [jn_root EXCEPT ![a] = id]
        /\ jn_queue' = jn_queue \cup {a}
        /\ jn_daemon' = [jn_daemon EXCEPT !.pc = "execute"]
        /\ UNCHANGED <<jn_clock, jn_spool, jn_posted, jn_mapper>>
    <2>1. Acts!active_intents(jn_clock) \subseteq Actions
      BY <1>0, ThreadsTyped DEF Acts!active_intents
    <2> QED
      BY <2>1 DEF Acts!ProposePost, Acts!ProposeReply, Acts!continuation_intent
  <1>3. StateTyped'
    BY <1>0, <1>2 DEF StateTyped
  <1>4. DaemonTyped'
    BY <1>0, <1>2 DEF DaemonTyped, DaemonType
  <1> QED
    BY <1>1, <1>3, <1>4 DEF JournalTyped

\* The journal counts as everyone does.
LEMMA SameCount ==
  ASSUME NEW S
  PROVE  Acts!Cardinality(S) = Cardinality(S)
  BY DEF Cardinality, Acts!Cardinality

\* What a record of an intent does: nothing, or one more action in an open
\* conversation that has room, or a conversation below the cap.
Continues(id, a) ==
  /\ id \in Acts!active_intents(jn_clock)
  /\ Acts!append_line("intents", Acts!IntentLine(id, Acts!latest_intent(id).actions \cup {a},
                                                 Acts!latest_intent(id).expires, "open"))

Opens(id, a) ==
  /\ id \notin Acts!active_intents(jn_clock)
  /\ ~(Cardinality(Acts!active_intents(jn_clock)) >= MaxActive)
  /\ Acts!append_line("intents", Acts!IntentLine(id, {a}, jn_clock + IntentWindow, "open"))

LEMMA RecordEffect ==
  ASSUME JournalTyped, Acts!RecordIntent
  PROVE  \/ UNCHANGED <<jn_journal, jn_tail, jn_disk>>
         \/ \E id \in Actions, a \in Actions : Continues(id, a) \/ Opens(id, a)
  <1>1. jn_daemon.act \in Actions /\ jn_root[jn_daemon.act] \in Actions
    BY DEF JournalTyped, DaemonTyped, Acts!RecordIntent
  <1> DEFINE a == jn_daemon.act
             id == jn_root[a]
  <1>0. IF id \in Acts!active_intents(jn_clock)
        THEN IF a \in Acts!latest_intent(id).actions
             THEN UNCHANGED <<jn_journal, jn_tail, jn_disk>>
             ELSE Acts!append_line("intents",
                    Acts!IntentLine(id, Acts!latest_intent(id).actions \cup {a},
                                    Acts!latest_intent(id).expires, "open"))
        ELSE IF Cardinality(Acts!active_intents(jn_clock)) >= MaxActive
             THEN UNCHANGED <<jn_journal, jn_tail, jn_disk>>
             ELSE Acts!append_line("intents",
                    Acts!IntentLine(id, {a}, jn_clock + IntentWindow, "open"))
    BY SameCount DEF Acts!RecordIntent
  <1>2. UNCHANGED <<jn_journal, jn_tail, jn_disk>> \/ Continues(id, a) \/ Opens(id, a)
    BY <1>0 DEF Continues, Opens
  <1> HIDE DEF a, id
  <1>3. a \in Actions /\ id \in Actions
    BY <1>1 DEF a, id
  <1> QED
    BY <1>2, <1>3

LEMMA IntentsAppended ==
  ASSUME JournalTyped, NEW id \in Actions, NEW a \in Actions, Continues(id, a) \/ Opens(id, a)
  PROVE  \E line \in IntentLines : line.id = id /\ Acts!append_line("intents", line)
  <1>1. CASE Continues(id, a)
    <2>1. id \in Acts!Threads
      BY <1>1 DEF Continues, Acts!active_intents
    <2>2. Acts!latest_intent(id) \in IntentLines
      BY <2>1, LatestTyped DEF JournalTyped
    <2> DEFINE l == Acts!latest_intent(id)
               line == Acts!IntentLine(id, l.actions \cup {a}, l.expires, "open")
    <2> HIDE DEF l
    <2>3. l \in IntentLines
      BY <2>2 DEF l
    <2>4. line \in IntentLines /\ line.id = id
      BY <2>3 DEF IntentLines, Acts!IntentLine, Acts!IntentStates
    <2>5. Acts!append_line("intents", line)
      BY <1>1 DEF Continues, l
    <2> HIDE DEF line
    <2> QED
      BY <2>4, <2>5
  <1>2. CASE Opens(id, a)
    <2> DEFINE line == Acts!IntentLine(id, {a}, jn_clock + IntentWindow, "open")
    <2>1. jn_clock + IntentWindow \in Nat
      BY RecordsAssumption DEF JournalTyped, StateTyped, Acts!JournalAssumption,
         Acts!intent_config_from_environment
    <2>2. line \in IntentLines /\ line.id = id
      BY <2>1 DEF IntentLines, Acts!IntentLine, Acts!IntentStates
    <2>3. Acts!append_line("intents", line)
      BY <1>2 DEF Opens
    <2> HIDE DEF line
    <2> QED
      BY <2>2, <2>3
  <1> QED
    BY <1>1, <1>2

LEMMA RecordTyped ==
  ASSUME JournalTyped, Acts!RecordIntent
  PROVE  JournalTyped'
  <1>0. FileTyped /\ StateTyped /\ DaemonTyped
    BY DEF JournalTyped
  <1>1. FileTyped'
    <2>1. CASE UNCHANGED <<jn_journal, jn_tail, jn_disk>>
      BY <1>0, <2>1, FileKept DEF FileTyped
    <2>2. ASSUME NEW id \in Actions, NEW a \in Actions, Continues(id, a) \/ Opens(id, a)
          PROVE  FileTyped'
      <3>1. PICK line \in IntentLines : line.id = id /\ Acts!append_line("intents", line)
        BY <2>2, IntentsAppended
      <3>2. "intents" \in Acts!Kinds /\ line \in LinesOf["intents"]
        BY DEF Acts!Kinds, LinesOf
      <3> QED
        BY <1>0, <3>1, <3>2, AppendKeepsFile
    <2> QED
      BY <2>1, <2>2, RecordEffect
  <1>2. /\ jn_queue' = jn_queue \ {jn_daemon.act}
        /\ jn_daemon' = [jn_daemon EXCEPT !.pc = "perceive", !.act = None]
        /\ UNCHANGED <<jn_clock, jn_root, jn_spool, jn_posted, jn_mapper>>
    BY DEF Acts!RecordIntent
  <1>3. StateTyped'
    BY <1>0, <1>2 DEF StateTyped
  <1>4. DaemonTyped'
    BY <1>0, <1>2 DEF DaemonTyped, DaemonType
  <1> QED
    BY <1>1, <1>3, <1>4 DEF JournalTyped

\* The first rule that matches is a rule.
LEMMA RuleFound ==
  ASSUME NEW line, NEW now
  PROVE  Acts!first_matching_rule(line, now) \in Nat
  <1> DEFINE hits == {i \in DOMAIN Rules : Acts!rule_matches(Rules[i], line, now)}
             first == CHOOSE i \in hits : \A k \in hits : i <= k
  <1>1. DOMAIN Rules \subseteq Nat
    BY RecordsAssumption DEF Acts!JournalAssumption, Acts!parse_rule_table
  <1>2. hits \in SUBSET Nat
    BY <1>1
  <1>3. Acts!first_matching_rule(line, now) =
          IF hits = {} THEN 0 ELSE first
    BY DEF Acts!first_matching_rule
  <1> HIDE DEF hits
  <1>4. hits # {} => \E i \in hits : \A k \in hits : i <= k
    BY <1>2, LeastNatural
  <1>5. hits # {} => first \in hits
    BY <1>4
  <1> HIDE DEF first
  <1>6. first \in Nat \/ hits = {}
    BY <1>2, <1>5
  <1> QED
    BY <1>3, <1>6

\* `journal map` and `rebuild'.
LEMMA MapUpdateEffect ==
  ASSUME JournalTyped, NEW line, Acts!MapUpdate(line)
  PROVE  \E rule \in Nat, l \in ValenceLines :
           /\ l.source = line.id /\ l.provenance = rule
           /\ Acts!append_line("valence", l)
           /\ jn_mapper # None
           /\ jn_mapper' = [jn_mapper EXCEPT !.learned = @ \cup {<<line.id, rule>>},
                                             !.applied = @ \cup {<<line.id, rule>>}]
           /\ UNCHANGED <<jn_clock, jn_root, jn_queue, jn_spool, jn_posted, jn_daemon, jn_model,
                          jn_repair, jn_lost>>
  <1> DEFINE rule == Acts!first_matching_rule(line, jn_clock)
             l == Acts!ValenceLine(line.id, rule)
  <1>1. rule \in Nat
    BY RuleFound
  <1>2. line.id \in Actions
    BY DEF JournalTyped, StateTyped, ActionLines, Acts!MapUpdate
  <1> HIDE DEF rule
  <1>3. l \in ValenceLines /\ l.source = line.id /\ l.provenance = rule
    BY <1>1, <1>2 DEF ValenceLines, Acts!ValenceLine
  <1>4. /\ Acts!append_line("valence", l) /\ jn_mapper # None
        /\ jn_mapper' = [jn_mapper EXCEPT !.learned = @ \cup {<<line.id, rule>>},
                                          !.applied = @ \cup {<<line.id, rule>>}]
        /\ UNCHANGED <<jn_clock, jn_root, jn_queue, jn_spool, jn_posted, jn_daemon, jn_model,
                       jn_repair, jn_lost>>
    BY DEF rule, Acts!MapUpdate
  <1> HIDE DEF l
  <1> QED
    BY <1>1, <1>3, <1>4

LEMMA MapTyped ==
  ASSUME JournalTyped,
         \/ Acts!MapBegin \/ Acts!MapSave \/ Acts!Rebuild
         \/ \E line : Acts!MapUpdate(line)
  PROVE  JournalTyped'
  <1>0. FileTyped /\ StateTyped /\ DaemonTyped
    BY DEF JournalTyped
  <1>1. CASE Acts!MapBegin
    <2>1. FileTyped' /\ DaemonTyped'
      BY <1>0, <1>1, FileKept DEF FileTyped, DaemonTyped, Acts!MapBegin
    <2>2. jn_mapper' = [learned |-> jn_model, lines |-> Acts!Lines("actions"),
                        applied |-> Acts!ValenceEvents]
      BY <1>1 DEF Acts!MapBegin
    <2>3. StateTyped'
      BY <1>0, <1>1, <2>2, LinesTyped DEF StateTyped, Acts!MapBegin
    <2> QED
      BY <2>1, <2>3 DEF JournalTyped
  <1>2. CASE Acts!MapSave \/ Acts!Rebuild
    <2>1. FileTyped'
      BY <1>0, <1>2, FileKept DEF FileTyped, Acts!MapSave, Acts!Rebuild
    <2>2. StateTyped' /\ DaemonTyped'
      BY <1>0, <1>2 DEF StateTyped, DaemonTyped, Acts!MapSave, Acts!Rebuild
    <2> QED
      BY <2>1, <2>2 DEF JournalTyped
  <1>3. ASSUME NEW line, Acts!MapUpdate(line)
        PROVE  JournalTyped'
    <2>1. PICK rule \in Nat, l \in ValenceLines :
            /\ l.source = line.id /\ l.provenance = rule
            /\ Acts!append_line("valence", l)
            /\ jn_mapper # None
            /\ jn_mapper' = [jn_mapper EXCEPT !.learned = @ \cup {<<line.id, rule>>},
                                              !.applied = @ \cup {<<line.id, rule>>}]
            /\ UNCHANGED <<jn_clock, jn_root, jn_queue, jn_spool, jn_posted, jn_daemon, jn_model,
                           jn_repair, jn_lost>>
      BY <1>3, MapUpdateEffect
    <2>2. FileTyped'
      <3>1. "valence" \in Acts!Kinds /\ l \in LinesOf["valence"]
        BY DEF Acts!Kinds, LinesOf
      <3> QED
        BY <1>0, <2>1, <3>1, AppendKeepsFile
    <2>3. StateTyped'
      <3>1. /\ jn_mapper'.lines = jn_mapper.lines
            /\ jn_mapper' = [learned |-> jn_mapper'.learned, lines |-> jn_mapper'.lines,
                             applied |-> jn_mapper'.applied]
        BY <1>0, <2>1 DEF StateTyped
      <3> QED
        BY <1>0, <2>1, <3>1 DEF StateTyped
    <2>4. DaemonTyped'
      BY <1>0, <2>1 DEF DaemonTyped
    <2> QED
      BY <2>2, <2>3, <2>4 DEF JournalTyped
  <1> QED
    BY <1>1, <1>2, <1>3

\* The world: others post and edit, time passes, a process stops.
LEMMA JournalWorldTyped ==
  ASSUME JournalTyped, CopiesTyped, Acts!World
  PROVE  JournalTyped'
  <1>0. FileTyped /\ StateTyped /\ DaemonTyped
    BY DEF JournalTyped
  <1>1. FileTyped'
    <2>1. ~Acts!PowerCut => FileTyped'
      BY <1>0, FileKept DEF FileTyped, Acts!World, Acts!Post, Acts!Edit, Acts!Tick, Acts!Stop
    <2>2. Acts!PowerCut => FileTyped'
      BY <1>0, FileSoundLater DEF FileTyped, CopiesTyped, Acts!PowerCut
    <2> QED
      BY <2>1, <2>2
  <1>2. ASSUME NEW r \in Citations, NEW a \in Actions, NEW skew \in Skews,
               Acts!Post(r, a, jn_clock + skew)
        PROVE  StateTyped' /\ DaemonTyped'
    <2>1. jn_clock + skew \in Nat
      BY <1>0, RecordsAssumption DEF StateTyped, Acts!JournalAssumption
    <2>2. PICK ctx \in {[parent |-> a, root |-> jn_root[a], quote |-> None,
                         at |-> jn_clock + skew, text |-> 1],
                        [parent |-> None, root |-> jn_root[a], quote |-> a,
                         at |-> jn_clock + skew, text |-> 1]} :
            jn_posted' = [jn_posted EXCEPT ![r] = ctx]
      BY <1>2 DEF Acts!Post
    <2>3. ctx \in Contexts
      BY <1>0, <2>1 DEF StateTyped, Contexts, Acts!Texts
    <2>4. StateTyped'
      BY <1>0, <1>2, <2>2, <2>3 DEF StateTyped, Acts!Post
    <2>5. jn_daemon.pc \notin {"link", "checkpoint"} /\ UNCHANGED <<jn_daemon, jn_root>>
      BY <1>2 DEF Acts!Post, Acts!BetweenCycles
    <2> QED
      BY <1>0, <2>4, <2>5 DEF DaemonTyped
  <1>3. ASSUME NEW r \in Citations, Acts!Edit(r)
        PROVE  StateTyped' /\ DaemonTyped'
    <2>1. jn_posted' = [jn_posted EXCEPT ![r] = [jn_posted[r] EXCEPT !.text = 2]]
          /\ jn_posted[r] \in Contexts
      BY <1>0, <1>3 DEF StateTyped, Acts!Edit
    <2>2. [jn_posted[r] EXCEPT !.text = 2] \in Contexts
      BY <2>1 DEF Contexts, Acts!Texts
    <2>3. StateTyped'
      BY <1>0, <1>3, <2>1, <2>2 DEF StateTyped, Acts!Edit
    <2>4. jn_daemon.pc \notin {"link", "checkpoint"} /\ UNCHANGED <<jn_daemon, jn_root>>
      BY <1>3 DEF Acts!Edit, Acts!BetweenCycles
    <2> QED
      BY <1>0, <2>3, <2>4 DEF DaemonTyped
  <1>4. ASSUME Acts!Tick PROVE StateTyped' /\ DaemonTyped'
    BY <1>0, <1>4 DEF StateTyped, DaemonTyped, Acts!Tick
  <1>5. ASSUME Acts!Stop \/ Acts!PowerCut PROVE StateTyped' /\ DaemonTyped'
    <2>1. StateTyped'
      BY <1>0, <1>5 DEF StateTyped, Acts!Stop, Acts!PowerCut
    <2>2. jn_daemon' = Acts!Down
      BY <1>5 DEF Acts!Stop, Acts!PowerCut
    <2> QED
      BY <2>1, <2>2, DownTyped DEF DaemonTyped, Acts!Down
  <1> QED
    BY <1>1, <1>2, <1>3, <1>4, <1>5 DEF JournalTyped, Acts!World

Places == {"perceive", "drain", "sweep", "resolve", "decide", "execute"}

\* The steps of the journal, by what they do to it.
Perceives ==
  Acts!Checkpoint \/ \E r \in Citations : Acts!process_observation(r)

MovesOn == Acts!BeginCycle \/ \E from, to \in Places : Acts!Goto(from, to)

Sweeps == \E id \in Acts!Threads : Acts!Sweep(id)

Resolves ==
  \E line \in Acts!Unresolved(jn_clock) : Acts!Resolve(line) \/ Acts!ResolveCommand(line)

Proposes ==
  \E a \in Actions : Acts!ProposePost(a) \/ \E r \in Citations : Acts!ProposeReply(a, r)

Maps ==
  \/ Acts!MapBegin \/ Acts!MapSave \/ Acts!Rebuild
  \/ \E line : Acts!MapUpdate(line)

LEMMA JournalSteps ==
  ASSUME Acts!Next
  PROVE  \/ Acts!Start \/ Perceives \/ Acts!Link \/ MovesOn \/ Attempt \/ Sweeps \/ Resolves
         \/ Proposes \/ Acts!RecordIntent \/ Maps \/ Acts!ReadTail \/ Acts!World
  <1>1. Acts!Cycle => MovesOn \/ Attempt \/ Sweeps \/ Resolves \/ Proposes \/ Acts!RecordIntent
    BY DEF Acts!Cycle, MovesOn, Attempt, Sweeps, Resolves, Proposes, Places
  <1>2. Acts!Command => Attempt \/ Resolves \/ Maps \/ Acts!ReadTail
    BY DEF Acts!Command, Attempt, Resolves, Maps
  <1> QED
    BY <1>1, <1>2 DEF Acts!Next, Perceives

\* Every step keeps the types.
LEMMA JournalStepTyped ==
  ASSUME JournalTyped, CopiesTyped, Acts!Next
  PROVE  JournalTyped'
  <1>1. CASE Acts!Start
    BY <1>1, StartTyped
  <1>2. CASE Perceives
    BY <1>2, PerceiveTyped DEF Perceives
  <1>3. CASE Acts!Link
    BY <1>3, LinkTyped
  <1>4. CASE MovesOn
    BY <1>4, BeginCycleTyped, GotoTyped DEF MovesOn, Places
  <1>5. CASE Attempt
    BY <1>5, AttemptTyped
  <1>6. CASE Sweeps
    BY <1>6, SweepTyped DEF Sweeps
  <1>7. CASE Resolves
    BY <1>7, ResolveTyped DEF Resolves
  <1>8. CASE Proposes
    BY <1>8, ProposeTyped DEF Proposes
  <1>9. CASE Acts!RecordIntent
    BY <1>9, RecordTyped
  <1>10. CASE Maps
    BY <1>10, MapTyped DEF Maps
  <1>11. CASE Acts!World
    BY <1>11, JournalWorldTyped
  <1>12. CASE Acts!ReadTail
    <2>1. FileTyped'
      BY <1>12, FileKept DEF JournalTyped, FileTyped, Acts!ReadTail
    <2> QED
      BY <1>12, <2>1 DEF JournalTyped, StateTyped, DaemonTyped, Acts!ReadTail
  <1> QED
    BY <1>1, <1>2, <1>3, <1>4, <1>5, <1>6, <1>7, <1>8, <1>9, <1>10, <1>11, <1>12,
       JournalSteps

RecordsIntent == \E id \in Actions, a \in Actions : Continues(id, a) \/ Opens(id, a)

\* What a step does to the lines: at most one append, and the clock moves only
\* when there is none; unless lines are cut off.
LEMMA JournalEffect ==
  ASSUME JournalTyped, CopiesTyped, Acts!Next
  PROVE  \/ UNCHANGED jn_journal /\ jn_clock' \in {jn_clock, jn_clock + 1}
         \/ UNCHANGED jn_clock /\ Adds("actions")
         \/ UNCHANGED jn_clock /\ Acts!Link /\ Adds("events")
         \/ /\ UNCHANGED jn_clock
            /\ \E line \in Acts!Unresolved(jn_clock) : Acts!append_line("resolutions", line)
         \/ UNCHANGED jn_clock /\ \E id \in Acts!Sweepable(jn_clock) :
              SweptLine(id) \in IntentLines /\ Acts!append_line("intents", SweptLine(id))
         \/ UNCHANGED jn_clock /\ RecordsIntent
         \/ UNCHANGED jn_clock /\ Adds("valence")
         \/ UNCHANGED jn_clock /\ CutOff
  <1> DEFINE Quiet == UNCHANGED jn_journal /\ jn_clock' \in {jn_clock, jn_clock + 1}
  <1>1. CASE Acts!Start
    BY <1>1 DEF Acts!Start
  <1>2. CASE Perceives
    <2>1. Acts!Checkpoint => UNCHANGED <<jn_journal, jn_clock>>
      BY DEF Acts!Checkpoint
    <2>2. \A r \in Citations : Acts!process_observation(r) => UNCHANGED <<jn_journal, jn_clock>>
      BY DEF Acts!process_observation
    <2> QED
      BY <1>2, <2>1, <2>2 DEF Perceives
  <1>3. CASE Acts!Link
    <2>1. UNCHANGED jn_clock
      BY <1>3 DEF Acts!Link
    <2>2. UNCHANGED jn_journal \/ \E line \in EventLines : Acts!append_line("events", line)
      BY <1>3, LinkEffect, Zenon
    <2>3. UNCHANGED jn_journal \/ Adds("events")
      BY <2>2 DEF Adds, LinesOf
    <2> QED
      BY <1>3, <2>1, <2>3
  <1>4. CASE MovesOn
    BY <1>4 DEF MovesOn, Acts!BeginCycle, Acts!Goto
  <1>5. CASE Attempt
    BY <1>5, AttemptAdds
  <1>6. CASE Sweeps
    BY <1>6, SweepEffect DEF Sweeps
  <1>7. CASE Resolves
    BY <1>7 DEF Resolves, Acts!Resolve, Acts!ResolveCommand
  <1>8. CASE Proposes
    BY <1>8 DEF Proposes, Acts!ProposePost, Acts!ProposeReply
  <1>9. CASE Acts!RecordIntent
    <2>1. UNCHANGED jn_clock
      BY <1>9 DEF Acts!RecordIntent
    <2> QED
      BY <1>9, <2>1, RecordEffect DEF RecordsIntent
  <1>10. CASE Maps
    <2>1. CASE Acts!MapBegin \/ Acts!MapSave \/ Acts!Rebuild
      BY <2>1 DEF Acts!MapBegin, Acts!MapSave, Acts!Rebuild
    <2>2. ASSUME NEW line, Acts!MapUpdate(line)
          PROVE  UNCHANGED jn_clock /\ Adds("valence")
      BY <2>2, MapUpdateEffect DEF Adds, LinesOf
    <2> QED
      BY <1>10, <2>1, <2>2 DEF Maps
  <1>11. CASE Acts!World /\ ~Acts!PowerCut
    BY <1>11 DEF Acts!World, Acts!Post, Acts!Edit, Acts!Tick, Acts!Stop
  <1>12. CASE Acts!PowerCut
    BY <1>12 DEF CutOff, Acts!PowerCut, Acts!Cut
  <1>13. CASE Acts!ReadTail
    BY <1>13 DEF Acts!ReadTail
  <1> QED
    BY <1>1, <1>2, <1>3, <1>4, <1>5, <1>6, <1>7, <1>8, <1>9, <1>10, <1>11, <1>12, <1>13,
       JournalSteps

\* A step that cuts nothing off appends one line, or none.
LEMMA OneAppend ==
  ASSUME JournalTyped, CopiesTyped, Acts!Next, ~CutOff
  PROVE  UNCHANGED jn_journal \/ \E k \in Acts!Kinds : Adds(k)
  <1>0. {"actions", "events", "resolutions", "intents", "valence"} = Acts!Kinds
    BY DEF Acts!Kinds
  <1>1. \A line \in Acts!Unresolved(jn_clock) : line \in LinesOf["resolutions"]
    BY UnresolvedTyped DEF LinesOf
  <1>2. RecordsIntent => Adds("intents")
    BY IntentsAppended DEF RecordsIntent, Adds, LinesOf
  <1>3. \A id : SweptLine(id) \in IntentLines /\ Acts!append_line("intents", SweptLine(id)) =>
                  Adds("intents")
    BY DEF Adds, LinesOf
  <1>4. (\E line \in Acts!Unresolved(jn_clock) : Acts!append_line("resolutions", line)) =>
          Adds("resolutions")
    BY <1>1 DEF Adds
  <1> QED
    BY <1>0, <1>2, <1>3, <1>4, JournalEffect

\* Nor is any taken back.
LEMMA LinesGrow ==
  ASSUME JournalTyped, CopiesTyped, Acts!Next, ~CutOff, NEW kind \in Acts!Kinds
  PROVE  Acts!Lines(kind) \subseteq Acts!Lines(kind)'
  <1>0. FileTyped
    BY DEF JournalTyped
  <1>1. ASSUME NEW k \in Acts!Kinds, NEW line \in LinesOf[k], Acts!append_line(k, line)
        PROVE  Acts!Lines(kind) \subseteq Acts!Lines(kind)'
    BY <1>0, <1>1, AppendedLines
  <1>2. ASSUME UNCHANGED jn_journal
        PROVE  Acts!Lines(kind) \subseteq Acts!Lines(kind)'
    BY <1>2 DEF Acts!Lines
  <1>3. UNCHANGED jn_journal \/ \E k \in Acts!Kinds : Adds(k)
    BY OneAppend
  <1> QED
    BY <1>1, <1>2, <1>3 DEF Adds

---------------------------------------------------------------------------
(* The action journal: what is good of a file, whichever it is: the journal, the *)
(* disk's copy of it, or what a repair under way saw.                            *)

LinesIn(j, kind) == {j[kind][i] : i \in DOMAIN j[kind]}

\* A record is linked to an action by one line.
Unique(j) ==
  \A i, k \in DOMAIN j["events"] :
    /\ j["events"][i].uri = j["events"][k].uri
    /\ j["events"][i].action = j["events"][k].action
    => i = k

\* The threads whose last line is of an open conversation.
OpenIn(j, now) ==
  {j["intents"][i].id : i \in {n \in DOMAIN j["intents"] :
                                 /\ IsLastOf(j["intents"], j["intents"][n].id, n)
                                 /\ Acts!derive_intent_state(j["intents"][n], now) = "open"}}

Capped(j, now) ==
  IsFiniteSet(OpenIn(j, now)) /\ Cardinality(OpenIn(j, now)) <= MaxActive

\* A line that takes a thread up after its conversation ended, or under another
\* window, opens a new one.
Fresh(j) ==
  \A i, k \in DOMAIN j["intents"] :
    /\ i < k /\ j["intents"][i].id = j["intents"][k].id
    /\ \A n \in DOMAIN j["intents"] : i < n /\ n < k => j["intents"][n].id # j["intents"][k].id
    /\ \/ j["intents"][i].state # "open"
       \/ j["intents"][i].expires # j["intents"][k].expires
    => Cardinality(j["intents"][k].actions) = 1

Awaited(l) == l.expectation /\ l.outcome = "executed"

\* Someone answered inside the window.
Answered(j, l) ==
  \E e \in LinesIn(j, "events") :
    e.action = l.id /\ e.at > l.at /\ e.at - l.at <= ExpectationWindow

\* Someone answered at all, or the conversation lapsed.
Lapsed(j, l, now) ==
  \/ \E e \in LinesIn(j, "events") : e.action = l.id
  \/ \E i \in LinesIn(j, "intents") :
       l.id \in i.actions /\ Acts!derive_intent_state(i, now) = "expired"

\* The fate of an expectation, case by case.
FateIs(j, l, now, fate) ==
  /\ fate = "met" <=> Awaited(l) /\ Answered(j, l)
  /\ fate = "unmet" <=> Awaited(l) /\ ~Answered(j, l) /\ Lapsed(j, l, now)
  /\ fate = "expired" <=>
       /\ Awaited(l) /\ ~Answered(j, l) /\ ~Lapsed(j, l, now)
       /\ now > l.at + ExpectationWindow

RankOf(state) == Acts!Rank[state]

\* The n-th action line is an executed one of a.
ExecutedAt(j, n, a) ==
  /\ n \in DOMAIN j["actions"]
  /\ j["actions"][n].id = a /\ j["actions"][n].outcome = "executed"

ExecutedOnce(j, a) == \A n, m \in Nat : ExecutedAt(j, n, a) /\ ExecutedAt(j, m, a) => n = m

\* The n-th action line has come at least as far as the resolution says.
Reaches(j, n, state, now) ==
  \E fate \in Acts!TerminalStates :
    FateIs(j, j["actions"][n], now, fate) /\ RankOf(state) <= RankOf(fate)

\* A resolution was true of an executed line and still is or has been bettered; of
\* an action that was executed once each resolution betters the one before.
Resolved(j, now) ==
  /\ \A i \in DOMAIN j["resolutions"] :
       \E n \in Nat : /\ ExecutedAt(j, n, j["resolutions"][i].action)
                      /\ Reaches(j, n, j["resolutions"][i].state, now)
  /\ \A i, k \in DOMAIN j["resolutions"] :
       /\ i < k /\ j["resolutions"][i].action = j["resolutions"][k].action
       /\ ExecutedOnce(j, j["resolutions"][i].action)
       => RankOf(j["resolutions"][i].state) < RankOf(j["resolutions"][k].state)

Good(j, now) == Unique(j) /\ Capped(j, now) /\ Fresh(j) /\ Resolved(j, now)

\* One more line of file j.
LEMMA PlusLine ==
  ASSUME NEW j, Sound(j), NEW kind \in Acts!Kinds, NEW line \in LinesOf[kind],
         NEW k, k = Plus(j, kind, line)
  PROVE  /\ \A other \in Acts!Kinds : other # kind => k[other] = j[other]
         /\ Len(j[kind]) \in Nat /\ DOMAIN j[kind] = 1..Len(j[kind])
         /\ DOMAIN k[kind] = DOMAIN j[kind] \cup {Len(j[kind]) + 1}
         /\ \A i \in DOMAIN j[kind] : k[kind][i] = j[kind][i]
         /\ k[kind][Len(j[kind]) + 1] = line
  <1>1. DOMAIN j = Acts!Kinds /\ j[kind] \in Seq(LinesOf[kind])
    BY DEF Sound
  <1>2. \A other \in Acts!Kinds : other # kind => k[other] = j[other]
    BY <1>1 DEF Plus
  <1>3. k[kind] = Append(j[kind], line)
    BY <1>1 DEF Plus
  <1> DEFINE S == LinesOf[kind]
             s == j[kind]
             u == k[kind]
  <1>4. s \in Seq(S) /\ line \in S /\ u = Append(s, line)
    BY <1>1, <1>3
  <1> HIDE DEF S, s, u
  <1>5. /\ Len(s) \in Nat /\ DOMAIN s = 1..Len(s)
        /\ DOMAIN u = DOMAIN s \cup {Len(s) + 1}
        /\ \A i \in DOMAIN s : u[i] = s[i]
        /\ u[Len(s) + 1] = line
    BY <1>4
  <1> QED
    BY <1>2, <1>5 DEF s, u

\* Action lines stay where they are, and nothing that was said is taken back.
Grown(j, k) ==
  /\ \A n \in DOMAIN j["actions"] :
       n \in DOMAIN k["actions"] /\ k["actions"][n] = j["actions"][n]
  /\ LinesIn(j, "events") \subseteq LinesIn(k, "events")
  /\ LinesIn(j, "intents") \subseteq LinesIn(k, "intents")
  /\ LinesIn(j, "valence") \subseteq LinesIn(k, "valence")

LEMMA PlusGrown ==
  ASSUME NEW j, Sound(j), NEW kind \in Acts!Kinds, NEW line \in LinesOf[kind],
         NEW k, k = Plus(j, kind, line)
  PROVE  Grown(j, k)
  <1>1. \A other \in Acts!Kinds : \A n \in DOMAIN j[other] :
          n \in DOMAIN k[other] /\ k[other][n] = j[other][n]
    BY PlusLine
  <1>2. \A other \in Acts!Kinds : LinesIn(j, other) \subseteq LinesIn(k, other)
    BY <1>1 DEF LinesIn
  <1> QED
    BY <1>1, <1>2 DEF Grown, Acts!Kinds

\* The lines of a sound file.
LEMMA SoundLines ==
  ASSUME NEW j, Sound(j), NEW kind \in Acts!Kinds
  PROVE  /\ DOMAIN j[kind] \subseteq Nat
         /\ \A i \in DOMAIN j[kind] : j[kind][i] \in LinesOf[kind]
         /\ LinesIn(j, kind) \subseteq LinesOf[kind]
  <1>1. j[kind] \in Seq(LinesOf[kind])
    BY DEF Sound
  <1>2. DOMAIN j[kind] \subseteq Nat /\ \A i \in DOMAIN j[kind] : j[kind][i] \in LinesOf[kind]
    BY <1>1
  <1> QED
    BY <1>2 DEF LinesIn

---------------------------------------------------------------------------
(* The action journal: conversations of a file. *)

\* An intent that is open has not lapsed and has room.
LEMMA OpenIntent ==
  ASSUME NEW l \in IntentLines, NEW now \in Nat
  PROVE  Acts!derive_intent_state(l, now) = "open" <=>
           /\ l.state = "open" /\ now <= l.expires
           /\ ~(Cardinality(l.actions) - 1 >= MaxContinuations)
  <1>1. l.expires \in Nat
    BY DEF IntentLines
  <1> QED
    BY <1>1, SameCount DEF Acts!derive_intent_state

\* Who is open, line by line.
LEMMA OpenMember ==
  ASSUME NEW j, NEW now, NEW id
  PROVE  id \in OpenIn(j, now) <=>
           \E i \in DOMAIN j["intents"] :
             /\ IsLastOf(j["intents"], id, i)
             /\ Acts!derive_intent_state(j["intents"][i], now) = "open"
  BY DEF OpenIn, IsLastOf

\* Fewer, or as many.
LEMMA CappedWithin ==
  ASSUME NEW j, NEW now, Capped(j, now), NEW k, NEW later,
         OpenIn(k, later) \subseteq OpenIn(j, now)
  PROVE  Capped(k, later)
  <1> DEFINE T == OpenIn(j, now)
             S == OpenIn(k, later)
  <1>1. IsFiniteSet(T) /\ Cardinality(T) <= MaxActive /\ S \in SUBSET T
    BY DEF Capped
  <1> HIDE DEF T, S
  <1>2. IsFiniteSet(S) /\ Cardinality(S) <= Cardinality(T)
    BY <1>1, FS_Subset
  <1>3. Cardinality(S) \in Nat /\ Cardinality(T) \in Nat /\ MaxActive \in Nat
    BY <1>1, <1>2, FS_CardinalityType, RecordsAssumption
       DEF Acts!JournalAssumption, Acts!intent_config_from_environment
  <1>4. IsFiniteSet(S) /\ Cardinality(S) <= MaxActive
    BY <1>1, <1>2, <1>3
  <1> QED
    BY <1>4 DEF Capped, S

\* Time only closes conversations.
LEMMA CappedLater ==
  ASSUME NEW j, Sound(j), NEW now \in Nat, NEW later \in Nat, now <= later, Capped(j, now)
  PROVE  Capped(j, later)
  <1>1. ASSUME NEW id \in OpenIn(j, later) PROVE id \in OpenIn(j, now)
    <2>1. PICK i \in DOMAIN j["intents"] :
            /\ IsLastOf(j["intents"], id, i)
            /\ Acts!derive_intent_state(j["intents"][i], later) = "open"
      BY <1>1, OpenMember
    <2>2. PICK l \in IntentLines : l = j["intents"][i]
      BY SoundLines DEF Acts!Kinds, LinesOf
    <2>3. l.expires \in Nat
      BY DEF IntentLines
    <2>4. l.state = "open" /\ later <= l.expires /\ ~(Cardinality(l.actions) - 1 >= MaxContinuations)
      BY <2>1, <2>2, OpenIntent
    <2>5. now <= l.expires
      BY <2>3, <2>4
    <2>6. Acts!derive_intent_state(l, now) = "open"
      BY <2>4, <2>5, OpenIntent
    <2> QED
      BY <2>1, <2>2, <2>6, OpenMember
  <1> QED
    BY <1>1, CappedWithin

\* What an intent line may be: the end or the continuation of its thread's last
\* one, or the first of a conversation that has room beside the others.
Fits(j, line, now) ==
  \/ /\ \E i \in DOMAIN j["intents"] :
          /\ IsLastOf(j["intents"], line.id, i)
          /\ j["intents"][i].state = "open" /\ j["intents"][i].expires = line.expires
     /\ Acts!derive_intent_state(line, now) = "open" => line.id \in OpenIn(j, now)
  \/ /\ Cardinality(line.actions) = 1
     /\ line.id \notin OpenIn(j, now) /\ ~(Cardinality(OpenIn(j, now)) >= MaxActive)

LEMMA CappedIntent ==
  ASSUME NEW j, Sound(j), NEW now \in Nat, Capped(j, now), NEW line \in IntentLines,
         Fits(j, line, now), NEW k, k = Plus(j, "intents", line)
  PROVE  Capped(k, now)
  <1>1. PICK n \in Nat : n = Len(j["intents"]) + 1
    BY DEF Sound, Acts!Kinds
  <1>2. /\ DOMAIN k["intents"] = DOMAIN j["intents"] \cup {n}
        /\ DOMAIN j["intents"] = 1..(n - 1)
        /\ \A i \in DOMAIN j["intents"] : k["intents"][i] = j["intents"][i]
        /\ k["intents"][n] = line
    BY <1>1, PlusLine DEF Acts!Kinds, LinesOf
  <1>3. ASSUME NEW id \in OpenIn(k, now)
        PROVE  \/ id = line.id /\ Acts!derive_intent_state(line, now) = "open"
               \/ id \in OpenIn(j, now)
    <2>1. PICK i \in DOMAIN k["intents"] :
            /\ IsLastOf(k["intents"], id, i)
            /\ Acts!derive_intent_state(k["intents"][i], now) = "open"
      BY <1>3, OpenMember
    <2>2. CASE i = n
      BY <1>2, <2>1, <2>2 DEF IsLastOf
    <2>3. CASE i # n
      <3>1. IsLastOf(j["intents"], id, i) /\ i \in DOMAIN j["intents"]
        BY <1>2, <2>1, <2>3 DEF IsLastOf
      <3> QED
        BY <1>2, <2>1, <3>1, OpenMember
    <2> QED
      BY <2>2, <2>3
  <1>4. CASE OpenIn(k, now) \subseteq OpenIn(j, now)
    BY <1>4, CappedWithin
  <1>5. CASE /\ line.id \notin OpenIn(j, now)
             /\ ~(Cardinality(OpenIn(j, now)) >= MaxActive)
    <2> DEFINE T == OpenIn(j, now)
               S == OpenIn(k, now)
    <2>1. PICK id : id = line.id
      OBVIOUS
    <2>2. S \in SUBSET (T \cup {id}) /\ id \notin T /\ IsFiniteSet(T)
          /\ ~(Cardinality(T) >= MaxActive)
      BY <1>3, <1>5, <2>1 DEF Capped
    <2> HIDE DEF T, S
    <2>3. IsFiniteSet(T \cup {id}) /\ Cardinality(T \cup {id}) = Cardinality(T) + 1
      BY <2>2, FS_AddElement
    <2>4. IsFiniteSet(S) /\ Cardinality(S) <= Cardinality(T \cup {id})
      BY <2>2, <2>3, FS_Subset
    <2>5. Cardinality(S) \in Nat /\ Cardinality(T) \in Nat /\ MaxActive \in Nat
      BY <2>2, <2>4, FS_CardinalityType, RecordsAssumption
         DEF Acts!JournalAssumption, Acts!intent_config_from_environment
    <2>6. IsFiniteSet(S) /\ Cardinality(S) <= MaxActive
      BY <2>2, <2>3, <2>4, <2>5
    <2> QED
      BY <2>6 DEF Capped, S
  <1> QED
    BY <1>3, <1>4, <1>5 DEF Fits

LEMMA FreshIntent ==
  ASSUME NEW j, Sound(j), NEW now, Fresh(j), NEW line \in IntentLines,
         Fits(j, line, now), NEW k, k = Plus(j, "intents", line)
  PROVE  Fresh(k)
  <1>1. PICK n \in Nat : n = Len(j["intents"]) + 1
    BY DEF Sound, Acts!Kinds
  <1>2. /\ DOMAIN k["intents"] = DOMAIN j["intents"] \cup {n}
        /\ DOMAIN j["intents"] = 1..(n - 1)
        /\ \A i \in DOMAIN j["intents"] : k["intents"][i] = j["intents"][i]
        /\ k["intents"][n] = line
    BY <1>1, PlusLine DEF Acts!Kinds, LinesOf
  <1> SUFFICES ASSUME NEW i \in DOMAIN k["intents"], NEW m \in DOMAIN k["intents"],
                      i < m, k["intents"][i].id = k["intents"][m].id,
                      \A x \in DOMAIN k["intents"] :
                        i < x /\ x < m => k["intents"][x].id # k["intents"][m].id,
                      \/ k["intents"][i].state # "open"
                      \/ k["intents"][i].expires # k["intents"][m].expires
               PROVE  Cardinality(k["intents"][m].actions) = 1
    BY DEF Fresh
  <1>3. i \in DOMAIN j["intents"] /\ k["intents"][i] = j["intents"][i]
    BY <1>1, <1>2
  <1>4. CASE m # n
    <2>1. m \in DOMAIN j["intents"] /\ k["intents"][m] = j["intents"][m]
      BY <1>2, <1>4
    <2>2. \A x \in DOMAIN j["intents"] : i < x /\ x < m => j["intents"][x].id # j["intents"][m].id
      BY <1>2, <2>1
    <2> QED
      BY <1>3, <2>1, <2>2 DEF Fresh
  <1>5. CASE m = n
    <2>1. k["intents"][m] = line /\ j["intents"][i].id = line.id
      BY <1>2, <1>3, <1>5
    <2>2. \A x \in DOMAIN j["intents"] : j["intents"][x].id = line.id => x <= i
      BY <1>2, <1>3, <1>5, <2>1
    <2>3. ASSUME NEW x \in DOMAIN j["intents"], IsLastOf(j["intents"], line.id, x)
          PROVE  x = i
      <3>1. x <= i /\ i <= x
        BY <1>3, <2>1, <2>2, <2>3 DEF IsLastOf
      <3> QED
        BY <1>2, <1>3, <3>1
    <2> QED
      BY <1>3, <2>1, <2>3 DEF Fits
  <1> QED
    BY <1>4, <1>5

---------------------------------------------------------------------------
(* The action journal: expectations of a file. *)

Fates ==
  \A l \in ActionLines, now \in Nat :
    FateIs(jn_journal, l, now, Acts!derive_expectation_state(l, now))

LEMMA Fate == Fates
  <1> SUFFICES ASSUME NEW l \in ActionLines, NEW now \in Nat
               PROVE  FateIs(jn_journal, l, now, Acts!derive_expectation_state(l, now))
    BY DEF Fates
  <1> DEFINE contact == {e \in Acts!Lines("events") : e.action = l.id}
             lapsed  == {i \in Acts!Lines("intents") :
                           /\ l.id \in i.actions
                           /\ Acts!derive_intent_state(i, now) = "expired"}
             awaited == l.expectation /\ l.outcome = "executed"
             met     == \E e \in contact : e.at > l.at /\ e.at - l.at <= ExpectationWindow
             unmet   == contact # {} \/ lapsed # {}
             over    == now > l.at + ExpectationWindow
  <1>1. Acts!derive_expectation_state(l, now) =
          CASE ~awaited                             -> "none"
            [] awaited /\ met                       -> "met"
            [] awaited /\ ~met /\ unmet             -> "unmet"
            [] awaited /\ ~met /\ ~unmet /\ over    -> "expired"
            [] OTHER                                -> "pending"
    BY Zenon DEF Acts!derive_expectation_state
  <1>0. /\ Acts!Lines("events") = LinesIn(jn_journal, "events")
        /\ Acts!Lines("intents") = LinesIn(jn_journal, "intents")
    BY DEF Acts!Lines, LinesIn
  <1>2. awaited <=> Awaited(l)
    BY DEF Awaited
  <1>3. met <=> Answered(jn_journal, l)
    BY <1>0 DEF Answered
  <1>4. unmet <=> Lapsed(jn_journal, l, now)
    BY <1>0 DEF Lapsed
  <1> HIDE DEF awaited, met, unmet
  <1> QED
    BY <1>1, <1>2, <1>3, <1>4 DEF FateIs

\* A lapsed conversation stays lapsed.
LEMMA LapsedStays ==
  ASSUME NEW i \in IntentLines, NEW now \in Nat, NEW later \in Nat, now <= later,
         Acts!derive_intent_state(i, now) = "expired"
  PROVE  Acts!derive_intent_state(i, later) = "expired"
  <1>1. i.expires \in Nat
    BY DEF IntentLines
  <1>2. i.state = "expired" \/ (i.state = "open" /\ now > i.expires)
    BY DEF Acts!derive_intent_state
  <1> QED
    BY <1>1, <1>2 DEF Acts!derive_intent_state

LEMMA RankOrder ==
  /\ RankOf("expired") = 1 /\ RankOf("unmet") = 2 /\ RankOf("met") = 3
  BY DEF RankOf, Acts!Rank

\* Time and new lines only improve an expectation's fate.
LEMMA FateImproves ==
  ASSUME NEW j, Sound(j), NEW k, Grown(j, k), NEW now \in Nat, NEW later \in Nat, now <= later,
         NEW l \in ActionLines, NEW early \in Acts!TerminalStates, FateIs(j, l, now, early)
  PROVE  \E late \in Acts!TerminalStates :
           FateIs(k, l, later, late) /\ RankOf(early) <= RankOf(late)
  <1>1. LinesIn(j, "intents") \subseteq IntentLines
    BY SoundLines DEF Acts!Kinds, LinesOf
  <1>2. Answered(j, l) => Answered(k, l)
    BY DEF Answered, Grown
  <1>3. Lapsed(j, l, now) => Lapsed(k, l, later)
    <2>1. CASE \E e \in LinesIn(j, "events") : e.action = l.id
      BY <2>1 DEF Lapsed, Grown
    <2>2. ASSUME NEW i \in LinesIn(j, "intents"), l.id \in i.actions,
                 Acts!derive_intent_state(i, now) = "expired"
          PROVE  Lapsed(k, l, later)
      <3>1. i \in IntentLines
        BY <1>1
      <3>2. Acts!derive_intent_state(i, later) = "expired"
        BY <2>2, <3>1, LapsedStays
      <3> QED
        BY <2>2, <3>2 DEF Lapsed, Grown
    <2> QED
      BY <2>1, <2>2 DEF Lapsed
  <1>4. l.at + ExpectationWindow \in Nat
    BY RecordsAssumption DEF ActionLines, Acts!JournalAssumption
  <1>5. early \in {"met", "unmet", "expired"}
    BY DEF Acts!TerminalStates
  <1>6. Awaited(l)
    BY <1>5 DEF FateIs
  <1>7. CASE Answered(k, l)
    <2>1. FateIs(k, l, later, "met")
      BY <1>6, <1>7 DEF FateIs
    <2> QED
      BY <1>5, <2>1, RankOrder DEF Acts!TerminalStates
  <1>8. CASE ~Answered(k, l) /\ Lapsed(k, l, later)
    <2>1. FateIs(k, l, later, "unmet")
      BY <1>6, <1>8 DEF FateIs
    <2>2. early # "met"
      BY <1>2, <1>8 DEF FateIs
    <2> QED
      BY <1>5, <2>1, <2>2, RankOrder DEF Acts!TerminalStates
  <1>9. CASE ~Answered(k, l) /\ ~Lapsed(k, l, later)
    <2>1. early = "expired" /\ now > l.at + ExpectationWindow
      BY <1>2, <1>3, <1>5, <1>9 DEF FateIs
    <2>2. later > l.at + ExpectationWindow
      BY <1>4, <2>1
    <2>3. FateIs(k, l, later, "expired")
      BY <1>6, <1>9, <2>2 DEF FateIs
    <2> QED
      BY <2>1, <2>3, RankOrder DEF Acts!TerminalStates
  <1> QED
    BY <1>7, <1>8, <1>9

LEMMA RankIsNat ==
  ASSUME NEW state \in Acts!TerminalStates
  PROVE  RankOf(state) \in Nat
  BY RankOrder DEF Acts!TerminalStates

\* A line that reached its fate keeps it, or comes to a better one.
LEMMA ReachesStays ==
  ASSUME NEW j, Sound(j), NEW k, Grown(j, k), NEW now \in Nat, NEW later \in Nat, now <= later,
         NEW n, NEW a, NEW state \in Acts!TerminalStates,
         ExecutedAt(j, n, a), Reaches(j, n, state, now)
  PROVE  ExecutedAt(k, n, a) /\ Reaches(k, n, state, later)
  <1>1. PICK l : l = j["actions"][n]
    OBVIOUS
  <1>2. n \in DOMAIN k["actions"] /\ k["actions"][n] = l
    BY <1>1 DEF Grown, ExecutedAt
  <1>3. l \in ActionLines
    BY <1>1, SoundLines DEF ExecutedAt, Acts!Kinds, LinesOf
  <1>4. PICK early \in Acts!TerminalStates :
          FateIs(j, l, now, early) /\ RankOf(state) <= RankOf(early)
    BY <1>1 DEF Reaches
  <1>5. PICK late \in Acts!TerminalStates :
          FateIs(k, l, later, late) /\ RankOf(early) <= RankOf(late)
    BY <1>3, <1>4, FateImproves
  <1>6. RankOf(state) <= RankOf(late)
    BY <1>4, <1>5, RankIsNat
  <1> QED
    BY <1>1, <1>2, <1>5, <1>6 DEF ExecutedAt, Reaches

\* What was executed twice stays so.
LEMMA OnceBefore ==
  ASSUME NEW j, NEW k, Grown(j, k), NEW a, ExecutedOnce(k, a)
  PROVE  ExecutedOnce(j, a)
  BY DEF ExecutedOnce, ExecutedAt, Grown

\* Without a new resolution they stay good.
LEMMA ResolvedLater ==
  ASSUME NEW j, Sound(j), NEW k, Grown(j, k), k["resolutions"] = j["resolutions"],
         NEW now \in Nat, NEW later \in Nat, now <= later, Resolved(j, now)
  PROVE  Resolved(k, later)
  <1>1. ASSUME NEW i \in DOMAIN k["resolutions"]
        PROVE  \E n \in Nat : /\ ExecutedAt(k, n, k["resolutions"][i].action)
                              /\ Reaches(k, n, k["resolutions"][i].state, later)
    <2>1. PICK r \in ResolutionLines : r = k["resolutions"][i] /\ r = j["resolutions"][i]
      BY <1>1, SoundLines DEF Acts!Kinds, LinesOf
    <2>2. PICK n \in Nat : ExecutedAt(j, n, r.action) /\ Reaches(j, n, r.state, now)
      BY <1>1, <2>1 DEF Resolved
    <2>3. r.state \in Acts!TerminalStates
      BY DEF ResolutionLines
    <2>4. ExecutedAt(k, n, r.action) /\ Reaches(k, n, r.state, later)
      BY <2>2, <2>3, ReachesStays
    <2> QED
      BY <2>1, <2>4
  <1>2. \A a : ExecutedOnce(k, a) => ExecutedOnce(j, a)
    BY OnceBefore
  <1> QED
    BY <1>1, <1>2 DEF Resolved

\* The line is true of an executed action line and was not there.
Tells(j, line, now) ==
  \E m \in Nat :
    /\ ExecutedAt(j, m, line.action)
    /\ FateIs(j, j["actions"][m], now, line.state)
    /\ \A p \in LinesIn(j, "resolutions") : p.action = line.action => p.state # line.state

\* One action line has one fate.
LEMMA OneFate ==
  ASSUME NEW j, NEW l, NEW now, NEW fate \in Acts!TerminalStates, FateIs(j, l, now, fate),
         NEW other \in Acts!TerminalStates, FateIs(j, l, now, other)
  PROVE  fate = other
  BY DEF FateIs, Acts!TerminalStates

LEMMA ResolvedPlus ==
  ASSUME NEW j, Sound(j), NEW now \in Nat, Resolved(j, now), NEW line \in ResolutionLines,
         Tells(j, line, now), NEW k, k = Plus(j, "resolutions", line)
  PROVE  Resolved(k, now)
  <1>1. PICK z \in Nat : z = Len(j["resolutions"]) + 1
    BY DEF Sound, Acts!Kinds
  <1>2. /\ DOMAIN k["resolutions"] = DOMAIN j["resolutions"] \cup {z}
        /\ DOMAIN j["resolutions"] = 1..(z - 1)
        /\ \A i \in DOMAIN j["resolutions"] : k["resolutions"][i] = j["resolutions"][i]
        /\ k["resolutions"][z] = line
    BY <1>1, PlusLine DEF Acts!Kinds, LinesOf
  <1>3. Grown(j, k)
    BY PlusGrown DEF Acts!Kinds, LinesOf
  <1>4. PICK m \in Nat :
          /\ ExecutedAt(j, m, line.action)
          /\ FateIs(j, j["actions"][m], now, line.state)
          /\ \A p \in LinesIn(j, "resolutions") : p.action = line.action => p.state # line.state
    BY DEF Tells
  <1>5. line.state \in Acts!TerminalStates
    BY DEF ResolutionLines
  <1>6. ASSUME NEW i \in DOMAIN j["resolutions"]
        PROVE  /\ j["resolutions"][i].state \in Acts!TerminalStates
               /\ \E n \in Nat : /\ ExecutedAt(k, n, j["resolutions"][i].action)
                                 /\ Reaches(k, n, j["resolutions"][i].state, now)
    <2>1. PICK r \in ResolutionLines : r = j["resolutions"][i]
      BY SoundLines DEF Acts!Kinds, LinesOf
    <2>2. PICK n \in Nat : ExecutedAt(j, n, r.action) /\ Reaches(j, n, r.state, now)
      BY <2>1 DEF Resolved
    <2>3. r.state \in Acts!TerminalStates
      BY DEF ResolutionLines
    <2>4. ExecutedAt(k, n, r.action) /\ Reaches(k, n, r.state, now)
      BY <1>3, <2>2, <2>3, ReachesStays
    <2> QED
      BY <2>1, <2>3, <2>4
  <1>7. ExecutedAt(k, m, line.action) /\ Reaches(k, m, line.state, now)
    <2>1. Reaches(j, m, line.state, now)
      BY <1>4, <1>5, RankIsNat DEF Reaches
    <2> QED
      BY <1>3, <1>4, <1>5, <2>1, ReachesStays
  <1>8. ASSUME NEW i \in DOMAIN k["resolutions"], NEW n \in DOMAIN k["resolutions"], i < n,
               k["resolutions"][i].action = k["resolutions"][n].action,
               ExecutedOnce(k, k["resolutions"][i].action)
        PROVE  RankOf(k["resolutions"][i].state) < RankOf(k["resolutions"][n].state)
    <2>1. PICK r : r = k["resolutions"][i]
      OBVIOUS
    <2>2. i \in DOMAIN j["resolutions"] /\ r = j["resolutions"][i]
      BY <1>1, <1>2, <1>8, <2>1
    <2>3. ExecutedOnce(j, r.action)
      BY <1>3, <1>8, <2>1, OnceBefore
    <2>4. CASE n # z
      BY <1>2, <1>8, <2>1, <2>2, <2>3, <2>4 DEF Resolved
    <2>5. CASE n = z
      <3>1. r.action = line.action /\ r \in LinesIn(j, "resolutions")
        BY <1>2, <1>8, <2>1, <2>2, <2>5 DEF LinesIn
      <3>2. PICK x \in Nat : ExecutedAt(j, x, r.action) /\ Reaches(j, x, r.state, now)
        BY <2>2 DEF Resolved
      <3>3. x = m
        BY <1>4, <2>3, <3>1, <3>2 DEF ExecutedOnce
      <3>4. PICK fate \in Acts!TerminalStates :
              FateIs(j, j["actions"][m], now, fate) /\ RankOf(r.state) <= RankOf(fate)
        BY <3>2, <3>3 DEF Reaches
      <3>5. fate = line.state
        BY <1>4, <1>5, <3>4, OneFate
      <3>6. r.state # line.state /\ r.state \in Acts!TerminalStates
        BY <1>4, <1>6, <2>2, <3>1
      <3>7. RankOf(r.state) < RankOf(line.state)
        BY <1>5, <3>4, <3>5, <3>6, RankOrder DEF Acts!TerminalStates
      <3> QED
        BY <1>2, <2>1, <2>5, <3>7
    <2> QED
      BY <2>4, <2>5
  <1>9. \A i \in DOMAIN k["resolutions"] :
          \E n \in Nat : /\ ExecutedAt(k, n, k["resolutions"][i].action)
                         /\ Reaches(k, n, k["resolutions"][i].state, now)
    BY <1>2, <1>6, <1>7
  <1> QED
    BY <1>8, <1>9 DEF Resolved

---------------------------------------------------------------------------
(* The action journal: a good file stays good. *)

LEMMA GoodLater ==
  ASSUME NEW j, Sound(j), NEW now \in Nat, NEW later \in Nat, now <= later, Good(j, now)
  PROVE  Good(j, later)
  <1>1. Grown(j, j)
    BY DEF Grown
  <1> QED
    BY <1>1, CappedLater, ResolvedLater DEF Good

\* The conversations are those of the intent lines.
LEMMA SameIntents ==
  ASSUME NEW j, NEW k, k["intents"] = j["intents"], NEW now, Capped(j, now), Fresh(j)
  PROVE  Capped(k, now) /\ Fresh(k)
  <1>1. OpenIn(k, now) = OpenIn(j, now)
    BY DEF OpenIn
  <1> QED
    BY <1>1 DEF Capped, Fresh

LEMMA GoodPlus ==
  ASSUME NEW j, Sound(j), NEW now \in Nat, Good(j, now),
         NEW kind \in Acts!Kinds, NEW line \in LinesOf[kind],
         kind = "events" =>
           \A e \in LinesIn(j, "events") : ~(e.action = line.action /\ e.uri = line.uri),
         kind = "intents" => Fits(j, line, now),
         kind = "resolutions" => Tells(j, line, now),
         NEW k, k = Plus(j, kind, line)
  PROVE  Good(k, now)
  <1>1. /\ \A other \in Acts!Kinds : other # kind => k[other] = j[other]
        /\ Len(j[kind]) \in Nat /\ DOMAIN j[kind] = 1..Len(j[kind])
        /\ DOMAIN k[kind] = DOMAIN j[kind] \cup {Len(j[kind]) + 1}
        /\ \A i \in DOMAIN j[kind] : k[kind][i] = j[kind][i]
        /\ k[kind][Len(j[kind]) + 1] = line
    BY PlusLine
  <1>2. Unique(k)
    <2>1. CASE kind # "events"
      <3>1. k["events"] = j["events"]
        BY <1>1, <2>1 DEF Acts!Kinds
      <3> QED
        BY <3>1 DEF Good, Unique
    <2>2. CASE kind = "events"
      <3>1. \A i \in DOMAIN j["events"] :
              ~(j["events"][i].action = line.action /\ j["events"][i].uri = line.uri)
        BY <2>2 DEF LinesIn
      <3> QED
        BY <1>1, <2>2, <3>1 DEF Good, Unique
    <2> QED
      BY <2>1, <2>2
  <1>3. Capped(k, now) /\ Fresh(k)
    <2>1. CASE kind # "intents"
      <3>1. k["intents"] = j["intents"]
        BY <1>1, <2>1 DEF Acts!Kinds
      <3> QED
        BY <3>1, SameIntents DEF Good
    <2>2. CASE kind = "intents"
      <3>1. line \in IntentLines /\ k = Plus(j, "intents", line) /\ Fits(j, line, now)
        BY <2>2 DEF LinesOf
      <3> QED
        BY <3>1, CappedIntent, FreshIntent DEF Good
    <2> QED
      BY <2>1, <2>2
  <1>4. Resolved(k, now)
    <2>1. CASE kind # "resolutions"
      <3>1. k["resolutions"] = j["resolutions"]
        BY <1>1, <2>1 DEF Acts!Kinds
      <3>2. Grown(j, k)
        BY PlusGrown
      <3> QED
        BY <3>1, <3>2, ResolvedLater DEF Good
    <2>2. CASE kind = "resolutions"
      <3>1. line \in ResolutionLines /\ k = Plus(j, "resolutions", line) /\ Tells(j, line, now)
        BY <2>2 DEF LinesOf
      <3> QED
        BY <3>1, ResolvedPlus DEF Good
    <2> QED
      BY <2>1, <2>2
  <1> QED
    BY <1>2, <1>3, <1>4 DEF Good

---------------------------------------------------------------------------
(* The action journal: the journal, the disk and a repair under way. *)

Untouched == UNCHANGED <<jn_journal, jn_disk, jn_repair, jn_lost>>

Appends == UNCHANGED <<jn_repair, jn_lost>> /\ \E kind \in Acts!Kinds : Adds(kind)

\* What a step does to the files.
LEMMA FileSteps ==
  ASSUME JournalTyped, Acts!Next
  PROVE  \/ Untouched \/ Appends
         \/ \E line \in ActionLines : Acts!PublishRepaired(line) \/ Acts!PublishOverrun(line)
         \/ Acts!ReadTail \/ Acts!Stop \/ Acts!PowerCut
  <1>0. {"actions", "events", "resolutions", "intents", "valence"} = Acts!Kinds
    BY DEF Acts!Kinds
  <1>1. CASE Acts!Start
    BY <1>1 DEF Acts!Start, Untouched
  <1>2. CASE Perceives
    <2>1. Acts!Checkpoint => Untouched
      BY DEF Acts!Checkpoint, Untouched
    <2>2. \A r \in Citations : Acts!process_observation(r) => Untouched
      BY DEF Acts!process_observation, Untouched
    <2> QED
      BY <1>2, <2>1, <2>2 DEF Perceives
  <1>3. CASE Acts!Link
    <2>1. UNCHANGED <<jn_repair, jn_lost>>
      BY <1>3 DEF Acts!Link
    <2>2. \/ UNCHANGED <<jn_journal, jn_tail, jn_disk>>
          \/ \E line \in EventLines : Acts!append_line("events", line)
      BY <1>3, LinkEffect, Zenon
    <2> QED
      BY <1>0, <2>1, <2>2 DEF Untouched, Appends, Adds, LinesOf
  <1>4. CASE MovesOn
    BY <1>4 DEF MovesOn, Acts!BeginCycle, Acts!Goto, Untouched
  <1>5. CASE Attempt
    <2>1. \A line \in ActionLines : Acts!append_line("actions", line) => Adds("actions")
      BY DEF Adds, LinesOf
    <2> QED
      BY <1>0, <1>5, <2>1, AttemptEffect DEF Appends
  <1>6. CASE Sweeps
    <2>1. PICK id \in Acts!Threads : Acts!Sweep(id)
      BY <1>6 DEF Sweeps
    <2>2. UNCHANGED <<jn_repair, jn_lost>>
      BY <2>1 DEF Acts!Sweep
    <2>3. Adds("intents")
      BY <2>1, SweepEffect DEF Adds, LinesOf
    <2> QED
      BY <1>0, <2>2, <2>3 DEF Appends
  <1>7. CASE Resolves
    <2>1. PICK line \in Acts!Unresolved(jn_clock) : Acts!Resolve(line) \/ Acts!ResolveCommand(line)
      BY <1>7 DEF Resolves
    <2>2. UNCHANGED <<jn_repair, jn_lost>> /\ Acts!append_line("resolutions", line)
      BY <2>1 DEF Acts!Resolve, Acts!ResolveCommand
    <2>3. Adds("resolutions")
      BY <2>2, UnresolvedTyped DEF Adds, LinesOf
    <2> QED
      BY <1>0, <2>2, <2>3 DEF Appends
  <1>8. CASE Proposes
    BY <1>8 DEF Proposes, Acts!ProposePost, Acts!ProposeReply, Untouched
  <1>9. CASE Acts!RecordIntent
    <2>1. UNCHANGED <<jn_repair, jn_lost>>
      BY <1>9 DEF Acts!RecordIntent
    <2>2. UNCHANGED <<jn_journal, jn_disk>> \/ Adds("intents")
      BY <1>9, RecordEffect, IntentsAppended DEF Adds, LinesOf
    <2> QED
      BY <1>0, <2>1, <2>2 DEF Untouched, Appends
  <1>10. CASE Maps
    <2>1. CASE Acts!MapBegin \/ Acts!MapSave \/ Acts!Rebuild
      BY <2>1 DEF Acts!MapBegin, Acts!MapSave, Acts!Rebuild, Untouched
    <2>2. ASSUME NEW line, Acts!MapUpdate(line)
          PROVE  UNCHANGED <<jn_repair, jn_lost>> /\ Adds("valence")
      BY <2>2, MapUpdateEffect DEF Adds, LinesOf
    <2> QED
      BY <1>0, <1>10, <2>1, <2>2 DEF Maps, Appends
  <1>11. CASE Acts!World /\ ~Acts!Stop /\ ~Acts!PowerCut
    BY <1>11 DEF Acts!World, Acts!Post, Acts!Edit, Acts!Tick, Untouched
  <1> QED
    BY <1>1, <1>2, <1>3, <1>4, <1>5, <1>6, <1>7, <1>8, <1>9, <1>10, <1>11, JournalSteps
       DEF Acts!World

\* What a step leaves on the disk and in front of a repair.
LEMMA CopiesEffect ==
  ASSUME JournalTyped, CopiesTyped, Acts!Next
  PROVE  /\ \/ jn_disk' \in {jn_disk, jn_journal, jn_journal'}
            \/ jn_repair # None /\ jn_disk' = jn_repair
         /\ jn_repair' \in {None, jn_repair, jn_journal}
  <1>1. CASE Untouched
    BY <1>1 DEF Untouched
  <1>2. CASE Appends
    <2>1. PICK kind \in Acts!Kinds : Adds(kind)
      BY <1>2 DEF Appends
    <2>2. PICK line : Acts!append_line(kind, line)
      BY <2>1 DEF Adds
    <2> QED
      BY <1>2, <2>2 DEF Appends, Acts!append_line, Acts!WriteBack
  <1>3. ASSUME NEW line \in ActionLines, Acts!PublishRepaired(line)
        PROVE  /\ \/ jn_disk' \in {jn_disk, jn_journal, jn_journal'}
                  \/ jn_repair # None /\ jn_disk' = jn_repair
               /\ jn_repair' = None
    BY <1>3, RepairedFile
  <1>4. ASSUME NEW line \in ActionLines, Acts!PublishOverrun(line)
        PROVE  jn_disk' = jn_disk /\ jn_repair' = jn_repair
    BY <1>4 DEF Acts!PublishOverrun
  <1>5. CASE Acts!ReadTail
    BY <1>5 DEF Acts!ReadTail
  <1>6. CASE Acts!Stop
    BY <1>6 DEF Acts!Stop
  <1>7. CASE Acts!PowerCut
    BY <1>7 DEF Acts!PowerCut
  <1> QED
    BY <1>1, <1>2, <1>3, <1>4, <1>5, <1>6, <1>7, FileSteps

\* What a step does to what was lost: nothing, or it is what the file lost.
LEMMA LostEffect ==
  ASSUME JournalTyped, CopiesTyped, Acts!Next
  PROVE  \/ /\ UNCHANGED jn_lost
            /\ \/ UNCHANGED jn_journal
               \/ \E kind \in Acts!Kinds : \E line \in LinesOf[kind] :
                    jn_journal' = Plus(jn_journal, kind, line)
         \/ Acts!Cut(jn_journal')
         \/ /\ UNCHANGED jn_journal
            /\ \E more : jn_lost' = [jn_lost EXCEPT !.cut = TRUE, !.actions = more]
  <1>1. CASE Untouched
    BY <1>1 DEF Untouched
  <1>2. CASE Appends
    <2>1. PICK kind \in Acts!Kinds : Adds(kind)
      BY <1>2 DEF Appends
    <2>2. PICK line \in LinesOf[kind] : Acts!append_line(kind, line)
      BY <2>1 DEF Adds
    <2>3. jn_journal' = Plus(jn_journal, kind, line)
      BY <2>2 DEF Acts!append_line, Plus
    <2> QED
      BY <1>2, <2>3 DEF Appends
  <1>3. ASSUME NEW line \in ActionLines, Acts!PublishRepaired(line)
        PROVE  \/ UNCHANGED jn_lost /\ jn_journal' = Plus(jn_journal, "actions", line)
               \/ Acts!Cut(jn_journal')
    BY <1>3, RepairedFile DEF Acts!PublishRepaired
  <1>4. ASSUME NEW line \in ActionLines, Acts!PublishOverrun(line)
        PROVE  /\ UNCHANGED jn_journal
               /\ \E more : jn_lost' = [jn_lost EXCEPT !.cut = TRUE, !.actions = more]
    BY <1>4 DEF Acts!PublishOverrun
  <1>5. CASE Acts!ReadTail
    BY <1>5 DEF Acts!ReadTail
  <1>6. CASE Acts!Stop
    BY <1>6 DEF Acts!Stop
  <1>7. CASE Acts!PowerCut
    BY <1>7 DEF Acts!PowerCut, Acts!Cut
  <1>8. "actions" \in Acts!Kinds /\ ActionLines = LinesOf["actions"]
    BY DEF Acts!Kinds, LinesOf
  <1> QED
    BY <1>1, <1>2, <1>3, <1>4, <1>5, <1>6, <1>7, <1>8, FileSteps

\* The copies stay sound.
LEMMA CopiesStep ==
  ASSUME JournalTyped, CopiesTyped, Acts!Next
  PROVE  CopiesTyped'
  <1>1. Sound(jn_journal) /\ Sound(jn_journal')
    BY JournalStepTyped, FileSound, FileSoundLater DEF JournalTyped
  <1>2. PICK d, r : d = jn_disk' /\ r = jn_repair'
    OBVIOUS
  <1>3. Sound(d) /\ (r # None => Sound(r))
    BY <1>1, <1>2, CopiesEffect DEF CopiesTyped
  <1>4. Sound(jn_disk)' /\ (jn_repair' # None => Sound(jn_repair)')
    BY <1>2, <1>3 DEF Sound
  <1>5. jn_lost' = [cut |-> jn_lost'.cut, actions |-> jn_lost'.actions,
                    valence |-> jn_lost'.valence]
    <2>1. CASE UNCHANGED jn_lost
      BY <2>1 DEF CopiesTyped
    <2>2. CASE Acts!Cut(jn_journal')
      BY <2>2 DEF Acts!Cut
    <2>3. ASSUME NEW more, jn_lost' = [jn_lost EXCEPT !.cut = TRUE, !.actions = more]
          PROVE  jn_lost' = [cut |-> jn_lost'.cut, actions |-> jn_lost'.actions,
                             valence |-> jn_lost'.valence]
      BY <2>3 DEF CopiesTyped
    <2> QED
      BY <2>1, <2>2, <2>3, LostEffect
  <1> QED
    BY <1>4, <1>5 DEF CopiesTyped

\* That lines were cut off is not forgotten.
LEMMA CutStays ==
  ASSUME JournalTyped, CopiesTyped, Acts!Next, jn_lost.cut
  PROVE  jn_lost'.cut
  <1>1. CASE Acts!Cut(jn_journal')
    BY <1>1 DEF Acts!Cut
  <1>2. ASSUME NEW more, jn_lost' = [jn_lost EXCEPT !.cut = TRUE, !.actions = more]
        PROVE  jn_lost'.cut
    BY <1>2 DEF CopiesTyped
  <1> QED
    BY <1>1, <1>2, LostEffect

---------------------------------------------------------------------------
(* The action journal: events. *)

\* The daemon's copy of the journal is behind in nothing that matters to a link:
\* its actions were executed, and it knows every event, those in front of a repair
\* included.
Linked ==
  /\ jn_lost.cut \/ \A a \in jn_daemon.actions : Acts!Executed(a) # {}
  /\ jn_daemon.pc # "down" =>
       \A e \in LinesIn(jn_journal, "events") : <<e.action, e.uri>> \in jn_daemon.events
  /\ \A e \in LinesIn(jn_journal, "events") : jn_lost.cut \/ Acts!Executed(e.action) # {}
  /\ jn_repair # None => LinesIn(jn_repair, "events") \subseteq LinesIn(jn_journal, "events")

\* What was executed stays executed.
LEMMA ExecutedGrows ==
  ASSUME JournalTyped, CopiesTyped, Acts!Next, ~CutOff, NEW a, Acts!Executed(a) # {}
  PROVE  Acts!Executed(a)' # {}
  <1>1. Acts!Lines("actions") \subseteq Acts!Lines("actions")'
    BY LinesGrow DEF Acts!Kinds
  <1> QED
    BY <1>1 DEF Acts!Executed

\* Steps that add no event.
LEMMA EventsUnchanged ==
  ASSUME JournalTyped, CopiesTyped, Acts!Next, ~Acts!Link, ~CutOff
  PROVE  jn_journal'["events"] = jn_journal["events"]
  <1>0. FileTyped
    BY DEF JournalTyped
  <1>1. ASSUME NEW k \in Acts!Kinds \ {"events"}, NEW line \in LinesOf[k],
               Acts!append_line(k, line)
        PROVE  jn_journal'["events"] = jn_journal["events"]
    BY <1>0, <1>1, AppendLine DEF Acts!Kinds
  <1>2. UNCHANGED jn_journal \/ \E k \in Acts!Kinds \ {"events"} : Adds(k)
    <2>1. \A line \in Acts!Unresolved(jn_clock) : line \in LinesOf["resolutions"]
      BY UnresolvedTyped DEF LinesOf
    <2>2. RecordsIntent => Adds("intents")
      BY IntentsAppended DEF RecordsIntent, Adds, LinesOf
    <2>3. \A id : SweptLine(id) \in IntentLines /\ Acts!append_line("intents", SweptLine(id)) =>
                    Adds("intents")
      BY DEF Adds, LinesOf
    <2>4. (\E line \in Acts!Unresolved(jn_clock) : Acts!append_line("resolutions", line)) =>
            Adds("resolutions")
      BY <2>1 DEF Adds
    <2>5. {"actions", "resolutions", "intents", "valence"} = Acts!Kinds \ {"events"}
      BY DEF Acts!Kinds
    <2> QED
      BY <2>2, <2>3, <2>4, <2>5, JournalEffect
  <1> QED
    BY <1>1, <1>2 DEF Adds

\* The daemon's copy changes when the daemon starts, links or stops.
LEMMA CopyUnchanged ==
  ASSUME JournalTyped, Acts!Next, ~Acts!Link, ~Acts!Start, jn_daemon' # Acts!Down
  PROVE  /\ jn_daemon'.actions = jn_daemon.actions /\ jn_daemon'.events = jn_daemon.events
         /\ jn_daemon.pc = "down" => jn_daemon'.pc = "down"
  <1>0. jn_daemon \in DaemonType /\ DaemonTyped
    BY DEF JournalTyped, DaemonTyped
  <1>1. CASE Perceives
    <2>1. CASE Acts!Checkpoint
      BY <1>0, <2>1 DEF DaemonType, Acts!Checkpoint
    <2>2. ASSUME NEW r \in Citations, Acts!process_observation(r)
          PROVE  /\ jn_daemon'.actions = jn_daemon.actions /\ jn_daemon'.events = jn_daemon.events
                 /\ jn_daemon.pc # "down"
      BY <1>0, <2>2 DEF DaemonType, Acts!process_observation
    <2> QED
      BY <1>1, <2>1, <2>2 DEF Perceives
  <1>2. CASE MovesOn
    <2>1. CASE Acts!BeginCycle
      <3>1. jn_spool \in SUBSET Actions /\ {} \in SUBSET Actions /\ jn_daemon.pc # "down"
        BY <2>1 DEF JournalTyped, StateTyped, Acts!BeginCycle
      <3>2. PICK entries \in SUBSET Actions : jn_daemon' = Acts!WithLeft(entries)
        BY <2>1, <3>1 DEF Acts!BeginCycle
      <3> QED
        BY <1>0, <3>1, <3>2, LeftTyped
    <2>2. ASSUME NEW from \in Places, NEW to \in Places, Acts!Goto(from, to)
          PROVE  /\ jn_daemon'.actions = jn_daemon.actions /\ jn_daemon'.events = jn_daemon.events
                 /\ jn_daemon.pc # "down"
      BY <1>0, <2>2 DEF DaemonType, Places, Acts!Goto
    <2> QED
      BY <1>2, <2>1, <2>2 DEF MovesOn
  <1>3. CASE Attempt
    <2>1. PICK a \in Actions, outcome \in Acts!Outcomes :
            Acts!Drain(a, outcome) \/ Acts!Execute(a, outcome) \/ Acts!Publish(a, outcome)
      BY <1>3 DEF Attempt
    <2>2. CASE Acts!Drain(a, outcome)
      <3>1. jn_daemon.left \ {a} \in SUBSET Actions /\ {} \in SUBSET Actions
        BY <1>0 DEF DaemonTyped, DaemonType
      <3>2. PICK entries \in SUBSET Actions : jn_daemon' = Acts!WithLeft(entries)
        BY <2>2, <3>1 DEF Acts!Drain
      <3>3. jn_daemon.pc # "down"
        BY <2>2 DEF Acts!Drain
      <3> QED
        BY <1>0, <3>2, <3>3, LeftTyped
    <2>3. CASE Acts!Execute(a, outcome)
      BY <1>0, <2>3 DEF DaemonType, Acts!Execute
    <2>4. CASE Acts!Publish(a, outcome)
      BY <2>4 DEF Acts!Publish
    <2> QED
      BY <2>1, <2>2, <2>3, <2>4
  <1>4. CASE Sweeps
    BY <1>4 DEF Sweeps, Acts!Sweep
  <1>5. CASE Resolves
    BY <1>5 DEF Resolves, Acts!Resolve, Acts!ResolveCommand
  <1>6. CASE Proposes
    BY <1>0, <1>6 DEF DaemonType, Proposes, Acts!ProposePost, Acts!ProposeReply
  <1>7. CASE Acts!RecordIntent
    <2>1. jn_daemon' = [jn_daemon EXCEPT !.pc = "perceive", !.act = None] /\ jn_daemon.pc = "record"
      BY <1>7 DEF Acts!RecordIntent
    <2> QED
      BY <1>0, <2>1 DEF DaemonType
  <1>8. CASE Maps
    BY <1>8 DEF Maps, Acts!MapBegin, Acts!MapSave, Acts!Rebuild, Acts!MapUpdate
  <1>9. CASE Acts!World
    BY <1>9 DEF Acts!World, Acts!Post, Acts!Edit, Acts!Tick, Acts!Stop, Acts!PowerCut
  <1>10. CASE Acts!ReadTail
    BY <1>10 DEF Acts!ReadTail
  <1> QED
    BY <1>1, <1>2, <1>3, <1>4, <1>5, <1>6, <1>7, <1>8, <1>9, <1>10, JournalSteps

\* The copy that decides knows every event there is.
LEMMA LinkedStep ==
  ASSUME JournalTyped, CopiesTyped, Linked, Acts!Next
  PROVE  Linked'
  <1>0. FileTyped /\ jn_daemon \in DaemonType
    BY DEF JournalTyped, DaemonTyped
  <1>1. CASE CutOff
    <2>1. jn_lost'.cut /\ jn_repair' = None
      BY <1>1 DEF CutOff
    <2>2. CASE jn_daemon' = Acts!Down
      BY <2>1, <2>2 DEF Linked, Acts!Down
    <2>3. ASSUME jn_repair # None, UNCHANGED jn_daemon,
                 NEW line \in ActionLines, jn_journal' = Plus(jn_repair, "actions", line)
          PROVE  Linked'
      <3>1. jn_journal'["events"] = jn_repair["events"]
        BY <2>3, PlusLine DEF CopiesTyped, Acts!Kinds, LinesOf
      <3>2. LinesIn(jn_journal, "events")' = LinesIn(jn_repair, "events")
        BY <3>1 DEF LinesIn
      <3>3. jn_daemon'.pc # "down" =>
              \A e \in LinesIn(jn_journal, "events")' : <<e.action, e.uri>> \in jn_daemon'.events
        BY <2>3, <3>2 DEF Linked
      <3> QED
        BY <2>1, <3>3 DEF Linked
    <2> QED
      BY <1>1, <2>2, <2>3 DEF CutOff
  <1>2. CASE ~CutOff
    <2>1. LinesIn(jn_journal, "events") \subseteq LinesIn(jn_journal, "events")'
      <3>1. Acts!Lines("events") \subseteq Acts!Lines("events")'
        BY <1>2, LinesGrow DEF Acts!Kinds
      <3> QED
        BY <3>1 DEF Acts!Lines, LinesIn
    <2>2. \A a : jn_lost.cut \/ Acts!Executed(a) # {} => jn_lost'.cut \/ Acts!Executed(a)' # {}
      BY <1>2, ExecutedGrows, CutStays
    <2>3. jn_repair' # None =>
            LinesIn(jn_repair, "events")' \subseteq LinesIn(jn_journal, "events")'
      <3>1. PICK r : r = jn_repair'
        OBVIOUS
      <3>2. r # None => LinesIn(r, "events") \subseteq LinesIn(jn_journal, "events")
        BY <3>1, CopiesEffect DEF Linked
      <3>3. LinesIn(jn_repair, "events")' = LinesIn(r, "events")
        BY <3>1 DEF LinesIn
      <3> QED
        BY <2>1, <3>1, <3>2, <3>3
    <2>4. CASE ~Acts!Link
      <3>1. LinesIn(jn_journal, "events")' = LinesIn(jn_journal, "events")
        BY <1>2, <2>4, EventsUnchanged DEF LinesIn
      <3>2. \A e \in LinesIn(jn_journal, "events")' :
              jn_lost'.cut \/ Acts!Executed(e.action)' # {}
        <4> SUFFICES ASSUME NEW e \in LinesIn(jn_journal, "events")
                     PROVE  jn_lost'.cut \/ Acts!Executed(e.action)' # {}
          BY <3>1
        <4>1. PICK a : a = e.action
          OBVIOUS
        <4>2. jn_lost'.cut \/ Acts!Executed(a)' # {}
          BY <2>2, <4>1 DEF Linked
        <4> QED
          BY <4>1, <4>2
      <3>3. CASE jn_daemon' = Acts!Down
        BY <2>3, <3>2, <3>3 DEF Linked, Acts!Down
      <3>4. CASE Acts!Start
        <4>1. /\ jn_daemon'.actions =
                   {l.id : l \in {x \in Acts!Lines("actions") : x.outcome = "executed"}}
              /\ jn_daemon'.events = {<<e.action, e.uri>> : e \in Acts!Lines("events")}
          BY <3>4 DEF Acts!Start, Acts!Down
        <4>2. \A a \in jn_daemon'.actions : Acts!Executed(a) # {}
          BY <4>1 DEF Acts!Executed
        <4>3. \A e \in LinesIn(jn_journal, "events")' : <<e.action, e.uri>> \in jn_daemon'.events
          BY <3>1, <4>1 DEF Acts!Lines, LinesIn
        <4> QED
          BY <2>2, <2>3, <3>2, <4>2, <4>3 DEF Linked
      <3>5. CASE jn_daemon' # Acts!Down /\ ~Acts!Start
        <4>1. /\ jn_daemon'.actions = jn_daemon.actions /\ jn_daemon'.events = jn_daemon.events
              /\ jn_daemon.pc = "down" => jn_daemon'.pc = "down"
          BY <2>4, <3>5, CopyUnchanged
        <4>2. jn_lost'.cut \/ \A a \in jn_daemon'.actions : Acts!Executed(a)' # {}
          BY <2>2, <4>1 DEF Linked
        <4>3. jn_daemon'.pc # "down" =>
                \A e \in LinesIn(jn_journal, "events")' : <<e.action, e.uri>> \in jn_daemon'.events
          BY <3>1, <4>1 DEF Linked
        <4> QED
          BY <2>3, <3>2, <4>2, <4>3 DEF Linked
      <3> QED
        BY <3>3, <3>4, <3>5
    <2>5. CASE Acts!Link
      <3>0. jn_daemon.pc = "link"
        BY <2>5 DEF Acts!Link
      <3>1. CASE /\ UNCHANGED <<jn_journal, jn_tail, jn_disk>>
                 /\ jn_daemon' = [jn_daemon EXCEPT !.pc = "checkpoint"]
        <4>1. jn_daemon'.actions = jn_daemon.actions /\ jn_daemon'.events = jn_daemon.events
          BY <1>0, <3>1 DEF DaemonType
        <4>2. LinesIn(jn_journal, "events")' = LinesIn(jn_journal, "events")
          BY <3>1 DEF LinesIn
        <4>3. \A a : Acts!Executed(a)' = Acts!Executed(a)
          BY <3>1 DEF Acts!Executed, Acts!Lines
        <4>4. UNCHANGED jn_lost
          BY <2>5 DEF Acts!Link
        <4> QED
          BY <2>3, <3>0, <4>1, <4>2, <4>3, <4>4 DEF Linked
      <3>2. ASSUME NEW a \in jn_daemon.actions, NEW line \in EventLines,
                   line.action = a, line.uri = jn_daemon.page,
                   Acts!append_line("events", line),
                   jn_daemon' = [jn_daemon EXCEPT !.pc = "checkpoint",
                                                  !.events = @ \cup {<<a, jn_daemon.page>>}]
            PROVE  Linked'
        <4>1. /\ jn_daemon'.actions = jn_daemon.actions
              /\ jn_daemon'.events = jn_daemon.events \cup {<<a, jn_daemon.page>>}
          BY <1>0, <3>2 DEF DaemonType
        <4>2. "events" \in Acts!Kinds /\ line \in LinesOf["events"]
          BY DEF Acts!Kinds, LinesOf
        <4>3. LinesIn(jn_journal, "events")' = LinesIn(jn_journal, "events") \cup {line}
          BY <1>0, <3>2, <4>2, AppendedLines DEF Acts!Lines, LinesIn
        <4>4. jn_lost'.cut \/ \A b \in jn_daemon'.actions : Acts!Executed(b)' # {}
          BY <2>2, <4>1 DEF Linked
        <4>5. \A e \in LinesIn(jn_journal, "events")' : <<e.action, e.uri>> \in jn_daemon'.events
          BY <3>0, <3>2, <4>1, <4>3 DEF Linked
        <4>6. ASSUME NEW e \in LinesIn(jn_journal, "events")'
              PROVE  jn_lost'.cut \/ Acts!Executed(e.action)' # {}
          <5>1. PICK b : b = e.action
            OBVIOUS
          <5>2. CASE e = line
            <6>1. jn_lost'.cut \/ Acts!Executed(b)' # {}
              BY <3>2, <4>1, <4>4, <5>1, <5>2
            <6> QED
              BY <5>1, <6>1
          <5>3. CASE e \in LinesIn(jn_journal, "events")
            <6>1. jn_lost'.cut \/ Acts!Executed(b)' # {}
              BY <2>2, <5>1, <5>3 DEF Linked
            <6> QED
              BY <5>1, <6>1
          <5> QED
            BY <4>3, <5>2, <5>3
        <4> QED
          BY <2>3, <4>4, <4>5, <4>6 DEF Linked
      <3> QED
        BY <2>5, <3>1, <3>2, LinkEffect, Zenon
    <2> QED
      BY <2>4, <2>5
  <1> QED
    BY <1>1, <1>2

---------------------------------------------------------------------------
(* The action journal: valence. *)

\* What the model learned, and what a running `journal map' is teaching it, is
\* in the journal or was cut off.
Replayable ==
  /\ Acts!ValenceIsReplayable
  /\ jn_mapper # None => jn_mapper.learned \subseteq Acts!ValenceEvents \cup jn_lost.valence

\* Only `journal map', `rebuild' and the end of a process touch the model or the
\* mapper.
LEMMA ModelUnchanged ==
  ASSUME JournalTyped, Acts!Next, ~Maps
  PROVE  UNCHANGED jn_model /\ (jn_mapper' = None \/ UNCHANGED jn_mapper)
  <1>1. CASE Acts!Start
    BY <1>1 DEF Acts!Start
  <1>2. CASE Perceives
    <2>1. Acts!Checkpoint => UNCHANGED <<jn_model, jn_mapper>>
      BY DEF Acts!Checkpoint
    <2>2. \A r \in Citations : Acts!process_observation(r) => UNCHANGED <<jn_model, jn_mapper>>
      BY DEF Acts!process_observation
    <2> QED
      BY <1>2, <2>1, <2>2 DEF Perceives
  <1>3. CASE Acts!Link
    BY <1>3 DEF Acts!Link
  <1>4. CASE MovesOn
    BY <1>4 DEF MovesOn, Acts!BeginCycle, Acts!Goto
  <1>5. CASE Attempt
    BY <1>5 DEF Attempt, Acts!Drain, Acts!Execute, Acts!Publish
  <1>6. CASE Sweeps
    BY <1>6 DEF Sweeps, Acts!Sweep
  <1>7. CASE Resolves
    BY <1>7 DEF Resolves, Acts!Resolve, Acts!ResolveCommand
  <1>8. CASE Proposes
    BY <1>8 DEF Proposes, Acts!ProposePost, Acts!ProposeReply
  <1>9. CASE Acts!RecordIntent
    BY <1>9 DEF Acts!RecordIntent
  <1>10. CASE Acts!World
    BY <1>10 DEF Acts!World, Acts!Post, Acts!Edit, Acts!Tick, Acts!Stop, Acts!PowerCut
  <1>11. CASE Acts!ReadTail
    BY <1>11 DEF Acts!ReadTail
  <1> QED
    BY <1>1, <1>2, <1>3, <1>4, <1>5, <1>6, <1>7, <1>8, <1>9, <1>10, <1>11, JournalSteps

ValenceIn(j) == {<<l.source, l.provenance>> : l \in LinesIn(j, "valence")}

LEMMA ValenceSaid ==
  /\ \A j : Acts!Said(j).valence = ValenceIn(j)
  /\ Acts!ValenceEvents = ValenceIn(jn_journal)
  <1>1. \A j : Acts!Said(j).valence = ValenceIn(j)
    BY DEF Acts!Said, ValenceIn, LinesIn
  <1> QED
    BY <1>1 DEF Acts!ValenceEvents

LEMMA ValenceSaidLater == Acts!ValenceEvents' = ValenceIn(jn_journal')
  <1>1. (Acts!ValenceEvents = ValenceIn(jn_journal))'
    BY ValenceSaid, PTL
  <1>2. ValenceIn(jn_journal)' = ValenceIn(jn_journal')
    BY DEF ValenceIn, LinesIn
  <1> QED
    BY <1>1, <1>2

\* What was said is in the journal or among what it lost.
LEMMA ValenceKept ==
  ASSUME JournalTyped, CopiesTyped, Acts!Next
  PROVE  Acts!ValenceEvents \cup jn_lost.valence
           \subseteq Acts!ValenceEvents' \cup jn_lost'.valence
  <1>1. CASE UNCHANGED jn_lost /\ UNCHANGED jn_journal
    BY <1>1, ValenceSaid, ValenceSaidLater
  <1>2. ASSUME UNCHANGED jn_lost, NEW kind \in Acts!Kinds, NEW line \in LinesOf[kind],
               jn_journal' = Plus(jn_journal, kind, line)
        PROVE  Acts!ValenceEvents \subseteq Acts!ValenceEvents'
    <2>1. Sound(jn_journal)
      BY FileSound DEF JournalTyped
    <2>2. Grown(jn_journal, jn_journal')
      BY <1>2, <2>1, PlusGrown
    <2>3. ValenceIn(jn_journal) \subseteq ValenceIn(jn_journal')
      BY <2>2 DEF Grown, ValenceIn
    <2> QED
      BY <2>3, ValenceSaid, ValenceSaidLater
  <1>3. CASE Acts!Cut(jn_journal')
    <2>1. jn_lost'.valence =
            jn_lost.valence \cup (Acts!ValenceEvents \ Acts!Said(jn_journal').valence)
      BY <1>3 DEF Acts!Cut
    <2> QED
      BY <2>1, ValenceSaid, ValenceSaidLater
  <1>4. ASSUME UNCHANGED jn_journal,
               NEW more, jn_lost' = [jn_lost EXCEPT !.cut = TRUE, !.actions = more]
        PROVE  Acts!ValenceEvents' = Acts!ValenceEvents /\ jn_lost'.valence = jn_lost.valence
    <2>1. jn_lost'.valence = jn_lost.valence
      BY <1>4 DEF CopiesTyped
    <2> QED
      BY <1>4, <2>1, ValenceSaid, ValenceSaidLater
  <1> QED
    BY <1>1, <1>2, <1>3, <1>4, LostEffect

\* The line comes before the model that holds its update.
LEMMA ReplayableStep ==
  ASSUME JournalTyped, CopiesTyped, Replayable, Acts!Next
  PROVE  Replayable'
  <1>1. Acts!ValenceEvents \cup jn_lost.valence
          \subseteq Acts!ValenceEvents' \cup jn_lost'.valence
    BY ValenceKept
  <1>2. CASE ~Maps
    <2>1. UNCHANGED jn_model /\ (jn_mapper' = None \/ UNCHANGED jn_mapper)
      BY <1>2, ModelUnchanged
    <2> QED
      BY <1>1, <2>1 DEF Replayable, Acts!ValenceIsReplayable
  <1>3. CASE Acts!MapBegin
    <2>1. jn_mapper'.learned = jn_model /\ UNCHANGED jn_model
      BY <1>3 DEF Acts!MapBegin
    <2> QED
      BY <1>1, <2>1 DEF Replayable, Acts!ValenceIsReplayable
  <1>4. CASE Acts!MapSave
    BY <1>1, <1>4 DEF Replayable, Acts!ValenceIsReplayable, Acts!MapSave
  <1>5. CASE Acts!Rebuild
    BY <1>1, <1>5 DEF Replayable, Acts!ValenceIsReplayable, Acts!Rebuild
  <1>6. ASSUME NEW line, Acts!MapUpdate(line)
        PROVE  Replayable'
    <2>1. PICK rule \in Nat, l \in ValenceLines :
            /\ l.source = line.id /\ l.provenance = rule
            /\ Acts!append_line("valence", l)
            /\ jn_mapper # None
            /\ jn_mapper' = [jn_mapper EXCEPT !.learned = @ \cup {<<line.id, rule>>},
                                              !.applied = @ \cup {<<line.id, rule>>}]
            /\ UNCHANGED <<jn_clock, jn_root, jn_queue, jn_spool, jn_posted, jn_daemon, jn_model,
                           jn_repair, jn_lost>>
      BY <1>6, MapUpdateEffect
    <2>2. l \in LinesIn(jn_journal', "valence")
      <3>1. "valence" \in Acts!Kinds /\ l \in LinesOf["valence"]
        BY DEF Acts!Kinds, LinesOf
      <3>2. Acts!Lines("valence")' = Acts!Lines("valence") \cup {l}
        BY <2>1, <3>1, AppendedLines DEF JournalTyped
      <3> QED
        BY <3>2 DEF Acts!Lines, LinesIn
    <2>3. <<line.id, rule>> \in Acts!ValenceEvents'
      BY <2>1, <2>2, ValenceSaidLater DEF ValenceIn
    <2>4. jn_mapper'.learned = jn_mapper.learned \cup {<<line.id, rule>>}
      <3>1. jn_mapper = [learned |-> jn_mapper.learned, lines |-> jn_mapper.lines,
                         applied |-> jn_mapper.applied]
        BY <2>1 DEF JournalTyped, StateTyped
      <3> QED
        BY <2>1, <3>1
    <2> QED
      BY <1>1, <2>1, <2>3, <2>4 DEF Replayable, Acts!ValenceIsReplayable
  <1> QED
    BY <1>2, <1>3, <1>4, <1>5, <1>6 DEF Maps

---------------------------------------------------------------------------
(* The action journal: every file stays good. *)

\* Who is open in the journal.
LEMMA OpenIs ==
  ASSUME FileTyped
  PROVE  /\ OpenIn(jn_journal, jn_clock) = Acts!active_intents(jn_clock)
         /\ \A id \in Acts!Threads : \E i \in DOMAIN jn_journal["intents"] :
              /\ IsLastOf(jn_journal["intents"], id, i)
              /\ Acts!latest_intent(id) = jn_journal["intents"][i]
  <1>1. ASSUME NEW id, NEW i, IsLastOf(jn_journal["intents"], id, i)
        PROVE  id \in Acts!Threads /\ Acts!latest_intent(id) = jn_journal["intents"][i]
    <2>1. IsLatest(id, i)
      BY <1>1 DEF IsLatest, IsLastOf
    <2>2. jn_journal["intents"] \in Seq(IntentLines)
      BY DEF FileTyped, Acts!Kinds, LinesOf
    <2>3. i \in Nat
      BY <2>1, <2>2 DEF IsLatest
    <2> QED
      BY <2>1, <2>3, LatestIntent DEF IsLatest, Acts!Threads, Acts!Lines
  <1>2. \A id \in Acts!Threads : \E i \in DOMAIN jn_journal["intents"] :
          IsLastOf(jn_journal["intents"], id, i)
    BY DEF FileTyped, IsLatest, IsLastOf
  <1>3. \A id : id \in OpenIn(jn_journal, jn_clock) <=> id \in Acts!active_intents(jn_clock)
    BY <1>1, <1>2, OpenMember DEF Acts!active_intents
  <1> QED
    BY <1>1, <1>2, <1>3

\* What a sweep and a record of an intent append fits what was there.
LEMMA SweptFits ==
  ASSUME JournalTyped, NEW id \in Acts!Sweepable(jn_clock), SweptLine(id) \in IntentLines
  PROVE  Fits(jn_journal, SweptLine(id), jn_clock)
  <1>1. /\ id \in Acts!Threads /\ Acts!latest_intent(id).state = "open"
        /\ Acts!derive_intent_state(Acts!latest_intent(id), jn_clock) # "open"
    BY DEF Acts!Sweepable
  <1>2. PICK line \in IntentLines : line = SweptLine(id)
    OBVIOUS
  <1>3. line.id = id /\ line.state # "open" /\ line.expires = Acts!latest_intent(id).expires
    BY <1>1, <1>2 DEF SweptLine, Acts!IntentLine
  <1>4. Acts!derive_intent_state(line, jn_clock) # "open"
    BY <1>3, OpenIntent DEF JournalTyped, StateTyped
  <1>5. Fits(jn_journal, line, jn_clock)
    BY <1>1, <1>3, <1>4, OpenIs DEF Fits, JournalTyped
  <1> QED
    BY <1>2, <1>5

LEMMA RecordedFits ==
  ASSUME JournalTyped, RecordsIntent
  PROVE  \E line \in IntentLines :
           Fits(jn_journal, line, jn_clock) /\ jn_journal' = Plus(jn_journal, "intents", line)
  <1>0. FileTyped /\ jn_clock \in Nat
    BY DEF JournalTyped, StateTyped
  <1>1. PICK id \in Actions, a \in Actions : Continues(id, a) \/ Opens(id, a)
    BY DEF RecordsIntent
  <1>2. CASE Continues(id, a)
    <2>1. PICK l : l = Acts!latest_intent(id)
      OBVIOUS
    <2>2. /\ id \in Acts!Threads /\ id \in Acts!active_intents(jn_clock)
          /\ Acts!derive_intent_state(l, jn_clock) = "open"
      BY <1>2, <2>1 DEF Continues, Acts!active_intents
    <2>3. l \in IntentLines
      BY <1>0, <2>1, <2>2, LatestTyped
    <2>4. l.state = "open"
      BY <1>0, <2>2, <2>3, OpenIntent
    <2>5. PICK line : line = Acts!IntentLine(id, l.actions \cup {a}, l.expires, "open")
      OBVIOUS
    <2>6. line \in IntentLines /\ line.id = id /\ line.expires = l.expires
      BY <2>3, <2>5 DEF IntentLines, Acts!IntentLine, Acts!IntentStates
    <2>7. Acts!append_line("intents", line)
      BY <1>2, <2>1, <2>5 DEF Continues
    <2>8. Fits(jn_journal, line, jn_clock)
      BY <1>0, <2>1, <2>2, <2>4, <2>6, OpenIs DEF Fits
    <2> QED
      BY <2>6, <2>7, <2>8 DEF Acts!append_line, Plus
  <1>3. CASE Opens(id, a)
    <2>1. PICK line : line = Acts!IntentLine(id, {a}, jn_clock + IntentWindow, "open")
      OBVIOUS
    <2>2. jn_clock + IntentWindow \in Nat
      BY <1>0, RecordsAssumption DEF Acts!JournalAssumption, Acts!intent_config_from_environment
    <2>3. line \in IntentLines /\ line.id = id /\ line.actions = {a}
      BY <2>1, <2>2 DEF IntentLines, Acts!IntentLine, Acts!IntentStates
    <2>4. Cardinality(line.actions) = 1
      BY <2>3, FS_Singleton
    <2>5. Acts!append_line("intents", line)
      BY <1>3, <2>1 DEF Opens
    <2>6. Fits(jn_journal, line, jn_clock)
      BY <1>0, <1>3, <2>3, <2>4, OpenIs DEF Fits, Opens
    <2> QED
      BY <2>3, <2>5, <2>6 DEF Acts!append_line, Plus
  <1> QED
    BY <1>1, <1>2, <1>3

\* A line the pass has still to append is true of an executed action line.
LEMMA UnresolvedTells ==
  ASSUME JournalTyped, NEW line \in Acts!Unresolved(jn_clock)
  PROVE  Tells(jn_journal, line, jn_clock)
  <1>1. PICK x \in Acts!Lines("actions") :
          /\ Acts!derive_expectation_state(x, jn_clock) \in Acts!TerminalStates
          /\ \A p \in Acts!Lines("resolutions") :
               p.action = x.id => p.state # Acts!derive_expectation_state(x, jn_clock)
          /\ line = Acts!ResolutionLine(x.id, Acts!derive_expectation_state(x, jn_clock))
    BY Zenon DEF Acts!Unresolved
  <1>2. line.action = x.id /\ line.state = Acts!derive_expectation_state(x, jn_clock)
    BY <1>1 DEF Acts!ResolutionLine
  <1>3. jn_journal["actions"] \in Seq(ActionLines)
    BY DEF JournalTyped, FileTyped, Acts!Kinds, LinesOf
  <1>4. PICK m \in DOMAIN jn_journal["actions"] : jn_journal["actions"][m] = x
    BY DEF Acts!Lines
  <1>5. m \in Nat /\ x \in ActionLines
    BY <1>3, <1>4
  <1>6. FateIs(jn_journal, x, jn_clock, line.state)
    <2>1. jn_clock \in Nat
      BY DEF JournalTyped, StateTyped
    <2> QED
      BY <1>2, <1>5, <2>1, Fate DEF Fates
  <1>7. x.outcome = "executed"
    BY <1>1, <1>2, <1>6 DEF FateIs, Awaited, Acts!TerminalStates
  <1>8. \A p \in LinesIn(jn_journal, "resolutions") :
          p.action = line.action => p.state # line.state
    BY <1>1, <1>2 DEF Acts!Lines, LinesIn
  <1> QED
    BY <1>2, <1>4, <1>5, <1>6, <1>7, <1>8 DEF ExecutedAt, Tells

\* What the journal, the disk and a repair hold is good.
AllGood ==
  /\ Good(jn_journal, jn_clock) /\ Good(jn_disk, jn_clock)
  /\ jn_repair # None => Good(jn_repair, jn_clock)

LEMMA JournalGood ==
  ASSUME JournalTyped, CopiesTyped, Linked, AllGood, Acts!Next
  PROVE  Good(jn_journal', jn_clock')
  <1>0. Sound(jn_journal) /\ Sound(jn_disk) /\ jn_clock \in Nat /\ FileTyped
        /\ Good(jn_journal, jn_clock) /\ Good(jn_disk, jn_clock)
    BY FileSound DEF JournalTyped, StateTyped, CopiesTyped, AllGood
  <1>1. CASE UNCHANGED jn_journal /\ jn_clock' \in {jn_clock, jn_clock + 1}
    <2>1. PICK now \in Nat : now = jn_clock' /\ jn_clock <= now
      BY <1>0, <1>1
    <2>2. Good(jn_journal, now)
      BY <1>0, <2>1, GoodLater
    <2> QED
      BY <1>1, <2>1, <2>2
  <1>2. ASSUME UNCHANGED jn_clock, NEW kind \in {"actions", "valence"}, Adds(kind)
        PROVE  Good(jn_journal', jn_clock')
    <2>1. PICK line \in LinesOf[kind] : Acts!append_line(kind, line)
      BY <1>2 DEF Adds
    <2>2. jn_journal' = Plus(jn_journal, kind, line) /\ kind \in Acts!Kinds
      BY <2>1 DEF Acts!append_line, Plus, Acts!Kinds
    <2>3. kind # "events" /\ kind # "intents" /\ kind # "resolutions"
      BY <1>2
    <2> QED
      BY <1>0, <1>2, <2>2, <2>3, GoodPlus
  <1>3. CASE UNCHANGED jn_clock /\ Acts!Link
    <2>1. ASSUME NEW a \in jn_daemon.actions, NEW line \in EventLines,
                 line.action = a, line.uri = jn_daemon.page,
                 <<a, jn_daemon.page>> \notin jn_daemon.events,
                 Acts!append_line("events", line)
          PROVE  Good(jn_journal', jn_clock')
      <3>1. jn_daemon.pc # "down"
        BY <1>3 DEF Acts!Link
      <3>2. \A e \in LinesIn(jn_journal, "events") : ~(e.action = line.action /\ e.uri = line.uri)
        BY <2>1, <3>1 DEF Linked
      <3>3. jn_journal' = Plus(jn_journal, "events", line)
        BY <2>1 DEF Acts!append_line, Plus
      <3>4. "events" \in Acts!Kinds /\ line \in LinesOf["events"]
        BY DEF Acts!Kinds, LinesOf
      <3> QED
        BY <1>0, <1>3, <3>2, <3>3, <3>4, GoodPlus
    <2>2. ASSUME UNCHANGED jn_journal PROVE Good(jn_journal', jn_clock')
      BY <1>0, <1>3, <2>2
    <2> QED
      BY <1>3, <2>1, <2>2, LinkEffect, Zenon
  <1>4. ASSUME UNCHANGED jn_clock,
               NEW line \in Acts!Unresolved(jn_clock), Acts!append_line("resolutions", line)
        PROVE  Good(jn_journal', jn_clock')
    <2>1. "resolutions" \in Acts!Kinds /\ line \in LinesOf["resolutions"]
      BY UnresolvedTyped DEF Acts!Kinds, LinesOf
    <2>2. jn_journal' = Plus(jn_journal, "resolutions", line)
      BY <1>4 DEF Acts!append_line, Plus
    <2>3. Tells(jn_journal, line, jn_clock)
      BY UnresolvedTells
    <2> QED
      BY <1>0, <1>4, <2>1, <2>2, <2>3, GoodPlus
  <1>5. ASSUME UNCHANGED jn_clock, NEW line \in IntentLines, Fits(jn_journal, line, jn_clock),
               jn_journal' = Plus(jn_journal, "intents", line)
        PROVE  Good(jn_journal', jn_clock')
    <2>1. "intents" \in Acts!Kinds /\ line \in LinesOf["intents"]
      BY DEF Acts!Kinds, LinesOf
    <2> QED
      BY <1>0, <1>5, <2>1, GoodPlus
  <1>6. ASSUME UNCHANGED jn_clock, NEW id \in Acts!Sweepable(jn_clock),
               SweptLine(id) \in IntentLines, Acts!append_line("intents", SweptLine(id))
        PROVE  Good(jn_journal', jn_clock')
    <2>1. jn_journal' = Plus(jn_journal, "intents", SweptLine(id))
      BY <1>6 DEF Acts!append_line, Plus
    <2> QED
      BY <1>5, <1>6, <2>1, SweptFits
  <1>7. CASE UNCHANGED jn_clock /\ RecordsIntent
    BY <1>5, <1>7, RecordedFits
  <1>8. CASE UNCHANGED jn_clock /\ CutOff
    <2>1. CASE jn_journal' = jn_disk
      BY <1>0, <1>8, <2>1
    <2>2. ASSUME jn_repair # None, NEW line \in ActionLines,
                 jn_journal' = Plus(jn_repair, "actions", line)
          PROVE  Good(jn_journal', jn_clock')
      <3>1. Sound(jn_repair) /\ Good(jn_repair, jn_clock)
        BY <2>2 DEF CopiesTyped, AllGood
      <3>2. "actions" \in Acts!Kinds /\ line \in LinesOf["actions"]
        BY DEF Acts!Kinds, LinesOf
      <3> QED
        BY <1>0, <1>8, <2>2, <3>1, <3>2, GoodPlus
    <2> QED
      BY <1>8, <2>1, <2>2 DEF CutOff
  <1> QED
    BY <1>1, <1>2, <1>3, <1>4, <1>6, <1>7, <1>8, JournalEffect

\* The same of a later file, read now or then.
LEMMA GoodPrimed ==
  /\ Good(jn_journal, jn_clock)' <=> Good(jn_journal', jn_clock')
  /\ Good(jn_disk, jn_clock)' <=> Good(jn_disk', jn_clock')
  /\ Good(jn_repair, jn_clock)' <=> Good(jn_repair', jn_clock')
  BY DEF Good, Unique, Capped, OpenIn, IsLastOf, Fresh, Resolved, ExecutedAt, ExecutedOnce,
     Reaches, FateIs, Answered, Lapsed, LinesIn, Awaited, RankOf, Acts!Rank,
     Acts!derive_intent_state, Acts!TerminalStates

LEMMA AllGoodStep ==
  ASSUME JournalTyped, CopiesTyped, Linked, AllGood, Acts!Next
  PROVE  AllGood'
  <1>0. Sound(jn_journal) /\ Sound(jn_disk) /\ jn_clock \in Nat
    BY FileSound DEF JournalTyped, StateTyped, CopiesTyped
  <1>1. Good(jn_journal', jn_clock')
    BY JournalGood
  <1>2. PICK now \in Nat : now = jn_clock' /\ jn_clock <= now
    <2>1. jn_clock' \in {jn_clock, jn_clock + 1}
      BY JournalEffect
    <2> QED
      BY <1>0, <2>1
  <1>3. /\ Good(jn_journal, now) /\ Good(jn_disk, now)
        /\ jn_repair # None => Good(jn_repair, now)
    BY <1>0, <1>2, GoodLater DEF CopiesTyped, AllGood
  <1>4. Good(jn_disk', jn_clock') /\ (jn_repair' # None => Good(jn_repair', jn_clock'))
    BY <1>1, <1>2, <1>3, CopiesEffect
  <1> QED
    BY <1>1, <1>4, GoodPrimed DEF AllGood

---------------------------------------------------------------------------
(* The action journal: theorems. *)

JournalInv == JournalTyped /\ CopiesTyped /\ Linked /\ Replayable /\ AllGood

\* An empty journal keeps all of it.
LEMMA JournalStarts == Acts!Init => JournalInv
  <1> SUFFICES ASSUME Acts!Init PROVE JournalInv
    OBVIOUS
  <1>1. JournalTyped
    BY JournalStartsTyped
  <1>2. \A kind \in Acts!Kinds : jn_journal[kind] = <<>>
    BY DEF Acts!Init
  <1>3. jn_disk = jn_journal /\ jn_repair = None
    BY DEF Acts!Init
  <1>4. CopiesTyped
    BY <1>1, <1>3, FileSound DEF JournalTyped, CopiesTyped, Acts!Init
  <1>5. LinesIn(jn_journal, "events") = {}
    BY <1>2 DEF LinesIn, Acts!Kinds
  <1>6. Linked
    BY <1>3, <1>5 DEF Linked, Acts!Init, Acts!Down
  <1>7. Replayable
    BY DEF Replayable, Acts!ValenceIsReplayable, Acts!Init
  <1>8. Good(jn_journal, jn_clock)
    <2>1. Unique(jn_journal) /\ Fresh(jn_journal) /\ Resolved(jn_journal, jn_clock)
      BY <1>2 DEF Unique, Fresh, Resolved, Acts!Kinds
    <2>2. OpenIn(jn_journal, jn_clock) = {}
      BY <1>2 DEF OpenIn, Acts!Kinds
    <2>3. IsFiniteSet({}) /\ Cardinality({}) = 0
      BY FS_EmptySet
    <2>4. MaxActive \in Nat
      BY RecordsAssumption DEF Acts!JournalAssumption, Acts!intent_config_from_environment
    <2> QED
      BY <2>1, <2>2, <2>3, <2>4 DEF Good, Capped
  <1> QED
    BY <1>1, <1>3, <1>4, <1>6, <1>7, <1>8 DEF JournalInv, AllGood

\* Every step keeps it.
LEMMA JournalStep == JournalInv /\ Acts!Next => JournalInv'
  BY JournalStepTyped, CopiesStep, LinkedStep, ReplayableStep, AllGoodStep DEF JournalInv

\* So do the steps of the others.
LEMMA JournalStutter == JournalInv /\ UNCHANGED journal_vars => JournalInv'
  <1> SUFFICES ASSUME JournalInv, UNCHANGED journal_vars PROVE JournalInv'
    OBVIOUS
  <1>1. JournalTyped'
    <2>1. FileTyped'
      BY FileKept DEF JournalInv, JournalTyped, FileTyped, journal_vars
    <2>2. StateTyped'
      BY DEF JournalInv, JournalTyped, StateTyped, journal_vars
    <2>3. DaemonTyped'
      BY DEF JournalInv, JournalTyped, DaemonTyped, journal_vars
    <2> QED
      BY <2>1, <2>2, <2>3 DEF JournalTyped
  <1>2. CopiesTyped'
    <2>1. Sound(jn_disk)' <=> Sound(jn_disk)
      BY DEF Sound, journal_vars
    <2>2. Sound(jn_repair)' <=> Sound(jn_repair)
      BY DEF Sound, journal_vars
    <2> QED
      BY <2>1, <2>2 DEF JournalInv, CopiesTyped, journal_vars
  <1>3. Linked'
    BY DEF JournalInv, Linked, LinesIn, Acts!Executed, Acts!Lines, journal_vars
  <1>4. Replayable'
    <2>1. Acts!ValenceEvents' = Acts!ValenceEvents
      BY DEF Acts!ValenceEvents, Acts!Said, journal_vars
    <2> QED
      BY <2>1 DEF JournalInv, Replayable, Acts!ValenceIsReplayable, journal_vars
  <1>5. AllGood'
    <2>1. UNCHANGED <<jn_journal, jn_disk, jn_repair, jn_clock>>
      BY DEF journal_vars
    <2> QED
      BY <2>1, GoodPrimed DEF JournalInv, AllGood
  <1> QED
    BY <1>1, <1>2, <1>3, <1>4, <1>5 DEF JournalInv

\* The journal's invariant, in the behaviours that are the journal's.
LEMMA JournalHolds == Spec => [](part = "journal" => JournalInv)
  <1> DEFINE Inv == part = "journal" => JournalInv
  <1>1. Init => Inv
    BY JournalStarts DEF Init
  <1>2. Inv /\ [Next]_records_vars => Inv'
    <2> SUFFICES ASSUME Inv, part' = "journal",
                        [Next]_records_vars
                 PROVE  JournalInv'
      OBVIOUS
    <2>1. \/ part = "journal" /\ Acts!Next
          \/ part = "journal" /\ UNCHANGED journal_vars
      BY DEF Next, JournalNext, ReplicationNext, ReflectionNext, records_vars
    <2> QED
      BY <2>1, JournalStep, JournalStutter
  <1> QED
    BY <1>1, <1>2, PTL DEF Spec

\* However a process dies inside an append, and whatever is appended after it, the
\* journal parses; and it holds every valence update that a saved model has, but for
\* lines that a power cut or the repair of a concurrent `publish` took from it: no
\* other step of any process loses one (append_line, repair_torn_tail, run_map).
THEOREM JournalGivesBack == Spec => []JournalRestores
  <1>1. (part = "journal" => JournalInv) => JournalRestores
    BY DEF JournalInv, JournalTyped, FileTyped, Replayable, JournalRestores,
       Acts!JournalRestores, Acts!JournalLoads, Acts!load_journal
  <1> QED
    BY <1>1, JournalHolds, PTL

\* A record is linked to an action once and, unless lines were cut off, only after
\* it was executed, however often the daemon restarts, the host goes down, the sync
\* delivers it again and its author edits it (link_observation, journal_has_event,
\* make_journal_linker).
THEOREM EventsLinkedOnce == Spec => []EventsLinkOnce
  <1>1. (part = "journal" => JournalInv) => EventsLinkOnce
    <2> SUFFICES ASSUME part = "journal", JournalInv PROVE Acts!EventsLinkOnce
      BY DEF EventsLinkOnce
    <2>1. \A i \in DOMAIN jn_journal["events"] :
            Acts!Executed(jn_journal["events"][i].action) # {} \/ jn_lost.cut
      BY DEF JournalInv, Linked, LinesIn
    <2> QED
      BY <2>1 DEF JournalInv, AllGood, Good, Unique, Acts!EventsLinkOnce
  <1> QED
    BY <1>1, JournalHolds, PTL

\* Open conversations keep to the operator's cap, whatever it is, and one whose end
\* is recorded is never taken up again nor its window moved, whichever lines a power
\* cut takes (record_pending_intent, derive_intent_state, sweep_intents).
THEOREM ConversationsBounded == Spec => []ConversationsAreBounded
  <1>1. (part = "journal" => JournalInv) => ConversationsAreBounded
    <2> SUFFICES ASSUME part = "journal", JournalInv PROVE Acts!ConversationsAreBounded
      BY DEF ConversationsAreBounded
    <2>1. Cardinality(Acts!active_intents(jn_clock)) <= MaxActive
      BY OpenIs DEF JournalInv, JournalTyped, AllGood, Good, Capped
    <2>2. Fresh(jn_journal)
      BY DEF JournalInv, AllGood, Good
    <2>3. \A i, k \in DOMAIN jn_journal["intents"] :
            Acts!Successive(i, k)
              /\ (\/ jn_journal["intents"][i].state # "open"
                  \/ jn_journal["intents"][i].expires # jn_journal["intents"][k].expires)
            => Cardinality(jn_journal["intents"][k].actions) = 1
      BY <2>2 DEF Fresh, Acts!Successive
    <2> QED
      BY <2>1, <2>3, SameCount DEF Acts!ConversationsAreBounded
  <1> QED
    BY <1>1, JournalHolds, PTL

\* What the operator and the daemon record of an expectation only improves, in any
\* order of answers, lapses and passes, and whichever lines a power cut takes
\* (resolve_expectations, derive_expectation_state).
THEOREM ResolutionsImprove == Spec => []ResolutionsOnlyImprove
  <1>1. (part = "journal" => JournalInv) => ResolutionsOnlyImprove
    <2> SUFFICES ASSUME part = "journal", JournalInv
                 PROVE  Acts!ResolutionsOnlyImprove
      BY DEF ResolutionsOnlyImprove
    <2>1. ASSUME NEW a,
                 Cardinality({n \in DOMAIN jn_journal["actions"] :
                                /\ jn_journal["actions"][n].id = a
                                /\ jn_journal["actions"][n].outcome = "executed"}) = 1
          PROVE  ExecutedOnce(jn_journal, a)
      <3> DEFINE E == {n \in DOMAIN jn_journal["actions"] :
                         /\ jn_journal["actions"][n].id = a
                         /\ jn_journal["actions"][n].outcome = "executed"}
      <3>1. jn_journal["actions"] \in Seq(ActionLines)
        BY DEF JournalInv, JournalTyped, FileTyped, Acts!Kinds, LinesOf
      <3>2. IsFiniteSet(DOMAIN jn_journal["actions"])
        BY <3>1, FS_Interval
      <3>3. IsFiniteSet(E)
        BY <3>2, FS_Subset
      <3>4. PICK x : E = {x}
        BY <2>1, <3>3, FS_Singleton
      <3> QED
        BY <3>4 DEF ExecutedOnce, ExecutedAt
    <2>2. ASSUME NEW i \in DOMAIN jn_journal["resolutions"],
                 NEW k \in DOMAIN jn_journal["resolutions"],
                 i < k, jn_journal["resolutions"][i].action = jn_journal["resolutions"][k].action,
                 ExecutedOnce(jn_journal, jn_journal["resolutions"][i].action)
          PROVE  Acts!Rank[jn_journal["resolutions"][i].state] <
                   Acts!Rank[jn_journal["resolutions"][k].state]
      BY <2>2 DEF JournalInv, AllGood, Good, Resolved, RankOf
    <2> QED
      BY <2>1, <2>2, SameCount DEF Acts!ResolutionsOnlyImprove
  <1> QED
    BY <1>1, JournalHolds, PTL

---------------------------------------------------------------------------
(* Replication: record keys. *)

\* What holds of 0 and passes from each number to the next holds up to n.
LEMMA Upwards ==
  ASSUME NEW n \in Nat, NEW P, 0 \in P, \A d \in 1..n : d - 1 \in P => d \in P
  PROVE  \A d \in 0..n : d \in P
  <1> DEFINE Bad == {d \in 0..n : d \notin P}
  <1> SUFFICES ASSUME NEW e \in 0..n, e \notin P PROVE FALSE
    OBVIOUS
  <1>1. PICK x \in Bad : \A y \in Bad : x <= y
    <2>1. Bad \in SUBSET Nat /\ e \in Bad
      OBVIOUS
    <2> HIDE DEF Bad
    <2> QED BY <2>1, LeastNatural
  <1>2. x \in 1..n /\ x - 1 \notin Bad /\ x - 1 \in 0..n
    BY <1>1
  <1> QED BY <1>1, <1>2

\* The first m values of f are given by its first value and a step.
Stepped(f, n, first, step, m) ==
  /\ f \in [0..n -> Nat] /\ f[0] = first
  /\ \A d \in 1..n : d <= m => f[d] = step[f[d - 1]][d]

\* A function given by its first value and a step exists.
LEMMA Recursion ==
  ASSUME NEW n \in Nat, NEW first \in Nat, NEW step \in [Nat -> [1..n -> Nat]]
  PROVE  \E f \in [0..n -> Nat] :
           f[0] = first /\ \A d \in 1..n : f[d] = step[f[d - 1]][d]
  <1> DEFINE P == {m \in 0..n : \E f : Stepped(f, n, first, step, m)}
  <1>1. 0 \in P
    <2>1. Stepped([d \in 0..n |-> first], n, first, step, 0)
      BY DEF Stepped
    <2> QED BY <2>1
  <1>2. ASSUME NEW m \in 1..n, m - 1 \in P PROVE m \in P
    <2>1. PICK f : Stepped(f, n, first, step, m - 1)
      BY <1>2
    <2> DEFINE v == step[f[m - 1]][m]
               g == [f EXCEPT ![m] = v]
    <2>2. m - 1 \in 0..n /\ f[m - 1] \in Nat /\ step[f[m - 1]] \in [1..n -> Nat] /\ v \in Nat
      BY <2>1 DEF Stepped
    <2>3. g \in [0..n -> Nat] /\ g[0] = first
      <3> HIDE DEF v
      <3>1. f \in [0..n -> Nat] /\ f[0] = first
        BY <2>1 DEF Stepped
      <3>2. m # 0 /\ 0 \in 0..n
        OBVIOUS
      <3> QED BY <2>2, <3>1, <3>2
    <2>4. ASSUME NEW d \in 1..n, d <= m PROVE g[d] = step[g[d - 1]][d]
      <3>1. g[d - 1] = f[d - 1]
        BY <2>1, <2>4 DEF Stepped
      <3>2. CASE d = m
        BY <2>1, <3>1, <3>2 DEF Stepped
      <3>3. CASE d < m
        BY <2>1, <3>1, <3>3 DEF Stepped
      <3> QED BY <2>4, <3>2, <3>3
    <2> HIDE DEF g
    <2>5. Stepped(g, n, first, step, m)
      BY <2>3, <2>4 DEF Stepped
    <2> QED BY <2>5
  <1>3. n \in P
    <2> HIDE DEF P
    <2>1. \A d \in 0..n : d \in P
      BY <1>1, <1>2, Upwards
    <2> QED BY <2>1
  <1>4. PICK f : Stepped(f, n, first, step, n)
    BY <1>3
  <1>5. \A d \in 1..n : f[d] = step[f[d - 1]][d]
    BY <1>4 DEF Stepped
  <1> QED BY <1>4, <1>5 DEF Stepped

\* There are keys for every entry, and for every instant of the host.
LEMMA KeySizes ==
  /\ Base \in Nat \ {0, 1} /\ Digits \in Nat \ {0} /\ RecheckWindow \in Nat \ {0}
  /\ MaxItems \in Nat /\ MaxItems < Publish!Keys /\ ActionIds \subseteq Nat
  /\ \A at \in Instants : at \in Nat /\ at + MaxItems <= Publish!Keys
  BY RecordsAssumption DEF Publish!ReplicationAssumption

\* The powers of Base, what is left of an id before each symbol, and what the
\* symbols say up to each.
IsPower(f) == f = [d \in 0..Digits |-> IF d = 0 THEN 1 ELSE Base * f[d - 1]]
IsRest(id, f) == f = [d \in 0..Digits |-> IF d = Digits THEN id ELSE f[d + 1] \div Base]
IsRead(rkey, f) == f = [d \in 0..Digits |-> IF d = 0 THEN 0 ELSE f[d - 1] * Base + rkey[d]]

LEMMA PowerExists == \E f : IsPower(f)
  <1> DEFINE first == 1
             step == [v \in Nat |-> [d \in 1..Digits |-> Base * v]]
  <1>1. step \in [Nat -> [1..Digits -> Nat]]
    BY KeySizes
  <1>2. PICK f \in [0..Digits -> Nat] :
               f[0] = first /\ \A d \in 1..Digits : f[d] = step[f[d - 1]][d]
    <2>1. Digits \in Nat /\ first \in Nat
      BY KeySizes
    <2> HIDE DEF step, first
    <2> QED BY <1>1, <2>1, Recursion, ZenonT(30)
  <1>3. \A d \in 0..Digits : f[d] = IF d = 0 THEN 1 ELSE Base * f[d - 1]
    BY <1>2, KeySizes
  <1> QED BY <1>2, <1>3 DEF IsPower

LEMMA RestExists == ASSUME NEW id \in Nat PROVE \E f : IsRest(id, f)
  <1> DEFINE first == id
             step == [v \in Nat |-> [d \in 1..Digits |-> v \div Base]]
  <1>1. step \in [Nat -> [1..Digits -> Nat]]
    BY KeySizes
  <1>2. PICK g \in [0..Digits -> Nat] :
               g[0] = first /\ \A d \in 1..Digits : g[d] = step[g[d - 1]][d]
    <2>1. Digits \in Nat /\ first \in Nat
      BY KeySizes
    <2> HIDE DEF step, first
    <2> QED BY <1>1, <2>1, Recursion, ZenonT(30)
  <1>3. ASSUME NEW d \in 1..Digits PROVE g[d] = g[d - 1] \div Base
    <2>1. d - 1 \in 0..Digits
      BY KeySizes
    <2>2. g[d - 1] \in Nat
      BY <1>2, <2>1
    <2> QED BY <1>2, <2>2
  <1> DEFINE f == [d \in 0..Digits |-> g[Digits - d]]
  <1>4. \A d \in 0..Digits : f[d] = IF d = Digits THEN id ELSE f[d + 1] \div Base
    <2>1. f[Digits] = id
      BY <1>2, KeySizes
    <2>2. ASSUME NEW d \in 0..Digits, d # Digits PROVE f[d] = f[d + 1] \div Base
      <3>1. /\ Digits - d \in 1..Digits /\ d + 1 \in 0..Digits
            /\ Digits - (d + 1) = (Digits - d) - 1
        BY <2>2, KeySizes
      <3> QED BY <1>3, <3>1
    <2> HIDE DEF f
    <2> QED BY <2>1, <2>2
  <1>5. IsRest(id, f)
    <2> HIDE DEF f
    <2>1. f = [d \in 0..Digits |-> f[d]]
      BY DEF f
    <2> QED BY <1>4, <2>1 DEF IsRest
  <1> QED BY <1>5

LEMMA ReadExists ==
  ASSUME NEW rkey \in [1..Digits -> Nat] PROVE \E f : IsRead(rkey, f)
  <1> DEFINE first == 0
             step == [v \in Nat |-> [d \in 1..Digits |-> v * Base + rkey[d]]]
  <1>1. step \in [Nat -> [1..Digits -> Nat]]
    BY KeySizes
  <1>2. PICK f \in [0..Digits -> Nat] :
               f[0] = first /\ \A d \in 1..Digits : f[d] = step[f[d - 1]][d]
    <2>1. Digits \in Nat /\ first \in Nat
      BY KeySizes
    <2> HIDE DEF step, first
    <2> QED BY <1>1, <2>1, Recursion, ZenonT(30)
  <1>3. ASSUME NEW d \in 1..Digits PROVE f[d] = f[d - 1] * Base + rkey[d]
    <2>1. d - 1 \in 0..Digits
      BY KeySizes
    <2>2. f[d - 1] \in Nat
      BY <1>2, <2>1
    <2> QED BY <1>2, <2>2
  <1>4. \A d \in 0..Digits : f[d] = IF d = 0 THEN 0 ELSE f[d - 1] * Base + rkey[d]
    BY <1>2, <1>3, KeySizes
  <1>5. f = [d \in 0..Digits |-> f[d]]
    BY <1>2
  <1> HIDE DEF step
  <1> QED BY <1>4, <1>5 DEF IsRead

LEMMA KeysAreMany == Publish!Keys \in Nat
  <1>1. PICK p : IsPower(p) /\ Publish!Keys = p[Digits]
    BY PowerExists DEF Publish!Keys, IsPower
  <1>2. p[0] = 1 /\ \A d \in 1..Digits : p[d] = Base * p[d - 1]
    BY <1>1, KeySizes DEF IsPower
  <1> DEFINE P == {d \in 0..Digits : p[d] \in Nat}
  <1>3. 0 \in P /\ \A d \in 1..Digits : d - 1 \in P => d \in P
    BY <1>2, KeySizes
  <1> HIDE DEF P
  <1>4. \A d \in 0..Digits : d \in P
    BY <1>3, KeySizes, Upwards
  <1> QED BY <1>1, <1>4, KeySizes DEF P

\* Fewer than Keys ids are left with nothing before the first symbol.
LEMMA RestIsShort ==
  ASSUME NEW id \in Nat, id < Publish!Keys, NEW f, IsRest(id, f)
  PROVE  (\A d \in 0..Digits : f[d] \in Nat) /\ f[0] = 0
  <1>1. PICK p : IsPower(p) /\ Publish!Keys = p[Digits]
    BY PowerExists DEF Publish!Keys, IsPower
  <1>2. p[0] = 1 /\ \A d \in 1..Digits : p[d] = Base * p[d - 1]
    BY <1>1, KeySizes DEF IsPower
  <1> DEFINE P == {d \in 0..Digits : p[d] \in Nat}
             Q == {d \in 0..Digits : f[Digits - d] \in Nat /\ f[Digits - d] < p[Digits - d]}
  <1>3. \A d \in 0..Digits : p[d] \in Nat
    <2>1. 0 \in P /\ \A d \in 1..Digits : d - 1 \in P => d \in P
      BY <1>2, KeySizes
    <2> HIDE DEF P
    <2>2. \A d \in 0..Digits : d \in P
      BY <2>1, KeySizes, Upwards
    <2> QED BY <2>2 DEF P
  <1>4. f[Digits] = id /\ \A d \in 0..(Digits - 1) : f[d] = f[d + 1] \div Base
    BY KeySizes DEF IsRest
  <1>5. \A d \in 0..Digits : d \in Q
    <2>1. 0 \in Q
      BY <1>1, <1>4, KeySizes
    <2>2. ASSUME NEW d \in 1..Digits, d - 1 \in Q PROVE d \in Q
      <3> DEFINE e == Digits - d
      <3>1. e \in 0..(Digits - 1) /\ e + 1 \in 1..Digits /\ e + 1 = Digits - (d - 1)
            /\ (e + 1) - 1 = e /\ e \in 0..Digits
        BY KeySizes
      <3>2. f[e + 1] \in Nat /\ f[e + 1] < Base * p[e] /\ p[e] \in Nat
        BY <1>2, <1>3, <2>2, <3>1
      <3>3. f[e] = f[e + 1] \div Base
        BY <1>4, <3>1
      <3>4. f[e] \in Nat /\ f[e] < p[e]
        <4> DEFINE u == f[e + 1]
                   w == p[e]
        <4>1. u \in Nat /\ w \in Nat /\ u < Base * w /\ f[e] = u \div Base
          BY <3>2, <3>3
        <4> HIDE DEF u, w
        <4>2. (u \div Base) \in Nat /\ (u \div Base) < w
          BY <4>1, KeySizes
        <4> QED BY <4>1, <4>2 DEF w
      <3> QED BY <3>4
    <2> HIDE DEF Q
    <2> QED BY <2>1, <2>2, KeySizes, Upwards
  <1>6. ASSUME NEW d \in 0..Digits PROVE f[d] \in Nat /\ f[d] < p[d]
    <2>1. Digits - d \in 0..Digits /\ Digits - (Digits - d) = d
      BY KeySizes
    <2> QED BY <1>5, <2>1
  <1>7. f[0] \in Nat /\ f[0] < 1
    BY <1>2, <1>6, KeySizes
  <1> QED BY <1>6, <1>7

LEMMA Division ==
  ASSUME NEW b \in Nat \ {0}, NEW v \in Nat PROVE v = (v \div b) * b + (v % b)
  OBVIOUS

\* A key gives its id back.
LEMMA KeyIsExact ==
  ASSUME NEW id \in Nat, id < Publish!Keys
  PROVE  Publish!rkey_to_id(Publish!observation_rkey(id)) = id
  <1> DEFINE k == Publish!observation_rkey(id)
  <1>1. PICK f : IsRest(id, f) /\ k = [d \in 1..Digits |-> f[d] % Base]
    BY RestExists DEF Publish!observation_rkey, IsRest
  <1>2. (\A d \in 0..Digits : f[d] \in Nat) /\ f[0] = 0
    BY <1>1, RestIsShort
  <1> HIDE DEF k
  <1>3. k \in [1..Digits -> Nat]
    BY <1>1, <1>2, KeySizes
  <1>4. PICK g : IsRead(k, g) /\ Publish!rkey_to_id(k) = g[Digits]
    BY <1>3, ReadExists DEF Publish!rkey_to_id, IsRead
  <1> DEFINE P == {d \in 0..Digits : g[d] = f[d]}
  <1>5. 0 \in P
    BY <1>2, <1>4, KeySizes DEF IsRead
  <1>6. ASSUME NEW d \in 1..Digits, d - 1 \in P PROVE d \in P
    <2>1. g[d] = g[d - 1] * Base + k[d] /\ g[d - 1] = f[d - 1]
      BY <1>4, <1>6, KeySizes DEF IsRead
    <2>2. f[d - 1] = f[d] \div Base /\ f[d] \in Nat
      <3>1. d - 1 \in 0..Digits /\ d - 1 # Digits /\ (d - 1) + 1 = d
        BY KeySizes
      <3>2. f[d - 1] = f[(d - 1) + 1] \div Base
        BY <1>1, <3>1 DEF IsRest
      <3> QED BY <1>2, <3>1, <3>2
    <2>3. f[d] = (f[d] \div Base) * Base + (f[d] % Base)
      BY <2>2, KeySizes, Division
    <2> QED BY <1>1, <2>1, <2>2, <2>3
  <1>7. \A d \in 0..Digits : d \in P
    <2> HIDE DEF P
    <2> QED BY <1>5, <1>6, KeySizes, Upwards
  <1>8. g[Digits] = f[Digits] /\ f[Digits] = id
    BY <1>1, <1>7, KeySizes DEF IsRest
  <1> QED BY <1>4, <1>8 DEF k

\* The members of a set by their keys: each of them, once.
LEMMA InOrderIsExact ==
  ASSUME NEW S, IsFiniteSet(S), NEW key, \A x \in S : key[x] \in Int,
         \A x \in S, y \in S : key[x] = key[y] => x = y
  PROVE  /\ Cardinality(S) \in Nat
         /\ Publish!InOrder(S, key) \in [1..Cardinality(S) -> S]
         /\ \A i \in 1..Cardinality(S), k \in 1..Cardinality(S) :
              Publish!InOrder(S, key)[i] = Publish!InOrder(S, key)[k] => i = k
  <1> DEFINE n == Cardinality(S)
             Below(x) == {y \in S : key[y] < key[x]}
             rank == [x \in S |-> Cardinality(Below(x))]
             At(i) == CHOOSE x \in S : Cardinality(Below(x)) = i - 1
             s == Publish!InOrder(S, key)
  <1>0. s = [i \in 1..n |-> At(i)]
    BY DEF Publish!InOrder, Publish!Cardinality, Cardinality, Publish!IsFiniteSet, IsFiniteSet
  <1> HIDE DEF s
  <1>1. n \in Nat
    BY FS_CardinalityType
  <1>2. ASSUME NEW x \in S PROVE rank[x] \in 0..(n - 1)
    <2>1. Below(x) \in SUBSET S /\ x \notin Below(x)
      OBVIOUS
    <2>2. IsFiniteSet(Below(x)) /\ Cardinality(Below(x)) <= n /\ Cardinality(Below(x)) # n
      BY <2>1, FS_Subset
    <2>3. Cardinality(Below(x)) \in Nat
      BY <2>2, FS_CardinalityType
    <2> HIDE DEF Below
    <2> QED BY <1>1, <2>2, <2>3
  <1>3. ASSUME NEW x \in S, NEW y \in S, key[x] < key[y] PROVE rank[x] # rank[y]
    <2>1. Below(x) \in SUBSET Below(y) /\ x \in Below(y) /\ x \notin Below(x)
          /\ Below(y) \in SUBSET S
      BY <1>3
    <2>2. IsFiniteSet(Below(y))
      BY <2>1, FS_Subset
    <2>3. Cardinality(Below(x)) # Cardinality(Below(y))
      BY <2>1, <2>2, FS_Subset
    <2> HIDE DEF Below
    <2> QED BY <2>3
  <1>4. rank \in Surjection(S, 0..(n - 1))
    <2>1. rank \in [S -> 0..(n - 1)]
      BY <1>2
    <2>2. ASSUME NEW x \in S, NEW y \in S, rank[x] = rank[y] PROVE x = y
      <3>1. ~ (key[x] < key[y]) /\ ~ (key[y] < key[x])
        BY <1>3, <2>2
      <3> QED BY <3>1
    <2> HIDE DEF rank
    <2>3. rank \in Injection(S, 0..(n - 1))
      BY <2>1, <2>2 DEF Injection, IsInjective
    <2>4. IsFiniteSet(0..(n - 1)) /\ Cardinality(0..(n - 1)) = n
      BY <1>1, FS_Interval
    <2> QED BY <2>3, <2>4, FS_Injection
  <1>5. ASSUME NEW i \in 1..n PROVE s[i] \in S /\ rank[s[i]] = i - 1
    <2>1. s[i] = At(i)
      <3> HIDE DEF At
      <3> QED BY <1>0
    <2>2. i - 1 \in 0..(n - 1)
      BY <1>1
    <2>3. PICK x \in S : rank[x] = i - 1
      BY <1>4, <2>2 DEF Surjection
    <2> HIDE DEF Below
    <2>4. At(i) \in S /\ Cardinality(Below(At(i))) = i - 1
      BY <2>3
    <2> HIDE DEF At
    <2> QED BY <2>1, <2>4
  <1>6. s \in [1..n -> S]
    <2> HIDE DEF At
    <2> QED BY <1>0, <1>5
  <1>7. ASSUME NEW i \in 1..n, NEW k \in 1..n, s[i] = s[k] PROVE i = k
    <2> HIDE DEF rank
    <2> QED BY <1>1, <1>5, <1>7
  <1> QED BY <1>1, <1>6, <1>7 DEF s

---------------------------------------------------------------------------
(* Replication: what is published, and what a pass knows. *)

ListNames == {"actions", "valence", "thoughts", "intents"}
Fields == {"observations"} \cup ListNames
Entry == [source : Sources, outcome : {"pending", "learned", "withdrawn"}]
Line == [id : Nat, at : Nat, n : Nat]

\* After a move the valence events may come back under other positions.
Kept(c) == c # "valence" \/ rp_moves = 0

\* Lists of lines; in those a host wrote, the later of two lines with one key is
\* the newer one.
LinesFit ==
  /\ DOMAIN rp_lines = ListNames
  /\ \A c \in ListNames : \E V : rp_lines[c] \in Seq(V)
  /\ \A c \in ListNames : Kept(c) => rp_lines[c] \in Seq(Line)
  /\ \A c \in ListNames \ {"valence"} : \A i \in DOMAIN rp_lines[c], k \in DOMAIN rp_lines[c] :
       i < k /\ rp_lines[c][i].id = rp_lines[c][k].id => rp_lines[c][i].n < rp_lines[c][k].n
  /\ rp_moves = 0 =>
       /\ Len(rp_lines["valence"]) <= MaxItems
       /\ \A i \in DOMAIN rp_lines["valence"] : rp_lines["valence"][i].at \in Instants
       /\ \A i \in DOMAIN rp_lines["valence"], k \in DOMAIN rp_lines["valence"] :
            i < k => rp_lines["valence"][i].at <= rp_lines["valence"][k].at

\* A record is of an entry or a line, under its key.
IsRecord(r) ==
  \/ \E id \in 1..(Publish!Keys - 1), e \in Entry :
       r = [in |-> "observations", rkey |-> Publish!observation_rkey(id), what |-> e]
  \/ \E c \in ListNames \ {"valence"}, l \in Line :
       r = [in |-> c, rkey |-> <<l.id>>, what |-> l]
  \/ \E k, l : r = [in |-> "valence", rkey |-> k, what |-> l]

\* The network holds finitely many records, one under a key.
NetworkFits ==
  /\ IsFiniteSet(rp_network)
  /\ \A r \in rp_network : IsRecord(r)
  /\ \A r \in rp_network, q \in rp_network : r.in = q.in /\ r.rkey = q.rkey => r = q

CursorFits(at) ==
  /\ at \in [Fields -> Nat]
  /\ at["observations"] \in 1..(Len(rp_ledger) + 1)
  /\ \A c \in ListNames : at[c] \in 0..Len(rp_lines[c])

SourcesFit ==
  /\ rp_moves \in Nat
  /\ rp_ledger \in Seq(Entry) /\ Len(rp_ledger) < Publish!Keys
  /\ LinesFit
  /\ CursorFits(rp_cursor)

PassRecord ==
  [pc : {"recheck", "observations"} \cup ListNames, offline : BOOLEAN, view : Seq(Entry),
   cursor : [Fields -> Nat], at : Nat \ {0}, length : [Fields -> Nat] \cup [ListNames -> Nat],
   written : Nat]

\* A pass works on the ledger as it is, ahead of the durable cursor, and on lines
\* that exist.
PassFits ==
  rp_pass # None =>
    /\ rp_pass \in PassRecord
    /\ rp_pass.view = rp_ledger
    /\ CursorFits(rp_pass.cursor)
    /\ \A c \in ListNames : rp_cursor[c] <= rp_pass.cursor[c]
                            /\ rp_pass.length[c] <= Len(rp_lines[c])
    /\ rp_pass.pc = "observations" => rp_pass.at = rp_pass.cursor["observations"]

\* A record that stands for an entry, or for a line or a later one of its key.
StandsForEntry(r, id) ==
  /\ r.in = "observations" /\ r.rkey = Publish!observation_rkey(id)
  /\ r.what.source = rp_ledger[id].source

StandsForLine(r, c, i) ==
  /\ r.in = c /\ r.rkey = Publish!Rkey(c, i)
  /\ r.what.id = rp_lines[c][i].id /\ r.what.n >= rp_lines[c][i].n

Behind(at) ==
  /\ \A id \in 1..(at["observations"] - 1) :
       id \in rp_overtaken \/ \E r \in Publish!Records : StandsForEntry(r, id)
  /\ \A c \in ListNames : Kept(c) =>
       \A i \in 1..at[c] : \E r \in Publish!Records : StandsForLine(r, c, i)

\* Where the pass puts its records.
Sink == IF rp_pass.offline THEN rp_staged ELSE rp_network

TellsOf(id) ==
  \A r \in Sink : r.in = "observations" /\ r.rkey = Publish!observation_rkey(id) =>
                    r.what.outcome = "withdrawn"

\* The window behind the cursor, as far as the pass has looked at it again.
Told ==
  rp_pass # None =>
    \A id \in 1..(rp_pass.cursor["observations"] - 1) :
      /\ id + RecheckWindow >= rp_pass.cursor["observations"]
      /\ id <= Len(rp_ledger)
      /\ rp_pass.pc = "recheck" => id < rp_pass.at
      /\ rp_ledger[id].outcome = "withdrawn"
      => TellsOf(id)

PublicationInv ==
  /\ SourcesFit /\ NetworkFits /\ PassFits
  /\ Behind(rp_cursor)
  /\ rp_pass # None => Behind(rp_pass.cursor)
  /\ Told

\* Two entries have two keys.
LEMMA EntryKeys ==
  ASSUME NEW i \in 0..(Publish!Keys - 1), NEW k \in 0..(Publish!Keys - 1),
         Publish!observation_rkey(i) = Publish!observation_rkey(k)
  PROVE  i = k
  <1>1. Publish!Keys \in Nat
    BY KeysAreMany
  <1> QED BY <1>1, KeyIsExact

\* The names of the lists.
LEMMA ListsNamed ==
  /\ DOMAIN Publish!Lists = 1..4 /\ Len(Publish!Lists) = 4
  /\ Publish!Lists[1] = "actions" /\ Publish!Lists[2] = "valence"
  /\ Publish!Lists[3] = "thoughts" /\ Publish!Lists[4] = "intents"
  /\ \A k \in 1..4 : Publish!Lists[k] \in ListNames
  /\ Publish!Range(Publish!Lists) = ListNames
  <1>1. /\ DOMAIN Publish!Lists = 1..4 /\ Len(Publish!Lists) = 4
        /\ Publish!Lists[1] = "actions" /\ Publish!Lists[2] = "valence"
        /\ Publish!Lists[3] = "thoughts" /\ Publish!Lists[4] = "intents"
    BY DEF Publish!Lists
  <1>2. 1..4 = {1, 2, 3, 4}
    OBVIOUS
  <1>3. \A k \in 1..4 : Publish!Lists[k] \in ListNames
    BY <1>1, <1>2 DEF ListNames
  <1>4. Publish!Range(Publish!Lists) = ListNames
    BY <1>1, <1>2 DEF ListNames, Publish!Range
  <1> QED BY <1>1, <1>3, <1>4

\* The later of two lines with one key is about the same thing, and newer.
LEMMA LineKeys ==
  ASSUME SourcesFit, NEW c \in ListNames, Kept(c),
         NEW i \in DOMAIN rp_lines[c], NEW k \in DOMAIN rp_lines[c], i < k,
         Publish!Rkey(c, i) = Publish!Rkey(c, k)
  PROVE  rp_lines[c][i].id = rp_lines[c][k].id /\ rp_lines[c][i].n < rp_lines[c][k].n
  <1>1. CASE c # "valence"
    <2>1. rp_lines[c][i].id = rp_lines[c][k].id
      BY <1>1 DEF Publish!Rkey
    <2> QED BY <1>1, <2>1 DEF SourcesFit, LinesFit
  <1>2. CASE c = "valence"
    <2>1. rp_moves = 0
      BY <1>2 DEF Kept
    <2> DEFINE l == rp_lines["valence"]
    <2>2. /\ Len(l) \in Nat /\ Len(l) <= MaxItems /\ DOMAIN l = 1..Len(l)
          /\ l[i].at \in Instants /\ l[k].at \in Instants /\ l[i].at <= l[k].at
      BY <1>2, <2>1 DEF SourcesFit, LinesFit, ListNames
    <2> DEFINE a == l[i].at + i - 1
               b == l[k].at + k - 1
    <2>3. a \in 0..(Publish!Keys - 1) /\ b \in 0..(Publish!Keys - 1) /\ a # b
      <3> DEFINE x == l[i].at
                 y == l[k].at
      <3>1. x \in Nat /\ y \in Nat /\ x <= y /\ y + MaxItems <= Publish!Keys
            /\ i \in 1..Len(l) /\ k \in 1..Len(l)
        BY <1>2, <2>2, KeySizes
      <3> HIDE DEF x, y, l
      <3>2. MaxItems \in Nat /\ Publish!Keys \in Nat
        BY KeySizes, KeysAreMany
      <3>3. x + i - 1 \in 0..(Publish!Keys - 1) /\ y + k - 1 \in 0..(Publish!Keys - 1)
            /\ x + i - 1 # y + k - 1
        BY <2>2, <3>1, <3>2
      <3> QED BY <3>3 DEF x, y
    <2>4. Publish!observation_rkey(a) = Publish!observation_rkey(b)
      BY <1>2 DEF Publish!Rkey, Publish!valence_rkey
    <2> HIDE DEF a, b
    <2> QED BY <2>3, <2>4, EntryKeys
  <1> QED BY <1>1, <1>2

\* What is written takes the place of what had its key, in one of the two places.
WrittenOrNot(r) == Publish!Written(r) \/ UNCHANGED <<rp_network, rp_staged>>

LEMMA WriteEffect ==
  ASSUME NEW r, WrittenOrNot(r)
  PROVE  /\ \A q \in Publish!Records :
              \/ q \in Publish!Records'
              \/ q.in = r.in /\ q.rkey = r.rkey /\ r \in Publish!Records'
         /\ Publish!Written(r) => r \in Publish!Records'
         /\ rp_network' \subseteq rp_network \cup {r}
         /\ rp_staged' \subseteq rp_staged \cup {r}
  BY DEF WrittenOrNot, Publish!Written, Publish!put_record, Publish!Records

LEMMA WriteKeepsNetwork ==
  ASSUME NetworkFits, NEW r, IsRecord(r), IsRecord(r)', WrittenOrNot(r),
         \A q : IsRecord(q) => IsRecord(q)'
  PROVE  NetworkFits'
  <1>1. CASE rp_network' = rp_network
    BY <1>1 DEF NetworkFits
  <1>2. CASE rp_network' = Publish!put_record(rp_network, r)
    <2>1. rp_network' \ {r} \in SUBSET rp_network
          /\ rp_network' = (rp_network' \ {r}) \cup {r}
      BY <1>2 DEF Publish!put_record
    <2>2. IsFiniteSet(rp_network' \ {r})
      BY <2>1, FS_Subset DEF NetworkFits
    <2>3. IsFiniteSet(rp_network')
      BY <2>1, <2>2, FS_AddElement
    <2>4. \A q \in rp_network' : IsRecord(q)'
      BY <2>1 DEF NetworkFits
    <2>5. \A p \in rp_network', q \in rp_network' : p.in = q.in /\ p.rkey = q.rkey => p = q
      BY <1>2 DEF NetworkFits, Publish!put_record
    <2> QED BY <2>3, <2>4, <2>5 DEF NetworkFits
  <1> QED BY <1>1, <1>2 DEF WrittenOrNot, Publish!Written

\* An entry's record, put again, keeps what stands for every entry and line.
LEMMA EntryPut ==
  ASSUME SourcesFit, NEW id \in 1..Len(rp_ledger), NEW r,
         r = Publish!serialise_observation_record(id, rp_ledger[id]), WrittenOrNot(r),
         UNCHANGED <<rp_ledger, rp_lines, rp_moves>>, rp_overtaken \subseteq rp_overtaken',
         NEW at, CursorFits(at), Behind(at)
  PROVE  Behind(at)'
  <1>1. r.in = "observations" /\ r.rkey = Publish!observation_rkey(id) /\ r.what = rp_ledger[id]
    BY DEF Publish!serialise_observation_record
  <1>2. ASSUME NEW j \in 1..(at["observations"] - 1), j \notin rp_overtaken'
        PROVE  \E q \in Publish!Records' : StandsForEntry(q, j)'
    <2>1. PICK q \in Publish!Records : StandsForEntry(q, j)
      BY <1>2 DEF Behind
    <2>2. CASE q \in Publish!Records'
      BY <2>1, <2>2 DEF StandsForEntry
    <2>3. CASE q.rkey = r.rkey /\ r \in Publish!Records'
      <3>1. j \in 0..(Publish!Keys - 1) /\ id \in 0..(Publish!Keys - 1)
        BY KeysAreMany DEF SourcesFit, CursorFits
      <3>2. j = id
        BY <1>1, <2>1, <2>3, <3>1, EntryKeys DEF StandsForEntry
      <3> QED BY <1>1, <2>3, <3>2 DEF StandsForEntry
    <2> QED BY <2>2, <2>3, WriteEffect
  <1>3. ASSUME NEW c \in ListNames, Kept(c)', NEW i \in 1..at[c]
        PROVE  \E q \in Publish!Records' : StandsForLine(q, c, i)'
    <2>1. PICK q \in Publish!Records : StandsForLine(q, c, i)
      BY <1>3 DEF Behind, Kept
    <2>2. q.in # r.in
      BY <1>1, <2>1 DEF StandsForLine, ListNames
    <2>3. q \in Publish!Records'
      BY <2>2, WriteEffect
    <2> QED BY <2>1, <2>3 DEF StandsForLine, Publish!Rkey, Publish!valence_rkey
  <1> QED BY <1>2, <1>3 DEF Behind

\* A line's record keeps what stands for every entry and for the lines before it.
LEMMA LinePut ==
  ASSUME SourcesFit, NEW c \in ListNames, NEW k \in DOMAIN rp_lines[c], NEW r,
         r = Publish!serialise_record(c, k), WrittenOrNot(r),
         UNCHANGED <<rp_ledger, rp_lines, rp_moves, rp_overtaken>>,
         NEW at, CursorFits(at), Behind(at), at[c] < k
  PROVE  Behind(at)'
  <1>1. r.in = c /\ r.rkey = Publish!Rkey(c, k) /\ r.what = rp_lines[c][k]
    BY DEF Publish!serialise_record
  <1>2. ASSUME NEW j \in 1..(at["observations"] - 1), j \notin rp_overtaken'
        PROVE  \E q \in Publish!Records' : StandsForEntry(q, j)'
    <2>1. PICK q \in Publish!Records : StandsForEntry(q, j)
      BY <1>2 DEF Behind
    <2>2. q.in # r.in
      BY <1>1, <2>1 DEF StandsForEntry, ListNames
    <2>3. q \in Publish!Records'
      BY <2>2, WriteEffect
    <2> QED BY <2>1, <2>3 DEF StandsForEntry
  <1>3. ASSUME NEW d \in ListNames, Kept(d)', NEW i \in 1..at[d]
        PROVE  \E q \in Publish!Records' : StandsForLine(q, d, i)'
    <2>0. Kept(d)
      BY <1>3 DEF Kept
    <2>1. PICK q \in Publish!Records : StandsForLine(q, d, i)
      BY <1>3, <2>0 DEF Behind
    <2>2. CASE q \in Publish!Records'
      BY <2>1, <2>2 DEF StandsForLine, Publish!Rkey, Publish!valence_rkey
    <2>3. CASE q.in = r.in /\ q.rkey = r.rkey /\ r \in Publish!Records'
      <3>1. d = c /\ Publish!Rkey(c, i) = Publish!Rkey(c, k)
        BY <1>1, <2>1, <2>3 DEF StandsForLine
      <3>2. rp_lines[c] \in Seq(Line)
        BY <2>0, <3>1 DEF SourcesFit, LinesFit
      <3>3. i \in DOMAIN rp_lines[c] /\ i < k
        BY <3>1, <3>2 DEF CursorFits
      <3>4. rp_lines[c][i].id = rp_lines[c][k].id /\ rp_lines[c][i].n < rp_lines[c][k].n
        BY <2>0, <3>1, <3>3, LineKeys
      <3>5. rp_lines[c][i] \in Line /\ rp_lines[c][k] \in Line
        BY <3>2, <3>3
      <3>6. rp_lines[c][i].n \in Nat /\ rp_lines[c][k].n \in Nat
        BY <3>5 DEF Line
      <3> QED
        BY <1>1, <2>3, <3>1, <3>4, <3>6 DEF StandsForLine, Publish!Rkey, Publish!valence_rkey
    <2> QED BY <2>2, <2>3, WriteEffect
  <1> QED BY <1>2, <1>3 DEF Behind

\* What nobody touches stays as it is.
LEMMA CursorStays ==
  ASSUME NEW at, CursorFits(at), UNCHANGED <<rp_ledger, rp_lines>>
  PROVE  CursorFits(at)'
  BY DEF CursorFits

LEMMA BehindStays ==
  ASSUME NEW at, Behind(at), UNCHANGED <<rp_ledger, rp_lines, rp_moves, rp_network, rp_staged>>,
         rp_overtaken \subseteq rp_overtaken'
  PROVE  Behind(at)'
  BY DEF Behind, Kept, StandsForEntry, StandsForLine, Publish!Records, Publish!Rkey,
         Publish!valence_rkey

LEMMA SourcesStay ==
  ASSUME SourcesFit, UNCHANGED <<rp_ledger, rp_lines, rp_moves>>, CursorFits(rp_cursor)'
  PROVE  SourcesFit'
  BY DEF SourcesFit, LinesFit, Kept

LEMMA NetworkStays == NetworkFits /\ UNCHANGED rp_network => NetworkFits'
  BY DEF NetworkFits, IsRecord

\* A pass ends, well or not: what it leaves behind its cursor is all that matters.
LEMMA PassEnds ==
  ASSUME PublicationInv, rp_pass' = None, UNCHANGED <<rp_ledger, rp_lines, rp_moves>>,
         NetworkFits', NEW at, rp_cursor' = at, CursorFits(at), Behind(at)'
  PROVE  PublicationInv'
  <1>1. CursorFits(rp_cursor)'
    BY CursorStays DEF CursorFits
  <1>2. Behind(rp_cursor)'
    BY DEF Behind
  <1> QED BY <1>1, <1>2, SourcesStay DEF PublicationInv, PassFits, Told

\* A pass goes on, and its records and cursor with it.
LEMMA PassGoesOn ==
  ASSUME PublicationInv, UNCHANGED <<rp_ledger, rp_lines, rp_moves, rp_cursor>>,
         rp_pass' \in PassRecord, rp_pass'.view = rp_ledger,
         \A c \in ListNames : rp_cursor[c] <= rp_pass'.cursor[c]
                              /\ rp_pass'.length[c] <= Len(rp_lines[c]),
         rp_pass'.pc = "observations" => rp_pass'.at = rp_pass'.cursor["observations"],
         NetworkFits', NEW ahead, rp_pass'.cursor = ahead, CursorFits(ahead), Behind(ahead)',
         NEW at, rp_cursor = at, Behind(at)', Told'
  PROVE  PublicationInv'
  <1>1. CursorFits(rp_cursor)' /\ CursorFits(rp_pass.cursor)'
    BY DEF CursorFits, PublicationInv, SourcesFit
  <1>2. Behind(rp_cursor)'
    BY DEF Behind
  <1>3. Behind(rp_pass.cursor)'
    BY DEF Behind
  <1>4. PassFits'
    BY <1>1 DEF PassFits
  <1> QED BY <1>1, <1>2, <1>3, <1>4, SourcesStay DEF PublicationInv

LEMMA BeginPassKeeps ==
  ASSUME PublicationInv, NEW offline \in BOOLEAN, Publish!BeginPass(offline)
  PROVE  PublicationInv'
  <1>1. PICK at : at = rp_cursor
    OBVIOUS
  <1>2. /\ UNCHANGED <<rp_ledger, rp_lines, rp_moves, rp_cursor, rp_network, rp_staged, rp_overtaken>>
        /\ rp_pass' = [pc |-> "recheck", offline |-> offline, view |-> rp_ledger,
                       cursor |-> rp_cursor,
                       at |-> IF rp_cursor.observations > RecheckWindow
                              THEN rp_cursor.observations - RecheckWindow ELSE 1,
                       length |-> Publish!NoCursor, written |-> 0]
    BY DEF Publish!BeginPass, Publish!source_state
  <1>3. CursorFits(at) /\ at \in [Fields -> Nat] /\ at["observations"] \in Nat \ {0}
        /\ rp_ledger \in Seq(Entry) /\ at.observations = at["observations"]
        /\ \A c \in ListNames : Len(rp_lines[c]) \in Nat
    BY <1>1 DEF PublicationInv, SourcesFit, LinesFit, CursorFits, Fields
  <1>4. Publish!NoCursor \in [Fields -> Nat] /\ \A c \in ListNames : Publish!NoCursor[c] = 0
    BY DEF Publish!NoCursor, Fields, ListNames
  <1>5. rp_pass' \in PassRecord
    BY <1>1, <1>2, <1>3, <1>4, KeySizes DEF PassRecord
  <1>6. Behind(at)'
    BY <1>1, <1>2, BehindStays DEF PublicationInv
  <1>7. Told'
    <2>1. rp_pass'.pc = "recheck" /\ rp_pass'.cursor = at /\ rp_cursor.observations = at["observations"]
      BY <1>1, <1>2, <1>3
    <2>2. ASSUME NEW id \in 1..(at["observations"] - 1), id + RecheckWindow >= at["observations"]
          PROVE  ~ (id < rp_pass'.at)
      BY <1>2, <1>3, <2>1, <2>2, KeySizes
    <2> QED BY <2>1, <2>2 DEF Told
  <1>8. /\ rp_pass'.view = rp_ledger /\ rp_pass'.cursor = at /\ rp_pass'.pc = "recheck"
        /\ rp_pass'.length = Publish!NoCursor
    BY <1>1, <1>2
  <1>9. \A c \in ListNames : rp_cursor[c] <= at[c] /\ 0 <= Len(rp_lines[c])
    BY <1>1, <1>3 DEF CursorFits
  <1>10. NetworkFits'
    BY <1>2, NetworkStays DEF PublicationInv
  <1> QED BY <1>1, <1>2, <1>3, <1>4, <1>5, <1>6, <1>7, <1>8, <1>9, <1>10, PassGoesOn

\* The least member of a set of numbers.
LEMMA MinIsLeast ==
  ASSUME NEW S \in SUBSET Nat, S # {}
  PROVE  Publish!Min(S) \in S /\ \A y \in S : Publish!Min(S) <= y
  BY LeastNatural DEF Publish!Min

LEMMA EntryRecord ==
  ASSUME SourcesFit, NEW id \in 1..Len(rp_ledger)
  PROVE  IsRecord(Publish!serialise_observation_record(id, rp_ledger[id]))
  <1>1. id \in 1..(Publish!Keys - 1) /\ rp_ledger[id] \in Entry
    BY KeysAreMany DEF SourcesFit
  <1> QED BY <1>1 DEF IsRecord, Publish!serialise_observation_record

\* A writer that throws ends the pass, whatever it wrote.
LEMMA FailedKeeps ==
  ASSUME PublicationInv, rp_pass # None, NEW r, IsRecord(r), NEW at,
         at = rp_cursor \/ at = rp_pass.cursor, WrittenOrNot(r) => Behind(at)',
         Publish!Failed(r, at)
  PROVE  PublicationInv'
  <1>1. WrittenOrNot(r) /\ rp_cursor' = at /\ rp_pass' = None
        /\ UNCHANGED <<rp_ledger, rp_lines, rp_moves>>
    BY DEF Publish!Failed, WrittenOrNot, Publish!source_state
  <1>2. CursorFits(at)
    BY DEF PublicationInv, SourcesFit, PassFits
  <1>3. NetworkFits'
    BY <1>1, WriteKeepsNetwork DEF PublicationInv, IsRecord
  <1> QED BY <1>1, <1>2, <1>3, PassEnds

LEMMA RecheckedIs ==
  ASSUME PublicationInv, rp_pass # None
  PROVE  /\ Publish!Rechecked =
              {id \in rp_pass.at..(rp_pass.cursor["observations"] - 1) :
                 id <= Len(rp_ledger) /\ rp_ledger[id].outcome = "withdrawn"}
         /\ rp_pass \in PassRecord /\ rp_pass.view = rp_ledger /\ rp_ledger \in Seq(Entry)
         /\ rp_pass.at \in Nat /\ rp_pass.cursor \in [Fields -> Nat]
         /\ rp_pass.cursor.observations = rp_pass.cursor["observations"]
         /\ rp_pass.cursor["observations"] \in 1..(Len(rp_ledger) + 1)
         /\ Len(rp_ledger) \in Nat
  BY DEF PublicationInv, PassFits, SourcesFit, CursorFits, PassRecord, Fields,
         Publish!Rechecked

LEMMA RecheckKeeps ==
  ASSUME PublicationInv, Publish!Recheck
  PROVE  PublicationInv'
  <1>1. rp_pass # None /\ rp_pass.pc = "recheck" /\ Publish!Rechecked # {}
    BY DEF Publish!Recheck
  <1>2. PICK id : id = Publish!Min(Publish!Rechecked)
    OBVIOUS
  <1>3. /\ Publish!Rechecked \in SUBSET Nat /\ id \in Publish!Rechecked
        /\ \A y \in Publish!Rechecked : id <= y
    <2>1. Publish!Rechecked \in SUBSET Nat
      BY <1>1, RecheckedIs
    <2> QED BY <1>1, <1>2, <2>1, MinIsLeast
  <1>4. id \in Nat /\ rp_pass.at <= id /\ id <= Len(rp_ledger)
        /\ rp_ledger[id].outcome = "withdrawn"
    BY <1>1, <1>3, RecheckedIs
  <1>5. id \in 1..Len(rp_ledger)
    <2>1. rp_pass.at \in Nat \ {0}
      BY <1>1, RecheckedIs DEF PassRecord
    <2> QED BY <1>1, <1>4, <2>1, RecheckedIs
  <1>6. PICK r : r = Publish!serialise_observation_record(id, rp_ledger[id])
    OBVIOUS
  <1>7. /\ r.in = "observations" /\ r.rkey = Publish!observation_rkey(id)
        /\ r.what.outcome = "withdrawn" /\ IsRecord(r)
    BY <1>4, <1>5, <1>6, EntryRecord DEF Publish!serialise_observation_record, PublicationInv
  <1>8. \/ /\ Publish!Written(r)
           /\ rp_pass' = [rp_pass EXCEPT !.at = id + 1]
           /\ UNCHANGED <<rp_ledger, rp_lines, rp_moves, rp_cursor, rp_overtaken, rp_faults>>
        \/ Publish!Failed(r, rp_cursor)
    BY <1>1, <1>2, <1>6, RecheckedIs DEF Publish!Recheck, Publish!source_state
  <1>9. ASSUME NEW at, CursorFits(at), Behind(at), WrittenOrNot(r),
               UNCHANGED <<rp_ledger, rp_lines, rp_moves, rp_overtaken>>
        PROVE  Behind(at)'
    BY <1>5, <1>6, <1>9, EntryPut DEF PublicationInv
  <1>10. CASE Publish!Failed(r, rp_cursor)
    <2>1. PICK at : at = rp_cursor
      OBVIOUS
    <2>2. CursorFits(at) /\ Behind(at)
      BY <2>1 DEF PublicationInv, SourcesFit
    <2>3. WrittenOrNot(r) => Behind(at)'
      BY <1>9, <1>10, <2>2 DEF Publish!Failed, Publish!source_state
    <2> QED BY <1>1, <1>7, <1>10, <2>1, <2>3, FailedKeeps
  <1>11. CASE /\ Publish!Written(r)
              /\ rp_pass' = [rp_pass EXCEPT !.at = id + 1]
              /\ UNCHANGED <<rp_ledger, rp_lines, rp_moves, rp_cursor, rp_overtaken, rp_faults>>
    <2>1. PICK at : at = rp_cursor
      OBVIOUS
    <2>2. PICK ahead : ahead = rp_pass.cursor
      OBVIOUS
    <2>3. WrittenOrNot(r)
      BY <1>11 DEF WrittenOrNot
    <2>4. CursorFits(at) /\ Behind(at) /\ CursorFits(ahead) /\ Behind(ahead)
      BY <1>1, <2>1, <2>2 DEF PublicationInv, SourcesFit, PassFits
    <2>5. Behind(at)' /\ Behind(ahead)'
      BY <1>9, <1>11, <2>3, <2>4
    <2>6. NetworkFits'
      BY <1>7, <2>3, WriteKeepsNetwork DEF PublicationInv, IsRecord
    <2>7. /\ rp_pass' \in PassRecord /\ rp_pass'.view = rp_pass.view /\ rp_pass'.at = id + 1
          /\ rp_pass'.cursor = rp_pass.cursor /\ rp_pass'.length = rp_pass.length
          /\ rp_pass'.pc = "recheck" /\ rp_pass'.offline = rp_pass.offline
      <3>1. rp_pass \in PassRecord /\ id + 1 \in Nat \ {0}
        BY <1>1, <1>4, RecheckedIs
      <3> QED BY <1>1, <1>11, <3>1 DEF PassRecord
    <2>8. Told'
      <3>1. ASSUME NEW j \in 1..(rp_pass.cursor["observations"] - 1),
                   j + RecheckWindow >= rp_pass.cursor["observations"], j <= Len(rp_ledger),
                   j < id + 1, rp_ledger[j].outcome = "withdrawn",
                   NEW q \in Sink', q.in = "observations",
                   q.rkey = Publish!observation_rkey(j)
            PROVE  q.what.outcome = "withdrawn"
        <4>1. Sink' = Publish!put_record(Sink, r)
          BY <1>11, <2>7 DEF Sink, Publish!Written
        <4>2. CASE q = r
          BY <1>7, <4>2
        <4>3. CASE q # r
          <5>1. q \in Sink /\ q.rkey # r.rkey
            BY <1>7, <3>1, <4>1, <4>3 DEF Publish!put_record
          <5>2. j # id /\ j < id
            BY <1>4, <1>7, <3>1, <5>1
          <5>3. j < rp_pass.at
            <6>1. j \notin Publish!Rechecked
              BY <1>3, <1>4, <5>2
            <6> QED BY <1>1, <3>1, <6>1, RecheckedIs
          <5>4. TellsOf(j)
            BY <1>1, <3>1, <5>3 DEF PublicationInv, Told
          <5> QED BY <3>1, <5>1, <5>4 DEF TellsOf
        <4> QED BY <4>2, <4>3
      <3>2. rp_ledger' = rp_ledger /\ rp_pass'.cursor = rp_pass.cursor /\ rp_pass'.at = id + 1
            /\ rp_pass'.pc = "recheck"
        BY <1>11, <2>7
      <3> QED BY <3>1, <3>2 DEF Told, TellsOf
    <2>9. \A c \in ListNames : rp_cursor[c] <= rp_pass'.cursor[c]
                                /\ rp_pass'.length[c] <= Len(rp_lines[c])
      BY <1>1, <2>7 DEF PublicationInv, PassFits
    <2>10. rp_pass'.view = rp_ledger
      BY <1>1, <2>7, RecheckedIs
    <2> QED
      BY <1>11, <2>1, <2>2, <2>4, <2>5, <2>6, <2>7, <2>8, <2>9, <2>10, PassGoesOn
  <1> QED BY <1>8, <1>10, <1>11

LEMMA RecheckDoneKeeps ==
  ASSUME PublicationInv, Publish!RecheckDone
  PROVE  PublicationInv'
  <1>1. /\ rp_pass # None /\ rp_pass.pc = "recheck" /\ Publish!Rechecked = {}
        /\ rp_pass' = [rp_pass EXCEPT !.pc = "observations",
                                      !.at = rp_pass.cursor.observations]
        /\ UNCHANGED <<rp_ledger, rp_lines, rp_moves, rp_cursor, rp_network, rp_staged,
                       rp_overtaken>>
    BY DEF Publish!RecheckDone, Publish!source_state
  <1>2. PICK at : at = rp_cursor
    OBVIOUS
  <1>3. PICK ahead : ahead = rp_pass.cursor
    OBVIOUS
  <1>4. CursorFits(at) /\ Behind(at)' /\ CursorFits(ahead) /\ Behind(ahead)'
    BY <1>1, <1>2, <1>3, BehindStays DEF PublicationInv, SourcesFit, PassFits
  <1>5. /\ rp_pass' \in PassRecord /\ rp_pass'.view = rp_pass.view
        /\ rp_pass'.at = rp_pass.cursor["observations"]
        /\ rp_pass'.cursor = rp_pass.cursor /\ rp_pass'.length = rp_pass.length
        /\ rp_pass'.pc = "observations" /\ rp_pass'.offline = rp_pass.offline
    <2>1. rp_pass \in PassRecord /\ rp_pass.cursor.observations \in Nat \ {0}
          /\ rp_pass.cursor.observations = rp_pass.cursor["observations"]
      BY <1>1, RecheckedIs
    <2> QED BY <1>1, <2>1 DEF PassRecord
  <1>6. Told'
    <2>1. Sink' = Sink /\ rp_ledger' = rp_ledger /\ rp_pass'.cursor = rp_pass.cursor
      BY <1>1, <1>5 DEF Sink
    <2>2. ASSUME NEW j \in 1..(rp_pass.cursor["observations"] - 1),
                 j + RecheckWindow >= rp_pass.cursor["observations"], j <= Len(rp_ledger),
                 rp_ledger[j].outcome = "withdrawn"
          PROVE  TellsOf(j)
      <3>1. j < rp_pass.at
        BY <1>1, <2>2, RecheckedIs
      <3> QED BY <1>1, <2>2, <3>1 DEF PublicationInv, Told
    <2> QED BY <2>1, <2>2 DEF Told, TellsOf
  <1>7. \A c \in ListNames : rp_cursor[c] <= rp_pass'.cursor[c]
                             /\ rp_pass'.length[c] <= Len(rp_lines[c])
    BY <1>1, <1>5 DEF PublicationInv, PassFits
  <1>8. rp_pass'.view = rp_ledger /\ rp_pass'.at = rp_pass'.cursor["observations"]
    BY <1>1, <1>5, RecheckedIs
  <1>9. NetworkFits'
    BY <1>1, NetworkStays DEF PublicationInv
  <1> QED BY <1>1, <1>2, <1>3, <1>4, <1>5, <1>6, <1>7, <1>8, <1>9, PassGoesOn

LEMMA PublishableIs ==
  ASSUME PublicationInv, rp_pass # None
  PROVE  Publish!Publishable =
           {id \in rp_pass.at..Len(rp_ledger) :
              rp_ledger[id].outcome \in {"learned", "withdrawn"}}
  BY DEF PublicationInv, PassFits, Publish!Publishable, Publish!Committed

\* The next committed entry is put; what the cursor passes on the way is PENDING.
LEMMA PublishObservationKeeps ==
  ASSUME PublicationInv, Publish!PublishObservation
  PROVE  PublicationInv'
  <1>1. rp_pass # None /\ rp_pass.pc = "observations" /\ Publish!Publishable # {}
    BY DEF Publish!PublishObservation
  <1>2. PICK id : id = Publish!Min(Publish!Publishable)
    OBVIOUS
  <1>3. /\ id \in Publish!Publishable /\ \A y \in Publish!Publishable : id <= y
    <2>1. Publish!Publishable \in SUBSET Nat
      BY <1>1, PublishableIs, RecheckedIs
    <2> QED BY <1>1, <1>2, <2>1, MinIsLeast
  <1>4. /\ rp_pass.at = rp_pass.cursor["observations"] /\ rp_pass.at \in Nat \ {0}
        /\ rp_pass \in PassRecord
    BY <1>1, RecheckedIs DEF PublicationInv, PassFits, PassRecord
  <1>5. /\ id \in 1..Len(rp_ledger) /\ rp_pass.at <= id
        /\ rp_ledger[id].outcome \in {"learned", "withdrawn"}
    BY <1>1, <1>3, <1>4, PublishableIs, RecheckedIs
  <1>6. PICK r : r = Publish!serialise_observation_record(id, rp_ledger[id])
    OBVIOUS
  <1>7. /\ r.in = "observations" /\ r.rkey = Publish!observation_rkey(id)
        /\ r.what = rp_ledger[id] /\ IsRecord(r)
    BY <1>5, <1>6, EntryRecord DEF Publish!serialise_observation_record, PublicationInv
  <1>8. \/ /\ Publish!Written(r)
           /\ rp_pass' = [rp_pass EXCEPT !.at = id + 1, !.cursor.observations = id + 1,
                                         !.written = @ + 1]
           /\ rp_overtaken' = rp_overtaken \cup rp_pass.at..(id - 1)
           /\ UNCHANGED <<rp_ledger, rp_lines, rp_moves, rp_cursor, rp_faults>>
        \/ Publish!Failed(r, rp_pass.cursor)
    BY <1>1, <1>2, <1>6, RecheckedIs DEF Publish!PublishObservation, Publish!source_state
  <1>9. ASSUME NEW at, CursorFits(at), Behind(at), WrittenOrNot(r),
               UNCHANGED <<rp_ledger, rp_lines, rp_moves>>,
               rp_overtaken \subseteq rp_overtaken'
        PROVE  Behind(at)'
    BY <1>5, <1>6, <1>9, EntryPut DEF PublicationInv
  <1>10. PICK ahead : ahead = rp_pass.cursor
    OBVIOUS
  <1>11. CursorFits(ahead) /\ Behind(ahead)
    BY <1>1, <1>10 DEF PublicationInv, PassFits
  <1>12. CASE Publish!Failed(r, rp_pass.cursor)
    <2>1. WrittenOrNot(r) => Behind(ahead)'
      BY <1>9, <1>11, <1>12 DEF Publish!Failed, Publish!source_state
    <2> QED BY <1>1, <1>7, <1>10, <1>12, <2>1, FailedKeeps
  <1>13. CASE /\ Publish!Written(r)
              /\ rp_pass' = [rp_pass EXCEPT !.at = id + 1, !.cursor.observations = id + 1,
                                            !.written = @ + 1]
              /\ rp_overtaken' = rp_overtaken \cup rp_pass.at..(id - 1)
              /\ UNCHANGED <<rp_ledger, rp_lines, rp_moves, rp_cursor, rp_faults>>
    <2>1. PICK at : at = rp_cursor
      OBVIOUS
    <2>2. PICK next : next = [ahead EXCEPT !["observations"] = id + 1]
      OBVIOUS
    <2>3. WrittenOrNot(r) /\ r \in Publish!Records'
      BY <1>13, WriteEffect DEF WrittenOrNot
    <2>4. CursorFits(at) /\ Behind(at)
      BY <2>1 DEF PublicationInv, SourcesFit
    <2>5. Behind(at)' /\ Behind(ahead)'
      BY <1>9, <1>11, <1>13, <2>3, <2>4
    <2>6. NetworkFits'
      BY <1>7, <2>3, WriteKeepsNetwork DEF PublicationInv, IsRecord
    <2>7. /\ ahead \in [Fields -> Nat] /\ "observations" \in Fields /\ ahead["observations"] = rp_pass.at
          /\ next["observations"] = id + 1 /\ \A c \in ListNames : next[c] = ahead[c]
          /\ next \in [Fields -> Nat]
      BY <1>4, <1>5, <1>10, <1>11, <2>2 DEF CursorFits, Fields, ListNames
    <2>8. CursorFits(next)
      BY <1>5, <1>11, <2>7 DEF CursorFits
    <2>9. Behind(next)'
      <3>1. ASSUME NEW j \in 1..(next["observations"] - 1), j \notin rp_overtaken'
            PROVE  \E q \in Publish!Records' : StandsForEntry(q, j)'
        <4>1. CASE j < rp_pass.at
          BY <1>4, <2>5, <2>7, <3>1, <4>1 DEF Behind
        <4>2. CASE j = id
          BY <1>7, <1>13, <2>3, <4>2 DEF StandsForEntry
        <4>3. j < rp_pass.at \/ j = id
          BY <1>4, <1>5, <1>13, <2>7, <3>1
        <4> QED BY <4>1, <4>2, <4>3
      <3> QED BY <2>5, <2>7, <3>1 DEF Behind
    <2>10. /\ rp_pass' \in PassRecord /\ rp_pass'.view = rp_pass.view /\ rp_pass'.at = id + 1
           /\ rp_pass'.cursor = next /\ rp_pass'.length = rp_pass.length
           /\ rp_pass'.pc = "observations" /\ rp_pass'.offline = rp_pass.offline
      <3>1. id + 1 \in Nat \ {0}
        BY <1>5
      <3> DEFINE cursor == [rp_pass.cursor EXCEPT !.observations = id + 1]
                 n == rp_pass.written + 1
      <3>2. rp_pass' = [rp_pass EXCEPT !.at = id + 1, !.cursor = cursor, !.written = n]
        BY <1>13
      <3>3. cursor = next
        BY <1>10, <2>2
      <3>4. n \in Nat
        BY <1>4 DEF PassRecord
      <3> HIDE DEF cursor, n
      <3> QED BY <1>1, <1>4, <2>7, <3>1, <3>2, <3>3, <3>4 DEF PassRecord
    <2>11. Told'
      <3>1. ASSUME NEW j \in 1..(next["observations"] - 1),
                   j + RecheckWindow >= next["observations"], j <= Len(rp_ledger),
                   rp_ledger[j].outcome = "withdrawn",
                   NEW q \in Sink', q.in = "observations",
                   q.rkey = Publish!observation_rkey(j)
            PROVE  q.what.outcome = "withdrawn"
        <4>1. Sink' = Publish!put_record(Sink, r)
          BY <1>13, <2>10 DEF Sink, Publish!Written
        <4>2. j \in 0..(Publish!Keys - 1) /\ id \in 0..(Publish!Keys - 1)
          BY <1>5, <3>1, KeysAreMany DEF PublicationInv, SourcesFit
        <4>3. CASE q = r
          <5>1. j = id
            BY <1>7, <3>1, <4>2, <4>3, EntryKeys
          <5> QED BY <1>7, <3>1, <4>3, <5>1
        <4>4. CASE q # r
          <5>1. q \in Sink /\ q.rkey # r.rkey
            BY <1>7, <3>1, <4>1, <4>4 DEF Publish!put_record
          <5>2. j # id /\ j < id
            BY <1>5, <1>7, <2>7, <3>1, <5>1
          <5>3. j < rp_pass.at
            <6>1. j \notin Publish!Publishable
              BY <1>3, <1>5, <5>2
            <6> QED BY <1>1, <3>1, <6>1, PublishableIs, RecheckedIs
          <5>4. TellsOf(j)
            <6>1. j + RecheckWindow >= rp_pass.cursor["observations"]
              BY <1>4, <1>5, <2>7, <3>1, KeySizes
            <6> QED BY <1>1, <1>4, <3>1, <5>3, <6>1 DEF PublicationInv, Told
          <5> QED BY <3>1, <5>1, <5>4 DEF TellsOf
        <4> QED BY <4>3, <4>4
      <3>2. rp_ledger' = rp_ledger /\ rp_pass'.cursor = next
        BY <1>13, <2>10
      <3> QED BY <3>1, <3>2 DEF Told, TellsOf
    <2>12. \A c \in ListNames : rp_cursor[c] <= rp_pass'.cursor[c]
                                /\ rp_pass'.length[c] <= Len(rp_lines[c])
      BY <1>1, <1>10, <2>7, <2>10 DEF PublicationInv, PassFits
    <2>13. rp_pass'.view = rp_ledger /\ rp_pass'.at = rp_pass'.cursor["observations"]
      BY <1>1, <2>7, <2>10, RecheckedIs
    <2> QED
      BY <1>13, <2>1, <2>5, <2>6, <2>8, <2>9, <2>10, <2>11, <2>12, <2>13, PassGoesOn
  <1> QED BY <1>8, <1>12, <1>13

LEMMA ObservationsDoneKeeps ==
  ASSUME PublicationInv, Publish!ObservationsDone
  PROVE  PublicationInv'
  <1> DEFINE length == [c \in ListNames |-> IF c = "thoughts" THEN 0 ELSE Len(rp_lines[c])]
  <1>1. /\ rp_pass # None /\ rp_pass.pc = "observations"
        /\ rp_pass' = [rp_pass EXCEPT !.pc = "actions", !.length = length]
        /\ UNCHANGED <<rp_ledger, rp_lines, rp_moves, rp_cursor, rp_network, rp_staged,
                       rp_overtaken>>
    BY ListsNamed DEF Publish!ObservationsDone, Publish!source_state
  <1>2. PICK at : at = rp_cursor
    OBVIOUS
  <1>3. PICK ahead : ahead = rp_pass.cursor
    OBVIOUS
  <1>4. CursorFits(at) /\ Behind(at)' /\ CursorFits(ahead) /\ Behind(ahead)'
    BY <1>1, <1>2, <1>3, BehindStays DEF PublicationInv, SourcesFit, PassFits
  <1>5. \A c \in ListNames : Len(rp_lines[c]) \in Nat
    BY DEF PublicationInv, SourcesFit, LinesFit
  <1>6. length \in [ListNames -> Nat] /\ \A c \in ListNames : length[c] <= Len(rp_lines[c])
    BY <1>5
  <1> HIDE DEF length
  <1>7. /\ rp_pass' \in PassRecord /\ rp_pass'.view = rp_pass.view
        /\ rp_pass'.cursor = rp_pass.cursor /\ rp_pass'.length = length
        /\ rp_pass'.pc = "actions" /\ rp_pass'.offline = rp_pass.offline
    BY <1>1, <1>6, RecheckedIs DEF PassRecord, ListNames
  <1>8. Told'
    <2>1. Sink' = Sink
      BY <1>1, <1>7 DEF Sink
    <2>2. rp_ledger' = rp_ledger /\ rp_pass'.cursor = rp_pass.cursor
      BY <1>1, <1>7
    <2> QED BY <1>1, <2>1, <2>2 DEF PublicationInv, Told, TellsOf
  <1>9. \A c \in ListNames : rp_cursor[c] <= rp_pass'.cursor[c]
                             /\ rp_pass'.length[c] <= Len(rp_lines[c])
    BY <1>1, <1>6, <1>7 DEF PublicationInv, PassFits
  <1>10. rp_pass'.view = rp_ledger
    BY <1>1, <1>7, RecheckedIs
  <1>11. NetworkFits'
    BY <1>1, NetworkStays DEF PublicationInv
  <1> QED BY <1>1, <1>2, <1>3, <1>4, <1>7, <1>8, <1>9, <1>10, <1>11, PassGoesOn

\* A line's record is put, and the pass's cursor follows it.
LEMMA PublishLineKeeps ==
  ASSUME PublicationInv, NEW c \in ListNames, Publish!PublishLine(c)
  PROVE  PublicationInv'
  <1>1. PICK k : k = rp_pass.cursor[c] + 1
    OBVIOUS
  <1>2. PICK r : r = Publish!serialise_record(c, k)
    OBVIOUS
  <1>3. PICK ahead : ahead = rp_pass.cursor
    OBVIOUS
  <1>4. PICK at : at = rp_cursor
    OBVIOUS
  <1>5. /\ rp_pass # None /\ rp_pass.pc = c /\ ahead[c] < rp_pass.length[c]
        /\ UNCHANGED <<rp_ledger, rp_lines, rp_moves, rp_overtaken>>
        /\ \/ /\ Publish!usable_rkey(c) /\ Publish!Written(r)
              /\ rp_pass' = [rp_pass EXCEPT !.cursor[c] = @ + 1, !.written = @ + 1]
              /\ UNCHANGED rp_cursor
           \/ Publish!usable_rkey(c) /\ Publish!Failed(r, rp_pass.cursor)
           \/ /\ rp_cursor' = ahead /\ rp_pass' = None
              /\ UNCHANGED <<rp_network, rp_staged>>
    BY <1>1, <1>2, <1>3
    DEF Publish!PublishLine, Publish!Failed, Publish!source_state
  <1>6. /\ CursorFits(at) /\ Behind(at) /\ CursorFits(ahead) /\ Behind(ahead)
        /\ rp_pass \in PassRecord /\ rp_pass.view = rp_ledger
        /\ rp_pass.length[c] <= Len(rp_lines[c]) /\ rp_cursor[c] <= ahead[c]
    BY <1>3, <1>4, <1>5 DEF PublicationInv, SourcesFit, PassFits
  <1>7. k \in Nat /\ k = ahead[c] + 1 /\ k \in DOMAIN rp_lines[c] /\ at[c] < k /\ ahead[c] < k
    <2>1. PICK V : rp_lines[c] \in Seq(V)
      BY DEF PublicationInv, SourcesFit, LinesFit
    <2>2. ahead[c] \in Nat /\ at[c] \in Nat /\ rp_pass.length[c] \in Nat
      BY <1>6 DEF CursorFits, Fields, PassRecord
    <2> QED BY <1>1, <1>3, <1>4, <1>5, <1>6, <2>1, <2>2
  <1>8. ASSUME NEW a, a = at \/ a = ahead, WrittenOrNot(r) PROVE Behind(a)'
    BY <1>2, <1>5, <1>6, <1>7, <1>8, LinePut DEF PublicationInv
  <1>9. /\ r.in = c /\ r.rkey = Publish!Rkey(c, k) /\ r.what = rp_lines[c][k]
        /\ Kept(c) => rp_lines[c] \in Seq(Line) /\ r.what \in Line
    BY <1>2, <1>7 DEF Publish!serialise_record, PublicationInv, SourcesFit, LinesFit
  <1>10. ASSUME Publish!usable_rkey(c) PROVE IsRecord(r)
    <2>1. CASE c = "valence"
      BY <1>2, <2>1 DEF IsRecord, Publish!serialise_record
    <2>2. CASE c # "valence"
      <3>1. r.what \in Line /\ r = [in |-> c, rkey |-> <<r.what.id>>, what |-> r.what]
        BY <1>2, <1>9, <2>2 DEF Kept, Publish!serialise_record, Publish!Rkey
      <3> QED BY <2>2, <3>1 DEF IsRecord
    <2> QED BY <2>1, <2>2
  <1>11. CASE Publish!usable_rkey(c) /\ Publish!Failed(r, rp_pass.cursor)
    BY <1>3, <1>5, <1>8, <1>10, <1>11, FailedKeeps
  <1>12. CASE /\ rp_cursor' = ahead /\ rp_pass' = None
              /\ UNCHANGED <<rp_network, rp_staged>>
    <2>1. Behind(ahead)' /\ NetworkFits'
      BY <1>5, <1>6, <1>12, BehindStays, NetworkStays DEF PublicationInv
    <2> QED BY <1>5, <1>6, <1>12, <2>1, PassEnds
  <1>13. CASE /\ Publish!usable_rkey(c) /\ Publish!Written(r)
              /\ rp_pass' = [rp_pass EXCEPT !.cursor[c] = @ + 1, !.written = @ + 1]
              /\ UNCHANGED rp_cursor
    <2>1. PICK next : next = [ahead EXCEPT ![c] = k]
      OBVIOUS
    <2>2. WrittenOrNot(r) /\ r \in Publish!Records'
      BY <1>13, WriteEffect DEF WrittenOrNot
    <2>3. Behind(at)' /\ Behind(ahead)'
      BY <1>8, <2>2
    <2>4. NetworkFits'
      BY <1>10, <1>13, <2>2, WriteKeepsNetwork DEF PublicationInv, IsRecord
    <2>5. /\ ahead \in [Fields -> Nat] /\ c \in Fields /\ c # "observations"
          /\ next["observations"] = ahead["observations"]
          /\ next[c] = k /\ \A d \in ListNames : d # c => next[d] = ahead[d]
          /\ next \in [Fields -> Nat]
      BY <1>6, <1>7, <2>1 DEF CursorFits, Fields, ListNames
    <2>6. CursorFits(next)
      <3>1. PICK V : rp_lines[c] \in Seq(V)
        BY DEF PublicationInv, SourcesFit, LinesFit
      <3>2. k \in 0..Len(rp_lines[c])
        BY <1>7, <3>1
      <3> QED BY <1>6, <2>5, <3>2 DEF CursorFits
    <2>7. Behind(next)'
      <3>1. ASSUME NEW d \in ListNames, Kept(d)', NEW i \in 1..next[d]
            PROVE  \E q \in Publish!Records' : StandsForLine(q, d, i)'
        <4>1. CASE d = c /\ i = k
          <5>1. r.what \in Line /\ rp_lines[c][k].n >= rp_lines[c][k].n
            BY <1>5, <1>9, <3>1, <4>1 DEF Kept, Line
          <5> QED
            BY <1>5, <1>9, <2>2, <4>1, <5>1
            DEF StandsForLine, Publish!Rkey, Publish!valence_rkey
        <4>2. CASE ~ (d = c /\ i = k)
          <5>1. i \in 1..ahead[d]
            BY <1>6, <1>7, <2>5, <3>1, <4>2 DEF CursorFits
          <5> QED BY <2>3, <3>1, <5>1 DEF Behind
        <4> QED BY <4>1, <4>2
      <3> QED BY <2>3, <2>5, <3>1 DEF Behind
    <2>8. /\ rp_pass' \in PassRecord /\ rp_pass'.view = rp_pass.view
          /\ rp_pass'.cursor = next /\ rp_pass'.length = rp_pass.length
          /\ rp_pass'.pc = c /\ rp_pass'.offline = rp_pass.offline
      <3> DEFINE cursor == [rp_pass.cursor EXCEPT ![c] = rp_pass.cursor[c] + 1]
                 n == rp_pass.written + 1
      <3>1. rp_pass' = [rp_pass EXCEPT !.cursor = cursor, !.written = n]
        BY <1>13
      <3>2. cursor = next
        BY <1>1, <1>3, <2>1
      <3>3. n \in Nat
        BY <1>6 DEF PassRecord
      <3> HIDE DEF cursor, n
      <3> QED BY <1>5, <1>6, <2>5, <3>1, <3>2, <3>3 DEF PassRecord
    <2>9. Told'
      <3>1. ASSUME NEW q \in Sink', q.in = "observations" PROVE q \in Sink
        <4>1. Sink' = Publish!put_record(Sink, r)
          BY <1>13, <2>8 DEF Sink, Publish!Written
        <4>2. q # r
          BY <1>9, <2>5, <3>1
        <4> QED BY <3>1, <4>1, <4>2 DEF Publish!put_record
      <3>3. /\ rp_ledger' = rp_ledger /\ rp_pass.pc # "recheck"
            /\ rp_pass'.cursor["observations"] = rp_pass.cursor["observations"]
        BY <1>3, <1>5, <2>5, <2>8 DEF ListNames
      <3>4. \A j \in 1..(rp_pass.cursor["observations"] - 1) :
              TellsOf(j) => TellsOf(j)'
        BY <3>1 DEF TellsOf
      <3> QED BY <1>5, <3>3, <3>4 DEF PublicationInv, Told
    <2>10. \A d \in ListNames : rp_cursor[d] <= rp_pass'.cursor[d]
                                /\ rp_pass'.length[d] <= Len(rp_lines[d])
      <3>1. \A d \in ListNames : rp_cursor[d] <= ahead[d] /\ rp_pass.length[d] <= Len(rp_lines[d])
        BY <1>3, <1>5 DEF PublicationInv, PassFits
      <3>2. \A d \in ListNames : rp_cursor[d] \in Nat /\ ahead[d] \in Nat
        BY <1>4, <1>6 DEF CursorFits, Fields
      <3> QED BY <1>7, <2>5, <2>8, <3>1, <3>2
    <2>11. rp_pass'.view = rp_ledger /\ rp_pass'.pc # "observations"
      BY <1>6, <2>5, <2>8
    <2> QED
      BY <1>4, <1>5, <1>6, <1>13, <2>3, <2>4, <2>6, <2>7, <2>8, <2>9, <2>10, <2>11, PassGoesOn
  <1> QED BY <1>5, <1>11, <1>12, <1>13

LEMMA ListDoneKeeps ==
  ASSUME PublicationInv, NEW k \in 1..4, Publish!ListDone(k)
  PROVE  PublicationInv'
  <1>1. /\ rp_pass # None /\ rp_pass.pc = Publish!Lists[k] /\ Publish!Lists[k] \in ListNames
        /\ UNCHANGED <<rp_ledger, rp_lines, rp_moves, rp_network, rp_staged, rp_overtaken>>
    BY ListsNamed DEF Publish!ListDone, Publish!source_state
  <1>2. PICK at : at = rp_cursor
    OBVIOUS
  <1>3. PICK ahead : ahead = rp_pass.cursor
    OBVIOUS
  <1>4. /\ CursorFits(at) /\ Behind(at)' /\ CursorFits(ahead) /\ Behind(ahead)'
        /\ rp_pass \in PassRecord
    BY <1>1, <1>2, <1>3, BehindStays DEF PublicationInv, SourcesFit, PassFits
  <1>5. NetworkFits'
    BY <1>1, NetworkStays DEF PublicationInv
  <1>6. CASE k = 4
    <2>1. rp_pass' = None /\ rp_cursor' = ahead
      BY <1>3, <1>6, ListsNamed DEF Publish!ListDone
    <2> QED BY <1>1, <1>4, <1>5, <2>1, PassEnds
  <1>7. CASE k # 4
    <2> DEFINE length == [rp_pass.length EXCEPT !["thoughts"] = Len(rp_lines["thoughts"])]
    <2>1. /\ rp_pass' = [rp_pass EXCEPT !.pc = Publish!Lists[k + 1], !.length = length]
          /\ rp_cursor' = rp_cursor /\ Publish!Lists[k + 1] \in ListNames
      <3>1. k < 4 /\ k + 1 \in 1..4
        BY <1>7
      <3> QED BY <3>1, ListsNamed DEF Publish!ListDone
    <2>2. \A c \in ListNames : Len(rp_lines[c]) \in Nat
      BY DEF PublicationInv, SourcesFit, LinesFit
    <2>3. /\ length \in [Fields -> Nat] \cup [ListNames -> Nat]
          /\ \A c \in ListNames : length[c] <= Len(rp_lines[c])
      <3>1. \A c \in ListNames : rp_pass.length[c] <= Len(rp_lines[c])
        BY <1>1 DEF PublicationInv, PassFits
      <3>2. rp_pass.length \in [Fields -> Nat] \cup [ListNames -> Nat]
        BY <1>4 DEF PassRecord
      <3> QED BY <2>2, <3>1, <3>2 DEF Fields, ListNames
    <2> HIDE DEF length
    <2>4. /\ rp_pass' \in PassRecord /\ rp_pass'.view = rp_pass.view
          /\ rp_pass'.cursor = rp_pass.cursor /\ rp_pass'.length = length
          /\ rp_pass'.pc \in ListNames /\ rp_pass'.offline = rp_pass.offline
      BY <1>4, <2>1, <2>3 DEF PassRecord
    <2>5. Told'
      <3>1. Sink' = Sink
        BY <1>1, <2>4 DEF Sink
      <3>2. rp_ledger' = rp_ledger /\ rp_pass'.cursor = rp_pass.cursor
            /\ rp_pass.pc # "recheck"
        BY <1>1, <2>4 DEF ListNames
      <3> QED BY <1>1, <3>1, <3>2 DEF PublicationInv, Told, TellsOf
    <2>6. \A c \in ListNames : rp_cursor[c] <= rp_pass'.cursor[c]
                               /\ rp_pass'.length[c] <= Len(rp_lines[c])
      BY <1>1, <2>3, <2>4 DEF PublicationInv, PassFits
    <2>7. rp_pass'.view = rp_ledger /\ rp_pass'.pc # "observations"
      BY <1>1, <2>4 DEF PublicationInv, PassFits, ListNames
    <2> QED BY <1>1, <1>2, <1>3, <1>4, <1>5, <2>1, <2>4, <2>5, <2>6, <2>7, PassGoesOn
  <1> QED BY <1>6, <1>7

LEMMA PublicationCrashKeeps ==
  ASSUME PublicationInv, Publish!Crash
  PROVE  PublicationInv'
  <1>1. /\ rp_pass' = None
        /\ UNCHANGED <<rp_ledger, rp_lines, rp_moves, rp_cursor, rp_network, rp_staged,
                       rp_overtaken>>
    BY DEF Publish!Crash, Publish!source_state
  <1>2. PICK at : at = rp_cursor
    OBVIOUS
  <1>3. CursorFits(at) /\ Behind(at)' /\ NetworkFits'
    BY <1>1, <1>2, BehindStays, NetworkStays DEF PublicationInv, SourcesFit
  <1> QED BY <1>1, <1>2, <1>3, PassEnds

\* Between passes only the durable cursor speaks of what was published.
LEMMA BetweenPasses ==
  ASSUME PublicationInv, rp_pass = None, UNCHANGED <<rp_pass, rp_network>>, SourcesFit',
         Behind(rp_cursor)'
  PROVE  PublicationInv'
  BY NetworkStays DEF PublicationInv, PassFits, Told

\* What the lists hold now, and what one more item leaves.
LEMMA RoomIs ==
  ASSUME SourcesFit, Publish!Room
  PROVE  /\ \A c \in ListNames : Len(rp_lines[c]) \in Nat
         /\ Len(rp_ledger) + 1 < Publish!Keys
         /\ Len(rp_lines["valence"]) + 1 <= MaxItems
  <1>1. \A c \in ListNames : Len(rp_lines[c]) \in Nat
    BY DEF SourcesFit, LinesFit
  <1>2. /\ Len(rp_lines.actions) \in Nat /\ Len(rp_lines.valence) \in Nat
        /\ Len(rp_lines.thoughts) \in Nat /\ Len(rp_lines.intents) \in Nat
        /\ Len(rp_ledger) \in Nat
    BY <1>1 DEF ListNames, SourcesFit
  <1> DEFINE a == Len(rp_lines.actions)
             v == Len(rp_lines.valence)
             t == Len(rp_lines.thoughts)
             n == Len(rp_lines.intents)
             e == Len(rp_ledger)
  <1>3. MaxItems > e + a + v + t + n
    BY DEF Publish!Room
  <1>4. a \in Nat /\ v \in Nat /\ t \in Nat /\ n \in Nat /\ e \in Nat
    BY <1>2
  <1> HIDE DEF a, v, t, n, e
  <1>5. MaxItems \in Nat /\ MaxItems < Publish!Keys /\ Publish!Keys \in Nat
    BY KeySizes, KeysAreMany
  <1>6. e + 1 < Publish!Keys /\ v + 1 <= MaxItems
    BY <1>3, <1>4, <1>5
  <1> QED BY <1>1, <1>6 DEF e, v

LEMMA ObserveKeeps ==
  ASSUME PublicationInv, NEW s \in Sources, Publish!Observe(s)
  PROVE  PublicationInv'
  <1> DEFINE e == [source |-> s, outcome |-> "pending"]
  <1>1. /\ rp_pass = None /\ rp_ledger' = Append(rp_ledger, e) /\ Publish!Room
        /\ UNCHANGED <<rp_lines, rp_cursor, rp_pass, rp_network, rp_staged, rp_overtaken,
                       rp_moves>>
    BY DEF Publish!Observe, Publish!BetweenPasses, Publish!published
  <1>2. e \in Entry /\ rp_ledger \in Seq(Entry)
    BY DEF Entry, PublicationInv, SourcesFit
  <1> HIDE DEF e
  <1>3. /\ rp_ledger' \in Seq(Entry) /\ Len(rp_ledger') = Len(rp_ledger) + 1
        /\ \A id \in 1..Len(rp_ledger) : rp_ledger'[id] = rp_ledger[id]
    BY <1>1, <1>2
  <1>4. SourcesFit'
    BY <1>1, <1>3, RoomIs DEF PublicationInv, SourcesFit, CursorFits, LinesFit, Kept
  <1>5. Behind(rp_cursor)'
    <2>1. \A id \in 1..(rp_cursor["observations"] - 1) : id \in 1..Len(rp_ledger)
      BY <1>2 DEF PublicationInv, SourcesFit, CursorFits
    <2> QED
      BY <1>1, <1>3, <2>1
      DEF PublicationInv, Behind, Kept, StandsForEntry, StandsForLine, Publish!Records,
          Publish!Rkey, Publish!valence_rkey
  <1> QED BY <1>1, <1>4, <1>5, BetweenPasses

LEMMA OutcomeKeeps ==
  ASSUME PublicationInv, NEW id \in DOMAIN rp_ledger,
         Publish!SetOutcome(id) \/ Publish!Withdraw(id)
  PROVE  PublicationInv'
  <1>1. PICK o \in {"learned", "withdrawn"} :
          /\ rp_pass = None /\ rp_ledger' = [rp_ledger EXCEPT ![id].outcome = o]
          /\ UNCHANGED <<rp_lines, rp_cursor, rp_pass, rp_network, rp_staged, rp_overtaken,
                         rp_moves>>
    BY DEF Publish!SetOutcome, Publish!Withdraw, Publish!BetweenPasses, Publish!published
  <1>2. rp_ledger \in Seq(Entry)
    BY DEF PublicationInv, SourcesFit
  <1>3. /\ rp_ledger' \in Seq(Entry) /\ Len(rp_ledger') = Len(rp_ledger)
        /\ \A j \in 1..Len(rp_ledger) : rp_ledger'[j].source = rp_ledger[j].source
    <2>0. PICK e \in Entry : e = rp_ledger[id]
      BY <1>2
    <2>1. [rp_ledger[id] EXCEPT !.outcome = o] \in Entry
          /\ [rp_ledger[id] EXCEPT !.outcome = o].source = rp_ledger[id].source
      BY <2>0 DEF Entry
    <2>2. rp_ledger' = [rp_ledger EXCEPT ![id] = [rp_ledger[id] EXCEPT !.outcome = o]]
      BY <1>1
    <2> QED BY <1>2, <2>1, <2>2
  <1>4. SourcesFit'
    BY <1>1, <1>3 DEF PublicationInv, SourcesFit, CursorFits, LinesFit, Kept
  <1>5. Behind(rp_cursor)'
    <2>1. \A j \in 1..(rp_cursor["observations"] - 1) : j \in 1..Len(rp_ledger)
      BY <1>2 DEF PublicationInv, SourcesFit, CursorFits
    <2> QED
      BY <1>1, <1>3, <2>1
      DEF PublicationInv, Behind, Kept, StandsForEntry, StandsForLine, Publish!Records,
          Publish!Rkey, Publish!valence_rkey
  <1> QED BY <1>1, <1>4, <1>5, BetweenPasses

\* A finite set of numbers has a greatest member.
LEMMA MaxIsGreatest ==
  ASSUME NEW m \in Nat, NEW f \in [1..m -> Nat]
  PROVE  LET S == {0} \cup {f[i] : i \in 1..m}
         IN  Publish!Max(S) \in S /\ \A y \in S : Publish!Max(S) >= y
  <1> DEFINE T(k) == {0} \cup {f[i] : i \in 1..k}
             P == {k \in 0..m : \E x \in T(k) : \A y \in T(k) : x >= y}
  <1>1. 0 \in P
    OBVIOUS
  <1>2. ASSUME NEW k \in 1..m, k - 1 \in P PROVE k \in P
    <2>1. PICK x \in T(k - 1) : \A y \in T(k - 1) : x >= y
      BY <1>2
    <2>2. /\ \A y \in T(k) : y \in T(k - 1) \/ y = f[k]
          /\ x \in T(k) /\ f[k] \in T(k) /\ f[k] \in Nat /\ x \in Nat
      OBVIOUS
    <2>3. \A y \in T(k) : y \in Nat
      OBVIOUS
    <2> HIDE DEF T
    <2>4. CASE x >= f[k]
      BY <2>1, <2>2, <2>4
    <2>5. CASE ~ (x >= f[k])
      BY <2>1, <2>2, <2>3, <2>5
    <2> QED BY <2>4, <2>5
  <1>3. m \in P
    <2> HIDE DEF P
    <2>1. \A d \in 0..m : d \in P
      BY <1>1, <1>2, Upwards
    <2> QED BY <2>1
  <1>4. PICK x \in T(m) : \A y \in T(m) : x >= y
    BY <1>3
  <1> HIDE DEF T
  <1>5. Publish!Max(T(m)) \in T(m) /\ \A y \in T(m) : Publish!Max(T(m)) >= y
    BY <1>4 DEF Publish!Max
  <1> QED BY <1>5 DEF T

\* A new line comes after the others of its list, and is newer than any of them.
LEMMA RecordKeeps ==
  ASSUME PublicationInv, NEW c \in ListNames, NEW id \in Nat, NEW at \in Nat,
         c = "valence" => at \in Instants, Publish!Record(c, id, at)
  PROVE  PublicationInv'
  <1>1. PICK n : n = Publish!Max({0} \cup {rp_lines[c][i].n : i \in DOMAIN rp_lines[c]}) + 1
    OBVIOUS
  <1> DEFINE l == [id |-> id, at |-> at, n |-> n]
  <1>2. /\ rp_pass = None /\ Publish!Room
        /\ \A i \in DOMAIN rp_lines[c] : rp_lines[c][i].at <= at
        /\ rp_lines' = [rp_lines EXCEPT ![c] = Append(rp_lines[c], l)]
        /\ UNCHANGED <<rp_ledger, rp_cursor, rp_pass, rp_network, rp_staged, rp_overtaken,
                       rp_moves>>
    BY <1>1 DEF Publish!Record, Publish!BetweenPasses, Publish!published
  <1>3. /\ SourcesFit /\ LinesFit /\ CursorFits(rp_cursor)
        /\ \A d \in ListNames : Len(rp_lines[d]) \in Nat
        /\ Len(rp_lines["valence"]) + 1 <= MaxItems
    BY <1>2, RoomIs DEF PublicationInv, SourcesFit
  <1>4. l.id = id /\ l.at = at /\ l.n = n
    OBVIOUS
  <1>5. Kept(c) => l \in Line /\ \A i \in DOMAIN rp_lines[c] : rp_lines[c][i].n < l.n
    <2> SUFFICES ASSUME Kept(c) PROVE n \in Nat /\ \A i \in DOMAIN rp_lines[c] : rp_lines[c][i].n < n
      BY <1>4 DEF Line
    <2>1. rp_lines[c] \in Seq(Line)
      BY <1>3 DEF LinesFit
    <2> DEFINE m == Len(rp_lines[c])
               f == [i \in 1..m |-> rp_lines[c][i].n]
               S == {0} \cup {f[i] : i \in 1..m}
    <2>2. DOMAIN rp_lines[c] = 1..m /\ m \in Nat /\ \A i \in 1..m : rp_lines[c][i] \in Line
      BY <2>1
    <2>3. \A i \in 1..m : rp_lines[c][i].n \in Nat
      BY <2>2 DEF Line
    <2> HIDE DEF m
    <2>4. f \in [1..m -> Nat]
      BY <2>3
    <2>5. S = {0} \cup {rp_lines[c][i].n : i \in DOMAIN rp_lines[c]} /\ S \in SUBSET Nat
      BY <2>2, <2>3
    <2>6. Publish!Max(S) \in S /\ \A y \in S : Publish!Max(S) >= y
      <3> HIDE DEF f
      <3> QED BY <2>2, <2>4, MaxIsGreatest
    <2>7. n = Publish!Max(S) + 1
      BY <1>1, <2>5
    <2>8. \A i \in DOMAIN rp_lines[c] : rp_lines[c][i].n \in S
      BY <2>5
    <2>9. PICK top : top = Publish!Max(S)
      OBVIOUS
    <2> HIDE DEF S
    <2>10. top \in Nat /\ n = top + 1 /\ \A y \in S : y \in Nat /\ top >= y
      BY <2>5, <2>6, <2>7, <2>9
    <2>11. ASSUME NEW i \in DOMAIN rp_lines[c] PROVE rp_lines[c][i].n < n
      <3>1. rp_lines[c][i].n \in Nat /\ top >= rp_lines[c][i].n
        BY <2>8, <2>10
      <3> QED BY <2>10, <3>1
    <2> QED BY <2>10, <2>11
  <1> HIDE DEF l
  <1>6. /\ DOMAIN rp_lines' = ListNames
        /\ rp_lines'[c] = Append(rp_lines[c], l)
        /\ \A d \in ListNames : d # c => rp_lines'[d] = rp_lines[d]
    BY <1>2, <1>3 DEF LinesFit
  <1>7. /\ Len(rp_lines'[c]) = Len(rp_lines[c]) + 1
        /\ DOMAIN rp_lines[c] = 1..Len(rp_lines[c])
        /\ DOMAIN rp_lines'[c] = DOMAIN rp_lines[c] \cup {Len(rp_lines[c]) + 1}
        /\ \A i \in DOMAIN rp_lines[c] : rp_lines'[c][i] = rp_lines[c][i]
        /\ rp_lines'[c][Len(rp_lines[c]) + 1] = l
        /\ \E V : rp_lines'[c] \in Seq(V)
    <2>1. PICK V : rp_lines[c] \in Seq(V)
      BY <1>3 DEF LinesFit
    <2>2. rp_lines[c] \in Seq(V \cup {l}) /\ rp_lines'[c] \in Seq(V \cup {l})
      BY <1>6, <2>1
    <2>3. /\ Len(rp_lines'[c]) = Len(rp_lines[c]) + 1
          /\ DOMAIN rp_lines[c] = 1..Len(rp_lines[c]) /\ Len(rp_lines[c]) \in Nat
          /\ DOMAIN rp_lines'[c] = 1..(Len(rp_lines[c]) + 1)
          /\ \A i \in 1..Len(rp_lines[c]) : rp_lines'[c][i] = rp_lines[c][i]
          /\ rp_lines'[c][Len(rp_lines[c]) + 1] = l
      BY <1>6, <2>1, <2>2
    <2> QED BY <2>2, <2>3
  <1>8. LinesFit'
    <2>1. \A d \in ListNames : \E V : rp_lines'[d] \in Seq(V)
      BY <1>3, <1>6, <1>7 DEF LinesFit
    <2>2. ASSUME NEW d \in ListNames, Kept(d)' PROVE rp_lines'[d] \in Seq(Line)
      <3>1. Kept(d) /\ rp_lines[d] \in Seq(Line)
        BY <1>2, <1>3, <2>2 DEF Kept, LinesFit
      <3>2. CASE d = c
        BY <1>5, <1>6, <3>1, <3>2
      <3> QED BY <1>6, <3>1, <3>2
    <2>3. ASSUME NEW d \in ListNames \ {"valence"},
                 NEW i \in DOMAIN rp_lines'[d], NEW k \in DOMAIN rp_lines'[d],
                 i < k, rp_lines'[d][i].id = rp_lines'[d][k].id
          PROVE  rp_lines'[d][i].n < rp_lines'[d][k].n
      <3>1. CASE d # c
        BY <1>3, <1>6, <2>3, <3>1 DEF LinesFit
      <3>2. CASE d = c /\ k \in DOMAIN rp_lines[c]
        <4>1. i \in DOMAIN rp_lines[c]
          BY <1>3, <1>7, <2>3, <3>2
        <4> QED BY <1>3, <1>7, <2>3, <3>2, <4>1 DEF LinesFit
      <3>3. CASE d = c /\ k = Len(rp_lines[c]) + 1
        <4>1. i \in DOMAIN rp_lines[c] /\ Kept(c)
          BY <1>3, <1>7, <2>3, <3>3 DEF Kept
        <4> QED BY <1>5, <1>7, <3>3, <4>1
      <3> QED BY <1>7, <3>1, <3>2, <3>3
    <2>4. ASSUME rp_moves' = 0
          PROVE  /\ Len(rp_lines'["valence"]) <= MaxItems
                 /\ \A i \in DOMAIN rp_lines'["valence"] : rp_lines'["valence"][i].at \in Instants
                 /\ \A i \in DOMAIN rp_lines'["valence"], k \in DOMAIN rp_lines'["valence"] :
                      i < k => rp_lines'["valence"][i].at <= rp_lines'["valence"][k].at
      <3>0. rp_moves = 0 /\ "valence" \in ListNames
        BY <1>2, <2>4 DEF ListNames
      <3>1. CASE c # "valence"
        BY <1>3, <1>6, <3>0, <3>1 DEF LinesFit
      <3>2. CASE c = "valence"
        <4>1. Len(rp_lines'["valence"]) <= MaxItems
          BY <1>3, <1>7, <3>2
        <4>2. \A i \in DOMAIN rp_lines'["valence"] : rp_lines'["valence"][i].at \in Instants
          BY <1>3, <1>4, <1>7, <3>0, <3>2 DEF LinesFit
        <4>3. ASSUME NEW i \in DOMAIN rp_lines'["valence"], NEW k \in DOMAIN rp_lines'["valence"],
                     i < k
              PROVE  rp_lines'["valence"][i].at <= rp_lines'["valence"][k].at
          <5>1. i \in DOMAIN rp_lines["valence"]
            BY <1>3, <1>7, <3>2, <4>3
          <5>2. CASE k \in DOMAIN rp_lines["valence"]
            BY <1>3, <1>7, <3>0, <3>2, <4>3, <5>1, <5>2 DEF LinesFit
          <5>3. CASE k = Len(rp_lines["valence"]) + 1
            BY <1>2, <1>4, <1>7, <3>2, <5>1, <5>3
          <5> QED BY <1>7, <3>2, <5>2, <5>3
        <4> QED BY <4>1, <4>2, <4>3
      <3> QED BY <3>1, <3>2
    <2> QED BY <1>6, <2>1, <2>2, <2>3, <2>4 DEF LinesFit
  <1>9. CursorFits(rp_cursor)'
    <2>1. \A d \in ListNames : Len(rp_lines'[d]) \in Nat /\ Len(rp_lines[d]) <= Len(rp_lines'[d])
      BY <1>3, <1>6, <1>7
    <2>2. \A d \in ListNames : rp_cursor[d] \in 0..Len(rp_lines'[d])
      BY <1>3, <2>1 DEF CursorFits
    <2> QED BY <1>2, <1>3, <2>2 DEF CursorFits
  <1>10. SourcesFit'
    BY <1>2, <1>3, <1>8, <1>9 DEF SourcesFit
  <1>11. Behind(rp_cursor)'
    <2>1. Behind(rp_cursor) /\ Publish!Records' = Publish!Records
      BY <1>2 DEF PublicationInv, Publish!Records
    <2>2. ASSUME NEW d \in ListNames, Kept(d)', NEW i \in 1..rp_cursor[d]
          PROVE  \E r \in Publish!Records : StandsForLine(r, d, i)'
      <3>1. PICK r \in Publish!Records : StandsForLine(r, d, i)
        BY <1>2, <2>1, <2>2 DEF Behind, Kept
      <3>2. rp_lines'[d][i] = rp_lines[d][i]
        <4>1. i \in 1..Len(rp_lines[d])
          BY <1>3 DEF CursorFits
        <4> QED BY <1>6, <1>7, <4>1
      <3>3. Publish!Rkey(d, i)' = Publish!Rkey(d, i)
        BY <3>2 DEF Publish!Rkey, Publish!valence_rkey
      <3>4. StandsForLine(r, d, i)'
        BY <3>1, <3>2, <3>3 DEF StandsForLine
      <3> QED BY <3>4
    <2> QED BY <1>2, <2>1, <2>2 DEF Behind, StandsForEntry
  <1> QED BY <1>2, <1>10, <1>11, BetweenPasses

\* A new host takes its entries from the records of the network, each once.
LEMMA ReplayedFits ==
  ASSUME NetworkFits, NEW available
  PROVE  /\ Publish!Replayed(available) \in Seq(Entry)
         /\ Len(Publish!Replayed(available)) < Publish!Keys
  <1> DEFINE usable == {r \in Publish!RecordsIn("observations") :
                          r.what.outcome # "withdrawn" /\ r.what.source \in available}
             id == [r \in usable |-> Publish!rkey_to_id(r.rkey)]
             fresh == {r \in usable : \A q \in usable :
                         q.what.source = r.what.source => id[r] <= id[q]}
             sorted == Publish!InOrder(fresh, id)
             n == Cardinality(fresh)
             replayed == [i \in DOMAIN sorted |-> sorted[i].what]
  <1>1. ASSUME NEW r \in usable
        PROVE  /\ r \in rp_network /\ r.in = "observations" /\ r.what \in Entry
               /\ id[r] \in 1..(Publish!Keys - 1) /\ r.rkey = Publish!observation_rkey(id[r])
    <2>1. r \in rp_network /\ r.in = "observations" /\ IsRecord(r)
      BY DEF Publish!RecordsIn, NetworkFits
    <2>2. PICK j \in 1..(Publish!Keys - 1), e \in Entry :
            r = [in |-> "observations", rkey |-> Publish!observation_rkey(j), what |-> e]
      BY <2>1 DEF IsRecord, ListNames
    <2>3. Publish!rkey_to_id(r.rkey) = j
      BY <2>2, KeysAreMany, KeyIsExact
    <2>4. id[r] = j
      BY <2>3
    <2> QED BY <2>1, <2>2, <2>4
  <1>2. fresh \in SUBSET usable /\ usable \in SUBSET rp_network
    BY DEF Publish!RecordsIn
  <1>3. ASSUME NEW r \in usable, NEW q \in usable, id[r] = id[q] PROVE r = q
    BY <1>1, <1>3 DEF NetworkFits
  <1>4. IsFiniteSet(fresh)
    <2> HIDE DEF usable, fresh
    <2> QED BY <1>2, FS_Subset DEF NetworkFits
  <1>5. Publish!Replayed(available) = replayed
    BY DEF Publish!Replayed
  <1> HIDE DEF usable, id, fresh
  <1>6. /\ n \in Nat /\ sorted \in [1..n -> fresh]
        /\ \A x \in fresh : id[x] \in 1..(Publish!Keys - 1)
        /\ \A x \in fresh, y \in fresh : id[x] = id[y] => x = y
    <2>1. \A x \in fresh : id[x] \in Int
      BY <1>1, <1>2
    <2>2. \A x \in fresh, y \in fresh : id[x] = id[y] => x = y
      BY <1>2, <1>3
    <2> QED BY <1>1, <1>2, <1>4, <2>1, <2>2, InOrderIsExact
  <1>7. n <= Publish!Keys - 1
    <2> DEFINE f == [x \in fresh |-> id[x]]
    <2>1. f \in [fresh -> 1..(Publish!Keys - 1)]
      BY <1>6
    <2>2. \A x \in fresh, y \in fresh : f[x] = f[y] => x = y
      BY <1>6
    <2> HIDE DEF f
    <2>3. f \in Injection(fresh, 1..(Publish!Keys - 1))
      BY <2>1, <2>2 DEF Injection, IsInjective
    <2>4. Publish!Keys - 1 \in Nat
      BY KeySizes, KeysAreMany
    <2>5. IsFiniteSet(1..(Publish!Keys - 1)) /\ Cardinality(1..(Publish!Keys - 1)) = Publish!Keys - 1
      BY <2>4, FS_Interval
    <2> QED BY <2>3, <2>5, FS_Injection
  <1> HIDE DEF sorted, n
  <1>8. \A i \in 1..n : sorted[i].what \in Entry
    BY <1>1, <1>2, <1>6
  <1>9. replayed \in [1..n -> Entry]
    BY <1>6, <1>8
  <1> HIDE DEF replayed
  <1>10. replayed \in Seq(Entry) /\ Len(replayed) = n
    BY <1>6, <1>9
  <1> QED BY <1>5, <1>6, <1>7, <1>10, KeysAreMany

\* And its lists from the records of their lines, one line for each.
LEMMA ReplayedLinesFit ==
  ASSUME NetworkFits, NEW c \in ListNames
  PROVE  /\ \E V : Publish!ReplayedLines(c) \in Seq(V)
         /\ c # "valence" =>
              /\ Publish!ReplayedLines(c) \in Seq(Line)
              /\ \A i \in DOMAIN Publish!ReplayedLines(c), k \in DOMAIN Publish!ReplayedLines(c) :
                   Publish!ReplayedLines(c)[i].id = Publish!ReplayedLines(c)[k].id => i = k
  <1> DEFINE S == Publish!RecordsIn(c)
             place == [r \in S |-> IF c = "valence" THEN Publish!listing_position(r.rkey)
                                                    ELSE r.what.id]
             sorted == Publish!InOrder(S, place)
             n == Cardinality(S)
             replayed == [i \in DOMAIN sorted |-> sorted[i].what]
  <1>1. Publish!ReplayedLines(c) = replayed
    BY DEF Publish!ReplayedLines
  <1>2. IsFiniteSet(S) /\ n \in Nat
    <2>1. S \in SUBSET rp_network
      BY DEF Publish!RecordsIn
    <2> HIDE DEF S
    <2> QED BY <2>1, FS_Subset, FS_CardinalityType DEF NetworkFits
  <1>3. DOMAIN sorted = 1..n
    BY DEF Publish!InOrder, Publish!Cardinality, Cardinality, Publish!IsFiniteSet, IsFiniteSet
  <1>4. c # "valence" =>
          /\ \A r \in S : r \in rp_network /\ place[r] = r.what.id /\ r.what \in Line
                          /\ r.in = c /\ r.rkey = <<r.what.id>>
    <2> SUFFICES ASSUME c # "valence", NEW r \in S
                 PROVE  r \in rp_network /\ place[r] = r.what.id /\ r.what \in Line
                        /\ r.in = c /\ r.rkey = <<r.what.id>>
      OBVIOUS
    <2>1. r \in rp_network /\ r.in = c /\ IsRecord(r)
      BY DEF Publish!RecordsIn, NetworkFits
    <2>2. PICK l \in Line : r.rkey = <<l.id>> /\ r.what = l
      BY <2>1 DEF IsRecord, ListNames
    <2> QED BY <2>1, <2>2
  <1> HIDE DEF S, place
  <1>5. c # "valence" =>
          /\ sorted \in [1..n -> S]
          /\ \A i \in 1..n, k \in 1..n : sorted[i] = sorted[k] => i = k
    <2> SUFFICES ASSUME c # "valence"
                 PROVE  /\ sorted \in [1..n -> S]
                        /\ \A i \in 1..n, k \in 1..n : sorted[i] = sorted[k] => i = k
      OBVIOUS
    <2>1. \A x \in S : place[x] \in Int
      BY <1>4 DEF Line
    <2>2. \A x \in S, y \in S : place[x] = place[y] => x = y
      BY <1>4 DEF NetworkFits
    <2> QED BY <1>2, <2>1, <2>2, InOrderIsExact
  <1> HIDE DEF sorted, n
  <1>6. \E V : replayed \in Seq(V)
    <2> DEFINE V == {sorted[i].what : i \in 1..n}
    <2>1. replayed \in [1..n -> V]
      BY <1>3
    <2> HIDE DEF replayed, V
    <2> QED BY <1>2, <2>1
  <1>7. ASSUME c # "valence"
        PROVE  /\ replayed \in Seq(Line)
               /\ \A i \in DOMAIN replayed, k \in DOMAIN replayed :
                    replayed[i].id = replayed[k].id => i = k
    <2>1. \A i \in 1..n : sorted[i] \in S /\ sorted[i].what \in Line /\ replayed[i] = sorted[i].what
      BY <1>3, <1>4, <1>5, <1>7
    <2>2. replayed \in [1..n -> Line]
      BY <1>3, <2>1
    <2>3. \A i \in 1..n, k \in 1..n : replayed[i].id = replayed[k].id => sorted[i] = sorted[k]
      BY <1>4, <1>7, <2>1 DEF NetworkFits
    <2> HIDE DEF replayed
    <2> QED BY <1>2, <1>5, <1>7, <2>2, <2>3
  <1> QED BY <1>1, <1>6, <1>7

\* A new host fits, and claims nothing of what was published before.
LEMMA ReconstructKeeps ==
  ASSUME PublicationInv, NEW available, Publish!Reconstruct(available)
  PROVE  PublicationInv'
  <1>1. /\ rp_pass = None /\ rp_moves' = rp_moves + 1
        /\ rp_ledger' = Publish!Replayed(available)
        /\ rp_lines' = [c \in ListNames |-> Publish!ReplayedLines(c)]
        /\ rp_cursor' = Publish!NoCursor
        /\ UNCHANGED <<rp_pass, rp_network>>
    BY ListsNamed DEF Publish!Reconstruct
  <1>2. rp_moves' \in Nat /\ rp_moves' # 0
    BY <1>1 DEF PublicationInv, SourcesFit
  <1>3. \A c \in ListNames : rp_lines'[c] = Publish!ReplayedLines(c)
    BY <1>1
  <1>4. rp_ledger' \in Seq(Entry) /\ Len(rp_ledger') < Publish!Keys
    BY <1>1, ReplayedFits DEF PublicationInv
  <1>5. LinesFit'
    <2>1. DOMAIN rp_lines' = ListNames
      BY <1>1
    <2>2. \A c \in ListNames : \E V : rp_lines'[c] \in Seq(V)
      BY <1>3, ReplayedLinesFit DEF PublicationInv
    <2>3. \A c \in ListNames : Kept(c)' => rp_lines'[c] \in Seq(Line)
      BY <1>2, <1>3, ReplayedLinesFit DEF PublicationInv, Kept
    <2>4. ASSUME NEW c \in ListNames \ {"valence"}, NEW i \in DOMAIN rp_lines'[c],
                 NEW k \in DOMAIN rp_lines'[c], i < k, rp_lines'[c][i].id = rp_lines'[c][k].id
          PROVE  FALSE
      <3>1. rp_lines'[c] \in Seq(Line) /\ i = k
        BY <1>3, <2>4, ReplayedLinesFit DEF PublicationInv
      <3>2. i \in Nat
        BY <3>1
      <3> QED BY <2>4, <3>1, <3>2
    <2> QED BY <1>2, <2>1, <2>2, <2>3, <2>4 DEF LinesFit
  <1>6. /\ Publish!NoCursor \in [Fields -> Nat] /\ Publish!NoCursor["observations"] = 1
        /\ \A c \in ListNames : Publish!NoCursor[c] = 0
    BY DEF Publish!NoCursor, Fields, ListNames
  <1>7. CursorFits(rp_cursor)'
    <2>1. \A c \in ListNames : Len(rp_lines'[c]) \in Nat
      BY <1>5 DEF LinesFit
    <2> QED BY <1>1, <1>4, <1>6, <2>1 DEF CursorFits
  <1>8. SourcesFit'
    BY <1>2, <1>4, <1>5, <1>7 DEF SourcesFit
  <1>9. Behind(rp_cursor)'
    BY <1>1, <1>6 DEF Behind
  <1> QED BY <1>1, <1>8, <1>9, BetweenPasses

---------------------------------------------------------------------------
(* Replication: the theorem. *)

\* Nothing has been published.
LEMMA PublicationStarts == Publish!Init => PublicationInv
  <1> SUFFICES ASSUME Publish!Init PROVE PublicationInv
    OBVIOUS
  <1>1. /\ rp_ledger = <<>> /\ rp_lines = [c \in ListNames |-> <<>>]
        /\ rp_cursor = Publish!NoCursor /\ rp_pass = None /\ rp_network = {} /\ rp_moves = 0
    BY ListsNamed DEF Publish!Init
  <1>2. /\ rp_cursor \in [Fields -> Nat] /\ rp_cursor["observations"] = 1
        /\ \A c \in ListNames : rp_cursor[c] = 0
    BY <1>1 DEF Publish!NoCursor, Fields, ListNames
  <1>3. \A c \in ListNames : rp_lines[c] = <<>>
    BY <1>1
  <1>4. LinesFit
    <2>1. <<>> \in Seq(Line) /\ Len(<<>>) = 0 /\ DOMAIN <<>> = {}
      OBVIOUS
    <2>2. "valence" \in ListNames
      BY DEF ListNames
    <2> QED BY <1>1, <1>3, <2>1, <2>2, KeySizes DEF LinesFit
  <1>5. SourcesFit
    <2>1. rp_ledger \in Seq(Entry) /\ Len(rp_ledger) = 0 /\ 0 < Publish!Keys
      BY <1>1, KeySizes, KeysAreMany
    <2>2. CursorFits(rp_cursor)
      BY <1>2, <1>3, <2>1 DEF CursorFits
    <2> QED BY <1>1, <1>4, <2>1, <2>2 DEF SourcesFit
  <1>6. NetworkFits
    BY <1>1, FS_EmptySet DEF NetworkFits
  <1>7. Behind(rp_cursor)
    BY <1>2 DEF Behind
  <1> QED BY <1>1, <1>5, <1>6, <1>7 DEF PublicationInv, PassFits, Told

\* Every step keeps what the passes have to keep.
LEMMA PublicationStep == PublicationInv /\ Publish!Next => PublicationInv'
  <1> SUFFICES ASSUME PublicationInv, Publish!Next PROVE PublicationInv'
    OBVIOUS
  <1>1. CASE Publish!Pass
    <2>1. ASSUME NEW offline \in BOOLEAN, Publish!BeginPass(offline) PROVE PublicationInv'
      BY <2>1, BeginPassKeeps
    <2>2. ASSUME NEW k \in DOMAIN Publish!Lists, Publish!PublishLine(Publish!Lists[k])
          PROVE  PublicationInv'
      BY <2>2, ListsNamed, PublishLineKeeps
    <2>3. ASSUME NEW k \in DOMAIN Publish!Lists, Publish!ListDone(k) PROVE PublicationInv'
      BY <2>3, ListsNamed, ListDoneKeeps
    <2> QED
      BY <1>1, <2>1, <2>2, <2>3, RecheckKeeps, RecheckDoneKeeps, PublishObservationKeeps,
         ObservationsDoneKeeps, PublicationCrashKeeps DEF Publish!Pass
  <1>2. ASSUME NEW s \in Sources, Publish!Observe(s) PROVE PublicationInv'
    BY <1>2, ObserveKeeps
  <1>3. ASSUME NEW id \in DOMAIN rp_ledger, Publish!SetOutcome(id) \/ Publish!Withdraw(id)
        PROVE  PublicationInv'
    BY <1>3, OutcomeKeeps
  <1>4. ASSUME NEW id \in ActionIds, Publish!Record("actions", id, 1) PROVE PublicationInv'
    BY <1>4, KeySizes, RecordKeeps DEF ListNames
  <1>5. \A c \in ListNames : Len(rp_lines[c]) + 1 \in Nat
    BY DEF PublicationInv, SourcesFit, LinesFit
  <1>6. ASSUME NEW at \in Instants,
               Publish!Record("valence", Len(rp_lines.valence) + 1, at)
        PROVE  PublicationInv'
    <2>1. "valence" \in ListNames /\ at \in Nat /\ Len(rp_lines.valence) + 1 \in Nat
      BY <1>5, KeySizes DEF ListNames
    <2> QED BY <1>6, <2>1, RecordKeeps
  <1>7. ASSUME NEW c \in {"thoughts", "intents"}, Publish!Record(c, Len(rp_lines[c]) + 1, 1)
        PROVE  PublicationInv'
    <2>1. c \in ListNames /\ c # "valence" /\ Len(rp_lines[c]) + 1 \in Nat
      BY <1>5 DEF ListNames
    <2> QED BY <1>7, <2>1, RecordKeeps
  <1>8. ASSUME NEW available \in SUBSET Sources, Publish!Reconstruct(available)
        PROVE  PublicationInv'
    BY <1>8, ReconstructKeeps
  <1> QED BY <1>1, <1>2, <1>3, <1>4, <1>6, <1>7, <1>8 DEF Publish!Next

\* So do the steps of the others.
LEMMA PublicationStutter == PublicationInv /\ UNCHANGED replication_vars => PublicationInv'
  <1> SUFFICES ASSUME PublicationInv, UNCHANGED replication_vars PROVE PublicationInv'
    OBVIOUS
  <1>1. UNCHANGED <<rp_ledger, rp_lines, rp_cursor, rp_pass, rp_network, rp_staged,
                    rp_overtaken, rp_moves>>
    BY DEF replication_vars
  <1>2. PICK at : at = rp_cursor
    OBVIOUS
  <1>3. CursorFits(at)' /\ Behind(at)'
    BY <1>1, <1>2, CursorStays, BehindStays DEF PublicationInv, SourcesFit
  <1>4. SourcesFit' /\ NetworkFits' /\ Behind(rp_cursor)'
    BY <1>1, <1>2, <1>3, SourcesStay, NetworkStays DEF PublicationInv, CursorFits, Behind
  <1>5. PassFits'
    BY <1>1 DEF PublicationInv, PassFits, CursorFits
  <1>6. rp_pass # None => Behind(rp_pass.cursor)'
    <2> SUFFICES ASSUME rp_pass # None PROVE Behind(rp_pass.cursor)'
      OBVIOUS
    <2>1. PICK ahead : ahead = rp_pass.cursor
      OBVIOUS
    <2>2. Behind(ahead)'
      BY <1>1, <2>1, BehindStays DEF PublicationInv
    <2> QED BY <1>1, <2>1, <2>2 DEF Behind
  <1>7. Told'
    BY <1>1 DEF PublicationInv, Told, TellsOf, Sink
  <1> QED BY <1>1, <1>4, <1>5, <1>6, <1>7 DEF PublicationInv

\* What the durable cursor and the running pass's cursor are past, in the behaviours
\* that are the replication's.
LEMMA PublicationHolds == Spec => [](part = "replication" => PublicationInv)
  <1> DEFINE Inv == part = "replication" => PublicationInv
  <1>1. Init => Inv
    BY PublicationStarts DEF Init
  <1>2. Inv /\ [Next]_records_vars => Inv'
    <2> SUFFICES ASSUME Inv, part' = "replication",
                        [Next]_records_vars
                 PROVE  PublicationInv'
      OBVIOUS
    <2>1. \/ part = "replication" /\ Publish!Next
          \/ part = "replication" /\ UNCHANGED replication_vars
      BY DEF Next, JournalNext, ReplicationNext, ReflectionNext, records_vars
    <2> QED
      BY <2>1, PublicationStep, PublicationStutter
  <1> QED
    BY <1>1, <1>2, PTL DEF Spec

\* Behind the durable cursor everything was written, whichever put failed, answer
\* was lost or process died, and whichever host took over; and a pass that turns to
\* the lists has told its sink of every withdrawal in its window (replicate_drain,
\* run_publication_pass, reconstruct_state).
THEOREM PublicationTrue == Spec => []PublicationIsTrue
  <1>1. (part = "replication" => PublicationInv) => PublicationIsTrue
    <2> SUFFICES ASSUME PublicationInv
                 PROVE  Publish!BehindCursorIsWritten /\ Publish!WithdrawalsAreTold
      BY DEF PublicationIsTrue, Publish!PublicationIsTrue
    <2>1. Publish!BehindCursorIsWritten
      <3>1. rp_moves \in Nat /\ rp_cursor.observations = rp_cursor["observations"]
        BY DEF PublicationInv, SourcesFit
      <3>2. ASSUME NEW id \in 1..(rp_cursor.observations - 1), id \notin rp_overtaken
            PROVE  \E r \in Publish!Records :
                     /\ r.in = "observations" /\ r.rkey = Publish!observation_rkey(id)
                     /\ r.what.source = rp_ledger[id].source
        BY <3>2 DEF PublicationInv, Behind, StandsForEntry
      <3>3. ASSUME NEW c \in ListNames, NEW i \in 1..rp_cursor[c], ~ (c = "valence" /\ rp_moves > 0)
            PROVE  \E r \in Publish!Records :
                     /\ r.in = c /\ r.rkey = Publish!Rkey(c, i)
                     /\ r.what.id = rp_lines[c][i].id /\ r.what.n >= rp_lines[c][i].n
        <4>1. Kept(c)
          BY <3>1, <3>3 DEF Kept
        <4> QED BY <4>1 DEF PublicationInv, Behind, StandsForLine
      <3> QED BY <3>2, <3>3, ListsNamed DEF Publish!BehindCursorIsWritten
    <2>2. Publish!WithdrawalsAreTold
      <3> SUFFICES ASSUME rp_pass # None, rp_pass.pc \in ListNames,
                          NEW id \in 1..(rp_pass.cursor.observations - 1),
                          id + RecheckWindow >= rp_pass.cursor.observations,
                          id <= Len(rp_pass.view), rp_pass.view[id].outcome = "withdrawn",
                          NEW r \in IF rp_pass.offline THEN rp_staged ELSE rp_network,
                          r.in = "observations", r.rkey = Publish!observation_rkey(id)
                   PROVE  r.what.outcome = "withdrawn"
        BY ListsNamed DEF Publish!WithdrawalsAreTold
      <3>1. rp_pass.view = rp_ledger /\ rp_pass.pc # "recheck"
        BY DEF PublicationInv, PassFits, ListNames
      <3>2. TellsOf(id)
        BY <3>1 DEF PublicationInv, Told
      <3> QED BY <3>2 DEF TellsOf, Sink
    <2> QED BY <2>1, <2>2
  <1> QED
    BY <1>1, PublicationHolds, PTL
=============================================================================
