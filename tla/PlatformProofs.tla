-------------------------- MODULE PlatformProofs ---------------------------
(***************************************************************************)
(* What the components of Platform, and the sync engine of Ingestion that  *)
(* runs beside them, promise, for every number of processes, frames,       *)
(* posts, records and hosts.  Each component has an inductive invariant of *)
(* its own, which the steps of that component alone can disturb.           *)
(***************************************************************************)
EXTENDS Platform, Ingestion, FiniteSets, FiniteSetTheorems, WellFoundedInduction, TLAPS

---------------------------------------------------------------------------
(* The lock file excludes, for any number of processes that start, end and *)
(* die at any step, outside the two windows in which a steal takes a live  *)
(* process's file.                                                         *)

LEMMA LockConstants ==
  /\ Nil \notin Contenders
  /\ EmptyRetries \in Nat /\ MaxDeaths \in Nat
  /\ WriteFaults \in BOOLEAN
  BY PlatformAssumption DEF Lock!LockAssumption

LEMMA LockTypesStart == Lock!Init => Lock!TypeOK
  <1> SUFFICES ASSUME Lock!Init PROVE Lock!TypeOK
    OBVIOUS
  <1>1. lk_seen \in [Contenders -> Lock!Contents]
    BY DEF Lock!Init, Lock!Nobody, Lock!Contents
  <1>2. lk_retries \in [Contenders -> 0..EmptyRetries]
    BY LockConstants DEF Lock!Init
  <1>3. lk_crashes \in 0..MaxDeaths
    BY LockConstants DEF Lock!Init
  <1>4. lk_fresh \in [Contenders -> BOOLEAN] /\ lk_mistaken \in BOOLEAN
    BY DEF Lock!Init
  <1> QED BY <1>1, <1>2, <1>3, <1>4 DEF Lock!Init, Lock!TypeOK

\* What ends with a pid keeps its type.
LEMMA PidGoneTypes ==
    ASSUME Lock!TypeOK, NEW p \in Contenders, Lock!PidGone(p)
    PROVE  /\ lk_file' \in Lock!LockFile \cup {Lock!Absent}
           /\ lk_seen' \in [Contenders -> Lock!Contents]
  <1>1. lk_file' \in Lock!LockFile \cup {Lock!Absent}
    <2>1. CASE lk_file.owner = p
      <3>1. lk_file \in Lock!LockFile
        BY <2>1, LockConstants DEF Lock!TypeOK, Lock!Absent
      <3> QED BY <2>1, <3>1 DEF Lock!PidGone, Lock!LockFile
    <2>2. CASE lk_file.owner # p
      BY <2>2 DEF Lock!TypeOK, Lock!PidGone
    <2> QED BY <2>1, <2>2
  <1>2. ASSUME NEW q \in Contenders PROVE lk_seen'[q] \in Lock!Contents
    <2>1. lk_seen[q] \in Lock!Contents
      BY DEF Lock!TypeOK
    <2> QED BY <2>1 DEF Lock!PidGone, Lock!Contents, Lock!Nobody
  <1> QED BY <1>1, <1>2 DEF Lock!PidGone

LEMMA LockTypesKept == Lock!TypeOK /\ [Lock!Next]_lock_vars => Lock!TypeOK'
  <1> SUFFICES ASSUME Lock!TypeOK, [Lock!Next]_lock_vars PROVE Lock!TypeOK'
    OBVIOUS
  <1> USE LockConstants DEF Lock!TypeOK, Lock!Goto, Lock!judgement
  <1>1. ASSUME NEW p \in Contenders, Lock!Start(p) PROVE Lock!TypeOK'
    BY <1>1 DEF Lock!Start
  <1>2. ASSUME NEW p \in Contenders, Lock!Create(p) PROVE Lock!TypeOK'
    BY <1>2 DEF Lock!Create, Lock!LockFile
  <1>3. ASSUME NEW p \in Contenders, Lock!Exists(p) PROVE Lock!TypeOK'
    BY <1>3 DEF Lock!Exists
  <1>4. ASSUME NEW p \in Contenders, Lock!WriteMetadata(p) PROVE Lock!TypeOK'
    <2>1. CASE lk_file.owner = p
      <3>1. lk_file \in Lock!LockFile
        BY <2>1 DEF Lock!Absent
      <3>2. PICK text \in {"ok", "empty", "torn"} : lk_file' = [lk_file EXCEPT !.text = text]
        BY <1>4, <2>1 DEF Lock!WriteMetadata
      <3>3. lk_file' \in Lock!LockFile
        BY <3>1, <3>2 DEF Lock!LockFile
      <3> QED BY <1>4, <3>3 DEF Lock!WriteMetadata
    <2>2. CASE lk_file.owner # p
      BY <1>4, <2>2 DEF Lock!WriteMetadata
    <2> QED BY <2>1, <2>2
  <1>5. ASSUME NEW p \in Contenders, Lock!SizeEmpty(p) PROVE Lock!TypeOK'
    <2>1. lk_retries' \in [Contenders -> 0..EmptyRetries]
      <3>1. CASE lk_retries[p] < EmptyRetries
        <4>1. lk_retries[p] + 1 \in 0..EmptyRetries
          BY <3>1
        <4> QED BY <1>5, <3>1, <4>1 DEF Lock!SizeEmpty
      <3>2. CASE ~(lk_retries[p] < EmptyRetries)
        BY <1>5, <3>2 DEF Lock!SizeEmpty
      <3> QED BY <3>1, <3>2
    <2>2. lk_fresh' \in [Contenders -> BOOLEAN]
      BY <1>5 DEF Lock!SizeEmpty
    <2> QED BY <1>5, <2>1, <2>2 DEF Lock!SizeEmpty
  <1>6. ASSUME NEW p \in Contenders, Lock!SizeOther(p) PROVE Lock!TypeOK'
    BY <1>6 DEF Lock!SizeOther
  <1>7. ASSUME NEW p \in Contenders, Lock!Parse(p) PROVE Lock!TypeOK'
    <2>1. [owner |-> lk_file.owner, alive |-> lk_file.alive] \in Lock!Contents
      <3>1. CASE lk_file \in Lock!LockFile
        BY <3>1 DEF Lock!Contents, Lock!LockFile
      <3>2. CASE lk_file = Lock!Absent
        BY <3>2 DEF Lock!Contents, Lock!Absent
      <3> QED BY <3>1, <3>2
    <2>2. /\ lk_seen' = [lk_seen EXCEPT ![p] =
                           [owner |-> lk_file.owner, alive |-> lk_file.alive]]
          /\ lk_fresh' = [lk_fresh EXCEPT ![p] = TRUE]
          /\ lk_pc' = [lk_pc EXCEPT ![p] = "probe"]
          /\ UNCHANGED <<lk_file, lk_retries, lk_crashes, lk_mistaken>>
      BY <1>7 DEF Lock!Parse
    <2>3. lk_seen' \in [Contenders -> Lock!Contents]
      BY <2>1, <2>2
    <2> QED BY <2>2, <2>3
  <1>8. ASSUME NEW p \in Contenders, Lock!ParseRefuse(p) PROVE Lock!TypeOK'
    BY <1>8 DEF Lock!ParseRefuse
  <1>9. ASSUME NEW p \in Contenders, Lock!ProbeStale(p) PROVE Lock!TypeOK'
    BY <1>9 DEF Lock!ProbeStale
  <1>10. ASSUME NEW p \in Contenders, Lock!ProbeRefuse(p) PROVE Lock!TypeOK'
    BY <1>10 DEF Lock!ProbeRefuse, Lock!Forget, Lock!Nobody, Lock!Contents
  <1>11. ASSUME NEW p \in Contenders, Lock!Remove(p) PROVE Lock!TypeOK'
    <2>1. lk_mistaken' \in BOOLEAN
      BY <1>11 DEF Lock!Remove
    <2> QED BY <1>11, <2>1 DEF Lock!Remove, Lock!Unlink, Lock!Nobody, Lock!Contents
  <1>12. ASSUME NEW p \in Contenders, Lock!Release(p) PROVE Lock!TypeOK'
    BY <1>12 DEF Lock!Release, Lock!Unlink
  <1>13. ASSUME NEW p \in Contenders, Lock!Exit(p) PROVE Lock!TypeOK'
    <2>1. /\ lk_file' \in Lock!LockFile \cup {Lock!Absent}
          /\ lk_seen' \in [Contenders -> Lock!Contents]
      BY <1>13, PidGoneTypes DEF Lock!Exit
    <2> QED BY <1>13, <2>1 DEF Lock!Exit
  <1>14. ASSUME NEW p \in Contenders, Lock!Crash(p) PROVE Lock!TypeOK'
    <2>1. /\ lk_file' \in Lock!LockFile \cup {Lock!Absent}
          /\ lk_seen' \in [Contenders -> Lock!Contents]
      BY <1>14, PidGoneTypes DEF Lock!Crash
    <2>2. lk_crashes' \in 0..MaxDeaths
      BY <1>14 DEF Lock!Crash
    <2>3. lk_fresh' \in [Contenders -> BOOLEAN]
      BY <1>14 DEF Lock!Crash
    <2> QED BY <1>14, <2>1, <2>2, <2>3 DEF Lock!Crash
  <1>15. CASE UNCHANGED lock_vars
    BY <1>15 DEF lock_vars
  <1> QED
    BY <1>1, <1>2, <1>3, <1>4, <1>5, <1>6, <1>7, <1>8, <1>9, <1>10, <1>11, <1>12, <1>13,
       <1>14, <1>15 DEF Lock!Next, Lock!Step

\* What a contender goes by is of the file at the path for as long as nobody has
\* unlinked it, and a contender is about to remove only for one of two reasons.
Judged ==
    \A r \in Contenders :
      /\ lk_fresh[r] => lk_file # Lock!Absent
      /\ lk_fresh[r] /\ lk_seen[r] # Lock!Nobody =>
           /\ lk_file.owner = lk_seen[r].owner
           /\ lk_file.alive = lk_seen[r].alive
      /\ lk_pc[r] = "probe" => lk_seen[r].owner # Nil
      /\ lk_pc[r] = "remove" =>
           \/ lk_seen[r] = Lock!Nobody /\ lk_retries[r] = EmptyRetries
           \/ lk_seen[r].owner # Nil /\ ~lk_seen[r].alive
      /\ lk_pc[r] \notin {"probe", "remove"} => lk_seen[r] = Lock!Nobody

\* Whoever has created the file, or owns the lock, has it in place.
Owned ==
    \A p \in Contenders :
      lk_pc[p] \in {"write", "held"} => lk_file.owner = p /\ lk_file.alive

LockInv == Lock!TypeOK /\ Judged /\ (~lk_mistaken => Owned)

LEMMA LockInvStarts == Lock!Init => LockInv
  BY LockTypesStart, LockConstants DEF Lock!Init, LockInv, Judged, Owned, Lock!Nobody

\* A pid that goes away goes away in the file and in what others have read of it.
LEMMA PidGoneJudged ==
    ASSUME LockInv, NEW p \in Contenders, Lock!PidGone(p), lk_pc' = [lk_pc EXCEPT ![p] = "out"],
           lk_retries' = lk_retries, \A r \in Contenders : lk_fresh'[r] => lk_fresh[r]
    PROVE  Judged'
  <1> SUFFICES ASSUME NEW r \in Contenders
               PROVE  /\ lk_fresh'[r] => lk_file' # Lock!Absent
                      /\ lk_fresh'[r] /\ lk_seen'[r] # Lock!Nobody =>
                           /\ lk_file'.owner = lk_seen'[r].owner
                           /\ lk_file'.alive = lk_seen'[r].alive
                      /\ lk_pc'[r] = "probe" => lk_seen'[r].owner # Nil
                      /\ lk_pc'[r] = "remove" =>
                           \/ lk_seen'[r] = Lock!Nobody /\ lk_retries'[r] = EmptyRetries
                           \/ lk_seen'[r].owner # Nil /\ ~lk_seen'[r].alive
                      /\ lk_pc'[r] \notin {"probe", "remove"} => lk_seen'[r] = Lock!Nobody
    BY DEF Judged
  <1>1. /\ lk_seen[r] \in Lock!Contents /\ lk_file \in Lock!LockFile \cup {Lock!Absent}
        /\ lk_pc'[r] = IF r = p THEN "out" ELSE lk_pc[r]
        /\ lk_fresh'[r] => lk_fresh[r]
    BY DEF LockInv, Lock!TypeOK
  <1>2. lk_file' # Lock!Absent \/ lk_file = Lock!Absent
    <2>1. CASE lk_file.owner = p
      <3>1. lk_file'.owner = p
        BY <1>1, <2>1, LockConstants DEF Lock!PidGone, Lock!LockFile, Lock!Absent
      <3> QED BY <3>1, LockConstants DEF Lock!Absent
    <2>2. CASE lk_file.owner # p
      BY <2>2 DEF Lock!PidGone
    <2> QED BY <2>1, <2>2
  <1>3. CASE r = p
    BY <1>1, <1>2, <1>3 DEF LockInv, Judged, Lock!PidGone, Lock!Nobody
  <1>4. CASE r # p
    <2>1. /\ lk_seen'[r].owner = lk_seen[r].owner
          /\ lk_seen'[r].alive = IF lk_seen[r].owner = p THEN FALSE ELSE lk_seen[r].alive
          /\ (lk_seen'[r] = Lock!Nobody) <=> (lk_seen[r] = Lock!Nobody)
      BY <1>1, <1>4, LockConstants DEF Lock!PidGone, Lock!Contents, Lock!Nobody
    <2>2. lk_fresh[r] =>
            /\ lk_file'.owner = lk_file.owner
            /\ lk_file'.alive = IF lk_file.owner = p THEN FALSE ELSE lk_file.alive
      BY <1>1, LockConstants DEF LockInv, Judged, Lock!PidGone, Lock!LockFile, Lock!Absent
    <2> QED BY <1>1, <1>2, <1>4, <2>1, <2>2 DEF LockInv, Judged
  <1> QED BY <1>3, <1>4

LEMMA PidGoneOwned ==
    ASSUME LockInv, Owned, NEW p \in Contenders, Lock!PidGone(p),
           lk_pc' = [lk_pc EXCEPT ![p] = "out"]
    PROVE  Owned'
  <1> SUFFICES ASSUME NEW q \in Contenders, lk_pc'[q] \in {"write", "held"}
               PROVE  lk_file'.owner = q /\ lk_file'.alive
    BY DEF Owned
  <1>1. q # p /\ lk_pc[q] \in {"write", "held"}
    BY DEF LockInv, Lock!TypeOK
  <1>2. lk_file.owner = q /\ lk_file.alive
    BY <1>1 DEF Owned
  <1> QED BY <1>1, <1>2 DEF Lock!PidGone

\* Every step keeps what a contender goes by true of the file it read.
LEMMA JudgedKept ==
    ASSUME LockInv, NEW p \in Contenders, Lock!Step(p) \/ Lock!Crash(p)
    PROVE  Judged'
  <1> USE LockConstants DEF Lock!Goto, Lock!judgement
  <1>1. /\ lk_file \in Lock!LockFile \cup {Lock!Absent}
        /\ lk_retries \in [Contenders -> 0..EmptyRetries]
        /\ lk_seen \in [Contenders -> Lock!Contents]
        /\ lk_fresh \in [Contenders -> BOOLEAN]
        /\ lk_pc \in [Contenders -> {"out", "create", "write", "size", "parse", "probe",
                                     "remove", "held", "done"}]
        /\ Judged
    BY DEF LockInv, Lock!TypeOK
  <1>2. CASE Lock!Start(p)
    BY <1>1, <1>2 DEF Lock!Start, Judged
  <1>3. CASE Lock!Create(p)
    BY <1>1, <1>3 DEF Lock!Create, Judged
  <1>4. CASE Lock!Exists(p) \/ Lock!SizeOther(p) \/ Lock!ParseRefuse(p)
    BY <1>1, <1>4 DEF Lock!Exists, Lock!SizeOther, Lock!ParseRefuse, Judged
  <1>5. CASE Lock!WriteMetadata(p)
    <2>1. lk_file'.owner = lk_file.owner /\ lk_file'.alive = lk_file.alive
      <3>1. CASE lk_file.owner = p
        <4>1. lk_file \in Lock!LockFile
          BY <1>1, <3>1 DEF Lock!Absent
        <4> QED BY <1>5, <3>1, <4>1 DEF Lock!WriteMetadata, Lock!LockFile
      <3>2. CASE lk_file.owner # p
        BY <1>5, <3>2 DEF Lock!WriteMetadata
      <3> QED BY <3>1, <3>2
    <2>2. lk_file # Lock!Absent => lk_file' # Lock!Absent
      <3>1. lk_file # Lock!Absent => lk_file.owner # Nil
        BY <1>1 DEF Lock!LockFile
      <3> QED BY <2>1, <3>1 DEF Lock!Absent
    <2>3. UNCHANGED <<lk_retries, lk_seen, lk_fresh>> /\ lk_pc' = [lk_pc EXCEPT ![p] = "held"]
          /\ lk_pc[p] = "write"
      BY <1>5 DEF Lock!WriteMetadata
    <2> HIDE DEF Lock!Absent
    <2> QED BY <1>1, <2>1, <2>2, <2>3 DEF Judged
  <1>6. CASE Lock!SizeEmpty(p)
    <2>1. lk_file # Lock!Absent /\ lk_seen[p] = Lock!Nobody
      BY <1>1, <1>6 DEF Lock!SizeEmpty, Judged, Lock!Absent
    <2>2. CASE lk_retries[p] < EmptyRetries
      BY <1>1, <1>6, <2>1, <2>2 DEF Lock!SizeEmpty, Judged
    <2>3. CASE ~(lk_retries[p] < EmptyRetries)
      <3>1. lk_retries[p] = EmptyRetries
        BY <1>1, <2>3
      <3> QED BY <1>1, <1>6, <2>1, <2>3, <3>1 DEF Lock!SizeEmpty, Judged
    <2> QED BY <2>2, <2>3
  <1>7. CASE Lock!Parse(p)
    <2>1. lk_file # Lock!Absent /\ lk_file.owner # Nil
      BY <1>1, <1>7 DEF Lock!Parse, Lock!Absent, Lock!LockFile
    <2> QED BY <1>1, <1>7, <2>1 DEF Lock!Parse, Judged
  <1>8. CASE Lock!ProbeStale(p)
    BY <1>1, <1>8 DEF Lock!ProbeStale, Lock!lock_is_stale, Judged
  <1>9. CASE Lock!ProbeRefuse(p)
    BY <1>1, <1>9 DEF Lock!ProbeRefuse, Lock!Forget, Judged
  <1>10. CASE Lock!Remove(p)
    BY <1>1, <1>10 DEF Lock!Remove, Lock!Unlink, Judged
  <1>11. CASE Lock!Release(p)
    BY <1>1, <1>11 DEF Lock!Release, Lock!Unlink, Judged
  <1>12. CASE Lock!Exit(p)
    BY <1>12, PidGoneJudged DEF Lock!Exit
  <1>13. CASE Lock!Crash(p)
    <2>1. \A r \in Contenders : lk_fresh'[r] => lk_fresh[r]
      BY <1>1, <1>13 DEF Lock!Crash
    <2> QED BY <1>13, <2>1, PidGoneJudged DEF Lock!Crash
  <1> QED
    BY <1>2, <1>3, <1>4, <1>5, <1>6, <1>7, <1>8, <1>9, <1>10, <1>11, <1>12, <1>13
    DEF Lock!Step

\* Outside the two windows, what a contender removes is of nobody who runs.
LEMMA OwnedKept ==
    ASSUME LockInv, NEW p \in Contenders, Lock!Step(p) \/ Lock!Crash(p), ~lk_mistaken'
    PROVE  Owned'
  <1> USE LockConstants DEF Lock!Goto, Lock!judgement
  <1>1. /\ lk_file \in Lock!LockFile \cup {Lock!Absent}
        /\ lk_pc \in [Contenders -> {"out", "create", "write", "size", "parse", "probe",
                                     "remove", "held", "done"}]
        /\ Judged
    BY DEF LockInv, Lock!TypeOK
  <1>2. ~lk_mistaken
    BY DEF Lock!Step, Lock!Start, Lock!Create, Lock!Exists, Lock!WriteMetadata, Lock!SizeEmpty,
           Lock!SizeOther, Lock!Parse, Lock!ParseRefuse, Lock!ProbeStale, Lock!ProbeRefuse,
           Lock!Remove, Lock!Release, Lock!Exit, Lock!Crash
  <1>3. Owned
    BY <1>2 DEF LockInv
  <1>4. CASE Lock!Create(p)
    <2>1. \A q \in Contenders : lk_pc[q] \notin {"write", "held"}
      BY <1>3, <1>4 DEF Lock!Create, Owned, Lock!Absent
    <2> QED BY <1>1, <1>4, <2>1 DEF Lock!Create, Owned
  <1>5. CASE Lock!WriteMetadata(p)
    <2>1. lk_file.owner = p /\ lk_file.alive
      BY <1>3, <1>5 DEF Lock!WriteMetadata, Owned
    <2>2. lk_file \in Lock!LockFile
      BY <1>1, <2>1 DEF Lock!Absent
    <2>3. lk_file'.owner = p /\ lk_file'.alive
      BY <1>5, <2>1, <2>2 DEF Lock!WriteMetadata, Lock!LockFile
    <2>4. \A q \in Contenders : lk_pc[q] \in {"write", "held"} => q = p
      BY <1>3, <2>1 DEF Owned
    <2> QED BY <1>1, <1>5, <2>3, <2>4 DEF Lock!WriteMetadata, Owned
  <1>6. CASE Lock!Remove(p)
    <2>1. ~lk_file.alive
      <3> SUFFICES ASSUME lk_file.alive PROVE FALSE
        OBVIOUS
      <3>1. lk_fresh[p] /\ ~(lk_seen[p] = Lock!Nobody /\ lk_retries[p] = EmptyRetries)
        BY <1>6 DEF Lock!Remove, Lock!Overtaken, Lock!LeftEmpty
      <3>2. lk_pc[p] = "remove"
        BY <1>6 DEF Lock!Remove
      <3>3. lk_seen[p].owner # Nil /\ ~lk_seen[p].alive
        BY <1>1, <3>1, <3>2 DEF Judged
      <3>4. lk_seen[p] # Lock!Nobody
        BY <3>3 DEF Lock!Nobody
      <3> QED BY <1>1, <3>1, <3>3, <3>4 DEF Judged
    <2>2. \A q \in Contenders : lk_pc[q] \notin {"write", "held"}
      BY <1>3, <2>1 DEF Owned
    <2> QED BY <1>1, <1>6, <2>2 DEF Lock!Remove, Owned
  <1>7. CASE Lock!Release(p)
    <2>1. lk_file.owner = p
      BY <1>3, <1>7 DEF Lock!Release, Owned
    <2>2. \A q \in Contenders : lk_pc[q] \in {"write", "held"} => q = p
      BY <1>3, <2>1 DEF Owned
    <2> QED BY <1>1, <1>7, <2>2 DEF Lock!Release, Owned
  <1>8. CASE Lock!Exit(p) \/ Lock!Crash(p)
    BY <1>3, <1>8, PidGoneOwned DEF Lock!Exit, Lock!Crash
  <1>9. CASE lk_file' = lk_file /\ \A q \in Contenders :
               lk_pc'[q] \in {"write", "held"} => lk_pc[q] \in {"write", "held"}
    BY <1>3, <1>9 DEF Owned
  <1>10. \/ Lock!Create(p) \/ Lock!WriteMetadata(p) \/ Lock!Remove(p) \/ Lock!Release(p)
         \/ Lock!Exit(p) \/ Lock!Crash(p)
         \/ lk_file' = lk_file /\ \A q \in Contenders :
               lk_pc'[q] \in {"write", "held"} => lk_pc[q] \in {"write", "held"}
    <2>1. CASE \/ Lock!Start(p) \/ Lock!Exists(p) \/ Lock!SizeEmpty(p) \/ Lock!SizeOther(p)
               \/ Lock!Parse(p) \/ Lock!ParseRefuse(p) \/ Lock!ProbeStale(p)
               \/ Lock!ProbeRefuse(p)
      <3>1. lk_file' = lk_file
        BY <2>1 DEF Lock!Start, Lock!Exists, Lock!SizeEmpty, Lock!SizeOther, Lock!Parse,
                    Lock!ParseRefuse, Lock!ProbeStale, Lock!ProbeRefuse
      <3>2. \E l \in {"create", "size", "remove", "parse", "probe", "done"} :
              lk_pc' = [lk_pc EXCEPT ![p] = l]
        BY <2>1 DEF Lock!Start, Lock!Exists, Lock!SizeEmpty, Lock!SizeOther, Lock!Parse,
                    Lock!ParseRefuse, Lock!ProbeStale, Lock!ProbeRefuse
      <3> QED BY <1>1, <3>1, <3>2
    <2> QED BY <2>1 DEF Lock!Step
  <1> QED BY <1>4, <1>5, <1>6, <1>7, <1>8, <1>9, <1>10

LEMMA LockStep == LockInv /\ [Lock!Next]_lock_vars => LockInv'
  <1> SUFFICES ASSUME LockInv, [Lock!Next]_lock_vars PROVE LockInv'
    OBVIOUS
  <1>1. Lock!TypeOK'
    BY LockTypesKept DEF LockInv
  <1>2. ASSUME NEW p \in Contenders, Lock!Step(p) \/ Lock!Crash(p) PROVE LockInv'
    BY <1>1, <1>2, JudgedKept, OwnedKept DEF LockInv
  <1>3. CASE UNCHANGED lock_vars
    BY <1>1, <1>3 DEF lock_vars, LockInv, Judged, Owned
  <1> QED BY <1>2, <1>3 DEF Lock!Next

LEMMA LockSteps ==
  [PlatformNext]_platform_vars /\ side' = "lock" => side = "lock" /\ [Lock!Next]_lock_vars
  BY DEF PlatformNext, LockNext, JetstreamNext, MigrationNext, ResourcesNext, platform_vars

\* Every variable keeps its type, whoever dies and whatever is torn.
THEOREM LockTypeCorrect == PlatformSpec => [](side = "lock" => Lock!TypeOK)
  <1> DEFINE Inv == side = "lock" => Lock!TypeOK
  <1>1. PlatformInit => Inv
    BY LockTypesStart DEF PlatformInit
  <1>2. Inv /\ [PlatformNext]_platform_vars => Inv'
    BY LockSteps, LockTypesKept
  <1> QED
    BY <1>1, <1>2, PTL DEF PlatformSpec

\* The lock of a process that runs is respected, for any number of processes that
\* compete, end, die and fail to write (lock.cpp's constructor and destructor):
\* there are two owners only after a steal that was overtaken, or that found the
\* file empty after every retry.
THEOREM LockIsRespected == PlatformSpec => []LiveOwnerIsRespected
  <1> DEFINE Inv == side = "lock" => LockInv
  <1>1. Inv => LiveOwnerIsRespected
    BY DEF LockInv, Owned, LiveOwnerIsRespected, Lock!LiveOwnerIsRespected,
           Lock!MutualExclusion
  <1>2. Inv /\ [PlatformNext]_platform_vars => Inv'
    BY LockSteps, LockStep
  <1>3. PlatformInit => Inv
    BY LockInvStarts DEF PlatformInit
  <1> QED
    BY <1>1, <1>2, <1>3, PTL DEF PlatformSpec

---------------------------------------------------------------------------
(* The jetstream reader: types. *)

Outcome == {"absent", "pending", "learned", "withdrawn"}

Notes ==
  {"frame", "cursor-gap", "create", "delete", "other", "malformed"} \X Nat

Files == [records : SUBSET Notes, end : {"absent", "whole", "torn"}]

RunType ==
  [pc : {"down", "live", "batch", "event", "apply", "save", "done", "rows", "row"},
   graph : SUBSET Stream!Keys, cursor : 0..StreamLength, from : Nat, live : Nat,
   client : 0..StreamLength, last : 0..StreamLength, gap : BOOLEAN, resync : BOOLEAN,
   withdrawn : BOOLEAN, touched : SUBSET Stream!Keys, before : 0..StreamLength,
   connected : Nat]

StreamTyped ==
  /\ js_log \in [1..StreamLength -> Stream!Frames]
  /\ js_mode \in [filtered : BOOLEAN, all : BOOLEAN]
  /\ js_socket \in 1..(StreamLength + 1)
  /\ js_ledger \in [Stream!Keys -> Outcome]
  /\ js_evidence \in Files
  /\ js_model \subseteq Stream!Keys
  /\ js_saved \in [cursor : 0..StreamLength, from : Nat \ {0}, live : Nat]
  /\ js_run \in RunType
  /\ js_run.pc \in {"event", "apply", "row"} => js_socket <= StreamLength
  /\ js_run.pc # "down" => js_run.from # 0
  /\ js_run.pc \in {"live", "batch", "event", "apply"} => js_run.connected # 0

\* What the frames hold.
LEMMA FramesTyped ==
  ASSUME NEW f \in Stream!Frames
  PROVE  /\ f.op \in {"create", "delete", "other", "malformed"} /\ f.rev \in Stream!Revisions
         /\ f.op = "create" => f.uri \in Uris /\ f.text \in StreamTexts
         /\ f.op = "delete" => f.uri \in Uris
  <1>1. CASE \E u \in Uris, x \in StreamTexts, v \in Stream!Revisions :
                   f = Stream!Create(u, x, v)
    BY <1>1 DEF Stream!Create
  <1>2. CASE \E u \in Uris, v \in Stream!Revisions : f = Stream!Delete(u, v)
    BY <1>2 DEF Stream!Delete
  <1>3. CASE f = Stream!Other
    BY <1>3 DEF Stream!Other, Stream!Revisions
  <1>4. CASE f = Stream!Malformed
    BY <1>4 DEF Stream!Malformed, Stream!Revisions
  <1> QED
    BY <1>1, <1>2, <1>3, <1>4 DEF Stream!Frames

LEMMA LogTyped ==
  ASSUME StreamTyped
  PROVE  /\ StreamLength \in Nat /\ Len(js_log) = StreamLength
         /\ \A s \in 1..StreamLength :
              /\ js_log[s].op \in {"create", "delete", "other", "malformed"}
              /\ js_log[s].rev \in Stream!Revisions
              /\ js_log[s].op = "create" => js_log[s].uri \in Uris /\ Stream!Key(s) \in Stream!Keys
              /\ js_log[s].op = "delete" => js_log[s].uri \in Uris
  <1>1. StreamLength \in Nat
    BY PlatformAssumption DEF Stream!JetstreamAssumption
  <1>2. js_log \in Seq(Stream!Frames) /\ Len(js_log) = StreamLength
    BY <1>1 DEF StreamTyped
  <1>3. ASSUME NEW s \in 1..StreamLength
        PROVE  /\ js_log[s].op \in {"create", "delete", "other", "malformed"}
               /\ js_log[s].rev \in Stream!Revisions
               /\ js_log[s].op = "create" => js_log[s].uri \in Uris /\ Stream!Key(s) \in Stream!Keys
               /\ js_log[s].op = "delete" => js_log[s].uri \in Uris
    <2>1. js_log[s] \in Stream!Frames
      BY DEF StreamTyped
    <2> QED
      BY <2>1, FramesTyped DEF Stream!Key, Stream!Keys
  <1> QED
    BY <1>1, <1>2, <1>3

LEMMA StreamDownTyped == Stream!Down \in RunType /\ Stream!Down.pc = "down"
  <1>1. StreamLength \in Nat
    BY PlatformAssumption DEF Stream!JetstreamAssumption
  <1> QED
    BY <1>1 DEF RunType, Stream!Down

LEMMA StreamStartsTyped == Stream!Init => StreamTyped
  <1>1. StreamLength \in Nat
    BY PlatformAssumption DEF Stream!JetstreamAssumption
  <1> QED
    BY <1>1, StreamDownTyped DEF Stream!Init, StreamTyped, Stream!NoFile, Stream!File, Files, Outcome

\* What the protocol cursor makes of a frame.
LEMMA Observes ==
  ASSUME js_run \in RunType, StreamLength \in Nat, NEW s \in 1..StreamLength, NEW o,
         o = Stream!observe_sequence(js_run, s)
  PROVE  /\ o \in RunType
         /\ o.last \in {js_run.last, s} /\ o.last # 0
         /\ js_run.last = 0 => o.last = s /\ o.from = s /\ o.live = s
         /\ js_run.last # 0 => o.from = js_run.from /\ o.live = js_run.live
         /\ o.pc = js_run.pc /\ o.graph = js_run.graph /\ o.cursor = js_run.cursor
         /\ o.client = js_run.client /\ o.withdrawn = js_run.withdrawn
         /\ o.touched = js_run.touched /\ o.before = js_run.before
         /\ o.connected = js_run.connected
  <1>1. PICK result : result = Stream!CursorResult(js_run, s)
    OBVIOUS
  <1>2. o = [js_run EXCEPT !.last = IF result \in {"Initialized", "Advanced"} THEN s ELSE @,
                           !.from = IF result = "Initialized" THEN s ELSE @,
                           !.live = IF result = "Initialized" THEN s ELSE @,
                           !.gap = result = "Gap",
                           !.resync = @ \/ result \in {"Gap", "Rewind"}]
    BY <1>1, Zenon DEF Stream!observe_sequence
  <1>3. result = "Initialized" <=> js_run.last = 0
    BY <1>1 DEF Stream!CursorResult
  <1>4. o \in RunType
    <2> DEFINE l == IF result \in {"Initialized", "Advanced"} THEN s ELSE js_run.last
               f == IF result = "Initialized" THEN s ELSE js_run.from
               v == IF result = "Initialized" THEN s ELSE js_run.live
               g == result = "Gap"
               y == js_run.resync \/ result \in {"Gap", "Rewind"}
    <2>1. l \in 0..StreamLength /\ f \in Nat /\ v \in Nat
      BY DEF RunType
    <2>2. g \in BOOLEAN /\ y \in BOOLEAN
      OBVIOUS
    <2>3. o = [js_run EXCEPT !.last = l, !.from = f, !.live = v, !.gap = g, !.resync = y]
      BY <1>2
    <2> HIDE DEF l, f, v, g, y
    <2> QED
      BY <2>1, <2>2, <2>3, ZenonT(60) DEF RunType
  <1> QED
    BY <1>2, <1>3, <1>4 DEF RunType

\* A frame that is finished with.
LEMMA Finishes ==
  ASSUME StreamTyped, NEW r \in RunType, js_socket <= StreamLength, Stream!Finish(r)
  PROVE  /\ js_run' \in RunType /\ js_socket' = js_socket + 1
         /\ js_run'.pc = (IF r.pc = "row" THEN "rows" ELSE "batch")
         /\ js_run'.client = js_socket
         /\ js_run'.graph = r.graph /\ js_run'.cursor = r.cursor /\ js_run'.from = r.from
         /\ js_run'.live = r.live /\ js_run'.last = r.last
         /\ js_run'.withdrawn = r.withdrawn /\ js_run'.touched = r.touched
         /\ js_run'.before = r.before /\ js_run'.connected = r.connected
  <1>1. js_socket \in 0..StreamLength
    BY LogTyped DEF StreamTyped
  <1>2. js_run' = [r EXCEPT !.pc = IF r.pc = "row" THEN "rows" ELSE "batch",
                            !.client = js_socket]
    BY DEF Stream!Finish
  <1>3. js_socket' = js_socket + 1
    BY DEF Stream!Finish
  <1> QED
    BY <1>1, <1>2, <1>3 DEF RunType

\* A frame that goes on to its next step.
LEMMA Proceeds ==
  ASSUME NEW r \in RunType, NEW step \in {"event", "apply"}, Stream!Proceed(r, step)
  PROVE  /\ js_run' \in RunType /\ js_socket' = js_socket
         /\ js_run'.pc = step
         /\ js_run'.graph = r.graph /\ js_run'.cursor = r.cursor /\ js_run'.from = r.from
         /\ js_run'.live = r.live /\ js_run'.last = r.last /\ js_run'.client = r.client
         /\ js_run'.withdrawn = r.withdrawn /\ js_run'.touched = r.touched
         /\ js_run'.before = r.before /\ js_run'.connected = r.connected
  BY DEF Stream!Proceed, RunType

\* Evidence is only ever added.
LEMMA Appends ==
  ASSUME NEW file \in Files,
         NEW e \in Notes
  PROVE  /\ Stream!append_evidence(file, e) \in
              Files
         /\ file.records \subseteq Stream!append_evidence(file, e).records
         /\ e \in Stream!append_evidence(file, e).records
  BY DEF Stream!append_evidence, Stream!File, Files

Grown(file) ==
  /\ file \in Files
  /\ js_evidence.records \subseteq file.records

\* What a frame and the event in it leave in the evidence ledger.
LEMMA Evidence ==
  ASSUME StreamTyped, js_socket <= StreamLength
  PROVE  /\ Grown(js_evidence)
         /\ Grown(Stream!FrameEvidence(js_socket))
         /\ Grown(Stream!EventEvidence(js_socket))
         /\ Grown(Stream!GapEvidence(js_socket))
         /\ Grown(Stream!append_evidence(js_evidence, <<"create", js_socket>>))
  <1>1. js_evidence \in Files
    BY DEF StreamTyped
  <1>2. js_socket \in 1..StreamLength /\ js_socket \in Nat
    BY LogTyped DEF StreamTyped
  <1>3. \A e \in Notes : Grown(Stream!append_evidence(js_evidence, e))
    BY <1>1, Appends DEF Grown
  <1>4. /\ <<"create", js_socket>> \in Notes /\ <<"frame", js_socket>> \in Notes
        /\ <<"cursor-gap", js_socket>> \in Notes
        /\ <<js_log[js_socket].op, js_socket>> \in Notes
    BY <1>2, LogTyped DEF Notes
  <1>5. /\ Grown(Stream!append_evidence(js_evidence, <<"create", js_socket>>))
        /\ Grown(Stream!append_evidence(js_evidence, <<"frame", js_socket>>))
        /\ Grown(Stream!append_evidence(js_evidence, <<"cursor-gap", js_socket>>))
        /\ Grown(Stream!append_evidence(js_evidence, <<js_log[js_socket].op, js_socket>>))
    BY <1>3, <1>4
  <1>6. Grown(js_evidence)
    BY <1>1 DEF Grown
  <1> QED
    BY <1>5, <1>6, Zenon DEF Stream!FrameEvidence, Stream!EventEvidence, Stream!GapEvidence

\* A commit whose revision is no TID only asks for a resync.
LEMMA ObservesEvent ==
  ASSUME js_run \in RunType, StreamLength \in Nat, NEW s \in 1..StreamLength, NEW o,
         o = Stream!observe_stream(js_run, s), js_run.last # 0
  PROVE  /\ o \in RunType
         /\ o.last \in {js_run.last, s} /\ o.last # 0
         /\ o.from = js_run.from /\ o.live = js_run.live
         /\ o.pc = js_run.pc /\ o.graph = js_run.graph /\ o.cursor = js_run.cursor
         /\ o.client = js_run.client /\ o.withdrawn = js_run.withdrawn
         /\ o.touched = js_run.touched /\ o.before = js_run.before
         /\ o.connected = js_run.connected
  <1>1. CASE o = [js_run EXCEPT !.resync = TRUE]
    BY <1>1 DEF RunType
  <1>2. CASE o = Stream!observe_sequence(js_run, s)
    BY <1>2, Observes
  <1> QED
    BY <1>1, <1>2 DEF Stream!observe_stream

\* A run that begins.
LEMMA StartTypedStream ==
  ASSUME StreamTyped, Stream!Start \/ Stream!StartArchive
  PROVE  StreamTyped'
  <1>1. /\ js_saved \in [cursor : 0..StreamLength, from : Nat \ {0}, live : Nat]
        /\ js_model \in SUBSET Stream!Keys /\ StreamLength \in Nat /\ Len(js_log) = StreamLength
    BY LogTyped DEF StreamTyped
  <1>2. CASE Stream!Start
    <2>1. PICK head \in 1..Len(js_log) :
            LET at == IF js_saved.cursor = 0 THEN head ELSE js_saved.cursor + 1
            IN /\ js_socket' = at
               /\ js_run' = [Stream!Down EXCEPT
                               !.pc = "live", !.graph = js_model, !.cursor = js_saved.cursor,
                               !.client = js_saved.cursor, !.connected = at,
                               !.from = js_saved.from, !.live = js_saved.live]
      BY <1>2 DEF Stream!Start
    <2>2. /\ js_run' \in RunType /\ js_run'.pc = "live" /\ js_run'.from # 0
          /\ js_run'.connected # 0
      <3> DEFINE at == IF js_saved.cursor = 0 THEN head ELSE js_saved.cursor + 1
                 d == Stream!Down
      <3>1. js_run' = [d EXCEPT
                         !.pc = "live", !.graph = js_model, !.cursor = js_saved.cursor,
                         !.client = js_saved.cursor, !.connected = at,
                         !.from = js_saved.from, !.live = js_saved.live]
        BY <2>1
      <3>2. at \in Nat \ {0} /\ d \in RunType
        BY <1>1, StreamDownTyped
      <3> HIDE DEF at, d
      <3> QED
        BY <1>1, <3>1, <3>2, ZenonT(60) DEF RunType
    <2>3. js_socket' \in 1..(StreamLength + 1)
      BY <1>1, <2>1
    <2> QED
      BY <1>2, <2>2, <2>3 DEF StreamTyped, Stream!Start, Stream!Key
  <1>3. CASE Stream!StartArchive
    <2>1. PICK after \in 0..Len(js_log), before \in 1..Len(js_log) :
            /\ after < before
            /\ js_socket' = after + 1
            /\ js_run' = [Stream!Down EXCEPT
                            !.pc = "rows", !.graph = js_model, !.before = before,
                            !.from = IF after = js_saved.cursor /\ after # 0
                                     THEN js_saved.from ELSE after + 1]
      BY <1>3 DEF Stream!StartArchive
    <2>2. js_run' \in RunType /\ js_run'.pc = "rows" /\ js_run'.from # 0
      <3> DEFINE from == IF after = js_saved.cursor /\ after # 0
                         THEN js_saved.from ELSE after + 1
                 d == Stream!Down
      <3>1. js_run' = [d EXCEPT !.pc = "rows", !.graph = js_model, !.before = before,
                                !.from = from]
        BY <2>1
      <3>2. from \in Nat \ {0} /\ d \in RunType /\ before \in 0..StreamLength
        BY <1>1, StreamDownTyped
      <3> HIDE DEF from, d
      <3> QED
        BY <1>1, <3>1, <3>2, ZenonT(60) DEF RunType
    <2>3. js_socket' \in 1..(StreamLength + 1)
      BY <1>1, <2>1
    <2> QED
      BY <1>3, <2>2, <2>3 DEF StreamTyped, Stream!StartArchive
  <1> QED
    BY <1>2, <1>3

\* A frame that is received, and the event in it.
LEMMA ReceiveTyped ==
  ASSUME StreamTyped, Stream!Receive
  PROVE  StreamTyped'
  <1>1. js_socket <= StreamLength /\ js_socket \in 1..StreamLength /\ js_run \in RunType
    BY LogTyped DEF StreamTyped, Stream!Receive
  <1>2. PICK r : r = Stream!observe_sequence(js_run, js_socket)
    OBVIOUS
  <1>3. r \in RunType /\ r.pc = "batch" /\ r.from # 0 /\ r.connected # 0
    BY <1>1, <1>2, Observes, LogTyped DEF StreamTyped, Stream!Receive
  <1>4. Grown(js_evidence')
    BY <1>1, Evidence DEF Stream!Receive
  <1>5. Stream!Proceed(r, "event") \/ Stream!Finish(r)
    BY <1>2 DEF Stream!Receive
  <1>6. /\ js_run' \in RunType /\ js_socket' \in 1..(StreamLength + 1)
        /\ js_run'.pc = "event" => js_socket' <= StreamLength
        /\ js_run'.pc \in {"event", "batch"} /\ js_run'.from # 0
        /\ js_run'.connected # 0
    BY <1>1, <1>3, <1>5, Finishes, Proceeds, LogTyped
  <1> QED
    BY <1>4, <1>6 DEF StreamTyped, Stream!Receive, Grown

LEMMA EventTyped ==
  ASSUME StreamTyped, Stream!Event, js_run.last # 0
  PROVE  StreamTyped'
  <1>1. js_socket <= StreamLength /\ js_socket \in 1..StreamLength /\ js_run \in RunType
    BY LogTyped DEF StreamTyped, Stream!Event
  <1>2. PICK r : r = Stream!observe_stream(js_run, js_socket)
    OBVIOUS
  <1>3. r \in RunType /\ r.pc = "event" /\ r.from # 0 /\ r.connected # 0
    BY <1>1, <1>2, ObservesEvent, LogTyped DEF StreamTyped, Stream!Event
  <1>4. Grown(js_evidence')
    BY <1>1, Evidence DEF Stream!Event
  <1>5. Stream!Proceed(r, "apply") \/ Stream!Finish(r)
    BY <1>2 DEF Stream!Event
  <1>6. /\ js_run' \in RunType /\ js_socket' \in 1..(StreamLength + 1)
        /\ js_run'.pc = "apply" => js_socket' <= StreamLength
        /\ js_run'.pc \in {"apply", "batch"} /\ js_run'.from # 0
        /\ js_run'.connected # 0
    BY <1>1, <1>3, <1>5, Finishes, Proceeds, LogTyped
  <1> QED
    BY <1>4, <1>6 DEF StreamTyped, Stream!Event, Grown

\* What becomes of an entry: it is reserved, learned and withdrawn, in this order.
Moves ==
  \A k \in Stream!Keys :
    /\ js_ledger[k] = "learned" => js_ledger'[k] \in {"learned", "withdrawn"}
    /\ js_ledger[k] = "withdrawn" => js_ledger'[k] = "withdrawn"

LEMMA Reserves ==
  ASSUME StreamTyped, js_run.pc \in {"apply", "row"}, js_log[js_socket].op = "create",
         Stream!Reserve(js_socket)
  PROVE  /\ StreamTyped' /\ Moves
         /\ js_run' = js_run /\ js_socket' = js_socket /\ js_evidence' = js_evidence
         /\ \A k \in Stream!Keys : (js_ledger'[k] = "learned") <=> (js_ledger[k] = "learned")
         /\ \A k \in Stream!Keys : (js_ledger'[k] = "withdrawn") <=> (js_ledger[k] = "withdrawn")
  <1>1. js_socket \in 1..StreamLength /\ js_ledger \in [Stream!Keys -> Outcome]
    BY LogTyped DEF StreamTyped
  <1>2. PICK key \in Stream!Keys : key = Stream!Key(js_socket)
    BY <1>1, LogTyped
  <1>3. /\ js_ledger[key] = "absent" /\ js_ledger' = [js_ledger EXCEPT ![key] = "pending"]
        /\ UNCHANGED <<js_log, js_mode, js_socket, js_evidence, js_model, js_saved, js_run>>
    BY <1>2 DEF Stream!Reserve
  <1>4. js_ledger' \in [Stream!Keys -> Outcome] /\ Moves
    BY <1>1, <1>3 DEF Moves, Outcome
  <1>5. StreamTyped'
    BY <1>3, <1>4 DEF StreamTyped
  <1> QED
    BY <1>1, <1>3, <1>4, <1>5 DEF Outcome

LEMMA Learns ==
  ASSUME StreamTyped, js_run.pc \in {"apply", "row"}, js_log[js_socket].op = "create",
         Stream!Learn(js_socket)
  PROVE  /\ StreamTyped' /\ Moves
         /\ js_socket' = js_socket + 1 /\ js_evidence' = js_evidence
         /\ js_ledger'[Stream!Key(js_socket)] \in {"learned", "withdrawn"}
         /\ js_run'.pc = (IF js_run.pc = "row" THEN "rows" ELSE "batch")
         /\ js_run'.client = js_socket /\ js_run'.cursor = js_run.cursor
         /\ js_run'.from = js_run.from /\ js_run'.live = js_run.live
         /\ js_run'.last = js_run.last /\ js_run'.withdrawn = js_run.withdrawn
         /\ js_run'.before = js_run.before
         /\ \E new \in SUBSET {Stream!Key(js_socket)} :
              /\ js_run'.touched = js_run.touched \cup new
              /\ js_run'.graph = js_run.graph \cup new
              /\ \A k \in Stream!Keys :
                   js_ledger'[k] = IF k \in new THEN "learned" ELSE js_ledger[k]
  <1>1. /\ js_socket \in 1..StreamLength /\ js_ledger \in [Stream!Keys -> Outcome]
        /\ js_socket <= StreamLength /\ js_run \in RunType /\ js_run.from # 0
    BY LogTyped DEF StreamTyped
  <1>2. PICK key \in Stream!Keys : key = Stream!Key(js_socket)
    BY <1>1, LogTyped
  <1>3. PICK new : new = IF Stream!ExistsCommitted(js_socket) THEN {} ELSE {key}
    OBVIOUS
  <1>4. PICK r : r = [js_run EXCEPT !.graph = @ \cup new, !.touched = @ \cup new]
    OBVIOUS
  <1>5. /\ js_ledger[key] # "absent"
        /\ js_ledger' = [k \in Stream!Keys |-> IF k \in new THEN "learned" ELSE js_ledger[k]]
        /\ Stream!Finish(r)
        /\ UNCHANGED <<js_log, js_mode, js_evidence, js_model, js_saved>>
    BY <1>2, <1>3, <1>4 DEF Stream!Learn
  <1>6. js_ledger[key] \in {"learned", "withdrawn"} <=> new = {}
    BY <1>2, <1>3 DEF Stream!ExistsCommitted
  <1>7. new \in SUBSET {key}
    BY <1>3
  <1>8. js_ledger' \in [Stream!Keys -> Outcome] /\ Moves
    BY <1>1, <1>5, <1>6, <1>7 DEF Moves, Outcome
  <1>9. js_ledger'[key] \in {"learned", "withdrawn"}
    BY <1>3, <1>5, <1>6
  <1>10. /\ r \in RunType /\ r.pc = js_run.pc /\ r.cursor = js_run.cursor
         /\ r.from = js_run.from /\ r.live = js_run.live /\ r.last = js_run.last
         /\ r.withdrawn = js_run.withdrawn /\ r.before = js_run.before
         /\ r.connected = js_run.connected
         /\ r.graph = js_run.graph \cup new /\ r.touched = js_run.touched \cup new
    BY <1>1, <1>4, <1>7 DEF RunType
  <1>11. /\ js_run' \in RunType /\ js_socket' = js_socket + 1
         /\ js_run'.pc = (IF js_run.pc = "row" THEN "rows" ELSE "batch")
         /\ js_run'.client = js_socket /\ js_run'.cursor = js_run.cursor
         /\ js_run'.from = js_run.from /\ js_run'.live = js_run.live
         /\ js_run'.last = js_run.last /\ js_run'.withdrawn = js_run.withdrawn
         /\ js_run'.before = js_run.before
         /\ js_run'.touched = js_run.touched \cup new
         /\ js_run'.graph = js_run.graph \cup new /\ js_run'.connected = js_run.connected
    BY <1>1, <1>5, <1>10, Finishes
  <1>12. StreamTyped'
    BY <1>1, <1>5, <1>8, <1>11, LogTyped DEF StreamTyped
  <1>13. \A k \in Stream!Keys : js_ledger'[k] = IF k \in new THEN "learned" ELSE js_ledger[k]
    BY <1>5
  <1> QED
    BY <1>2, <1>5, <1>7, <1>8, <1>9, <1>11, <1>12, <1>13

\* A withdrawal goes entry by entry; at its end no entry of the record is left.
LEMMA Withdraws ==
  ASSUME StreamTyped, js_run.pc = "apply", js_log[js_socket].op = "delete",
         Stream!withdraw_source(js_socket)
  PROVE  /\ StreamTyped' /\ Moves /\ js_evidence' = js_evidence
         /\ js_run'.graph = js_run.graph /\ js_run'.cursor = js_run.cursor
         /\ js_run'.from = js_run.from /\ js_run'.live = js_run.live
         /\ js_run'.last = js_run.last
         /\ \/ /\ js_run'.pc = "batch" /\ js_run'.client = js_socket
               /\ js_socket' = js_socket + 1 /\ js_ledger' = js_ledger
               /\ js_run'.withdrawn = js_run.withdrawn /\ js_run'.touched = js_run.touched
               /\ \A k \in Stream!Keys :
                    k[1] = js_log[js_socket].uri => js_ledger[k] # "learned"
            \/ /\ js_run'.pc = "apply" /\ js_socket' = js_socket /\ js_run'.withdrawn
               /\ \E key \in Stream!Keys :
                    /\ key[1] = js_log[js_socket].uri
                    /\ \A k \in Stream!Keys :
                         js_ledger'[k] = IF k = key THEN "withdrawn" ELSE js_ledger[k]
  <1>1. /\ js_socket \in 1..StreamLength /\ js_ledger \in [Stream!Keys -> Outcome]
        /\ js_socket <= StreamLength /\ js_run \in RunType /\ js_run.from # 0
    BY LogTyped DEF StreamTyped
  <1> DEFINE left == {k \in Stream!Keys : /\ k[1] = js_log[js_socket].uri
                                          /\ js_ledger[k] \in {"pending", "learned"}}
  <1>2. CASE left = {}
    <2>1. /\ Stream!Finish(js_run)
          /\ UNCHANGED <<js_log, js_mode, js_ledger, js_evidence, js_model, js_saved>>
      BY <1>2 DEF Stream!withdraw_source
    <2>2. \A k \in Stream!Keys : k[1] = js_log[js_socket].uri => js_ledger[k] # "learned"
      BY <1>2
    <2> HIDE DEF left
    <2>3. /\ js_run' \in RunType /\ js_socket' = js_socket + 1 /\ js_run'.pc = "batch"
          /\ js_run'.client = js_socket /\ js_run'.graph = js_run.graph
          /\ js_run'.cursor = js_run.cursor /\ js_run'.from = js_run.from
          /\ js_run'.live = js_run.live /\ js_run'.last = js_run.last
          /\ js_run'.withdrawn = js_run.withdrawn /\ js_run'.touched = js_run.touched
          /\ js_run'.connected = js_run.connected
      BY <1>1, <2>1, Finishes
    <2>4. StreamTyped' /\ Moves
      BY <1>1, <2>1, <2>3, LogTyped DEF StreamTyped, Moves
    <2> QED
      BY <2>1, <2>2, <2>3, <2>4
  <1>3. CASE left # {}
    <2>1. PICK key \in left :
            /\ js_ledger' = [js_ledger EXCEPT ![key] = "withdrawn"]
            /\ js_run' = [js_run EXCEPT !.withdrawn = TRUE, !.touched = @ \cup {key}]
            /\ UNCHANGED <<js_log, js_mode, js_socket, js_evidence, js_model, js_saved>>
      BY <1>3 DEF Stream!withdraw_source
    <2>2. key \in Stream!Keys /\ key[1] = js_log[js_socket].uri
      OBVIOUS
    <2> HIDE DEF left
    <2>3. js_ledger' \in [Stream!Keys -> Outcome] /\ Moves
      BY <1>1, <2>1, <2>2 DEF Moves, Outcome
    <2>4. /\ js_run' \in RunType /\ js_run'.withdrawn /\ js_run'.pc = "apply"
          /\ js_run'.graph = js_run.graph /\ js_run'.cursor = js_run.cursor
          /\ js_run'.from = js_run.from /\ js_run'.live = js_run.live
          /\ js_run'.last = js_run.last /\ js_run'.connected = js_run.connected
      BY <1>1, <2>1, <2>2 DEF RunType
    <2>5. StreamTyped'
      BY <1>1, <2>1, <2>3, <2>4 DEF StreamTyped
    <2>6. \A k \in Stream!Keys : js_ledger'[k] = IF k = key THEN "withdrawn" ELSE js_ledger[k]
      BY <1>1, <2>1, <2>2
    <2> QED
      BY <2>1, <2>2, <2>3, <2>4, <2>5, <2>6
  <1> QED
    BY <1>2, <1>3

\* The steps that only move the reader.
Reads ==
  \/ Stream!BeginBatch \/ Stream!Skip \/ Stream!EndBatch \/ Stream!SaveModel
  \/ Stream!SaveState \/ Stream!SkipRow \/ Stream!Row \/ Stream!EndWindow
  \/ Stream!Lose \/ Stream!Reconnect \/ Stream!Crash

LEMMA ReadsTyped ==
  ASSUME StreamTyped, Reads
  PROVE  StreamTyped' /\ js_ledger' = js_ledger
  <1>1. /\ js_socket \in 1..(StreamLength + 1) /\ js_run \in RunType
        /\ StreamLength \in Nat /\ Len(js_log) = StreamLength
        /\ js_run.pc # "down" => js_run.from # 0
        /\ js_run.pc \in {"live", "batch", "event", "apply"} => js_run.connected # 0
    BY LogTyped DEF StreamTyped
  <1>2. CASE Stream!BeginBatch
    <2>1. /\ js_run' \in RunType /\ js_run'.pc = "batch" /\ js_run'.from # 0
          /\ js_run'.connected # 0
      BY <1>1, <1>2 DEF Stream!BeginBatch, RunType
    <2> QED
      BY <1>2, <2>1 DEF StreamTyped, Stream!BeginBatch
  <1>3. CASE Stream!Skip
    BY <1>1, <1>3 DEF StreamTyped, Stream!Skip
  <1>4. CASE Stream!EndBatch
    <2> DEFINE g == IF js_run.withdrawn THEN Stream!rebuild_from_ledger ELSE js_run.graph
               c == IF js_run.resync THEN js_run.cursor ELSE js_run.client
    <2>1. g \in SUBSET Stream!Keys /\ c \in 0..StreamLength
      BY <1>1 DEF RunType, Stream!rebuild_from_ledger
    <2>2. js_run' = [Stream!Between(js_run) EXCEPT !.graph = g, !.cursor = c]
      BY <1>1, <1>4 DEF Stream!EndBatch, Stream!Between, RunType
    <2>4. /\ Stream!Between(js_run) \in RunType /\ Stream!Between(js_run).pc = "live"
          /\ Stream!Between(js_run).from = js_run.from
          /\ Stream!Between(js_run).connected = js_run.connected
      <3>1. PICK no \in BOOLEAN : no = FALSE
        OBVIOUS
      <3>2. Stream!Between(js_run) = [js_run EXCEPT !.pc = "live", !.last = 0, !.gap = no,
                                                    !.resync = no, !.withdrawn = no]
        BY <3>1, Zenon DEF Stream!Between
      <3>3. 0 \in 0..StreamLength
        BY <1>1
      <3> QED
        BY <1>1, <3>2, <3>3, ZenonT(60) DEF RunType
    <2> HIDE DEF g, c
    <2>3. /\ js_run' \in RunType /\ js_run'.pc = "live" /\ js_run'.from = js_run.from
          /\ js_run'.connected = js_run.connected
      BY <2>1, <2>2, <2>4 DEF RunType
    <2> QED
      BY <1>1, <1>4, <2>3 DEF StreamTyped, Stream!EndBatch
  <1>5. CASE Stream!SaveModel
    <2>1. /\ js_run' \in RunType /\ js_run'.pc = "save" /\ js_run'.from # 0
          /\ js_model' \subseteq Stream!Keys
      BY <1>1, <1>5, ZenonT(60) DEF Stream!SaveModel, RunType
    <2> QED
      BY <1>5, <2>1 DEF StreamTyped, Stream!SaveModel
  <1>6. CASE Stream!SaveState
    <2>1. js_saved' \in [cursor : 0..StreamLength, from : Nat \ {0}, live : Nat]
      BY <1>1, <1>6 DEF Stream!SaveState, RunType
    <2>2. js_run' \in RunType /\ js_run'.pc = "down" /\ js_socket' = 1
      BY <1>6, StreamDownTyped DEF Stream!SaveState
    <2> QED
      BY <1>1, <1>6, <2>1, <2>2 DEF StreamTyped, Stream!SaveState
  <1>7. CASE Stream!SkipRow
    <2>1. js_socket' \in 1..(StreamLength + 1)
      BY <1>1, <1>7 DEF Stream!SkipRow, RunType
    <2> QED
      BY <1>1, <1>7, <2>1 DEF StreamTyped, Stream!SkipRow
  <1>8. CASE Stream!Row
    <2>1. js_socket <= StreamLength
      BY <1>1, <1>8 DEF Stream!Row, RunType
    <2>2. js_evidence' \in Files
      BY <1>8, <2>1, Evidence DEF Stream!Row, Grown
    <2>3. js_run' \in RunType /\ js_run'.pc = "row" /\ js_run'.from # 0
      BY <1>1, <1>8 DEF Stream!Row, RunType
    <2> QED
      BY <1>1, <1>8, <2>1, <2>2, <2>3 DEF StreamTyped, Stream!Row
  <1>9. CASE Stream!EndWindow
    <2>1. js_run' \in RunType /\ js_run'.pc = "done" /\ js_run'.from # 0
      <3>1. js_run.before + 1 \in Nat /\ js_run.pc = "rows"
        BY <1>1, <1>9 DEF RunType, Stream!EndWindow
      <3>2. js_run' = [js_run EXCEPT !.pc = "done", !.cursor = js_run.before,
                                     !.live = js_run.before + 1]
        BY <1>9 DEF Stream!EndWindow
      <3> QED
        BY <1>1, <3>1, <3>2 DEF RunType
    <2> QED
      BY <1>1, <1>9, <2>1 DEF StreamTyped, Stream!EndWindow
  <1>10. CASE Stream!Lose
    BY <1>1, <1>10 DEF StreamTyped, Stream!Lose
  <1>11. CASE Stream!Reconnect
    <2>1. PICK at \in js_run.connected..(js_socket - 1) : js_socket' = at
      BY <1>11 DEF Stream!Reconnect
    <2>2. js_run.connected \in Nat /\ js_run.connected # 0
      BY <1>1, <1>11 DEF RunType, Stream!Reconnect
    <2>3. js_socket' \in 1..(StreamLength + 1)
      BY <1>1, <2>1, <2>2
    <2> QED
      BY <1>1, <1>11, <2>3 DEF StreamTyped, Stream!Reconnect
  <1>12. CASE Stream!Crash
    <2>1. js_evidence' \in Files
      BY <1>12 DEF StreamTyped, Files, Stream!Crash, Stream!Interrupted, Stream!File
    <2>2. js_run' \in RunType /\ js_run'.pc = "down" /\ js_socket' = 1
      BY <1>12, StreamDownTyped DEF Stream!Crash
    <2> QED
      BY <1>1, <1>12, <2>1, <2>2 DEF StreamTyped, Stream!Crash
  <1> QED
    BY <1>2, <1>3, <1>4, <1>5, <1>6, <1>7, <1>8, <1>9, <1>10, <1>11, <1>12 DEF Reads

---------------------------------------------------------------------------
(* The jetstream reader: how far a cursor may be trusted. *)

\* A post has been learned, and what a later frame deletes is no longer learned;
\* a commit whose revision is no TID counts for nothing.
Done(s) ==
  (js_log[s].op = "create" /\ js_log[s].rev # "bad") =>
    js_ledger[Stream!Key(s)] \in {"learned", "withdrawn"}

Swept(s, from, live) ==
  (js_log[s].op = "delete" /\ js_log[s].rev # "bad" /\ s >= live) =>
    \A c \in (from..(s - 1)) \ js_lost :
      (js_log[c].op = "create" /\ js_log[c].uri = js_log[s].uri /\ js_log[c].rev # "bad") =>
        js_ledger[Stream!Key(c)] # "learned"

\* Everything from where reading began up to a frame has been handled.
Covered(from, to, live) ==
  \A s \in (from..to) \ js_lost : Done(s) /\ Swept(s, from, live)

\* The frames that came before the one in hand are covered, and so is every cursor
\* the reader may save: what is known of a run at a step, that began at from and live,
\* with the cursor it reached, its client's and its batch's, before frame next.
Reader(at, from, live, reached, client, last, next) ==
  /\ at \in {"live", "batch", "event", "apply", "save", "done"} => Covered(from, reached, live)
  /\ at \in {"live", "batch"} =>
       /\ Covered(from, client, live)
       /\ reached # 0 => client # 0
       /\ client # 0 => Covered(from, next - 1, live)
  /\ at = "batch" =>
       /\ last # 0 => Covered(from, last, live) /\ client # 0
       /\ reached # 0 => last # 0
  /\ at \in {"event", "apply"} =>
       /\ js_log[next].op \in {"create", "delete"} /\ last # 0
       /\ last = next \/ Covered(from, last, live)
       /\ Covered(from, next - 1, live)
  /\ at \in {"rows", "row"} => \A s \in (from..(next - 1)) \ js_lost : Done(s)
  /\ at = "row" => js_log[next].op = "create"

Positions ==
  /\ Covered(js_saved.from, js_saved.cursor, js_saved.live)
  /\ Reader(js_run.pc, js_run.from, js_run.live, js_run.cursor, js_run.client, js_run.last,
            js_socket)

\* A cursor that was covered stays so, whatever becomes of the ledger.
LEMMA CoveredStays ==
  ASSUME StreamTyped, Moves, js_log' = js_log, js_lost \subseteq js_lost',
         NEW from \in Nat \ {0}, NEW to \in 0..StreamLength, NEW live \in Nat,
         Covered(from, to, live)
  PROVE  Covered(from, to, live)'
  <1> SUFFICES ASSUME NEW s \in (from..to) \ js_lost
               PROVE  Done(s)' /\ Swept(s, from, live)'
    BY DEF Covered
  <1>1. \A c \in (from..to) \ js_lost : c \in 1..StreamLength /\ Done(c)
    BY LogTyped DEF Covered
  <1>2. \A c \in 1..StreamLength : Stream!Key(c)' = Stream!Key(c)
    BY DEF Stream!Key
  <1>3. \A c \in 1..StreamLength : js_log[c].op = "create" => Stream!Key(c) \in Stream!Keys
    BY LogTyped
  <1>4. Done(s)'
    BY <1>1, <1>2, <1>3 DEF Done, Moves
  <1>5. ASSUME js_log[s].op = "delete", js_log[s].rev # "bad", s >= live,
               NEW c \in (from..(s - 1)) \ js_lost, js_log[c].op = "create",
               js_log[c].uri = js_log[s].uri, js_log[c].rev # "bad"
        PROVE  js_ledger'[Stream!Key(c)] # "learned"
    <2>1. c \in (from..to) \ js_lost /\ c \in 1..StreamLength
      BY <1>1
    <2>2. js_ledger[Stream!Key(c)] = "withdrawn"
      BY <1>1, <1>5, <2>1 DEF Covered, Done, Swept
    <2> QED
      BY <1>3, <1>5, <2>1, <2>2 DEF Moves
  <1>6. Swept(s, from, live)'
    <2> SUFFICES ASSUME js_log'[s].op = "delete", js_log'[s].rev # "bad", s >= live,
                        NEW c \in (from..(s - 1)) \ js_lost', js_log'[c].op = "create",
                        js_log'[c].uri = js_log'[s].uri, js_log'[c].rev # "bad"
                 PROVE  js_ledger'[Stream!Key(c)'] # "learned"
      BY DEF Swept
    <2>1. c \in (from..(s - 1)) \ js_lost /\ c \in 1..StreamLength
      BY <1>1
    <2>2. js_ledger'[Stream!Key(c)] # "learned"
      BY <1>5, <2>1
    <2> QED
      BY <1>2, <2>1, <2>2
  <1> QED
    BY <1>4, <1>6

LEMMA DoneStays ==
  ASSUME StreamTyped, Moves, js_log' = js_log, NEW s \in 1..StreamLength, Done(s)
  PROVE  Done(s)'
  <1>1. Stream!Key(s)' = Stream!Key(s)
    BY DEF Stream!Key
  <1>2. js_log[s].op = "create" => Stream!Key(s) \in Stream!Keys
    BY LogTyped
  <1> QED
    BY <1>1, <1>2 DEF Done, Moves

\* Up to an earlier frame; to the next frame; nothing yet.
LEMMA CoveredLess ==
  \A from \in Nat, to \in Int, less \in Int, live \in Nat :
    less <= to /\ Covered(from, to, live) => Covered(from, less, live)
  BY DEF Covered

OneMoreCovered ==
  \A from \in Nat, s \in Nat, live \in Nat :
    (Covered(from, s - 1, live) /\ (s \in js_lost \/ (Done(s) /\ Swept(s, from, live)))) =>
      Covered(from, s, live)

LEMMA CoveredMore == OneMoreCovered
  BY DEF Covered, OneMoreCovered

LEMMA CoveredMoreNext == OneMoreCovered'
  BY CoveredMore, PTL

LEMMA CoveredNothing ==
  \A from \in Nat, to \in Int, live \in Nat : to < from => Covered(from, to, live)
  BY DEF Covered

LEMMA ReaderStays ==
  ASSUME StreamTyped, Moves, js_log' = js_log, js_lost \subseteq js_lost',
         NEW p, NEW f \in Nat \ {0}, NEW l \in Nat, NEW c \in 0..StreamLength,
         NEW k \in 0..StreamLength, NEW t \in 0..StreamLength, NEW n \in 1..(StreamLength + 1),
         Reader(p, f, l, c, k, t, n)
  PROVE  Reader(p, f, l, c, k, t, n)'
  <1>1. \A to \in 0..StreamLength : Covered(f, to, l) => Covered(f, to, l)'
    BY CoveredStays
  <1>2. n - 1 \in 0..StreamLength
    BY LogTyped
  <1>3. \A s \in f..(n - 1) : Done(s) => Done(s)'
    <2>1. \A s \in f..(n - 1) : s \in 1..StreamLength
      BY LogTyped
    <2> QED
      BY <2>1, DoneStays
  <1> QED
    BY <1>1, <1>2, <1>3 DEF Reader

\* What is known of the next state, by the values it has.
LEMMA PositionsNext ==
  ASSUME NEW p, NEW f, NEW l, NEW c, NEW k, NEW t, NEW n, NEW sf, NEW sc, NEW sl,
         js_run'.pc = p, js_run'.from = f, js_run'.live = l, js_run'.cursor = c,
         js_run'.client = k, js_run'.last = t, js_socket' = n,
         js_saved'.from = sf, js_saved'.cursor = sc, js_saved'.live = sl,
         Reader(p, f, l, c, k, t, n)', Covered(sf, sc, sl)'
  PROVE  Positions'
  BY DEF Positions, Reader, Covered, Swept

\* The saved cursor is carried along; a run that ended has no position.
LEMMA Carried ==
  ASSUME StreamTyped, Positions, Moves, js_log' = js_log, js_lost \subseteq js_lost',
         js_saved' = js_saved,
         NEW p, NEW f, NEW l, NEW c, NEW k, NEW t, NEW n,
         js_run'.pc = p, js_run'.from = f, js_run'.live = l, js_run'.cursor = c,
         js_run'.client = k, js_run'.last = t, js_socket' = n, Reader(p, f, l, c, k, t, n)'
  PROVE  Positions'
  <1>1. PICK sf \in Nat \ {0}, sc \in 0..StreamLength, sl \in Nat :
          js_saved.from = sf /\ js_saved.cursor = sc /\ js_saved.live = sl
    BY DEF StreamTyped
  <1>2. Covered(sf, sc, sl)
    BY <1>1 DEF Positions, Covered, Swept
  <1>3. Covered(sf, sc, sl)'
    BY <1>1, <1>2, CoveredStays
  <1> QED
    BY <1>1, <1>3, PositionsNext

\* The position of a run, by its values.
LEMMA PositionNow ==
  ASSUME StreamTyped, Positions, js_run.pc # "down",
         NEW p, NEW f, NEW l, NEW c, NEW k, NEW t, NEW n,
         js_run.pc = p, js_run.from = f, js_run.live = l, js_run.cursor = c,
         js_run.client = k, js_run.last = t, js_socket = n
  PROVE  /\ f \in Nat \ {0} /\ l \in Nat /\ c \in 0..StreamLength /\ k \in 0..StreamLength
         /\ t \in 0..StreamLength /\ n \in 1..(StreamLength + 1)
         /\ Reader(p, f, l, c, k, t, n)
  <1>1. /\ js_run.from \in Nat \ {0} /\ js_run.live \in Nat /\ js_run.cursor \in 0..StreamLength
        /\ js_run.client \in 0..StreamLength /\ js_run.last \in 0..StreamLength
        /\ js_socket \in 1..(StreamLength + 1)
    BY DEF StreamTyped, RunType
  <1> QED
    BY <1>1 DEF Positions

LEMMA NoPosition ==
  ASSUME StreamTyped, Positions, Moves, js_log' = js_log, js_lost \subseteq js_lost',
         js_saved' = js_saved, js_run'.pc = "down"
  PROVE  Positions'
  <1>1. PICK f, l, c, k, t, n :
          /\ js_run'.from = f /\ js_run'.live = l /\ js_run'.cursor = c
          /\ js_run'.client = k /\ js_run'.last = t /\ js_socket' = n
    OBVIOUS
  <1>2. Reader("down", f, l, c, k, t, n)'
    BY DEF Reader
  <1> QED
    BY <1>1, <1>2, Carried

\* A run begins at the saved cursor; a window begins there or where it is told to.
LEMMA StartPositions ==
  ASSUME StreamTyped, Positions, Stream!Start
  PROVE  Positions'
  <1>1. PICK f \in Nat \ {0}, c \in 0..StreamLength, l \in Nat :
          js_saved.from = f /\ js_saved.cursor = c /\ js_saved.live = l
    BY DEF StreamTyped
  <1>2. Covered(f, c, l)
    BY <1>1 DEF Positions
  <1>3. PICK head \in 1..Len(js_log) :
          LET at == IF js_saved.cursor = 0 THEN head ELSE js_saved.cursor + 1
          IN /\ js_socket' = at
             /\ js_run' = [Stream!Down EXCEPT
                             !.pc = "live", !.graph = js_model, !.cursor = js_saved.cursor,
                             !.client = js_saved.cursor, !.connected = at,
                             !.from = js_saved.from, !.live = js_saved.live]
    BY DEF Stream!Start
  <1>4. PICK n \in 1..(StreamLength + 1) : js_socket' = n /\ (c # 0 => n = c + 1)
    BY <1>1, <1>3, LogTyped
  <1>5. /\ js_run'.pc = "live" /\ js_run'.from = f /\ js_run'.live = l /\ js_run'.cursor = c
        /\ js_run'.client = c /\ js_run'.last = 0
    BY <1>1, <1>3 DEF Stream!Down
  <1>6. Reader("live", f, l, c, c, 0, n)
    BY <1>2, <1>4 DEF Reader
  <1>7. Moves /\ js_log' = js_log /\ js_lost' = js_lost /\ js_saved' = js_saved
    BY DEF Moves, Stream!Start
  <1>8. Reader("live", f, l, c, c, 0, n)'
    BY <1>6, <1>7, LogTyped, ReaderStays
  <1> QED
    BY <1>4, <1>5, <1>7, <1>8, Carried

LEMMA StartArchivePositions ==
  ASSUME StreamTyped, Positions, Stream!StartArchive
  PROVE  Positions'
  <1>1. PICK sf \in Nat \ {0}, sc \in 0..StreamLength, sl \in Nat :
          js_saved.from = sf /\ js_saved.cursor = sc /\ js_saved.live = sl
    BY DEF StreamTyped
  <1>2. Covered(sf, sc, sl)
    BY <1>1 DEF Positions
  <1>3. PICK after \in 0..Len(js_log), before \in 1..Len(js_log) :
          /\ js_socket' = after + 1
          /\ js_run' = [Stream!Down EXCEPT
                          !.pc = "rows", !.graph = js_model, !.before = before,
                          !.from = IF after = js_saved.cursor /\ after # 0
                                   THEN js_saved.from ELSE after + 1]
    BY DEF Stream!StartArchive
  <1>4. PICK f \in Nat \ {0} : f = IF after = sc /\ after # 0 THEN sf ELSE after + 1
    BY LogTyped
  <1>5. /\ js_run'.pc = "rows" /\ js_run'.from = f /\ js_run'.live = 0 /\ js_run'.cursor = 0
        /\ js_run'.client = 0 /\ js_run'.last = 0
    BY <1>1, <1>3, <1>4 DEF Stream!Down
  <1>6. Reader("rows", f, 0, 0, 0, 0, after + 1)
    <2>1. \A s \in (f..after) \ js_lost : Done(s)
      BY <1>2, <1>4, LogTyped DEF Covered
    <2>2. (after + 1) - 1 = after
      BY LogTyped
    <2> QED
      BY <2>1, <2>2 DEF Reader
  <1>7. Moves /\ js_log' = js_log /\ js_lost' = js_lost /\ js_saved' = js_saved
    BY DEF Moves, Stream!StartArchive
  <1>8. Reader("rows", f, 0, 0, 0, 0, after + 1)'
    BY <1>6, <1>7, LogTyped, ReaderStays
  <1> QED
    BY <1>3, <1>5, <1>7, <1>8, Carried

\* A frame that is no post and no deletion is covered by itself.
LEMMA NothingToDo ==
  ASSUME NEW s, js_log[s].op \notin {"create", "delete"}
  PROVE  Done(s) /\ \A f, l : Swept(s, f, l)
  BY DEF Done, Swept

LEMMA ReceivePositions ==
  ASSUME StreamTyped, Positions, Stream!Receive
  PROVE  Positions'
  <1>0. js_run.pc = "batch" /\ js_run \in RunType
    BY DEF Stream!Receive, StreamTyped
  <1>1. PICK f, l, c, k, t, n :
          /\ js_run.from = f /\ js_run.live = l /\ js_run.cursor = c
          /\ js_run.client = k /\ js_run.last = t /\ js_socket = n
    OBVIOUS
  <1>2. /\ f \in Nat \ {0} /\ l \in Nat /\ c \in 0..StreamLength /\ k \in 0..StreamLength
        /\ t \in 0..StreamLength /\ n \in 1..(StreamLength + 1)
        /\ Reader("batch", f, l, c, k, t, n)
    BY <1>0, <1>1, PositionNow
  <1>3. n \in 1..StreamLength /\ StreamLength \in Nat
    BY <1>1, <1>2, LogTyped DEF Stream!Receive
  <1>4. PICK r : r = Stream!observe_sequence(js_run, n)
    OBVIOUS
  <1>5. PICK rf \in Nat \ {0}, rl \in Nat, rt \in 0..StreamLength :
          /\ r \in RunType /\ r.from = rf /\ r.live = rl /\ r.last = rt
          /\ r.cursor = c /\ r.client = k /\ r.pc = "batch"
          /\ rt \in {t, n} /\ rt # 0
          /\ t = 0 => rt = n /\ rf = n /\ rl = n
          /\ t # 0 => rf = f /\ rl = l
    <2>1. /\ r \in RunType /\ r.from \in Nat \ {0} /\ r.live \in Nat /\ r.last \in 0..StreamLength
          /\ r.cursor = c /\ r.client = k /\ r.pc = "batch"
          /\ r.last \in {t, n} /\ r.last # 0
          /\ t = 0 => r.last = n /\ r.from = n /\ r.live = n
          /\ t # 0 => r.from = f /\ r.live = l
      BY <1>0, <1>1, <1>2, <1>3, <1>4, Observes DEF RunType
    <2> QED
      BY <2>1
  <1>6. /\ Covered(rf, c, rl) /\ Covered(rf, n - 1, rl)
        /\ rt = n \/ Covered(rf, rt, rl)
    <2>1. CASE t = 0
      <3>1. c = 0 /\ rf = n /\ rt = n
        BY <1>2, <1>5, <2>1 DEF Reader
      <3>2. 0 \in Int /\ n - 1 \in Int /\ 0 < n /\ n - 1 < n /\ n \in Nat
        BY <1>3
      <3>3. Covered(n, 0, rl) /\ Covered(n, n - 1, rl)
        BY <1>5, <3>2, CoveredNothing
      <3> QED
        BY <3>1, <3>3
    <2>2. CASE t # 0
      <3>1. Covered(f, c, l) /\ Covered(f, t, l) /\ Covered(f, n - 1, l)
        BY <1>2, <2>2 DEF Reader
      <3> QED
        BY <1>5, <2>2, <3>1
    <2> QED
      BY <2>1, <2>2
  <1>7. Moves /\ js_log' = js_log /\ js_lost' = js_lost /\ js_saved' = js_saved
    BY DEF Moves, Stream!Receive
  <1>8. CASE Stream!Commit(n)
    <2>1. Stream!Proceed(r, "event")
      BY <1>1, <1>4, <1>8 DEF Stream!Receive
    <2>2. /\ js_run'.pc = "event" /\ js_run'.from = rf /\ js_run'.live = rl /\ js_run'.cursor = c
          /\ js_run'.client = k /\ js_run'.last = rt /\ js_socket' = n
      BY <1>1, <1>5, <2>1, Proceeds
    <2>3. Reader("event", rf, rl, c, k, rt, n)
      BY <1>5, <1>6, <1>8 DEF Reader, Stream!Commit
    <2>4. Reader("event", rf, rl, c, k, rt, n)'
      BY <1>2, <1>5, <1>7, <2>3, ReaderStays
    <2> QED
      BY <1>7, <2>2, <2>4, Carried
  <1>9. CASE ~Stream!Commit(n)
    <2>1. Stream!Finish(r)
      BY <1>1, <1>4, <1>9 DEF Stream!Receive
    <2>2. /\ js_run'.pc = "batch" /\ js_run'.from = rf /\ js_run'.live = rl /\ js_run'.cursor = c
          /\ js_run'.client = n /\ js_run'.last = rt /\ js_socket' = n + 1
      BY <1>1, <1>3, <1>5, <2>1, Finishes
    <2>3. Covered(rf, n, rl)
      <3>1. Done(n) /\ Swept(n, rf, rl)
        BY <1>9, NothingToDo DEF Stream!Commit
      <3> QED
        BY <1>3, <1>5, <1>6, <3>1, CoveredMore DEF OneMoreCovered
    <2>4. Reader("batch", rf, rl, c, n, rt, n + 1)
      <3>1. (n + 1) - 1 = n /\ n # 0
        BY <1>3
      <3> QED
        BY <1>5, <1>6, <2>3, <3>1 DEF Reader
    <2>5. n \in 0..StreamLength /\ n + 1 \in 1..(StreamLength + 1)
      BY <1>3
    <2>6. Reader("batch", rf, rl, c, n, rt, n + 1)'
      BY <1>2, <1>5, <1>7, <2>4, <2>5, ReaderStays
    <2> QED
      BY <1>7, <2>2, <2>6, Carried
  <1> QED
    BY <1>8, <1>9

LEMMA EventPositions ==
  ASSUME StreamTyped, Positions, Stream!Event
  PROVE  Positions'
  <1>0. js_run.pc = "event" /\ js_run \in RunType
    BY DEF Stream!Event, StreamTyped
  <1>1. PICK f, l, c, k, t, n :
          /\ js_run.from = f /\ js_run.live = l /\ js_run.cursor = c
          /\ js_run.client = k /\ js_run.last = t /\ js_socket = n
    OBVIOUS
  <1>2. /\ f \in Nat \ {0} /\ l \in Nat /\ c \in 0..StreamLength /\ k \in 0..StreamLength
        /\ t \in 0..StreamLength /\ n \in 1..(StreamLength + 1)
        /\ Reader("event", f, l, c, k, t, n)
    BY <1>0, <1>1, PositionNow
  <1>3. n \in 1..StreamLength /\ StreamLength \in Nat
    BY <1>0, <1>1, <1>2, LogTyped DEF StreamTyped
  <1>4. PICK r : r = Stream!observe_stream(js_run, n)
    OBVIOUS
  <1>5. PICK rt \in 0..StreamLength :
          /\ r \in RunType /\ r.from = f /\ r.live = l /\ r.last = rt
          /\ r.cursor = c /\ r.client = k /\ r.pc = "event"
          /\ rt \in {t, n} /\ rt # 0
    <2>1. t # 0
      BY <1>2 DEF Reader
    <2>2. /\ r \in RunType /\ r.last \in 0..StreamLength /\ r.from = f /\ r.live = l
          /\ r.cursor = c /\ r.client = k /\ r.pc = "event"
          /\ r.last \in {t, n} /\ r.last # 0
      BY <1>0, <1>1, <1>3, <1>4, <2>1, ObservesEvent DEF RunType
    <2> QED
      BY <2>2
  <1>6. /\ Covered(f, c, l) /\ Covered(f, n - 1, l) /\ t # 0
        /\ t = n \/ Covered(f, t, l)
        /\ rt = n \/ Covered(f, rt, l)
        /\ js_log[n].op \in {"create", "delete"}
    BY <1>2, <1>5 DEF Reader
  <1>7. Moves /\ js_log' = js_log /\ js_lost' = js_lost /\ js_saved' = js_saved
    BY DEF Moves, Stream!Event
  <1>8. CASE ~Stream!Dropped(n)
    <2>1. Stream!Proceed(r, "apply")
      BY <1>1, <1>4, <1>8 DEF Stream!Event
    <2>2. /\ js_run'.pc = "apply" /\ js_run'.from = f /\ js_run'.live = l /\ js_run'.cursor = c
          /\ js_run'.client = k /\ js_run'.last = rt /\ js_socket' = n
      BY <1>1, <1>5, <2>1, Proceeds
    <2>3. Reader("apply", f, l, c, k, rt, n)
      BY <1>5, <1>6 DEF Reader
    <2>4. Reader("apply", f, l, c, k, rt, n)'
      BY <1>2, <1>5, <1>7, <2>3, ReaderStays
    <2> QED
      BY <1>7, <2>2, <2>4, Carried
  <1>9. CASE Stream!Dropped(n)
    <2>1. Stream!Finish(r)
      BY <1>1, <1>4, <1>9 DEF Stream!Event
    <2>2. /\ js_run'.pc = "batch" /\ js_run'.from = f /\ js_run'.live = l /\ js_run'.cursor = c
          /\ js_run'.client = n /\ js_run'.last = rt /\ js_socket' = n + 1
      BY <1>1, <1>3, <1>5, <2>1, Finishes
    <2>3. Covered(f, n, l)
      <3>1. CASE js_log[n].rev = "bad"
        <4>1. Done(n) /\ Swept(n, f, l)
          BY <3>1 DEF Done, Swept
        <4> QED
          BY <1>2, <1>3, <1>6, <4>1, CoveredMore DEF OneMoreCovered
      <3>2. CASE js_log[n].rev # "bad"
        <4>1. Stream!CursorResult(js_run, n) \in {"Rewind", "Rejected"}
          BY <1>9, <3>2 DEF Stream!Dropped, Stream!StreamResult
        <4>2. n < t
          BY <1>1, <4>1 DEF Stream!CursorResult
        <4> QED
          BY <1>2, <1>3, <1>6, <4>2, CoveredLess
      <3> QED
        BY <3>1, <3>2
    <2>4. Reader("batch", f, l, c, n, rt, n + 1)
      <3>1. (n + 1) - 1 = n /\ n # 0
        BY <1>3
      <3> QED
        BY <1>5, <1>6, <2>3, <3>1 DEF Reader
    <2>5. n \in 0..StreamLength /\ n + 1 \in 1..(StreamLength + 1)
      BY <1>3
    <2>6. Reader("batch", f, l, c, n, rt, n + 1)'
      BY <1>2, <1>5, <1>7, <2>4, <2>5, ReaderStays
    <2> QED
      BY <1>7, <2>2, <2>6, Carried
  <1> QED
    BY <1>8, <1>9

\* A post that is learned is done; a withdrawal ends when nothing of it is left.
LEMMA ApplyPositions ==
  ASSUME StreamTyped, Positions, Stream!Apply
  PROVE  Positions'
  <1>0. js_run.pc = "apply"
    BY DEF Stream!Apply
  <1>1. PICK f, l, c, k, t, n :
          /\ js_run.from = f /\ js_run.live = l /\ js_run.cursor = c
          /\ js_run.client = k /\ js_run.last = t /\ js_socket = n
    OBVIOUS
  <1>2. /\ f \in Nat \ {0} /\ l \in Nat /\ c \in 0..StreamLength /\ k \in 0..StreamLength
        /\ t \in 0..StreamLength /\ n \in 1..(StreamLength + 1)
        /\ Reader("apply", f, l, c, k, t, n)
    BY <1>0, <1>1, PositionNow
  <1>3. n \in 1..StreamLength /\ n \in Nat /\ StreamLength \in Nat
    BY <1>0, <1>1, <1>2, LogTyped DEF StreamTyped
  <1>4. js_log' = js_log /\ js_lost' = js_lost /\ js_saved' = js_saved
    BY Zenon DEF Stream!Apply, Stream!Reserve, Stream!Learn, Stream!withdraw_source
  <1>5. ASSUME Moves PROVE Reader("apply", f, l, c, k, t, n)'
    BY <1>2, <1>4, <1>5, ReaderStays
  \* the frame is done with
  <1>6. ASSUME Moves, Done(n)', Swept(n, f, l)', js_run'.pc = "batch", js_run'.from = f,
               js_run'.live = l, js_run'.cursor = c, js_run'.client = n, js_run'.last = t,
               js_socket' = n + 1
        PROVE  Positions'
    <2>1. Reader("apply", f, l, c, k, t, n)'
      BY <1>5, <1>6
    <2>2. Covered(f, c, l)' /\ Covered(f, n - 1, l)' /\ t # 0 /\ (t = n \/ Covered(f, t, l)')
      BY <2>1 DEF Reader
    <2>4. Covered(f, n, l)'
      BY <1>2, <1>3, <1>6, <2>2, CoveredMoreNext DEF OneMoreCovered
    <2>5. (n + 1) - 1 = n /\ n # 0
      BY <1>3
    <2>6. Reader("batch", f, l, c, n, t, n + 1)'
      BY <2>2, <2>4, <2>5 DEF Reader
    <2> QED
      BY <1>4, <1>6, <2>6, Carried
  <1>7. CASE js_log[n].op = "create" /\ Stream!Reserve(n)
    <2>1. Moves /\ js_run' = js_run /\ js_socket' = js_socket
      BY <1>0, <1>1, <1>7, Reserves
    <2> QED
      BY <1>0, <1>1, <1>4, <1>5, <2>1, Carried
  <1>8. CASE js_log[n].op = "create" /\ Stream!Learn(n)
    <2>1. /\ Moves /\ js_socket' = n + 1 /\ js_run'.pc = "batch" /\ js_run'.from = f
          /\ js_run'.live = l /\ js_run'.cursor = c /\ js_run'.client = n /\ js_run'.last = t
          /\ js_ledger'[Stream!Key(n)] \in {"learned", "withdrawn"}
      BY <1>0, <1>1, <1>8, Learns
    <2>2. Done(n)' /\ Swept(n, f, l)'
      BY <1>4, <1>8, <2>1 DEF Done, Swept, Stream!Key
    <2> QED
      BY <1>6, <2>1, <2>2
  <1>9. CASE js_log[n].op = "delete" /\ Stream!withdraw_source(n)
    <2>1. /\ Moves /\ js_run'.cursor = c /\ js_run'.from = f /\ js_run'.live = l
          /\ js_run'.last = t
          /\ \/ /\ js_run'.pc = "batch" /\ js_run'.client = n
                /\ js_socket' = n + 1 /\ js_ledger' = js_ledger
                /\ \A key \in Stream!Keys :
                     key[1] = js_log[n].uri => js_ledger[key] # "learned"
             \/ js_run'.pc = "apply" /\ js_socket' = n
      BY <1>0, <1>1, <1>9, Withdraws
    <2>2. CASE js_run'.pc = "apply" /\ js_socket' = n
      <3>1. PICK k2 : js_run'.client = k2
        OBVIOUS
      <3>2. Reader("apply", f, l, c, k2, t, n)'
        BY <1>5, <2>1 DEF Reader
      <3> QED
        BY <1>4, <2>1, <2>2, <3>1, <3>2, Carried
    <2>3. CASE /\ js_run'.pc = "batch" /\ js_run'.client = n
               /\ js_socket' = n + 1 /\ js_ledger' = js_ledger
               /\ \A key \in Stream!Keys :
                    key[1] = js_log[n].uri => js_ledger[key] # "learned"
      <3>1. Done(n)'
        BY <1>4, <1>9 DEF Done
      <3>2. \A s \in 1..StreamLength :
              js_log[s].op = "create" => /\ Stream!Key(s) \in Stream!Keys
                                         /\ Stream!Key(s)[1] = js_log[s].uri
        BY LogTyped DEF Stream!Key
      <3>3. \A s \in f..(n - 1) : s \in 1..StreamLength
        BY <1>2, <1>3
      <3>4. Swept(n, f, l)
        BY <2>3, <3>2, <3>3 DEF Swept
      <3>5. Swept(n, f, l)'
        BY <1>4, <2>3, <3>4 DEF Swept, Stream!Key
      <3> QED
        BY <1>6, <2>1, <2>3, <3>1, <3>5
    <2> QED
      BY <2>1, <2>2, <2>3
  <1> QED
    BY <1>1, <1>7, <1>8, <1>9 DEF Stream!Apply

LEMMA LearnRowPositions ==
  ASSUME StreamTyped, Positions, Stream!LearnRow
  PROVE  Positions'
  <1>0. js_run.pc = "row"
    BY DEF Stream!LearnRow
  <1>1. PICK f, l, c, k, t, n :
          /\ js_run.from = f /\ js_run.live = l /\ js_run.cursor = c
          /\ js_run.client = k /\ js_run.last = t /\ js_socket = n
    OBVIOUS
  <1>2. /\ f \in Nat \ {0} /\ l \in Nat /\ c \in 0..StreamLength /\ k \in 0..StreamLength
        /\ t \in 0..StreamLength /\ n \in 1..(StreamLength + 1)
        /\ Reader("row", f, l, c, k, t, n)
    BY <1>0, <1>1, PositionNow
  <1>3. js_log[n].op = "create"
    BY <1>2 DEF Reader
  <1>4. js_log' = js_log /\ js_lost' = js_lost /\ js_saved' = js_saved
    BY Zenon DEF Stream!LearnRow, Stream!Reserve, Stream!Learn
  <1>5. ASSUME Moves PROVE Reader("row", f, l, c, k, t, n)'
    BY <1>2, <1>4, <1>5, ReaderStays
  <1>6. CASE Stream!Reserve(n)
    <2>1. Moves /\ js_run' = js_run /\ js_socket' = js_socket
      BY <1>0, <1>1, <1>3, <1>6, Reserves
    <2> QED
      BY <1>0, <1>1, <1>4, <1>5, <2>1, Carried
  <1>7. CASE Stream!Learn(n)
    <2>1. /\ Moves /\ js_socket' = n + 1 /\ js_run'.pc = "rows" /\ js_run'.from = f
          /\ js_run'.live = l /\ js_run'.cursor = c /\ js_run'.client = n /\ js_run'.last = t
          /\ js_ledger'[Stream!Key(n)] \in {"learned", "withdrawn"}
      BY <1>0, <1>1, <1>3, <1>7, Learns
    <2>2. Done(n)'
      BY <1>3, <1>4, <2>1 DEF Done, Stream!Key
    <2>3. \A s \in (f..(n - 1)) \ js_lost' : Done(s)'
      BY <1>5, <2>1 DEF Reader
    <2>4. \A s \in (f..((n + 1) - 1)) \ js_lost' : Done(s)'
      BY <1>2, <2>2, <2>3
    <2>5. Reader("rows", f, l, c, n, t, n + 1)'
      BY <2>4 DEF Reader
    <2> QED
      BY <1>4, <2>1, <2>5, Carried
  <1> QED
    BY <1>1, <1>6, <1>7 DEF Stream!LearnRow

\* The reader moves: between batches, over frames that hold nothing for it, over
\* frames that are lost, back to frames it has seen, and at its end.
LEMMA ReadsPositions ==
  ASSUME StreamTyped, Positions, Reads
  PROVE  Positions'
  <1>0. /\ js_ledger' = js_ledger /\ Moves /\ js_log' = js_log /\ js_lost \subseteq js_lost'
        /\ js_run \in RunType /\ StreamLength \in Nat /\ Len(js_log) = StreamLength
    <2>1. js_ledger' = js_ledger
      BY ReadsTyped
    <2>2. js_log' = js_log /\ js_lost \subseteq js_lost'
      BY DEF Reads, Stream!BeginBatch, Stream!Skip, Stream!EndBatch, Stream!SaveModel,
             Stream!SaveState, Stream!SkipRow, Stream!Row, Stream!EndWindow, Stream!Lose,
             Stream!Reconnect, Stream!Crash
    <2> QED
      BY <2>1, <2>2, LogTyped DEF Moves, StreamTyped
  <1>1. js_run.pc # "down"
    BY DEF Reads, Stream!BeginBatch, Stream!Skip, Stream!EndBatch, Stream!SaveModel,
           Stream!SaveState, Stream!SkipRow, Stream!Row, Stream!EndWindow, Stream!Lose,
           Stream!Reconnect, Stream!Crash
  <1>2. PICK p, f, l, c, k, t, n :
          /\ js_run.pc = p /\ js_run.from = f /\ js_run.live = l /\ js_run.cursor = c
          /\ js_run.client = k /\ js_run.last = t /\ js_socket = n
    OBVIOUS
  <1>3. /\ f \in Nat \ {0} /\ l \in Nat /\ c \in 0..StreamLength /\ k \in 0..StreamLength
        /\ t \in 0..StreamLength /\ n \in 1..(StreamLength + 1)
        /\ Reader(p, f, l, c, k, t, n)
    BY <1>1, <1>2, PositionNow
  \* a step to values that hold of this state
  <1>4. ASSUME NEW p2, NEW l2 \in Nat, NEW c2 \in 0..StreamLength, NEW t2 \in 0..StreamLength,
               NEW n2 \in 1..(StreamLength + 1), js_saved' = js_saved,
               js_run'.pc = p2, js_run'.from = f, js_run'.live = l2, js_run'.cursor = c2,
               js_run'.client = k, js_run'.last = t2, js_socket' = n2,
               Reader(p2, f, l2, c2, k, t2, n2)
        PROVE  Positions'
    <2>1. Reader(p2, f, l2, c2, k, t2, n2)'
      BY <1>0, <1>3, <1>4, ReaderStays
    <2> QED
      BY <1>0, <1>4, <2>1, Carried
  <1>5. CASE Stream!BeginBatch
    <2>1. /\ p = "live" /\ js_run'.pc = "batch" /\ js_run'.from = f /\ js_run'.live = l
          /\ js_run'.cursor = c /\ js_run'.client = k /\ js_run'.last = c /\ js_socket' = n
          /\ js_saved' = js_saved
      BY <1>0, <1>2, <1>5 DEF Stream!BeginBatch, RunType
    <2>2. Reader("batch", f, l, c, k, c, n)
      BY <1>3, <2>1 DEF Reader
    <2> QED
      BY <1>3, <1>4, <2>1, <2>2
  <1>6. CASE Stream!Skip
    <2>1. /\ p = "batch" /\ js_run' = js_run /\ js_socket' = n + 1 /\ n <= StreamLength
          /\ js_saved' = js_saved /\ js_log[n].op \notin {"create", "delete"}
      BY <1>0, <1>2, <1>6 DEF Stream!Skip, Stream!Delivered
    <2>2. k # 0 => Covered(f, n, l)
      BY <1>3, <2>1, NothingToDo, CoveredMore DEF OneMoreCovered, Reader
    <2>3. (n + 1) - 1 = n /\ n + 1 \in 1..(StreamLength + 1)
      BY <1>0, <1>3, <2>1
    <2>4. Reader("batch", f, l, c, k, t, n + 1)
      BY <1>3, <2>1, <2>2, <2>3 DEF Reader
    <2> QED
      BY <1>2, <1>3, <1>4, <2>1, <2>3, <2>4
  <1>7. CASE Stream!EndBatch
    <2>1. PICK c2 \in {c, k} :
          /\ p = "batch" /\ js_run'.pc = "live" /\ js_run'.from = f /\ js_run'.live = l
          /\ js_run'.cursor = c2 /\ js_run'.client = k /\ js_run'.last = 0 /\ js_socket' = n
          /\ js_saved' = js_saved
      BY <1>0, <1>2, <1>7 DEF Stream!EndBatch, Stream!Between, RunType
    <2>2. Reader("live", f, l, c2, k, 0, n)
      BY <1>3, <2>1 DEF Reader
    <2>3. 0 \in 0..StreamLength
      BY <1>0
    <2> QED
      BY <1>3, <1>4, <2>1, <2>2, <2>3
  <1>8. CASE Stream!SaveModel
    <2>1. /\ p \in {"live", "done"} /\ js_run'.pc = "save" /\ js_run'.from = f
          /\ js_run'.live = l /\ js_run'.cursor = c /\ js_run'.client = k /\ js_run'.last = t
          /\ js_socket' = n /\ js_saved' = js_saved
      BY <1>0, <1>2, <1>8 DEF Stream!SaveModel, RunType
    <2>2. Reader("save", f, l, c, k, t, n)
      BY <1>3, <2>1 DEF Reader
    <2> QED
      BY <1>3, <1>4, <2>1, <2>2
  <1>9. CASE Stream!SaveState
    <2>1. /\ p = "save" /\ js_saved'.from = f /\ js_saved'.cursor = c /\ js_saved'.live = l
          /\ js_run'.pc = "down"
      BY <1>2, <1>9, StreamDownTyped DEF Stream!SaveState
    <2>2. Covered(f, c, l)
      BY <1>3, <2>1 DEF Reader
    <2>3. Covered(f, c, l)'
      BY <1>0, <1>3, <2>2, CoveredStays
    <2>4. PICK f2, l2, c2, k2, t2, n2 :
            /\ js_run'.from = f2 /\ js_run'.live = l2 /\ js_run'.cursor = c2
            /\ js_run'.client = k2 /\ js_run'.last = t2 /\ js_socket' = n2
      OBVIOUS
    <2>5. Reader("down", f2, l2, c2, k2, t2, n2)'
      BY DEF Reader
    <2> QED
      BY <2>1, <2>3, <2>4, <2>5, PositionsNext
  <1>10. CASE Stream!SkipRow
    <2>1. /\ p = "rows" /\ js_run' = js_run /\ js_socket' = n + 1 /\ n <= StreamLength
          /\ js_saved' = js_saved /\ js_log[n].op # "create"
      <3>1. js_run.before \in 0..StreamLength
        BY <1>0 DEF RunType
      <3>2. /\ js_run.pc = "rows" /\ js_run' = js_run /\ js_socket' = js_socket + 1
            /\ js_socket <= js_run.before /\ js_saved' = js_saved
            /\ js_log[js_socket].op # "create"
        BY <1>10 DEF Stream!SkipRow
      <3> QED
        BY <1>0, <1>2, <1>3, <3>1, <3>2
    <2>2. Done(n)
      BY <2>1 DEF Done
    <2>3. \A s \in (f..(n - 1)) \ js_lost : Done(s)
      BY <1>3, <2>1 DEF Reader
    <2>4. \A s \in (f..((n + 1) - 1)) \ js_lost : Done(s)
      BY <1>3, <2>2, <2>3
    <2>5. Reader("rows", f, l, c, k, t, n + 1)
      BY <2>4 DEF Reader
    <2>6. n + 1 \in 1..(StreamLength + 1)
      BY <1>0, <1>3, <2>1
    <2> QED
      BY <1>2, <1>3, <1>4, <2>1, <2>5, <2>6
  <1>11. CASE Stream!Row
    <2>1. /\ p = "rows" /\ js_run'.pc = "row" /\ js_run'.from = f
          /\ js_run'.live = l /\ js_run'.cursor = c /\ js_run'.client = k /\ js_run'.last = t
          /\ js_socket' = n /\ js_saved' = js_saved /\ js_log[n].op = "create"
      BY <1>0, <1>2, <1>11 DEF Stream!Row, RunType
    <2>2. Reader("row", f, l, c, k, t, n)
      BY <1>3, <2>1 DEF Reader
    <2> QED
      BY <1>3, <1>4, <2>1, <2>2
  <1>12. CASE Stream!EndWindow
    <2>1. PICK b \in 0..StreamLength :
          /\ p = "rows" /\ js_run'.pc = "done" /\ js_run'.from = f
          /\ js_run'.live = b + 1 /\ js_run'.cursor = b /\ js_run'.client = k
          /\ js_run'.last = t /\ js_socket' = n /\ js_saved' = js_saved /\ n > b
      BY <1>0, <1>2, <1>12 DEF Stream!EndWindow, RunType
    <2>2. Covered(f, b, b + 1)
      BY <1>3, <2>1 DEF Reader, Covered, Swept
    <2>3. Reader("done", f, b + 1, b, k, t, n)
      BY <2>2 DEF Reader
    <2>4. b + 1 \in Nat
      BY <1>0
    <2> QED
      BY <1>3, <1>4, <2>1, <2>3, <2>4
  <1>13. CASE Stream!Lose
    <2>1. /\ p = "batch" /\ js_run' = js_run /\ js_socket' = n + 1 /\ n < StreamLength
          /\ js_saved' = js_saved /\ n \in js_lost'
      BY <1>0, <1>2, <1>13 DEF Stream!Lose
    <2>2. Reader("batch", f, l, c, k, t, n)'
      BY <1>0, <1>3, <2>1, ReaderStays
    <2>3. k # 0 => Covered(f, n, l)'
      <3>1. k # 0 => Covered(f, n - 1, l)'
        BY <2>2 DEF Reader
      <3>2. n \in Nat /\ f \in Nat
        BY <1>3
      <3> QED
        BY <1>3, <2>1, <3>1, <3>2, CoveredMoreNext DEF OneMoreCovered
    <2>4. (n + 1) - 1 = n
      BY <1>3
    <2>5. Reader("batch", f, l, c, k, t, n + 1)'
      BY <2>2, <2>3, <2>4 DEF Reader
    <2> QED
      BY <1>0, <1>2, <2>1, <2>5, Carried
  <1>14. CASE Stream!Reconnect
    <2>1. PICK n2 \in 1..(StreamLength + 1) :
            /\ p \in {"live", "batch"} /\ js_run' = js_run /\ js_socket' = n2 /\ n2 <= n - 1
            /\ js_saved' = js_saved
      <3>1. js_socket' \in 1..(StreamLength + 1)
        BY ReadsTyped DEF StreamTyped
      <3> QED
        BY <1>0, <1>2, <1>14, <3>1 DEF Stream!Reconnect, RunType
    <2>2. k # 0 => Covered(f, n2 - 1, l)
      BY <1>3, <2>1, CoveredLess DEF Reader
    <2>3. Reader(p, f, l, c, k, t, n2)
      BY <1>3, <2>1, <2>2 DEF Reader
    <2> QED
      BY <1>2, <1>3, <1>4, <2>1, <2>3
  <1>15. CASE Stream!Crash
    <2>1. js_saved' = js_saved /\ js_run'.pc = "down"
      BY <1>15, StreamDownTyped DEF Stream!Crash
    <2> QED
      BY <1>0, <2>1, NoPosition
  <1> QED
    BY <1>5, <1>6, <1>7, <1>8, <1>9, <1>10, <1>11, <1>12, <1>13, <1>14, <1>15 DEF Reads

---------------------------------------------------------------------------
(* The jetstream reader: evidence, and the model between batches. *)

\* An event that is being applied is in the evidence ledger already.
Noted ==
  /\ Stream!EvidenceComesFirst
  /\ js_run.pc = "apply" =>
       /\ js_log[js_socket].op = "delete" => <<"delete", js_socket>> \in js_evidence.records
       /\ js_log[js_socket].op = "create" /\ js_mode.all =>
            <<"create", js_socket>> \in js_evidence.records
  /\ js_run.pc = "row" => <<"create", js_socket>> \in js_evidence.records

\* What a run has touched is as the ledger says, but for what it withdrew in this
\* batch.
Settled ==
  /\ js_run.pc # "down" /\ ~js_run.withdrawn =>
       \A k \in js_run.touched : k \in js_run.graph <=> js_ledger[k] = "learned"
  /\ js_run.pc \in {"live", "rows", "row", "done", "save"} => ~js_run.withdrawn

InEvidence(type, k) ==
  \E s \in 1..StreamLength : js_log[s].uri = k[1] /\ <<type, s>> \in js_evidence.records

LEMMA EvidenceIs ==
  ASSUME StreamTyped
  PROVE  Stream!EvidenceComesFirst <=>
           \A k \in Stream!Keys :
             /\ js_ledger[k] = "withdrawn" => InEvidence("delete", k)
             /\ js_ledger[k] = "learned" /\ js_mode.all => InEvidence("create", k)
  <1>1. DOMAIN js_log = 1..StreamLength
    BY DEF StreamTyped
  <1> QED
    BY <1>1 DEF Stream!EvidenceComesFirst, InEvidence

\* Evidence that is there stays, and covers what is new.
LEMMA EvidenceStays ==
  ASSUME StreamTyped, StreamTyped', Stream!EvidenceComesFirst,
         js_log' = js_log, js_mode' = js_mode, js_evidence.records \subseteq js_evidence'.records,
         \A k \in Stream!Keys :
           /\ js_ledger'[k] = "withdrawn" => js_ledger[k] = "withdrawn" \/ InEvidence("delete", k)
           /\ js_ledger'[k] = "learned" /\ js_mode.all =>
                js_ledger[k] = "learned" \/ InEvidence("create", k)
  PROVE  Stream!EvidenceComesFirst'
  <1>1. \A k \in Stream!Keys :
          /\ js_ledger[k] = "withdrawn" => InEvidence("delete", k)
          /\ js_ledger[k] = "learned" /\ js_mode.all => InEvidence("create", k)
    BY EvidenceIs
  <1>2. \A type, k : InEvidence(type, k) => InEvidence(type, k)'
    BY DEF InEvidence
  <1>3. \A k \in Stream!Keys :
          /\ js_ledger'[k] = "withdrawn" => InEvidence("delete", k)'
          /\ js_ledger'[k] = "learned" /\ js_mode'.all => InEvidence("create", k)'
    BY <1>1, <1>2
  <1>4. DOMAIN js_log' = 1..StreamLength
    BY DEF StreamTyped
  <1>5. Stream!Keys' = Stream!Keys
    BY DEF Stream!Keys
  <1> QED
    BY <1>3, <1>4, <1>5 DEF Stream!EvidenceComesFirst, InEvidence

LEMMA StartNotes ==
  ASSUME StreamTyped, StreamTyped', Noted, Stream!Start \/ Stream!StartArchive
  PROVE  Noted' /\ Settled'
  <1>1. js_run'.pc \in {"live", "rows"} /\ js_run'.touched = {} /\ js_run'.withdrawn = FALSE
    BY DEF Stream!Start, Stream!StartArchive, Stream!Down
  <1>2. UNCHANGED <<js_log, js_mode, js_ledger, js_evidence>>
    BY DEF Stream!Start, Stream!StartArchive
  <1>3. Stream!EvidenceComesFirst'
    BY <1>2, EvidenceStays DEF Noted
  <1> QED
    BY <1>1, <1>3 DEF Noted, Settled

LEMMA ReceiveNotes ==
  ASSUME StreamTyped, StreamTyped', Noted, Settled, Stream!Receive
  PROVE  Noted' /\ Settled'
  <1>1. /\ js_socket <= StreamLength /\ js_socket \in 1..StreamLength /\ js_run \in RunType
        /\ js_run.pc = "batch"
    BY LogTyped DEF StreamTyped, Stream!Receive
  <1>2. PICK r : r = Stream!observe_sequence(js_run, js_socket)
    OBVIOUS
  <1>3. /\ r \in RunType /\ r.pc = "batch" /\ r.graph = js_run.graph
        /\ r.withdrawn = js_run.withdrawn /\ r.touched = js_run.touched
    BY <1>1, <1>2, Observes, LogTyped
  <1>4. Grown(js_evidence')
    BY <1>1, Evidence DEF Stream!Receive
  <1>5. Stream!Proceed(r, "event") \/ Stream!Finish(r)
    BY <1>2 DEF Stream!Receive
  <1>6. /\ js_run'.pc \in {"event", "batch"} /\ js_run'.graph = js_run.graph
        /\ js_run'.withdrawn = js_run.withdrawn /\ js_run'.touched = js_run.touched
    BY <1>1, <1>3, <1>5, Finishes, Proceeds
  <1>7. UNCHANGED <<js_log, js_mode, js_ledger>>
    BY DEF Stream!Receive
  <1>8. Stream!EvidenceComesFirst'
    BY <1>4, <1>7, EvidenceStays DEF Noted, Grown
  <1> QED
    BY <1>1, <1>6, <1>7, <1>8 DEF Noted, Settled

LEMMA EventNotes ==
  ASSUME StreamTyped, StreamTyped', Noted, Settled, Stream!Event, js_run.last # 0,
         js_log[js_socket].op \in {"create", "delete"}
  PROVE  Noted' /\ Settled'
  <1>1. /\ js_socket <= StreamLength /\ js_socket \in 1..StreamLength /\ js_run \in RunType
        /\ js_run.pc = "event" /\ js_evidence \in Files
    BY LogTyped DEF StreamTyped, Stream!Event
  <1>2. PICK r : r = Stream!observe_stream(js_run, js_socket)
    OBVIOUS
  <1>3. /\ r \in RunType /\ r.pc = "event" /\ r.graph = js_run.graph
        /\ r.withdrawn = js_run.withdrawn /\ r.touched = js_run.touched
    BY <1>1, <1>2, ObservesEvent, LogTyped
  <1>4. Grown(js_evidence')
    BY <1>1, Evidence DEF Stream!Event
  <1>5. \/ Stream!Proceed(r, "apply") /\ js_evidence' = Stream!EventEvidence(js_socket)
        \/ Stream!Finish(r)
    BY <1>2 DEF Stream!Event
  <1>6. /\ js_run'.pc \in {"apply", "batch"} /\ js_run'.graph = js_run.graph
        /\ js_run'.withdrawn = js_run.withdrawn /\ js_run'.touched = js_run.touched
        /\ js_run'.pc = "apply" => /\ js_socket' = js_socket
                                   /\ js_evidence' = Stream!EventEvidence(js_socket)
    BY <1>1, <1>3, <1>5, Finishes, Proceeds
  <1>7. UNCHANGED <<js_log, js_mode, js_ledger>>
    BY DEF Stream!Event
  <1>8. Stream!EvidenceComesFirst'
    BY <1>4, <1>7, EvidenceStays DEF Noted, Grown
  <1>9. js_log[js_socket].op = "delete" \/ js_mode.all =>
          <<js_log[js_socket].op, js_socket>> \in Stream!EventEvidence(js_socket).records
    <2>1. <<js_log[js_socket].op, js_socket>> \in Notes
      BY <1>1, LogTyped DEF Notes
    <2> QED
      BY <1>1, <2>1, Appends DEF Stream!EventEvidence
  <1>10. Noted'
    BY <1>6, <1>7, <1>8, <1>9 DEF Noted
  <1> QED
    BY <1>1, <1>6, <1>7, <1>10 DEF Settled

\* An entry is reserved or learned under the evidence of its frame.
LEMMA LearnNotes ==
  ASSUME StreamTyped, StreamTyped', Noted, Settled, js_run.pc \in {"apply", "row"},
         js_log[js_socket].op = "create", Stream!Reserve(js_socket) \/ Stream!Learn(js_socket)
  PROVE  Noted' /\ Settled'
  <1>1. js_socket \in 1..StreamLength /\ js_run \in RunType
    BY LogTyped DEF StreamTyped
  <1>2. UNCHANGED <<js_log, js_mode, js_evidence>>
    BY DEF Stream!Reserve, Stream!Learn
  <1>3. CASE Stream!Reserve(js_socket)
    <2>1. /\ js_run' = js_run /\ js_socket' = js_socket
          /\ \A k \in Stream!Keys : (js_ledger'[k] = "learned") <=> (js_ledger[k] = "learned")
          /\ \A k \in Stream!Keys :
               (js_ledger'[k] = "withdrawn") <=> (js_ledger[k] = "withdrawn")
      BY <1>3, Reserves
    <2>2. Stream!EvidenceComesFirst'
      BY <1>2, <2>1, EvidenceStays DEF Noted
    <2>3. Noted'
      BY <1>2, <2>1, <2>2 DEF Noted
    <2>4. js_run.touched \subseteq Stream!Keys
      BY <1>1 DEF RunType
    <2>5. Settled'
      BY <2>1, <2>4 DEF Settled
    <2> QED
      BY <2>3, <2>5
  <1>4. CASE Stream!Learn(js_socket)
    <2>1. /\ js_run'.pc = (IF js_run.pc = "row" THEN "rows" ELSE "batch")
          /\ js_run'.withdrawn = js_run.withdrawn
      BY <1>4, Learns
    <2>2. PICK new \in SUBSET {Stream!Key(js_socket)} :
              /\ js_run'.touched = js_run.touched \cup new
              /\ js_run'.graph = js_run.graph \cup new
              /\ \A k \in Stream!Keys :
                   js_ledger'[k] = IF k \in new THEN "learned" ELSE js_ledger[k]
      BY <1>4, Learns
    <2>3. /\ Stream!Key(js_socket) \in Stream!Keys
          /\ Stream!Key(js_socket)[1] = js_log[js_socket].uri
      BY <1>1, LogTyped DEF Stream!Key
    <2>4. js_mode.all => InEvidence("create", Stream!Key(js_socket))
      BY <1>1, <2>3 DEF Noted, InEvidence
    <2>5. Stream!EvidenceComesFirst'
      <3>1. \A k \in Stream!Keys :
              /\ js_ledger'[k] = "withdrawn" =>
                   js_ledger[k] = "withdrawn" \/ InEvidence("delete", k)
              /\ js_ledger'[k] = "learned" /\ js_mode.all =>
                   js_ledger[k] = "learned" \/ InEvidence("create", k)
        BY <2>2, <2>4
      <3> QED
        BY <1>2, <3>1, EvidenceStays DEF Noted
    <2>6. Noted'
      BY <2>1, <2>5 DEF Noted
    <2>7. js_run.touched \subseteq Stream!Keys
      BY <1>1 DEF RunType
    <2>8. ASSUME ~js_run.withdrawn, NEW k \in js_run.touched \cup new
          PROVE  k \in js_run.graph \cup new <=> js_ledger'[k] = "learned"
      BY <2>2, <2>3, <2>7, <2>8 DEF Settled
    <2>9. Settled'
      BY <2>1, <2>2, <2>8 DEF Settled
    <2> QED
      BY <2>6, <2>9
  <1> QED
    BY <1>3, <1>4

LEMMA WithdrawNotes ==
  ASSUME StreamTyped, StreamTyped', Noted, Settled, js_run.pc = "apply",
         js_log[js_socket].op = "delete", Stream!withdraw_source(js_socket)
  PROVE  Noted' /\ Settled'
  <1>1. js_socket \in 1..StreamLength /\ js_run \in RunType
    BY LogTyped DEF StreamTyped
  <1>2. UNCHANGED <<js_log, js_mode, js_evidence>>
    BY DEF Stream!withdraw_source
  <1>3. /\ js_run'.graph = js_run.graph
        /\ \/ /\ js_run'.pc = "batch" /\ js_ledger' = js_ledger
              /\ js_run'.withdrawn = js_run.withdrawn /\ js_run'.touched = js_run.touched
           \/ /\ js_run'.pc = "apply" /\ js_socket' = js_socket /\ js_run'.withdrawn
              /\ \E key \in Stream!Keys :
                   /\ key[1] = js_log[js_socket].uri
                   /\ \A k \in Stream!Keys :
                        js_ledger'[k] = IF k = key THEN "withdrawn" ELSE js_ledger[k]
    BY Withdraws
  <1>4. CASE /\ js_run'.pc = "batch" /\ js_ledger' = js_ledger
             /\ js_run'.withdrawn = js_run.withdrawn /\ js_run'.touched = js_run.touched
    <2>1. Stream!EvidenceComesFirst'
      BY <1>2, <1>4, EvidenceStays DEF Noted
    <2> QED
      BY <1>3, <1>4, <2>1 DEF Noted, Settled
  <1>5. CASE /\ js_run'.pc = "apply" /\ js_socket' = js_socket /\ js_run'.withdrawn
             /\ \E key \in Stream!Keys :
                  /\ key[1] = js_log[js_socket].uri
                  /\ \A k \in Stream!Keys :
                       js_ledger'[k] = IF k = key THEN "withdrawn" ELSE js_ledger[k]
    <2>1. PICK key \in Stream!Keys :
            /\ key[1] = js_log[js_socket].uri
            /\ \A k \in Stream!Keys :
                 js_ledger'[k] = IF k = key THEN "withdrawn" ELSE js_ledger[k]
      BY <1>5
    <2>2. InEvidence("delete", key)
      BY <1>1, <2>1 DEF Noted, InEvidence
    <2>3. Stream!EvidenceComesFirst'
      BY <1>2, <2>1, <2>2, EvidenceStays DEF Noted
    <2>4. Noted'
      BY <1>2, <1>5, <2>3 DEF Noted
    <2>5. Settled'
      BY <1>5 DEF Settled
    <2> QED
      BY <2>4, <2>5
  <1> QED
    BY <1>3, <1>4, <1>5

LEMMA ReadsNotes ==
  ASSUME StreamTyped, StreamTyped', Noted, Settled, Reads
  PROVE  Noted' /\ Settled'
  <1>1. js_run \in RunType /\ js_ledger' = js_ledger /\ js_run.touched \subseteq Stream!Keys
    BY ReadsTyped DEF StreamTyped, RunType
  <1>2. js_log' = js_log /\ js_mode' = js_mode
    BY DEF Reads, Stream!BeginBatch, Stream!Skip, Stream!EndBatch, Stream!SaveModel,
           Stream!SaveState, Stream!SkipRow, Stream!Row, Stream!EndWindow, Stream!Lose,
           Stream!Reconnect, Stream!Crash
  <1>3. CASE Stream!Row
    <2>1. js_socket <= StreamLength /\ js_evidence \in Files /\ <<"create", js_socket>> \in Notes
      <3>1. js_socket <= js_run.before /\ js_run.before \in 0..StreamLength
        BY <1>1, <1>3 DEF Stream!Row, RunType
      <3>2. js_socket \in Nat /\ StreamLength \in Nat
        BY LogTyped DEF StreamTyped
      <3>3. js_evidence \in Files
        BY DEF StreamTyped
      <3> QED
        BY <3>1, <3>2, <3>3 DEF Notes
    <2>2. /\ js_evidence' = Stream!append_evidence(js_evidence, <<"create", js_socket>>)
          /\ js_socket' = js_socket /\ js_run' = [js_run EXCEPT !.pc = "row"]
          /\ js_run.pc = "rows"
      BY <1>3 DEF Stream!Row
    <2>3. /\ js_evidence.records \subseteq js_evidence'.records
          /\ <<"create", js_socket>> \in js_evidence'.records
      BY <2>1, <2>2, Appends
    <2>4. Stream!EvidenceComesFirst'
      BY <1>1, <1>2, <2>3, EvidenceStays DEF Noted
    <2>5. /\ js_run'.pc = "row" /\ js_run'.graph = js_run.graph
          /\ js_run'.withdrawn = js_run.withdrawn /\ js_run'.touched = js_run.touched
      BY <1>1, <2>2 DEF RunType
    <2> QED
      BY <1>1, <2>2, <2>3, <2>4, <2>5 DEF Noted, Settled
  <1>4. CASE Stream!Crash
    <2>1. js_evidence.records \subseteq js_evidence'.records
      BY <1>4 DEF Stream!Crash, Stream!Interrupted, Stream!File
    <2>2. js_run'.pc = "down"
      BY <1>4, StreamDownTyped DEF Stream!Crash
    <2>3. Stream!EvidenceComesFirst'
      BY <1>1, <1>2, <2>1, EvidenceStays DEF Noted
    <2> QED
      BY <2>2, <2>3 DEF Noted, Settled
  <1>5. CASE ~Stream!Row /\ ~Stream!Crash
    <2>1. js_evidence' = js_evidence
      BY <1>5 DEF Reads, Stream!BeginBatch, Stream!Skip, Stream!EndBatch, Stream!SaveModel,
           Stream!SaveState, Stream!SkipRow, Stream!EndWindow, Stream!Lose, Stream!Reconnect
    <2>2. Stream!EvidenceComesFirst'
      BY <1>1, <1>2, <2>1, EvidenceStays DEF Noted
    <2>3. js_run'.pc \notin {"apply", "row"} /\ Settled'
      <3>1. CASE Stream!EndBatch
        <4>1. /\ js_run'.pc = "live" /\ js_run'.withdrawn = FALSE
              /\ js_run'.touched = js_run.touched
              /\ js_run'.graph = IF js_run.withdrawn THEN Stream!rebuild_from_ledger
                                 ELSE js_run.graph
              /\ js_run.pc = "batch"
          BY <1>1, <3>1 DEF Stream!EndBatch, Stream!Between, RunType
        <4> QED
          BY <1>1, <4>1 DEF Settled, Stream!rebuild_from_ledger
      <3>2. CASE Stream!SaveState
        <4>1. js_run'.pc = "down"
          BY <3>2, StreamDownTyped DEF Stream!SaveState
        <4> QED
          BY <4>1 DEF Settled
      <3>3. CASE Stream!BeginBatch \/ Stream!SaveModel \/ Stream!EndWindow
        <4>1. /\ js_run'.pc \in {"batch", "save", "done"} /\ js_run'.graph = js_run.graph
              /\ js_run'.withdrawn = js_run.withdrawn /\ js_run'.touched = js_run.touched
              /\ js_run.pc \in {"live", "rows", "done"}
          BY <1>1, <3>3, ZenonT(60) DEF Stream!BeginBatch, Stream!SaveModel, Stream!EndWindow, RunType
        <4> QED
          BY <1>1, <4>1 DEF Settled
      <3>4. CASE Stream!Skip \/ Stream!SkipRow \/ Stream!Lose \/ Stream!Reconnect
        <4>1. js_run' = js_run /\ js_run.pc \in {"live", "batch", "rows"}
          BY <3>4 DEF Stream!Skip, Stream!SkipRow, Stream!Lose, Stream!Reconnect
        <4> QED
          BY <1>1, <4>1 DEF Settled
      <3> QED
        BY <1>5, <3>1, <3>2, <3>3, <3>4 DEF Reads
    <2> QED
      BY <2>2, <2>3 DEF Noted
  <1> QED
    BY <1>3, <1>4, <1>5

StreamInv == StreamTyped /\ Positions /\ Noted /\ Settled

\* Nothing has been read.
LEMMA StreamStarts == Stream!Init => StreamInv
  <1> SUFFICES ASSUME Stream!Init PROVE StreamInv
    OBVIOUS
  <1>1. StreamTyped
    BY StreamStartsTyped
  <1>2. js_run.pc = "down" /\ js_saved = [cursor |-> 0, from |-> 1, live |-> 1]
    BY StreamDownTyped DEF Stream!Init
  <1>3. Positions
    BY <1>2 DEF Positions, Reader, Covered
  <1>4. Stream!EvidenceComesFirst
    BY DEF Stream!Init, Stream!EvidenceComesFirst
  <1> QED
    BY <1>1, <1>2, <1>3, <1>4 DEF StreamInv, Noted, Settled

LEMMA StreamStep == StreamInv /\ Stream!Next => StreamInv'
  <1> SUFFICES ASSUME StreamInv, Stream!Next PROVE StreamInv'
    OBVIOUS
  <1>1. StreamTyped /\ Positions /\ Noted /\ Settled
    BY DEF StreamInv
  <1>2. CASE Stream!Start \/ Stream!StartArchive
    BY <1>1, <1>2, StartTypedStream, StartPositions, StartArchivePositions, StartNotes
       DEF StreamInv
  <1>3. CASE Stream!Receive
    BY <1>1, <1>3, ReceiveTyped, ReceivePositions, ReceiveNotes DEF StreamInv
  <1>4. CASE Stream!Event
    <2>1. js_run.last # 0 /\ js_log[js_socket].op \in {"create", "delete"}
      BY <1>1, <1>4 DEF Positions, Reader, Stream!Event
    <2> QED
      BY <1>1, <1>4, <2>1, EventTyped, EventPositions, EventNotes DEF StreamInv
  <1>5. CASE Stream!Apply
    <2>1. Positions'
      BY <1>1, <1>5, ApplyPositions
    <2>2. js_run.pc = "apply"
      BY <1>5 DEF Stream!Apply
    <2>3. CASE /\ js_log[js_socket].op = "create"
               /\ Stream!Reserve(js_socket) \/ Stream!Learn(js_socket)
      BY <1>1, <2>1, <2>2, <2>3, Reserves, Learns, LearnNotes DEF StreamInv
    <2>4. CASE js_log[js_socket].op = "delete" /\ Stream!withdraw_source(js_socket)
      BY <1>1, <2>1, <2>2, <2>4, Withdraws, WithdrawNotes DEF StreamInv
    <2> QED
      BY <1>5, <2>3, <2>4 DEF Stream!Apply
  <1>6. CASE Stream!LearnRow
    <2>1. js_run.pc = "row" /\ js_log[js_socket].op = "create"
      BY <1>1, <1>6 DEF Positions, Reader, Stream!LearnRow
    <2>2. Stream!Reserve(js_socket) \/ Stream!Learn(js_socket)
      BY <1>6 DEF Stream!LearnRow
    <2> QED
      BY <1>1, <1>6, <2>1, <2>2, Reserves, Learns, LearnRowPositions, LearnNotes DEF StreamInv
  <1>7. CASE Reads
    BY <1>1, <1>7, ReadsTyped, ReadsPositions, ReadsNotes DEF StreamInv
  <1> QED
    BY <1>2, <1>3, <1>4, <1>5, <1>6, <1>7 DEF Stream!Next, Reads

LEMMA StreamStutter == StreamInv /\ UNCHANGED jetstream_vars => StreamInv'
  <1> SUFFICES ASSUME StreamInv, UNCHANGED jetstream_vars PROVE StreamInv'
    OBVIOUS
  <1>1. UNCHANGED <<js_log, js_mode, js_socket, js_ledger, js_evidence, js_model, js_saved,
                    js_run, js_lost>>
    BY DEF jetstream_vars
  <1>2. StreamTyped'
    BY <1>1 DEF StreamInv, StreamTyped
  <1>3. Positions'
    BY <1>1 DEF StreamInv, Positions, Reader, Covered, Swept, Done, Stream!Key
  <1>4. Stream!EvidenceComesFirst'
    BY <1>1 DEF StreamInv, Noted, Stream!EvidenceComesFirst
  <1> QED
    BY <1>1, <1>2, <1>3, <1>4 DEF StreamInv, Noted, Settled

\* The reader's invariant, in the behaviours that are the reader's.
LEMMA StreamHolds == PlatformSpec => [](side = "jetstream" => StreamInv)
  <1> DEFINE Inv == side = "jetstream" => StreamInv
  <1>1. PlatformInit => Inv
    BY StreamStarts DEF PlatformInit
  <1>2. Inv /\ [PlatformNext]_platform_vars => Inv'
    <2> SUFFICES ASSUME Inv, side' = "jetstream",
                        [PlatformNext]_platform_vars
                 PROVE  StreamInv'
      OBVIOUS
    <2>1. \/ side = "jetstream" /\ Stream!Next
          \/ side = "jetstream" /\ UNCHANGED jetstream_vars
      BY DEF PlatformNext, LockNext, JetstreamNext, MigrationNext, ResourcesNext, platform_vars
    <2> QED
      BY <2>1, StreamStep, StreamStutter
  <1> QED
    BY <1>1, <1>2, PTL DEF PlatformSpec

\* The saved cursor stands for work that is done, for streams of any length and any
\* number of losses, repeats, deaths, windows and runs (run_jetstream_backfill's
\* checkpoint, the order of the saves in run_jetstream).
THEOREM CursorIsBehind == PlatformSpec => []CursorBehindHandled
  <1>1. (side = "jetstream" => StreamInv) => CursorBehindHandled
    BY DEF StreamInv, Positions, Covered, Done, Swept, CursorBehindHandled,
           Stream!CursorBehindHandled, Stream!Handled, Stream!Refused
  <1> QED
    BY <1>1, StreamHolds, PTL

\* Whatever a run learns or withdraws is in the evidence ledger first, and between
\* batches its model and the ledger agree on what it touched (append_firehose_event
\* before process_observation and withdraw_source, rebuild_from_ledger).
THEOREM ChangesAccounted == PlatformSpec => []ChangesAreAccounted
  <1>1. (side = "jetstream" => StreamInv) => ChangesAreAccounted
    BY DEF StreamInv, Noted, Settled, ChangesAreAccounted, Stream!ChangesAreAccounted,
           Stream!BatchSettles
  <1> QED
    BY <1>1, StreamHolds, PTL
---------------------------------------------------------------------------
(* The resource budget: what is measured, and what it allows. *)

\* A set of naturals that is not empty has a least element.
LEMMA LeastNatural ==
  ASSUME NEW S \in SUBSET Nat, S # {}
  PROVE  \E x \in S : \A y \in S : x <= y
  <1> DEFINE R == {ss \in Nat \X Nat : ss[1] < ss[2]}
  <1>1. IsWellFoundedOn(R, Nat)
    BY NatLessThanWellFounded DEF OpToRel
  <1>2. \A x \in S, y \in S : ~ (<<y, x>> \in R) => x <= y
    OBVIOUS
  <1> HIDE DEF R
  <1>3. \E x \in S : \A y \in S : ~ (<<y, x>> \in R)
    BY <1>1, WFMin
  <1> QED
    BY <1>2, <1>3

\* Whole numbers.
LEMMA Quotient ==
  ASSUME NEW a \in Nat, NEW b \in Nat \ {0}
  PROVE  a \div b \in Nat /\ (a \div b) * b <= a
  OBVIOUS

LEMMA QuotientOne ==
  ASSUME NEW a \in Nat, NEW b \in Nat \ {0}, b <= a
  PROVE  a \div b >= 1
  OBVIOUS

LEMMA Parts ==
  ASSUME NEW a \in Nat
  PROVE  /\ a \div 2 \in Nat /\ (a \div 2) * 2 <= a /\ a \div 2 <= a
         /\ (a * 3) \div 10 \in 0..a /\ a \div 4 \in Nat /\ a \div 8 \in Nat
         /\ a \div 20 \in Nat
  OBVIOUS

LEMMA Product ==
  ASSUME NEW a \in Nat, NEW b \in Nat, NEW c \in Nat
  PROVE  (a + b) * c = a * c + b * c /\ a * c \in Nat
  OBVIOUS

LEMMA ProductGrows ==
  ASSUME NEW a \in Nat, NEW b \in Nat, NEW c \in Nat, a <= b
  PROVE  a * c <= b * c
  OBVIOUS

LEMMA Smaller ==
  ASSUME NEW a \in Int, NEW b \in Int
  PROVE  Budget!SmallerOf(a, b) = IF a <= b THEN a ELSE b
  BY DEF Budget!SmallerOf, Budget!Min

LEMMA Larger ==
  ASSUME NEW a \in Int, NEW b \in Int
  PROVE  Budget!LargerOf(a, b) = IF a <= b THEN b ELSE a
  BY DEF Budget!LargerOf, Budget!Max

LEMMA Clamps ==
  ASSUME NEW x \in Int, NEW high \in Nat \ {0}
  PROVE  /\ Budget!Clamp(x, 1, high) \in 1..high
         /\ x >= 1 => Budget!Clamp(x, 1, high) <= x
  <1>1. Budget!LargerOf(1, x) = IF 1 <= x THEN x ELSE 1
    BY Larger
  <1>2. Budget!Clamp(x, 1, high) = IF high <= Budget!LargerOf(1, x) THEN high
                                   ELSE Budget!LargerOf(1, x)
    BY <1>1, Smaller DEF Budget!Clamp
  <1> QED
    BY <1>1, <1>2

LEMMA Floors ==
  ASSUME NEW a \in Nat, NEW b \in Nat
  PROVE  /\ Budget!subtract_floor(a, b) \in Nat
         /\ Budget!subtract_floor(a, b) # 0 => a = b + Budget!subtract_floor(a, b)
         /\ a >= b => Budget!subtract_floor(a, b) = a - b
         /\ a <= b => Budget!subtract_floor(a, b) = 0
  BY DEF Budget!subtract_floor

\* The least of three.
LEMMA LeastOfThree ==
  ASSUME NEW a \in Int, NEW b \in Int, NEW c \in Int
  PROVE  /\ Budget!Min({a, b, c}) \in {a, b, c}
         /\ Budget!Min({a, b, c}) <= a /\ Budget!Min({a, b, c}) <= b
         /\ Budget!Min({a, b, c}) <= c
  <1>1. \E x \in {a, b, c} : \A y \in {a, b, c} : x <= y
    OBVIOUS
  <1>2. /\ Budget!Min({a, b, c}) \in {a, b, c}
        /\ \A y \in {a, b, c} : Budget!Min({a, b, c}) <= y
    BY <1>1 DEF Budget!Min
  <1> QED
    BY <1>2

LEMMA Settings ==
  /\ Hosts \subseteq [memory : Nat, others : Nat, cpus : Nat,
                      files : [{"model", "ledger"} -> Nat]]
  /\ Overrides \subseteq [memory : Nat \cup {Nil}, reserve : Nat \cup {Nil},
                          nodes : Nat \cup {Nil}, page : Nat \cup {Nil},
                          class : DOMAIN Classes \cup {Nil}]
  /\ Classes \in Seq([parameters : Nat, node : Nat \ {0}, budget : Nat, cpus : Nat])
  /\ Classes # <<>> /\ Nil \notin DOMAIN Classes
  /\ Disk \in Nat /\ MemoryFloor \in Nat /\ MemoryCap \in Nat /\ DiskFloor \in Nat
  /\ DiskCap \in Nat /\ WriteMinimum \in Nat
  /\ EdgeBytes \in Nat \ {0} /\ ObservationBytes \in Nat \ {0} /\ PageStep \in Nat \ {0}
  /\ PagePerCpu \in Nat \ {0} /\ MaxPage \in Nat \ {0} /\ PressurePage \in Nat \ {0}
  /\ ObservationBytes <= WriteMinimum
  /\ Growths \subseteq [nodes : Nat, edges : Nat]
  <1>1. /\ {Disk, MemoryFloor, MemoryCap, DiskFloor, DiskCap, WriteMinimum} \subseteq Nat
        /\ {EdgeBytes, ObservationBytes, PageStep, PagePerCpu, MaxPage, PressurePage}
             \subseteq Nat \ {0}
    BY PlatformAssumption DEF Budget!ResourcesAssumption
  <1>2. /\ Disk \in Nat /\ MemoryFloor \in Nat /\ MemoryCap \in Nat /\ DiskFloor \in Nat
        /\ DiskCap \in Nat /\ WriteMinimum \in Nat
        /\ EdgeBytes \in Nat \ {0} /\ ObservationBytes \in Nat \ {0} /\ PageStep \in Nat \ {0}
        /\ PagePerCpu \in Nat \ {0} /\ MaxPage \in Nat \ {0} /\ PressurePage \in Nat \ {0}
    BY <1>1
  <1> QED
    BY <1>2, PlatformAssumption, Zenon DEF Budget!ResourcesAssumption, Budget!Filesystems

LEMMA ClassTyped ==
  ASSUME NEW k \in DOMAIN Classes
  PROVE  /\ Classes[k].parameters \in Nat /\ Classes[k].node \in Nat \ {0}
         /\ Classes[k].budget \in Nat /\ Classes[k].cpus \in Nat /\ k \in Nat
  <1> DEFINE C == [parameters : Nat, node : Nat \ {0}, budget : Nat, cpus : Nat]
  <1>1. Classes \in Seq(C)
    BY Settings
  <1> HIDE DEF C
  <1>2. k \in 1..Len(Classes) /\ Classes[k] \in C
    BY <1>1
  <1> QED
    BY <1>2 DEF C

LEMMA Footprint ==
  ASSUME NEW k \in DOMAIN Classes, NEW n \in Nat, NEW e \in Nat
  PROVE  Budget!neural_memory_footprint(k, n, e) \in Nat
  <1>1. n * Classes[k].node \in Nat /\ e * EdgeBytes \in Nat
    BY ClassTyped, Settings, Product
  <1> QED
    BY <1>1, ClassTyped DEF Budget!neural_memory_footprint

StatusType ==
  [available : Nat, headroom : Nat, class : DOMAIN Classes, max_nodes : Nat, max_edges : Nat,
   pressure : BOOLEAN, page : Nat]

CommandType ==
  [command : {"sync", "expand"}, pc : {"load", "refresh", "fetch", "plan", "page", "swap"},
   class : DOMAIN Classes \cup {Nil}, nodes : Nat, edges : Nat, extra : Nat, items : Nat,
   status : StatusType]

BudgetTyped ==
  /\ rs_host \in Hosts /\ rs_override \in Overrides /\ rs_written \in Nat
  /\ rs_saved # Nil => rs_saved \in [class : DOMAIN Classes, nodes : Nat, edges : Nat]
  /\ rs_proc # Nil => rs_proc \in CommandType

\* What a command p holds, and what is left beside it on a host h.
HeldBy(p) ==
  IF p = Nil \/ p.class = Nil THEN 0
  ELSE Budget!neural_memory_footprint(p.class, p.nodes, p.edges) + p.extra

LeftTo(h, p) == Budget!subtract_floor(h.memory, h.others + HeldBy(p))

ReserveOf(h) == Budget!automatic_memory_reserve(h.memory)

FreeOn(h, w, m, f) ==
  Budget!subtract_floor(Disk, h.files[f] + IF f = "ledger" THEN w
                                           ELSE IF m = Nil THEN 0 ELSE Budget!SnapshotBytes(m))

DiskReserve(o) == IF o.reserve = Nil THEN Budget!automatic_disk_reserve ELSE o.reserve

LEMMA HostTyped ==
  ASSUME BudgetTyped
  PROVE  /\ rs_host.memory \in Nat /\ rs_host.others \in Nat /\ rs_host.cpus \in Nat
         /\ rs_host.files["model"] \in Nat /\ rs_host.files["ledger"] \in Nat
         /\ rs_override.memory \in Nat \cup {Nil} /\ rs_override.reserve \in Nat \cup {Nil}
         /\ rs_override.nodes \in Nat \cup {Nil} /\ rs_override.page \in Nat \cup {Nil}
         /\ rs_override.class \in DOMAIN Classes \cup {Nil}
  <1>1. rs_host \in [memory : Nat, others : Nat, cpus : Nat, files : [{"model", "ledger"} -> Nat]]
    BY Settings DEF BudgetTyped
  <1>2. rs_override \in [memory : Nat \cup {Nil}, reserve : Nat \cup {Nil},
                         nodes : Nat \cup {Nil}, page : Nat \cup {Nil},
                         class : DOMAIN Classes \cup {Nil}]
    BY Settings DEF BudgetTyped
  <1> QED
    BY <1>1, <1>2

\* The sizes are numbers.
LEMMA MemoryIs ==
  ASSUME BudgetTyped
  PROVE  /\ HeldBy(rs_proc) \in Nat
         /\ Budget!Available = LeftTo(rs_host, rs_proc) /\ Budget!Available \in Nat
         /\ ReserveOf(rs_host) \in Nat
         /\ Budget!memory_headroom = Budget!subtract_floor(Budget!Available, ReserveOf(rs_host))
         /\ Budget!memory_headroom \in Nat
  <1>1. HeldBy(rs_proc) \in Nat
    <2>1. CASE rs_proc = Nil \/ rs_proc.class = Nil
      BY <2>1 DEF HeldBy
    <2>2. CASE ~(rs_proc = Nil \/ rs_proc.class = Nil)
      <3>1. /\ rs_proc.class \in DOMAIN Classes /\ rs_proc.nodes \in Nat
            /\ rs_proc.edges \in Nat /\ rs_proc.extra \in Nat
        BY <2>2 DEF BudgetTyped, CommandType
      <3>2. Budget!neural_memory_footprint(rs_proc.class, rs_proc.nodes, rs_proc.edges) \in Nat
        BY <3>1, Footprint
      <3> QED
        BY <2>2, <3>1, <3>2 DEF HeldBy
    <2> QED
      BY <2>1, <2>2
  <1>2. Budget!Available = LeftTo(rs_host, rs_proc)
    BY DEF Budget!Available, Budget!Held, LeftTo, HeldBy
  <1>3. Budget!Available \in Nat
    <2>1. rs_host.memory \in Nat /\ rs_host.others + HeldBy(rs_proc) \in Nat
      BY <1>1, HostTyped
    <2> QED
      BY <1>2, <2>1, Floors DEF LeftTo
  <1>4. ReserveOf(rs_host) \in Nat
    <2>0. rs_host.memory \in Nat /\ MemoryFloor \in Nat /\ MemoryCap \in Nat
      BY HostTyped, Settings
    <2>1. PICK a \in Nat, b \in Nat : a = rs_host.memory \div 4 /\ b = rs_host.memory \div 8
      BY <2>0, Parts
    <2>2. PICK c \in Nat : c = Budget!SmallerOf(MemoryFloor, a)
      BY <2>0, Smaller
    <2>3. PICK d \in Nat : d = Budget!LargerOf(c, b)
      BY Larger
    <2>4. Budget!SmallerOf(MemoryCap, d) \in Nat
      BY <2>0, Smaller
    <2> QED
      BY <2>1, <2>2, <2>3, <2>4 DEF ReserveOf, Budget!automatic_memory_reserve
  <1>5. Budget!memory_headroom = Budget!subtract_floor(Budget!Available, ReserveOf(rs_host))
    BY DEF Budget!memory_headroom, ReserveOf
  <1> QED
    BY <1>1, <1>2, <1>3, <1>4, <1>5, Floors

\* What may be grown fits between what is available and the reserve.
LEMMA GrowthIs ==
  ASSUME BudgetTyped, Budget!Accepted
  PROVE  /\ Budget!memory_growth_budget \in Nat
         /\ Budget!Available # 0 =>
              Budget!memory_growth_budget +
                Budget!SmallerOf(ReserveOf(rs_host), Budget!Available) <= Budget!Available
  <1> DEFINE A == Budget!Available
             R == ReserveOf(rs_host)
             H == Budget!memory_headroom
             G == Budget!memory_growth_budget
  <1>1. A \in Nat /\ R \in Nat /\ H \in Nat /\ H = Budget!subtract_floor(A, R)
    BY MemoryIs
  <1>2. G \in Nat /\ (A # 0 => G <= H)
    <2>1. CASE rs_override.memory # Nil
      BY <2>1, HostTyped DEF Budget!memory_growth_budget, Budget!Accepted
    <2>2. CASE rs_override.memory = Nil
      <3>1. /\ rs_host.memory \div 4 \in Nat /\ H \div 2 \in Nat /\ H \div 2 <= H
        BY <1>1, HostTyped, Parts
      <3>2. G = Budget!SmallerOf(rs_host.memory \div 4, H \div 2)
        BY <2>2 DEF Budget!memory_growth_budget
      <3> HIDE DEF G, H
      <3> QED
        BY <1>1, <3>1, <3>2, Smaller
    <2> QED
      BY <2>1, <2>2
  <1>3. Budget!SmallerOf(R, A) = IF R <= A THEN R ELSE A
    BY <1>1, Smaller
  <1>4. (A >= R => H = A - R) /\ (A <= R => H = 0)
    BY <1>1, Floors
  <1> HIDE DEF A, R, H, G
  <1>5. G \in Nat /\ (A # 0 => G + Budget!SmallerOf(R, A) <= A)
    BY <1>1, <1>2, <1>3, <1>4
  <1> QED
    BY <1>5 DEF A, R, G

\* The greatest of a set of class numbers.
LEMMA GreatestClass ==
  ASSUME NEW S \in SUBSET DOMAIN Classes, S # {}
  PROVE  Budget!Max(S) \in S
  <1>1. PICK L \in Nat : L = Len(Classes) /\ DOMAIN Classes = 1..L
    BY Settings
  <1> DEFINE T == {L - k : k \in S}
  <1>2. T \in SUBSET Nat /\ T # {}
    BY <1>1
  <1>3. PICK x \in T : \A y \in T : x <= y
    BY <1>2, LeastNatural
  <1>4. PICK k \in S : x = L - k
    OBVIOUS
  <1>5. \A j \in S : L - k <= L - j
    BY <1>3, <1>4
  <1>6. \A j \in S : k >= j
    BY <1>1, <1>4, <1>5
  <1> QED
    BY <1>4, <1>6 DEF Budget!Max

LEMMA ClassIs ==
  ASSUME BudgetTyped
  PROVE  Budget!recommended \in DOMAIN Classes
  <1> DEFINE S == {k \in DOMAIN Classes :
                     k = 1 \/ /\ Budget!memory_growth_budget \div 4 >= Classes[k].budget
                              /\ rs_host.cpus >= Classes[k].cpus}
  <1>1. 1 \in DOMAIN Classes
    BY Settings
  <1>2. S \in SUBSET DOMAIN Classes /\ S # {}
    BY <1>1
  <1>3. Budget!automatic_capacity_class = Budget!Max(S)
    BY DEF Budget!automatic_capacity_class
  <1> HIDE DEF S
  <1>4. Budget!automatic_capacity_class \in DOMAIN Classes
    BY <1>2, <1>3, GreatestClass
  <1> QED
    BY <1>4, HostTyped DEF Budget!recommended

\* The reserve of the disk, and what may be written beside it.
LEMMA DiskIs ==
  ASSUME BudgetTyped
  PROVE  /\ Budget!disk_reserve = DiskReserve(rs_override) /\ DiskReserve(rs_override) \in Nat
         /\ \A f \in {"model", "ledger"} :
              /\ Budget!Free(f) = FreeOn(rs_host, rs_written, rs_saved, f)
              /\ Budget!Free(f) \in Nat
  <1>1. Budget!automatic_disk_reserve \in Nat
    <2>0. Disk \in Nat /\ DiskFloor \in Nat /\ DiskCap \in Nat
      BY Settings
    <2>1. PICK a \in Nat, b \in Nat : a = Disk \div 4 /\ b = Disk \div 20
      BY <2>0, Parts
    <2>2. PICK c \in Nat : c = Budget!SmallerOf(DiskFloor, a)
      BY <2>0, Smaller
    <2>3. PICK d \in Nat : d = Budget!LargerOf(c, b)
      BY Larger
    <2>4. Budget!SmallerOf(DiskCap, d) \in Nat
      BY <2>0, Smaller
    <2> QED
      BY <2>1, <2>2, <2>3, <2>4 DEF Budget!automatic_disk_reserve
  <1>2. Budget!disk_reserve = DiskReserve(rs_override) /\ DiskReserve(rs_override) \in Nat
    BY <1>1, HostTyped DEF Budget!disk_reserve, DiskReserve
  <1>3. ASSUME NEW f \in {"model", "ledger"}
        PROVE  /\ Budget!Free(f) = FreeOn(rs_host, rs_written, rs_saved, f)
               /\ Budget!Free(f) \in Nat
    <2> DEFINE u == IF f = "ledger" THEN rs_written
                    ELSE IF rs_saved = Nil THEN 0 ELSE Budget!SnapshotBytes(rs_saved)
    <2>1. rs_saved # Nil => Budget!SnapshotBytes(rs_saved) \in Nat
      BY Footprint DEF Budget!SnapshotBytes, BudgetTyped
    <2>2. u \in Nat
      BY <2>1 DEF BudgetTyped
    <2>3. rs_host.files[f] \in Nat /\ Disk \in Nat
      BY <1>3, HostTyped, Settings
    <2>4. Budget!Free(f) = Budget!subtract_floor(Disk, rs_host.files[f] + u)
      BY DEF Budget!Free
    <2>5. FreeOn(rs_host, rs_written, rs_saved, f)
            = Budget!subtract_floor(Disk, rs_host.files[f] + u)
      BY DEF FreeOn
    <2> HIDE DEF u
    <2>6. rs_host.files[f] + u \in Nat
      BY <2>2, <2>3
    <2> QED
      BY <2>3, <2>4, <2>5, <2>6, Floors
  <1> QED
    BY <1>2, <1>3, Zenon

LEMMA WritesAre ==
  ASSUME BudgetTyped
  PROVE  /\ Budget!disk_write_budget \in Nat
         /\ \A f \in {"model", "ledger"} :
              Budget!disk_write_budget # 0 =>
                Budget!disk_write_budget + DiskReserve(rs_override) <= Budget!Free(f)
  <1> DEFINE r == DiskReserve(rs_override)
             h(f) == Budget!subtract_floor(Budget!Free(f), r) \div 2
  <1>1. /\ Budget!disk_reserve = r /\ r \in Nat
        /\ Budget!Free("model") \in Nat /\ Budget!Free("ledger") \in Nat
    BY DiskIs
  <1>2. Budget!disk_write_budget = Budget!Min({h(f) : f \in {"model", "ledger"}})
    BY <1>1 DEF Budget!disk_write_budget, Budget!Filesystems
  <1>3. {h(f) : f \in {"model", "ledger"}} = {h("model"), h("ledger")}
    OBVIOUS
  <1>4. ASSUME NEW f \in {"model", "ledger"}
        PROVE  h(f) \in Nat /\ (h(f) # 0 => h(f) + r <= Budget!Free(f))
    <2>1. PICK s \in Nat : s = Budget!subtract_floor(Budget!Free(f), r)
      BY <1>1, Floors
    <2>2. s # 0 => Budget!Free(f) = r + s
      BY <1>1, <2>1, Floors
    <2>3. s \div 2 \in Nat /\ s \div 2 <= s
      BY Parts
    <2>4. h(f) = s \div 2 /\ Budget!Free(f) \in Nat
      BY <1>1, <2>1
    <2> QED
      BY <1>1, <2>2, <2>3, <2>4
  <1>5. PICK a \in Nat, b \in Nat : a = h("model") /\ b = h("ledger")
    BY <1>4
  <1>6. /\ a # 0 => a + r <= Budget!Free("model")
        /\ b # 0 => b + r <= Budget!Free("ledger")
    BY <1>4, <1>5
  <1>7. Budget!disk_write_budget = Budget!SmallerOf(a, b)
    BY <1>2, <1>3, <1>5 DEF Budget!SmallerOf
  <1>8. Budget!disk_write_budget = IF a <= b THEN a ELSE b
    BY <1>7, Smaller
  <1> HIDE DEF h, r
  <1>9. /\ Budget!disk_write_budget \in Nat
        /\ Budget!disk_write_budget # 0 => Budget!disk_write_budget + r <= Budget!Free("model")
        /\ Budget!disk_write_budget # 0 => Budget!disk_write_budget + r <= Budget!Free("ledger")
    BY <1>1, <1>6, <1>8
  <1> QED
    BY <1>9 DEF r

\* A page is not empty and, outside disk pressure, fits beside the reserve.
LEMMA PageIs ==
  ASSUME BudgetTyped, Budget!Accepted,
         NEW page, page = Budget!SmallerOf(IF rs_override.page # Nil THEN rs_override.page
                                           ELSE Budget!automatic_sync_page_size,
                                           Budget!observation_work_batch)
  PROVE  /\ page \in Nat
         /\ rs_override.page = Nil /\ ~(Budget!disk_write_budget < WriteMinimum) =>
              /\ page * ObservationBytes + DiskReserve(rs_override) <= Budget!Free("ledger")
              /\ DiskReserve(rs_override) <= Budget!Free("model")
  <1>1. PICK g \in Nat : g = Budget!memory_growth_budget
    BY GrowthIs
  <1>2. PICK w \in Nat : w = Budget!disk_write_budget
    BY WritesAre
  <1>3. PICK c \in Nat : c = rs_host.cpus * PagePerCpu
    <2>1. rs_host.cpus \in Nat /\ PagePerCpu \in Nat
      BY HostTyped, Settings
    <2> QED
      BY <2>1, Product
  <1>4. PICK q \in Nat : q = w \div ObservationBytes /\ q * ObservationBytes <= w
    BY Settings, Quotient
  <1>5. WriteMinimum <= w => q >= 1
    BY <1>4, Settings, QuotientOne
  <1>6. PICK p1 \in Nat : p1 = Budget!Clamp(c, 1, MaxPage)
    BY Clamps, Settings
  <1>7. PICK p2 \in Nat : p2 = Budget!Clamp(1 + g \div PageStep, 1, MaxPage)
    <2>1. 1 + g \div PageStep \in Int /\ MaxPage \in Nat \ {0}
      BY Settings, Quotient
    <2>2. Budget!Clamp(1 + g \div PageStep, 1, MaxPage) \in 1..MaxPage
      BY <2>1, Clamps
    <2> QED
      BY <2>1, <2>2
  <1>8. PICK p3 \in Nat : p3 = Budget!Clamp(q, 1, MaxPage) /\ (q >= 1 => p3 <= q)
    <2>1. q \in Int /\ MaxPage \in Nat \ {0}
      BY Settings
    <2>2. Budget!Clamp(q, 1, MaxPage) \in 1..MaxPage /\ (q >= 1 => Budget!Clamp(q, 1, MaxPage) <= q)
      BY <2>1, Clamps
    <2> QED
      BY <2>1, <2>2
  <1>9. Budget!automatic_sync_page_size = Budget!Min({p1, p2, p3})
    BY <1>1, <1>2, <1>3, <1>4, <1>6, <1>7, <1>8 DEF Budget!automatic_sync_page_size
  <1>10. PICK s \in Nat : s = Budget!automatic_sync_page_size /\ s <= p3
    <2>1. p1 \in Int /\ p2 \in Int /\ p3 \in Int
      OBVIOUS
    <2>2. Budget!Min({p1, p2, p3}) \in {p1, p2, p3} /\ Budget!Min({p1, p2, p3}) <= p3
      BY <2>1, LeastOfThree
    <2> QED
      BY <1>9, <2>2
  <1>11. PICK b \in Nat : b = Budget!observation_work_batch
    <2>1. PICK a \in Nat : a = IF Budget!Available = 0 THEN g ELSE Budget!memory_headroom
      BY MemoryIs
    <2>2. PICK x \in Nat : x = Budget!SmallerOf(g, a)
      BY Smaller
    <2>3. PICK y \in Nat : y = x \div 4
      BY Parts
    <2>4. PICK z \in Nat : z = Budget!Clamp(y \div PageStep, 1, MaxPage)
      <3>1. y \div PageStep \in Int /\ MaxPage \in Nat \ {0}
        BY Settings, Quotient
      <3>2. Budget!Clamp(y \div PageStep, 1, MaxPage) \in 1..MaxPage
        BY <3>1, Clamps
      <3> QED
        BY <3>1, <3>2
    <2>5. PICK t \in Nat : t = Budget!SmallerOf(p1, z)
      BY Smaller
    <2>6. PICK v \in Nat : v = Budget!SmallerOf(t, PressurePage)
      BY Smaller, Settings
    <2>7. Budget!observation_work_batch = IF Budget!memory_pressure THEN v ELSE t
      BY <1>1, <1>3, <1>6, <2>1, <2>2, <2>3, <2>4, <2>5, <2>6
         DEF Budget!observation_work_batch
    <2> QED
      BY <2>7
  <1>12. PICK u \in Nat : u = IF rs_override.page # Nil THEN rs_override.page ELSE s
    BY HostTyped
  <1>13. page = Budget!SmallerOf(u, b)
    BY <1>10, <1>11, <1>12
  <1>14. page \in Nat /\ page <= u
    BY <1>13, Smaller
  <1>15. ASSUME rs_override.page = Nil, ~(w < WriteMinimum)
         PROVE  /\ page * ObservationBytes + DiskReserve(rs_override) <= Budget!Free("ledger")
                /\ DiskReserve(rs_override) <= Budget!Free("model")
    <2>1. page <= q
      <3>1. WriteMinimum \in Nat
        BY Settings
      <3> QED
        BY <1>5, <1>8, <1>10, <1>12, <1>14, <1>15, <3>1
    <2>2. page * ObservationBytes <= q * ObservationBytes
      BY <1>14, <2>1, ProductGrows, Settings
    <2>3. page * ObservationBytes \in Nat /\ q * ObservationBytes \in Nat
      BY <1>14, Product, Settings
    <2>4. w # 0
      BY <1>15, Settings
    <2>5. /\ w + DiskReserve(rs_override) <= Budget!Free("ledger")
          /\ w + DiskReserve(rs_override) <= Budget!Free("model")
      BY <1>2, <2>4, WritesAre
    <2>6. /\ DiskReserve(rs_override) \in Nat /\ Budget!Free("ledger") \in Nat
          /\ Budget!Free("model") \in Nat
      BY DiskIs
    <2> QED
      BY <1>4, <2>2, <2>3, <2>5, <2>6
  <1> QED
    BY <1>2, <1>14, <1>15

\* The ceilings of a graph of n nodes and e edges: it may grow by a nodes and
\* b edges, which take no more than what the reserve leaves.
LEMMA CeilingsAre ==
  ASSUME BudgetTyped, Budget!Accepted,
         NEW n \in Nat, NEW e \in Nat, NEW k \in DOMAIN Classes
  PROVE  \E a \in Nat, b \in Nat :
           /\ Budget!ceiling(n, Budget!node_budget, Classes[k].node)
                = Budget!LargerOf(1, n + a)
           /\ Budget!ceiling(e, Budget!memory_growth_budget - Budget!node_budget, EdgeBytes)
                = Budget!LargerOf(1, e + b)
           /\ Budget!Available # 0 =>
                a * Classes[k].node + b * EdgeBytes
                  + Budget!SmallerOf(ReserveOf(rs_host), Budget!Available)
                  <= Budget!Available
  <1>1. PICK g \in Nat : g = Budget!memory_growth_budget
    BY GrowthIs
  <1>2. PICK m \in 0..g : m = Budget!node_budget
    BY <1>1, Parts DEF Budget!node_budget
  <1>3. PICK c \in Nat \ {0} : c = Classes[k].node
    BY ClassTyped
  <1>4. PICK d \in Nat \ {0} : d = EdgeBytes
    BY Settings
  <1>5. PICK a \in Nat : a = m \div c /\ a * c <= m
    BY Quotient
  <1>6. g - m \in Nat
    OBVIOUS
  <1>7. PICK b \in Nat : b = (g - m) \div d /\ b * d <= g - m
    BY <1>6, Quotient
  <1>8. /\ Budget!ceiling(n, Budget!node_budget, Classes[k].node) = Budget!LargerOf(1, n + a)
        /\ Budget!ceiling(e, Budget!memory_growth_budget - Budget!node_budget, EdgeBytes)
             = Budget!LargerOf(1, e + b)
    BY <1>1, <1>2, <1>3, <1>4, <1>5, <1>7 DEF Budget!ceiling
  <1>9. a * c + b * d <= g
    <2>1. a * c \in Nat /\ b * d \in Nat
      BY Product
    <2> QED
      BY <1>5, <1>6, <1>7, <2>1
  <1>10. ASSUME Budget!Available # 0
         PROVE  a * c + b * d + Budget!SmallerOf(ReserveOf(rs_host), Budget!Available)
                  <= Budget!Available
    <2>1. PICK A \in Nat, R \in Nat : A = Budget!Available /\ R = ReserveOf(rs_host)
      BY MemoryIs
    <2>2. PICK s \in Nat : s = Budget!SmallerOf(R, A)
      BY Smaller
    <2>3. g + s <= A
      BY <1>1, <1>10, <2>1, <2>2, GrowthIs
    <2>4. PICK x \in Nat : x = a * c + b * d
      BY Product
    <2>5. x + s <= A
      BY <1>9, <2>3, <2>4
    <2> QED
      BY <2>1, <2>2, <2>4, <2>5
  <1> QED
    BY <1>3, <1>4, <1>8, <1>10

\* The measurement s leaves a graph of n nodes and e edges room for a nodes and b
\* edges more, which take no more than the reserve of the host h leaves.
Room(h, s, k, n, e) ==
  \E a \in Nat, b \in Nat :
    /\ s.max_nodes = Budget!LargerOf(1, n + a)
    /\ s.max_edges = Budget!LargerOf(1, e + b)
    /\ s.available # 0 =>
         a * Classes[k].node + b * EdgeBytes
           + Budget!SmallerOf(ReserveOf(h), s.available) <= s.available

\* What one measurement tells.
LEMMA Measures ==
  ASSUME BudgetTyped, Budget!Accepted,
         NEW n \in Nat, NEW e \in Nat, NEW k \in DOMAIN Classes,
         NEW s, s = Budget!inspect_runtime_resources(n, e, k)
  PROVE  /\ s \in StatusType
         /\ s.available = LeftTo(rs_host, rs_proc)
         /\ s.headroom = Budget!subtract_floor(s.available, ReserveOf(rs_host))
         /\ rs_override.nodes = Nil => Room(rs_host, s, k, n, e)
         /\ rs_override.page = Nil /\ ~s.pressure =>
              /\ s.page * ObservationBytes + DiskReserve(rs_override)
                   <= FreeOn(rs_host, rs_written, rs_saved, "ledger")
              /\ DiskReserve(rs_override) <= FreeOn(rs_host, rs_written, rs_saved, "model")
  <1> DEFINE cn == Budget!ceiling(n, Budget!node_budget, Classes[k].node)
             ce == Budget!ceiling(e, Budget!memory_growth_budget - Budget!node_budget,
                                  EdgeBytes)
             mn == IF rs_override.nodes # Nil THEN Budget!LargerOf(n, rs_override.nodes) ELSE cn
             pg == Budget!SmallerOf(IF rs_override.page # Nil THEN rs_override.page
                                    ELSE Budget!automatic_sync_page_size,
                                    Budget!observation_work_batch)
             pr == Budget!disk_write_budget < WriteMinimum
  <1>1. /\ s.available = Budget!Available /\ s.headroom = Budget!memory_headroom
        /\ s.max_nodes = mn /\ s.max_edges = ce /\ s.page = pg
        /\ s.class = Budget!recommended /\ s.pressure = pr
    BY DEF Budget!inspect_runtime_resources
  <1>2. s = [available |-> Budget!Available, headroom |-> Budget!memory_headroom,
             class |-> Budget!recommended, max_nodes |-> mn, max_edges |-> ce,
             pressure |-> pr, page |-> pg]
    BY DEF Budget!inspect_runtime_resources
  <1>3. PICK a \in Nat, b \in Nat :
          /\ cn = Budget!LargerOf(1, n + a)
          /\ ce = Budget!LargerOf(1, e + b)
          /\ Budget!Available # 0 =>
               a * Classes[k].node + b * EdgeBytes
                 + Budget!SmallerOf(ReserveOf(rs_host), Budget!Available) <= Budget!Available
    BY CeilingsAre, ZenonT(60)
  <1>4. cn \in Nat /\ ce \in Nat
    BY <1>3, Larger
  <1>5. mn \in Nat
    BY <1>4, HostTyped, Larger
  <1>6. /\ pg \in Nat
        /\ rs_override.page = Nil /\ ~pr =>
              /\ pg * ObservationBytes + DiskReserve(rs_override) <= Budget!Free("ledger")
              /\ DiskReserve(rs_override) <= Budget!Free("model")
    BY PageIs
  <1>7. /\ Budget!Free("ledger") = FreeOn(rs_host, rs_written, rs_saved, "ledger")
        /\ Budget!Free("model") = FreeOn(rs_host, rs_written, rs_saved, "model")
    BY DiskIs
  <1>8. pr \in BOOLEAN
    OBVIOUS
  <1>9. rs_override.nodes = Nil => mn = cn
    OBVIOUS
  <1>10. Budget!recommended \in DOMAIN Classes
    BY ClassIs
  <1> HIDE DEF mn, ce, cn, pg, pr
  <1>11. s \in StatusType
    BY <1>2, <1>4, <1>5, <1>6, <1>8, <1>10, MemoryIs DEF StatusType
  <1>12. /\ s.available = LeftTo(rs_host, rs_proc)
         /\ s.headroom = Budget!subtract_floor(s.available, ReserveOf(rs_host))
    BY <1>1, MemoryIs
  <1>13. rs_override.nodes = Nil => Room(rs_host, s, k, n, e)
    BY <1>1, <1>3, <1>9, Zenon DEF Room
  <1>14. rs_override.page = Nil /\ ~s.pressure =>
           /\ s.page * ObservationBytes + DiskReserve(rs_override)
                <= FreeOn(rs_host, rs_written, rs_saved, "ledger")
           /\ DiskReserve(rs_override) <= FreeOn(rs_host, rs_written, rs_saved, "model")
    BY <1>1, <1>6, <1>7, Zenon
  <1> QED
    BY <1>11, <1>12, <1>13, <1>14, Zenon

Stages(p) ==
  /\ p.pc = "load" => p.class = Nil /\ p.nodes = 0 /\ p.edges = 0
  /\ p.pc # "load" => p.class \in DOMAIN Classes
  /\ p.pc # "swap" => p.extra = 0

\* The last measurement is what the host h has beside the command p.
Measured(h, p) ==
  /\ p.status.available = LeftTo(h, p)
  /\ p.status.headroom = Budget!subtract_floor(p.status.available, ReserveOf(h))

\* The ceilings were set for a graph of n nodes and e edges, and the graph is
\* below them.
Ceilings(h, p) ==
  /\ p.nodes <= p.status.max_nodes /\ p.edges <= p.status.max_edges
  /\ \E n \in Nat, e \in Nat :
       /\ h.memory = h.others + Budget!neural_memory_footprint(p.class, n, e)
                       + p.status.available
       /\ Room(h, p.status, p.class, n, e)

\* The memory: measured and untouched, or used beside the reserve, or grown below
\* the ceilings.
MemoryKept(h, o, p) ==
  /\ p.pc \in {"load", "plan"} => Measured(h, p)
  /\ p.pc \in {"refresh", "swap"} /\ p.status.available # 0 =>
       LeftTo(h, p) >= Budget!SmallerOf(ReserveOf(h), p.status.available)
  /\ p.pc \in {"fetch", "page"} /\ p.status.available # 0 /\ o.nodes = Nil => Ceilings(h, p)

\* The disk: the rest of the page fits beside the reserve.
DiskKept(h, o, w, m, p) ==
  p.pc = "page" /\ o.page = Nil =>
    /\ p.items * ObservationBytes + DiskReserve(o) <= FreeOn(h, w, m, "ledger")
    /\ DiskReserve(o) <= FreeOn(h, w, m, "model")

BudgetInv ==
  /\ BudgetTyped
  /\ rs_proc # Nil => Stages(rs_proc)
  /\ rs_proc # Nil /\ rs_calm =>
       /\ MemoryKept(rs_host, rs_override, rs_proc)
       /\ DiskKept(rs_host, rs_override, rs_written, rs_saved, rs_proc)

\* What is taken within the headroom leaves the reserve.
LEMMA TakenFits ==
  ASSUME NEW mem \in Nat, NEW used \in Nat, NEW R \in Nat, NEW F \in Nat, NEW avail,
         avail = Budget!subtract_floor(mem, used), avail # 0,
         F <= Budget!subtract_floor(avail, R)
  PROVE  Budget!subtract_floor(mem, used + F) >= Budget!SmallerOf(R, avail)
  <1>1. avail \in Nat /\ mem = used + avail
    BY Floors
  <1>2. Budget!SmallerOf(R, avail) = IF R <= avail THEN R ELSE avail
    BY <1>1, Smaller
  <1>3. Budget!subtract_floor(avail, R) = IF avail > R THEN avail - R ELSE 0
    BY DEF Budget!subtract_floor
  <1>4. Budget!subtract_floor(mem, used + F) = IF mem > used + F THEN mem - (used + F) ELSE 0
    BY DEF Budget!subtract_floor
  <1> QED
    BY <1>1, <1>2, <1>3, <1>4

\* A graph below its ceilings has grown by no more than the budget, but for the
\* one node and the one edge that the smallest ceilings admit.
LEMMA GrownFits ==
  ASSUME NEW k \in DOMAIN Classes, NEW n \in Nat, NEW e \in Nat, NEW a \in Nat, NEW b \in Nat,
         NEW i \in Nat, NEW j \in Nat, NEW slack \in Nat,
         i <= Budget!LargerOf(1, n + a), j <= Budget!LargerOf(1, e + b),
         i <= 1 \/ j <= 1 => slack = Classes[k].node + EdgeBytes
  PROVE  Budget!neural_memory_footprint(k, i, j)
           <= Budget!neural_memory_footprint(k, n, e)
                + (a * Classes[k].node + b * EdgeBytes) + slack
  <1>1. PICK c \in Nat \ {0}, d \in Nat \ {0}, q \in Nat :
          c = Classes[k].node /\ d = EdgeBytes /\ q = Classes[k].parameters
    BY ClassTyped, Settings
  <1>2. PICK nc \in Nat, ac \in Nat, ed \in Nat, bd \in Nat, ic \in Nat, jd \in Nat :
          /\ nc = n * c /\ ac = a * c /\ ed = e * d /\ bd = b * d /\ ic = i * c /\ jd = j * d
    <2>1. /\ n * c \in Nat /\ a * c \in Nat /\ e * d \in Nat /\ b * d \in Nat
          /\ i * c \in Nat /\ j * d \in Nat
      BY Product
    <2> QED
      BY <2>1
  <1>3. (n + a) * c = nc + ac /\ (e + b) * d = ed + bd
    BY <1>2, Product
  <1>4. i <= n + a => ic <= nc + ac
    BY <1>2, <1>3, ProductGrows
  <1>5. j <= e + b => jd <= ed + bd
    BY <1>2, <1>3, ProductGrows
  <1>6. i <= n + a \/ (i <= 1 /\ ic <= c)
    <2>1. i <= n + a \/ i <= 1
      BY Larger
    <2>2. i <= 1 => ic <= c
      BY <1>2
    <2> QED
      BY <2>1, <2>2
  <1>7. j <= e + b \/ (j <= 1 /\ jd <= d)
    <2>1. j <= e + b \/ j <= 1
      BY Larger
    <2>2. j <= 1 => jd <= d
      BY <1>2
    <2> QED
      BY <2>1, <2>2
  <1>8. q + ic + jd <= (q + nc + ed) + (ac + bd) + slack
    BY <1>1, <1>4, <1>5, <1>6, <1>7
  <1> QED
    BY <1>1, <1>2, <1>8 DEF Budget!neural_memory_footprint

\* A command's own fields.
LEMMA CommandTyped ==
  ASSUME BudgetTyped, rs_proc # Nil
  PROVE  /\ rs_proc \in CommandType /\ rs_proc.status \in StatusType
         /\ rs_proc.nodes \in Nat /\ rs_proc.edges \in Nat /\ rs_proc.extra \in Nat
         /\ rs_proc.items \in Nat /\ rs_proc.status.available \in Nat
         /\ rs_proc.status.headroom \in Nat /\ rs_proc.status.max_nodes \in Nat
         /\ rs_proc.status.max_edges \in Nat /\ rs_proc.status.page \in Nat
         /\ rs_proc.status.class \in DOMAIN Classes
  <1>1. rs_proc \in CommandType
    BY DEF BudgetTyped
  <1>2. rs_proc.status \in StatusType
    BY <1>1 DEF CommandType
  <1> QED
    BY <1>1, <1>2 DEF CommandType, StatusType

LEMMA EndsKeeps ==
  ASSUME BudgetTyped', rs_proc' = Nil
  PROVE  BudgetInv'
  BY DEF BudgetInv

\* A step that leaves the host, the settings and the files alone, and gives the
\* command a new state.
LEMMA CommandStep ==
  ASSUME BudgetInv, NEW p \in CommandType, rs_proc' = p,
         UNCHANGED <<rs_host, rs_override, rs_written, rs_saved>>,
         Stages(p),
         rs_calm' /\ p # Nil =>
           /\ MemoryKept(rs_host, rs_override, p)
           /\ DiskKept(rs_host, rs_override, rs_written, rs_saved, p)
  PROVE  BudgetInv'
  <1>1. BudgetTyped'
    BY DEF BudgetInv, BudgetTyped
  <1>2. PICK h, o, w, m : h = rs_host /\ o = rs_override /\ w = rs_written /\ m = rs_saved
    OBVIOUS
  <1>3. rs_host' = h /\ rs_override' = o /\ rs_written' = w /\ rs_saved' = m
    BY <1>2
  <1>4. rs_calm' /\ p # Nil => MemoryKept(h, o, p) /\ DiskKept(h, o, w, m, p)
    BY <1>2
  <1>5. (rs_proc # Nil => Stages(rs_proc))'
    BY Zenon
  <1>6. (rs_proc # Nil /\ rs_calm =>
           /\ MemoryKept(rs_host, rs_override, rs_proc)
           /\ DiskKept(rs_host, rs_override, rs_written, rs_saved, rs_proc))'
    BY <1>3, <1>4, Zenon
  <1> QED
    BY <1>1, <1>5, <1>6 DEF BudgetInv

LEMMA BudgetStarts == Budget!Init => BudgetInv
  BY DEF Budget!Init, BudgetInv, BudgetTyped

LEMMA BudgetBegins ==
  ASSUME BudgetInv, NEW c \in {"sync", "expand"}, Budget!Begin(c)
  PROVE  BudgetInv'
  <1>1. PICK s : s = Budget!inspect_runtime_resources(0, 0, Budget!recommended)
    OBVIOUS
  <1> DEFINE p == [command |-> c, pc |-> "load", class |-> Nil, nodes |-> 0, edges |-> 0,
                   extra |-> 0, items |-> 0, status |-> s]
  <1>2. /\ rs_proc = Nil /\ Budget!Accepted /\ rs_proc' = p
        /\ UNCHANGED <<rs_host, rs_override, rs_written, rs_saved>>
    BY <1>1 DEF Budget!Begin
  <1>3. BudgetTyped /\ Budget!recommended \in DOMAIN Classes
    BY ClassIs DEF BudgetInv
  <1>4. /\ s \in StatusType /\ s.available = LeftTo(rs_host, rs_proc)
        /\ s.headroom = Budget!subtract_floor(s.available, ReserveOf(rs_host))
    BY <1>1, <1>2, <1>3, Measures
  <1>5. /\ p \in CommandType /\ Stages(p) /\ p.status = s /\ p.pc = "load" /\ p.class = Nil
    BY <1>4 DEF CommandType, Stages
  <1> HIDE DEF p
  <1>6. LeftTo(rs_host, p) = LeftTo(rs_host, rs_proc)
    BY <1>2, <1>5 DEF LeftTo, HeldBy
  <1>7. MemoryKept(rs_host, rs_override, p)
    BY <1>4, <1>5, <1>6 DEF MemoryKept, Measured
  <1>8. DiskKept(rs_host, rs_override, rs_written, rs_saved, p)
    BY <1>5 DEF DiskKept
  <1> QED
    BY <1>2, <1>5, <1>7, <1>8, CommandStep

\* A network and a graph that fit the headroom are loaded.
LEMMA Loads ==
  ASSUME BudgetInv, rs_proc # Nil, rs_proc.pc = "load",
         NEW k \in DOMAIN Classes, NEW n \in Nat, NEW e \in Nat,
         rs_proc.status.available # 0 =>
           Budget!neural_memory_footprint(k, n, e) <= rs_proc.status.headroom,
         rs_proc' = [rs_proc EXCEPT !.pc = "refresh", !.class = k, !.nodes = n, !.edges = e],
         UNCHANGED <<rs_host, rs_override, rs_written, rs_saved, rs_calm>>
  PROVE  BudgetInv'
  <1>1. BudgetTyped
    BY DEF BudgetInv
  <1>2. PICK p : p = [rs_proc EXCEPT !.pc = "refresh", !.class = k, !.nodes = n, !.edges = e]
    OBVIOUS
  <1>3. /\ p \in CommandType /\ p.pc = "refresh" /\ p.class = k /\ p.nodes = n /\ p.edges = e
        /\ p.extra = rs_proc.extra /\ p.status = rs_proc.status
    BY <1>1, <1>2, CommandTyped DEF CommandType
  <1>4. rs_proc.extra = 0 /\ rs_proc.class = Nil
    BY DEF BudgetInv, Stages
  <1>5. Stages(p)
    BY <1>3, <1>4 DEF Stages
  <1>6. ASSUME rs_calm, p # Nil, p.status.available # 0
        PROVE  LeftTo(rs_host, p) >= Budget!SmallerOf(ReserveOf(rs_host), p.status.available)
    <2>1. Measured(rs_host, rs_proc)
      BY <1>6 DEF BudgetInv, MemoryKept
    <2>2. PICK F \in Nat : F = Budget!neural_memory_footprint(k, n, e)
      BY Footprint
    <2>3. k # Nil
      BY Settings
    <2>4. HeldBy(p) = F /\ HeldBy(rs_proc) = 0
      BY <1>3, <1>4, <1>6, <2>2, <2>3 DEF HeldBy
    <2>5. PICK mem \in Nat, used \in Nat, R \in Nat :
            mem = rs_host.memory /\ used = rs_host.others /\ R = ReserveOf(rs_host)
      BY <1>1, HostTyped, MemoryIs
    <2>6. PICK avail : avail = p.status.available
      OBVIOUS
    <2>7. avail = Budget!subtract_floor(mem, used)
      BY <1>3, <2>1, <2>4, <2>5, <2>6 DEF Measured, LeftTo
    <2>8. F <= Budget!subtract_floor(avail, R)
      BY <1>3, <1>6, <2>1, <2>2, <2>5, <2>6 DEF Measured
    <2>9. Budget!subtract_floor(mem, used + F) >= Budget!SmallerOf(R, avail)
      BY <1>6, <2>6, <2>7, <2>8, TakenFits
    <2> QED
      BY <2>4, <2>5, <2>6, <2>9 DEF LeftTo
  <1>7. rs_calm /\ p # Nil => MemoryKept(rs_host, rs_override, p)
    BY <1>3, <1>6 DEF MemoryKept
  <1>8. DiskKept(rs_host, rs_override, rs_written, rs_saved, p)
    BY <1>3 DEF DiskKept
  <1>9. rs_calm' = rs_calm /\ rs_proc' = p
    BY <1>2
  <1> QED
    BY <1>3, <1>5, <1>7, <1>8, <1>9, CommandStep

LEMMA LoadKeeps ==
  ASSUME BudgetInv, Budget!Load
  PROVE  BudgetInv'
  <1>1. /\ rs_proc # Nil /\ rs_proc.pc = "load" /\ rs_saved # Nil
        /\ Budget!SnapshotFits(rs_proc.status, rs_saved)
        /\ UNCHANGED <<rs_host, rs_override, rs_written, rs_saved, rs_calm>>
    BY DEF Budget!Load
  <1>2. PICK k \in DOMAIN Classes, n \in Nat, e \in Nat :
          k = rs_saved.class /\ n = rs_saved.nodes /\ e = rs_saved.edges
    BY <1>1 DEF BudgetInv, BudgetTyped
  <1>3. CASE rs_proc' = Nil
    <2>1. BudgetTyped'
      BY <1>1, <1>3 DEF BudgetInv, BudgetTyped
    <2> QED
      BY <1>3, <2>1, EndsKeeps
  <1>4. CASE rs_proc' = [rs_proc EXCEPT !.pc = "refresh", !.class = k, !.nodes = n,
                                        !.edges = e]
    <2>1. PICK F \in Nat : F = Budget!neural_memory_footprint(k, n, e)
      BY Footprint
    <2>2. rs_proc.status.available # 0 => 2 * F <= rs_proc.status.headroom
      BY <1>1, <1>2, <2>1 DEF Budget!SnapshotFits, Budget!SnapshotBytes
    <2>3. rs_proc.status.headroom \in Nat
      BY <1>1, CommandTyped DEF BudgetInv
    <2>4. rs_proc.status.available # 0 => F <= rs_proc.status.headroom
      BY <2>2, <2>3
    <2> QED
      BY <1>1, <1>4, <2>1, <2>4, Loads
  <1> QED
    BY <1>2, <1>3, <1>4 DEF Budget!Load, Budget!Ends

LEMMA CreateKeeps ==
  ASSUME BudgetInv, Budget!Create
  PROVE  BudgetInv'
  <1>1. /\ rs_proc # Nil /\ rs_proc.pc = "load"
        /\ Budget!NeuralFits(rs_proc.status, rs_proc.status.class, 0, 0)
        /\ rs_proc' = [rs_proc EXCEPT !.pc = "refresh", !.class = rs_proc.status.class]
        /\ UNCHANGED <<rs_host, rs_override, rs_written, rs_saved, rs_calm>>
    BY DEF Budget!Create
  <1>2. PICK k \in DOMAIN Classes : k = rs_proc.status.class
    BY <1>1, CommandTyped DEF BudgetInv
  <1>3. rs_proc \in CommandType /\ rs_proc.nodes = 0 /\ rs_proc.edges = 0
    BY <1>1, CommandTyped DEF BudgetInv, Stages
  <1>4. [rs_proc EXCEPT !.pc = "refresh", !.class = k]
          = [rs_proc EXCEPT !.pc = "refresh", !.class = k, !.nodes = 0, !.edges = 0]
    BY <1>3 DEF CommandType
  <1>5. rs_proc.status.available # 0 =>
          Budget!neural_memory_footprint(k, 0, 0) <= rs_proc.status.headroom
    BY <1>1, <1>2 DEF Budget!NeuralFits
  <1>6. rs_proc' = [rs_proc EXCEPT !.pc = "refresh", !.class = k, !.nodes = 0, !.edges = 0]
    BY <1>1, <1>2, <1>4, Zenon
  <1> QED
    BY <1>1, <1>5, <1>6, Loads

\* A command measured with its graph in memory.
LEMMA Remeasured ==
  ASSUME BudgetInv, rs_proc # Nil, rs_proc.pc \in {"refresh", "fetch"}, Budget!Accepted,
         NEW p, p # Nil, p.class = rs_proc.class, p.nodes = rs_proc.nodes,
         p.edges = rs_proc.edges, p.extra = rs_proc.extra,
         p.status = Budget!inspect_runtime_resources(rs_proc.nodes, rs_proc.edges, rs_proc.class)
  PROVE  /\ p.status \in StatusType /\ Measured(rs_host, p)
         /\ p.status.available # 0 /\ rs_override.nodes = Nil => Ceilings(rs_host, p)
         /\ rs_override.page = Nil /\ ~p.status.pressure =>
              /\ p.status.page * ObservationBytes + DiskReserve(rs_override)
                   <= FreeOn(rs_host, rs_written, rs_saved, "ledger")
              /\ DiskReserve(rs_override) <= FreeOn(rs_host, rs_written, rs_saved, "model")
  <1>1. BudgetTyped
    BY DEF BudgetInv
  <1>2. rs_proc.class \in DOMAIN Classes /\ rs_proc.extra = 0
    BY DEF BudgetInv, Stages
  <1>3. PICK k \in DOMAIN Classes, n \in Nat, e \in Nat :
          k = rs_proc.class /\ n = rs_proc.nodes /\ e = rs_proc.edges
    BY <1>1, <1>2, CommandTyped
  <1>4. PICK s : s = p.status
    OBVIOUS
  <1>5. s = Budget!inspect_runtime_resources(n, e, k)
    BY <1>3, <1>4
  <1>6. LeftTo(rs_host, p) = LeftTo(rs_host, rs_proc)
    BY DEF LeftTo, HeldBy
  <1>7. /\ s \in StatusType /\ s.available = LeftTo(rs_host, rs_proc)
        /\ s.headroom = Budget!subtract_floor(s.available, ReserveOf(rs_host))
    BY <1>1, <1>5, Measures
  <1>8. rs_override.page = Nil /\ ~s.pressure =>
          /\ s.page * ObservationBytes + DiskReserve(rs_override)
               <= FreeOn(rs_host, rs_written, rs_saved, "ledger")
          /\ DiskReserve(rs_override) <= FreeOn(rs_host, rs_written, rs_saved, "model")
    BY <1>1, <1>5, Measures
  <1>9. ASSUME s.available # 0, rs_override.nodes = Nil
        PROVE  Ceilings(rs_host, p)
    <2>1. Room(rs_host, s, k, n, e)
      BY <1>1, <1>5, <1>9, Measures
    <2>2. PICK a \in Nat, b \in Nat :
            s.max_nodes = Budget!LargerOf(1, n + a) /\ s.max_edges = Budget!LargerOf(1, e + b)
      BY <2>1 DEF Room
    <2>3. n <= s.max_nodes /\ e <= s.max_edges
      BY <2>2, Larger
    <2>4. rs_host.memory = rs_host.others + Budget!neural_memory_footprint(k, n, e)
                             + s.available
      <3>1. PICK F \in Nat : F = Budget!neural_memory_footprint(k, n, e)
        BY Footprint
      <3>2. k # Nil
        BY Settings
      <3>3. HeldBy(rs_proc) = F
        BY <1>2, <1>3, <3>1, <3>2 DEF HeldBy
      <3>4. PICK mem \in Nat, oth \in Nat : mem = rs_host.memory /\ oth = rs_host.others
        BY <1>1, HostTyped
      <3>5. s.available = Budget!subtract_floor(mem, oth + F)
        BY <1>7, <3>3, <3>4 DEF LeftTo
      <3>6. oth + F \in Nat /\ s.available \in Nat
        BY <1>7 DEF StatusType
      <3>7. mem = (oth + F) + s.available
        BY <1>9, <3>5, <3>6, Floors
      <3> QED
        BY <3>1, <3>4, <3>6, <3>7
    <2>5. p.nodes <= p.status.max_nodes /\ p.edges <= p.status.max_edges
      BY <1>3, <1>4, <2>3
    <2>6. /\ rs_host.memory = rs_host.others + Budget!neural_memory_footprint(p.class, n, e)
                                + p.status.available
          /\ Room(rs_host, p.status, p.class, n, e)
      BY <1>3, <1>4, <2>1, <2>4, Zenon
    <2> QED
      BY <2>5, <2>6, Zenon DEF Ceilings
  <1> QED
    BY <1>4, <1>6, <1>7, <1>8, <1>9, Zenon DEF Measured

LEMMA RefreshKeeps ==
  ASSUME BudgetInv, Budget!RefreshLoaded
  PROVE  BudgetInv'
  <1>1. /\ rs_proc # Nil /\ rs_proc.pc = "refresh"
        /\ UNCHANGED <<rs_host, rs_override, rs_written, rs_saved>>
    BY DEF Budget!RefreshLoaded, Budget!Refresh
  <1>2. CASE rs_proc' = Nil
    <2>1. BudgetTyped'
      BY <1>1, <1>2 DEF BudgetInv, BudgetTyped
    <2> QED
      BY <1>2, <2>1, EndsKeeps
  <1>3. CASE /\ Budget!Accepted /\ rs_proc' # Nil
             /\ rs_proc' = [rs_proc EXCEPT !.pc = IF rs_proc.command = "sync" THEN "fetch"
                                                  ELSE "plan",
                                           !.status = Budget!Refreshed]
    <2>1. PICK p : p = rs_proc'
      OBVIOUS
    <2>2. PICK s : s = Budget!inspect_runtime_resources(rs_proc.nodes, rs_proc.edges,
                                                        rs_proc.class)
      OBVIOUS
    <2>3. rs_proc \in CommandType
      BY <1>1, CommandTyped DEF BudgetInv
    <2>4. p = [rs_proc EXCEPT !.pc = IF rs_proc.command = "sync" THEN "fetch" ELSE "plan",
                              !.status = s]
      BY <1>3, <2>1, <2>2 DEF Budget!Refreshed
    <2>5. /\ p.class = rs_proc.class /\ p.nodes = rs_proc.nodes /\ p.edges = rs_proc.edges
          /\ p.extra = rs_proc.extra /\ p.status = s /\ p.pc \in {"fetch", "plan"}
      BY <2>3, <2>4 DEF CommandType
    <2>6. /\ p.status \in StatusType /\ Measured(rs_host, p)
          /\ p.status.available # 0 /\ rs_override.nodes = Nil => Ceilings(rs_host, p)
      BY <1>1, <1>3, <2>1, <2>2, <2>5, Remeasured, ZenonT(60)
    <2>7. p \in CommandType
      BY <2>3, <2>4, <2>5, <2>6 DEF CommandType
    <2>8. Stages(p)
      BY <1>1, <2>5 DEF BudgetInv, Stages
    <2>9. MemoryKept(rs_host, rs_override, p)
      BY <2>5, <2>6 DEF MemoryKept
    <2>10. DiskKept(rs_host, rs_override, rs_written, rs_saved, p)
      BY <2>5 DEF DiskKept
    <2> QED
      BY <1>1, <2>1, <2>7, <2>8, <2>9, <2>10, CommandStep
  <1> QED
    BY <1>2, <1>3 DEF Budget!RefreshLoaded, Budget!Ends

LEMMA FetchKeeps ==
  ASSUME BudgetInv, Budget!FetchPage
  PROVE  BudgetInv'
  <1>1. /\ rs_proc # Nil /\ rs_proc.pc = "fetch"
        /\ UNCHANGED <<rs_host, rs_override, rs_written, rs_saved>>
    BY DEF Budget!FetchPage, Budget!Refresh
  <1>2. CASE rs_proc' = Nil
    <2>1. BudgetTyped'
      BY <1>1, <1>2 DEF BudgetInv, BudgetTyped
    <2> QED
      BY <1>2, <2>1, EndsKeeps
  <1>3. CASE /\ Budget!Accepted /\ rs_proc' # Nil /\ ~Budget!Refreshed.pressure
             /\ rs_proc' = [rs_proc EXCEPT !.pc = "page", !.status = Budget!Refreshed,
                                           !.items = Budget!Refreshed.page]
    <2>1. PICK p : p = rs_proc'
      OBVIOUS
    <2>2. PICK s : s = Budget!inspect_runtime_resources(rs_proc.nodes, rs_proc.edges,
                                                        rs_proc.class)
      OBVIOUS
    <2>3. rs_proc \in CommandType
      BY <1>1, CommandTyped DEF BudgetInv
    <2>4. p = [rs_proc EXCEPT !.pc = "page", !.status = s, !.items = s.page] /\ ~s.pressure
      BY <1>3, <2>1, <2>2 DEF Budget!Refreshed
    <2>5. /\ p.class = rs_proc.class /\ p.nodes = rs_proc.nodes /\ p.edges = rs_proc.edges
          /\ p.extra = rs_proc.extra /\ p.status = s /\ p.pc = "page" /\ p.items = s.page
      BY <2>3, <2>4 DEF CommandType
    <2>6. /\ s \in StatusType
          /\ s.available # 0 /\ rs_override.nodes = Nil => Ceilings(rs_host, p)
          /\ rs_override.page = Nil =>
              /\ s.page * ObservationBytes + DiskReserve(rs_override)
                   <= FreeOn(rs_host, rs_written, rs_saved, "ledger")
              /\ DiskReserve(rs_override) <= FreeOn(rs_host, rs_written, rs_saved, "model")
      <3>1. /\ p.status \in StatusType
            /\ p.status.available # 0 /\ rs_override.nodes = Nil => Ceilings(rs_host, p)
            /\ rs_override.page = Nil /\ ~p.status.pressure =>
                 /\ p.status.page * ObservationBytes + DiskReserve(rs_override)
                      <= FreeOn(rs_host, rs_written, rs_saved, "ledger")
                 /\ DiskReserve(rs_override) <= FreeOn(rs_host, rs_written, rs_saved, "model")
        BY <1>1, <1>3, <2>1, <2>2, <2>5, Remeasured
      <3> QED
        BY <2>4, <2>5, <3>1, Zenon
    <2>7. s.page \in Nat
      BY <2>6 DEF StatusType
    <2>8. p \in CommandType
      BY <2>3, <2>4, <2>6, <2>7 DEF CommandType
    <2>9. Stages(p)
      BY <1>1, <2>5 DEF BudgetInv, Stages
    <2>10. MemoryKept(rs_host, rs_override, p)
      BY <2>5, <2>6 DEF MemoryKept
    <2>11. DiskKept(rs_host, rs_override, rs_written, rs_saved, p)
      BY <2>5, <2>6 DEF DiskKept
    <2> QED
      BY <1>1, <2>1, <2>8, <2>9, <2>10, <2>11, CommandStep
  <1> QED
    BY <1>2, <1>3 DEF Budget!FetchPage, Budget!Ends

\* One item: at most one observation more in the ledger, and a graph below its
\* ceilings.
LEMMA ObserveKeeps ==
  ASSUME BudgetInv, NEW g \in Growths, NEW z \in {0, ObservationBytes}, Budget!Observe(g, z)
  PROVE  BudgetInv'
  <1> DEFINE n == rs_proc.nodes + g.nodes
             e == rs_proc.edges + g.edges
  <1>1. /\ rs_proc # Nil /\ rs_proc.pc = "page" /\ rs_proc.items > 0
        /\ rs_written' = rs_written + z
        /\ UNCHANGED <<rs_host, rs_override, rs_saved, rs_calm>>
    BY DEF Budget!Observe
  <1>2. \/ rs_proc' = Nil
        \/ /\ Budget!Within(n, rs_proc.status.max_nodes)
           /\ Budget!Within(e, rs_proc.status.max_edges)
           /\ rs_proc' = [rs_proc EXCEPT !.nodes = n, !.edges = e, !.items = @ - 1]
    BY DEF Budget!Observe, Budget!Ends
  <1>3. BudgetTyped /\ z \in Nat /\ rs_written \in Nat /\ rs_written' \in Nat
    BY <1>1, Settings, SMTT(60) DEF BudgetInv, BudgetTyped
  <1>4. n \in Nat /\ e \in Nat
    <2>1. g.nodes \in Nat /\ g.edges \in Nat
      BY Settings
    <2>2. rs_proc.nodes \in Nat /\ rs_proc.edges \in Nat
      BY <1>1, <1>3, CommandTyped
    <2> QED
      BY <2>1, <2>2
  <1> HIDE DEF n, e
  <1>5. CASE rs_proc' = Nil
    <2>1. BudgetTyped'
      BY <1>1, <1>3, <1>5 DEF BudgetTyped
    <2> QED
      BY <1>5, <2>1, EndsKeeps
  <1>6. CASE /\ Budget!Within(n, rs_proc.status.max_nodes)
             /\ Budget!Within(e, rs_proc.status.max_edges)
             /\ rs_proc' = [rs_proc EXCEPT !.nodes = n, !.edges = e, !.items = @ - 1]
    <2>1. PICK p : p = rs_proc'
      OBVIOUS
    <2>2. PICK h, o, w, m : h = rs_host /\ o = rs_override /\ w = rs_written' /\ m = rs_saved
      OBVIOUS
    <2>3. rs_proc \in CommandType /\ rs_proc.items \in Nat
      BY <1>1, <1>3, CommandTyped
    <2>4. /\ p \in CommandType
          /\ p.pc = "page" /\ p.class = rs_proc.class /\ p.extra = rs_proc.extra
          /\ p.nodes = n /\ p.edges = e /\ p.items = rs_proc.items - 1
          /\ p.status = rs_proc.status
      <3>1. PICK i \in Nat : i = rs_proc.items - 1
        BY <1>1, <2>3
      <3>2. p = [rs_proc EXCEPT !.nodes = n, !.edges = e, !.items = i]
        BY <1>6, <2>1, <3>1
      <3> QED
        BY <1>1, <1>4, <2>3, <3>1, <3>2 DEF CommandType
    <2>5. BudgetTyped'
      BY <1>1, <1>3, <2>1, <2>4 DEF BudgetTyped
    <2>6. Stages(p)
      BY <1>1, <2>4 DEF BudgetInv, Stages
    <2>7. ASSUME rs_calm PROVE MemoryKept(h, o, p)
      <3>1. rs_proc.status.available # 0 /\ o.nodes = Nil => Ceilings(h, rs_proc)
        BY <1>1, <2>2, <2>7 DEF BudgetInv, MemoryKept
      <3>2. ASSUME p.status.available # 0, o.nodes = Nil
            PROVE  Ceilings(h, p)
        <4>1. PICK i \in Nat, j \in Nat :
                /\ h.memory = h.others + Budget!neural_memory_footprint(p.class, i, j)
                                + p.status.available
                /\ Room(h, p.status, p.class, i, j)
          BY <2>4, <3>1, <3>2 DEF Ceilings
        <4>2. PICK a \in Nat, b \in Nat : /\ p.status.max_nodes = Budget!LargerOf(1, i + a)
                                          /\ p.status.max_edges = Budget!LargerOf(1, j + b)
          BY <4>1 DEF Room
        <4>3. p.status.max_nodes # 0 /\ p.status.max_edges # 0
          BY <4>2, Larger
        <4>4. n <= p.status.max_nodes /\ e <= p.status.max_edges
          BY <1>6, <2>4, <4>3 DEF Budget!Within
        <4> QED
          BY <2>4, <4>1, <4>4 DEF Ceilings
      <3> QED
        BY <2>4, <3>2 DEF MemoryKept
    <2>8. ASSUME rs_calm PROVE DiskKept(h, o, w, m, p)
      <3>1. ASSUME o.page = Nil
            PROVE  /\ p.items * ObservationBytes + DiskReserve(o) <= FreeOn(h, w, m, "ledger")
                   /\ DiskReserve(o) <= FreeOn(h, w, m, "model")
        <4>1. /\ rs_proc.items * ObservationBytes + DiskReserve(o)
                   <= FreeOn(h, rs_written, m, "ledger")
              /\ DiskReserve(o) <= FreeOn(h, rs_written, m, "model")
          BY <1>1, <2>2, <2>8, <3>1 DEF BudgetInv, DiskKept
        <4>2. FreeOn(h, w, m, "model") = FreeOn(h, rs_written, m, "model")
          BY DEF FreeOn
        <4>3. PICK u \in Nat, D \in Nat, x \in Nat, r \in Nat :
                u = h.files["ledger"] /\ D = Disk /\ x = rs_written /\ r = DiskReserve(o)
          BY <1>3, <2>2, HostTyped, Settings, DiskIs
        <4>4. /\ FreeOn(h, rs_written, m, "ledger") = Budget!subtract_floor(D, u + x)
              /\ FreeOn(h, w, m, "ledger") = Budget!subtract_floor(D, u + (x + z))
          BY <1>1, <2>2, <4>3 DEF FreeOn
        <4>5. PICK i \in Nat, y \in Nat : i = p.items /\ y = i * ObservationBytes
          BY <2>4, Product, Settings DEF CommandType
        <4>6. rs_proc.items * ObservationBytes = y + ObservationBytes
          <5>1. rs_proc.items = i + 1
            BY <2>3, <2>4, <4>5
          <5>2. (i + 1) * ObservationBytes = i * ObservationBytes + 1 * ObservationBytes
            BY Product, Settings
          <5> QED
            BY <4>5, <5>1, <5>2, Settings, SMTT(60)
        <4>7. PICK B \in Nat : B = ObservationBytes /\ z <= B /\ B # 0
          BY Settings
        <4>8. PICK t \in Nat, v \in Nat : t = u + x /\ v = u + (x + z) /\ v = t + z
          BY <1>3
        <4>9. PICK s \in Nat : s = Budget!subtract_floor(D, t) /\ (s # 0 => D = t + s)
          BY Floors
        <4>10. (y + B) + r <= s
          BY <4>1, <4>3, <4>4, <4>6, <4>7, <4>8, <4>9
        <4>11. D = t + s /\ v <= D
          BY <1>3, <4>7, <4>8, <4>9, <4>10
        <4>12. Budget!subtract_floor(D, v) = D - v
          BY <4>11, Floors
        <4>13. y + r <= Budget!subtract_floor(D, v)
          BY <1>3, <4>7, <4>8, <4>10, <4>11, <4>12
        <4> QED
          BY <4>1, <4>2, <4>3, <4>4, <4>5, <4>8, <4>13
      <3> QED
        BY <3>1 DEF DiskKept
    <2>9. /\ rs_host' = h /\ rs_override' = o /\ rs_written' = w /\ rs_saved' = m
          /\ rs_calm' = rs_calm
      BY <1>1, <2>2
    <2>10. (rs_proc # Nil => Stages(rs_proc))'
      BY <2>1, <2>6, Zenon
    <2>11. (rs_proc # Nil /\ rs_calm =>
              /\ MemoryKept(rs_host, rs_override, rs_proc)
              /\ DiskKept(rs_host, rs_override, rs_written, rs_saved, rs_proc))'
      BY <2>1, <2>7, <2>8, <2>9, Zenon
    <2> QED
      BY <2>5, <2>10, <2>11 DEF BudgetInv
  <1> QED
    BY <1>2, <1>5, <1>6

LEMMA EndPageKeeps ==
  ASSUME BudgetInv, Budget!EndPage
  PROVE  BudgetInv'
  <1>1. /\ rs_proc # Nil /\ rs_proc.pc = "page"
        /\ UNCHANGED <<rs_host, rs_override, rs_written, rs_saved, rs_calm>>
    BY DEF Budget!EndPage
  <1>2. PICK p : p = rs_proc'
    OBVIOUS
  <1>3. rs_proc \in CommandType
    BY <1>1, CommandTyped DEF BudgetInv
  <1>4. /\ p \in CommandType
        /\ p.pc = "fetch" /\ p.class = rs_proc.class /\ p.extra = rs_proc.extra
        /\ p.nodes = rs_proc.nodes /\ p.edges = rs_proc.edges /\ p.status = rs_proc.status
    BY <1>2, <1>3 DEF CommandType, Budget!EndPage
  <1>5. Stages(p)
    BY <1>1, <1>4 DEF BudgetInv, Stages
  <1>6. rs_calm => MemoryKept(rs_host, rs_override, p)
    BY <1>1, <1>4 DEF BudgetInv, MemoryKept, Ceilings
  <1>7. DiskKept(rs_host, rs_override, rs_written, rs_saved, p)
    BY <1>4 DEF DiskKept
  <1> QED
    BY <1>1, <1>2, <1>4, <1>5, <1>6, <1>7, CommandStep

\* What is saved is a model.
LEMMA ModelTyped ==
  ASSUME BudgetInv, rs_proc # Nil, rs_proc.pc # "load", NEW k \in DOMAIN Classes
  PROVE  /\ Budget!Model \in [class : DOMAIN Classes, nodes : Nat, edges : Nat]
         /\ [Budget!Model EXCEPT !.class = k]
              \in [class : DOMAIN Classes, nodes : Nat, edges : Nat]
  <1>1. /\ rs_proc.class \in DOMAIN Classes /\ rs_proc.nodes \in Nat /\ rs_proc.edges \in Nat
    BY CommandTyped DEF BudgetInv, Stages
  <1> QED
    BY <1>1 DEF Budget!Model

LEMMA SaveKeeps ==
  ASSUME BudgetInv, Budget!Save
  PROVE  BudgetInv'
  <1>1. /\ rs_proc # Nil /\ rs_proc.pc = "fetch"
        /\ UNCHANGED <<rs_host, rs_override, rs_written, rs_calm>>
    BY DEF Budget!Save
  <1>2. CASE rs_proc' = Nil /\ rs_saved' = rs_saved
    <2>1. BudgetTyped'
      BY <1>1, <1>2 DEF BudgetInv, BudgetTyped
    <2> QED
      BY <1>2, <2>1, EndsKeeps
  <1>3. CASE rs_proc' = rs_proc /\ rs_saved' = Budget!Model
    <2>1. rs_proc.class \in DOMAIN Classes
      BY <1>1 DEF BudgetInv, Stages
    <2>2. rs_saved' \in [class : DOMAIN Classes, nodes : Nat, edges : Nat]
      BY <1>1, <1>3, <2>1, ModelTyped
    <2>3. BudgetTyped'
      BY <1>1, <1>3, <2>2 DEF BudgetInv, BudgetTyped
    <2>4. PICK h, o, p, w, m : /\ h = rs_host /\ o = rs_override /\ p = rs_proc
                               /\ w = rs_written /\ m = rs_saved'
      OBVIOUS
    <2>5. Stages(p) /\ (rs_calm => MemoryKept(h, o, p))
      BY <1>1, <2>4 DEF BudgetInv
    <2>6. DiskKept(h, o, w, m, p)
      BY <1>1, <2>4 DEF DiskKept
    <2>7. /\ rs_host' = h /\ rs_override' = o /\ rs_written' = w /\ rs_saved' = m
          /\ rs_proc' = p /\ rs_calm' = rs_calm
      BY <1>1, <1>3, <2>4
    <2>8. (rs_proc # Nil => Stages(rs_proc))'
      BY <2>5, <2>7, Zenon
    <2>9. (rs_proc # Nil /\ rs_calm =>
             /\ MemoryKept(rs_host, rs_override, rs_proc)
             /\ DiskKept(rs_host, rs_override, rs_written, rs_saved, rs_proc))'
      BY <2>5, <2>6, <2>7, Zenon
    <2> QED
      BY <2>3, <2>8, <2>9 DEF BudgetInv
  <1> QED
    BY <1>2, <1>3 DEF Budget!Save, Budget!Ends

\* Both networks are in memory while a class is swapped.
LEMMA ExpandKeeps ==
  ASSUME BudgetInv, Budget!Expand
  PROVE  BudgetInv'
  <1> DEFINE X == Budget!neural_memory_footprint(rs_proc.status.class, rs_proc.nodes,
                                                 rs_proc.edges)
  <1>1. /\ rs_proc # Nil /\ rs_proc.pc = "plan"
        /\ UNCHANGED <<rs_host, rs_override, rs_written, rs_saved, rs_calm>>
    BY DEF Budget!Expand
  <1>2. CASE rs_proc' = Nil
    <2>1. BudgetTyped'
      BY <1>1, <1>2 DEF BudgetInv, BudgetTyped
    <2> QED
      BY <1>2, <2>1, EndsKeeps
  <1>3. CASE /\ rs_proc.status.available # 0
             /\ Budget!NeuralFits(rs_proc.status, rs_proc.status.class, rs_proc.nodes,
                                  rs_proc.edges)
             /\ rs_proc' = [rs_proc EXCEPT !.pc = "swap", !.extra = X]
    <2>1. BudgetTyped
      BY DEF BudgetInv
    <2>2. PICK F \in Nat : F = X
      BY <1>1, <2>1, CommandTyped, Footprint
    <2>3. F <= rs_proc.status.headroom
      BY <1>3, <2>2 DEF Budget!NeuralFits
    <2>4. PICK p : p = rs_proc'
      OBVIOUS
    <2> HIDE DEF X
    <2>5. rs_proc \in CommandType
      BY <1>1, <2>1, CommandTyped
    <2>6. p = [rs_proc EXCEPT !.pc = "swap", !.extra = F]
      BY <1>3, <2>2, <2>4
    <2>7. /\ p \in CommandType
          /\ p.pc = "swap" /\ p.class = rs_proc.class /\ p.extra = F
          /\ p.nodes = rs_proc.nodes /\ p.edges = rs_proc.edges /\ p.status = rs_proc.status
      BY <2>5, <2>6 DEF CommandType
    <2>8. rs_proc.class \in DOMAIN Classes /\ rs_proc.extra = 0
      BY <1>1 DEF BudgetInv, Stages
    <2>9. Stages(p)
      BY <2>7, <2>8 DEF Stages
    <2>10. ASSUME rs_calm, p # Nil
           PROVE  LeftTo(rs_host, p) >= Budget!SmallerOf(ReserveOf(rs_host), p.status.available)
      <3>1. Measured(rs_host, rs_proc)
        BY <1>1, <2>10 DEF BudgetInv, MemoryKept
      <3>2. PICK K \in Nat : K = Budget!neural_memory_footprint(rs_proc.class, rs_proc.nodes,
                                                                rs_proc.edges)
        BY <1>1, <2>1, <2>8, CommandTyped, Footprint
      <3>3. rs_proc.class # Nil
        BY <2>8, Settings
      <3>4. HeldBy(rs_proc) = K + 0 /\ HeldBy(p) = K + F
        BY <1>1, <2>7, <2>8, <2>10, <3>2, <3>3 DEF HeldBy
      <3>5. PICK mem \in Nat, oth \in Nat, R \in Nat :
              mem = rs_host.memory /\ oth = rs_host.others /\ R = ReserveOf(rs_host)
        BY <2>1, HostTyped, MemoryIs
      <3>6. PICK used, avail : /\ used = oth + K /\ used \in Nat
                               /\ avail = p.status.available
        OBVIOUS
      <3>7. avail = Budget!subtract_floor(mem, used)
        BY <2>7, <3>1, <3>4, <3>5, <3>6 DEF Measured, LeftTo
      <3>8. F <= Budget!subtract_floor(avail, R)
        BY <2>3, <2>7, <3>1, <3>5, <3>6 DEF Measured
      <3>9. Budget!subtract_floor(mem, used + F) >= Budget!SmallerOf(R, avail)
        BY <1>3, <2>7, <3>6, <3>7, <3>8, TakenFits
      <3>10. oth + (K + F) = used + F
        BY <3>6
      <3> QED
        BY <3>4, <3>5, <3>6, <3>9, <3>10 DEF LeftTo
    <2>11. rs_calm /\ p # Nil => MemoryKept(rs_host, rs_override, p)
      BY <2>7, <2>10 DEF MemoryKept
    <2>12. DiskKept(rs_host, rs_override, rs_written, rs_saved, p)
      BY <2>7 DEF DiskKept
    <2> QED
      BY <1>1, <2>4, <2>7, <2>9, <2>11, <2>12, CommandStep
  <1> QED
    BY <1>2, <1>3 DEF Budget!Expand, Budget!Ends

LEMMA ExpandSaveKeeps ==
  ASSUME BudgetInv, Budget!ExpandSave
  PROVE  BudgetInv'
  <1>1. /\ rs_proc # Nil /\ rs_proc.pc = "swap" /\ rs_proc' = Nil
        /\ UNCHANGED <<rs_host, rs_override, rs_written, rs_calm>>
        /\ \/ rs_saved' = rs_saved
           \/ rs_saved' = [Budget!Model EXCEPT !.class = rs_proc.status.class]
    BY DEF Budget!ExpandSave, Budget!Ends
  <1>2. rs_proc.status.class \in DOMAIN Classes
    BY <1>1, CommandTyped DEF BudgetInv
  <1>3. [Budget!Model EXCEPT !.class = rs_proc.status.class]
          \in [class : DOMAIN Classes, nodes : Nat, edges : Nat]
    BY <1>1, <1>2, ModelTyped
  <1>4. BudgetTyped'
    BY <1>1, <1>3 DEF BudgetInv, BudgetTyped
  <1> QED
    BY <1>1, <1>4, EndsKeeps

LEMMA BudgetStep == BudgetInv /\ Budget!Next => BudgetInv'
  <1> SUFFICES ASSUME BudgetInv, Budget!Next PROVE BudgetInv'
    OBVIOUS
  <1>1. CASE \E c \in {"sync", "expand"} : Budget!Begin(c)
    BY <1>1, BudgetBegins
  <1>2. CASE \E g \in Growths, z \in {0, ObservationBytes} : Budget!Observe(g, z)
    BY <1>2, ObserveKeeps
  <1>3. CASE Budget!LoadRefused \/ Budget!Stop
    <2>1. rs_proc' = Nil /\ UNCHANGED <<rs_host, rs_override, rs_written, rs_saved>>
      BY <1>3 DEF Budget!LoadRefused, Budget!Stop, Budget!Ends
    <2>2. BudgetTyped'
      BY <2>1 DEF BudgetInv, BudgetTyped
    <2> QED
      BY <2>1, <2>2, EndsKeeps
  <1>4. CASE Budget!HostChanges
    <2>1. /\ rs_host' \in Hosts /\ rs_calm' = FALSE
          /\ UNCHANGED <<rs_override, rs_written, rs_saved, rs_proc>>
      BY <1>4 DEF Budget!HostChanges
    <2>2. BudgetTyped'
      BY <2>1 DEF BudgetInv, BudgetTyped
    <2>3. (rs_proc # Nil => Stages(rs_proc))'
      <3>1. PICK p : p = rs_proc /\ p = rs_proc'
        BY <2>1
      <3>2. p # Nil => Stages(p)
        BY <3>1 DEF BudgetInv
      <3> QED
        BY <3>1, <3>2, Zenon
    <2> QED
      BY <2>1, <2>2, <2>3 DEF BudgetInv
  <1> QED
    BY <1>1, <1>2, <1>3, <1>4, LoadKeeps, CreateKeeps, RefreshKeeps, FetchKeeps, EndPageKeeps,
       SaveKeeps, ExpandKeeps, ExpandSaveKeeps DEF Budget!Next

LEMMA BudgetStutter == BudgetInv /\ UNCHANGED resource_vars => BudgetInv'
  <1> SUFFICES ASSUME BudgetInv, UNCHANGED resource_vars PROVE BudgetInv'
    OBVIOUS
  <1>1. UNCHANGED <<rs_host, rs_override, rs_written, rs_saved, rs_proc, rs_calm>>
    BY DEF resource_vars
  <1>2. BudgetTyped'
    BY <1>1 DEF BudgetInv, BudgetTyped
  <1>3. CASE rs_proc = Nil
    BY <1>1, <1>2, <1>3, EndsKeeps
  <1>4. CASE rs_proc # Nil
    <2>1. PICK p : p = rs_proc /\ p = rs_proc'
      BY <1>1
    <2>2. p \in CommandType /\ Stages(p) /\ rs_calm' = rs_calm
      BY <1>1, <1>4, <2>1, CommandTyped DEF BudgetInv
    <2>3. rs_calm => /\ MemoryKept(rs_host, rs_override, p)
                     /\ DiskKept(rs_host, rs_override, rs_written, rs_saved, p)
      BY <1>4, <2>1, Zenon DEF BudgetInv
    <2> QED
      BY <1>1, <2>1, <2>2, <2>3, CommandStep
  <1> QED
    BY <1>3, <1>4

LEMMA BudgetHolds == PlatformSpec => [](side = "resources" => BudgetInv)
  <1> DEFINE Inv == side = "resources" => BudgetInv
  <1>1. PlatformInit => Inv
    BY BudgetStarts DEF PlatformInit
  <1>2. Inv /\ [PlatformNext]_platform_vars => Inv'
    <2> SUFFICES ASSUME Inv, side' = "resources",
                        [PlatformNext]_platform_vars
                 PROVE  BudgetInv'
      OBVIOUS
    <2>1. \/ side = "resources" /\ Budget!Next
          \/ side = "resources" /\ UNCHANGED resource_vars
      BY DEF PlatformNext, LockNext, JetstreamNext, MigrationNext, ResourcesNext, platform_vars
    <2> QED
      BY <2>1, BudgetStep, BudgetStutter
  <1> QED
    BY <1>1, <1>2, PTL DEF PlatformSpec

\* Where the command is, what it holds leaves the reserve, or what there was.
LEMMA MemoryLeft ==
  ASSUME BudgetInv, rs_calm, rs_proc # Nil, rs_proc.class # Nil,
         rs_proc.status.available # 0, rs_override.nodes = Nil
  PROVE  Budget!Available + Budget!Slack
           >= Budget!SmallerOf(ReserveOf(rs_host), rs_proc.status.available)
  <1>1. BudgetTyped /\ Stages(rs_proc) /\ MemoryKept(rs_host, rs_override, rs_proc)
    BY DEF BudgetInv
  <1>2. rs_proc.pc # "load" /\ rs_proc.class \in DOMAIN Classes
    BY <1>1 DEF Stages
  <1>3. PICK A \in Nat, R \in Nat, V \in Nat :
          A = Budget!Available /\ R = ReserveOf(rs_host) /\ V = rs_proc.status.available
    BY <1>1, MemoryIs, CommandTyped
  <1>4. A = LeftTo(rs_host, rs_proc)
    BY <1>1, <1>3, MemoryIs
  <1>5. PICK S \in Nat : S = Budget!SmallerOf(R, V) /\ S <= V
    BY Smaller
  <1>6. PICK k \in DOMAIN Classes : k = rs_proc.class
    BY <1>2
  <1>7. PICK slack \in Nat :
          /\ slack = Budget!Slack
          /\ rs_proc.nodes <= 1 \/ rs_proc.edges <= 1 => slack = Classes[k].node + EdgeBytes
    <2>1. Classes[k].node \in Nat /\ EdgeBytes \in Nat
      BY ClassTyped, Settings
    <2> QED
      BY <1>6, <2>1 DEF Budget!Slack
  <1>8. CASE rs_proc.pc = "plan"
    <2>1. V = A
      BY <1>1, <1>3, <1>4, <1>8 DEF MemoryKept, Measured
    <2>2. A + slack >= S
      BY <1>5, <2>1
    <2> QED
      BY <1>3, <1>5, <1>7, <2>2
  <1>9. CASE rs_proc.pc \in {"refresh", "swap"}
    <2>1. A >= S
      BY <1>1, <1>3, <1>4, <1>5, <1>9 DEF MemoryKept
    <2>2. A + slack >= S
      BY <2>1
    <2> QED
      BY <1>3, <1>5, <1>7, <2>2
  <1>10. CASE rs_proc.pc \in {"fetch", "page"}
    <2>1. Ceilings(rs_host, rs_proc)
      BY <1>1, <1>10 DEF MemoryKept
    <2>2. PICK i \in Nat, j \in Nat : i = rs_proc.nodes /\ j = rs_proc.edges
      BY <1>1, CommandTyped
    <2>3. /\ i <= rs_proc.status.max_nodes /\ j <= rs_proc.status.max_edges
      BY <2>1, <2>2 DEF Ceilings
    <2>4. PICK n \in Nat, e \in Nat :
            /\ rs_host.memory = rs_host.others + Budget!neural_memory_footprint(k, n, e) + V
            /\ Room(rs_host, rs_proc.status, k, n, e)
      BY <1>3, <1>6, <2>1 DEF Ceilings
    <2>5. PICK a \in Nat, b \in Nat :
            /\ rs_proc.status.max_nodes = Budget!LargerOf(1, n + a)
            /\ rs_proc.status.max_edges = Budget!LargerOf(1, e + b)
            /\ V # 0 => a * Classes[k].node + b * EdgeBytes + Budget!SmallerOf(R, V) <= V
      BY <1>3, <2>4, Zenon DEF Room
    <2>6. PICK F \in Nat, G \in Nat : /\ F = Budget!neural_memory_footprint(k, n, e)
                                      /\ G = Budget!neural_memory_footprint(k, i, j)
      BY Footprint
    <2>7. PICK t \in Nat : t = a * Classes[k].node + b * EdgeBytes
      <3>1. a * Classes[k].node \in Nat /\ b * EdgeBytes \in Nat
        BY Product, ClassTyped, Settings
      <3> QED
        BY <3>1
    <2>8. i <= Budget!LargerOf(1, n + a) /\ j <= Budget!LargerOf(1, e + b)
      BY <2>3, <2>5
    <2>9. i <= 1 \/ j <= 1 => slack = Classes[k].node + EdgeBytes
      BY <1>7, <2>2
    <2>10. G <= F + t + slack
      BY <2>6, <2>7, <2>8, <2>9, GrownFits
    <2>11. t + S <= V
      BY <1>3, <1>5, <2>5, <2>7
    <2>12. HeldBy(rs_proc) = G
      <3>1. rs_proc.extra = 0
        BY <1>1, <1>10 DEF Stages
      <3> QED
        BY <1>6, <2>2, <2>6, <3>1 DEF HeldBy
    <2>13. PICK mem \in Nat, oth \in Nat : mem = rs_host.memory /\ oth = rs_host.others
      BY <1>1, HostTyped
    <2>14. mem = oth + F + V
      BY <2>4, <2>6, <2>13
    <2>15. A = Budget!subtract_floor(mem, oth + G)
      BY <1>4, <2>12, <2>13 DEF LeftTo
    <2>16. A >= mem - (oth + G)
      BY <2>15 DEF Budget!subtract_floor
    <2>17. A + slack >= S
      BY <2>10, <2>11, <2>14, <2>16
    <2> QED
      BY <1>3, <1>5, <1>7, <2>17
  <1> QED
    BY <1>1, <1>2, <1>8, <1>9, <1>10, CommandTyped DEF CommandType

\* The reserve is kept for every host, environment, table of classes and schedule of
\* other processes: what a measured budget admits fits beside it
\* (derive_resource_budget, load_or_create_graph, run_neural_expand, fetch_page).
THEOREM ReserveIsKept == PlatformSpec => []BudgetKeepsReserve
  <1>1. (side = "resources" => BudgetInv) => BudgetKeepsReserve
    <2> SUFFICES ASSUME BudgetInv, rs_calm, rs_proc # Nil, rs_proc.class # Nil
                 PROVE  /\ rs_proc.status.available # 0 /\ rs_override.nodes = Nil =>
                             Budget!Available + Budget!Slack >=
                               Budget!SmallerOf(Budget!automatic_memory_reserve(rs_host.memory),
                                                rs_proc.status.available)
                        /\ rs_proc.pc = "page" /\ rs_override.page = Nil =>
                             \A f \in Budget!Filesystems : Budget!Free(f) >= Budget!disk_reserve
      BY Zenon DEF BudgetKeepsReserve, Budget!BudgetKeepsReserve
    <2>1. rs_proc.status.available # 0 /\ rs_override.nodes = Nil =>
            Budget!Available + Budget!Slack >=
              Budget!SmallerOf(Budget!automatic_memory_reserve(rs_host.memory),
                               rs_proc.status.available)
      BY MemoryLeft DEF ReserveOf
    <2>2. ASSUME rs_proc.pc = "page", rs_override.page = Nil,
                 NEW f \in {"model", "ledger"}
          PROVE  Budget!Free(f) >= Budget!disk_reserve
      <3>1. BudgetTyped /\ DiskKept(rs_host, rs_override, rs_written, rs_saved, rs_proc)
        BY DEF BudgetInv
      <3>2. PICK r \in Nat, x \in Nat, y \in Nat :
              /\ r = DiskReserve(rs_override) /\ r = Budget!disk_reserve
              /\ x = Budget!Free("ledger")
              /\ x = FreeOn(rs_host, rs_written, rs_saved, "ledger")
              /\ y = Budget!Free("model")
              /\ y = FreeOn(rs_host, rs_written, rs_saved, "model")
        BY <3>1, DiskIs
      <3>3. rs_proc.items * ObservationBytes + r <= x /\ r <= y
        BY <2>2, <3>1, <3>2 DEF DiskKept
      <3>4. rs_proc.items * ObservationBytes \in Nat
        BY <3>1, CommandTyped, Product, Settings
      <3>5. r <= x /\ r <= y
        BY <3>3, <3>4
      <3> QED
        BY <2>2, <3>2, <3>5
    <2> QED
      BY <2>1, <2>2 DEF Budget!Filesystems
  <1> QED
    BY <1>1, BudgetHolds, PTL
---------------------------------------------------------------------------
(* The upgrade: what was read is the history of the records read. *)

LegacyRecord ==
  [type : {"entry", "patch"}, id : Nat, outcome : {"pending", "learned", "withdrawn"},
   text : BOOLEAN, intact : BOOLEAN]

MarkerType == [version : {1, 2}, covers : Nat]

\* What an older program leaves: its records are in order.
InOrder(r) ==
  \A i \in DOMAIN r : IF r[i].type = "entry" THEN r[i].id = Upgrade!EntriesBefore(r, i) + 1
                      ELSE r[i].id \in 1..Upgrade!EntriesBefore(r, i)

Legacies ==
  {o \in [log : [version : {1, 2}, records : Seq(LegacyRecord)], marker : MarkerType \cup {Nil}] :
     /\ InOrder(o.log.records)
     /\ o.marker # Nil => o.marker \in MarkerType /\ o.marker.version = o.log.version}

\* The instance's counting is the library's.
LEMMA Counting == \A S : Upgrade!Cardinality(S) = Cardinality(S)
  BY DEF Cardinality, Upgrade!Cardinality

LEMMA CountIs ==
  ASSUME NEW r, NEW n \in Nat \ {0}
  PROVE  /\ Upgrade!EntriesBefore(r, n) \in Nat
         /\ n = 1 => Upgrade!EntriesBefore(r, n) = 0
         /\ r[n].type = "entry" =>
              Upgrade!EntriesBefore(r, n + 1) = Upgrade!EntriesBefore(r, n) + 1
         /\ r[n].type # "entry" =>
              Upgrade!EntriesBefore(r, n + 1) = Upgrade!EntriesBefore(r, n)
  <1> DEFINE S == {k \in 1..(n - 1) : r[k].type = "entry"}
             T == {k \in 1..((n + 1) - 1) : r[k].type = "entry"}
  <1>0. \A m : Upgrade!EntriesBefore(r, m) = Cardinality({k \in 1..(m - 1) : r[k].type = "entry"})
    BY Counting DEF Upgrade!EntriesBefore
  <1>1. /\ Upgrade!EntriesBefore(r, n) = Cardinality(S)
        /\ Upgrade!EntriesBefore(r, n + 1) = Cardinality(T)
    BY <1>0
  <1>2. n \notin S /\ (n = 1 => S = {})
    OBVIOUS
  <1>3. (r[n].type = "entry" => T = S \cup {n}) /\ (r[n].type # "entry" => T = S)
    OBVIOUS
  <1>4. IsFiniteSet(S)
    <2>1. IsFiniteSet(1..(n - 1))
      BY FS_Interval
    <2> QED
      BY <2>1, FS_Subset
  <1> HIDE DEF S, T
  <1>5. Cardinality(S) \in Nat /\ Cardinality({}) = 0
    BY <1>4, FS_CardinalityType, FS_EmptySet
  <1>6. Cardinality(S \cup {n}) = Cardinality(S) + 1
    BY <1>2, <1>4, FS_AddElement
  <1> QED
    BY <1>1, <1>2, <1>3, <1>5, <1>6

LEMMA LegacyTyped ==
  ASSUME NEW v \in {1, 2}, NEW r \in Upgrade!RecordsOf(v)
  PROVE  r \in LegacyRecord /\ r.id >= 1
  <1>1. LegacyRecords \in Nat
    BY PlatformAssumption DEF Upgrade!MigrationAssumption
  <1>2. CASE \E id \in Upgrade!Ids, text \in BOOLEAN : r = Upgrade!EntryOf(id, text)
    <2>1. PICK id \in Upgrade!Ids, text \in BOOLEAN : r = Upgrade!EntryOf(id, text)
      BY <1>2
    <2>2. PICK yes \in BOOLEAN : yes = TRUE
      OBVIOUS
    <2>3. r = [type |-> "entry", id |-> id, outcome |-> "pending", text |-> text,
               intact |-> yes]
      BY <2>1, <2>2 DEF Upgrade!EntryOf
    <2>4. id \in Nat /\ id >= 1
      BY <1>1 DEF Upgrade!Ids
    <2> QED
      BY <2>3, <2>4 DEF LegacyRecord
  <1>3. CASE \E id \in Upgrade!Ids, o \in {"learned", "withdrawn"} : r = Upgrade!PatchOf(id, o)
    <2>1. PICK id \in Upgrade!Ids, o \in {"learned", "withdrawn"} : r = Upgrade!PatchOf(id, o)
      BY <1>3
    <2>2. PICK yes \in BOOLEAN, no \in BOOLEAN : yes = TRUE /\ no = FALSE
      OBVIOUS
    <2>3. r = [type |-> "patch", id |-> id, outcome |-> o, text |-> no, intact |-> yes]
      BY <2>1, <2>2 DEF Upgrade!PatchOf
    <2>4. id \in Nat /\ id >= 1
      BY <1>1 DEF Upgrade!Ids
    <2> QED
      BY <2>3, <2>4 DEF LegacyRecord
  <1>4. Upgrade!TextsOf(v) \subseteq BOOLEAN
    BY DEF Upgrade!TextsOf
  <1> QED
    BY <1>2, <1>3, <1>4 DEF Upgrade!RecordsOf

\* Damage leaves the order as it is.
LEMMA OriginalTyped == Upgrade!Init => mg_original \in Legacies
  <1> SUFFICES ASSUME Upgrade!Init PROVE mg_original \in Legacies
    OBVIOUS
  <1>0. PICK v \in {1, 2} :
          \E s \in {q \in Upgrade!BoundedSeq(Upgrade!RecordsOf(v), LegacyRecords) :
                      Upgrade!Sound(q)} :
            /\ mg_log \in {[version |-> v, records |-> r] : r \in Upgrade!Damaged(s)}
            /\ mg_marker \in {[version |-> v, covers |-> n] : n \in 0..(Len(s) + 1)} \cup {Nil}
    BY DEF Upgrade!Init, Upgrade!Legacy
  <1>1. PICK s \in Upgrade!BoundedSeq(Upgrade!RecordsOf(v), LegacyRecords) :
          /\ Upgrade!Sound(s)
          /\ mg_log \in {[version |-> v, records |-> r] : r \in Upgrade!Damaged(s)}
          /\ mg_marker \in {[version |-> v, covers |-> n] : n \in 0..(Len(s) + 1)} \cup {Nil}
    BY <1>0
  <1>2. PICK m \in 0..LegacyRecords : s \in [1..m -> Upgrade!RecordsOf(v)]
    BY <1>1 DEF Upgrade!BoundedSeq, Upgrade!SeqOf
  <1>3. \A i \in 1..m : s[i] \in LegacyRecord /\ s[i].id >= 1
    BY <1>2, LegacyTyped
  <1>4. m \in Nat /\ s \in Seq(LegacyRecord) /\ Len(s) = m /\ DOMAIN s = 1..m
    <2>1. LegacyRecords \in Nat
      BY PlatformAssumption DEF Upgrade!MigrationAssumption
    <2>2. m \in Nat /\ s \in [1..m -> LegacyRecord]
      BY <1>2, <1>3, <2>1
    <2> QED
      BY <2>2
  <1>5. PICK r \in Upgrade!Damaged(s) : mg_log = [version |-> v, records |-> r]
    BY <1>1
  <1>6. /\ r \in Seq(LegacyRecord) /\ DOMAIN r = 1..m
        /\ \A i \in 1..m : r[i].type = s[i].type /\ r[i].id = s[i].id
    <2>1. CASE r = s
      BY <1>4, <2>1
    <2>2. CASE \E i \in DOMAIN s : r = [s EXCEPT ![i].intact = FALSE]
      <3>1. PICK i \in 1..m : r = [s EXCEPT ![i].intact = FALSE]
        BY <1>4, <2>2
      <3>2. PICK no \in BOOLEAN : no = FALSE
        OBVIOUS
      <3>3. PICK q : q = [s[i] EXCEPT !.intact = no]
        OBVIOUS
      <3>4. q \in LegacyRecord /\ q.type = s[i].type /\ q.id = s[i].id
        BY <1>3, <3>1, <3>3 DEF LegacyRecord
      <3>5. r = [s EXCEPT ![i] = q]
        BY <3>1, <3>2, <3>3
      <3>6. r \in [1..m -> LegacyRecord]
        BY <1>3, <1>4, <3>4, <3>5
      <3> QED
        BY <1>4, <3>1, <3>4, <3>5, <3>6
    <2> QED
      BY <2>1, <2>2 DEF Upgrade!Damaged
  <1>7. InOrder(r)
    <2>1. SUFFICES ASSUME NEW i \in 1..m
                   PROVE  IF r[i].type = "entry" THEN r[i].id = Upgrade!EntriesBefore(r, i) + 1
                          ELSE r[i].id \in 1..Upgrade!EntriesBefore(r, i)
      BY <1>6 DEF InOrder
    <2>2. {k \in 1..(i - 1) : r[k].type = "entry"} = {k \in 1..(i - 1) : s[k].type = "entry"}
      BY <1>4, <1>6
    <2>3. PICK c : c = Upgrade!EntriesBefore(r, i)
      OBVIOUS
    <2>4. IF s[i].type = "entry" THEN s[i].id = c + 1 ELSE s[i].id <= c
      <3>1. c = Upgrade!EntriesBefore(s, i)
        BY <2>2, <2>3 DEF Upgrade!EntriesBefore
      <3> QED
        BY <1>1, <1>4, <3>1 DEF Upgrade!Sound
    <2>5. c \in Nat
      BY <2>3, CountIs
    <2>6. s[i].id \in Nat /\ s[i].id >= 1 /\ r[i].id = s[i].id /\ r[i].type = s[i].type
      BY <1>3, <1>6 DEF LegacyRecord
    <2> QED
      BY <2>3, <2>4, <2>5, <2>6
  <1>8. mg_marker # Nil => mg_marker \in MarkerType /\ mg_marker.version = v
    BY <1>1, <1>4 DEF MarkerType
  <1>9. mg_original = [log |-> [version |-> v, records |-> r], marker |-> mg_marker]
    BY <1>5 DEF Upgrade!Init
  <1> QED
    BY <1>6, <1>7, <1>8, <1>9 DEF Legacies

\* The list keeps being what the records read so far say.
LEMMA EntryRestores ==
  ASSUME NEW r \in Seq(LegacyRecord), NEW list \in Seq(LegacyRecord),
         NEW n \in Nat, n + 1 \in DOMAIN r, Upgrade!Restores(list, r, n), NEW e, e = r[n + 1],
         e.type = "entry", e.id = Len(list) + 1
  PROVE  Upgrade!Restores(Append(list, e), r, n + 1)
  <1> DEFINE new == Append(list, e)
  <1>1. /\ \A i \in 1..n : r[i].type = "entry" => r[i].id \in DOMAIN list
        /\ \A id \in DOMAIN list :
             \E i \in 1..n, j \in 1..n :
               /\ r[i].type = "entry" /\ r[i].id = id
               /\ r[j].id = id /\ \A k \in (j + 1)..n : r[k].id # id
               /\ list[id] = [r[i] EXCEPT !.outcome = r[j].outcome]
    BY DEF Upgrade!Restores
  <1>2. e \in LegacyRecord
    OBVIOUS
  <1>3. /\ DOMAIN new = 1..(Len(list) + 1) /\ DOMAIN list = 1..Len(list) /\ Len(list) \in Nat
        /\ \A id \in DOMAIN list : new[id] = list[id]
        /\ new[Len(list) + 1] = e
    BY <1>2
  <1>4. r[n + 1] = e
    OBVIOUS
  <1> HIDE DEF new
  <1>5. ASSUME NEW i \in 1..(n + 1), r[i].type = "entry" PROVE r[i].id \in DOMAIN new
    BY <1>1, <1>3, <1>4, <1>5
  <1>6. ASSUME NEW id \in DOMAIN new
        PROVE  \E i \in 1..(n + 1), j \in 1..(n + 1) :
                 /\ r[i].type = "entry" /\ r[i].id = id
                 /\ r[j].id = id /\ \A k \in (j + 1)..(n + 1) : r[k].id # id
                 /\ new[id] = [r[i] EXCEPT !.outcome = r[j].outcome]
    <2>1. CASE id \in DOMAIN list
      <3>1. PICK i \in 1..n, j \in 1..n :
               /\ r[i].type = "entry" /\ r[i].id = id
               /\ r[j].id = id /\ \A k \in (j + 1)..n : r[k].id # id
               /\ list[id] = [r[i] EXCEPT !.outcome = r[j].outcome]
        BY <1>1, <2>1
      <3>2. \A k \in (j + 1)..(n + 1) : r[k].id # id
        BY <1>3, <1>4, <2>1, <3>1
      <3>3. new[id] = [r[i] EXCEPT !.outcome = r[j].outcome]
        BY <1>3, <2>1, <3>1
      <3>4. i \in 1..(n + 1) /\ j \in 1..(n + 1)
        OBVIOUS
      <3> QED
        BY <3>1, <3>2, <3>3, <3>4, Zenon
    <2>2. CASE id = Len(list) + 1
      <3>1. /\ n + 1 \in 1..(n + 1) /\ r[n + 1].type = "entry" /\ r[n + 1].id = id
            /\ \A k \in ((n + 1) + 1)..(n + 1) : r[k].id # id
        BY <1>4, <2>2
      <3>2. new[id] = [r[n + 1] EXCEPT !.outcome = r[n + 1].outcome]
        BY <1>2, <1>3, <1>4, <2>2 DEF LegacyRecord
      <3> QED
        BY <3>1, <3>2, Zenon
    <2>3. id \in DOMAIN list \/ id = Len(list) + 1
      BY <1>3
    <2> QED
      BY <2>1, <2>2, <2>3, Zenon
  <1>7. /\ \A i \in 1..(n + 1) : r[i].type = "entry" => r[i].id \in DOMAIN new
        /\ \A id \in DOMAIN new :
             \E i \in 1..(n + 1), j \in 1..(n + 1) :
               /\ r[i].type = "entry" /\ r[i].id = id
               /\ r[j].id = id /\ \A k \in (j + 1)..(n + 1) : r[k].id # id
               /\ new[id] = [r[i] EXCEPT !.outcome = r[j].outcome]
    BY <1>5, <1>6, Zenon
  <1> QED
    BY <1>7, Zenon DEF Upgrade!Restores, new

LEMMA PatchRestores ==
  ASSUME NEW r \in Seq(LegacyRecord), NEW list \in Seq(LegacyRecord),
         NEW n \in Nat, n + 1 \in DOMAIN r, Upgrade!Restores(list, r, n), NEW e, e = r[n + 1],
         e.type # "entry", e.id \in DOMAIN list
  PROVE  Upgrade!Restores([list EXCEPT ![e.id].outcome = e.outcome], r, n + 1)
  <1> DEFINE new == [list EXCEPT ![e.id].outcome = e.outcome]
  <1>1. /\ \A i \in 1..n : r[i].type = "entry" => r[i].id \in DOMAIN list
        /\ \A id \in DOMAIN list :
             \E i \in 1..n, j \in 1..n :
               /\ r[i].type = "entry" /\ r[i].id = id
               /\ r[j].id = id /\ \A k \in (j + 1)..n : r[k].id # id
               /\ list[id] = [r[i] EXCEPT !.outcome = r[j].outcome]
    BY DEF Upgrade!Restores
  <1>2. \A i \in 1..(n + 1) : r[i] \in LegacyRecord
    OBVIOUS
  <1>3. /\ DOMAIN new = DOMAIN list
        /\ \A id \in DOMAIN list : id # e.id => new[id] = list[id]
        /\ new[e.id] = [list[e.id] EXCEPT !.outcome = e.outcome]
    OBVIOUS
  <1>4. r[n + 1] = e
    OBVIOUS
  <1> HIDE DEF new
  <1>5. ASSUME NEW i \in 1..(n + 1), r[i].type = "entry" PROVE r[i].id \in DOMAIN new
    <2>1. i # n + 1
      BY <1>4, <1>5
    <2>2. i \in 1..n
      BY <2>1
    <2>3. r[i].id \in DOMAIN list
      BY <1>1, <1>5, <2>2, Zenon
    <2> QED
      BY <1>3, <2>3, Zenon
  <1>6. ASSUME NEW id \in DOMAIN new
        PROVE  \E i \in 1..(n + 1), j \in 1..(n + 1) :
                 /\ r[i].type = "entry" /\ r[i].id = id
                 /\ r[j].id = id /\ \A k \in (j + 1)..(n + 1) : r[k].id # id
                 /\ new[id] = [r[i] EXCEPT !.outcome = r[j].outcome]
    <2>0. id \in DOMAIN list
      BY <1>3
    <2>1. PICK i \in 1..n, j \in 1..n :
             /\ r[i].type = "entry" /\ r[i].id = id
             /\ r[j].id = id /\ \A k \in (j + 1)..n : r[k].id # id
             /\ list[id] = [r[i] EXCEPT !.outcome = r[j].outcome]
      BY <1>1, <2>0
    <2>2. i \in 1..(n + 1) /\ j \in 1..(n + 1) /\ n + 1 \in 1..(n + 1)
      OBVIOUS
    <2>3. CASE id # e.id
      <3>1. \A k \in (j + 1)..(n + 1) : r[k].id # id
        BY <1>4, <2>1, <2>3
      <3>2. new[id] = [r[i] EXCEPT !.outcome = r[j].outcome]
        BY <1>3, <2>1, <2>3
      <3> QED
        BY <2>1, <2>2, <3>1, <3>2, Zenon
    <2>4. CASE id = e.id
      <3>1. r[n + 1].id = id /\ \A k \in ((n + 1) + 1)..(n + 1) : r[k].id # id
        BY <1>4, <2>4
      <3>2. new[id] = [r[i] EXCEPT !.outcome = r[n + 1].outcome]
        <4>1. r[i] \in LegacyRecord
          BY <1>2, <2>2
        <4>2. new[id] = [list[id] EXCEPT !.outcome = r[n + 1].outcome]
          BY <1>3, <1>4, <2>4
        <4> QED
          BY <2>1, <4>1, <4>2 DEF LegacyRecord
      <3> QED
        BY <2>1, <2>2, <3>1, <3>2, Zenon
    <2> QED
      BY <2>3, <2>4
  <1>7. /\ \A i \in 1..(n + 1) : r[i].type = "entry" => r[i].id \in DOMAIN new
        /\ \A id \in DOMAIN new :
             \E i \in 1..(n + 1), j \in 1..(n + 1) :
               /\ r[i].type = "entry" /\ r[i].id = id
               /\ r[j].id = id /\ \A k \in (j + 1)..(n + 1) : r[k].id # id
               /\ new[id] = [r[i] EXCEPT !.outcome = r[j].outcome]
    BY <1>5, <1>6, Zenon
  <1> QED
    BY <1>7, Zenon DEF Upgrade!Restores, new

LEMMA CoveredIs ==
  ASSUME NEW l, NEW m, Len(l.records) \in Nat, NEW k \in 0..Len(l.records),
         \A i \in 1..k : l.records[i].intact,
         k < Len(l.records) => ~l.records[k + 1].intact, ~Upgrade!Fenced(l, m)
  PROVE  Upgrade!Covered(l, m) = k
  <1> DEFINE r == l.records
             P(c) == (\A i \in 1..c : r[i].intact) /\ (c < Len(r) => ~r[c + 1].intact)
  <1>1. P(k)
    OBVIOUS
  <1>2. ASSUME NEW c \in 0..Len(r), P(c) PROVE c = k
    <2>1. ~(c < k)
      BY <1>2
    <2>2. ~(k < c)
      BY <1>2
    <2> QED
      BY <2>1, <2>2
  <1>3. Upgrade!Covered(l, m) = CHOOSE c \in 0..Len(r) : P(c)
    BY DEF Upgrade!Covered
  <1> HIDE DEF P
  <1>4. (CHOOSE c \in 0..Len(r) : P(c)) = k
    BY <1>1, <1>2
  <1> QED
    BY <1>3, <1>4

\* A list of entries as the current format has them.
Plain(list) ==
  /\ list \in Seq(LegacyRecord)
  /\ \A i \in 1..Len(list) : list[i].type = "entry" /\ list[i].id = i /\ list[i].intact

LEMMA RestoredPlain ==
  ASSUME NEW r \in Seq(LegacyRecord), NEW list \in Seq(LegacyRecord), NEW n \in Nat,
         n <= Len(r), Upgrade!Restores(list, r, n), \A i \in 1..n : r[i].intact
  PROVE  Plain(list)
  <1> SUFFICES ASSUME NEW id \in 1..Len(list)
               PROVE  list[id].type = "entry" /\ list[id].id = id /\ list[id].intact
    BY DEF Plain
  <1>0. id \in DOMAIN list
    OBVIOUS
  <1>a. \A x \in DOMAIN list :
          \E i \in 1..n, j \in 1..n :
            /\ r[i].type = "entry" /\ r[i].id = x
            /\ r[j].id = x /\ \A k \in (j + 1)..n : r[k].id # x
            /\ list[x] = [r[i] EXCEPT !.outcome = r[j].outcome]
    BY Zenon DEF Upgrade!Restores
  <1>1. PICK i \in 1..n, j \in 1..n :
          /\ r[i].type = "entry" /\ r[i].id = id
          /\ list[id] = [r[i] EXCEPT !.outcome = r[j].outcome]
    BY <1>0, <1>a
  <1>2. r[i] \in LegacyRecord /\ r[i].intact
    OBVIOUS
  <1> QED
    BY <1>1, <1>2 DEF LegacyRecord

\* What the upgrade has to find, and has found.
Recovered(list) ==
  LET l == mg_original.log
      m == mg_original.marker
  IN /\ Upgrade!Readable(l, m)
     /\ Upgrade!Restores(list, l.records, Upgrade!Covered(l, m))
     /\ Plain(list)

ReadSoFar(l, m, at, list) ==
  /\ Upgrade!Fence(l, m) <= Len(l.records) /\ at \in 1..(Upgrade!Fence(l, m) + 1)
  /\ \A i \in 1..(at - 1) : l.records[i].intact
  /\ Upgrade!Restores(list, l.records, at - 1)
  /\ list \in Seq(LegacyRecord) /\ Len(list) = Upgrade!EntriesBefore(l.records, at)

\* Until the rename, the older program's files stand as they were.
Before ==
  /\ mg_log = mg_original.log /\ mg_marker = mg_original.marker
  /\ mg_pc \in {"closed", "refused", "read", "write", "rename"}
  /\ mg_pc = "refused" => ~Upgrade!Readable(mg_original.log, mg_original.marker)
  /\ mg_pc = "read" => ReadSoFar(mg_log, mg_marker, mg_at, mg_entries)
  /\ mg_pc \in {"write", "rename"} => Recovered(mg_entries)
  /\ mg_pc = "rename" => mg_tmp = [version |-> Upgrade!Current, records |-> mg_entries]

\* After it, the log is what was found, and reading it is reading the whole of it.
After ==
  LET r == mg_log.records
  IN /\ mg_log = [version |-> Upgrade!Current, records |-> r] /\ Recovered(r)
     /\ mg_marker \in {Nil, mg_original.marker,
                       [version |-> Upgrade!Current, covers |-> Len(r), count |-> Len(r)]}
     /\ mg_pc \in {"closed", "remove", "recover", "mark", "open"}
     /\ mg_pc \in {"recover", "mark"} =>
          /\ mg_at \in 1..(Len(r) + 1) /\ mg_entries = SubSeq(r, 1, mg_at - 1)
     /\ mg_pc = "mark" => mg_at = Len(r) + 1
     /\ mg_pc = "open" => mg_entries = r

UpgradeInv == mg_original \in Legacies /\ (Before \/ After)

\* Nothing an older program left makes a sound record unacceptable.
LEMMA AcceptableIs ==
  ASSUME NEW r \in Seq(LegacyRecord), InOrder(r), NEW at \in DOMAIN r,
         NEW list \in Seq(LegacyRecord), Len(list) = Upgrade!EntriesBefore(r, at)
  PROVE  Upgrade!Acceptable(list, r[at]) <=> r[at].intact
  <1>1. PICK n \in Nat : n = Upgrade!EntriesBefore(r, at) /\ n = Len(list)
    OBVIOUS
  <1>2. IF r[at].type = "entry" THEN r[at].id = n + 1 ELSE r[at].id \in 1..n
    BY <1>1 DEF InOrder
  <1>3. DOMAIN list = 1..n
    BY <1>1
  <1> QED
    BY <1>1, <1>2, <1>3 DEF Upgrade!Acceptable

LEMMA ReadsIs ==
  ASSUME NEW l, NEW m, NEW f \in Nat, f = Upgrade!Fence(l, m), f <= Len(l.records),
         NEW at \in 1..f, \A i \in 1..at : l.records[i].intact,
         NEW list \in Seq(LegacyRecord), Upgrade!Restores(list, l.records, at),
         Len(list) = Upgrade!EntriesBefore(l.records, at + 1)
  PROVE  ReadSoFar(l, m, at + 1, list)
  <1>1. at + 1 \in 1..(f + 1) /\ (at + 1) - 1 = at
    OBVIOUS
  <1> QED
    BY <1>1 DEF ReadSoFar

\* One more record read.
LEMMA ReadsNext ==
  ASSUME NEW l, NEW m, l.records \in Seq(LegacyRecord), InOrder(l.records),
         Upgrade!Fence(l, m) \in Nat,
         NEW at, NEW list, ReadSoFar(l, m, at, list), at <= Upgrade!Fence(l, m),
         Upgrade!Acceptable(list, l.records[at])
  PROVE  ReadSoFar(l, m, at + 1, Upgrade!Folded(list, l.records[at]))
  <1> DEFINE r == l.records
             e == r[at]
  <1>1. PICK f \in Nat : f = Upgrade!Fence(l, m)
    OBVIOUS
  <1>2. /\ at \in 1..f /\ f <= Len(r) /\ at \in DOMAIN r /\ at - 1 \in Nat
        /\ \A i \in 1..(at - 1) : r[i].intact
        /\ Upgrade!Restores(list, r, at - 1)
        /\ list \in Seq(LegacyRecord) /\ Len(list) = Upgrade!EntriesBefore(r, at)
    BY <1>1 DEF ReadSoFar
  <1>3. e \in LegacyRecord /\ e.intact
    BY <1>2, AcceptableIs
  <1>4. \A i \in 1..((at + 1) - 1) : r[i].intact
    BY <1>2, <1>3
  <1>5. (at - 1) + 1 = at /\ (at + 1) - 1 = at
    BY <1>2
  <1>6. at \in Nat \ {0}
    BY <1>2
  <1>7. CASE e.type = "entry"
    <2>1. e.id = Len(list) + 1
      BY <1>7 DEF Upgrade!Acceptable
    <2>2. Upgrade!Restores(Append(list, e), r, at)
      BY <1>2, <1>5, <1>7, <2>1, EntryRestores
    <2>3. Append(list, e) \in Seq(LegacyRecord) /\ Len(Append(list, e)) = Len(list) + 1
      <3>1. e \in LegacyRecord /\ list \in Seq(LegacyRecord)
        BY <1>2, <1>3
      <3> HIDE DEF e
      <3> QED
        BY <3>1
    <2>4. Upgrade!EntriesBefore(r, at + 1) = Upgrade!EntriesBefore(r, at) + 1
      BY <1>6, <1>7, CountIs
    <2>5. Upgrade!Folded(list, e) = Append(list, e)
      BY <1>7 DEF Upgrade!Folded
    <2>6. ReadSoFar(l, m, at + 1, Append(list, e))
      BY <1>1, <1>2, <1>4, <1>5, <2>2, <2>3, <2>4, ReadsIs
    <2> QED
      BY <2>5, <2>6
  <1>8. CASE e.type # "entry"
    <2> DEFINE new == [list EXCEPT ![e.id].outcome = e.outcome]
    <2>1. e.id \in DOMAIN list
      BY <1>8 DEF Upgrade!Acceptable
    <2>2. Upgrade!Restores(new, r, at)
      BY <1>2, <1>5, <1>8, <2>1, PatchRestores
    <2>3. new \in Seq(LegacyRecord) /\ Len(new) = Len(list)
      <3>1. PICK q : q = [list[e.id] EXCEPT !.outcome = e.outcome]
        OBVIOUS
      <3>2. q \in LegacyRecord
        <4>1. list[e.id] \in LegacyRecord
          BY <1>2, <2>1
        <4> QED
          BY <1>3, <3>1, <4>1 DEF LegacyRecord
      <3>3. new = [list EXCEPT ![e.id] = q]
        BY <3>1
      <3> QED
        BY <1>2, <2>1, <3>2, <3>3
    <2>4. Upgrade!EntriesBefore(r, at + 1) = Upgrade!EntriesBefore(r, at)
      BY <1>6, <1>8, CountIs
    <2>5. Upgrade!Folded(list, e) = new
      BY <1>8 DEF Upgrade!Folded
    <2>6. ReadSoFar(l, m, at + 1, new)
      <3> HIDE DEF new
      <3> QED
        BY <1>1, <1>2, <1>4, <1>5, <2>2, <2>3, <2>4, ReadsIs
    <2> QED
      BY <2>5, <2>6
  <1> QED
    BY <1>7, <1>8

\* The reading ends at what counts.
LEMMA ReadsAll ==
  ASSUME NEW l, NEW m, l.records \in Seq(LegacyRecord), Upgrade!Fence(l, m) \in Nat,
         NEW at, NEW list, ReadSoFar(l, m, at, list),
         \/ at > Upgrade!Fence(l, m)
         \/ ~Upgrade!Fenced(l, m) /\ ~l.records[at].intact
  PROVE  /\ Upgrade!Covered(l, m) = at - 1 /\ Upgrade!Readable(l, m)
         /\ Upgrade!Restores(list, l.records, at - 1) /\ Plain(list)
  <1> DEFINE r == l.records
  <1>1. PICK f \in Nat : f = Upgrade!Fence(l, m)
    OBVIOUS
  <1>2. /\ at \in 1..(f + 1) /\ f <= Len(r) /\ at - 1 \in 0..Len(r)
        /\ \A i \in 1..(at - 1) : r[i].intact
        /\ Upgrade!Restores(list, r, at - 1) /\ list \in Seq(LegacyRecord)
    BY <1>1 DEF ReadSoFar
  <1>3. Plain(list)
    <2>1. PICK n \in Nat : n = at - 1 /\ n <= Len(r)
      BY <1>2
    <2>2. Upgrade!Restores(list, r, n) /\ \A i \in 1..n : r[i].intact
      BY <1>2, <2>1
    <2> HIDE DEF r
    <2>3. r \in Seq(LegacyRecord) /\ list \in Seq(LegacyRecord)
      BY <1>2 DEF r
    <2> QED
      BY <2>1, <2>2, <2>3, RestoredPlain
  <1>4. Upgrade!Covered(l, m) = at - 1
    <2>1. CASE Upgrade!Fenced(l, m)
      <3>1. f = m.covers /\ at > f
        BY <1>1, <2>1 DEF Upgrade!Fence
      <3>2. f = at - 1
        BY <1>2, <3>1
      <3> QED
        BY <2>1, <3>1, <3>2 DEF Upgrade!Covered
    <2>2. CASE ~Upgrade!Fenced(l, m)
      <3>1. f = Len(r)
        BY <1>1, <2>2 DEF Upgrade!Fence
      <3>2. at - 1 < Len(r) => ~r[(at - 1) + 1].intact
        BY <1>1, <1>2, <3>1
      <3> QED
        BY <1>2, <2>2, <3>2, CoveredIs
    <2> QED
      BY <2>1, <2>2
  <1>5. Upgrade!Readable(l, m)
    BY <1>2, <1>4 DEF Upgrade!Readable
  <1> QED
    BY <1>2, <1>3, <1>4, <1>5

\* What the older program's files are.
LEMMA OldFiles ==
  ASSUME mg_original \in Legacies
  PROVE  /\ mg_original.log.records \in Seq(LegacyRecord) /\ InOrder(mg_original.log.records)
         /\ mg_original.log.version \in {1, 2}
         /\ mg_original.marker # Nil => mg_original.marker.version \in {1, 2}
         /\ Upgrade!Fence(mg_original.log, mg_original.marker) \in Nat
         /\ Len(mg_original.log.records) \in Nat
  <1> DEFINE l == mg_original.log
             m == mg_original.marker
  <1>1. /\ l.records \in Seq(LegacyRecord) /\ l.version \in {1, 2} /\ InOrder(l.records)
        /\ m # Nil => m \in MarkerType
    BY Zenon DEF Legacies
  <1>2. m # Nil => m.covers \in Nat /\ m.version \in {1, 2}
    BY <1>1 DEF MarkerType
  <1>3. Len(l.records) \in Nat
    BY <1>1
  <1>4. Upgrade!Fence(l, m) \in Nat
    BY <1>2, <1>3 DEF Upgrade!Fence, Upgrade!Fenced
  <1> QED
    BY <1>1, <1>2, <1>3, <1>4

LEMMA UpgradeStarts == Upgrade!Init => UpgradeInv
  <1> SUFFICES ASSUME Upgrade!Init PROVE UpgradeInv
    OBVIOUS
  <1>1. mg_original \in Legacies
    BY OriginalTyped
  <1>2. mg_original = [log |-> mg_log, marker |-> mg_marker] /\ mg_pc = "closed"
    BY DEF Upgrade!Init
  <1>3. Before
    BY <1>2 DEF Before
  <1> QED
    BY <1>1, <1>3 DEF UpgradeInv

LEMMA BeforeStep ==
  ASSUME mg_original \in Legacies, Before, Upgrade!Next
  PROVE  (mg_original \in Legacies)' /\ (Before' \/ After')
  <1> DEFINE l == mg_original.log
             m == mg_original.marker
  <1>1. /\ mg_log = l /\ mg_marker = m
        /\ mg_pc \in {"closed", "refused", "read", "write", "rename"}
        /\ mg_pc = "read" => ReadSoFar(l, m, mg_at, mg_entries)
        /\ mg_pc \in {"write", "rename"} => Recovered(mg_entries)
        /\ mg_pc = "rename" => mg_tmp = [version |-> Upgrade!Current, records |-> mg_entries]
        /\ mg_pc = "refused" => ~Upgrade!Readable(l, m)
    BY DEF Before
  <1>2. /\ l.records \in Seq(LegacyRecord) /\ InOrder(l.records) /\ l.version \in {1, 2}
        /\ m # Nil => m.version \in {1, 2}
        /\ Upgrade!Fence(l, m) \in Nat /\ Len(l.records) \in Nat
    BY OldFiles
  <1> DEFINE Stays == mg_original' = mg_original /\ mg_log' = mg_log /\ mg_marker' = mg_marker
  <1>3. mg_original' = mg_original => /\ mg_original' \in Legacies
                                      /\ \A list : Recovered(list)' <=> Recovered(list)
    BY DEF Recovered
  <1>4. ASSUME Stays, mg_pc' = "closed" PROVE Before'
    BY <1>1, <1>4 DEF Before
  <1>5. ASSUME Stays, mg_pc' = "refused", ~Upgrade!Readable(l, m) PROVE Before'
    BY <1>1, <1>5 DEF Before
  <1>6. ASSUME Stays, mg_pc' = "read", ReadSoFar(l, m, mg_at', mg_entries') PROVE Before'
    BY <1>1, <1>6 DEF Before, ReadSoFar
  <1>7. ASSUME Stays, mg_pc' = "write", Recovered(mg_entries)', UNCHANGED mg_entries PROVE Before'
    BY <1>1, <1>7 DEF Before
  <1> HIDE DEF l, m, Stays
  <1>8. CASE Upgrade!Open
    <2>1. /\ Stays
          /\ mg_pc' = IF Upgrade!Fence(l, m) > Len(l.records) THEN "refused"
                      ELSE IF l.version \in {1, 2} THEN "read" ELSE "recover"
          /\ mg_at' = 1 /\ mg_entries' = <<>>
      BY <1>1, <1>8 DEF Upgrade!Open, Upgrade!Ends, Upgrade!Legacy, Stays
    <2>2. CASE Upgrade!Fence(l, m) > Len(l.records)
      <3>1. Upgrade!Covered(l, m) = Upgrade!Fence(l, m)
        BY <1>2, <2>2 DEF Upgrade!Covered, Upgrade!Fence
      <3>2. ~Upgrade!Readable(l, m)
        BY <1>2, <2>2, <3>1 DEF Upgrade!Readable
      <3> QED
        BY <1>3, <1>5, <2>1, <2>2, <3>2 DEF Stays
    <2>3. CASE ~(Upgrade!Fence(l, m) > Len(l.records))
      <3>1. PICK f \in Nat : f = Upgrade!Fence(l, m)
        BY <1>2
      <3>2. Upgrade!Restores(<<>>, l.records, 0) /\ Upgrade!EntriesBefore(l.records, 1) = 0
        BY CountIs DEF Upgrade!Restores
      <3>3. ReadSoFar(l, m, 1, <<>>)
        BY <1>2, <2>3, <3>1, <3>2 DEF ReadSoFar
      <3> QED
        BY <1>2, <1>3, <1>6, <2>1, <2>3, <3>3 DEF Stays
    <2> QED
      BY <2>2, <2>3
  <1>9. CASE Upgrade!ReadRecord
    <2>1. /\ Stays /\ mg_pc = "read" /\ mg_pc' = mg_pc
          /\ mg_at <= Upgrade!Fence(l, m) /\ Upgrade!Acceptable(mg_entries, l.records[mg_at])
          /\ mg_at' = mg_at + 1
          /\ mg_entries' = Upgrade!Folded(mg_entries, l.records[mg_at])
      BY <1>1, <1>9 DEF Upgrade!ReadRecord, Upgrade!ReadsOn, Stays
    <2>2. ReadSoFar(l, m, mg_at, mg_entries)
      BY <1>1, <2>1
    <2>3. ReadSoFar(l, m, mg_at + 1, Upgrade!Folded(mg_entries, l.records[mg_at]))
      BY <1>2, <2>1, <2>2, ReadsNext
    <2>4. ReadSoFar(l, m, mg_at', mg_entries')
      BY <2>1, <2>3
    <2> QED
      BY <1>3, <1>6, <2>1, <2>4 DEF Stays
  <1>10. CASE Upgrade!ReadStops
    <2>1. /\ Stays /\ mg_pc = "read" /\ mg_at <= Upgrade!Fence(l, m)
          /\ ~Upgrade!Acceptable(mg_entries, l.records[mg_at])
          /\ IF Upgrade!Fenced(l, m) THEN mg_pc' = "refused"
             ELSE mg_pc' = "write" /\ mg_entries' = mg_entries
      BY <1>1, <1>10 DEF Upgrade!ReadStops, Upgrade!Loops, Upgrade!After, Upgrade!Ends, Stays
    <2>2. ReadSoFar(l, m, mg_at, mg_entries)
      BY <1>1, <2>1
    <2>3. /\ mg_at \in DOMAIN l.records /\ mg_entries \in Seq(LegacyRecord)
          /\ Len(mg_entries) = Upgrade!EntriesBefore(l.records, mg_at)
      <3>1. PICK f \in Nat : f = Upgrade!Fence(l, m)
        BY <1>2
      <3> QED
        BY <1>2, <2>1, <2>2, <3>1 DEF ReadSoFar
    <2>4. ~l.records[mg_at].intact
      BY <1>2, <2>1, <2>3, AcceptableIs
    <2>5. CASE Upgrade!Fenced(l, m)
      <3>1. Upgrade!Covered(l, m) = Upgrade!Fence(l, m)
        BY <2>5 DEF Upgrade!Covered, Upgrade!Fence
      <3>2. mg_at \in 1..Upgrade!Covered(l, m)
        BY <1>2, <2>1, <2>3, <3>1
      <3>3. ~Upgrade!Readable(l, m)
        BY <2>4, <3>2 DEF Upgrade!Readable
      <3> QED
        BY <1>3, <1>5, <2>1, <2>5, <3>3 DEF Stays
    <2>6. CASE ~Upgrade!Fenced(l, m)
      <3>1. /\ Upgrade!Covered(l, m) = mg_at - 1 /\ Upgrade!Readable(l, m)
            /\ Upgrade!Restores(mg_entries, l.records, mg_at - 1) /\ Plain(mg_entries)
        BY <1>2, <2>2, <2>4, <2>6, ReadsAll
      <3>2. Recovered(mg_entries)
        BY <3>1 DEF Recovered, l, m
      <3> QED
        BY <1>3, <1>7, <2>1, <2>6, <3>2 DEF Stays
    <2> QED
      BY <2>5, <2>6
  <1>11. CASE Upgrade!ReadDone
    <2>1. /\ Stays /\ mg_pc = "read" /\ mg_at > Upgrade!Fence(l, m)
          /\ mg_pc' = "write" /\ mg_entries' = mg_entries
      BY <1>1, <1>11 DEF Upgrade!ReadDone, Upgrade!Loops, Upgrade!After, Stays
    <2>2. ReadSoFar(l, m, mg_at, mg_entries)
      BY <1>1, <2>1
    <2>3. /\ Upgrade!Covered(l, m) = mg_at - 1 /\ Upgrade!Readable(l, m)
          /\ Upgrade!Restores(mg_entries, l.records, mg_at - 1) /\ Plain(mg_entries)
      BY <1>2, <2>1, <2>2, ReadsAll
    <2>4. Recovered(mg_entries)
      BY <2>3 DEF Recovered, l, m
    <2> QED
      BY <1>3, <1>7, <2>1, <2>4 DEF Stays
  <1>12. CASE Upgrade!WriteEntries
    <2>1. /\ Stays /\ mg_pc = "write" /\ mg_pc' = "rename" /\ mg_entries' = mg_entries
          /\ mg_tmp' = [version |-> Upgrade!Current, records |-> mg_entries]
      BY <1>12 DEF Upgrade!WriteEntries, Stays
    <2>2. Recovered(mg_entries)' 
      BY <1>1, <1>3, <2>1 DEF Stays
    <2> QED
      BY <1>1, <1>3, <2>1, <2>2 DEF Before, Stays, l, m
  <1>13. CASE Upgrade!Rename
    <2>1. /\ mg_pc = "rename" /\ mg_pc' = "remove" /\ mg_log' = mg_tmp
          /\ mg_marker' = mg_marker /\ mg_original' = mg_original
      BY <1>13 DEF Upgrade!Rename
    <2>2. mg_log' = [version |-> Upgrade!Current, records |-> mg_entries]
      BY <1>1, <2>1
    <2>3. Recovered(mg_log.records)'
      <3>1. mg_log'.records = mg_entries
        BY <2>2
      <3> QED
        BY <1>1, <2>1, <3>1 DEF Recovered
    <2>4. mg_log' = [version |-> Upgrade!Current, records |-> mg_log'.records]
      BY <2>2
    <2> QED
      BY <1>1, <1>3, <2>1, <2>3, <2>4 DEF After, m
  <1>14. CASE Upgrade!StepFails
    BY <1>3, <1>4, <1>14 DEF Upgrade!StepFails, Upgrade!Ends, Stays
  <1>15. CASE Upgrade!Crash
    BY <1>3, <1>4, <1>15 DEF Upgrade!Crash, Upgrade!Ends, Stays
  <1>16. CASE Upgrade!RemoveMarker \/ Upgrade!RecoverRecord \/ Upgrade!Recover \/ Upgrade!Close
    BY <1>1, <1>16 DEF Upgrade!RemoveMarker, Upgrade!RecoverRecord, Upgrade!Recover, Upgrade!Close
  <1> QED
    BY <1>8, <1>9, <1>10, <1>11, <1>12, <1>13, <1>14, <1>15, <1>16 DEF Upgrade!Next

LEMMA AfterStep ==
  ASSUME mg_original \in Legacies, After, Upgrade!Next
  PROVE  (mg_original \in Legacies)' /\ After'
  <1> DEFINE r == mg_log.records
             own == [version |-> Upgrade!Current, covers |-> Len(r), count |-> Len(r)]
  <1>1. /\ mg_log = [version |-> 3, records |-> r] /\ mg_log.version = 3 /\ Recovered(r)
        /\ mg_marker \in {Nil, mg_original.marker, own}
        /\ mg_pc \in {"closed", "remove", "recover", "mark", "open"}
        /\ mg_pc \in {"recover", "mark"} =>
             /\ mg_at \in 1..(Len(r) + 1) /\ mg_entries = SubSeq(r, 1, mg_at - 1)
        /\ mg_pc = "mark" => mg_at = Len(r) + 1
        /\ mg_pc = "open" => mg_entries = r
    BY DEF After, Upgrade!Current
  <1>2. Plain(r) /\ r \in Seq(LegacyRecord) /\ Len(r) \in Nat
    BY <1>1 DEF Recovered, Plain
  <1>3. mg_original' = mg_original => mg_original' \in Legacies
    OBVIOUS
  <1>4. mg_marker # Nil /\ mg_marker = mg_original.marker => mg_marker.version \in {1, 2}
    BY OldFiles
  <1>5. /\ Upgrade!Fenced(mg_log, mg_marker) => mg_marker = own
        /\ Upgrade!Fence(mg_log, mg_marker) = Len(r)
    <2>1. Upgrade!Fenced(mg_log, mg_marker) => mg_marker = own
      BY <1>1, <1>4 DEF Upgrade!Fenced
    <2> QED
      BY <2>1 DEF Upgrade!Fence
  <1> DEFINE Stays == mg_original' = mg_original /\ mg_log' = mg_log
  <1>6. ASSUME Stays, mg_marker' \in {Nil, mg_marker},
               mg_pc' \in {"closed", "remove", "recover", "mark", "open"},
               mg_pc' \in {"recover", "mark"} =>
                 mg_at' \in 1..(Len(r) + 1) /\ mg_entries' = SubSeq(r, 1, mg_at' - 1),
               mg_pc' = "mark" => mg_at' = Len(r) + 1,
               mg_pc' = "open" => mg_entries' = r
        PROVE  After'
    <2>1. Recovered(mg_log.records)'
      BY <1>1, <1>6 DEF Recovered
    <2> QED
      BY <1>1, <1>6, <2>1 DEF After, Upgrade!Current
  <1>7. SubSeq(r, 1, 0) = <<>> /\ SubSeq(r, 1, Len(r)) = r
    BY <1>2
  <1>8. ASSUME Stays, mg_marker' \in {Nil, mg_marker}, mg_pc' \in {"closed", "recover"},
               mg_at' = 1, mg_entries' = <<>>
        PROVE  After'
    <2>1. mg_at' \in 1..(Len(r) + 1) /\ mg_entries' = SubSeq(r, 1, mg_at' - 1)
      BY <1>2, <1>7, <1>8
    <2> QED
      BY <1>6, <1>8, <2>1
  <1>9. CASE Upgrade!Open
    <2>1. /\ Stays /\ mg_marker' = mg_marker /\ mg_at' = 1 /\ mg_entries' = <<>>
          /\ mg_pc' = IF Upgrade!Fence(mg_log, mg_marker) > Len(r) THEN "refused"
                      ELSE IF mg_log.version \in {1, 2} THEN "read" ELSE "recover"
      BY <1>9 DEF Upgrade!Open, Upgrade!Ends, Upgrade!Legacy
    <2>2. mg_pc' = "recover"
      BY <1>1, <1>2, <1>5, <2>1
    <2> QED
      BY <1>3, <1>8, <2>1, <2>2
  <1>10. CASE Upgrade!RecoverRecord
    <2>1. /\ Stays /\ mg_marker' = mg_marker /\ mg_pc = "recover" /\ mg_pc' = mg_pc
          /\ mg_at <= Len(r) /\ mg_at' = mg_at + 1
          /\ mg_entries' = Upgrade!Folded(mg_entries, r[mg_at])
      BY <1>5, <1>10 DEF Upgrade!RecoverRecord, Upgrade!ReadsOn
    <2>2. mg_at \in 1..Len(r) /\ mg_entries = SubSeq(r, 1, mg_at - 1)
      BY <1>1, <1>2, <2>1
    <2>3. r[mg_at].type = "entry"
      BY <1>2, <2>2 DEF Plain
    <2>4. mg_entries' = Append(SubSeq(r, 1, mg_at - 1), r[mg_at])
      BY <2>1, <2>2, <2>3 DEF Upgrade!Folded
    <2>5. mg_entries' = SubSeq(r, 1, (mg_at + 1) - 1)
      BY <1>2, <2>2, <2>4
    <2>6. mg_at + 1 \in 1..(Len(r) + 1)
      BY <1>2, <2>2
    <2> QED
      BY <1>3, <1>6, <2>1, <2>5, <2>6
  <1>11. CASE Upgrade!ReadStops
    <2>1. /\ mg_pc = "recover" /\ mg_at <= Len(r) /\ ~Upgrade!Acceptable(mg_entries, r[mg_at])
      BY <1>1, <1>5, <1>11 DEF Upgrade!ReadStops, Upgrade!Loops
    <2>2. mg_at \in 1..Len(r) /\ mg_entries = SubSeq(r, 1, mg_at - 1)
      BY <1>1, <1>2, <2>1
    <2>3. r[mg_at].type = "entry" /\ r[mg_at].id = mg_at /\ r[mg_at].intact
      BY <1>2, <2>2 DEF Plain
    <2>4. Len(mg_entries) + 1 = mg_at
      BY <1>2, <2>2
    <2> QED
      BY <2>1, <2>3, <2>4 DEF Upgrade!Acceptable
  <1>12. CASE Upgrade!ReadDone
    <2>1. /\ Stays /\ mg_marker' = mg_marker /\ mg_pc = "recover" /\ mg_pc' = "mark"
          /\ mg_at > Len(r) /\ mg_at' = mg_at /\ mg_entries' = mg_entries
      BY <1>1, <1>5, <1>12 DEF Upgrade!ReadDone, Upgrade!Loops, Upgrade!After
    <2>2. mg_at = Len(r) + 1 /\ mg_entries = SubSeq(r, 1, mg_at - 1)
      BY <1>1, <1>2, <2>1
    <2>3. Len(r) + 1 \in 1..(Len(r) + 1)
      BY <1>2
    <2> QED
      BY <1>3, <1>6, <2>1, <2>2, <2>3
  <1>13. CASE Upgrade!RemoveMarker
    BY <1>3, <1>8, <1>13 DEF Upgrade!RemoveMarker, Upgrade!Ends
  <1>14. CASE Upgrade!Recover
    <2>1. mg_pc = "mark" /\ mg_at = Len(r) + 1 /\ mg_entries = r
      <3>1. mg_pc = "mark" /\ mg_at = Len(r) + 1
        BY <1>1, <1>14 DEF Upgrade!Recover
      <3>2. mg_at - 1 = Len(r)
        BY <1>2, <3>1
      <3> QED
        BY <1>1, <1>7, <3>1, <3>2
    <2>2. ~(Upgrade!Fenced(mg_log, mg_marker) /\ mg_marker.count # Len(mg_entries))
      BY <1>5, <2>1
    <2>3. /\ mg_original' = mg_original /\ mg_entries' = mg_entries /\ mg_pc' = "open"
          /\ mg_log' = [mg_log EXCEPT !.records = SubSeq(r, 1, mg_at - 1)]
          /\ mg_marker' = IF Upgrade!Fenced(mg_log, mg_marker) THEN mg_marker
                          ELSE [version |-> Upgrade!Current, covers |-> mg_at - 1,
                                count |-> Len(mg_entries)]
      BY <1>14, <2>2 DEF Upgrade!Recover
    <2>4. mg_at - 1 = Len(r) /\ mg_marker' = own
      BY <1>2, <1>5, <2>1, <2>3
    <2>5. mg_log' = mg_log
      BY <1>1, <1>7, <2>3, <2>4
    <2>6. Recovered(mg_log.records)'
      BY <1>1, <2>3, <2>5 DEF Recovered
    <2> QED
      BY <1>1, <1>3, <2>1, <2>3, <2>4, <2>5, <2>6 DEF After, Upgrade!Current
  <1>15. CASE Upgrade!Close
    BY <1>3, <1>8, <1>15 DEF Upgrade!Close, Upgrade!Ends
  <1>16. CASE Upgrade!Crash
    BY <1>3, <1>8, <1>16 DEF Upgrade!Crash, Upgrade!Ends
  <1>17. CASE Upgrade!ReadRecord \/ Upgrade!WriteEntries \/ Upgrade!Rename \/ Upgrade!StepFails
    BY <1>1, <1>17 DEF Upgrade!ReadRecord, Upgrade!WriteEntries, Upgrade!Rename, Upgrade!StepFails
  <1> QED
    BY <1>9, <1>10, <1>11, <1>12, <1>13, <1>14, <1>15, <1>16, <1>17 DEF Upgrade!Next

LEMMA UpgradeStutter == UpgradeInv /\ UNCHANGED migration_vars => UpgradeInv'
  BY DEF migration_vars, UpgradeInv, Before, After, Recovered, ReadSoFar

LEMMA UpgradeStep == UpgradeInv /\ Upgrade!Next => UpgradeInv'
  BY BeforeStep, AfterStep DEF UpgradeInv

LEMMA UpgradeHolds == PlatformSpec => [](side = "migration" => UpgradeInv)
  <1> DEFINE Inv == side = "migration" => UpgradeInv
  <1>1. PlatformInit => Inv
    BY UpgradeStarts DEF PlatformInit
  <1>2. Inv /\ [PlatformNext]_platform_vars => Inv'
    <2> SUFFICES ASSUME Inv, side' = "migration",
                        [PlatformNext]_platform_vars
                 PROVE  UpgradeInv'
      OBVIOUS
    <2>1. \/ side = "migration" /\ Upgrade!Next
          \/ side = "migration" /\ UNCHANGED migration_vars
      BY DEF PlatformNext, LockNext, JetstreamNext, MigrationNext, ResourcesNext, platform_vars
    <2> QED
      BY <2>1, UpgradeStep, UpgradeStutter
  <1> QED
    BY <1>1, <1>2, PTL DEF PlatformSpec

\* For every old file that any program of version 1 or 2 left, cut short, damaged or
\* with a marker that is missing or for too much, and for every number of crashes and
\* failed writes: an open that succeeds has the committed history and nothing else, and
\* a refusal is for damage to what was committed (atp_ledger_migrate, atp_ledger_recover).
THEOREM HistoryIsKept == PlatformSpec => []UpgradeKeepsHistory
  <1>1. (side = "migration" => UpgradeInv) => UpgradeKeepsHistory
    <2> SUFFICES ASSUME UpgradeInv PROVE Upgrade!UpgradeKeepsHistory
      BY DEF UpgradeKeepsHistory
    <2>1. CASE Before
      BY <2>1 DEF Before, Upgrade!UpgradeKeepsHistory
    <2>2. CASE After
      BY <2>2 DEF After, Recovered, Upgrade!UpgradeKeepsHistory
    <2> QED
      BY <2>1, <2>2 DEF UpgradeInv
  <1> QED
    BY <1>1, UpgradeHolds, PTL

---------------------------------------------------------------------------
(* The sync engine and the daemon loop.  The inductive invariant has three *)
(* parts beside the type: what a step inside process_observation has       *)
(* established about its item, that every copy of the model (in memory, on *)
(* disk, or read by a process that waits) is settled in the ledger, and    *)
(* that every cursor (saved, in memory, of the traversal) has only         *)
(* committed posts behind it.                                              *)

\* Between the append and the outcome the item is pending; a traversal's item
\* is a post.
ItemInv ==
    /\ pc \in {"train", "outcome"} => ledger[item] = "pending"
    /\ (pc \in {"append", "train", "outcome", "link", "next"}
        /\ cmd \in {"daemon", "sync"}) => item \in 1..MaxPosts

SettledIn(g) ==
    \A i \in Observations :
        g[i] \in {0, 1} /\ (g[i] = 1 => ledger[i] \in {"learned", "withdrawn"})

\* The graph in memory is ahead of the ledger by at most the item in hand.
ModelInv ==
    /\ SettledIn(snapshot)
    /\ \A p \in Procs : SettledIn(loaded[p])
    /\ \A i \in Observations :
        /\ graph[i] \in {0, 1}
        /\ graph[i] = 1 => \/ ledger[i] \in {"learned", "withdrawn"}
                           \/ pc = "outcome" /\ i = item /\ item \in Eligible

\* Everything above `low' up to the head `high' is committed.
Behind(low, high) ==
    \A i \in Observations : (low < i /\ i <= high) => is_committed(ledger[i])

CursorInv ==
    /\ Behind(checkpoint.next, checkpoint.top)
    /\ Behind(state.next, state.top)
    /\ cmd \in {"daemon", "sync"} =>
        /\ pc = "fetch" /\ cursor # 0 => Behind(cursor, top)
        /\ pc \in {"append", "train", "outcome", "link", "next"} => Behind(item, top)
        /\ pc \in {"link", "next"} => is_committed(ledger[item])

Inv == TypeOK /\ ItemInv /\ ModelInv /\ CursorInv

\* A ledger step never takes back a commitment.
Grows == \A i \in Observations :
            /\ is_committed(ledger[i]) => is_committed(ledger'[i])
            /\ ledger[i] \in {"learned", "withdrawn"} =>
                    ledger'[i] \in {"learned", "withdrawn"}

LEMMA ObservationsType ==
    /\ Local \in Observations /\ 1 \in 1..MaxPosts
    /\ 1..MaxPosts \subseteq Observations /\ Observations = 0..MaxPosts
    /\ MaxPosts \in Nat
BY MaxPostsAssumption DEF Local, Observations

\* Every step leaves the types intact.
LEMMA TypeNext == TypeOK /\ ItemInv /\ [Next]_vars => TypeOK'
<1> SUFFICES ASSUME TypeOK, ItemInv, [Next]_vars PROVE TypeOK'
  OBVIOUS
<1> USE ObservationsType, BoundsAssumption, PostsAssumption
<1>0. NoGraph \in Graph /\ FromHead \in IngestionState
  BY DEF NoGraph, Graph, FromHead, IngestionState
<1>1. CASE Publish
  BY <1>1 DEF Publish, TypeOK, world, disk, starting, owner, traversal
<1>2. ASSUME NEW p \in Procs, LoadGraph(p) PROVE TypeOK'
  BY <1>2 DEF LoadGraph, TypeOK, world, disk, owner, traversal
<1>3. ASSUME NEW p \in Procs, Acquire(p) PROVE TypeOK'
  <2>1. pc' \in {"loop", "begin", "append", "withdraw", "rebuild"}
    BY <1>3, CommandsAssumption DEF Acquire, EntryPoint
  <2> QED BY <1>0, <1>3, <2>1 DEF Acquire, TypeOK, world, disk
<1>4. ASSUME NEW p \in Procs, Refused(p) PROVE TypeOK'
  BY <1>0, <1>4 DEF Refused, TypeOK, world, disk, owner, traversal
<1>5. CASE Exit \/ Crash
  <2>1. Gone /\ (faults' = faults \/ faults' = faults + 1) /\ UNCHANGED <<world, disk, starting>>
    BY <1>5 DEF Exit, Crash
  <2>2. /\ graph' \in Graph /\ base' \in Graph /\ state' \in IngestionState
        /\ cursor' = 0 /\ item' = 0 /\ pages' = 0 /\ top' = 0 /\ cycles' = 0
        /\ known' \in BOOLEAN /\ changed' \in BOOLEAN /\ dirty' \in BOOLEAN
        /\ holder' = NoProc /\ cmd' = "none" /\ pc' = "off"
    BY <1>0, <2>1 DEF Gone
  <2>3. 0 \in Observations /\ 0 \in 0..MaxPosts
    OBVIOUS
  <2> QED BY ONLY TypeOK, <2>1, <2>2, <2>3 DEF TypeOK, world, disk, starting
<1>6. CASE Begin
  BY <1>6 DEF Begin, TypeOK, IngestionState, world, disk, starting, owner
<1>7. CASE FetchPage \/ CursorRejected
  <2>1. /\ item' \in {published, cursor} /\ (cursor = 0 => item' = published)
        /\ top' \in {published, top} /\ pc' = "append" /\ faults' \in {faults, faults + 1}
        /\ UNCHANGED <<world, disk, starting, owner, base, graph, state, cursor, pages, changed,
                       dirty, cycles>>
    BY <1>7 DEF FetchPage, CursorRejected
  <2> QED BY ONLY TypeOK, <2>1, ObservationsType
          DEF TypeOK, world, disk, starting, owner
<1>8. CASE FetchRetry \/ Loop \/ Stop \/ WithdrawNothing \/ IngestDone
  <2>1. /\ pc' \in {"loop", "begin", "flush", "exit", "save_graph"}
        /\ faults' \in {faults, faults + 1}
        /\ UNCHANGED <<world, disk, starting, owner, base, graph, state, traversal, dirty, cycles>>
    BY <1>8 DEF FetchRetry, Loop, Stop, WithdrawNothing, IngestDone
  <2> QED BY ONLY TypeOK, <2>1 DEF TypeOK, world, disk, starting, owner, traversal
<1>9. CASE append
  BY <1>9 DEF append, TypeOK, Outcomes, world, starting, owner, traversal
<1>10. CASE remember
  <2>1. graph' = IF item \in Eligible THEN [graph EXCEPT ![item] = @ + 1] ELSE graph
    BY <1>10 DEF remember
  <2>2. graph \in [Observations -> Nat]
    BY DEF TypeOK, Graph
  <2>3. graph' \in Graph
    <3>1. CASE item \in Eligible
      BY <2>1, <2>2, <3>1 DEF Graph
    <3>2. CASE item \notin Eligible
      BY <2>1, <2>2, <3>2 DEF Graph
    <3> QED BY <3>1, <3>2
  <2> QED BY <1>10, <2>3 DEF remember, TypeOK, world, disk, starting, owner, traversal
<1>11. CASE set_outcome
  BY <1>11 DEF set_outcome, TypeOK, Outcomes, world, starting, owner
<1>12. CASE link
  BY <1>12 DEF link, TypeOK, world, starting, owner, traversal
<1>13. CASE NextPage
  <2>1. item \in 1..MaxPosts /\ item - 1 \in 0..MaxPosts
    BY <1>13 DEF NextPage, ItemInv
  <2> QED BY <1>13, <2>1 DEF NextPage, TypeOK, IngestionState, world, disk, starting, owner
<1>14. CASE Cycle
  BY <1>14 DEF Cycle, TypeOK, world, disk, starting, owner, traversal
<1>15. CASE DaemonSaveIngestion \/ SyncSaveIngestion \/ SaveGraph \/ OnCycle
  BY <1>15 DEF DaemonSaveIngestion, SyncSaveIngestion, SaveGraph, OnCycle, TypeOK,
               world, disk, starting, owner, traversal
<1>16. CASE Withdraw
  BY <1>16 DEF Withdraw, TypeOK, Outcomes, world, starting, owner, traversal
<1>17. CASE Rebuild
  BY <1>17 DEF Rebuild, Replayed, Graph, TypeOK, world, disk, starting, owner, traversal
<1>18. CASE UNCHANGED vars
  BY <1>18 DEF vars, TypeOK, world, disk, starting, owner, traversal
<1> QED
  BY <1>1, <1>2, <1>3, <1>4, <1>5, <1>6, <1>7, <1>8, <1>9, <1>10, <1>11, <1>12, <1>13,
     <1>14, <1>15, <1>16, <1>17, <1>18 DEF Next, Steps

LEMMA InvInit == Init => Inv
<1> SUFFICES ASSUME Init PROVE Inv
  OBVIOUS
<1> USE ObservationsType, BoundsAssumption, PostsAssumption
<1>1. NoGraph \in Graph /\ FromHead \in IngestionState /\ SettledIn(NoGraph)
  BY DEF NoGraph, Graph, FromHead, IngestionState, SettledIn
<1>2. TypeOK
  <2>1. ledger \in [Observations -> Outcomes]
    BY DEF Init, Outcomes
  <2>2. loaded \in [Procs -> Graph]
    BY <1>1 DEF Init
  <2>3. known \in BOOLEAN /\ changed \in BOOLEAN /\ dirty \in BOOLEAN /\ executed \in BOOLEAN
    BY DEF Init
  <2> QED BY <1>1, <2>1, <2>2, <2>3 DEF Init, TypeOK
<1>3. ItemInv
  BY DEF Init, ItemInv
<1>4. ModelInv
  <2>1. \A p \in Procs : loaded[p] = NoGraph
    BY DEF Init
  <2> QED BY <1>1, <2>1 DEF Init, ModelInv, NoGraph
<1>5. CursorInv
  BY DEF Init, CursorInv, Behind, FromHead
<1> QED BY <1>2, <1>3, <1>4, <1>5 DEF Inv

\* What a growing ledger preserves.
LEMMA GrowsKeeps ==
    ASSUME Grows
    PROVE  /\ \A g : SettledIn(g) =>
                (\A i \in Observations :
                    g[i] \in {0, 1} /\ (g[i] = 1 => ledger'[i] \in {"learned", "withdrawn"}))
           /\ \A low, high : Behind(low, high) =>
                (\A i \in Observations : (low < i /\ i <= high) => is_committed(ledger'[i]))
BY DEF Grows, SettledIn, Behind

\* Only append, set_outcome and Withdraw write the ledger, and none of them
\* takes a commitment back.
LEMMA LedgerGrows == Inv /\ [Next]_vars => Grows
<1> SUFFICES ASSUME Inv, [Next]_vars PROVE Grows
  OBVIOUS
<1> USE ObservationsType
<1>1. ledger \in [Observations -> Outcomes] /\ item \in Observations
  BY DEF Inv, TypeOK
<1>2. CASE append
  BY <1>1, <1>2 DEF append, Grows, is_committed
<1>3. CASE set_outcome
  <2>1. ledger[item] = "pending"
    BY <1>3 DEF Inv, ItemInv, set_outcome
  <2> QED BY <1>1, <1>3, <2>1 DEF set_outcome, Grows, is_committed
<1>4. CASE Withdraw
  BY <1>1, <1>4 DEF Withdraw, Grows, is_committed
<1>5. CASE ledger' = ledger
  BY <1>5 DEF Grows
<1>6. append \/ set_outcome \/ Withdraw \/ ledger' = ledger
  BY DEF Next, Steps, vars, disk, world, Publish, LoadGraph, Acquire, Refused, Exit, Crash,
         Begin, FetchPage, CursorRejected, FetchRetry, link, remember, NextPage, IngestDone,
         Loop, Stop, Cycle, DaemonSaveIngestion, SaveGraph, SyncSaveIngestion, OnCycle,
         WithdrawNothing, Rebuild
<1> QED BY <1>2, <1>3, <1>4, <1>5, <1>6

LEMMA ItemNext == Inv /\ [Next]_vars => ItemInv'
<1> SUFFICES ASSUME Inv, [Next]_vars PROVE ItemInv'
  OBVIOUS
<1> USE ObservationsType
<1>1. /\ TypeOK /\ ItemInv /\ ledger \in [Observations -> Outcomes] /\ item \in Observations
      /\ published \in 1..MaxPosts /\ cursor \in 0..MaxPosts
  BY DEF Inv, TypeOK
<1>2. CASE FetchPage \/ CursorRejected
  BY <1>1, <1>2 DEF FetchPage, CursorRejected, ItemInv
<1>3. CASE append
  BY <1>1, <1>3 DEF append, ItemInv, owner, traversal
<1>4. CASE remember
  BY <1>1, <1>4 DEF remember, ItemInv, disk, owner, traversal
<1>5. CASE set_outcome
  BY <1>1, <1>5 DEF set_outcome, ItemInv, owner
<1>6. CASE link
  BY <1>1, <1>6 DEF link, ItemInv, owner, traversal
<1>7. ASSUME NEW p \in Procs, Acquire(p) PROVE ItemInv'
  BY <1>7, CommandsAssumption DEF Acquire, EntryPoint, ItemInv
<1>8. CASE UNCHANGED <<pc, ledger, item, cmd>>
  BY <1>1, <1>8 DEF ItemInv
<1>9. CASE pc' \notin {"append", "train", "outcome", "link", "next"}
  BY <1>9 DEF ItemInv
<1>10. \/ FetchPage \/ CursorRejected \/ append \/ remember \/ set_outcome \/ link
       \/ \E p \in Procs : Acquire(p)
       \/ UNCHANGED <<pc, ledger, item, cmd>>
       \/ pc' \notin {"append", "train", "outcome", "link", "next"}
  BY DEF Next, Steps, vars, disk, owner, traversal, Publish, LoadGraph, Refused, Exit, Crash,
         Gone, Begin, FetchRetry, NextPage, IngestDone, Loop, Stop, Cycle,
         DaemonSaveIngestion, SaveGraph, SyncSaveIngestion, OnCycle, Withdraw,
         WithdrawNothing, Rebuild
<1> QED BY <1>2, <1>3, <1>4, <1>5, <1>6, <1>7, <1>8, <1>9, <1>10

\* The copies of the model stay settled: a save happens only between items,
\* and an item that is trained again was pending, so no copy holds it.
LEMMA ModelNext == Inv /\ [Next]_vars => ModelInv'
<1> SUFFICES ASSUME Inv, [Next]_vars PROVE ModelInv'
  OBVIOUS
<1> USE ObservationsType
<1>1. /\ ledger \in [Observations -> Outcomes] /\ item \in Observations
      /\ graph \in [Observations -> Nat] /\ snapshot \in [Observations -> Nat]
      /\ loaded \in [Procs -> Graph] /\ Grows
  BY LedgerGrows DEF Inv, TypeOK, Graph
<1>2. SettledIn(snapshot) /\ (\A p \in Procs : SettledIn(loaded[p])) /\ SettledIn(NoGraph)
  BY DEF Inv, ModelInv, SettledIn, NoGraph
<1>3. \A i \in Observations :
        /\ graph[i] \in {0, 1}
        /\ graph[i] = 1 => \/ ledger[i] \in {"learned", "withdrawn"}
                           \/ pc = "outcome" /\ i = item /\ item \in Eligible
  BY DEF Inv, ModelInv
<1>4. pc # "outcome" => SettledIn(graph)
  BY <1>3 DEF SettledIn
<1>5. ASSUME snapshot' = snapshot \/ (snapshot' = graph /\ pc # "outcome")
      PROVE  SettledIn(snapshot)'
  <2>1. SettledIn(snapshot')
    BY <1>2, <1>4, <1>5
  <2> QED BY <1>1, <2>1, GrowsKeeps DEF SettledIn
<1>6. ASSUME \A p \in Procs : loaded'[p] \in {loaded[p], snapshot, NoGraph}
      PROVE  (\A p \in Procs : SettledIn(loaded[p]))'
  <2>1. \A p \in Procs : SettledIn(loaded'[p])
    BY <1>2, <1>6
  <2> QED BY <1>1, <2>1, GrowsKeeps DEF SettledIn
<1>7. ASSUME NEW g, SettledIn(g), graph' = g
      PROVE  \A i \in Observations :
                /\ graph'[i] \in {0, 1}
                /\ graph'[i] = 1 => ledger'[i] \in {"learned", "withdrawn"}
  BY <1>1, <1>7, GrowsKeeps
<1>8. snapshot' = snapshot \/ (snapshot' = graph /\ pc # "outcome")
  BY DEF Next, Steps, vars, disk, Publish, LoadGraph, Acquire, Refused, Exit, Crash, Begin,
         FetchPage, CursorRejected, FetchRetry, append, link, remember, set_outcome, NextPage,
         IngestDone, Loop, Stop, Cycle, DaemonSaveIngestion, SaveGraph, SyncSaveIngestion,
         OnCycle, Withdraw, WithdrawNothing, Rebuild
<1>9. \A p \in Procs : loaded'[p] \in {loaded[p], snapshot, NoGraph}
  <2>1. ASSUME NEW p \in Procs, LoadGraph(p) \/ Acquire(p) \/ Refused(p)
        PROVE  \A q \in Procs : loaded'[q] \in {loaded[q], snapshot, NoGraph}
    BY <1>1, <2>1 DEF LoadGraph, Acquire, Refused
  <2>2. (\E p \in Procs : LoadGraph(p) \/ Acquire(p) \/ Refused(p)) \/ loaded' = loaded
    BY DEF Next, Steps, vars, starting, Publish, Exit, Crash, Begin, FetchPage,
           CursorRejected, FetchRetry, append, link, remember, set_outcome, NextPage,
           IngestDone, Loop, Stop, Cycle, DaemonSaveIngestion, SaveGraph, SyncSaveIngestion,
           OnCycle, Withdraw, WithdrawNothing, Rebuild
  <2> QED BY <2>1, <2>2
<1>10. \A i \in Observations :
         /\ graph'[i] \in {0, 1}
         /\ graph'[i] = 1 => \/ ledger'[i] \in {"learned", "withdrawn"}
                             \/ pc' = "outcome" /\ i = item' /\ item' \in Eligible
  <2>1. CASE remember
    <3>1. ledger[item] = "pending" /\ pc # "outcome" /\ ledger' = ledger /\ item' = item
          /\ pc' = "outcome"
      BY <2>1 DEF remember, Inv, ItemInv, disk, traversal
    <3>2. graph[item] = 0
      BY <1>1, <1>3, <3>1
    <3> QED BY <1>1, <1>3, <2>1, <3>1, <3>2 DEF remember
  <2>2. CASE set_outcome
    <3>1. ledger'[item] = "learned" \/ item \notin Eligible
      BY <1>1, <2>2 DEF set_outcome
    <3>2. \A i \in Observations : i # item => ledger'[i] = ledger[i]
      BY <1>1, <2>2 DEF set_outcome
    <3> QED BY <1>1, <1>3, <2>2, <3>1, <3>2 DEF set_outcome, Grows
  <2>3. CASE Rebuild
    <3>1. SettledIn(Replayed)
      BY DEF SettledIn, Replayed
    <3> QED BY <1>7, <2>3, <3>1 DEF Rebuild
  <2>4. ASSUME NEW p \in Procs, Acquire(p)
        PROVE  \E g : SettledIn(g) /\ graph' = g
    BY <1>2, <2>4 DEF Acquire
  <2>5. CASE Exit \/ Crash
    BY <1>2, <1>7, <2>5 DEF Exit, Crash, Gone
  <2>6. CASE graph' = graph /\ pc # "outcome"
    BY <1>4, <1>7, <2>6
  <2>7. CASE UNCHANGED <<graph, pc, item>>
    BY <1>1, <1>3, <2>7 DEF Grows
  <2>8. \/ remember \/ set_outcome \/ Rebuild \/ (\E p \in Procs : Acquire(p))
        \/ Exit \/ Crash
        \/ graph' = graph /\ pc # "outcome"
        \/ UNCHANGED <<graph, pc, item>>
    BY DEF Next, Steps, vars, traversal, Publish, LoadGraph, Refused, Begin,
           FetchPage, CursorRejected, FetchRetry, append, link, NextPage, IngestDone, Loop,
           Stop, Cycle, DaemonSaveIngestion, SaveGraph, SyncSaveIngestion, OnCycle,
           Withdraw, WithdrawNothing
  <2> QED BY <1>7, <2>1, <2>2, <2>3, <2>4, <2>5, <2>6, <2>7, <2>8
<1> QED BY <1>5, <1>6, <1>8, <1>9, <1>10 DEF ModelInv

\* Cursors only ever move down over an item that has just been committed.
LEMMA CursorNext == Inv /\ [Next]_vars => CursorInv'
<1> SUFFICES ASSUME Inv, [Next]_vars PROVE CursorInv'
  OBVIOUS
<1> USE ObservationsType
<1>1. /\ ledger \in [Observations -> Outcomes] /\ item \in Observations
      /\ published \in 1..MaxPosts /\ cursor \in 0..MaxPosts /\ top \in 0..MaxPosts
      /\ state \in IngestionState /\ checkpoint \in IngestionState /\ Grows
  BY LedgerGrows DEF Inv, TypeOK
<1>2. Behind(checkpoint.next, checkpoint.top) /\ Behind(state.next, state.top)
      /\ Behind(FromHead.next, FromHead.top) /\ Behind(published, published)
  BY <1>1 DEF Inv, CursorInv, Behind, FromHead
<1>3. \A low, high : Behind(low, high) =>
        (\A i \in Observations : (low < i /\ i <= high) => is_committed(ledger'[i]))
  BY <1>1, GrowsKeeps
<1>4. NextPage => Behind(item - 1, top)
  <2> SUFFICES ASSUME NextPage PROVE Behind(item - 1, top)
    OBVIOUS
  <2>1. Behind(item, top) /\ is_committed(ledger[item])
    BY DEF NextPage, Inv, CursorInv
  <2> QED BY <1>1, <2>1 DEF Behind
<1>5. Behind(state.next, state.top)'
  <2>1. \/ state' \in {state, checkpoint, FromHead}
        \/ NextPage /\ state' = [next |-> item - 1, top |-> top]
    BY DEF Next, Steps, vars, Publish, LoadGraph, Acquire, Refused, Exit, Crash, Gone, Begin,
           FetchPage, CursorRejected, FetchRetry, append, link, remember, set_outcome,
           NextPage, IngestDone, Loop, Stop, Cycle, DaemonSaveIngestion, SaveGraph,
           SyncSaveIngestion, OnCycle, Withdraw, WithdrawNothing, Rebuild
  <2>2. Behind(state'.next, state'.top)
    BY <1>2, <1>4, <2>1
  <2> QED BY <1>3, <2>2 DEF Behind
<1>6. Behind(checkpoint.next, checkpoint.top)'
  <2>1. checkpoint' \in {state, checkpoint}
    BY DEF Next, Steps, vars, disk, Publish, LoadGraph, Acquire, Refused, Exit, Crash, Begin,
           FetchPage, CursorRejected, FetchRetry, append, link, remember, set_outcome,
           NextPage, IngestDone, Loop, Stop, Cycle, DaemonSaveIngestion, SaveGraph,
           SyncSaveIngestion, OnCycle, Withdraw, WithdrawNothing, Rebuild
  <2>2. Behind(checkpoint'.next, checkpoint'.top)
    BY <1>2, <2>1
  <2> QED BY <1>3, <2>2 DEF Behind
<1> DEFINE Walk == cmd \in {"daemon", "sync"} =>
              /\ pc = "fetch" /\ cursor # 0 => Behind(cursor, top)
              /\ pc \in {"append", "train", "outcome", "link", "next"} => Behind(item, top)
              /\ pc \in {"link", "next"} => is_committed(ledger[item])
<1> SUFFICES Walk'
  BY <1>5, <1>6 DEF CursorInv
<1>7. Walk
  BY DEF Inv, CursorInv
<1>8. CASE Begin
  BY <1>2, <1>3, <1>8 DEF Begin, Behind
<1>9. CASE FetchPage
  <2>1. Behind(item', top') \/ cmd \notin {"daemon", "sync"}
    BY <1>2, <1>7, <1>9 DEF FetchPage
  <2> QED BY <1>3, <1>9, <2>1 DEF FetchPage, owner, Behind
<1>10. CASE CursorRejected
  BY <1>2, <1>3, <1>10 DEF CursorRejected, Behind
<1>11. CASE append \/ remember \/ set_outcome \/ link
  <2>1. /\ pc \in {"append", "train", "outcome", "link"}
        /\ pc' \in {"train", "outcome", "link", "next"}
        /\ UNCHANGED <<cmd, item, top>>
        /\ pc' \in {"link", "next"} => is_committed(ledger'[item]) \/ pc = "link"
    BY <1>1, <1>11 DEF append, remember, set_outcome, link, owner, traversal, is_committed
  <2>2. cmd \in {"daemon", "sync"} =>
          /\ Behind(item, top)
          /\ pc = "link" => is_committed(ledger'[item])
    BY <1>1, <1>7, <2>1 DEF Grows
  <2> QED BY <1>3, <2>1, <2>2 DEF Behind
<1>12. CASE NextPage
  BY <1>3, <1>4, <1>12 DEF NextPage, Behind
<1>13. ASSUME NEW p \in Procs, Acquire(p) PROVE Walk'
  BY <1>13, CommandsAssumption DEF Acquire, EntryPoint
<1>14. CASE UNCHANGED <<pc, cmd, cursor, item, top>>
  <2>1. is_committed(ledger[item]) => is_committed(ledger'[item])
    BY <1>1 DEF Grows
  <2> QED BY <1>3, <1>7, <1>14, <2>1 DEF Behind
<1>15. CASE pc' \notin {"fetch", "append", "train", "outcome", "link", "next"}
  BY <1>15
<1>16. \/ Begin \/ FetchPage \/ CursorRejected \/ append \/ remember \/ set_outcome \/ link
       \/ NextPage \/ (\E p \in Procs : Acquire(p))
       \/ UNCHANGED <<pc, cmd, cursor, item, top>>
       \/ pc' \notin {"fetch", "append", "train", "outcome", "link", "next"}
  BY DEF Next, Steps, vars, owner, traversal, Publish, LoadGraph, Refused, Exit, Crash, Gone,
         FetchRetry, IngestDone, Loop, Stop, Cycle, DaemonSaveIngestion, SaveGraph,
         SyncSaveIngestion, OnCycle, Withdraw, WithdrawNothing, Rebuild
<1> QED BY <1>8, <1>9, <1>10, <1>11, <1>12, <1>13, <1>14, <1>15, <1>16

LEMMA InvNext == Inv /\ [Next]_vars => Inv'
BY TypeNext, ItemNext, ModelNext, CursorNext DEF Inv

\* The ingestion state is well typed for any timeline and any failures.
THEOREM IngestionTypeCorrect == Spec => []TypeOK
<1>1. Inv => TypeOK
  BY DEF Inv
<1> QED BY <1>1, InvInit, InvNext, PTL DEF Spec

\* However often processes die and retry, no model, in memory or on disk, is
\* trained twice on an observation (engine.cpp's append before train, and
\* saves only between observations).
THEOREM NoDoubleTraining == Spec => []TrainedOnce
<1>1. Inv => TrainedOnce
  BY DEF Inv, ModelInv, SettledIn, TrainedOnce
<1> QED BY <1>1, InvInit, InvNext, PTL DEF Spec

\* Whatever a saved model learned from is settled in the ledger.
THEOREM SavedModelIsSettled == Spec => []SnapshotIsSettled
<1>1. Inv => SnapshotIsSettled
  BY DEF Inv, ModelInv, SettledIn, SnapshotIsSettled
<1> QED BY <1>1, InvInit, InvNext, PTL DEF Spec

\* The saved cursor has only committed posts behind it (run_sync moves it once
\* per run, after every page of the run was processed).
THEOREM CursorSafety == Spec => []CursorIsCovered
<1>1. Inv => CursorIsCovered
  BY DEF Inv, CursorInv, Behind, CursorIsCovered
<1> QED BY <1>1, InvInit, InvNext, PTL DEF Spec

\* What the owner has read, replayed or saved of the model is in its memory, or
\* was withdrawn since.
KeptInv ==
    pc # "off" => \A i \in Observations :
        base[i] > 0 => graph[i] > 0 \/ ledger[i] = "withdrawn"

LEMMA KeptNext == Inv /\ KeptInv /\ [Next]_vars => KeptInv'
<1> SUFFICES ASSUME Inv, KeptInv, [Next]_vars PROVE KeptInv'
  OBVIOUS
<1>1. /\ ledger \in [Observations -> Outcomes] /\ item \in Observations
      /\ graph \in [Observations -> Nat] /\ base \in [Observations -> Nat]
  BY ObservationsType DEF Inv, TypeOK, Graph
<1>2. \A i \in Observations : ledger[i] = "withdrawn" => ledger'[i] = "withdrawn"
  <2>1. CASE append
    BY <1>1, <2>1 DEF append, is_committed
  <2>2. CASE set_outcome
    <3>1. ledger[item] = "pending"
      BY <2>2 DEF Inv, ItemInv, set_outcome
    <3> QED BY <1>1, <2>2, <3>1 DEF set_outcome
  <2>3. CASE Withdraw
    BY <1>1, <2>3 DEF Withdraw
  <2>4. append \/ set_outcome \/ Withdraw \/ ledger' = ledger
    BY DEF Next, Steps, vars, disk, world, Publish, LoadGraph, Acquire, Refused, Exit, Crash,
           Begin, FetchPage, CursorRejected, FetchRetry, link, remember, NextPage, IngestDone,
           Loop, Stop, Cycle, DaemonSaveIngestion, SaveGraph, SyncSaveIngestion, OnCycle,
           WithdrawNothing, Rebuild
  <2> QED BY <2>1, <2>2, <2>3, <2>4
<1>3. CASE base' = graph'
  <2>1. graph' \in [Observations -> Nat]
    BY TypeNext DEF Inv, TypeOK, Graph
  <2> QED BY <1>3, <2>1 DEF KeptInv
<1>4. CASE pc' = "off"
  BY <1>4 DEF KeptInv
<1>5. CASE base' = base /\ pc # "off"
           /\ \A i \in Observations : graph[i] > 0 => graph'[i] > 0
  BY <1>2, <1>5 DEF KeptInv
<1>6. CASE UNCHANGED <<base, graph, pc, ledger>>
  BY <1>6 DEF KeptInv
<1>7. \/ base' = graph' \/ pc' = "off"
      \/ base' = base /\ pc # "off"
            /\ \A i \in Observations : graph[i] > 0 => graph'[i] > 0
      \/ UNCHANGED <<base, graph, pc, ledger>>
  <2>1. CASE remember
    <3>1. graph' = IF item \in Eligible THEN [graph EXCEPT ![item] = @ + 1] ELSE graph
      BY <2>1 DEF remember
    <3>2. ASSUME NEW i \in Observations, graph[i] > 0 PROVE graph'[i] > 0
      <4>1. CASE item \in Eligible /\ i = item
        BY <1>1, <3>1, <3>2, <4>1
      <4>2. CASE ~(item \in Eligible /\ i = item)
        BY <1>1, <3>1, <3>2, <4>2
      <4> QED BY <4>1, <4>2
    <3> QED BY <2>1, <3>2 DEF remember
  <2>2. CASE \E p \in Procs : LoadGraph(p) \/ Refused(p)
    BY <2>2 DEF LoadGraph, Refused, disk
  <2>3. CASE \E p \in Procs : Acquire(p)
    BY <2>3 DEF Acquire
  <2>4. CASE Publish \/ UNCHANGED vars
    BY <2>4 DEF Publish, vars, disk
  <2>5. CASE Exit \/ Crash \/ SaveGraph \/ Rebuild
    BY <2>5 DEF Exit, Crash, Gone, SaveGraph, Rebuild
  <2>6. CASE UNCHANGED <<base, graph>> /\ pc # "off"
    BY <2>6
  <2>7. \/ remember \/ (\E p \in Procs : LoadGraph(p) \/ Acquire(p) \/ Refused(p))
        \/ Publish \/ UNCHANGED vars \/ Exit \/ Crash \/ SaveGraph \/ Rebuild
        \/ UNCHANGED <<base, graph>> /\ pc # "off"
    BY DEF Next, Steps, Begin, FetchPage, CursorRejected, FetchRetry, append, link,
           set_outcome, NextPage, IngestDone, Loop, Stop, Cycle, DaemonSaveIngestion,
           SyncSaveIngestion, OnCycle, Withdraw, WithdrawNothing
  <2> QED BY <2>1, <2>2, <2>3, <2>4, <2>5, <2>6, <2>7
<1> QED BY <1>3, <1>4, <1>5, <1>6, <1>7

\* For any number of commands that overlap and die at will: no save loses what its
\* own process had read, replayed or saved before, except what was withdrawn
\* (main.cpp's load, save_graph, run_rebuild).  What another process saved in the
\* meantime is the exception the property states.
THEOREM NothingSeenIsLost == Spec => SnapshotKeepsLearned
<1>1. Init => Inv /\ KeptInv
  BY InvInit DEF Init, KeptInv
<1>2. Inv /\ KeptInv /\ [Next]_vars => (Inv /\ KeptInv)'
  BY InvNext, KeptNext
<1>3. Inv /\ KeptInv /\ [Next]_vars =>
        [\A i \in Observations :
           snapshot[i] > 0 /\ snapshot'[i] = 0 =>
               ledger[i] = "withdrawn" \/ base[i] = 0]_vars
  <2> SUFFICES ASSUME Inv, KeptInv, [Next]_vars, NEW i \in Observations,
                      snapshot[i] > 0, snapshot'[i] = 0
               PROVE  ledger[i] = "withdrawn" \/ base[i] = 0
    OBVIOUS
  <2>1. SaveGraph \/ snapshot' = snapshot
    BY DEF Next, Steps, vars, disk, Publish, LoadGraph, Acquire, Refused, Exit, Crash, Begin,
         FetchPage, CursorRejected, FetchRetry, append, link, remember, set_outcome, NextPage,
         IngestDone, Loop, Stop, Cycle, DaemonSaveIngestion, SyncSaveIngestion, OnCycle,
         Withdraw, WithdrawNothing, Rebuild
  <2>2. graph[i] = 0 /\ pc # "off"
    BY <2>1 DEF SaveGraph
  <2>3. base[i] \in Nat
    BY DEF Inv, TypeOK, Graph
  <2> QED BY <2>2, <2>3 DEF KeptInv
<1> QED
  BY <1>1, <1>2, <1>3, PTL DEF Spec, SnapshotKeepsLearned
=============================================================================
