--------------------------- MODULE OutboundProofs ---------------------------
(***************************************************************************)
(* Proofs about Outbound, for every set of actions and every limit: types, *)
(* what the journal accounts for, how far failures go and how far the      *)
(* admissions.  Each is an invariant of its own on top of the same facts   *)
(* about the processes (Typed): where an attempt may stand, who has the    *)
(* lock, and how many spool numbers the runs can still use.                *)
(***************************************************************************)
EXTENDS Outbound, FiniteSetTheorems, NaturalsInduction, WellFoundedInduction, TLAPS

Attempt == {"gate", "resolve", "put", "unspool", "charge", "record", "settle"}

\* A run that has not spooled its own action yet.
Unspent(r) ==
    IF \/ r.pc \in {"drain", "decide", "select", "lock", "gate", "resolve"}
       \/ r.via = "drain"
    THEN 1 ELSE 0

\* Where a program may stand, and with what in hand.
ShapeOf(p, r) ==
    /\ r.pc = "idle" => r = Idle
    /\ r.pc \in Attempt \union {"lock"} => r.act \in Actions /\ r.via # None
    /\ r.pc \in {"drain", "decide", "select"} => p = "daemon" /\ r.via = None
    /\ r.pc = "close" => r.via = "proposal"
    /\ r.via = "proposal" => p = "daemon" /\ r.act \in Proposed
    /\ r.via = "file" => p = "publish"
    /\ r.via = "drain" => p = "daemon" /\ r.pc \in Attempt \ {"unspool"}
    /\ r.pc \in {"record", "settle"} => r.outcome \in Outcomes

Shape == \A p \in Procs : ShapeOf(p, proc[p])

\* Every attempt but a replay has the outbound lock.
Locking(r) == r.pc \in Attempt /\ r.via # "drain"
Locked == \A p \in Procs : Locking(proc[p]) => lock = p

\* A run spools one entry at most.
Room ==
    \A n \in DOMAIN pending \union {0} :
        n + Unspent(proc["daemon"]) + Unspent(proc["publish"]) <= runs

Typed == TypeOK /\ Shape /\ Locked /\ Room
-----------------------------------------------------------------------------
(* Sets of numbers, spools, the budget and the breaker.                    *)

LEMMA Greatest ==
    ASSUME NEW N \in Nat, NEW S \in SUBSET (0..N), S # {}
    PROVE  \E n \in S : \A m \in S : m <= n
<1> DEFINE T == {N - m : m \in S}
<1>1. IsWellFoundedOn(OpToRel(<, Nat), Nat)
  BY NatLessThanWellFounded
<1>2. T \subseteq Nat /\ T # {}
  <2>1. \A m \in S : N - m \in Nat
    OBVIOUS
  <2> QED BY <2>1
<1>3. PICK t \in T : \A u \in T : ~(<<u, t>> \in OpToRel(<, Nat))
  BY <1>1, <1>2, WFMin
<1>4. \A u \in T : ~(u < t)
  BY <1>2, <1>3 DEF OpToRel
<1>5. PICK n \in S : t = N - n
  BY <1>3
<1>6. \A m \in S : N - m \in T
  OBVIOUS
<1> HIDE DEF T
<1>7. \A m \in S : ~(N - m < N - n)
  BY <1>4, <1>5, <1>6
<1> QED BY <1>7

LEMMA NumberedDef ==
    ASSUME NEW n \in Nat, NEW V, NEW f
    PROVE  f \in Numbered(n, V) <=> DOMAIN f \subseteq 1..n /\ f \in [DOMAIN f -> V]
BY DEF Numbered

LEMMA NumberedEmpty ==
    ASSUME NEW n \in Nat, NEW V
    PROVE  <<>> \in Numbered(n, V) /\ DOMAIN <<>> = {}
<1>1. <<>> \in Seq(V) /\ Len(<<>>) = 0
  OBVIOUS
<1>2. DOMAIN <<>> = 1..0
  BY <1>1
<1>3. <<>> \in [1..0 -> V]
  BY <1>1
<1>4. 1..0 \in SUBSET (1..n) /\ 1..0 = {}
  OBVIOUS
<1> QED BY <1>2, <1>3, <1>4 DEF Numbered

LEMMA NextSeqType ==
    ASSUME NEW s \in Spools
    PROVE  /\ NextSeq(s) \in Nat /\ NextSeq(s) - 1 \in DOMAIN s \union {0}
           /\ \A n \in DOMAIN s : n < NextSeq(s)
<1> DEFINE S == DOMAIN s \union {0}
<1>1. MaxRuns \in Nat
  BY OutboundAssumption
<1>2. S \in SUBSET (0..MaxRuns) /\ S # {}
  BY <1>1, NumberedDef DEF Spools
<1>3. \E n \in S : \A m \in S : m <= n
  BY <1>1, <1>2, Greatest
<1> DEFINE top == CHOOSE n \in S : \A m \in DOMAIN s : m <= n
<1>4. \E n \in S : \A m \in DOMAIN s : m <= n
  BY <1>3
<1>5. top \in S /\ \A m \in DOMAIN s : m <= top
  BY <1>4
<1>6. NextSeq(s) = 1 + top
  BY DEF NextSeq
<1> HIDE DEF top
<1> QED BY <1>1, <1>2, <1>5, <1>6

LEMMA SpoolTypes ==
    ASSUME NEW s \in Spools
    PROVE  /\ <<>> \in Spools
           /\ \A n : /\ Without(s, n) \in Spools /\ DOMAIN Without(s, n) = DOMAIN s \ {n}
                     /\ \A m \in DOMAIN s \ {n} : Without(s, n)[m] = s[m]
           /\ \A a \in Actions :
                 /\ DOMAIN spool_append(s, a) = DOMAIN s \union {NextSeq(s)}
                 /\ spool_append(s, a)[NextSeq(s)] = a
                 /\ \A m \in DOMAIN s : spool_append(s, a)[m] = s[m]
                 /\ NextSeq(s) <= MaxRuns => spool_append(s, a) \in Spools
           /\ \A n \in DOMAIN s : n \in 1..MaxRuns /\ s[n] \in Actions
<1>1. MaxRuns \in Nat
  BY OutboundAssumption
<1>2. DOMAIN s \subseteq 1..MaxRuns /\ s \in [DOMAIN s -> Actions]
  BY <1>1, NumberedDef DEF Spools
<1>3. <<>> \in Spools
  BY <1>1, NumberedEmpty DEF Spools
<1>4. ASSUME NEW n
      PROVE  /\ Without(s, n) \in Spools /\ DOMAIN Without(s, n) = DOMAIN s \ {n}
             /\ \A m \in DOMAIN s \ {n} : Without(s, n)[m] = s[m]
  <2>1. Without(s, n) = [m \in DOMAIN s \ {n} |-> s[m]]
    BY DEF Without, Restrict
  <2>2. Without(s, n) \in [DOMAIN s \ {n} -> Actions]
    BY <1>2, <2>1
  <2> QED BY <1>1, <1>2, <2>1, <2>2, NumberedDef DEF Spools
<1>5. ASSUME NEW a \in Actions
      PROVE  /\ DOMAIN spool_append(s, a) = DOMAIN s \union {NextSeq(s)}
             /\ spool_append(s, a)[NextSeq(s)] = a
             /\ \A m \in DOMAIN s : spool_append(s, a)[m] = s[m]
             /\ NextSeq(s) <= MaxRuns => spool_append(s, a) \in Spools
  <2>1. NextSeq(s) \in Nat \ {0} /\ \A m \in DOMAIN s : m # NextSeq(s)
    BY <1>1, <1>2, NextSeqType
  <2>2. spool_append(s, a) =
          [m \in DOMAIN s \union {NextSeq(s)} |-> IF m = NextSeq(s) THEN a ELSE s[m]]
    BY DEF spool_append, With
  <2>3. ASSUME NextSeq(s) <= MaxRuns PROVE spool_append(s, a) \in Spools
    <3>1. DOMAIN s \union {NextSeq(s)} \subseteq 1..MaxRuns
      BY <1>1, <1>2, <2>1, <2>3
    <3>2. spool_append(s, a) \in [DOMAIN s \union {NextSeq(s)} -> Actions]
      BY <1>2, <2>2
    <3> QED BY <1>1, <3>1, <3>2, NumberedDef DEF Spools
  <2> QED BY <2>1, <2>2, <2>3
<1> QED BY <1>1, <1>2, <1>3, <1>4, <1>5

LEMMA Appended ==
    ASSUME NEW s \in Spools, NEW a \in Actions, NEW t, t = spool_append(s, a)
    PROVE  /\ \A m \in DOMAIN s : m \in DOMAIN t /\ t[m] = s[m]
           /\ NextSeq(s) \in DOMAIN t /\ t[NextSeq(s)] = a
<1>1. /\ DOMAIN spool_append(s, a) = DOMAIN s \union {NextSeq(s)}
      /\ spool_append(s, a)[NextSeq(s)] = a
      /\ \A m \in DOMAIN s : spool_append(s, a)[m] = s[m]
  BY SpoolTypes
<1> QED BY <1>1

LEMMA WithTypes ==
    ASSUME NEW s \in Spools, NEW n \in 1..MaxRuns, NEW a \in Actions
    PROVE  With(s, n, a) \in Spools
<1>1. MaxRuns \in Nat
  BY OutboundAssumption
<1>2. DOMAIN s \subseteq 1..MaxRuns /\ s \in [DOMAIN s -> Actions]
  BY <1>1, NumberedDef DEF Spools
<1>3. /\ DOMAIN With(s, n, a) = DOMAIN s \union {n}
      /\ With(s, n, a) \in [DOMAIN s \union {n} -> Actions]
  BY <1>2 DEF With
<1>4. DOMAIN With(s, n, a) \subseteq 1..MaxRuns
  BY <1>2, <1>3
<1> QED BY <1>1, <1>3, <1>4, NumberedDef DEF Spools

LEMMA Removed ==
    ASSUME NEW s \in Spools, NEW n, NEW t, t = Without(s, n)
    PROVE  DOMAIN t = DOMAIN s \ {n} /\ \A m \in DOMAIN s \ {n} : t[m] = s[m]
<1>1. /\ DOMAIN Without(s, n) = DOMAIN s \ {n}
      /\ \A m \in DOMAIN s \ {n} : Without(s, n)[m] = s[m]
  BY SpoolTypes
<1> QED BY <1>1

\* Budgets of at most n admissions.
BudgetsOf(n) ==
    [last : Time \union {NoTime}, count : 0..n, recent : Numbered(n, Time),
     dups : Numbered(n, [key : Actions, at : Time])]

Horizon == LargerOf(LargerOf(Window, MinInterval), 1)

LEMMA Constants ==
    /\ MaxTime \in Nat /\ MaxRuns \in Nat /\ Window \in Nat \ {0} /\ MinInterval \in Nat
    /\ DupCooldown \in Nat /\ MaxRecords \in Nat \ {0} /\ MaxInWindow \in Nat \ {0}
    /\ Time \subseteq Nat /\ 0 \in Time /\ NoTime = -1
    /\ Horizon \in Nat /\ Horizon >= Window /\ Horizon >= MinInterval
BY OutboundAssumption DEF Time, NoTime, Horizon, LargerOf

\* The records that a limit asked at `now` could look at.
LiveActs(b, now) == {m \in DOMAIN b.recent : b.recent[m] >= now - Horizon}
LiveDups(b, now) ==
    {m \in DOMAIN b.dups : DupCooldown > 0 /\ b.dups[m].at >= now - DupCooldown}

\* What is left of a budget's records when it is pruned.
LEMMA PruneKeeps ==
    ASSUME NEW n \in Nat, NEW b \in BudgetsOf(n), NEW now \in Int
    PROVE  LET r == prune_kind(b, now)
           IN  /\ r \in BudgetsOf(n) /\ r.last = b.last /\ r.count = b.count
               /\ DOMAIN r.recent = keep_last(LiveActs(b, now))
               /\ DOMAIN r.dups = keep_last(LiveDups(b, now))
               /\ \A m \in DOMAIN r.recent : m \in DOMAIN b.recent /\ r.recent[m] = b.recent[m]
               /\ \A m \in DOMAIN r.dups : m \in DOMAIN b.dups /\ r.dups[m] = b.dups[m]
<1> DEFINE r == prune_kind(b, now)
           A == keep_last(LiveActs(b, now))
           D == keep_last(LiveDups(b, now))
           ra == [m \in A |-> b.recent[m]]
           rd == [m \in D |-> b.dups[m]]
<1>1. b.recent \in Numbered(n, Time) /\ b.dups \in Numbered(n, [key : Actions, at : Time])
  BY DEF BudgetsOf
<1>2. /\ DOMAIN b.recent \subseteq 1..n /\ b.recent \in [DOMAIN b.recent -> Time]
      /\ DOMAIN b.dups \subseteq 1..n /\ b.dups \in [DOMAIN b.dups -> [key : Actions, at : Time]]
  BY <1>1, NumberedDef
<1>3. A \subseteq DOMAIN b.recent /\ D \subseteq DOMAIN b.dups
  BY DEF keep_last, LiveActs, LiveDups
<1>4. r = [b EXCEPT !.recent = ra, !.dups = rd]
  BY DEF prune_kind, Restrict, Horizon, LiveActs, LiveDups
<1> HIDE DEF A, D
<1>5. ra \in [A -> Time] /\ rd \in [D -> [key : Actions, at : Time]]
  BY <1>2, <1>3
<1>6. ra \in Numbered(n, Time) /\ rd \in Numbered(n, [key : Actions, at : Time])
  BY <1>2, <1>3, <1>5 DEF Numbered
<1>7. DOMAIN ra = A /\ DOMAIN rd = D /\ (\A m \in A : ra[m] = b.recent[m])
      /\ (\A m \in D : rd[m] = b.dups[m])
  OBVIOUS
<1> HIDE DEF ra, rd, r
<1>8. r \in BudgetsOf(n) /\ r.last = b.last /\ r.count = b.count /\ r.recent = ra /\ r.dups = rd
  BY <1>4, <1>6 DEF BudgetsOf
<1>9. /\ DOMAIN r.recent = A /\ DOMAIN r.dups = D
      /\ \A m \in A : m \in DOMAIN b.recent /\ r.recent[m] = b.recent[m]
      /\ \A m \in D : m \in DOMAIN b.dups /\ r.dups[m] = b.dups[m]
  BY <1>3, <1>7, <1>8
<1> QED BY <1>8, <1>9 DEF r, A, D

\* The budget with the admission noted and nothing forgotten yet.
Noted(b, a, at) ==
    LET n == b.count + 1
        others == {m \in DOMAIN b.dups : b.dups[m].key # a}
    IN  [last |-> at, count |-> n,
         recent |-> [m \in DOMAIN b.recent \union {n} |-> IF m = n THEN at ELSE b.recent[m]],
         dups |-> [m \in others \union {n} |->
                      IF m = n THEN [key |-> a, at |-> at] ELSE b.dups[m]]]

LEMMA NotedType ==
    ASSUME NEW n \in Nat, NEW b \in BudgetsOf(n), NEW a \in Actions, NEW at \in Time
    PROVE  Noted(b, a, at) \in BudgetsOf(n + 1)
<1> DEFINE k == b.count + 1
           R == DOMAIN b.recent \union {k}
           D == {m \in DOMAIN b.dups : b.dups[m].key # a} \union {k}
           nr == [m \in R |-> IF m = k THEN at ELSE b.recent[m]]
           nd == [m \in D |-> IF m = k THEN [key |-> a, at |-> at] ELSE b.dups[m]]
<1>1. /\ b.recent \in Numbered(n, Time) /\ b.dups \in Numbered(n, [key : Actions, at : Time])
      /\ b.count \in 0..n
  BY DEF BudgetsOf
<1>2. /\ DOMAIN b.recent \subseteq 1..n /\ b.recent \in [DOMAIN b.recent -> Time]
      /\ DOMAIN b.dups \subseteq 1..n /\ b.dups \in [DOMAIN b.dups -> [key : Actions, at : Time]]
  BY <1>1, NumberedDef
<1>3. R \in SUBSET (1..(n + 1)) /\ D \in SUBSET (1..(n + 1)) /\ k \in 0..(n + 1)
  BY <1>1, <1>2
<1>4. nr \in [R -> Time] /\ nd \in [D -> [key : Actions, at : Time]]
  BY <1>2
<1>5. nr \in Numbered(n + 1, Time) /\ nd \in Numbered(n + 1, [key : Actions, at : Time])
  BY <1>3, <1>4 DEF Numbered
<1>6. Noted(b, a, at) = [last |-> at, count |-> k, recent |-> nr, dups |-> nd]
  BY DEF Noted
<1> HIDE DEF nr, nd, k
<1> QED BY <1>3, <1>5, <1>6 DEF BudgetsOf

LEMMA RecordIs ==
    ASSUME NEW b, NEW a, NEW now
    PROVE  record_outbound_action(b, a, now) =
             prune_kind(Noted(b, a, AdmissionTime(b, now)), AdmissionTime(b, now))
BY DEF record_outbound_action, Noted

LEMMA RecordType ==
    ASSUME NEW n \in Nat, NEW b \in BudgetsOf(n), NEW a \in Actions, NEW now \in Time
    PROVE  LET r == record_outbound_action(b, a, now)
           IN  /\ r \in BudgetsOf(n + 1) /\ r.last = AdmissionTime(b, now)
               /\ AdmissionTime(b, now) \in Time /\ AdmissionTime(b, now) >= now
               /\ AdmissionTime(b, now) >= b.last
               /\ r.count = b.count + 1
<1> DEFINE at == AdmissionTime(b, now)
<1>1. at \in Time /\ at >= now /\ at >= b.last
  <2>1. b.last \in Time \union {NoTime}
    BY DEF BudgetsOf
  <2>2. now \in Nat
    BY Constants
  <2>3. b.last \in Int
    BY <2>1, OutboundAssumption DEF NoTime, Time
  <2> QED BY <2>1, <2>2, <2>3 DEF AdmissionTime, LargerOf, NoTime
<1>2. Noted(b, a, at) \in BudgetsOf(n + 1)
  BY <1>1, NotedType
<1>3. Noted(b, a, at).last = at /\ Noted(b, a, at).count = b.count + 1
  BY DEF Noted
<1>4. at \in Int /\ n + 1 \in Nat
  <2>1. at \in Nat
    BY <1>1, Constants
  <2> QED BY <2>1
<1> HIDE DEF at
<1> DEFINE r == prune_kind(Noted(b, a, at), at)
<1>5. r \in BudgetsOf(n + 1) /\ r.last = at /\ r.count = b.count + 1
  BY <1>2, <1>3, <1>4, PruneKeeps
<1>6. record_outbound_action(b, a, now) = r
  BY RecordIs DEF at
<1> QED BY <1>1, <1>5, <1>6 DEF at

LEMMA BudgetGrows ==
    ASSUME NEW n \in Nat, NEW b \in BudgetsOf(n)
    PROVE  b \in BudgetsOf(n + 1) /\ FreshBudget \in BudgetsOf(n)
<1>1. b.recent \in Numbered(n, Time) /\ b.dups \in Numbered(n, [key : Actions, at : Time])
  BY DEF BudgetsOf
<1>2. b.recent \in Numbered(n + 1, Time) /\ b.dups \in Numbered(n + 1, [key : Actions, at : Time])
  BY <1>1 DEF Numbered
<1>3. <<>> \in Numbered(n, Time) /\ <<>> \in Numbered(n, [key : Actions, at : Time])
  BY NumberedEmpty
<1> QED BY <1>2, <1>3 DEF BudgetsOf, FreshBudget

LEMMA BreakerTypes ==
    ASSUME NEW b \in Breaker, NEW a \in Proposed, NEW now \in Time
    PROVE  /\ ClosedBreaker \in Breaker /\ record_success(b, a) \in Breaker
           /\ record_failure(b, a, now) \in Breaker
           /\ \A Q : retain_proposals(b, Q) \in Breaker
<1>1. now \in Nat /\ BaseCooldown \in Nat /\ MaxCooldown \in Nat /\ b.cooldown \in Nat
      /\ b.consecutive \in Nat /\ b.open_until \in Nat /\ b.failures \in [Proposed -> Nat]
  BY OutboundAssumption, Constants DEF Breaker
<1>2. SmallerOf(2 * b.cooldown, MaxCooldown) \in Nat
  BY <1>1 DEF SmallerOf
<1>3. record_failure(b, a, now) \in Breaker
  BY <1>1, <1>2 DEF record_failure, Breaker
<1>4. \A Q : retain_proposals(b, Q) \in Breaker
  BY <1>1 DEF retain_proposals, Breaker
<1> QED BY <1>1, <1>3, <1>4 DEF ClosedBreaker, record_success, Breaker

-----------------------------------------------------------------------------
(* Types and the shape of the processes.                                   *)

\* A step of p leaves it with r.
Moves(p, r) == proc' = [proc EXCEPT ![p] = r]

LEMMA BudgetIs == Budget = BudgetsOf(Len(charged))
BY DEF Budget, BudgetsOf

LEMMA MovesTo ==
    ASSUME Typed, NEW p \in Procs, NEW r, Moves(p, r)
    PROVE  proc'[p] = r /\ \A q \in Procs \ {p} : proc'[q] = proc[q]
BY DEF Typed, TypeOK, Moves

LEMMA GotoMoves ==
    ASSUME Typed, NEW p \in Procs, NEW l, Goto(p, l)
    PROVE  Moves(p, [proc[p] EXCEPT !.pc = l])
BY DEF Typed, TypeOK, Goto, Moves

LEMMA FinishMoves ==
    ASSUME Typed, NEW p \in Procs, NEW o, Finish(p, o)
    PROVE  Moves(p, [proc[p] EXCEPT !.pc = "record", !.outcome = o, !.base = FreshBudget])
BY DEF Typed, TypeOK, Finish, Moves

\* What the types and the shape need of a process that moves.
LEMMA TypedMoves ==
    ASSUME Typed, NEW p \in Procs, NEW r, Moves(p, r), r \in Process', Process \subseteq Process',
           ShapeOf(p, r),
           Locking(r) => lock' = p, lock' = lock \/ lock \in {p, None},
           pending' \in Spools, runs' \in 0..MaxRuns,
           \/ /\ DOMAIN pending' \subseteq DOMAIN pending /\ runs' = runs
              /\ Unspent(r) <= Unspent(proc[p])
           \/ /\ DOMAIN pending' = DOMAIN pending \union {NextSeq(pending)} /\ runs' = runs
              /\ Unspent(r) = 0 /\ Unspent(proc[p]) = 1
           \/ pending' = pending /\ runs' = runs + 1 /\ Unspent(proc[p]) = 0
    PROVE  proc' \in [Procs -> Process'] /\ Shape' /\ Locked' /\ Room'
<1>1. proc \in [Procs -> Process] /\ lock \in Procs \union {None} /\ runs \in 0..MaxRuns
      /\ pending \in Spools
  BY DEF Typed, TypeOK
<1>2. proc'[p] = r /\ \A q \in Procs \ {p} : proc'[q] = proc[q]
  BY MovesTo
<1>3. proc' \in [Procs -> Process']
  BY <1>1 DEF Moves
<1>4. Shape'
  BY <1>2 DEF Typed, Shape
<1>5. Locked'
  BY <1>2 DEF Typed, Locked, Procs, None
<1>6. Room'
  <2>1. \A q \in Procs : Unspent(proc[q]) \in {0, 1} /\ Unspent(r) \in {0, 1}
    BY DEF Unspent
  <2>2. PICK q \in Procs : q # p /\ \A n \in Procs : n \in {p, q}
    BY DEF Procs
  <2>3. \A n \in DOMAIN pending \union {0} :
          n \in Nat /\ n + Unspent(proc[p]) + Unspent(proc[q]) <= runs
    <3>1. \A n \in DOMAIN pending \union {0} : n \in Nat
      BY <1>1, SpoolTypes
    <3>2. (p = "daemon" /\ q = "publish") \/ (p = "publish" /\ q = "daemon")
      BY <2>2 DEF Procs
    <3> QED BY <2>1, <3>1, <3>2 DEF Typed, Room, Procs
  <2>4. runs \in Nat /\ NextSeq(pending) \in Nat /\ NextSeq(pending) - 1 \in DOMAIN pending \union {0}
    BY <1>1, Constants, NextSeqType
  <2>5. \A n \in DOMAIN pending' \union {0} : n + Unspent(r) + Unspent(proc[q]) <= runs'
    <3>1. CASE /\ DOMAIN pending' \subseteq DOMAIN pending /\ runs' = runs
               /\ Unspent(r) <= Unspent(proc[p])
      BY <2>1, <2>2, <2>3, <2>4, <3>1
    <3>2. CASE /\ DOMAIN pending' = DOMAIN pending \union {NextSeq(pending)} /\ runs' = runs
               /\ Unspent(r) = 0 /\ Unspent(proc[p]) = 1
      <4>1. NextSeq(pending) - 1 + 1 + Unspent(proc[q]) <= runs
        BY <2>1, <2>2, <2>3, <2>4, <3>2
      <4>2. ASSUME NEW n \in DOMAIN pending \union {0}
            PROVE  n + Unspent(r) + Unspent(proc[q]) <= runs'
        BY <2>1, <2>2, <2>3, <2>4, <3>2
      <4> QED BY <2>1, <2>4, <3>2, <4>1, <4>2
    <3>3. CASE pending' = pending /\ runs' = runs + 1 /\ Unspent(proc[p]) = 0
      BY <2>1, <2>2, <2>3, <2>4, <3>3
    <3> QED BY <3>1, <3>2, <3>3
  <2>6. \A n \in DOMAIN pending' \union {0} : n \in Nat
    BY SpoolTypes
  <2>7. (p = "daemon" /\ q = "publish") \/ (p = "publish" /\ q = "daemon")
    BY <2>2 DEF Procs
  <2>8. proc'[q] = proc[q]
    BY <1>2, <2>2
  <2> QED BY <1>2, <2>1, <2>5, <2>6, <2>7, <2>8 DEF Room
<1> QED BY <1>3, <1>4, <1>5, <1>6

LEMMA SameProcess == charged' = charged => Process' = Process /\ Budget' = Budget
BY DEF Process, Budget

LEMMA IdleIs ==
    ASSUME Typed, charged' = charged
    PROVE  /\ Idle \in Process' /\ ~Locking(Idle) /\ Unspent(Idle) = 0
           /\ \A p \in Procs : ShapeOf(p, Idle)
<1>1. charged \in Seq([act : Actions, at : Time])
  BY DEF Typed, TypeOK
<1>2. Len(charged) \in Nat
  BY <1>1
<1>3. FreshBudget \in Budget
  <2>1. budget \in BudgetsOf(Len(charged))
    BY BudgetIs DEF Typed, TypeOK
  <2> QED BY <1>2, <2>1, BudgetGrows, BudgetIs
<1>4. ClosedBreaker \in Breaker /\ <<>> \in Spools
  BY Constants, NumberedEmpty DEF ClosedBreaker, Breaker, Spools
<1>5. 0 \in Time /\ 0 \in 0..MaxRuns
  BY Constants
<1>6. Idle \in Process
  BY <1>3, <1>4, <1>5 DEF Idle, Process
<1> QED BY <1>6, SameProcess
       DEF Idle, Locking, Attempt, Unspent, ShapeOf, None

LEMMA ProcFields ==
    ASSUME Typed, NEW p \in Procs
    PROVE  /\ proc[p] \in Process /\ proc[p].now \in Time /\ proc[p].base \in Budget
           /\ proc[p].brk \in Breaker /\ proc[p].todo \in Spools /\ proc[p].entry \in 0..MaxRuns
           /\ ShapeOf(p, proc[p])
           /\ proc[p].act \in Actions \union {NoAction}
BY DEF Typed, TypeOK, Process, Shape

LEMMA FinishKeeps ==
    ASSUME Typed, NEW p \in Procs, NEW o \in Outcomes, proc[p].pc \in Attempt \ {"unspool"}
    PROVE  LET r == [proc[p] EXCEPT !.pc = "record", !.outcome = o, !.base = FreshBudget]
           IN  /\ r \in Process /\ ShapeOf(p, r)
               /\ Locking(r) => Locking(proc[p])
               /\ Unspent(r) <= Unspent(proc[p])
               /\ proc[p].via # "drain" => Unspent(r) = 0
               /\ r.act = proc[p].act /\ r.via = proc[p].via /\ r.entry = proc[p].entry
               /\ r.pc = "record" /\ r.outcome = o /\ r.now = proc[p].now /\ r.todo = proc[p].todo
               /\ r.brk = proc[p].brk
<1> DEFINE r == [proc[p] EXCEPT !.pc = "record", !.outcome = o, !.base = FreshBudget]
<1>1. FreshBudget \in Budget
  <2>1. Len(charged) \in Nat /\ budget \in BudgetsOf(Len(charged))
    BY BudgetIs DEF Typed, TypeOK
  <2> QED BY <2>1, BudgetGrows, BudgetIs
<1>2. proc[p] \in Process /\ ShapeOf(p, proc[p])
  BY ProcFields
<1>3. r \in Process
  BY <1>1, <1>2 DEF Process
<1>4. /\ r.act = proc[p].act /\ r.via = proc[p].via /\ r.entry = proc[p].entry
      /\ r.pc = "record" /\ r.outcome = o /\ r.now = proc[p].now /\ r.todo = proc[p].todo
      /\ r.brk = proc[p].brk
  BY <1>2 DEF Process
<1> HIDE DEF r
<1>5. ShapeOf(p, r)
  BY <1>2, <1>4 DEF ShapeOf, Attempt
<1>6. Locking(r) => Locking(proc[p])
  BY <1>4 DEF Locking, Attempt
<1>7. /\ Unspent(r) <= Unspent(proc[p])
      /\ proc[p].via # "drain" => Unspent(r) = 0
  BY <1>4 DEF Unspent
<1> QED BY <1>3, <1>4, <1>5, <1>6, <1>7 DEF r

\* A run that has not spooled its action finds a number for it.
LEMMA RoomForOne ==
    ASSUME Typed, NEW p \in Procs, Unspent(proc[p]) = 1
    PROVE  NextSeq(pending) \in 1..MaxRuns
<1>1. pending \in Spools /\ runs \in 0..MaxRuns
  BY DEF Typed, TypeOK
<1>2. NextSeq(pending) \in Nat /\ NextSeq(pending) - 1 \in DOMAIN pending \union {0}
      /\ NextSeq(pending) - 1 \in Nat
  <2>1. \A n \in DOMAIN pending \union {0} : n \in Nat
    BY <1>1, SpoolTypes
  <2> QED BY <1>1, <2>1, NextSeqType
<1>3. /\ Unspent(proc["daemon"]) + Unspent(proc["publish"]) >= 1
      /\ Unspent(proc["daemon"]) + Unspent(proc["publish"]) \in Nat
  BY DEF Unspent, Procs
<1>4. NextSeq(pending) - 1 + Unspent(proc["daemon"]) + Unspent(proc["publish"]) <= runs
  BY <1>2 DEF Typed, Room
<1>5. Unspent(proc["daemon"]) \in {0, 1} /\ Unspent(proc["publish"]) \in {0, 1}
  BY DEF Unspent
<1> QED BY <1>1, <1>2, <1>3, <1>4, <1>5, Constants

LEMMA AttemptTyped ==
    ASSUME Typed, NEW p \in Procs, attempt_outbound_action(p)
    PROVE  Typed'
<1> DEFINE a == proc[p].act
           now == proc[p].now
           base == prune_kind(budget, now)
           external == p = "daemon" \/ ExternalPublishing
           verdict == execute_outbound_action(control, base, a, now, external)
           fin(o) == [proc[p] EXCEPT !.pc = "record", !.outcome = o, !.base = FreshBudget]
           res == [proc[p] EXCEPT !.pc = "resolve", !.base = base]
<1>1. /\ proc[p].pc = "gate" /\ charged' = charged /\ runs' = runs /\ lock' = lock
      /\ Process' = Process
  BY SameProcess DEF attempt_outbound_action, At, counters, history
<1>2. /\ proc[p] \in Process /\ now \in Time /\ ShapeOf(p, proc[p]) /\ budget \in Budget
      /\ pending \in Spools /\ runs \in 0..MaxRuns
  BY ProcFields DEF Typed, TypeOK
<1>3. a \in Actions /\ proc[p].via # None /\ Unspent(proc[p]) = 1
  BY <1>1, <1>2 DEF ShapeOf, Attempt, Unspent
<1>4. Locking(proc[p]) => lock = p
  BY DEF Typed, Locked
<1>5. base \in Budget /\ FreshBudget \in Budget
  <2>1. Len(charged) \in Nat
    BY DEF Typed, TypeOK
  <2>2. now \in Int
    BY <1>2, OutboundAssumption DEF Time
  <2>3. budget \in BudgetsOf(Len(charged))
    BY <1>2, BudgetIs
  <2> QED BY <2>1, <2>2, <2>3, PruneKeeps, BudgetGrows, BudgetIs
<1>6. verdict \in {"denied", "deferred", "dry_run", "allow"}
  BY DEF execute_outbound_action
<1> HIDE DEF base, verdict
<1>7. ASSUME NEW o \in Outcomes
      PROVE  /\ fin(o) \in Process /\ ShapeOf(p, fin(o))
             /\ Locking(fin(o)) => Locking(proc[p])
             /\ Unspent(fin(o)) <= Unspent(proc[p])
             /\ proc[p].via # "drain" => Unspent(fin(o)) = 0
  BY <1>1, FinishKeeps DEF Attempt
<1>8. /\ res \in Process /\ ShapeOf(p, res) /\ Unspent(res) = 1
      /\ Locking(res) => Locking(proc[p])
  <2>1. res \in Process
    BY <1>2, <1>5 DEF Process
  <2>2. res.pc = "resolve" /\ res.act = a /\ res.via = proc[p].via
    BY <1>2 DEF Process
  <2> QED BY <1>1, <1>2, <1>3, <2>1, <2>2 DEF ShapeOf, Attempt, Locking, Unspent
<1>9. CASE /\ control.offline_mode /\ proc[p].via # "drain"
           /\ pending' = spool_append(pending, a) /\ Finish(p, "dry_run")
  <2>1. Moves(p, fin("dry_run")) /\ "dry_run" \in Outcomes
    BY <1>9, FinishMoves DEF Outcomes
  <2>2. Locking(proc[p]) /\ lock = p
    BY <1>1, <1>4, <1>9 DEF Locking, Attempt
  <2>3. NextSeq(pending) <= MaxRuns
    BY <1>3, RoomForOne, Constants
  <2>4. pending' \in Spools /\ DOMAIN pending' = DOMAIN pending \union {NextSeq(pending)}
    BY <1>2, <1>3, <1>9, <2>3, SpoolTypes
  <2>5. Unspent(fin("dry_run")) = 0
    BY <1>7, <1>9, <2>1
  <2> HIDE DEF fin
  <2>6. proc' \in [Procs -> Process'] /\ Shape' /\ Locked' /\ Room'
    BY <1>1, <1>2, <1>3, <1>7, <2>1, <2>2, <2>4, <2>5, TypedMoves
  <2> QED BY <2>4, <2>6, SameProcess DEF attempt_outbound_action, Typed, TypeOK, counters, history
<1>10. CASE /\ ~control.offline_mode \/ proc[p].via = "drain"
            /\ IF verdict = "allow"
               THEN proc' = [proc EXCEPT ![p].pc = "resolve", ![p].base = base]
               ELSE Finish(p, verdict)
            /\ UNCHANGED pending
  <2>1. CASE verdict = "allow"
    <3>1. Moves(p, res)
      BY <1>10, <2>1 DEF Moves, Typed, TypeOK
    <3> HIDE DEF res
    <3>2. proc' \in [Procs -> Process'] /\ Shape' /\ Locked' /\ Room'
      BY <1>1, <1>2, <1>3, <1>4, <1>8, <1>10, <3>1, TypedMoves
    <3> QED BY <1>10, <3>2, SameProcess
           DEF attempt_outbound_action, Typed, TypeOK, counters, history
  <2>2. CASE verdict # "allow"
    <3>1. Moves(p, fin(verdict)) /\ verdict \in Outcomes
      BY <1>6, <1>10, <2>2, FinishMoves DEF Outcomes
    <3> HIDE DEF fin
    <3>2. proc' \in [Procs -> Process'] /\ Shape' /\ Locked' /\ Room'
      BY <1>1, <1>2, <1>3, <1>4, <1>7, <1>10, <3>1, TypedMoves
    <3> QED BY <1>10, <3>2, SameProcess
           DEF attempt_outbound_action, Typed, TypeOK, counters, history
  <2> QED BY <2>1, <2>2
<1> QED BY <1>9, <1>10 DEF attempt_outbound_action, base, verdict

LEMMA ToIdle ==
    ASSUME Typed, NEW p \in Procs, Moves(p, Idle), charged' = charged, pending' = pending,
           runs' = runs, lock' = lock \/ lock \in {p, None}
    PROVE  proc' \in [Procs -> Process'] /\ Shape' /\ Locked' /\ Room'
<1>1. pending \in Spools /\ runs \in 0..MaxRuns
  BY DEF Typed, TypeOK
<1>2. 0 <= Unspent(proc[p])
  BY DEF Unspent
<1> QED BY <1>1, <1>2, IdleIs, SameProcess, TypedMoves

LEMMA GotoKeeps ==
    ASSUME Typed, NEW p \in Procs,
           NEW l \in {"decide", "gate", "put", "unspool", "charge", "record", "settle", "close"}
    PROVE  LET r == [proc[p] EXCEPT !.pc = l]
           IN  /\ r \in Process /\ r.pc = l
               /\ r.act = proc[p].act /\ r.via = proc[p].via /\ r.entry = proc[p].entry
               /\ r.outcome = proc[p].outcome /\ r.now = proc[p].now /\ r.todo = proc[p].todo
               /\ r.base = proc[p].base /\ r.brk = proc[p].brk
BY ProcFields DEF Process

LEMMA SessionFailsTyped ==
    ASSUME Typed, NEW p \in Procs, SessionFails(p)
    PROVE  Typed'
<1>1. Moves(p, Idle) /\ lock' = None /\ charged' = charged /\ pending' = pending /\ runs' = runs
  BY DEF SessionFails, Moves, counters, files, history
<1>2. lock = p
  BY DEF SessionFails, At, Typed, Locked, Locking, Attempt
<1>3. proc' \in [Procs -> Process'] /\ Shape' /\ Locked' /\ Room'
  BY <1>1, <1>2, ToIdle
<1> QED BY <1>1, <1>3, SameProcess DEF SessionFails, Typed, TypeOK, counters, files, history, None

LEMMA ResolveFailsTyped ==
    ASSUME Typed, NEW p \in Procs, ResolveFails(p)
    PROVE  Typed'
<1> DEFINE r == [proc[p] EXCEPT !.pc = "record", !.outcome = "failed", !.base = FreshBudget]
<1>1. Moves(p, r) /\ lock' = lock /\ charged' = charged /\ pending' = pending /\ runs' = runs
      /\ proc[p].pc \in Attempt \ {"unspool"} /\ "failed" \in Outcomes
  BY FinishMoves DEF ResolveFails, At, Attempt, Outcomes, counters, files, history
<1>2. r \in Process /\ ShapeOf(p, r) /\ (Locking(r) => Locking(proc[p]))
      /\ Unspent(r) <= Unspent(proc[p])
  BY <1>1, FinishKeeps
<1> HIDE DEF r
<1>3. Locking(r) => lock = p
  BY <1>2 DEF Typed, Locked
<1>4. pending \in Spools /\ runs \in 0..MaxRuns
  BY DEF Typed, TypeOK
<1>5. proc' \in [Procs -> Process'] /\ Shape' /\ Locked' /\ Room'
  BY <1>1, <1>2, <1>3, <1>4, SameProcess, TypedMoves
<1> QED BY <1>1, <1>5, SameProcess DEF ResolveFails, Typed, TypeOK, counters, files, history

LEMMA PutFailsTyped ==
    ASSUME Typed, NEW p \in Procs, put_record_fails(p)
    PROVE  Typed'
<1> DEFINE r == [proc[p] EXCEPT !.pc = "record", !.outcome = "failed", !.base = FreshBudget]
<1>1. Moves(p, r) /\ lock' = lock /\ charged' = charged /\ pending' = pending /\ runs' = runs
      /\ proc[p].pc = "put" /\ proc[p].pc \in Attempt \ {"unspool"} /\ "failed" \in Outcomes
  BY FinishMoves DEF put_record_fails, At, Attempt, Outcomes, counters, files, history
<1>2. r \in Process /\ ShapeOf(p, r) /\ (Locking(r) => Locking(proc[p]))
      /\ Unspent(r) <= Unspent(proc[p])
  BY <1>1, FinishKeeps
<1> HIDE DEF r
<1>3. Locking(r) => lock = p
  BY <1>2 DEF Typed, Locked
<1>4. pending \in Spools /\ runs \in 0..MaxRuns
  BY DEF Typed, TypeOK
<1>5. proc' \in [Procs -> Process'] /\ Shape' /\ Locked' /\ Room'
  BY <1>1, <1>2, <1>3, <1>4, SameProcess, TypedMoves
<1>6. proc[p].act \in Actions
  BY <1>1, ProcFields DEF ShapeOf, Attempt
<1>7. network' \subseteq Actions
  BY <1>6 DEF put_record_fails, Typed, TypeOK
<1> QED BY <1>1, <1>5, <1>7, SameProcess
       DEF put_record_fails, Typed, TypeOK, counters, files, history

LEMMA SpoolFirstTyped ==
    ASSUME Typed, NEW p \in Procs, SpoolFirst(p)
    PROVE  Typed'
<1>1. lock' = lock /\ charged' = charged /\ runs' = runs /\ proc[p].pc = "resolve"
  BY DEF SpoolFirst, At, counters, history
<1>2. pending \in Spools /\ runs \in 0..MaxRuns
  BY DEF Typed, TypeOK
<1>3. proc[p] \in Process /\ ShapeOf(p, proc[p]) /\ proc[p].act \in Actions
  BY <1>1, ProcFields DEF ShapeOf, Attempt
<1>4. Unspent(proc[p]) = 1 /\ (Locking(proc[p]) => lock = p)
  BY <1>1 DEF Unspent, Typed, Locked
<1>5. CASE proc[p].via = "drain"
  <2> DEFINE r == [proc[p] EXCEPT !.pc = "put"]
  <2>1. Moves(p, r) /\ pending' = pending
    BY <1>5, GotoMoves DEF SpoolFirst
  <2>2. r \in Process /\ r.pc = "put" /\ r.act = proc[p].act /\ r.via = proc[p].via
    BY GotoKeeps
  <2> HIDE DEF r
  <2>3. ShapeOf(p, r) /\ Unspent(r) <= 1 /\ ~Locking(r)
    BY <1>1, <1>3, <1>5, <2>2 DEF ShapeOf, Attempt, Unspent, Locking, None
  <2>4. proc' \in [Procs -> Process'] /\ Shape' /\ Locked' /\ Room'
    BY <1>1, <1>2, <1>4, <2>1, <2>2, <2>3, SameProcess, TypedMoves
  <2> QED BY <2>1, <2>4, SameProcess DEF SpoolFirst, Typed, TypeOK, counters, history
<1>6. CASE proc[p].via # "drain" /\ Listable
  <2> DEFINE r == [proc[p] EXCEPT !.pc = "put", !.entry = NextSeq(pending)]
  <2>1. Moves(p, r) /\ pending' = spool_append(pending, proc[p].act)
    BY <1>6 DEF SpoolFirst, Moves, Typed, TypeOK
  <2>2. NextSeq(pending) \in 1..MaxRuns /\ NextSeq(pending) \in 0..MaxRuns
    BY <1>4, RoomForOne, Constants
  <2>3. r \in Process /\ r.pc = "put" /\ r.act = proc[p].act /\ r.via = proc[p].via
    BY <1>3, <2>2 DEF Process
  <2> HIDE DEF r
  <2>4. ShapeOf(p, r) /\ Unspent(r) = 0 /\ (Locking(r) => Locking(proc[p]))
    BY <1>1, <1>3, <1>6, <2>3 DEF ShapeOf, Attempt, Unspent, Locking
  <2>5. pending' \in Spools /\ DOMAIN pending' = DOMAIN pending \union {NextSeq(pending)}
    <3>1. NextSeq(pending) <= MaxRuns
      BY <2>2, Constants
    <3> QED BY <1>2, <1>3, <2>1, <3>1, SpoolTypes
  <2>6. proc' \in [Procs -> Process'] /\ Shape' /\ Locked' /\ Room'
    BY <1>1, <1>2, <1>4, <2>1, <2>3, <2>4, <2>5, SameProcess, TypedMoves
  <2> QED BY <2>5, <2>6, SameProcess DEF SpoolFirst, Typed, TypeOK, counters, history
<1>7. CASE proc[p].via # "drain" /\ ~Listable
  <2> DEFINE r == [proc[p] EXCEPT !.pc = "record", !.outcome = "failed", !.base = FreshBudget]
  <2>1. Moves(p, r) /\ pending' = pending
    BY <1>7, FinishMoves DEF SpoolFirst
  <2>2. r \in Process /\ ShapeOf(p, r) /\ (Locking(r) => Locking(proc[p]))
        /\ Unspent(r) <= Unspent(proc[p])
    BY <1>1, FinishKeeps DEF Attempt, Outcomes
  <2> HIDE DEF r
  <2>3. proc' \in [Procs -> Process'] /\ Shape' /\ Locked' /\ Room'
    BY <1>1, <1>2, <1>4, <2>1, <2>2, SameProcess, TypedMoves
  <2> QED BY <2>1, <2>3, SameProcess DEF SpoolFirst, Typed, TypeOK, counters, history
<1> QED BY <1>5, <1>6, <1>7

LEMMA PutTyped ==
    ASSUME Typed, NEW p \in Procs, put_record(p)
    PROVE  Typed'
<1> DEFINE l == IF proc[p].via = "drain" THEN "charge" ELSE "unspool"
           r == [proc[p] EXCEPT !.pc = l]
<1>1. Moves(p, r) /\ lock' = lock /\ charged' = charged /\ pending' = pending /\ runs' = runs
      /\ proc[p].pc = "put"
  BY GotoMoves DEF put_record, At, counters, files, history
<1>2. r \in Process /\ r.pc = l /\ r.act = proc[p].act /\ r.via = proc[p].via
  <2>1. l \in {"decide", "gate", "put", "unspool", "charge", "record", "settle", "close"}
    OBVIOUS
  <2> HIDE DEF l
  <2> QED BY <2>1, GotoKeeps, ZenonT(60)
<1>3. ShapeOf(p, proc[p]) /\ proc[p].act \in Actions /\ proc[p].via # None
  BY <1>1, ProcFields DEF ShapeOf, Attempt
<1> HIDE DEF r
<1>4. ShapeOf(p, r) /\ Unspent(r) <= Unspent(proc[p]) /\ (Locking(r) => Locking(proc[p]))
  BY <1>1, <1>2, <1>3 DEF ShapeOf, Attempt, Unspent, Locking
<1>5. Locking(r) => lock = p
  BY <1>4 DEF Typed, Locked
<1>6. pending \in Spools /\ runs \in 0..MaxRuns
  BY DEF Typed, TypeOK
<1>7. proc' \in [Procs -> Process'] /\ Shape' /\ Locked' /\ Room'
  BY <1>1, <1>2, <1>4, <1>5, <1>6, SameProcess, TypedMoves
<1>8. network' \subseteq Actions
  BY <1>3 DEF put_record, Typed, TypeOK
<1> QED BY <1>1, <1>7, <1>8, SameProcess DEF put_record, Typed, TypeOK, counters, files, history

LEMMA SpoolRemoveTyped ==
    ASSUME Typed, NEW p \in Procs, spool_remove(p)
    PROVE  Typed'
<1> DEFINE r == [proc[p] EXCEPT !.pc = "charge"]
<1>1. /\ Moves(p, r) /\ lock' = lock /\ charged' = charged /\ runs' = runs
      /\ pending' = Without(pending, proc[p].entry) /\ proc[p].pc = "unspool"
  BY GotoMoves DEF spool_remove, At, counters, history
<1>2. r \in Process /\ r.pc = "charge" /\ r.act = proc[p].act /\ r.via = proc[p].via
  BY GotoKeeps
<1>3. ShapeOf(p, proc[p])
  BY ProcFields
<1> HIDE DEF r
<1>4. ShapeOf(p, r) /\ Unspent(r) <= Unspent(proc[p]) /\ (Locking(r) => Locking(proc[p]))
  BY <1>1, <1>2, <1>3 DEF ShapeOf, Attempt, Unspent, Locking
<1>5. Locking(r) => lock = p
  BY <1>4 DEF Typed, Locked
<1>6. pending \in Spools /\ runs \in 0..MaxRuns
  BY DEF Typed, TypeOK
<1>7. pending' \in Spools /\ DOMAIN pending' \subseteq DOMAIN pending
  BY <1>1, <1>6, SpoolTypes, ZenonT(60)
<1>8. proc' \in [Procs -> Process'] /\ Shape' /\ Locked' /\ Room'
  BY <1>1, <1>2, <1>4, <1>5, <1>6, <1>7, SameProcess, TypedMoves
<1> QED BY <1>7, <1>8, SameProcess DEF spool_remove, Typed, TypeOK, counters, history

LEMMA ChargeTyped ==
    ASSUME Typed, NEW p \in Procs, save_outbound_budget_state(p)
    PROVE  Typed'
<1> DEFINE r == [proc[p] EXCEPT !.pc = "record", !.outcome = "executed", !.base = FreshBudget]
           e == [act |-> proc[p].act, at |-> budget'.last]
<1>1. Moves(p, r) /\ lock' = lock /\ pending' = pending /\ runs' = runs
      /\ proc[p].pc = "charge" /\ proc[p].pc \in Attempt \ {"unspool"} /\ "executed" \in Outcomes
  BY FinishMoves DEF save_outbound_budget_state, At, Attempt, Outcomes, counters
<1>2. r \in Process /\ ShapeOf(p, r) /\ (Locking(r) => Locking(proc[p]))
      /\ Unspent(r) <= Unspent(proc[p])
  BY <1>1, FinishKeeps
<1> HIDE DEF r
<1>3. Locking(r) => lock = p
  BY <1>2 DEF Typed, Locked
<1>4. pending \in Spools /\ runs \in 0..MaxRuns /\ budget \in Budget
      /\ charged \in Seq([act : Actions, at : Time])
  BY DEF Typed, TypeOK
<1>5. Len(charged) \in Nat /\ proc[p].base \in BudgetsOf(Len(charged)) /\ proc[p].now \in Time
  BY <1>4, ProcFields, BudgetIs
<1>6. proc[p].act \in Actions
  BY <1>1, ProcFields DEF ShapeOf, Attempt
<1>7. budget' \in BudgetsOf(Len(charged) + 1) /\ budget'.last \in Time
  BY <1>5, <1>6, RecordType DEF save_outbound_budget_state
<1>8. charged' = Append(charged, e) /\ e \in [act : Actions, at : Time]
  BY <1>6, <1>7 DEF save_outbound_budget_state
<1>9. charged' \in Seq([act : Actions, at : Time]) /\ Len(charged') = Len(charged) + 1
  BY <1>4, <1>8
<1>10. Budget' = BudgetsOf(Len(charged) + 1)
  BY <1>9 DEF Budget, BudgetsOf
<1>11. Budget \subseteq Budget'
  BY <1>5, <1>10, BudgetIs, BudgetGrows
<1>12. Process \subseteq Process'
  BY <1>11 DEF Process
<1>13. proc' \in [Procs -> Process'] /\ Shape' /\ Locked' /\ Room'
  BY <1>1, <1>2, <1>3, <1>4, <1>12, TypedMoves
<1> QED BY <1>1, <1>7, <1>9, <1>10, <1>13
       DEF save_outbound_budget_state, Typed, TypeOK, counters

LEMMA JournalTyped ==
    ASSUME Typed, NEW p \in Procs, append_journal_action(p)
    PROVE  Typed'
<1> DEFINE r == [proc[p] EXCEPT !.pc = "settle"]
<1>1. Moves(p, r) /\ lock' = lock /\ charged' = charged /\ pending' = pending /\ runs' = runs
      /\ proc[p].pc = "record"
  BY GotoMoves DEF append_journal_action, At, counters, history
<1>2. r \in Process /\ r.pc = "settle" /\ r.act = proc[p].act /\ r.via = proc[p].via
      /\ r.outcome = proc[p].outcome
  BY GotoKeeps
<1>3. ShapeOf(p, proc[p]) /\ proc[p].act \in Actions
  BY <1>1, ProcFields DEF ShapeOf, Attempt
<1> HIDE DEF r
<1>4. ShapeOf(p, r) /\ Unspent(r) <= Unspent(proc[p]) /\ (Locking(r) => Locking(proc[p]))
  BY <1>1, <1>2, <1>3 DEF ShapeOf, Attempt, Unspent, Locking
<1>5. Locking(r) => lock = p
  BY <1>4 DEF Typed, Locked
<1>6. pending \in Spools /\ runs \in 0..MaxRuns
  BY DEF Typed, TypeOK
<1>7. proc' \in [Procs -> Process'] /\ Shape' /\ Locked' /\ Room'
  BY <1>1, <1>2, <1>4, <1>5, <1>6, SameProcess, TypedMoves
<1>8. executed' \subseteq Actions
  BY <1>3 DEF append_journal_action, Typed, TypeOK
<1> QED BY <1>1, <1>7, <1>8, SameProcess
       DEF append_journal_action, Typed, TypeOK, counters, history

LEMMA LockTyped ==
    ASSUME Typed, NEW p \in Procs, StateLockAcquired(p)
    PROVE  Typed'
<1> DEFINE r == [proc[p] EXCEPT !.pc = "gate"]
<1>1. Moves(p, r) /\ lock' = p /\ lock = None /\ charged' = charged /\ pending' = pending
      /\ runs' = runs /\ proc[p].pc = "lock"
  BY GotoMoves DEF StateLockAcquired, At, counters, files, history
<1>2. r \in Process /\ r.pc = "gate" /\ r.act = proc[p].act /\ r.via = proc[p].via
  BY GotoKeeps, ZenonT(60)
<1>3. ShapeOf(p, proc[p])
  BY ProcFields
<1> HIDE DEF r
<1>4. ShapeOf(p, r) /\ Unspent(r) <= Unspent(proc[p])
  BY <1>1, <1>2, <1>3 DEF ShapeOf, Attempt, Unspent
<1>5. pending \in Spools /\ runs \in 0..MaxRuns
  BY DEF Typed, TypeOK
<1>6. proc' \in [Procs -> Process'] /\ Shape' /\ Locked' /\ Room'
  BY <1>1, <1>2, <1>4, <1>5, SameProcess, TypedMoves
<1> QED BY <1>1, <1>6, SameProcess DEF StateLockAcquired, Typed, TypeOK, counters, files, history

LEMMA LockErrorTyped ==
    ASSUME Typed, NEW p \in Procs, StateLockError(p)
    PROVE  Typed'
<1>1. Moves(p, Idle) /\ lock' = lock /\ charged' = charged /\ pending' = pending /\ runs' = runs
  BY DEF StateLockError, Moves, counters, files, history
<1>2. proc' \in [Procs -> Process'] /\ Shape' /\ Locked' /\ Room'
  BY <1>1, ToIdle
<1> QED BY <1>1, <1>2, SameProcess DEF StateLockError, Typed, TypeOK, counters, files, history

LEMMA CrashTyped ==
    ASSUME Typed, NEW p \in Procs, Crash(p)
    PROVE  Typed'
<1>1. Moves(p, Idle) /\ charged' = charged /\ pending' = pending /\ runs' = runs
      /\ lock' = (IF lock = p THEN None ELSE lock)
  BY DEF Crash, Dies, Moves, files
<1>2. proc' \in [Procs -> Process'] /\ Shape' /\ Locked' /\ Room'
  BY <1>1, ToIdle
<1>3. crashes' \in 0..MaxCrashes
  BY OutboundAssumption DEF Crash, Dies, Typed, TypeOK
<1>4. orphans' \subseteq Actions
  BY ProcFields DEF Crash, Typed, TypeOK, ShapeOf, Attempt, At
<1> QED BY <1>1, <1>2, <1>3, <1>4, SameProcess DEF Crash, Typed, TypeOK, files, None

\* What CrashInSpool finds: an action to spool, and a number for it.
LEMMA CrashInSpoolFinds ==
    ASSUME Typed, NEW p \in Procs, CrashInSpool(p)
    PROVE  /\ proc[p].act \in Actions /\ Locking(proc[p]) /\ Unspent(proc[p]) = 1
           /\ NextSeq(pending) \in 1..MaxRuns
           /\ Moves(p, Idle) /\ charged' = charged /\ runs' = runs
           /\ pending' \in {pending, spool_append(pending, proc[p].act)}
<1>1. proc[p].pc \in {"gate", "resolve"} /\ proc[p].via # "drain"
  BY DEF CrashInSpool, At
<1>2. proc[p].act \in Actions
  BY <1>1, ProcFields DEF ShapeOf, Attempt
<1>3. Locking(proc[p]) /\ Unspent(proc[p]) = 1
  BY <1>1 DEF Locking, Attempt, Unspent
<1>4. NextSeq(pending) \in 1..MaxRuns
  BY <1>3, RoomForOne
<1> QED BY <1>2, <1>3, <1>4 DEF CrashInSpool, Dies, Moves, history

LEMMA CrashInSpoolTyped ==
    ASSUME Typed, NEW p \in Procs, CrashInSpool(p)
    PROVE  Typed'
<1>1. /\ proc[p].act \in Actions /\ Locking(proc[p]) /\ Unspent(proc[p]) = 1
      /\ NextSeq(pending) \in 1..MaxRuns
      /\ Moves(p, Idle) /\ charged' = charged /\ runs' = runs
      /\ pending' \in {pending, spool_append(pending, proc[p].act)}
  BY CrashInSpoolFinds
<1>2. pending \in Spools /\ runs \in 0..MaxRuns /\ lock = p
  BY <1>1 DEF Typed, TypeOK, Locked
<1>3. lock' = None
  BY <1>2 DEF CrashInSpool, Dies
<1>4. NextSeq(pending) <= MaxRuns
  BY <1>1, Constants
<1>5. /\ pending' \in Spools
      /\ \/ pending' = pending
         \/ DOMAIN pending' = DOMAIN pending \union {NextSeq(pending)}
  BY <1>1, <1>2, <1>4, SpoolTypes
<1>6. /\ Idle \in Process' /\ ~Locking(Idle) /\ Unspent(Idle) = 0 /\ ShapeOf(p, Idle)
      /\ Process \subseteq Process'
  BY <1>1, IdleIs, SameProcess
<1>7. proc' \in [Procs -> Process'] /\ Shape' /\ Locked' /\ Room'
  <2>1. CASE pending' = pending
    BY <1>1, <1>2, <1>3, <1>5, <1>6, <2>1, TypedMoves
  <2>2. CASE DOMAIN pending' = DOMAIN pending \union {NextSeq(pending)}
    BY <1>1, <1>2, <1>3, <1>5, <1>6, <2>2, TypedMoves
  <2> QED BY <1>5, <2>1, <2>2
<1>8. crashes' \in 0..MaxCrashes
  <2>1. crashes \in 0..MaxCrashes /\ MaxCrashes \in Nat
    BY OutboundAssumption DEF Typed, TypeOK
  <2>2. crashes < MaxCrashes /\ crashes' = crashes + 1
    BY DEF CrashInSpool, Dies
  <2> QED BY <2>1, <2>2
<1>9. tmp' \in [left : SUBSET (1..MaxRuns), torn : BOOLEAN]
  <2>1. tmp \in [left : SUBSET (1..MaxRuns), torn : BOOLEAN]
    BY DEF Typed, TypeOK
  <2>2. \/ tmp' = [tmp EXCEPT !.left = @ \union {NextSeq(pending)}]
        \/ tmp' = [tmp EXCEPT !.torn = TRUE]
    BY DEF CrashInSpool
  <2>3. CASE tmp' = [tmp EXCEPT !.left = @ \union {NextSeq(pending)}]
    <3>1. tmp.left \union {NextSeq(pending)} \in SUBSET (1..MaxRuns)
      BY <1>1, <2>1
    <3> QED BY <2>1, <2>3, <3>1
  <2>4. CASE tmp' = [tmp EXCEPT !.torn = TRUE]
    BY <2>1, <2>4
  <2> QED BY <2>2, <2>3, <2>4
<1> QED BY <1>1, <1>3, <1>5, <1>7, <1>8, <1>9, SameProcess
       DEF CrashInSpool, Typed, TypeOK, history, None

LEMMA EditTyped == ASSUME Typed, Edit PROVE Typed'
<1>1. /\ proc' = proc /\ lock' = lock /\ charged' = charged /\ pending' = pending /\ runs' = runs
      /\ Process' = Process
  BY SameProcess DEF Edit, counters, history
<1>2. Shape' /\ Locked' /\ Room'
  BY <1>1 DEF Typed, Shape, Locked, Room
<1> DEFINE Controls == [paused : BOOLEAN, offline_mode : BOOLEAN, dry_run : BOOLEAN,
                        writes_enabled : BOOLEAN, approval_required : BOOLEAN,
                        enabled : BOOLEAN, approved : SUBSET Actions]
<1>3. control' \in Controls
  <2>0. control \in Controls
    BY DEF Typed, TypeOK
  <2>1. ASSUME NEW f \in Switches, control' = [control EXCEPT ![f] = ~@]
        PROVE  control' \in Controls
    BY <2>0, <2>1, OutboundAssumption
  <2>2. ASSUME NEW a \in Actions, control' = [control EXCEPT !.approved = @ \ {a}]
        PROVE  control' \in Controls
    BY <2>0, <2>2
  <2>3. ASSUME NEW a \in Actions, control' = [control EXCEPT !.approved = @ \union {a}]
        PROVE  control' \in Controls
    BY <2>0, <2>3
  <2>4. control.approved \subseteq Actions
    BY <2>0
  <2> HIDE DEF Controls
  <2> QED BY <2>1, <2>2, <2>3, <2>4 DEF Edit
<1>4. edits' \in 0..MaxEdits /\ clock' = clock /\ crashes' = crashes
  <2>1. edits \in 0..MaxEdits /\ MaxEdits \in Nat
    BY OutboundAssumption DEF Typed, TypeOK
  <2>2. edits < MaxEdits /\ edits' = edits + 1 /\ clock' = clock /\ crashes' = crashes
    BY DEF Edit
  <2> QED BY <2>1, <2>2
<1> QED BY <1>1, <1>2, <1>3, <1>4, SameProcess DEF Edit, Typed, TypeOK, counters, history

LEMMA PublishTyped ==
    ASSUME Typed, run_publish \/ PublishReturns
    PROVE  Typed'
<1>0. "publish" \in Procs /\ pending \in Spools /\ runs \in 0..MaxRuns /\ clock \in Time
  BY DEF Typed, TypeOK, Procs
<1>1. CASE run_publish
  <2>1. PICK a \in Actions \ Proposed :
          proc' = [proc EXCEPT !["publish"] =
                    [Idle EXCEPT !.pc = "lock", !.now = clock', !.act = a, !.via = "file"]]
    BY <1>1 DEF run_publish
  <2> DEFINE r == [Idle EXCEPT !.pc = "lock", !.now = clock', !.act = a, !.via = "file"]
  <2>2. Moves("publish", r) /\ lock' = lock /\ charged' = charged /\ pending' = pending
        /\ runs' = runs + 1 /\ runs < MaxRuns /\ proc["publish"].pc = "idle"
    BY <1>1, <2>1 DEF run_publish, Moves, At, files
  <2>3. clock' \in Time /\ runs' \in 0..MaxRuns
    <3>1. clock' \in clock..MaxTime
      BY <1>1 DEF run_publish
    <3> QED BY <1>0, <2>2, <3>1, OutboundAssumption DEF Time
  <2>4. Idle \in Process' /\ Unspent(proc["publish"]) = 0
    BY <1>0, <2>2, IdleIs, ProcFields DEF ShapeOf
  <2>5. r \in Process'
    BY <2>3, <2>4 DEF Process
  <2>6. r.pc = "lock" /\ r.act = a /\ r.via = "file"
    BY DEF Idle
  <2> HIDE DEF r
  <2>7. ShapeOf("publish", r) /\ ~Locking(r)
    BY <2>6 DEF ShapeOf, Attempt, Locking, None
  <2>8. proc' \in [Procs -> Process'] /\ Shape' /\ Locked' /\ Room'
    BY <1>0, <2>2, <2>3, <2>4, <2>5, <2>7, SameProcess, TypedMoves
  <2>9. raced' \in BOOLEAN
    BY <1>1 DEF run_publish, Typed, TypeOK, Draining
  <2> QED BY <1>1, <2>2, <2>3, <2>8, <2>9, SameProcess DEF run_publish, Typed, TypeOK, files
<1>2. CASE PublishReturns
  <2>1. Moves("publish", Idle) /\ lock' = None /\ charged' = charged /\ pending' = pending
        /\ runs' = runs /\ proc["publish"].pc = "settle"
    BY <1>2 DEF PublishReturns, Moves, At, counters, files, history
  <2>2. lock = "publish"
    BY <1>0, <2>1, ProcFields DEF Typed, Locked, Locking, ShapeOf, Attempt
  <2>3. proc' \in [Procs -> Process'] /\ Shape' /\ Locked' /\ Room'
    BY <1>0, <2>1, <2>2, ToIdle
  <2> QED BY <1>2, <2>1, <2>3, SameProcess
         DEF PublishReturns, Typed, TypeOK, counters, files, history
<1> QED BY <1>1, <1>2

LEMMA CycleTyped ==
    ASSUME Typed, run_scheduler_cycle
    PROVE  Typed'
<1> DEFINE todo == IF control.offline_mode THEN <<>> ELSE pending
           r == [Idle EXCEPT !.pc = "drain", !.now = clock', !.todo = todo]
<1>0. "daemon" \in Procs /\ pending \in Spools /\ runs \in 0..MaxRuns /\ clock \in Time
  BY DEF Typed, TypeOK, Procs
<1>1. Moves("daemon", r) /\ lock' = lock /\ charged' = charged /\ pending' = pending
      /\ runs' = runs + 1 /\ runs < MaxRuns /\ proc["daemon"].pc = "idle"
  BY DEF run_scheduler_cycle, Moves, At, files
<1>2. clock' \in Time /\ runs' \in 0..MaxRuns
  <2>1. clock' \in clock..MaxTime
    BY DEF run_scheduler_cycle
  <2> QED BY <1>0, <1>1, <2>1, OutboundAssumption DEF Time
<1>3. Idle \in Process' /\ Unspent(proc["daemon"]) = 0 /\ todo \in Spools
  BY <1>0, <1>1, IdleIs, ProcFields, SpoolTypes DEF ShapeOf
<1> HIDE DEF todo
<1>4. r \in Process'
  BY <1>2, <1>3 DEF Process
<1>5. r.pc = "drain" /\ r.via = None
  BY DEF Idle
<1> HIDE DEF r
<1>6. ShapeOf("daemon", r) /\ ~Locking(r)
  BY <1>5 DEF ShapeOf, Attempt, Locking, None
<1>7. proc' \in [Procs -> Process'] /\ Shape' /\ Locked' /\ Room'
  BY <1>0, <1>1, <1>2, <1>3, <1>4, <1>6, SameProcess, TypedMoves
<1>8. raced' \in BOOLEAN
  BY DEF run_scheduler_cycle, Typed, TypeOK
<1> QED BY <1>1, <1>2, <1>7, <1>8, SameProcess DEF run_scheduler_cycle, Typed, TypeOK, files

LEMMA DrainTyped ==
    ASSUME Typed, spool_drain
    PROVE  Typed'
<1> DEFINE d == proc["daemon"]
<1>0. "daemon" \in Procs /\ pending \in Spools /\ runs \in 0..MaxRuns
  BY DEF Typed, TypeOK, Procs
<1>1. /\ lock' = lock /\ charged' = charged /\ pending' = pending /\ runs' = runs
      /\ d.pc = "drain"
  BY DEF spool_drain, At, counters, files, history
<1>2. d \in Process /\ ShapeOf("daemon", d) /\ d.todo \in Spools /\ Unspent(d) = 1 /\ d.via = None
  BY <1>0, <1>1, ProcFields DEF Unspent, ShapeOf
<1>3. CASE DOMAIN d.todo = {}
  <2> DEFINE r == [d EXCEPT !.pc = "decide"]
  <2>1. Moves("daemon", r)
    BY <1>0, <1>3, GotoMoves DEF spool_drain
  <2>2. r \in Process /\ r.pc = "decide" /\ r.via = d.via
    BY <1>0, GotoKeeps
  <2> HIDE DEF r
  <2>3. ShapeOf("daemon", r) /\ Unspent(r) <= Unspent(d) /\ ~Locking(r)
    BY <1>2, <2>2 DEF ShapeOf, Attempt, Unspent, Locking, None
  <2>4. proc' \in [Procs -> Process'] /\ Shape' /\ Locked' /\ Room'
    BY <1>0, <1>1, <2>1, <2>2, <2>3, SameProcess, TypedMoves
  <2> QED BY <1>1, <2>4, SameProcess, ZenonT(60)
         DEF spool_drain, Typed, TypeOK, counters, files, history
<1>4. CASE DOMAIN d.todo # {}
  <2>1. PICK n \in DOMAIN d.todo :
          proc' = [proc EXCEPT !["daemon"] =
                     [@ EXCEPT !.pc = "gate", !.via = "drain", !.act = d.todo[n],
                               !.entry = n, !.todo = Without(d.todo, n)]]
    BY <1>4 DEF spool_drain
  <2> DEFINE r == [d EXCEPT !.pc = "gate", !.via = "drain", !.act = d.todo[n],
                            !.entry = n, !.todo = Without(d.todo, n)]
  <2>2. Moves("daemon", r)
    BY <1>0, <2>1 DEF Moves, Typed, TypeOK
  <2>3. d.todo[n] \in Actions /\ n \in 0..MaxRuns /\ Without(d.todo, n) \in Spools
    <3>1. d.todo[n] \in Actions /\ n \in 1..MaxRuns /\ Without(d.todo, n) \in Spools
      BY <1>2, SpoolTypes
    <3> QED BY <3>1, Constants
  <2>4. r \in Process /\ r.pc = "gate" /\ r.via = "drain" /\ r.act \in Actions
    BY <1>2, <2>3 DEF Process
  <2> HIDE DEF r
  <2>5. ShapeOf("daemon", r) /\ Unspent(r) <= Unspent(d) /\ ~Locking(r)
    BY <1>2, <2>4 DEF ShapeOf, Attempt, Unspent, Locking, None
  <2>6. proc' \in [Procs -> Process'] /\ Shape' /\ Locked' /\ Room'
    BY <1>0, <1>1, <2>2, <2>4, <2>5, SameProcess, TypedMoves
  <2> QED BY <1>1, <2>6, SameProcess DEF spool_drain, Typed, TypeOK, counters, files, history
<1> QED BY <1>3, <1>4

LEMMA DrainSettlesTyped ==
    ASSUME Typed, DrainSettles
    PROVE  Typed'
<1> DEFINE d == proc["daemon"]
           todo == IF d.outcome = "failed" THEN <<>> ELSE d.todo
           r == [Idle EXCEPT !.pc = "drain", !.now = d.now, !.todo = todo]
<1>0. "daemon" \in Procs /\ pending \in Spools /\ runs \in 0..MaxRuns
  BY DEF Typed, TypeOK, Procs
<1>1. /\ Moves("daemon", r) /\ lock' = lock /\ charged' = charged /\ runs' = runs
      /\ d.pc = "settle" /\ d.via = "drain"
      /\ pending' \in {pending, Without(pending, d.entry)}
  BY DEF DrainSettles, Moves, At, counters
<1>2. d.todo \in Spools /\ d.now \in Time /\ Unspent(d) = 1 /\ Idle \in Process' /\ todo \in Spools
  BY <1>0, <1>1, ProcFields, IdleIs, SpoolTypes DEF Unspent
<1> HIDE DEF todo
<1>3. r \in Process'
  BY <1>2 DEF Process
<1>4. r.pc = "drain" /\ r.via = None
  BY DEF Idle
<1> HIDE DEF r
<1>5. ShapeOf("daemon", r) /\ ~Locking(r) /\ Unspent(r) <= Unspent(d)
  BY <1>2, <1>4 DEF ShapeOf, Attempt, Locking, None, Unspent
<1>6. pending' \in Spools /\ DOMAIN pending' \subseteq DOMAIN pending
  <2>1. Without(pending, d.entry) \in Spools
        /\ DOMAIN Without(pending, d.entry) = DOMAIN pending \ {d.entry}
    BY <1>0, SpoolTypes
  <2> QED BY <1>0, <1>1, <2>1
<1>7. proc' \in [Procs -> Process'] /\ Shape' /\ Locked' /\ Room'
  BY <1>0, <1>1, <1>3, <1>5, <1>6, SameProcess, TypedMoves
<1>8. denied' \in Spools /\ orphans' \subseteq Actions
  <2>1. denied \in Spools /\ orphans \subseteq Actions
    BY DEF Typed, TypeOK
  <2>2. \/ denied' = denied /\ orphans' = orphans
        \/ /\ d.entry \in DOMAIN pending
           /\ denied' = With(denied, d.entry, pending[d.entry])
           /\ \/ orphans' = orphans
              \/ d.entry \in DOMAIN denied /\ orphans' = orphans \union {denied[d.entry]}
    BY DEF DrainSettles
  <2>3. \A n \in DOMAIN pending : n \in 1..MaxRuns /\ pending[n] \in Actions
    BY <1>0, SpoolTypes
  <2>4. \A n \in DOMAIN denied : denied[n] \in Actions
    BY <2>1, SpoolTypes
  <2>5. CASE denied' = denied /\ orphans' = orphans
    BY <2>1, <2>5
  <2>6. CASE /\ d.entry \in DOMAIN pending
             /\ denied' = With(denied, d.entry, pending[d.entry])
             /\ \/ orphans' = orphans
                \/ d.entry \in DOMAIN denied /\ orphans' = orphans \union {denied[d.entry]}
    <3>1. denied' \in Spools
      BY <2>1, <2>3, <2>6, WithTypes
    <3>2. orphans' \subseteq Actions
      BY <2>1, <2>4, <2>6
    <3> QED BY <3>1, <3>2
  <2> QED BY <2>2, <2>5, <2>6
<1> QED BY <1>1, <1>6, <1>7, <1>8, SameProcess DEF DrainSettles, Typed, TypeOK, counters

LEMMA DecideTyped ==
    ASSUME Typed, Decide
    PROVE  Typed'
<1> DEFINE d == proc["daemon"]
           r == [d EXCEPT !.pc = "select", !.approvals = control.approved]
<1>0. "daemon" \in Procs /\ pending \in Spools /\ runs \in 0..MaxRuns
      /\ control.approved \subseteq Actions
  BY DEF Typed, TypeOK, Procs
<1>1. /\ Moves("daemon", r) /\ lock' = lock /\ charged' = charged /\ runs' = runs
      /\ pending' = pending /\ d.pc = "decide"
  BY <1>0 DEF Decide, Moves, At, counters, history, Typed, TypeOK
<1>2. d \in Process /\ ShapeOf("daemon", d)
  BY <1>0, ProcFields
<1>3. r \in Process /\ r.pc = "select" /\ r.via = d.via
  BY <1>0, <1>2 DEF Process
<1> HIDE DEF r
<1>4. ShapeOf("daemon", r) /\ ~Locking(r) /\ Unspent(r) <= Unspent(d)
  BY <1>1, <1>2, <1>3 DEF ShapeOf, Attempt, Locking, None, Unspent
<1>5. proc' \in [Procs -> Process'] /\ Shape' /\ Locked' /\ Room'
  BY <1>0, <1>1, <1>3, <1>4, SameProcess, TypedMoves
<1>6. proposals' \subseteq Proposed
  BY DEF Decide, Typed, TypeOK
<1> QED BY <1>1, <1>5, <1>6, SameProcess DEF Decide, Typed, TypeOK, counters, history

LEMMA SelectTyped ==
    ASSUME Typed, NothingToExecute \/ Select
    PROVE  Typed'
<1> DEFINE d == proc["daemon"]
<1>0. "daemon" \in Procs /\ pending \in Spools /\ runs \in 0..MaxRuns /\ breaker \in Breaker
      /\ proposals \subseteq Proposed /\ Proposed \subseteq Actions
  BY OutboundAssumption DEF Typed, TypeOK, Procs
<1>1. /\ lock' = lock /\ charged' = charged /\ runs' = runs
      /\ pending' = pending /\ d.pc = "select"
  BY DEF NothingToExecute, Select, At, counters, files, history
<1>2. CASE NothingToExecute
  <2>1. Moves("daemon", Idle)
    BY <1>2 DEF NothingToExecute, Moves
  <2>2. proc' \in [Procs -> Process'] /\ Shape' /\ Locked' /\ Room'
    BY <1>0, <1>1, <2>1, ToIdle
  <2> QED BY <1>2, <1>1, <2>2, SameProcess
         DEF NothingToExecute, Typed, TypeOK, counters, files, history
<1>3. CASE Select
  <2>1. PICK a \in Candidates :
          proc' = [proc EXCEPT !["daemon"] =
                    [@ EXCEPT !.pc = "lock", !.act = a, !.via = "proposal",
                              !.brk = retain_proposals(breaker, proposals)]]
    BY <1>3 DEF Select
  <2> DEFINE r == [d EXCEPT !.pc = "lock", !.act = a, !.via = "proposal",
                            !.brk = retain_proposals(breaker, proposals)]
  <2>2. Moves("daemon", r)
    BY <1>0, <2>1 DEF Moves, Typed, TypeOK
  <2>3. a \in Proposed /\ a \in Actions /\ d \in Process /\ d.now \in Time
    BY <1>0, ProcFields DEF Candidates
  <2>4. retain_proposals(breaker, proposals) \in Breaker
    BY <1>0, <2>3, BreakerTypes
  <2>5. r \in Process /\ r.pc = "lock" /\ r.via = "proposal" /\ r.act = a
    BY <2>3, <2>4 DEF Process
  <2> HIDE DEF r
  <2>6. ShapeOf("daemon", r) /\ ~Locking(r) /\ Unspent(r) <= Unspent(d)
    BY <1>1, <2>3, <2>5 DEF ShapeOf, Attempt, Locking, None, Unspent
  <2>7. proc' \in [Procs -> Process'] /\ Shape' /\ Locked' /\ Room'
    BY <1>0, <1>1, <2>2, <2>5, <2>6, SameProcess, TypedMoves
  <2> QED BY <1>3, <1>1, <2>7, SameProcess DEF Select, Typed, TypeOK, counters, files, history
<1> QED BY <1>2, <1>3

LEMMA ExecutionSettlesTyped ==
    ASSUME Typed, ExecutionSettles
    PROVE  Typed'
<1> DEFINE d == proc["daemon"]
           ok == [d EXCEPT !.pc = "close", !.brk = record_success(d.brk, d.act)]
           bad == [d EXCEPT !.pc = "close", !.brk = record_failure(d.brk, d.act, d.now)]
<1>0. /\ "daemon" \in Procs /\ pending \in Spools /\ runs \in 0..MaxRuns
      /\ proposals \subseteq Proposed /\ quarantine \subseteq Proposed
      /\ fails \in Seq(Time) /\ failed \in [Proposed -> Nat]
  BY DEF Typed, TypeOK, Procs
<1>1. /\ lock' = None /\ charged' = charged /\ runs' = runs
      /\ pending' = pending /\ d.pc = "settle" /\ d.via = "proposal"
  BY DEF ExecutionSettles, At, counters, history
<1>2. d \in Process /\ ShapeOf("daemon", d) /\ d.now \in Time /\ d.brk \in Breaker
  BY <1>0, ProcFields
<1>3. d.act \in Proposed /\ lock = "daemon"
  BY <1>0, <1>1, <1>2 DEF ShapeOf, Typed, Locked, Locking, Attempt
<1>4. record_success(d.brk, d.act) \in Breaker /\ record_failure(d.brk, d.act, d.now) \in Breaker
  BY <1>2, <1>3, BreakerTypes
<1>5. /\ ok \in Process /\ ok.pc = "close" /\ ok.via = "proposal" /\ ok.act = d.act
      /\ bad \in Process /\ bad.pc = "close" /\ bad.via = "proposal" /\ bad.act = d.act
  BY <1>1, <1>2, <1>4 DEF Process
<1>6. ASSUME NEW r \in {ok, bad}, Moves("daemon", r)
      PROVE  proc' \in [Procs -> Process'] /\ Shape' /\ Locked' /\ Room'
  <2>1. r \in Process /\ r.pc = "close" /\ r.via = "proposal" /\ r.act = d.act
    BY <1>5
  <2> HIDE DEF ok, bad
  <2>2. ShapeOf("daemon", r) /\ ~Locking(r) /\ Unspent(r) <= Unspent(d)
    BY <1>1, <1>3, <2>1 DEF ShapeOf, Attempt, Locking, None, Unspent
  <2> QED BY <1>0, <1>1, <1>3, <1>6, <2>1, <2>2, SameProcess, TypedMoves
<1>7. CASE d.outcome = "executed"
  <2>1. Moves("daemon", ok)
    BY <1>0, <1>7 DEF ExecutionSettles, Moves, Typed, TypeOK
  <2>2. proc' \in [Procs -> Process'] /\ Shape' /\ Locked' /\ Room'
    BY <1>6, <2>1
  <2>3. proposals' \subseteq Proposed /\ quarantine' \subseteq Proposed /\ fails' \in Seq(Time)
        /\ failed' \in [Proposed -> Nat]
    BY <1>0, <1>3, <1>7, SMTT(60) DEF ExecutionSettles
  <2> QED BY <1>1, <2>2, <2>3, SameProcess
         DEF ExecutionSettles, Typed, TypeOK, counters, None
<1>8. CASE d.outcome = "failed"
  <2>1. Moves("daemon", bad)
    BY <1>0, <1>8 DEF ExecutionSettles, Moves, Typed, TypeOK
  <2>2. proc' \in [Procs -> Process'] /\ Shape' /\ Locked' /\ Room'
    BY <1>6, <2>1
  <2>3. proposals' \subseteq Proposed /\ quarantine' \subseteq Proposed /\ fails' \in Seq(Time)
        /\ failed' \in [Proposed -> Nat]
    <3>1. proposals' \subseteq Proposed /\ quarantine' \subseteq Proposed
      BY <1>0, <1>3, <1>8 DEF ExecutionSettles
    <3>2. fails' = Append(fails, d.now) /\ failed' = [failed EXCEPT ![d.act] = @ + 1]
      BY <1>8 DEF ExecutionSettles
    <3>3. fails' \in Seq(Time)
      BY <1>0, <1>2, <3>2
    <3>4. failed' \in [Proposed -> Nat]
      BY <1>0, <1>3, <3>2
    <3> QED BY <3>1, <3>3, <3>4
  <2> QED BY <1>1, <2>2, <2>3, SameProcess
         DEF ExecutionSettles, Typed, TypeOK, counters, None
<1>9. CASE d.outcome \in {"dry_run", "denied", "deferred"}
  <2>1. Moves("daemon", Idle)
    BY <1>9 DEF ExecutionSettles, Moves
  <2>2. proc' \in [Procs -> Process'] /\ Shape' /\ Locked' /\ Room'
    BY <1>0, <1>1, <1>3, <2>1, ToIdle
  <2> QED BY <1>1, <1>9, <2>2, SameProcess
         DEF ExecutionSettles, Typed, TypeOK, counters, None
<1> QED BY <1>7, <1>8, <1>9 DEF ExecutionSettles

LEMMA SaveBreakerTyped ==
    ASSUME Typed, save_breaker_state
    PROVE  Typed'
<1>0. "daemon" \in Procs /\ proc["daemon"].brk \in Breaker
  BY ProcFields DEF Procs
<1>1. /\ Moves("daemon", Idle) /\ lock' = lock /\ charged' = charged /\ runs' = runs
      /\ pending' = pending
  BY DEF save_breaker_state, Moves, counters, history
<1>2. proc' \in [Procs -> Process'] /\ Shape' /\ Locked' /\ Room'
  BY <1>0, <1>1, ToIdle
<1> QED BY <1>0, <1>1, <1>2, SameProcess DEF save_breaker_state, Typed, TypeOK, counters, history

LEMMA TypedInit == Init => Typed
<1> SUFFICES ASSUME Init PROVE Typed
  OBVIOUS
<1>1. charged = <<>> /\ Len(charged) = 0 /\ charged \in Seq([act : Actions, at : Time])
  BY DEF Init
<1>2. <<>> \in Spools /\ DOMAIN <<>> = {}
  BY Constants, NumberedEmpty DEF Spools
<1>3. FreshBudget \in Budget
  <2>1. <<>> \in Numbered(0, Time) /\ <<>> \in Numbered(0, [key : Actions, at : Time])
    BY NumberedEmpty
  <2> QED BY <1>1, <2>1 DEF Budget, FreshBudget
<1>4. ClosedBreaker \in Breaker
  BY DEF ClosedBreaker, Breaker
<1>5. Idle \in Process
  BY <1>2, <1>3, <1>4, Constants DEF Idle, Process
<1>6. Shape /\ Locked
  BY DEF Init, Shape, ShapeOf, Locked, Locking, Idle, Attempt, None
<1>7. Room
  BY <1>2 DEF Init, Room, Unspent, Idle, Procs, None
<1>8. TypeOK
  <2>1. control \in [paused : BOOLEAN, offline_mode : BOOLEAN, dry_run : BOOLEAN,
                    writes_enabled : BOOLEAN, approval_required : BOOLEAN, enabled : BOOLEAN,
                    approved : SUBSET Actions]
    BY OutboundAssumption DEF Init
  <2>2. 0 \in Time /\ 0 \in 0..MaxRuns /\ 0 \in 0..MaxEdits /\ 0 \in 0..MaxCrashes
    BY OutboundAssumption DEF Time
  <2>3. proc \in [Procs -> Process] /\ failed \in [Proposed -> Nat]
    BY <1>5 DEF Init
  <2>4. fails \in Seq(Time)
    BY DEF Init
  <2> QED BY <1>1, <1>2, <1>3, <1>4, <2>1, <2>2, <2>3, <2>4 DEF Init, TypeOK
<1> QED BY <1>6, <1>7, <1>8 DEF Typed

LEMMA TypedNext == Typed /\ [Next]_vars => Typed'
<1> SUFFICES ASSUME Typed, [Next]_vars PROVE Typed'
  OBVIOUS
<1>1. CASE UNCHANGED vars
  <2>1. Process' = Process /\ Budget' = Budget
    BY <1>1, SameProcess DEF vars, history
  <2> QED BY <1>1, <2>1
         DEF vars, counters, files, history, Typed, TypeOK, Shape, Locked, Room
<1>2. CASE Edit
  BY <1>2, EditTyped
<1>3. CASE run_publish \/ PublishReturns
  BY <1>3, PublishTyped
<1>4. CASE Cycle
  BY <1>4, CycleTyped, DrainTyped, DrainSettlesTyped, DecideTyped, SelectTyped,
     ExecutionSettlesTyped, SaveBreakerTyped DEF Cycle
<1>5. ASSUME NEW p \in Procs, Step(p) PROVE Typed'
  BY <1>5, AttemptTyped, SessionFailsTyped, ResolveFailsTyped, SpoolFirstTyped, PutTyped,
     PutFailsTyped, SpoolRemoveTyped, ChargeTyped, JournalTyped, LockTyped, LockErrorTyped,
     CrashTyped, CrashInSpoolTyped DEF Step
<1> QED BY <1>1, <1>2, <1>3, <1>4, <1>5 DEF Next

\* The files and the processes keep their types, and no run spools twice: the
\* spool's numbers stay within the runs (spool_append, SpoolFirstWriter).
THEOREM OutboundTypeCorrect == Spec => []TypeOK
<1>1. Typed => TypeOK
  BY DEF Typed
<1> QED BY <1>1, TypedInit, TypedNext, PTL DEF Spec

-----------------------------------------------------------------------------
(* The journal and the network.                                            *)

\* What an attempt has written is on the network, and in the journal once its
\* line is.
TrueOf(r, net, exec) ==
    /\ r.pc \in {"unspool", "charge"} => r.act \in net
    /\ (r.pc \in {"record", "settle"} /\ r.outcome = "executed") => r.act \in net
    /\ (r.pc = "settle" /\ r.outcome = "executed") => r.act \in exec

\* Where the action an attempt is about can still be found.
KeptOf(r, pend, props) ==
    /\ \A n \in DOMAIN r.todo : n \in DOMAIN pend /\ pend[n] = r.todo[n]
    /\ (r.pc # "drain" /\ r.via # "drain") => DOMAIN r.todo = {}
    /\ r.via = "drain" => /\ r.entry \in DOMAIN pend /\ pend[r.entry] = r.act
                          /\ r.entry \notin DOMAIN r.todo
    /\ (r.pc \in {"put", "unspool"} /\ r.via # "drain") =>
          r.entry \in DOMAIN pend /\ pend[r.entry] = r.act
    /\ (r.via = "proposal" /\ r.pc # "close") => r.act \in props

DrainingOf(r) == DOMAIN r.todo # {} \/ r.via = "drain"

\* The publish that only its process remembers.
HandOf(r) ==
    IF r.pc = "charge" \/ (r.pc = "record" /\ r.outcome = "executed") THEN {r.act} ELSE {}

Truth == executed \subseteq network /\ \A p \in Procs : TrueOf(proc[p], network, executed)

Apart == ~raced => (DrainingOf(proc["daemon"]) => proc["publish"].pc = "idle")

Kept == ~raced => \A p \in Procs : KeptOf(proc[p], pending, proposals)

Accounted ==
    ~raced => network \subseteq
        executed \union proposals \union quarantine \union Range(pending) \union Range(denied)
        \union orphans \union HandOf(proc["publish"])

Accounts == Truth /\ Apart /\ Kept /\ Accounted

\* A step of p, with what it has to show for itself and for the other process.
LEMMA AccountsMoves ==
    ASSUME Typed, Accounts, NEW p \in Procs, NEW r, Moves(p, r),
           executed' \subseteq network', network \subseteq network', executed \subseteq executed',
           TrueOf(r, network', executed'),
           raced => raced',
           ~raced' =>
             /\ KeptOf(r, pending', proposals')
             /\ \A q \in Procs \ {p} : KeptOf(proc[q], pending', proposals')
             /\ (p = "daemon" /\ DrainingOf(r)) => proc["publish"].pc = "idle"
             /\ (p = "publish" /\ r.pc # "idle") => ~DrainingOf(proc["daemon"])
             /\ network' \subseteq
                  executed' \union proposals' \union quarantine' \union Range(pending')
                  \union Range(denied') \union orphans'
                  \union HandOf(IF p = "publish" THEN r ELSE proc["publish"])
    PROVE  Accounts'
<1>1. proc'[p] = r /\ \A q \in Procs \ {p} : proc'[q] = proc[q]
  BY MovesTo
<1>2. Truth'
  BY <1>1 DEF Accounts, Truth, TrueOf
<1>3. Apart'
  <2>1. "daemon" \in Procs /\ "publish" \in Procs
    BY DEF Procs
  <2> QED BY <1>1, <2>1 DEF Apart, Accounts, Procs
<1>4. Kept'
  BY <1>1 DEF Kept
<1>5. Accounted'
  <2>1. proc'["publish"] = IF p = "publish" THEN r ELSE proc["publish"]
    BY <1>1 DEF Procs
  <2> QED BY <2>1 DEF Accounted
<1> QED BY <1>2, <1>3, <1>4, <1>5 DEF Accounts

\* A spool that only grows, and the same queue of proposals or a longer one.
LEMMA KeptGrows ==
    ASSUME NEW r, NEW P, NEW Q, NEW S, NEW T, KeptOf(r, P, S), S \subseteq T,
           \A n \in DOMAIN P : n \in DOMAIN Q /\ Q[n] = P[n]
    PROVE  KeptOf(r, Q, T)
BY DEF KeptOf

\* The common case: nothing is taken from any of the places where an action
\* can be found, and what is in hand stays in hand.
LEMMA AccountsGrow ==
    ASSUME Typed, Accounts, NEW p \in Procs, NEW r, Moves(p, r),
           executed' \subseteq network', network \subseteq network', executed \subseteq executed',
           TrueOf(r, network', executed'), raced => raced',
           \A n \in DOMAIN pending : n \in DOMAIN pending' /\ pending'[n] = pending[n],
           proposals \subseteq proposals', quarantine \subseteq quarantine',
           Range(denied) \subseteq Range(denied') \union orphans', orphans \subseteq orphans',
           p = "publish" => HandOf(proc[p]) \subseteq executed' \union orphans' \union HandOf(r),
           ~raced' =>
             /\ KeptOf(r, pending', proposals')
             /\ (p = "daemon" /\ DrainingOf(r)) => proc["publish"].pc = "idle"
             /\ (p = "publish" /\ r.pc # "idle") => ~DrainingOf(proc["daemon"])
             /\ network' \subseteq network \union proposals' \union Range(pending')
    PROVE  Accounts'
<1>1. Range(pending) \subseteq Range(pending')
  BY DEF Range
<1>2. ASSUME ~raced' PROVE \A q \in Procs \ {p} : KeptOf(proc[q], pending', proposals')
  <2>1. \A q \in Procs : KeptOf(proc[q], pending, proposals)
    BY <1>2 DEF Accounts, Kept
  <2> QED BY <2>1, KeptGrows
<1>3. ASSUME ~raced'
      PROVE  network' \subseteq
                executed' \union proposals' \union quarantine' \union Range(pending')
                \union Range(denied') \union orphans'
                \union HandOf(IF p = "publish" THEN r ELSE proc["publish"])
  <2>1. network \subseteq
          executed \union proposals \union quarantine \union Range(pending) \union Range(denied)
          \union orphans \union HandOf(proc["publish"])
    BY <1>3 DEF Accounts, Accounted
  <2>2. network' \subseteq network \union proposals' \union Range(pending')
    BY <1>3
  <2>3. HandOf(proc["publish"]) \subseteq executed' \union orphans'
          \union HandOf(IF p = "publish" THEN r ELSE proc["publish"])
    OBVIOUS
  <2> QED BY <1>1, <2>1, <2>2, <2>3
<1> QED BY <1>2, <1>3, AccountsMoves

LEMMA IdleFacts ==
    /\ Idle.pc = "idle" /\ Idle.via = None /\ DOMAIN Idle.todo = {}
    /\ ~DrainingOf(Idle) /\ HandOf(Idle) = {}
    /\ \A N, E : TrueOf(Idle, N, E)
    /\ \A P, S : KeptOf(Idle, P, S)
<1>1. DOMAIN <<>> = {}
  BY NumberedEmpty
<1>2. Idle.pc = "idle" /\ Idle.via = None /\ Idle.todo = <<>>
  BY DEF Idle
<1> QED BY <1>1, <1>2 DEF DrainingOf, HandOf, TrueOf, KeptOf, None

LEMMA AccountsIdle ==
    ASSUME Typed, Accounts, NEW p \in Procs, Moves(p, Idle), raced' = raced,
           UNCHANGED <<network, executed, pending, proposals, quarantine, denied>>,
           orphans \subseteq orphans', p = "publish" => HandOf(proc[p]) \subseteq orphans'
    PROVE  Accounts'
<1>1. executed' \subseteq network'
  BY DEF Accounts, Truth
<1>2. \A n \in DOMAIN pending : n \in DOMAIN pending' /\ pending'[n] = pending[n]
  OBVIOUS
<1>3. TrueOf(Idle, network', executed') /\ KeptOf(Idle, pending', proposals')
      /\ ~DrainingOf(Idle) /\ Idle.pc = "idle"
  BY IdleFacts
<1> QED BY <1>1, <1>2, <1>3, AccountsGrow

LEMMA EndsAccounted ==
    ASSUME Typed, Accounts, NEW p \in Procs,
           SessionFails(p) \/ StateLockError(p) \/ Crash(p)
    PROVE  Accounts'
<1>1. /\ Moves(p, Idle) /\ raced' = raced
      /\ UNCHANGED <<network, executed, pending, proposals, quarantine, denied>>
  BY DEF SessionFails, StateLockError, Crash, Dies, Moves, files, history
<1>2. orphans \subseteq orphans' /\ (p = "publish" => HandOf(proc[p]) \subseteq orphans')
  BY DEF SessionFails, StateLockError, Crash, HandOf, At, history
<1> QED BY <1>1, <1>2, AccountsIdle

LEMMA CrashInSpoolAccounted ==
    ASSUME Typed, Accounts, NEW p \in Procs, CrashInSpool(p)
    PROVE  Accounts'
<1>1. /\ proc[p].act \in Actions /\ Moves(p, Idle)
      /\ pending' \in {pending, spool_append(pending, proc[p].act)}
  BY CrashInSpoolFinds
<1>2. /\ raced' = raced /\ orphans' = orphans
      /\ UNCHANGED <<network, executed, proposals, quarantine, denied>>
      /\ HandOf(proc[p]) = {}
  BY DEF CrashInSpool, At, HandOf, history
<1>3. pending \in Spools
  BY DEF Typed, TypeOK
<1>4. \A n \in DOMAIN pending : n \in DOMAIN pending' /\ pending'[n] = pending[n]
  <2>1. CASE pending' = pending
    BY <2>1
  <2>2. CASE pending' = spool_append(pending, proc[p].act)
    BY <1>1, <1>3, <2>2, Appended
  <2> QED BY <1>1, <2>1, <2>2
<1>5. executed' \subseteq network'
  BY <1>2 DEF Accounts, Truth
<1>6. TrueOf(Idle, network', executed') /\ KeptOf(Idle, pending', proposals')
      /\ ~DrainingOf(Idle) /\ Idle.pc = "idle"
  BY IdleFacts
<1> QED BY <1>1, <1>2, <1>4, <1>5, <1>6, AccountsGrow

LEMMA ReturnsAccounted ==
    ASSUME Typed, Accounts, PublishReturns \/ NothingToExecute \/ save_breaker_state
    PROVE  Accounts'
<1>1. "publish" \in Procs /\ "daemon" \in Procs
  BY DEF Procs
<1>2. /\ raced' = raced /\ orphans' = orphans
      /\ UNCHANGED <<network, executed, pending, proposals, quarantine, denied>>
  BY DEF PublishReturns, NothingToExecute, save_breaker_state, files, history
<1>3. CASE PublishReturns
  <2>1. Moves("publish", Idle) /\ HandOf(proc["publish"]) = {}
    BY <1>3 DEF PublishReturns, Moves, HandOf, At
  <2> QED BY <1>1, <1>2, <2>1, AccountsIdle
<1>4. CASE NothingToExecute \/ save_breaker_state
  <2>1. Moves("daemon", Idle)
    BY <1>4 DEF NothingToExecute, save_breaker_state, Moves
  <2> QED BY <1>1, <1>2, <2>1, AccountsIdle
<1> QED BY <1>3, <1>4

\* What a step that stays within one attempt keeps.
LEMMA AccountsWithin ==
    ASSUME Typed, Accounts, NEW p \in Procs, NEW r, Moves(p, r), raced' = raced,
           UNCHANGED <<pending, proposals, quarantine, denied, orphans>>,
           executed' \subseteq network', network \subseteq network', executed \subseteq executed',
           network' \subseteq network \union {proc[p].act},
           network' # network => proc[p].pc = "put",
           TrueOf(r, network', executed'),
           proc[p].pc \in Attempt \union {"lock"}, r.pc \in Attempt,
           r.via = proc[p].via, r.act = proc[p].act, r.todo = proc[p].todo,
           r.entry = proc[p].entry,
           r.pc \in {"put", "unspool"} => proc[p].pc = "put" \/ r.via = "drain",
           HandOf(proc[p]) \subseteq executed' \union HandOf(r)
    PROVE  Accounts'
<1>1. \A n \in DOMAIN pending : n \in DOMAIN pending' /\ pending'[n] = pending[n]
  OBVIOUS
<1>2. ASSUME ~raced' PROVE KeptOf(r, pending', proposals')
  BY <1>2 DEF Accounts, Kept, KeptOf, Attempt
<1>3. ASSUME ~raced'
      PROVE  /\ (p = "daemon" /\ DrainingOf(r)) => proc["publish"].pc = "idle"
             /\ (p = "publish" /\ r.pc # "idle") => ~DrainingOf(proc["daemon"])
  BY <1>3 DEF Accounts, Apart, DrainingOf, Attempt, Procs
<1>4. ASSUME ~raced' PROVE network' \subseteq network \union proposals' \union Range(pending')
  <2>1. CASE network' = network
    BY <2>1
  <2>2. CASE network' # network
    <3>1. KeptOf(proc[p], pending, proposals)
      BY <1>4 DEF Accounts, Kept
    <3>2. proc[p].entry \in DOMAIN pending /\ pending[proc[p].entry] = proc[p].act
      BY <2>2, <3>1 DEF KeptOf
    <3>3. proc[p].act \in Range(pending')
      BY <3>2 DEF Range
    <3> QED BY <3>3
  <2> QED BY <2>1, <2>2
<1> QED BY <1>1, <1>2, <1>3, <1>4, AccountsGrow

LEMMA ResolveFailsAccounted ==
    ASSUME Typed, Accounts, NEW p \in Procs, ResolveFails(p) \/ put_record_fails(p)
    PROVE  Accounts'
<1> DEFINE r == [proc[p] EXCEPT !.pc = "record", !.outcome = "failed", !.base = FreshBudget]
<1>1. /\ Moves(p, r) /\ raced' = raced /\ executed' = executed
      /\ UNCHANGED <<pending, proposals, quarantine, denied, orphans>>
      /\ proc[p].pc \in {"resolve", "put"} /\ "failed" \in Outcomes
  BY FinishMoves DEF ResolveFails, put_record_fails, At, Outcomes, files, history
<1>2. /\ r.pc = "record" /\ r.outcome = "failed" /\ r.act = proc[p].act /\ r.via = proc[p].via
      /\ r.entry = proc[p].entry /\ r.todo = proc[p].todo
  <2>1. proc[p].pc \in Attempt \ {"unspool"}
    BY <1>1 DEF Attempt
  <2>2. "failed" \in Outcomes
    BY <1>1
  <2> QED BY <2>1, <2>2, FinishKeeps, ZenonT(60)
<1>3. /\ network \subseteq network' /\ network' \subseteq network \union {proc[p].act}
      /\ network' # network => proc[p].pc = "put"
  BY DEF ResolveFails, put_record_fails, At
<1> HIDE DEF r
<1>4. TrueOf(r, network', executed') /\ HandOf(proc[p]) = {}
  BY <1>1, <1>2 DEF TrueOf, HandOf
<1>5. executed' \subseteq network'
  BY <1>1, <1>3 DEF Accounts, Truth
<1> QED BY <1>1, <1>2, <1>3, <1>4, <1>5, AccountsWithin DEF Attempt

LEMMA PutAccounted ==
    ASSUME Typed, Accounts, NEW p \in Procs, put_record(p)
    PROVE  Accounts'
<1> DEFINE l == IF proc[p].via = "drain" THEN "charge" ELSE "unspool"
           r == [proc[p] EXCEPT !.pc = l]
<1>1. /\ Moves(p, r) /\ raced' = raced /\ executed' = executed
      /\ UNCHANGED <<pending, proposals, quarantine, denied, orphans>>
      /\ proc[p].pc = "put" /\ network' = network \union {proc[p].act}
  BY GotoMoves DEF put_record, At, files, history
<1>2. /\ r.pc = l /\ r.outcome = proc[p].outcome /\ r.act = proc[p].act /\ r.via = proc[p].via
      /\ r.entry = proc[p].entry /\ r.todo = proc[p].todo /\ l \in {"charge", "unspool"}
  <2>1. l \in {"decide", "gate", "put", "unspool", "charge", "record", "settle", "close"}
    OBVIOUS
  <2>2. l \in {"charge", "unspool"}
    OBVIOUS
  <2> HIDE DEF l
  <2> QED BY <2>1, <2>2, GotoKeeps
<1> HIDE DEF r
<1>3. TrueOf(r, network', executed') /\ HandOf(proc[p]) = {}
  BY <1>1, <1>2 DEF TrueOf, HandOf
<1>4. executed' \subseteq network'
  BY <1>1 DEF Accounts, Truth
<1> QED BY <1>1, <1>2, <1>3, <1>4, AccountsWithin DEF Attempt

LEMMA ChargeAccounted ==
    ASSUME Typed, Accounts, NEW p \in Procs, save_outbound_budget_state(p)
    PROVE  Accounts'
<1> DEFINE r == [proc[p] EXCEPT !.pc = "record", !.outcome = "executed", !.base = FreshBudget]
<1>1. /\ Moves(p, r) /\ raced' = raced /\ executed' = executed /\ network' = network
      /\ UNCHANGED <<pending, proposals, quarantine, denied, orphans>>
      /\ proc[p].pc = "charge" /\ "executed" \in Outcomes
  BY FinishMoves DEF save_outbound_budget_state, At, Outcomes
<1>2. /\ r.pc = "record" /\ r.outcome = "executed" /\ r.act = proc[p].act /\ r.via = proc[p].via
      /\ r.entry = proc[p].entry /\ r.todo = proc[p].todo
  BY <1>1, FinishKeeps DEF Attempt
<1> HIDE DEF r
<1>3. proc[p].act \in network /\ executed \subseteq network
  BY <1>1 DEF Accounts, Truth, TrueOf
<1>4. TrueOf(r, network', executed') /\ HandOf(proc[p]) = HandOf(r)
  BY <1>1, <1>2, <1>3 DEF TrueOf, HandOf
<1> QED BY <1>1, <1>2, <1>3, <1>4, AccountsWithin DEF Attempt

LEMMA JournalAccounted ==
    ASSUME Typed, Accounts, NEW p \in Procs, append_journal_action(p)
    PROVE  Accounts'
<1> DEFINE r == [proc[p] EXCEPT !.pc = "settle"]
<1>1. /\ Moves(p, r) /\ raced' = raced /\ network' = network
      /\ UNCHANGED <<pending, proposals, quarantine, denied, orphans>>
      /\ proc[p].pc = "record"
      /\ executed' = (IF proc[p].outcome = "executed" THEN executed \union {proc[p].act}
                      ELSE executed)
  BY GotoMoves DEF append_journal_action, At, history
<1>2. /\ r.pc = "settle" /\ r.outcome = proc[p].outcome /\ r.act = proc[p].act
      /\ r.via = proc[p].via /\ r.entry = proc[p].entry /\ r.todo = proc[p].todo
  BY GotoKeeps
<1> HIDE DEF r
<1>3. (proc[p].outcome = "executed" => proc[p].act \in network) /\ executed \subseteq network
  BY <1>1 DEF Accounts, Truth, TrueOf
<1>4. TrueOf(r, network', executed') /\ HandOf(proc[p]) \subseteq executed'
  BY <1>1, <1>2, <1>3 DEF TrueOf, HandOf
<1>5. executed \subseteq executed' /\ executed' \subseteq network'
  BY <1>1, <1>3
<1> QED BY <1>1, <1>2, <1>3, <1>4, <1>5, AccountsWithin DEF Attempt

LEMMA LockAccounted ==
    ASSUME Typed, Accounts, NEW p \in Procs, StateLockAcquired(p)
    PROVE  Accounts'
<1> DEFINE r == [proc[p] EXCEPT !.pc = "gate"]
<1>1. /\ Moves(p, r) /\ raced' = raced /\ network' = network /\ executed' = executed
      /\ UNCHANGED <<pending, proposals, quarantine, denied, orphans>>
      /\ proc[p].pc = "lock"
  BY GotoMoves DEF StateLockAcquired, At, files, history
<1>2. /\ r.pc = "gate" /\ r.outcome = proc[p].outcome /\ r.act = proc[p].act
      /\ r.via = proc[p].via /\ r.entry = proc[p].entry /\ r.todo = proc[p].todo
  BY GotoKeeps
<1> HIDE DEF r
<1>3. TrueOf(r, network', executed') /\ HandOf(proc[p]) = {}
  BY <1>1, <1>2 DEF TrueOf, HandOf
<1>4. executed \subseteq network
  BY DEF Accounts, Truth
<1> QED BY <1>1, <1>2, <1>3, <1>4, AccountsWithin DEF Attempt

LEMMA AttemptAccounted ==
    ASSUME Typed, Accounts, NEW p \in Procs, attempt_outbound_action(p)
    PROVE  Accounts'
<1> DEFINE a == proc[p].act
           base == prune_kind(budget, proc[p].now)
           verdict == execute_outbound_action(control, base, a, proc[p].now,
                                              p = "daemon" \/ ExternalPublishing)
           fin(o) == [proc[p] EXCEPT !.pc = "record", !.outcome = o, !.base = FreshBudget]
           res == [proc[p] EXCEPT !.pc = "resolve", !.base = base]
<1>1. /\ proc[p].pc = "gate" /\ raced' = raced
      /\ UNCHANGED <<network, executed, proposals, quarantine, denied, orphans>>
  BY DEF attempt_outbound_action, At, history
<1>2. executed \subseteq network /\ HandOf(proc[p]) = {} /\ proc[p].pc \in Attempt \ {"unspool"}
  BY <1>1 DEF Accounts, Truth, HandOf, Attempt
<1>3. a \in Actions /\ pending \in Spools /\ proc[p] \in Process
  BY <1>1, ProcFields DEF ShapeOf, Attempt, Typed, TypeOK
<1>4. verdict \in {"denied", "deferred", "dry_run", "allow"}
  BY DEF execute_outbound_action
<1> HIDE DEF base, verdict
<1>5. ASSUME NEW o \in Outcomes, o # "executed"
      PROVE  /\ fin(o).pc = "record" /\ fin(o).act = a /\ fin(o).via = proc[p].via
             /\ fin(o).todo = proc[p].todo /\ fin(o).entry = proc[p].entry
             /\ TrueOf(fin(o), network', executed')
  <2>1. /\ fin(o).pc = "record" /\ fin(o).act = a /\ fin(o).via = proc[p].via
        /\ fin(o).todo = proc[p].todo /\ fin(o).entry = proc[p].entry /\ fin(o).outcome = o
    BY <1>2, FinishKeeps
  <2> HIDE DEF fin
  <2> QED BY <1>5, <2>1 DEF TrueOf
<1>6. CASE /\ control.offline_mode /\ proc[p].via # "drain"
           /\ pending' = spool_append(pending, a) /\ Finish(p, "dry_run")
  <2> DEFINE r == fin("dry_run")
  <2>1. Moves(p, r) /\ "dry_run" \in Outcomes
    BY <1>6, FinishMoves DEF Outcomes
  <2>2. /\ r.pc = "record" /\ r.act = a /\ r.via = proc[p].via
        /\ r.todo = proc[p].todo /\ r.entry = proc[p].entry /\ TrueOf(r, network', executed')
    BY <1>5, <2>1
  <2> HIDE DEF r
  <2>3. \A n \in DOMAIN pending : n \in DOMAIN pending' /\ pending'[n] = pending[n]
    BY <1>3, <1>6, Appended
  <2>4. ASSUME ~raced' PROVE KeptOf(r, pending', proposals')
    <3>1. KeptOf(proc[p], pending', proposals')
      BY <1>1, <2>3, <2>4, KeptGrows DEF Accounts, Kept
    <3> QED BY <1>1, <1>6, <2>2, <3>1 DEF KeptOf
  <2>5. ASSUME ~raced'
        PROVE  /\ (p = "daemon" /\ DrainingOf(r)) => proc["publish"].pc = "idle"
               /\ (p = "publish" /\ r.pc # "idle") => ~DrainingOf(proc["daemon"])
    BY <1>1, <2>2, <2>5 DEF Accounts, Apart, DrainingOf, Procs
  <2> QED BY <1>1, <1>2, <2>1, <2>2, <2>3, <2>4, <2>5, AccountsGrow
<1>7. CASE /\ pending' = pending /\ verdict = "allow"
           /\ proc' = [proc EXCEPT ![p].pc = "resolve", ![p].base = base]
  <2>1. Moves(p, res)
    BY <1>7 DEF Moves, Typed, TypeOK
  <2>2. /\ res.pc = "resolve" /\ res.act = a /\ res.via = proc[p].via
        /\ res.todo = proc[p].todo /\ res.entry = proc[p].entry
    BY <1>3 DEF Process
  <2> HIDE DEF res
  <2>3. TrueOf(res, network', executed') /\ res.pc \in Attempt
    BY <2>2 DEF TrueOf, Attempt
  <2> QED BY <1>1, <1>2, <1>7, <2>1, <2>2, <2>3, AccountsWithin
<1>8. CASE pending' = pending /\ verdict # "allow" /\ Finish(p, verdict)
  <2>1. verdict \in Outcomes /\ verdict # "executed" /\ Moves(p, fin(verdict))
    BY <1>4, <1>8, FinishMoves DEF Outcomes
  <2> DEFINE r == fin(verdict)
  <2>2. /\ r.pc = "record" /\ r.act = a /\ r.via = proc[p].via /\ Moves(p, r)
        /\ r.todo = proc[p].todo /\ r.entry = proc[p].entry /\ TrueOf(r, network', executed')
    BY <1>5, <2>1
  <2> HIDE DEF r
  <2>3. r.pc \in Attempt
    BY <2>2 DEF Attempt
  <2> QED BY <1>1, <1>2, <1>8, <2>2, <2>3, AccountsWithin
<1> QED BY <1>6, <1>7, <1>8 DEF attempt_outbound_action, base, verdict

LEMMA SpoolFirstAccounted ==
    ASSUME Typed, Accounts, NEW p \in Procs, SpoolFirst(p)
    PROVE  Accounts'
<1>1. /\ proc[p].pc = "resolve" /\ raced' = raced
      /\ UNCHANGED <<network, executed, proposals, quarantine, denied, orphans>>
  BY DEF SpoolFirst, At, history
<1>2. executed \subseteq network /\ HandOf(proc[p]) = {} /\ proc[p].pc \in Attempt \ {"unspool"}
  BY <1>1 DEF Accounts, Truth, HandOf, Attempt
<1>3. proc[p].act \in Actions /\ pending \in Spools /\ proc[p] \in Process
  BY <1>1, ProcFields DEF ShapeOf, Attempt, Typed, TypeOK
<1>4. CASE proc[p].via = "drain"
  <2> DEFINE r == [proc[p] EXCEPT !.pc = "put"]
  <2>1. Moves(p, r) /\ pending' = pending
    BY <1>4, GotoMoves DEF SpoolFirst
  <2>2. /\ r.pc = "put" /\ r.act = proc[p].act /\ r.via = proc[p].via /\ r.todo = proc[p].todo
        /\ r.entry = proc[p].entry
    BY GotoKeeps
  <2> HIDE DEF r
  <2>3. TrueOf(r, network', executed') /\ r.pc \in Attempt
    BY <2>2 DEF TrueOf, Attempt
  <2> QED BY <1>1, <1>2, <1>4, <2>1, <2>2, <2>3, AccountsWithin
<1>5. CASE proc[p].via # "drain" /\ Listable
  <2> DEFINE r == [proc[p] EXCEPT !.pc = "put", !.entry = NextSeq(pending)]
  <2>1. Moves(p, r) /\ pending' = spool_append(pending, proc[p].act)
    BY <1>5 DEF SpoolFirst, Moves, Typed, TypeOK
  <2>2. /\ r.pc = "put" /\ r.act = proc[p].act /\ r.via = proc[p].via /\ r.todo = proc[p].todo
        /\ r.entry = NextSeq(pending)
    BY <1>3 DEF Process
  <2> HIDE DEF r
  <2>3. TrueOf(r, network', executed')
    BY <2>2 DEF TrueOf
  <2>4. /\ \A n \in DOMAIN pending : n \in DOMAIN pending' /\ pending'[n] = pending[n]
        /\ NextSeq(pending) \in DOMAIN pending' /\ pending'[NextSeq(pending)] = proc[p].act
    BY <1>3, <2>1, Appended
  <2>5. ASSUME ~raced' PROVE KeptOf(r, pending', proposals')
    <3>1. KeptOf(proc[p], pending', proposals')
      BY <1>1, <2>4, <2>5, KeptGrows DEF Accounts, Kept
    <3> QED BY <1>1, <1>5, <2>2, <2>4, <3>1 DEF KeptOf
  <2>6. ASSUME ~raced'
        PROVE  /\ (p = "daemon" /\ DrainingOf(r)) => proc["publish"].pc = "idle"
               /\ (p = "publish" /\ r.pc # "idle") => ~DrainingOf(proc["daemon"])
    BY <1>1, <2>2, <2>6 DEF Accounts, Apart, DrainingOf, Procs
  <2> QED BY <1>1, <1>2, <2>1, <2>2, <2>3, <2>4, <2>5, <2>6, AccountsGrow
<1>6. CASE proc[p].via # "drain" /\ ~Listable
  <2> DEFINE r == [proc[p] EXCEPT !.pc = "record", !.outcome = "failed", !.base = FreshBudget]
  <2>1. Moves(p, r) /\ pending' = pending /\ "failed" \in Outcomes
    BY <1>6, FinishMoves DEF SpoolFirst, Outcomes
  <2>2. /\ r.pc = "record" /\ r.outcome = "failed" /\ r.act = proc[p].act /\ r.via = proc[p].via
        /\ r.entry = proc[p].entry /\ r.todo = proc[p].todo
    BY <1>2, <2>1, FinishKeeps, ZenonT(60)
  <2> HIDE DEF r
  <2>3. TrueOf(r, network', executed') /\ r.pc \in Attempt
    BY <2>2 DEF TrueOf, Attempt
  <2> QED BY <1>1, <1>2, <2>1, <2>2, <2>3, AccountsWithin
<1> QED BY <1>4, <1>5, <1>6

LEMMA SpoolRemoveAccounted ==
    ASSUME Typed, Accounts, NEW p \in Procs, spool_remove(p)
    PROVE  Accounts'
<1> DEFINE r == [proc[p] EXCEPT !.pc = "charge"]
           e == proc[p].entry
<1>1. /\ Moves(p, r) /\ raced' = raced /\ proc[p].pc = "unspool"
      /\ pending' = Without(pending, e)
      /\ UNCHANGED <<network, executed, proposals, quarantine, denied, orphans>>
  BY GotoMoves DEF spool_remove, At, history
<1>2. /\ r.pc = "charge" /\ r.act = proc[p].act /\ r.via = proc[p].via /\ r.todo = proc[p].todo
  BY GotoKeeps
<1> HIDE DEF r
<1>3. executed \subseteq network /\ proc[p].act \in network
  BY <1>1 DEF Accounts, Truth, TrueOf
<1>4. TrueOf(r, network', executed')
  BY <1>1, <1>2, <1>3 DEF TrueOf
<1>5. ShapeOf(p, proc[p]) /\ proc[p].via # "drain" /\ lock = p /\ pending \in Spools
  <2>1. ShapeOf(p, proc[p]) /\ proc[p].via # "drain"
    BY <1>1, ProcFields DEF ShapeOf
  <2>2. Locking(proc[p])
    BY <1>1, <2>1 DEF Locking, Attempt
  <2> QED BY <2>1, <2>2 DEF Typed, TypeOK, Locked
<1>6. /\ DOMAIN pending' = DOMAIN pending \ {e}
      /\ \A n \in DOMAIN pending \ {e} : pending'[n] = pending[n]
  BY <1>1, <1>5, Removed
<1>7. ASSUME ~raced
      PROVE  /\ KeptOf(proc[p], pending, proposals) /\ DOMAIN proc[p].todo = {}
             /\ e \in DOMAIN pending /\ pending[e] = proc[p].act
             /\ ~DrainingOf(proc["daemon"])
  <2>1. KeptOf(proc[p], pending, proposals)
    BY <1>7 DEF Accounts, Kept
  <2>2. DOMAIN proc[p].todo = {} /\ e \in DOMAIN pending /\ pending[e] = proc[p].act
    BY <1>1, <1>5, <2>1 DEF KeptOf
  <2>3. CASE p = "publish"
    BY <1>1, <1>7, <2>1, <2>2, <2>3 DEF Accounts, Apart
  <2>4. CASE p = "daemon"
    BY <1>5, <2>1, <2>2, <2>4 DEF DrainingOf
  <2> QED BY <2>1, <2>2, <2>3, <2>4 DEF Procs
<1>8. ASSUME ~raced' PROVE KeptOf(r, pending', proposals')
  BY <1>1, <1>2, <1>5, <1>7, <1>8 DEF KeptOf
<1>9. ASSUME ~raced', NEW q \in Procs \ {p} PROVE KeptOf(proc[q], pending', proposals')
  <2>1. KeptOf(proc[q], pending, proposals) /\ ShapeOf(q, proc[q])
    BY <1>1, <1>9, ProcFields DEF Accounts, Kept
  <2>2. ~Locking(proc[q])
    BY <1>5 DEF Typed, Locked
  <2>3. ~DrainingOf(proc[q])
    <3>1. CASE q = "daemon"
      BY <1>1, <1>7, <1>9, <3>1
    <3>2. CASE q = "publish"
      <4>1. proc[q].via # "drain" /\ proc[q].pc # "drain"
        BY <2>1, <3>2 DEF ShapeOf
      <4> QED BY <2>1, <4>1 DEF KeptOf, DrainingOf
    <3> QED BY <3>1, <3>2 DEF Procs
  <2> QED BY <1>1, <2>1, <2>2, <2>3 DEF KeptOf, Locking, DrainingOf, Attempt
<1>10. ASSUME ~raced'
       PROVE  network' \subseteq
                executed' \union proposals' \union quarantine' \union Range(pending')
                \union Range(denied') \union orphans'
                \union HandOf(IF p = "publish" THEN r ELSE proc["publish"])
  <2>1. network \subseteq
          executed \union proposals \union quarantine \union Range(pending) \union Range(denied)
          \union orphans \union HandOf(proc["publish"])
    BY <1>1, <1>10 DEF Accounts, Accounted
  <2>2. Range(pending) \subseteq Range(pending') \union {proc[p].act}
    BY <1>1, <1>6, <1>7, <1>10 DEF Range
  <2>3. CASE p = "publish"
    <3>1. HandOf(proc["publish"]) = {} /\ HandOf(r) = {proc[p].act}
      BY <1>1, <1>2, <2>3 DEF HandOf
    <3> QED BY <1>1, <2>1, <2>2, <2>3, <3>1
  <2>4. CASE p = "daemon"
    <3>1. proc[p].via = "proposal"
      BY <1>1, <1>5, <2>4, ProcFields DEF ShapeOf, Process, Attempt, None
    <3>2. proc[p].act \in proposals
      BY <1>1, <1>7, <1>10, <3>1 DEF KeptOf
    <3> QED BY <1>1, <2>1, <2>2, <2>4, <3>2
  <2> QED BY <2>3, <2>4 DEF Procs
<1>11. ASSUME ~raced'
       PROVE  /\ (p = "daemon" /\ DrainingOf(r)) => proc["publish"].pc = "idle"
              /\ (p = "publish" /\ r.pc # "idle") => ~DrainingOf(proc["daemon"])
  BY <1>1, <1>2, <1>5, <1>7, <1>11 DEF DrainingOf
<1> QED BY <1>1, <1>3, <1>4, <1>8, <1>9, <1>10, <1>11, AccountsMoves

LEMMA EditAccounted == ASSUME Accounts, Edit PROVE Accounts'
<1>1. UNCHANGED <<proc, network, executed, pending, proposals, quarantine, denied, orphans, raced>>
  BY DEF Edit, history
<1> QED BY <1>1 DEF Accounts, Truth, Apart, Kept, Accounted

LEMMA PublishAccounted ==
    ASSUME Typed, Accounts, run_publish
    PROVE  Accounts'
<1>1. PICK a \in Actions \ Proposed :
        proc' = [proc EXCEPT !["publish"] =
                  [Idle EXCEPT !.pc = "lock", !.now = clock', !.act = a, !.via = "file"]]
  BY DEF run_publish
<1> DEFINE r == [Idle EXCEPT !.pc = "lock", !.now = clock', !.act = a, !.via = "file"]
<1>2. /\ Moves("publish", r) /\ proc["publish"].pc = "idle" /\ "publish" \in Procs
      /\ raced' = (raced \/ DrainingOf(proc["daemon"]))
      /\ UNCHANGED <<network, executed, pending, proposals, quarantine, denied, orphans>>
  BY <1>1 DEF run_publish, Moves, At, files, Procs, Draining, DrainingOf
<1>3. r.pc = "lock" /\ r.via = "file" /\ DOMAIN r.todo = {}
  BY IdleFacts DEF Idle
<1> HIDE DEF r
<1>4. TrueOf(r, network', executed') /\ KeptOf(r, pending', proposals')
  BY <1>3 DEF TrueOf, KeptOf
<1>5. HandOf(proc["publish"]) = {} /\ executed \subseteq network
  BY <1>2 DEF HandOf, Accounts, Truth
<1>6. \A n \in DOMAIN pending : n \in DOMAIN pending' /\ pending'[n] = pending[n]
  BY <1>2
<1> QED BY <1>2, <1>3, <1>4, <1>5, <1>6, AccountsGrow

LEMMA CycleAccounted ==
    ASSUME Typed, Accounts, run_scheduler_cycle
    PROVE  Accounts'
<1> DEFINE todo == IF control.offline_mode THEN <<>> ELSE pending
           r == [Idle EXCEPT !.pc = "drain", !.now = clock', !.todo = todo]
<1>1. /\ Moves("daemon", r) /\ "daemon" \in Procs /\ "publish" \in Procs
      /\ UNCHANGED <<network, executed, pending, proposals, quarantine, denied, orphans>>
  BY DEF run_scheduler_cycle, Moves, files, Procs
<1>2. r.pc = "drain" /\ r.via = None /\ r.todo = todo
  BY DEF Idle
<1> HIDE DEF r
<1>3. proc'["daemon"] = r
  BY <1>1, MovesTo
<1>4. raced' = (raced \/ (proc["publish"].pc # "idle" /\ DOMAIN todo # {}))
  BY <1>2, <1>3 DEF run_scheduler_cycle, At
<1>5. DOMAIN <<>> = {}
  BY NumberedEmpty
<1>6. TrueOf(r, network', executed') /\ KeptOf(r, pending', proposals')
  BY <1>1, <1>2, <1>5 DEF TrueOf, KeptOf, None
<1>7. DrainingOf(r) => DOMAIN todo # {}
  BY <1>2 DEF DrainingOf, None
<1>8. executed \subseteq network
  BY DEF Accounts, Truth
<1>9. \A n \in DOMAIN pending : n \in DOMAIN pending' /\ pending'[n] = pending[n]
  BY <1>1
<1> HIDE DEF todo
<1> QED BY <1>1, <1>4, <1>6, <1>7, <1>8, <1>9, AccountsGrow

LEMMA DrainAccounted ==
    ASSUME Typed, Accounts, spool_drain
    PROVE  Accounts'
<1> DEFINE d == proc["daemon"]
<1>1. /\ d.pc = "drain" /\ "daemon" \in Procs /\ raced' = raced
      /\ UNCHANGED <<network, executed, pending, proposals, quarantine, denied, orphans>>
  BY DEF spool_drain, At, Procs, files, history
<1>2. d \in Process /\ d.todo \in Spools /\ d.via = None
  BY <1>1, ProcFields DEF ShapeOf
<1>3. executed \subseteq network
      /\ \A n \in DOMAIN pending : n \in DOMAIN pending' /\ pending'[n] = pending[n]
  BY <1>1 DEF Accounts, Truth
<1>4. ~raced' => KeptOf(d, pending', proposals') /\ (DrainingOf(d) => proc["publish"].pc = "idle")
  BY <1>1 DEF Accounts, Kept, Apart
<1>5. CASE DOMAIN d.todo = {}
  <2> DEFINE r == [d EXCEPT !.pc = "decide"]
  <2>1. Moves("daemon", r)
    BY <1>1, <1>5, GotoMoves DEF spool_drain
  <2>2. r.pc = "decide" /\ r.via = None /\ r.todo = d.todo
    BY <1>1, <1>2, GotoKeeps
  <2> HIDE DEF r
  <2>3. TrueOf(r, network', executed') /\ KeptOf(r, pending', proposals') /\ ~DrainingOf(r)
    BY <1>5, <2>2 DEF TrueOf, KeptOf, DrainingOf, None
  <2> QED BY <1>1, <1>3, <2>1, <2>3, AccountsGrow
<1>6. CASE DOMAIN d.todo # {}
  <2>1. PICK n \in DOMAIN d.todo :
          proc' = [proc EXCEPT !["daemon"] =
                     [@ EXCEPT !.pc = "gate", !.via = "drain", !.act = d.todo[n],
                               !.entry = n, !.todo = Without(d.todo, n)]]
    BY <1>6 DEF spool_drain
  <2> DEFINE r == [d EXCEPT !.pc = "gate", !.via = "drain", !.act = d.todo[n],
                            !.entry = n, !.todo = Without(d.todo, n)]
  <2>2. Moves("daemon", r)
    BY <1>1, <2>1 DEF Moves, Typed, TypeOK
  <2>3. r.pc = "gate" /\ r.via = "drain" /\ r.act = d.todo[n] /\ r.entry = n
        /\ r.todo = Without(d.todo, n)
    BY <1>2 DEF Process
  <2> HIDE DEF r
  <2>4. DOMAIN r.todo = DOMAIN d.todo \ {n} /\ \A m \in DOMAIN d.todo \ {n} : r.todo[m] = d.todo[m]
    BY <2>3 DEF Without, Restrict
  <2>5. TrueOf(r, network', executed')
    BY <2>3 DEF TrueOf
  <2>6. ~raced' => KeptOf(r, pending', proposals')
    BY <1>4, <2>3, <2>4 DEF KeptOf
  <2>7. DrainingOf(d)
    BY <1>6 DEF DrainingOf
  <2> QED BY <1>1, <1>3, <1>4, <2>2, <2>5, <2>6, <2>7, AccountsGrow
<1> QED BY <1>5, <1>6

LEMMA DrainSettlesAccounted ==
    ASSUME Typed, Accounts, DrainSettles
    PROVE  Accounts'
<1> DEFINE d == proc["daemon"]
           e == d.entry
           todo == IF d.outcome = "failed" THEN <<>> ELSE d.todo
           r == [Idle EXCEPT !.pc = "drain", !.now = d.now, !.todo = todo]
<1>1. /\ Moves("daemon", r) /\ raced' = raced /\ "daemon" \in Procs /\ "publish" \in Procs
      /\ d.pc = "settle" /\ d.via = "drain"
      /\ UNCHANGED <<network, executed, proposals, quarantine>>
      /\ \/ pending' = pending /\ denied' = denied /\ orphans' = orphans
         \/ /\ d.outcome = "executed" /\ pending' = Without(pending, e)
            /\ denied' = denied /\ orphans' = orphans
         \/ /\ d.outcome = "denied" /\ pending' = Without(pending, e)
            /\ denied' = With(denied, e, pending[e])
            /\ orphans' = IF e \in DOMAIN denied THEN orphans \union {denied[e]} ELSE orphans
  BY DEF DrainSettles, Moves, At, Procs
<1>2. r.pc = "drain" /\ r.via = None /\ r.todo = todo
  BY DEF Idle
<1> HIDE DEF r
<1>3. executed \subseteq network /\ (d.outcome = "executed" => d.act \in executed)
  BY <1>1 DEF Accounts, Truth, TrueOf
<1>4. TrueOf(r, network', executed')
  BY <1>2 DEF TrueOf
<1>5. ASSUME ~raced'
      PROVE  /\ \A n \in DOMAIN d.todo : n \in DOMAIN pending /\ pending[n] = d.todo[n]
             /\ e \in DOMAIN pending /\ pending[e] = d.act /\ e \notin DOMAIN d.todo
             /\ proc["publish"].pc = "idle"
  BY <1>1, <1>5 DEF Accounts, Kept, KeptOf, Apart, DrainingOf
<1>6. pending \in Spools
  BY DEF Typed, TypeOK
<1>7. \A n \in DOMAIN pending \ {e} : n \in DOMAIN pending' /\ pending'[n] = pending[n]
  <2>1. CASE pending' = pending
    BY <2>1
  <2>2. CASE pending' = Without(pending, e)
    BY <2>2 DEF Without, Restrict
  <2> QED BY <1>1, <2>1, <2>2
<1>8. ASSUME ~raced' PROVE KeptOf(r, pending', proposals')
  <2>1. DOMAIN <<>> = {}
    BY NumberedEmpty
  <2>2. \A n \in DOMAIN todo : n \in DOMAIN d.todo /\ todo[n] = d.todo[n]
    BY <2>1
  <2> HIDE DEF todo
  <2>3. \A n \in DOMAIN todo : n \in DOMAIN pending' /\ pending'[n] = todo[n]
    BY <1>5, <1>7, <1>8, <2>2
  <2> QED BY <1>2, <2>3 DEF KeptOf, None
<1>9. ASSUME ~raced', NEW q \in Procs \ {"daemon"} PROVE KeptOf(proc[q], pending', proposals')
  <2>1. q = "publish" /\ proc[q] = Idle
    BY <1>1, <1>5, <1>9, ProcFields DEF Procs, ShapeOf
  <2> QED BY <2>1, IdleFacts
<1>10. ASSUME ~raced'
       PROVE  network' \subseteq
                executed' \union proposals' \union quarantine' \union Range(pending')
                \union Range(denied') \union orphans' \union HandOf(proc["publish"])
  <2>1. network \subseteq
          executed \union proposals \union quarantine \union Range(pending) \union Range(denied)
          \union orphans \union HandOf(proc["publish"])
    BY <1>1, <1>10 DEF Accounts, Accounted
  <2>2. Range(pending) \subseteq Range(pending') \union {d.act}
    BY <1>5, <1>7, <1>10 DEF Range
  <2>3. d.act \in executed' \union Range(pending') \union Range(denied')
    <3>1. CASE d.outcome = "executed"
      BY <1>1, <1>3, <3>1
    <3>2. CASE denied' = With(denied, e, pending[e])
      BY <1>5, <1>10, <3>2 DEF With, Range
    <3>3. CASE pending' = pending
      BY <1>5, <1>10, <3>3 DEF Range
    <3> QED BY <1>1, <3>1, <3>2, <3>3
  <2>4. Range(denied) \subseteq Range(denied') \union orphans' /\ orphans \subseteq orphans'
    <3>1. CASE denied' = denied /\ orphans' = orphans
      BY <3>1
    <3>2. CASE /\ denied' = With(denied, e, pending[e])
               /\ orphans' = IF e \in DOMAIN denied THEN orphans \union {denied[e]} ELSE orphans
      <4>1. \A n \in DOMAIN denied \ {e} : n \in DOMAIN denied' /\ denied'[n] = denied[n]
        BY <3>2 DEF With
      <4> QED BY <3>2, <4>1 DEF Range
    <3> QED BY <1>1, <3>1, <3>2
  <2> QED BY <1>1, <2>1, <2>2, <2>3, <2>4
<1> QED BY <1>1, <1>3, <1>4, <1>5, <1>8, <1>9, <1>10, AccountsMoves

LEMMA DecideAccounted ==
    ASSUME Typed, Accounts, Decide
    PROVE  Accounts'
<1> DEFINE d == proc["daemon"]
           r == [d EXCEPT !.pc = "select", !.approvals = control.approved]
<1>0. "daemon" \in Procs
  BY DEF Procs
<1>1. /\ Moves("daemon", r) /\ raced' = raced /\ d.pc = "decide" /\ proposals \subseteq proposals'
      /\ UNCHANGED <<network, executed, pending, quarantine, denied, orphans>>
  BY <1>0 DEF Decide, Moves, At, history, Typed, TypeOK
<1>2. d \in Process /\ d.via = None
  BY <1>0, <1>1, ProcFields DEF ShapeOf
<1>3. r.pc = "select" /\ r.via = None /\ r.todo = d.todo
  BY <1>2 DEF Process
<1> HIDE DEF r
<1>4. ~raced' => DOMAIN r.todo = {}
  BY <1>0, <1>1, <1>2, <1>3 DEF Accounts, Kept, KeptOf, None
<1>5. TrueOf(r, network', executed')
  BY <1>3 DEF TrueOf
<1>6. ~raced' => KeptOf(r, pending', proposals') /\ ~DrainingOf(r)
  BY <1>3, <1>4 DEF KeptOf, DrainingOf, None
<1>7. executed \subseteq network
      /\ \A n \in DOMAIN pending : n \in DOMAIN pending' /\ pending'[n] = pending[n]
  BY <1>1 DEF Accounts, Truth
<1> QED BY <1>0, <1>1, <1>5, <1>6, <1>7, AccountsGrow

LEMMA SelectAccounted ==
    ASSUME Typed, Accounts, Select
    PROVE  Accounts'
<1> DEFINE d == proc["daemon"]
<1>0. "daemon" \in Procs
  BY DEF Procs
<1>1. PICK a \in Candidates :
        proc' = [proc EXCEPT !["daemon"] =
                  [@ EXCEPT !.pc = "lock", !.act = a, !.via = "proposal",
                            !.brk = retain_proposals(breaker, proposals)]]
  BY DEF Select
<1> DEFINE r == [d EXCEPT !.pc = "lock", !.act = a, !.via = "proposal",
                          !.brk = retain_proposals(breaker, proposals)]
<1>2. /\ Moves("daemon", r) /\ raced' = raced /\ d.pc = "select"
      /\ UNCHANGED <<network, executed, pending, proposals, quarantine, denied, orphans>>
  BY <1>0, <1>1 DEF Select, Moves, At, files, history, Typed, TypeOK
<1>3. d \in Process /\ d.via = None
  BY <1>0, <1>2, ProcFields DEF ShapeOf
<1>4. r.pc = "lock" /\ r.via = "proposal" /\ r.todo = d.todo /\ r.act = a
  BY <1>3 DEF Process
<1> HIDE DEF r
<1>5. ~raced' => DOMAIN r.todo = {}
  BY <1>0, <1>2, <1>3, <1>4 DEF Accounts, Kept, KeptOf, None
<1>6. TrueOf(r, network', executed') /\ a \in proposals
  BY <1>4 DEF TrueOf, Candidates
<1>7. ~raced' => KeptOf(r, pending', proposals') /\ ~DrainingOf(r)
  BY <1>2, <1>4, <1>5, <1>6 DEF KeptOf, DrainingOf
<1>8. executed \subseteq network
      /\ \A n \in DOMAIN pending : n \in DOMAIN pending' /\ pending'[n] = pending[n]
  BY <1>2 DEF Accounts, Truth
<1> QED BY <1>0, <1>2, <1>6, <1>7, <1>8, AccountsGrow

LEMMA ExecutionSettlesAccounted ==
    ASSUME Typed, Accounts, ExecutionSettles
    PROVE  Accounts'
<1> DEFINE d == proc["daemon"]
           ok == [d EXCEPT !.pc = "close", !.brk = record_success(d.brk, d.act)]
           bad == [d EXCEPT !.pc = "close", !.brk = record_failure(d.brk, d.act, d.now)]
<1>0. "daemon" \in Procs /\ "publish" \in Procs
  BY DEF Procs
<1>1. /\ raced' = raced /\ d.pc = "settle" /\ d.via = "proposal"
      /\ UNCHANGED <<network, executed, pending, denied, orphans>>
  BY DEF ExecutionSettles, At
<1>2. d \in Process /\ executed \subseteq network /\ (d.outcome = "executed" => d.act \in executed)
  BY <1>0, <1>1, ProcFields DEF Accounts, Truth, TrueOf
<1>3. ASSUME ~raced' PROVE DOMAIN d.todo = {}
  BY <1>0, <1>1, <1>3 DEF Accounts, Kept, KeptOf
<1>4. CASE d.outcome \in {"dry_run", "denied", "deferred"}
  <2>1. Moves("daemon", Idle) /\ UNCHANGED <<proposals, quarantine>>
    BY <1>4 DEF ExecutionSettles, Moves
  <2> QED BY <1>0, <1>1, <2>1, AccountsIdle
<1>5. ASSUME NEW r \in {ok, bad}, Moves("daemon", r), proposals \ {d.act} \subseteq proposals',
             quarantine \subseteq quarantine',
             ~raced' => d.act \in proposals' \union quarantine' \union executed
      PROVE  Accounts'
  <2>1. r.pc = "close" /\ r.via = "proposal" /\ r.todo = d.todo
    BY <1>1, <1>2 DEF Process
  <2> HIDE DEF ok, bad
  <2>2. TrueOf(r, network', executed')
    BY <2>1 DEF TrueOf
  <2>3. ~raced' => KeptOf(r, pending', proposals') /\ ~DrainingOf(r)
    BY <1>3, <2>1 DEF KeptOf, DrainingOf
  <2>4. ASSUME ~raced', NEW q \in Procs \ {"daemon"} PROVE KeptOf(proc[q], pending', proposals')
    <3>1. KeptOf(proc[q], pending, proposals) /\ proc[q].via # "proposal"
      BY <1>1, <2>4, ProcFields DEF Accounts, Kept, ShapeOf
    <3> QED BY <1>1, <3>1 DEF KeptOf
  <2>5. ASSUME ~raced'
        PROVE  network' \subseteq
                 executed' \union proposals' \union quarantine' \union Range(pending')
                 \union Range(denied') \union orphans' \union HandOf(proc["publish"])
    BY <1>1, <1>5, <2>5 DEF Accounts, Accounted
  <2> QED BY <1>0, <1>1, <1>2, <1>5, <2>2, <2>3, <2>4, <2>5, AccountsMoves
<1>6. CASE d.outcome = "executed"
  <2>1. Moves("daemon", ok) /\ proposals' = proposals \ {d.act} /\ quarantine' = quarantine
    BY <1>0, <1>6 DEF ExecutionSettles, Moves, Typed, TypeOK
  <2> HIDE DEF ok, bad
  <2> QED BY <1>2, <1>5, <1>6, <2>1
<1>7. CASE d.outcome = "failed"
  <2>1. /\ Moves("daemon", bad)
        /\ \/ proposals' = proposals \ {d.act} /\ quarantine' = quarantine \union {d.act}
           \/ proposals' = proposals /\ quarantine' = quarantine
    BY <1>0, <1>7 DEF ExecutionSettles, Moves, Typed, TypeOK
  <2>2. ~raced' => d.act \in proposals
    BY <1>0, <1>1 DEF Accounts, Kept, KeptOf
  <2> HIDE DEF ok, bad
  <2> QED BY <1>2, <1>5, <1>7, <2>1, <2>2
<1> QED BY <1>4, <1>6, <1>7 DEF ExecutionSettles

LEMMA AccountsInit == Init => Accounts
<1> SUFFICES ASSUME Init PROVE Accounts
  OBVIOUS
<1>1. \A p \in Procs : proc[p] = Idle
  BY DEF Init
<1> QED BY <1>1, IdleFacts
       DEF Init, Accounts, Truth, Apart, Kept, Accounted, Procs

LEMMA AccountsNext == Typed /\ Accounts /\ [Next]_vars => Accounts'
<1> SUFFICES ASSUME Typed, Accounts, [Next]_vars PROVE Accounts'
  OBVIOUS
<1>1. CASE UNCHANGED vars
  BY <1>1 DEF vars, files, history, Accounts, Truth, Apart, Kept, Accounted
<1>2. CASE Edit
  BY <1>2, EditAccounted
<1>3. CASE run_publish \/ PublishReturns
  BY <1>3, PublishAccounted, ReturnsAccounted
<1>4. CASE Cycle
  BY <1>4, CycleAccounted, DrainAccounted, DrainSettlesAccounted, DecideAccounted,
     SelectAccounted, ReturnsAccounted, ExecutionSettlesAccounted DEF Cycle
<1>5. ASSUME NEW p \in Procs, Step(p) PROVE Accounts'
  BY <1>5, AttemptAccounted, EndsAccounted, ResolveFailsAccounted, SpoolFirstAccounted,
     PutAccounted, SpoolRemoveAccounted, ChargeAccounted, JournalAccounted, LockAccounted,
     CrashInSpoolAccounted DEF Step
<1> QED BY <1>1, <1>2, <1>3, <1>4, <1>5 DEF Next

\* What the journal says was executed is on the network, and what is on the
\* network is in the journal or still where it will be retried or looked at, for
\* any number of actions, runs and crashes (attempt.cpp, spool.cpp, cycle.cpp).
THEOREM JournalIsComplete == Spec => []JournalAccountsForNetwork
<1>1. Typed /\ Accounts => JournalAccountsForNetwork
  <2> SUFFICES ASSUME Accounts PROVE JournalAccountsForNetwork
    OBVIOUS
  <2>1. HandOf(proc["publish"]) \subseteq {proc[p].act : p \in Procs}
    BY DEF HandOf, Procs
  <2> QED BY <2>1 DEF Accounts, Truth, Accounted, JournalAccountsForNetwork
<1> QED BY <1>1, TypedInit, TypedNext, AccountsInit, AccountsNext, PTL DEF Spec

-----------------------------------------------------------------------------
(* Failures.                                                               *)

Executing(d) == d.via = "proposal" /\ d.pc # "close"

\* The counts of a proposal's failures: in the breaker file, in the cycle's
\* copy, and what they were.
Counts ==
    LET d == proc["daemon"]
    IN  /\ proposals \intersect quarantine = {}
        /\ Executing(d) => d.act \in proposals
        /\ \A a \in Proposed :
              /\ breaker.failures[a] < ProposalFailureLimit
              /\ d.via = "proposal" => d.brk.failures[a] < ProposalFailureLimit
              /\ a \in quarantine => failed[a] <= ProposalFailureLimit + crashes
              /\ a \notin quarantine =>
                   /\ a \notin proposals => failed[a] = 0
                   /\ failed[a] <= breaker.failures[a] + crashes + (IF d.pc = "close" THEN 1 ELSE 0)
                   /\ d.via = "proposal" => failed[a] <= d.brk.failures[a] + crashes

\* A breaker that has counted the failures so far, and is open for as long as
\* the last of them asks.
Follows(b) ==
    /\ b.consecutive = Len(fails)
    /\ Len(fails) >= FailureThreshold => b.open_until >= fails[Len(fails)] + BaseCooldown

Cooled(b) == b.cooldown = 0 \/ b.cooldown >= BaseCooldown

Pacing ==
    LET d == proc["daemon"]
    IN  /\ Cooled(breaker) /\ (d.via = "proposal" => Cooled(d.brk))
        /\ crashes = 0 =>
             /\ FailuresArePaced
             /\ d.pc # "close" => Follows(breaker)
             /\ d.pc = "close" => Follows(d.brk)
             /\ Executing(d) => /\ Follows(d.brk)
                                /\ d.brk.open_until # 0 => d.now >= d.brk.open_until

Contained == Counts /\ Pacing

\* A step that leaves the breaker, the queue and the counts alone.
LEMMA ContainedRests ==
    ASSUME Typed, Contained, Typed',
           UNCHANGED <<breaker, fails, failed, proposals, quarantine>>,
           crashes' = crashes \/ crashes' = crashes + 1,
           proc'["daemon"].via = "proposal" =>
              /\ proc["daemon"].via = "proposal"
              /\ proc'["daemon"].brk = proc["daemon"].brk
              /\ proc'["daemon"].now = proc["daemon"].now
              /\ proc'["daemon"].act = proc["daemon"].act
              /\ proc'["daemon"].pc = "close" <=> proc["daemon"].pc = "close",
           (proc["daemon"].pc = "close" /\ proc'["daemon"].pc # "close") => crashes' = crashes + 1
    PROVE  Contained'
<1> DEFINE d == proc["daemon"]
           e == proc'["daemon"]
<1>1. /\ crashes \in Nat /\ failed \in [Proposed -> Nat] /\ breaker.failures \in [Proposed -> Nat]
      /\ "daemon" \in Procs
  BY OutboundAssumption DEF Typed, TypeOK, Breaker, Procs
<1>2. d.brk.failures \in [Proposed -> Nat] /\ d.via \in {None, "drain", "proposal", "file"}
  BY <1>1, ProcFields DEF Breaker, Process
<1>3. (e.pc = "close" => e.via = "proposal") /\ ProposalFailureLimit \in Nat
  BY <1>1, OutboundAssumption DEF Typed, Shape, ShapeOf
<1> HIDE DEF d, e
<1>4. Counts'
  <2>1. (Executing(e) => e.act \in proposals) /\ proposals \intersect quarantine = {}
    BY DEF Contained, Counts, Executing, d, e
  <2>2. ASSUME NEW a \in Proposed
        PROVE  /\ breaker.failures[a] < ProposalFailureLimit
               /\ e.via = "proposal" => e.brk.failures[a] < ProposalFailureLimit
               /\ a \in quarantine => failed[a] <= ProposalFailureLimit + crashes'
               /\ a \notin quarantine =>
                    /\ a \notin proposals => failed[a] = 0
                    /\ failed[a] <= breaker.failures[a] + crashes'
                                      + (IF e.pc = "close" THEN 1 ELSE 0)
                    /\ e.via = "proposal" => failed[a] <= e.brk.failures[a] + crashes'
    <3>1. /\ breaker.failures[a] \in Nat /\ d.brk.failures[a] \in Nat /\ failed[a] \in Nat
      BY <1>1, <1>2
    <3>2. /\ breaker.failures[a] < ProposalFailureLimit
          /\ d.via = "proposal" => d.brk.failures[a] < ProposalFailureLimit
          /\ a \in quarantine => failed[a] <= ProposalFailureLimit + crashes
          /\ a \notin quarantine =>
               /\ a \notin proposals => failed[a] = 0
               /\ failed[a] <= breaker.failures[a] + crashes + (IF d.pc = "close" THEN 1 ELSE 0)
               /\ d.via = "proposal" => failed[a] <= d.brk.failures[a] + crashes
      BY DEF Contained, Counts, d
    <3>3. /\ e.via = "proposal" => d.via = "proposal" /\ e.brk = d.brk
          /\ (d.pc = "close" /\ e.pc # "close") => crashes' = crashes + 1
          /\ crashes' = crashes \/ crashes' = crashes + 1
      BY DEF d, e
    <3> QED BY <1>1, <1>3, <3>1, <3>2, <3>3
  <2> QED BY <2>1, <2>2 DEF Counts, e
<1>5. Pacing'
  <2>1. Cooled(breaker)' /\ (e.via = "proposal" => (Cooled(proc["daemon"].brk))')
    BY DEF Contained, Pacing, Cooled, e
  <2>2. ASSUME crashes' = 0
        PROVE  /\ crashes = 0 /\ FailuresArePaced' /\ Len(fails') = Len(fails)
               /\ e.pc = "close" <=> d.pc = "close"
               /\ e.pc # "close" => Follows(breaker)'
               /\ e.pc = "close" => (Follows(proc["daemon"].brk))'
               /\ Executing(e) => /\ (Follows(proc["daemon"].brk))'
                                  /\ e.brk.open_until # 0 => e.now >= e.brk.open_until
    <3>1. crashes = 0 /\ crashes' = crashes
      BY <1>1, <2>2
    <3>2. e.pc = "close" <=> d.pc = "close"
      BY <1>1, <1>3, <3>1 DEF d, e
    <3>3. FailuresArePaced' /\ (e.pc # "close" => Follows(breaker)')
      BY <3>1, <3>2 DEF Contained, Pacing, FailuresArePaced, Follows, d
    <3>4. e.via = "proposal" => e.brk = d.brk /\ e.now = d.now /\ d.via = "proposal"
      BY DEF d, e
    <3>5. (e.via = "proposal" /\ Follows(d.brk)) => (Follows(proc["daemon"].brk))'
      BY <3>4 DEF Follows, e
    <3>6. Executing(e) => Executing(d)
      BY <3>2, <3>4 DEF Executing
    <3>7. /\ d.pc = "close" => Follows(d.brk)
          /\ Executing(d) => Follows(d.brk) /\ (d.brk.open_until # 0 => d.now >= d.brk.open_until)
      BY <3>1 DEF Contained, Pacing, d
    <3> QED BY <1>3, <3>1, <3>2, <3>3, <3>4, <3>5, <3>6, <3>7 DEF Executing
  <2> QED BY <2>1, <2>2 DEF Pacing, e
<1> QED BY <1>4, <1>5 DEF Contained

\* The same for a step of one process within a cycle or a command.
LEMMA ContainedMoves ==
    ASSUME Typed, Contained, Typed', NEW p \in Procs, NEW r, Moves(p, r),
           UNCHANGED <<breaker, fails, failed, proposals, quarantine, crashes>>,
           proc[p].pc # "close", r.pc # "close",
           r.via = "proposal" => /\ proc[p].via = "proposal" /\ r.brk = proc[p].brk
                                 /\ r.now = proc[p].now /\ r.act = proc[p].act
    PROVE  Contained'
<1>1. proc'[p] = r /\ \A q \in Procs \ {p} : proc'[q] = proc[q]
  BY MovesTo
<1>2. CASE p = "daemon"
  <2>1. proc'["daemon"] = r
    BY <1>1, <1>2
  <2> QED BY <1>2, <2>1, ContainedRests
<1>3. CASE p # "daemon"
  <2>1. proc'["daemon"] = proc["daemon"]
    BY <1>1, <1>3 DEF Procs
  <2> QED BY <2>1, ContainedRests
<1> QED BY <1>2, <1>3

LEMMA EndsContained ==
    ASSUME Typed, Contained, Typed', NEW p \in Procs,
           SessionFails(p) \/ StateLockError(p) \/ Crash(p) \/ CrashInSpool(p)
    PROVE  Contained'
<1>1. Moves(p, Idle) /\ UNCHANGED <<breaker, fails, failed, proposals, quarantine>>
  BY DEF SessionFails, StateLockError, Crash, CrashInSpool, Dies, Moves, files, history
<1>2. proc'[p] = Idle /\ \A q \in Procs \ {p} : proc'[q] = proc[q]
  BY <1>1, MovesTo
<1>3. Idle.via # "proposal" /\ Idle.pc # "close"
  BY DEF Idle, None
<1>4. CASE SessionFails(p) \/ StateLockError(p)
  <2>1. crashes' = crashes /\ proc[p].pc # "close"
    BY <1>4 DEF SessionFails, StateLockError, At, counters
  <2> HIDE DEF Idle
  <2> QED BY <1>1, <1>3, <2>1, ContainedMoves
<1>5. CASE Crash(p) \/ CrashInSpool(p)
  <2>1. crashes' = crashes + 1
    BY <1>5 DEF Crash, CrashInSpool, Dies
  <2>2. p = "daemon" => proc'["daemon"] = Idle
    BY <1>2
  <2>3. p # "daemon" => proc'["daemon"] = proc["daemon"]
    BY <1>2 DEF Procs
  <2> HIDE DEF Idle
  <2> QED BY <1>1, <1>3, <2>1, <2>2, <2>3, ContainedRests
<1> QED BY <1>4, <1>5

LEMMA StepContained ==
    ASSUME Typed, Contained, Typed', NEW p \in Procs, Step(p)
    PROVE  Contained'
<1>1. proc[p] \in Process
  BY ProcFields
<1>2. CASE SessionFails(p) \/ StateLockError(p) \/ Crash(p) \/ CrashInSpool(p)
  BY <1>2, EndsContained
<1>3. ASSUME NEW r, Moves(p, r), r.pc # "close", r.brk = proc[p].brk, r.now = proc[p].now,
             r.act = proc[p].act, r.via = proc[p].via, proc[p].pc # "close",
             UNCHANGED <<breaker, fails, failed, proposals, quarantine, crashes>>
      PROVE  Contained'
  BY <1>3, ContainedMoves
<1>4. ASSUME NEW l, l # "close", Goto(p, l), proc[p].pc # "close",
             UNCHANGED <<breaker, fails, failed, proposals, quarantine, crashes>>
      PROVE  Contained'
  <2> DEFINE r == [proc[p] EXCEPT !.pc = l]
  <2>1. Moves(p, r)
    BY <1>4, GotoMoves
  <2>2. /\ r.pc = l /\ r.brk = proc[p].brk /\ r.now = proc[p].now /\ r.act = proc[p].act
        /\ r.via = proc[p].via
    BY <1>1 DEF Process
  <2> HIDE DEF r
  <2> QED BY <1>3, <1>4, <2>1, <2>2
<1>5. ASSUME NEW o, Finish(p, o), proc[p].pc # "close",
             UNCHANGED <<breaker, fails, failed, proposals, quarantine, crashes>>
      PROVE  Contained'
  <2> DEFINE r == [proc[p] EXCEPT !.pc = "record", !.outcome = o, !.base = FreshBudget]
  <2>1. Moves(p, r)
    BY <1>5, FinishMoves
  <2>2. /\ r.pc = "record" /\ r.brk = proc[p].brk /\ r.now = proc[p].now /\ r.act = proc[p].act
        /\ r.via = proc[p].via
    BY <1>1 DEF Process
  <2> HIDE DEF r
  <2> QED BY <1>3, <1>5, <2>1, <2>2
<1>6. CASE ResolveFails(p) \/ put_record_fails(p) \/ save_outbound_budget_state(p)
  <2>1. /\ \E o : Finish(p, o)
        /\ proc[p].pc # "close"
        /\ UNCHANGED <<breaker, fails, failed, proposals, quarantine, crashes>>
    BY <1>6 DEF ResolveFails, put_record_fails, save_outbound_budget_state, At, files, history, counters
  <2> QED BY <1>5, <2>1
<1>7. CASE put_record(p) \/ spool_remove(p) \/ append_journal_action(p) \/ StateLockAcquired(p)
  <2>1. /\ \E l : l # "close" /\ Goto(p, l)
        /\ proc[p].pc # "close"
        /\ UNCHANGED <<breaker, fails, failed, proposals, quarantine, crashes>>
    <3>1. CASE put_record(p)
      <4>1. (IF proc[p].via = "drain" THEN "charge" ELSE "unspool") # "close"
        OBVIOUS
      <4> QED BY <3>1, <4>1 DEF put_record, At, files, history, counters
    <3>2. CASE spool_remove(p)
      BY <3>2 DEF spool_remove, At, history, counters
    <3>3. CASE append_journal_action(p)
      BY <3>3 DEF append_journal_action, At, history, counters
    <3>4. CASE StateLockAcquired(p)
      BY <3>4 DEF StateLockAcquired, At, files, history, counters
    <3> QED BY <1>7, <3>1, <3>2, <3>3, <3>4
  <2> QED BY <1>4, <2>1
<1>8. CASE SpoolFirst(p)
  <2> DEFINE r == [proc[p] EXCEPT !.pc = "put", !.entry = NextSeq(pending)]
  <2>1. /\ proc[p].pc # "close"
        /\ UNCHANGED <<breaker, fails, failed, proposals, quarantine, crashes>>
    BY <1>8 DEF SpoolFirst, At, history, counters
  <2>2. Goto(p, "put") \/ Moves(p, r) \/ Finish(p, "failed")
    BY <1>8 DEF SpoolFirst, Moves, Typed, TypeOK
  <2>3. /\ r.pc = "put" /\ r.brk = proc[p].brk /\ r.now = proc[p].now /\ r.act = proc[p].act
        /\ r.via = proc[p].via
    BY <1>1 DEF Process
  <2> HIDE DEF r
  <2> QED BY <1>3, <1>4, <1>5, <2>1, <2>2, <2>3
<1>9. CASE attempt_outbound_action(p)
  <2> DEFINE base == prune_kind(budget, proc[p].now)
             r == [proc[p] EXCEPT !.pc = "resolve", !.base = base]
  <2>1. /\ proc[p].pc # "close"
        /\ UNCHANGED <<breaker, fails, failed, proposals, quarantine, crashes>>
    BY <1>9 DEF attempt_outbound_action, At, history, counters
  <2>2. (\E o : Finish(p, o)) \/ Moves(p, r)
    BY <1>9 DEF attempt_outbound_action, Moves, Typed, TypeOK
  <2>3. /\ r.pc = "resolve" /\ r.brk = proc[p].brk /\ r.now = proc[p].now /\ r.act = proc[p].act
        /\ r.via = proc[p].via
    BY <1>1 DEF Process
  <2> HIDE DEF r
  <2> QED BY <1>3, <1>5, <2>1, <2>2, <2>3
<1> QED BY <1>2, <1>6, <1>7, <1>8, <1>9 DEF Step

LEMMA AroundContained ==
    ASSUME Typed, Contained, Typed',
           \/ UNCHANGED vars \/ Edit \/ run_publish \/ PublishReturns
           \/ run_scheduler_cycle \/ spool_drain \/ DrainSettles \/ NothingToExecute
    PROVE  Contained'
<1>0. "daemon" \in Procs /\ "publish" \in Procs
  BY DEF Procs
<1>1. proc["daemon"] \in Process
  BY <1>0, ProcFields
<1>2. UNCHANGED <<breaker, fails, failed, proposals, quarantine, crashes>>
  BY DEF vars, Edit, run_publish, PublishReturns, run_scheduler_cycle, spool_drain,
         DrainSettles, NothingToExecute, files, counters, history
<1>3. ASSUME NEW p \in Procs, NEW r, Moves(p, r), r.pc # "close", r.via # "proposal",
             proc[p].pc # "close"
      PROVE  Contained'
  BY <1>2, <1>3, ContainedMoves
<1>4. CASE UNCHANGED vars \/ Edit
  <2>1. proc' = proc
    BY <1>4 DEF vars, Edit
  <2> QED BY <1>2, <2>1, ContainedRests
<1>5. CASE run_publish
  <2>1. PICK a \in Actions \ Proposed :
          Moves("publish", [Idle EXCEPT !.pc = "lock", !.now = clock', !.act = a, !.via = "file"])
    BY <1>5 DEF run_publish, Moves
  <2> DEFINE r == [Idle EXCEPT !.pc = "lock", !.now = clock', !.act = a, !.via = "file"]
  <2>2. r.pc = "lock" /\ r.via = "file" /\ proc["publish"].pc # "close"
    BY <1>5 DEF run_publish, At, Idle
  <2> HIDE DEF r
  <2> QED BY <1>0, <1>3, <2>1, <2>2 DEF r
<1>6. CASE run_scheduler_cycle
  <2> DEFINE r == [Idle EXCEPT !.pc = "drain", !.now = clock',
                               !.todo = IF control.offline_mode THEN <<>> ELSE pending]
  <2>1. Moves("daemon", r) /\ proc["daemon"].pc # "close"
    BY <1>6 DEF run_scheduler_cycle, Moves, At
  <2>2. r.pc = "drain" /\ r.via = None
    BY DEF Idle
  <2> HIDE DEF r
  <2> QED BY <1>0, <1>3, <2>1, <2>2 DEF None
<1>7. CASE PublishReturns \/ NothingToExecute
  <2>1. \E p \in Procs : Moves(p, Idle) /\ proc[p].pc # "close"
    BY <1>0, <1>7 DEF PublishReturns, NothingToExecute, Moves, At
  <2>2. Idle.pc # "close" /\ Idle.via # "proposal"
    BY DEF Idle, None
  <2> QED BY <1>3, <2>1, <2>2
<1>8. CASE DrainSettles
  <2> DEFINE d == proc["daemon"]
             r == [Idle EXCEPT !.pc = "drain", !.now = d.now,
                               !.todo = IF d.outcome = "failed" THEN <<>> ELSE d.todo]
  <2>1. Moves("daemon", r) /\ d.pc # "close"
    BY <1>8 DEF DrainSettles, Moves, At
  <2>2. r.pc = "drain" /\ r.via = None
    BY DEF Idle
  <2> HIDE DEF r
  <2> QED BY <1>0, <1>3, <2>1, <2>2 DEF None
<1>9. CASE spool_drain
  <2> DEFINE d == proc["daemon"]
             stay == [d EXCEPT !.pc = "decide"]
  <2>1. d.pc = "drain" /\ d.via = None
    BY <1>0, <1>9, ProcFields DEF spool_drain, At, ShapeOf
  <2>2. CASE Goto("daemon", "decide")
    <3>1. Moves("daemon", stay) /\ stay.pc = "decide" /\ stay.via = None
      BY <1>0, <1>1, <2>1, <2>2, GotoMoves DEF Process
    <3> HIDE DEF stay
    <3> QED BY <1>0, <1>3, <2>1, <3>1 DEF None
  <2>3. CASE ~Goto("daemon", "decide")
    <3>1. PICK n \in DOMAIN d.todo :
            proc' = [proc EXCEPT !["daemon"] =
                        [@ EXCEPT !.pc = "gate", !.via = "drain", !.act = d.todo[n],
                                  !.entry = n, !.todo = Without(d.todo, n)]]
      BY <1>9, <2>3 DEF spool_drain
    <3> DEFINE r == [d EXCEPT !.pc = "gate", !.via = "drain", !.act = d.todo[n],
                              !.entry = n, !.todo = Without(d.todo, n)]
    <3>2. Moves("daemon", r)
      BY <1>0, <3>1 DEF Moves, Typed, TypeOK
    <3>3. r.pc = "gate" /\ r.via = "drain"
      BY <1>1 DEF Process
    <3> HIDE DEF r
    <3> QED BY <1>0, <1>3, <2>1, <3>2, <3>3
  <2> QED BY <2>2, <2>3
<1> QED BY <1>4, <1>5, <1>6, <1>7, <1>8, <1>9

\* A decision queues a proposal that has not failed since it last succeeded.
LEMMA DecideContained ==
    ASSUME Typed, Contained, Typed', Decide
    PROVE  Contained'
<1> DEFINE d == proc["daemon"]
           r == [d EXCEPT !.pc = "select", !.approvals = control.approved]
<1>0. "daemon" \in Procs
  BY DEF Procs
<1>1. /\ Moves("daemon", r) /\ d.pc = "decide" /\ proposals \subseteq proposals'
      /\ (proposals' \ proposals) \intersect quarantine = {}
      /\ UNCHANGED <<breaker, fails, failed, quarantine, crashes>>
  <2>1. Moves("daemon", r) /\ d.pc = "decide"
    BY <1>0 DEF Decide, Moves, At, Typed, TypeOK
  <2>2. /\ proposals \subseteq proposals' /\ (proposals' \ proposals) \intersect quarantine = {}
        /\ UNCHANGED <<breaker, fails, failed, quarantine, crashes>>
    BY DEF Decide, history, counters
  <2> QED BY <2>1, <2>2
<1>2. d \in Process /\ d.via = None
  BY <1>0, <1>1, ProcFields DEF ShapeOf
<1>3. proc'["daemon"] = r /\ r.pc = "select" /\ r.via = None
  BY <1>0, <1>1, <1>2, MovesTo DEF Process
<1> HIDE DEF r
<1>4. Counts'
  BY <1>1, <1>2, <1>3 DEF Contained, Counts, Executing, None
<1>5. Pacing'
  BY <1>1, <1>2, <1>3 DEF Contained, Pacing, Executing, None, Cooled, Follows, FailuresArePaced
<1> QED BY <1>4, <1>5 DEF Contained

LEMMA SelectContained ==
    ASSUME Typed, Contained, Typed', Select
    PROVE  Contained'
<1> DEFINE d == proc["daemon"]
           b == retain_proposals(breaker, proposals)
<1>0. "daemon" \in Procs
  BY DEF Procs
<1>1. PICK a \in Candidates :
        proc' = [proc EXCEPT !["daemon"] =
                  [@ EXCEPT !.pc = "lock", !.act = a, !.via = "proposal",
                            !.brk = retain_proposals(breaker, proposals)]]
  BY DEF Select
<1> DEFINE r == [d EXCEPT !.pc = "lock", !.act = a, !.via = "proposal", !.brk = b]
<1>2. /\ Moves("daemon", r) /\ d.pc = "select" /\ a \in proposals
      /\ breaker.open_until # 0 => ~(d.now < breaker.open_until)
      /\ UNCHANGED <<breaker, fails, failed, proposals, quarantine, crashes>>
  BY <1>0, <1>1 DEF Select, Moves, At, files, history, counters, Typed, TypeOK, Candidates, Gated
<1>3. d \in Process /\ d.now \in Time
  BY <1>0, ProcFields
<1>4. /\ proc'["daemon"] = r /\ r.pc = "lock" /\ r.via = "proposal" /\ r.act = a /\ r.brk = b
      /\ r.now = d.now
  BY <1>0, <1>2, <1>3, MovesTo DEF Process
<1>5. /\ breaker \in Breaker /\ breaker.failures \in [Proposed -> Nat] /\ failed \in [Proposed -> Nat]
      /\ crashes \in Nat /\ ProposalFailureLimit \in Nat \ {0}
  BY OutboundAssumption DEF Typed, TypeOK, Breaker
<1>6. /\ b.consecutive = breaker.consecutive /\ b.open_until = breaker.open_until
      /\ b.cooldown = breaker.cooldown
      /\ b.failures = [x \in Proposed |-> IF x \in proposals THEN breaker.failures[x] ELSE 0]
  BY <1>5 DEF retain_proposals, Breaker
<1> HIDE DEF r, b
<1>7. Counts'
  <2>1. ASSUME NEW x \in Proposed
        PROVE  /\ breaker.failures[x] < ProposalFailureLimit
               /\ b.failures[x] < ProposalFailureLimit
               /\ x \in quarantine => failed[x] <= ProposalFailureLimit + crashes
               /\ x \notin quarantine =>
                    /\ x \notin proposals => failed[x] = 0
                    /\ failed[x] <= breaker.failures[x] + crashes
                    /\ failed[x] <= b.failures[x] + crashes
    <3>1. breaker.failures[x] \in Nat /\ failed[x] \in Nat
      BY <1>5
    <3>2. /\ breaker.failures[x] < ProposalFailureLimit
          /\ x \in quarantine => failed[x] <= ProposalFailureLimit + crashes
          /\ x \notin quarantine =>
               /\ x \notin proposals => failed[x] = 0
               /\ failed[x] <= breaker.failures[x] + crashes + 0
      BY <1>2 DEF Contained, Counts
    <3> QED BY <1>5, <1>6, <3>1, <3>2
  <2>2. ASSUME NEW x \in Proposed
        PROVE  breaker.failures[x] + crashes + 0 = breaker.failures[x] + crashes
    BY <1>5
  <2>3. proposals \intersect quarantine = {}
    BY DEF Contained, Counts
  <2> QED BY <1>2, <1>4, <2>1, <2>2, <2>3 DEF Counts
<1>8. Pacing'
  <2>1. Cooled(breaker) /\ Cooled(b)
    BY <1>6 DEF Contained, Pacing, Cooled
  <2>2. ASSUME crashes = 0
        PROVE  /\ FailuresArePaced /\ Follows(breaker) /\ Follows(b)
               /\ b.open_until # 0 => d.now >= b.open_until
    <3>1. FailuresArePaced /\ Follows(breaker)
      BY <1>2, <2>2 DEF Contained, Pacing
    <3>2. d.now \in Nat /\ breaker.open_until \in Nat
      BY <1>3, <1>5, Constants DEF Breaker
    <3> QED BY <1>2, <1>6, <3>1, <3>2 DEF Follows
  <2> QED BY <1>2, <1>4, <2>1, <2>2 DEF Pacing, Executing, Cooled, Follows, FailuresArePaced
<1> QED BY <1>7, <1>8 DEF Contained

LEMMA SaveBreakerContained ==
    ASSUME Typed, Contained, Typed', save_breaker_state
    PROVE  Contained'
<1> DEFINE d == proc["daemon"]
<1>0. "daemon" \in Procs
  BY DEF Procs
<1>1. /\ d.pc = "close" /\ breaker' = d.brk /\ Moves("daemon", Idle)
      /\ UNCHANGED <<fails, failed, proposals, quarantine, crashes>>
  BY DEF save_breaker_state, At, Moves, counters, history
<1>2. proc'["daemon"] = Idle /\ Idle.pc = "idle" /\ Idle.via = None
  BY <1>0, <1>1, MovesTo DEF Idle
<1>3. d.via = "proposal"
  BY <1>0, <1>1, ProcFields DEF ShapeOf
<1>4. d.brk.failures \in [Proposed -> Nat] /\ failed \in [Proposed -> Nat] /\ crashes \in Nat
  <2>1. d.brk.failures \in [Proposed -> Nat]
    BY <1>0, ProcFields DEF Breaker
  <2> QED BY <2>1, OutboundAssumption DEF Typed, TypeOK
<1> HIDE DEF Idle
<1>5. Counts'
  <2>1. ASSUME NEW x \in Proposed
        PROVE  d.brk.failures[x] + crashes + 0 = d.brk.failures[x] + crashes
    BY <1>4
  <2> QED BY <1>1, <1>2, <1>3, <2>1 DEF Contained, Counts, Executing, None
<1>6. Pacing'
  BY <1>1, <1>2, <1>3 DEF Contained, Pacing, Executing, None, Cooled, Follows, FailuresArePaced
<1> QED BY <1>5, <1>6 DEF Contained

\* What an execution's failure does to a breaker that follows the failures.
LEMMA FailureFollows ==
    ASSUME NEW b \in Breaker, NEW a \in Proposed, NEW now \in Time, Cooled(b)
    PROVE  LET c == record_failure(b, a, now)
           IN  /\ Cooled(c)
               /\ c.consecutive = b.consecutive + 1
               /\ b.consecutive + 1 >= FailureThreshold => c.open_until >= now + BaseCooldown
               /\ \A x \in Proposed \ {a} : c.failures[x] = b.failures[x]
               /\ c.failures[a] = IF b.failures[a] + 1 >= ProposalFailureLimit THEN 0
                                  ELSE b.failures[a] + 1
<1>1. /\ now \in Nat /\ b.consecutive \in Nat /\ b.open_until \in Nat /\ b.cooldown \in Nat
      /\ b.failures \in [Proposed -> Nat] /\ BaseCooldown \in Nat /\ MaxCooldown \in Nat
      /\ BaseCooldown <= MaxCooldown /\ FailureThreshold \in Nat
  BY Constants, OutboundAssumption DEF Breaker
<1> DEFINE longer == IF b.cooldown = 0 THEN BaseCooldown ELSE SmallerOf(2 * b.cooldown, MaxCooldown)
<1>2. longer \in Nat /\ longer >= BaseCooldown
  BY <1>1 DEF SmallerOf, Cooled
<1> DEFINE c == record_failure(b, a, now)
<1>3. /\ c.consecutive = b.consecutive + 1
      /\ c.open_until = IF Tripped(b) THEN now + longer ELSE b.open_until
      /\ c.cooldown = IF Tripped(b) THEN longer ELSE b.cooldown
      /\ c.failures = [b.failures EXCEPT ![a] = IF Poisoned(b, a) THEN 0 ELSE @ + 1]
  BY DEF record_failure
<1> HIDE DEF c, longer
<1>4. Cooled(c)
  BY <1>1, <1>2, <1>3 DEF Cooled
<1>5. b.consecutive + 1 >= FailureThreshold => c.open_until >= now + BaseCooldown
  BY <1>1, <1>2, <1>3 DEF Tripped
<1> QED BY <1>1, <1>3, <1>4, <1>5 DEF Poisoned, c

LEMMA SettlesContained ==
    ASSUME Typed, Contained, Typed', ExecutionSettles
    PROVE  Contained'
<1> DEFINE d == proc["daemon"]
           f == failed
           L == ProposalFailureLimit
<1>0. "daemon" \in Procs
  BY DEF Procs
<1>1. /\ d.pc = "settle" /\ d.via = "proposal" /\ breaker' = breaker /\ crashes' = crashes
  BY DEF ExecutionSettles, At, counters
<1>2. d \in Process /\ d.act \in Proposed /\ d.now \in Time /\ d.brk \in Breaker
  BY <1>0, <1>1, ProcFields DEF ShapeOf
<1>3. /\ breaker.failures \in [Proposed -> Nat] /\ failed \in [Proposed -> Nat]
      /\ crashes \in Nat /\ L \in Nat \ {0} /\ d.brk.failures \in [Proposed -> Nat]
      /\ fails \in Seq(Time)
  <2>1. d.brk.failures \in [Proposed -> Nat]
    BY <1>2 DEF Breaker
  <2>2. breaker.failures \in [Proposed -> Nat]
    BY DEF Typed, TypeOK, Breaker
  <2> QED BY <2>1, <2>2, OutboundAssumption, SMTT(60) DEF Typed, TypeOK
<1>4. /\ d.act \in proposals /\ proposals \intersect quarantine = {}
      /\ \A a \in Proposed :
           /\ breaker.failures[a] < L /\ d.brk.failures[a] < L
           /\ a \in quarantine => failed[a] <= L + crashes
           /\ a \notin quarantine =>
                /\ a \notin proposals => failed[a] = 0
                /\ failed[a] <= breaker.failures[a] + crashes + 0
                /\ failed[a] <= d.brk.failures[a] + crashes
  BY <1>1 DEF Contained, Counts, Executing
<1>5. /\ Cooled(breaker) /\ Cooled(d.brk)
      /\ crashes = 0 => /\ FailuresArePaced /\ Follows(d.brk)
                        /\ d.brk.open_until # 0 => d.now >= d.brk.open_until
  BY <1>1 DEF Contained, Pacing, Executing
<1>6. CASE d.outcome \in {"dry_run", "denied", "deferred"}
  <2>1. Moves("daemon", Idle) /\ UNCHANGED <<proposals, quarantine, fails, failed>>
    BY <1>6 DEF ExecutionSettles, Moves
  <2>2. Idle.pc # "close" /\ Idle.via # "proposal"
    BY DEF Idle, None
  <2> QED BY <1>0, <1>1, <2>1, <2>2, ContainedMoves
<1>7. ASSUME NEW b \in Breaker, proc' = [proc EXCEPT !["daemon"].pc = "close", !["daemon"].brk = b]
      PROVE  LET e == proc'["daemon"]
             IN e.pc = "close" /\ e.via = "proposal" /\ e.brk = b /\ ~Executing(e)
  BY <1>0, <1>1, <1>2, <1>7 DEF Process, Executing, Typed, TypeOK
<1>8. CASE d.outcome = "executed"
  <2> DEFINE b == record_success(d.brk, d.act)
  <2>1. /\ proposals' = proposals \ {d.act} /\ quarantine' = quarantine /\ fails' = <<>>
        /\ failed' = [failed EXCEPT ![d.act] = 0]
        /\ proc' = [proc EXCEPT !["daemon"].pc = "close", !["daemon"].brk = b]
    BY <1>8 DEF ExecutionSettles
  <2>2. b \in Breaker
    BY <1>2, BreakerTypes
  <2>3. b.consecutive = 0 /\ b.cooldown = 0 /\ b.failures = [d.brk.failures EXCEPT ![d.act] = 0]
    BY DEF record_success
  <2> HIDE DEF b
  <2>4. LET e == proc'["daemon"]
        IN  e.pc = "close" /\ e.via = "proposal" /\ e.brk = b /\ ~Executing(e)
    BY <1>7, <2>1, <2>2
  <2>5. Counts'
    <3>1. ASSUME NEW a \in Proposed
          PROVE  /\ breaker.failures[a] < L /\ b.failures[a] < L
                 /\ a \in quarantine => failed'[a] <= L + crashes
                 /\ a \notin quarantine =>
                      /\ a \notin proposals' => failed'[a] = 0
                      /\ failed'[a] <= breaker.failures[a] + crashes + 1
                      /\ failed'[a] <= b.failures[a] + crashes
      <4>1. CASE a = d.act
        <5>1. failed'[a] = 0 /\ b.failures[a] = 0 /\ breaker.failures[a] \in Nat
          BY <1>2, <1>3, <2>1, <2>3, <4>1
        <5> QED BY <1>3, <1>4, <5>1
      <4>2. CASE a # d.act
        <5>1. /\ failed'[a] = failed[a] /\ b.failures[a] = d.brk.failures[a] /\ failed[a] \in Nat
              /\ breaker.failures[a] \in Nat /\ (a \in proposals' <=> a \in proposals)
          BY <1>2, <1>3, <2>1, <2>3, <4>2
        <5> QED BY <1>3, <1>4, <5>1
      <4> QED BY <4>1, <4>2
    <3>2. proposals' \intersect quarantine' = {}
      BY <1>4, <2>1
    <3> QED BY <1>1, <2>1, <2>4, <3>1, <3>2 DEF Counts
  <2>6. Pacing'
    <3>1. /\ Cooled(breaker)' /\ Len(fails') = 0 /\ FailureThreshold \in Nat \ {0}
      BY <1>1, <1>5, <2>1, OutboundAssumption DEF Cooled
    <3>2. FailuresArePaced' /\ Cooled(proc["daemon"].brk)' /\ Follows(proc["daemon"].brk)'
      BY <2>3, <2>4, <3>1 DEF FailuresArePaced, Cooled, Follows
    <3> QED BY <2>4, <3>1, <3>2 DEF Pacing
  <2> QED BY <2>5, <2>6 DEF Contained
<1>9. CASE d.outcome = "failed"
  <2> DEFINE b == record_failure(d.brk, d.act, d.now)
             poisoned == d.brk.failures[d.act] + 1 >= L
  <2>1. /\ IF poisoned
           THEN proposals' = proposals \ {d.act} /\ quarantine' = quarantine \union {d.act}
           ELSE proposals' = proposals /\ quarantine' = quarantine
        /\ fails' = Append(fails, d.now)
        /\ failed' = [failed EXCEPT ![d.act] = @ + 1]
        /\ proc' = [proc EXCEPT !["daemon"].pc = "close", !["daemon"].brk = b]
    BY <1>9 DEF ExecutionSettles, Poisoned
  <2>2. b \in Breaker
    BY <1>2, BreakerTypes
  <2>3. /\ Cooled(b) /\ b.consecutive = d.brk.consecutive + 1
        /\ d.brk.consecutive + 1 >= FailureThreshold => b.open_until >= d.now + BaseCooldown
        /\ \A x \in Proposed \ {d.act} : b.failures[x] = d.brk.failures[x]
        /\ b.failures[d.act] = IF poisoned THEN 0 ELSE d.brk.failures[d.act] + 1
    BY <1>2, <1>5, FailureFollows
  <2> HIDE DEF b
  <2>4. LET e == proc'["daemon"]
        IN  e.pc = "close" /\ e.via = "proposal" /\ e.brk = b /\ ~Executing(e)
    BY <1>7, <2>1, <2>2
  <2>5. Counts'
    <3>1. ASSUME NEW a \in Proposed
          PROVE  /\ breaker.failures[a] < L /\ b.failures[a] < L
                 /\ a \in quarantine' => failed'[a] <= L + crashes
                 /\ a \notin quarantine' =>
                      /\ a \notin proposals' => failed'[a] = 0
                      /\ failed'[a] <= breaker.failures[a] + crashes + 1
                      /\ failed'[a] <= b.failures[a] + crashes
      <4>0. breaker.failures[a] \in Nat /\ d.brk.failures[a] \in Nat /\ failed[a] \in Nat
        BY <1>3
      <4>1. CASE a = d.act
        <5>1. /\ failed'[a] = failed[a] + 1
              /\ d.brk.failures[a] + 1 >= L => b.failures[a] = 0 /\ a \in quarantine'
              /\ ~(d.brk.failures[a] + 1 >= L) =>
                   b.failures[a] = d.brk.failures[a] + 1 /\ a \in proposals' /\ a \notin quarantine'
          BY <1>2, <1>3, <1>4, <2>1, <2>3, <4>1
        <5>2. /\ a \notin quarantine
              /\ breaker.failures[a] < L /\ d.brk.failures[a] < L
              /\ failed[a] <= breaker.failures[a] + crashes
              /\ failed[a] <= d.brk.failures[a] + crashes
          BY <1>3, <1>4, <4>0, <4>1, SMTT(60)
        <5> DEFINE fa == failed[a]  ba == breaker.failures[a]  da == d.brk.failures[a]
        <5>3. fa \in Nat /\ ba \in Nat /\ da \in Nat /\ crashes \in Nat /\ L \in Nat
          BY <1>3, <4>0
        <5>4. fa <= ba + crashes /\ fa <= da + crashes
          BY <5>2
        <5>5. fa + 1 <= ba + crashes + 1 /\ fa + 1 <= da + 1 + crashes
          <6> HIDE DEF fa, ba, da, L
          <6> QED BY <5>3, <5>4
        <5>6. CASE d.brk.failures[a] + 1 >= L
          <6>1. failed[a] + 1 <= L + crashes
            BY <1>3, <4>0, <5>2
          <6> QED BY <1>3, <4>0, <5>1, <5>2, <5>6, <6>1
        <5>7. CASE ~(d.brk.failures[a] + 1 >= L)
          <6>1. da + 1 < L
            BY <5>7, <5>3
          <6> QED BY <5>1, <5>2, <5>7, <5>5, <6>1
        <5> QED BY <5>6, <5>7
      <4>2. CASE a # d.act
        <5>1. /\ failed'[a] = failed[a] /\ b.failures[a] = d.brk.failures[a]
              /\ a \in proposals' <=> a \in proposals
              /\ a \in quarantine' <=> a \in quarantine
          BY <1>2, <1>3, <2>1, <2>3, <4>2
        <5> QED BY <1>3, <1>4, <4>0, <5>1
      <4> QED BY <4>1, <4>2
    <3>2. proposals' \intersect quarantine' = {}
      BY <1>4, <2>1
    <3> QED BY <1>1, <2>1, <2>4, <3>1, <3>2 DEF Counts
  <2>6. Pacing'
    <3>1. Cooled(breaker)' /\ Cooled(proc["daemon"].brk)'
      BY <1>1, <1>5, <2>3, <2>4 DEF Cooled
    <3>2. ASSUME crashes = 0
          PROVE  FailuresArePaced' /\ Follows(proc["daemon"].brk)'
      <4>1. /\ FailuresArePaced /\ d.brk.consecutive = Len(fails)
            /\ Len(fails) >= FailureThreshold => d.brk.open_until >= fails[Len(fails)] + BaseCooldown
            /\ d.brk.open_until # 0 => d.now >= d.brk.open_until
        BY <1>5, <3>2 DEF Follows
      <4>2. /\ Len(fails) \in Nat /\ FailureThreshold \in Nat \ {0} /\ BaseCooldown \in Nat \ {0}
            /\ d.now \in Nat /\ d.brk.open_until \in Nat
            /\ \A i \in 1..Len(fails) : fails[i] \in Nat
        <5>1. d.brk.open_until \in Nat
          BY <1>2 DEF Breaker
        <5>2. Len(fails) \in Nat /\ \A i \in 1..Len(fails) : fails[i] \in Time
          BY <1>3
        <5> QED BY <1>2, <5>1, <5>2, Constants, OutboundAssumption
      <4>3. /\ Len(fails') = Len(fails) + 1 /\ fails'[Len(fails) + 1] = d.now
            /\ \A i \in 1..Len(fails) : fails'[i] = fails[i]
        BY <1>2, <1>3, <2>1
      <4>4. ASSUME NEW i \in (FailureThreshold + 1)..Len(fails')
            PROVE  fails'[i] >= fails'[i - 1] + BaseCooldown
        <5>1. CASE i \in 1..Len(fails)
          <6>1. i - 1 \in 1..Len(fails) /\ fails[i] >= fails[i - 1] + BaseCooldown
            BY <3>2, <4>1, <4>2, <4>4, <5>1 DEF FailuresArePaced
          <6> QED BY <4>3, <5>1, <6>1
        <5>2. CASE i \notin 1..Len(fails)
          <6>1. i = Len(fails) + 1 /\ Len(fails) >= FailureThreshold /\ Len(fails) \in 1..Len(fails)
            BY <4>2, <4>3, <4>4, <5>2
          <6>2. d.now >= fails[Len(fails)] + BaseCooldown
            BY <4>1, <4>2, <6>1
          <6>3. i - 1 = Len(fails)
            BY <4>2, <6>1
          <6> QED BY <4>3, <6>1, <6>2, <6>3
        <5> QED BY <5>1, <5>2
      <4>5. FailuresArePaced'
        BY <4>4 DEF FailuresArePaced
      <4>6. /\ b.consecutive = Len(fails')
            /\ Len(fails') >= FailureThreshold => b.open_until >= fails'[Len(fails')] + BaseCooldown
        BY <2>3, <4>1, <4>3
      <4> QED BY <2>4, <4>5, <4>6 DEF Follows
    <3> QED BY <1>1, <2>4, <3>1, <3>2 DEF Pacing
  <2> QED BY <2>5, <2>6 DEF Contained
<1> QED BY <1>6, <1>8, <1>9 DEF ExecutionSettles

LEMMA ContainedInit == Init => Contained
<1> SUFFICES ASSUME Init PROVE Contained
  OBVIOUS
<1>1. proc["daemon"].via = None /\ proc["daemon"].pc = "idle"
  BY DEF Init, Procs, Idle
<1>2. ProposalFailureLimit \in Nat \ {0} /\ FailureThreshold \in Nat \ {0}
  BY OutboundAssumption
<1>3. /\ fails = <<>> /\ Len(fails) = 0 /\ proposals = {} /\ quarantine = {} /\ crashes = 0
      /\ breaker.consecutive = 0 /\ breaker.cooldown = 0
      /\ \A a \in Proposed : breaker.failures[a] = 0 /\ failed[a] = 0
  BY DEF Init, ClosedBreaker
<1>4. Counts
  BY <1>1, <1>2, <1>3 DEF Counts, Executing, None
<1>5. Pacing
  BY <1>1, <1>2, <1>3 DEF Pacing, Executing, None, Cooled, Follows, FailuresArePaced
<1> QED BY <1>4, <1>5 DEF Contained

LEMMA ContainedNext == Typed /\ Contained /\ [Next]_vars => Contained'
<1> SUFFICES ASSUME Typed, Contained, [Next]_vars PROVE Contained'
  OBVIOUS
<1>1. Typed'
  BY TypedNext
<1>2. CASE UNCHANGED vars \/ Edit \/ run_publish \/ PublishReturns
  BY <1>1, <1>2, AroundContained
<1>3. CASE Cycle
  BY <1>1, <1>3, AroundContained, DecideContained, SelectContained, SettlesContained,
     SaveBreakerContained DEF Cycle
<1>4. ASSUME NEW p \in Procs, Step(p) PROVE Contained'
  BY <1>1, <1>4, StepContained
<1> QED BY <1>2, <1>3, <1>4 DEF Next

\* No proposal fails more often in a row than the limit and the crashes that lost
\* its count allow, and past the threshold failures are a cool-down apart, for any
\* limits, proposals and number of cycles (breaker.cpp:64-82, cycle.cpp:582-585).
THEOREM FailuresContained == Spec => []FailuresAreContained
<1>1. Typed /\ Contained => FailuresAreContained
  <2> SUFFICES ASSUME Typed, Contained PROVE FailuresAreContained
    OBVIOUS
  <2>1. FailuresArePaced
    BY DEF Contained, Pacing, FailuresArePaced
  <2>2. ASSUME NEW a \in Proposed PROVE failed[a] <= ProposalFailureLimit + crashes
    <3>1. /\ crashes \in Nat /\ failed[a] \in Nat /\ ProposalFailureLimit \in Nat
      BY OutboundAssumption DEF Typed, TypeOK
    <3>2. breaker.failures[a] \in Nat
      BY DEF Typed, TypeOK, Breaker
    <3>3. /\ breaker.failures[a] < ProposalFailureLimit
          /\ a \in quarantine => failed[a] <= ProposalFailureLimit + crashes
          /\ a \notin quarantine =>
               failed[a] <= breaker.failures[a] + crashes
                              + (IF proc["daemon"].pc = "close" THEN 1 ELSE 0)
      BY DEF Contained, Counts
    <3> QED BY <3>1, <3>2, <3>3
  <2> QED BY <2>1, <2>2 DEF FailuresAreContained, PoisonIsSetAside
<1> QED BY <1>1, TypedInit, TypedNext, ContainedInit, ContainedNext, PTL DEF Spec

-----------------------------------------------------------------------------
(* Admissions.                                                             *)

\* A budget whose records are those of the admissions ch, none missing that a
\* limit asked at t could look at.
Recalls(ch, b, t) ==
    /\ b.count = Len(ch)
    /\ b.last = IF Len(ch) = 0 THEN NoTime ELSE ch[Len(ch)].at
    /\ b.last <= t
    /\ \A n \in DOMAIN b.recent : n \in 1..Len(ch) /\ b.recent[n] = ch[n].at
    /\ \A n \in DOMAIN b.dups :
          n \in 1..Len(ch) /\ b.dups[n].key = ch[n].act /\ b.dups[n].at = ch[n].at
    /\ \A i \in 1..Len(ch) : i > Len(ch) - MaxRecords =>
          /\ ch[i].at >= t - Horizon => i \in DOMAIN b.recent
          /\ (DupCooldown > 0 /\ ch[i].at >= t - DupCooldown) =>
                \E n \in DOMAIN b.dups : n >= i /\ ch[n].act = ch[i].act

\* The limits, of a sequence of admissions.
InOrder(ch) == \A i, j \in 1..Len(ch) : i <= j => ch[i].at <= ch[j].at

Spaced(ch) ==
    /\ MaxInWindow <= MaxRecords => \A i \in 1..(Len(ch) - MaxInWindow) :
           ch[i + MaxInWindow].at > ch[i].at + Window
    /\ \A i, j \in 1..Len(ch) :
          i < j => /\ ch[j].at >= ch[i].at + MinInterval
                   /\ (ch[i].act = ch[j].act /\ j - i <= MaxRecords) =>
                         ch[j].at >= ch[i].at + DupCooldown

\* An attempt past the gates carries a budget that may be charged.
Admitted(r) == r.pc \in {"resolve", "put", "unspool", "charge"}
ReadyOf(r, ch) ==
    Admitted(r) => /\ Recalls(ch, r.base, AdmissionTime(r.base, r.now))
                   /\ ~Defers(r.base, r.act, r.now)

Limits ==
    ~raced => /\ Recalls(charged, budget, budget.last)
              /\ InOrder(charged) /\ Spaced(charged)
              /\ \A p \in Procs : ReadyOf(proc[p], charged)

LEMMA ElementTypes ==
    ASSUME NEW ch \in Seq([act : Actions, at : Time]), NEW i \in 1..Len(ch)
    PROVE  ch[i].act \in Actions /\ ch[i].at \in Time /\ ch[i].at \in Nat
<1> DEFINE S == [act : Actions, at : Time]
<1>1. ASSUME NEW T, ch \in Seq(T) PROVE ch[i] \in T
  BY <1>1
<1>2. ch[i] \in S
  BY <1>1
<1> QED BY <1>2, Constants

LEMMA KeepsTail ==
    ASSUME NEW L \in Nat, NEW S \in SUBSET (1..L), NEW n \in S, n > L - MaxRecords
    PROVE  n \in keep_last(S)
<1> DEFINE later == {m \in S : m > n}
<1>1. MaxRecords \in Nat /\ n \in 1..L
  BY Constants
<1>2. n + 1 \in Int /\ L \in Int
  BY <1>1
<1>3. IsFiniteSet((n + 1)..L) /\ Cardinality((n + 1)..L) = IF n + 1 > L THEN 0 ELSE L - (n + 1) + 1
  BY <1>2, FS_Interval
<1>4. later \subseteq (n + 1)..L
  <2> SUFFICES ASSUME NEW m \in S, m > n PROVE m \in (n + 1)..L
    OBVIOUS
  <2>1. m \in 1..L
    OBVIOUS
  <2> QED BY <1>1, <2>1
<1>5. Cardinality(later) <= Cardinality((n + 1)..L) /\ IsFiniteSet(later)
  BY <1>3, <1>4, FS_Subset
<1>6. Cardinality(later) \in Nat
  BY <1>5, FS_CardinalityType
<1>7. Cardinality(later) < MaxRecords
  BY <1>1, <1>3, <1>5, <1>6
<1> QED BY <1>7 DEF keep_last

LEMMA RecallsPruned ==
    ASSUME NEW ch \in Seq([act : Actions, at : Time]), NEW b \in BudgetsOf(Len(ch)),
           NEW t \in Int, NEW now \in Int, Recalls(ch, b, t), InOrder(ch)
    PROVE  Recalls(ch, prune_kind(b, now), LargerOf(now, t))
<1> DEFINE L == Len(ch)
           r == prune_kind(b, now)
           u == LargerOf(now, t)
           A == LiveActs(b, now)
           D == LiveDups(b, now)
<1>1. L \in Nat /\ b \in BudgetsOf(L)
  OBVIOUS
<1>2. /\ r.last = b.last /\ r.count = b.count
      /\ DOMAIN r.recent = keep_last(A) /\ DOMAIN r.dups = keep_last(D)
      /\ \A m \in DOMAIN r.recent : m \in DOMAIN b.recent /\ r.recent[m] = b.recent[m]
      /\ \A m \in DOMAIN r.dups : m \in DOMAIN b.dups /\ r.dups[m] = b.dups[m]
  <2> HIDE DEF L
  <2>1. r.last = b.last /\ r.count = b.count
    BY <1>1, PruneKeeps, ZenonT(60)
  <2>2. DOMAIN r.recent = keep_last(A) /\ DOMAIN r.dups = keep_last(D)
    BY <1>1, PruneKeeps, SMTT(60)
  <2>3. \A m \in DOMAIN r.recent : m \in DOMAIN b.recent /\ r.recent[m] = b.recent[m]
    BY <1>1, PruneKeeps
  <2>4. \A m \in DOMAIN r.dups : m \in DOMAIN b.dups /\ r.dups[m] = b.dups[m]
    BY <1>1, PruneKeeps
  <2> QED BY <2>1, <2>2, <2>3, <2>4
<1>3. u \in Int /\ u >= now /\ u >= t
  BY DEF LargerOf
<1>4. b.last \in Int /\ \A i \in 1..L : ch[i].at \in Int
  <2>1. \A i \in 1..L : ch[i].act \in Actions /\ ch[i].at \in Time
    BY ElementTypes
  <2>2. b.last \in Time \union {NoTime}
    BY DEF BudgetsOf
  <2>3. \A x \in Time \union {NoTime} : x \in Int
    BY Constants
  <2> QED BY <2>1, <2>2, <2>3
<1>5. Horizon \in Nat /\ DupCooldown \in Nat /\ MaxRecords \in Nat
  BY Constants
<1> HIDE DEF r, u, L
<1>6. /\ b.count = L /\ b.last = (IF L = 0 THEN NoTime ELSE ch[L].at) /\ b.last <= t
      /\ \A n \in DOMAIN b.recent : n \in 1..L /\ b.recent[n] = ch[n].at
      /\ \A n \in DOMAIN b.dups : n \in 1..L /\ b.dups[n].key = ch[n].act /\ b.dups[n].at = ch[n].at
      /\ \A i \in 1..L : i > L - MaxRecords =>
            /\ ch[i].at >= t - Horizon => i \in DOMAIN b.recent
            /\ (DupCooldown > 0 /\ ch[i].at >= t - DupCooldown) =>
                 \E n \in DOMAIN b.dups : n >= i /\ ch[n].act = ch[i].act
  BY DEF Recalls, L
<1>7. A \in SUBSET (1..L) /\ D \in SUBSET (1..L)
  BY <1>6 DEF LiveActs, LiveDups
<1>8. ASSUME NEW i \in 1..L, i > L - MaxRecords, ch[i].at >= u - Horizon
      PROVE  i \in DOMAIN r.recent
  <2>1. ch[i].at >= t - Horizon /\ ch[i].at >= now - Horizon
    BY <1>3, <1>4, <1>5, <1>8, SMTT(60)
  <2>2. i \in A
    BY <1>6, <1>8, <2>1 DEF LiveActs
  <2> HIDE DEF A
  <2> QED BY <1>1, <1>2, <1>7, <1>8, <2>2, KeepsTail DEF L
<1>9. ASSUME NEW i \in 1..L, i > L - MaxRecords, DupCooldown > 0, ch[i].at >= u - DupCooldown
      PROVE  \E n \in DOMAIN r.dups : n >= i /\ ch[n].act = ch[i].act
  <2>1. ch[i].at >= t - DupCooldown /\ ch[i].at >= now - DupCooldown
    BY <1>3, <1>4, <1>5, <1>9
  <2>2. PICK n \in DOMAIN b.dups : n >= i /\ ch[n].act = ch[i].act
    BY <1>6, <1>9, <2>1
  <2>3. n \in 1..L /\ b.dups[n].at = ch[n].at /\ ch[n].at >= ch[i].at
    BY <1>4, <1>6, <1>9, <2>2 DEF InOrder, L
  <2>4. n \in D /\ n > L - MaxRecords
    BY <1>1, <1>4, <1>5, <1>9, <2>1, <2>2, <2>3, SMTT(60) DEF L, LiveDups
  <2> HIDE DEF D
  <2>5. n \in keep_last(D)
    BY <1>1, <1>7, <2>4, KeepsTail DEF L
  <2> QED BY <1>2, <2>2, <2>5
<1>10. /\ r.count = L /\ r.last = (IF L = 0 THEN NoTime ELSE ch[L].at) /\ r.last <= u
       /\ \A n \in DOMAIN r.recent : n \in 1..L /\ r.recent[n] = ch[n].at
       /\ \A n \in DOMAIN r.dups : n \in 1..L /\ r.dups[n].key = ch[n].act /\ r.dups[n].at = ch[n].at
  <2>1. b.last <= u
    BY <1>3, <1>4, <1>6
  <2> HIDE DEF A, D
  <2> QED BY <1>2, <1>6, <2>1
<1> HIDE DEF A, D
<1>11. Recalls(ch, r, u)
  BY <1>8, <1>9, <1>10 DEF Recalls, L
<1> QED BY <1>11 DEF r, u

\* The admissions with one more.
LEMMA OneMore ==
    ASSUME NEW ch \in Seq([act : Actions, at : Time]), NEW a \in Actions, NEW at \in Time
    PROVE  LET dh == Append(ch, [act |-> a, at |-> at])
           IN  /\ dh \in Seq([act : Actions, at : Time]) /\ Len(dh) = Len(ch) + 1
               /\ dh[Len(ch) + 1].act = a /\ dh[Len(ch) + 1].at = at
               /\ \A i \in 1..Len(ch) : dh[i].act = ch[i].act /\ dh[i].at = ch[i].at
<1> DEFINE e == [act |-> a, at |-> at]
           dh == Append(ch, e)
<1>1. e \in [act : Actions, at : Time] /\ e.act = a /\ e.at = at
  OBVIOUS
<1> HIDE DEF e
<1>2. ASSUME NEW S, ch \in Seq(S), e \in S
      PROVE  dh \in Seq(S) /\ Len(dh) = Len(ch) + 1 /\ dh[Len(ch) + 1] = e
             /\ \A i \in 1..Len(ch) : dh[i] = ch[i]
  BY <1>2
<1>3. /\ dh \in Seq([act : Actions, at : Time]) /\ Len(dh) = Len(ch) + 1 /\ dh[Len(ch) + 1] = e
      /\ \A i \in 1..Len(ch) : dh[i] = ch[i]
  BY <1>1, <1>2
<1> HIDE DEF dh
<1> QED BY <1>1, <1>3 DEF dh, e

LEMMA RecallsNoted ==
    ASSUME NEW ch \in Seq([act : Actions, at : Time]), NEW b \in BudgetsOf(Len(ch)),
           NEW a \in Actions, NEW at \in Time, Recalls(ch, b, at), InOrder(ch)
    PROVE  LET dh == Append(ch, [act |-> a, at |-> at])
           IN  Recalls(dh, Noted(b, a, at), at) /\ InOrder(dh)
<1> DEFINE L == Len(ch)
           dh == Append(ch, [act |-> a, at |-> at])
           N == Noted(b, a, at)
           D == {m \in DOMAIN b.dups : b.dups[m].key # a}
<1>1. L \in Nat /\ at \in Nat /\ MaxRecords \in Nat /\ Horizon \in Nat /\ DupCooldown \in Nat
  BY Constants
<1>2. /\ Len(dh) = L + 1 /\ dh[L + 1].act = a /\ dh[L + 1].at = at
      /\ \A i \in 1..L : dh[i].act = ch[i].act /\ dh[i].at = ch[i].at
  BY OneMore
<1>3. \A i \in 1..L : ch[i].at \in Nat
  BY ElementTypes
<1>4. /\ b.count = L /\ b.last = (IF L = 0 THEN NoTime ELSE ch[L].at) /\ b.last <= at
      /\ \A n \in DOMAIN b.recent : n \in 1..L /\ b.recent[n] = ch[n].at
      /\ \A n \in DOMAIN b.dups : n \in 1..L /\ b.dups[n].key = ch[n].act /\ b.dups[n].at = ch[n].at
      /\ \A i \in 1..L : i > L - MaxRecords =>
            /\ ch[i].at >= at - Horizon => i \in DOMAIN b.recent
            /\ (DupCooldown > 0 /\ ch[i].at >= at - DupCooldown) =>
                 \E n \in DOMAIN b.dups : n >= i /\ ch[n].act = ch[i].act
  BY DEF Recalls
<1>5. /\ N.last = at /\ N.count = L + 1
      /\ N.recent = [m \in DOMAIN b.recent \union {L + 1} |-> IF m = L + 1 THEN at ELSE b.recent[m]]
      /\ N.dups = [m \in D \union {L + 1} |->
                     IF m = L + 1 THEN [key |-> a, at |-> at] ELSE b.dups[m]]
  BY <1>4 DEF Noted
<1>6. /\ DOMAIN N.recent = DOMAIN b.recent \union {L + 1} /\ N.recent[L + 1] = at
      /\ DOMAIN N.dups = D \union {L + 1} /\ N.dups[L + 1].key = a /\ N.dups[L + 1].at = at
      /\ \A m \in DOMAIN b.recent : m # L + 1 => N.recent[m] = b.recent[m]
      /\ \A m \in D : m # L + 1 => N.dups[m] = b.dups[m]
  BY <1>5
<1>7. D \subseteq DOMAIN b.dups /\ \A m \in DOMAIN b.dups : m \in D <=> b.dups[m].key # a
  OBVIOUS
<1> HIDE DEF L, dh, N, D
<1>8. \A i \in 1..L : ch[i].at <= at /\ i # L + 1
  <2> SUFFICES ASSUME NEW i \in 1..L PROVE ch[i].at <= at /\ i # L + 1
    OBVIOUS
  <2>1. L \in 1..L /\ i <= L /\ L # 0 /\ i # L + 1
    BY <1>1
  <2>2. ch[i].at <= ch[L].at /\ b.last = ch[L].at
    BY <1>4, <2>1 DEF InOrder, L
  <2> QED BY <1>1, <1>3, <1>4, <2>1, <2>2
<1>9. InOrder(dh)
  <2> SUFFICES ASSUME NEW i \in 1..(L + 1), NEW j \in 1..(L + 1), i <= j
               PROVE  dh[i].at <= dh[j].at
    BY <1>2 DEF InOrder
  <2>1. CASE j = L + 1
    <3>1. CASE i = L + 1
      BY <1>1, <1>2, <2>1, <3>1
    <3>2. CASE i # L + 1
      <4>1. i \in 1..L
        BY <1>1, <3>2
      <4> QED BY <1>2, <1>8, <2>1, <4>1
    <3> QED BY <3>1, <3>2
  <2>2. CASE j # L + 1
    <3>1. i \in 1..L /\ j \in 1..L
      BY <1>1, <2>2
    <3> QED BY <1>2, <3>1 DEF InOrder, L
  <2> QED BY <2>1, <2>2
<1>10. \A n \in DOMAIN N.recent : n \in 1..(L + 1) /\ N.recent[n] = dh[n].at
  BY <1>1, <1>2, <1>4, <1>6, <1>8
<1>11. \A n \in DOMAIN N.dups :
         n \in 1..(L + 1) /\ N.dups[n].key = dh[n].act /\ N.dups[n].at = dh[n].at
  BY <1>1, <1>2, <1>4, <1>6, <1>7, <1>8
<1>12. ASSUME NEW i \in 1..(L + 1), i > L + 1 - MaxRecords
       PROVE  /\ dh[i].at >= at - Horizon => i \in DOMAIN N.recent
              /\ (DupCooldown > 0 /\ dh[i].at >= at - DupCooldown) =>
                    \E n \in DOMAIN N.dups : n >= i /\ dh[n].act = dh[i].act
  <2>1. CASE i = L + 1
    BY <1>1, <1>6, <2>1
  <2>2. CASE i # L + 1
    <3>1. i \in 1..L /\ i > L - MaxRecords
      BY <1>1, <1>12, <2>2
    <3>2. dh[i].at >= at - Horizon => i \in DOMAIN N.recent
      BY <1>2, <1>4, <1>6, <3>1
    <3>3. ASSUME DupCooldown > 0, dh[i].at >= at - DupCooldown
          PROVE  \E n \in DOMAIN N.dups : n >= i /\ dh[n].act = dh[i].act
      <4>1. PICK n \in DOMAIN b.dups : n >= i /\ ch[n].act = ch[i].act
        BY <1>2, <1>4, <3>1, <3>3
      <4>2. n \in 1..L /\ b.dups[n].key = ch[n].act
        BY <1>4
      <4>3. CASE ch[i].act = a
        <5>1. L + 1 >= i /\ dh[L + 1].act = dh[i].act /\ L + 1 \in DOMAIN N.dups
          BY <1>1, <1>2, <1>6, <3>1, <4>3
        <5> QED BY <5>1
      <4>4. CASE ch[i].act # a
        <5>1. n \in DOMAIN N.dups /\ dh[n].act = dh[i].act
          BY <1>2, <1>6, <1>7, <3>1, <4>1, <4>2, <4>4
        <5> QED BY <4>1, <5>1
      <4> QED BY <4>3, <4>4
    <3> QED BY <3>2, <3>3
  <2> QED BY <2>1, <2>2
<1>13. L + 1 # 0 /\ at <= at
  BY <1>1
<1>14. Recalls(dh, N, at)
  <2>1. /\ N.count = Len(dh) /\ N.last = (IF Len(dh) = 0 THEN NoTime ELSE dh[Len(dh)].at)
        /\ N.last <= at
    BY <1>2, <1>5, <1>13
  <2>2. ASSUME NEW i \in 1..Len(dh), i > Len(dh) - MaxRecords
        PROVE  /\ dh[i].at >= at - Horizon => i \in DOMAIN N.recent
               /\ (DupCooldown > 0 /\ dh[i].at >= at - DupCooldown) =>
                     \E n \in DOMAIN N.dups : n >= i /\ dh[n].act = dh[i].act
    <3>0. Len(dh) = L + 1
      BY <1>2
    <3>1. i \in 1..(L + 1) /\ i > L + 1 - MaxRecords
      BY <1>1, <2>2, <3>0
    <3> QED BY <1>12, <3>1
  <2>3. /\ \A n \in DOMAIN N.recent : n \in 1..Len(dh) /\ N.recent[n] = dh[n].at
        /\ \A n \in DOMAIN N.dups :
              n \in 1..Len(dh) /\ N.dups[n].key = dh[n].act /\ N.dups[n].at = dh[n].at
    BY <1>2, <1>10, <1>11
  <2> QED BY <2>1, <2>2, <2>3 DEF Recalls
<1> QED BY <1>9, <1>14 DEF dh, N

LEMMA RecallsRecord ==
    ASSUME NEW ch \in Seq([act : Actions, at : Time]), NEW b \in BudgetsOf(Len(ch)),
           NEW a \in Actions, NEW now \in Time, Recalls(ch, b, AdmissionTime(b, now)), InOrder(ch)
    PROVE  LET at == AdmissionTime(b, now)
               dh == Append(ch, [act |-> a, at |-> at])
           IN  Recalls(dh, record_outbound_action(b, a, now), at) /\ InOrder(dh)
<1> DEFINE at == AdmissionTime(b, now)
           dh == Append(ch, [act |-> a, at |-> at])
           N == Noted(b, a, at)
<1>1. Len(ch) \in Nat
  OBVIOUS
<1>2. at \in Time
  BY <1>1, RecordType
<1>3. at \in Int /\ LargerOf(at, at) = at
  <2> HIDE DEF at
  <2>1. at \in Nat
    BY <1>2, Constants
  <2> QED BY <2>1 DEF LargerOf
<1>4. dh \in Seq([act : Actions, at : Time]) /\ Len(dh) = Len(ch) + 1
  BY <1>2, OneMore
<1>5. N \in BudgetsOf(Len(dh))
  BY <1>1, <1>2, <1>4, NotedType
<1>6. Recalls(dh, N, at) /\ InOrder(dh)
  BY <1>2, RecallsNoted
<1>7. record_outbound_action(b, a, now) = prune_kind(N, at)
  BY RecordIs
<1> HIDE DEF at, dh, N
<1>8. Recalls(dh, prune_kind(N, at), at)
  BY <1>3, <1>4, <1>5, <1>6, RecallsPruned
<1> QED BY <1>6, <1>7, <1>8 DEF dh, at

\* A budget that defers nothing leaves room for the admission it is asked about.
LEMMA SpacedOneMore ==
    ASSUME NEW ch \in Seq([act : Actions, at : Time]), NEW b \in BudgetsOf(Len(ch)),
           NEW a \in Actions, NEW now \in Time, Recalls(ch, b, AdmissionTime(b, now)), InOrder(ch),
           Spaced(ch), ~Defers(b, a, now)
    PROVE  Spaced(Append(ch, [act |-> a, at |-> AdmissionTime(b, now)]))
<1> DEFINE L == Len(ch)
           at == AdmissionTime(b, now)
           dh == Append(ch, [act |-> a, at |-> at])
<1>0. L \in Nat
  OBVIOUS
<1>1. at \in Time /\ at >= now /\ at >= b.last
  BY <1>0, RecordType
<1>2. /\ Len(dh) = L + 1 /\ dh[L + 1].act = a /\ dh[L + 1].at = at
      /\ \A i \in 1..L : dh[i].act = ch[i].act /\ dh[i].at = ch[i].at
  BY <1>1, OneMore
<1>3. \A i \in 1..L : ch[i].at \in Nat
  BY ElementTypes
<1>4. /\ b.last = (IF L = 0 THEN NoTime ELSE ch[L].at)
      /\ \A n \in DOMAIN b.recent : n \in 1..L /\ b.recent[n] = ch[n].at
      /\ \A n \in DOMAIN b.dups : n \in 1..L /\ b.dups[n].key = ch[n].act /\ b.dups[n].at = ch[n].at
      /\ \A i \in 1..L : i > L - MaxRecords =>
            /\ ch[i].at >= at - Horizon => i \in DOMAIN b.recent
            /\ (DupCooldown > 0 /\ ch[i].at >= at - DupCooldown) =>
                 \E n \in DOMAIN b.dups : n >= i /\ ch[n].act = ch[i].act
  BY DEF Recalls
<1>5. /\ at \in Nat /\ now \in Nat /\ MaxRecords \in Nat \ {0} /\ Horizon \in Nat
      /\ Horizon >= Window /\ DupCooldown \in Nat /\ MinInterval \in Nat /\ Window \in Nat
      /\ MaxInWindow \in Nat \ {0} /\ NoTime = -1
  <2> HIDE DEF at
  <2> QED BY <1>1, Constants
<1>6. /\ DupCooldown > 0 => ~Duplicate(b, a, now)
      /\ MinInterval > 0 => b.last = NoTime \/ ~(Elapsed(now, b.last) < MinInterval)
      /\ ~(used_in_window(b, now) >= MaxInWindow)
  BY DEF Defers
<1> HIDE DEF L, at, dh
<1>7. ASSUME NEW i \in 1..L
      PROVE  at >= ch[i].at + MinInterval
  <2>1. L \in 1..L /\ i <= L /\ L # 0
    BY <1>0
  <2>2. ch[i].at <= ch[L].at /\ b.last = ch[L].at /\ b.last \in Nat
    BY <1>3, <1>4, <2>1 DEF InOrder, L
  <2>3. at >= b.last + MinInterval
    <3>1. CASE MinInterval = 0
      BY <1>1, <1>5, <2>2, <3>1
    <3>2. CASE MinInterval # 0
      <4>1. ~(Elapsed(now, b.last) < MinInterval)
        BY <1>5, <1>6, <2>2, <3>2
      <4>2. now >= b.last + MinInterval
        BY <1>5, <2>2, <3>2, <4>1 DEF Elapsed
      <4> QED BY <1>1, <1>5, <2>2, <4>2
    <3> QED BY <3>1, <3>2
  <2> QED BY <1>3, <1>5, <2>2, <2>3
<1>8. ASSUME NEW i \in 1..L, ch[i].act = a, L + 1 - i <= MaxRecords
      PROVE  at >= ch[i].at + DupCooldown
  <2>1. CASE DupCooldown = 0
    BY <1>3, <1>5, <1>7, <2>1
  <2>2. CASE DupCooldown > 0 /\ ch[i].at >= at - DupCooldown
    <3>1. i > L - MaxRecords
      BY <1>0, <1>5, <1>8
    <3>2. PICK n \in DOMAIN b.dups : n >= i /\ ch[n].act = ch[i].act
      BY <1>4, <2>2, <3>1
    <3>3. n \in 1..L /\ b.dups[n].key = a /\ b.dups[n].at = ch[n].at /\ ch[n].at >= ch[i].at
      BY <1>3, <1>4, <1>8, <3>2 DEF InOrder, L
    <3>4. ~(Elapsed(now, ch[n].at) < DupCooldown)
      BY <1>6, <2>2, <3>3 DEF Duplicate
    <3>5. now >= ch[n].at + DupCooldown
      BY <1>3, <1>5, <2>2, <3>3, <3>4 DEF Elapsed
    <3> QED BY <1>1, <1>3, <1>5, <3>3, <3>5
  <2>3. CASE ~(ch[i].at >= at - DupCooldown)
    BY <1>3, <1>5, <2>3
  <2> QED BY <1>5, <2>1, <2>2, <2>3
<1>9. ASSUME MaxInWindow <= MaxRecords, NEW i \in 1..L, i + MaxInWindow = L + 1
      PROVE  at > ch[i].at + Window
  <2> SUFFICES ASSUME ~(at > ch[i].at + Window) PROVE FALSE
    OBVIOUS
  <2> DEFINE C == {n \in DOMAIN b.recent : b.recent[n] >= now - Window}
  <2>1. i..L \subseteq C
    <3> SUFFICES ASSUME NEW j \in i..L PROVE j \in C
      OBVIOUS
    <3>1. j \in 1..L /\ i <= j /\ j > L - MaxRecords
      BY <1>0, <1>5, <1>9
    <3>2. ch[j].at >= ch[i].at
      BY <1>3, <3>1 DEF InOrder, L
    <3>3. ch[j].at >= at - Horizon /\ ch[j].at >= now - Window
      BY <1>1, <1>3, <1>5, <3>1, <3>2
    <3>4. j \in DOMAIN b.recent /\ b.recent[j] = ch[j].at
      BY <1>4, <3>1, <3>3
    <3> QED BY <3>3, <3>4
  <2>2. C \subseteq 1..L
    BY <1>4
  <2>3. IsFiniteSet(1..L) /\ Cardinality(i..L) = IF i > L THEN 0 ELSE L - i + 1
    <3>1. i \in Int /\ L \in Int /\ 1 \in Int
      BY <1>0
    <3>2. IsFiniteSet(1..L)
      BY <3>1, FS_Interval
    <3>3. Cardinality(i..L) = IF i > L THEN 0 ELSE L - i + 1
      BY <3>1, FS_Interval
    <3> QED BY <3>2, <3>3
  <2>4. IsFiniteSet(C)
    BY <2>2, <2>3, FS_Subset
  <2>5. Cardinality(i..L) <= Cardinality(C) /\ Cardinality(C) \in Nat
    BY <2>1, <2>4, FS_Subset, FS_CardinalityType
  <2>6. Cardinality(C) >= MaxInWindow
    BY <1>0, <1>5, <1>9, <2>3, <2>5
  <2> QED BY <1>6, <2>6 DEF used_in_window
<1>10. ASSUME MaxInWindow <= MaxRecords, NEW i \in 1..(Len(dh) - MaxInWindow)
       PROVE  dh[i + MaxInWindow].at > dh[i].at + Window
  <2>0. i \in 1..L /\ i + MaxInWindow \in 1..(L + 1) /\ i <= L + 1 - MaxInWindow
    BY <1>0, <1>2, <1>5, <1>10
  <2>1. CASE i + MaxInWindow = L + 1
    BY <1>2, <1>9, <1>10, <2>0, <2>1
  <2>2. CASE i + MaxInWindow # L + 1
    <3>1. i \in 1..(L - MaxInWindow) /\ i + MaxInWindow \in 1..L
      BY <1>0, <1>5, <2>0, <2>2
    <3>2. ch[i + MaxInWindow].at > ch[i].at + Window
      BY <1>10, <3>1 DEF Spaced, L
    <3> QED BY <1>2, <2>0, <3>1, <3>2
  <2> QED BY <2>1, <2>2
<1>11. ASSUME NEW i \in 1..Len(dh), NEW j \in 1..Len(dh), i < j
       PROVE  /\ dh[j].at >= dh[i].at + MinInterval
              /\ (dh[i].act = dh[j].act /\ j - i <= MaxRecords) =>
                    dh[j].at >= dh[i].at + DupCooldown
  <2>0. i \in 1..L /\ j \in 1..(L + 1)
    BY <1>0, <1>2, <1>11
  <2>1. CASE j = L + 1
    <3>1. dh[j].at = at /\ dh[j].act = a /\ dh[i].at = ch[i].at /\ dh[i].act = ch[i].act
      BY <1>2, <2>0, <2>1
    <3>2. at >= ch[i].at + MinInterval
      BY <1>7, <2>0
    <3>3. (ch[i].act = a /\ L + 1 - i <= MaxRecords) => at >= ch[i].at + DupCooldown
      BY <1>8, <2>0
    <3>4. dh[j].at >= dh[i].at + MinInterval
      BY <3>1, <3>2
    <3>5. ASSUME dh[i].act = dh[j].act, j - i <= MaxRecords PROVE dh[j].at >= dh[i].at + DupCooldown
      <4>1. ch[i].act = a /\ L + 1 - i <= MaxRecords
        BY <1>0, <1>5, <2>0, <2>1, <3>1, <3>5
      <4> QED BY <3>1, <3>3, <4>1
    <3> QED BY <3>4, <3>5
  <2>2. CASE j # L + 1
    <3>1. j \in 1..L
      BY <1>0, <2>0, <2>2
    <3>2. /\ ch[j].at >= ch[i].at + MinInterval
          /\ (ch[i].act = ch[j].act /\ j - i <= MaxRecords) => ch[j].at >= ch[i].at + DupCooldown
      BY <1>11, <2>0, <3>1 DEF Spaced, L
    <3> QED BY <1>2, <2>0, <3>1, <3>2
  <2> QED BY <2>1, <2>2
<1>12. Spaced(dh)
  BY <1>10, <1>11 DEF Spaced
<1> QED BY <1>12 DEF dh, at

\* No two attempts at a time: the lock keeps publish and an execution apart, and
\* a drain that no publish overlaps with has the files to itself.
LEMMA AttemptsAlone ==
    ASSUME Typed, Accounts, ~raced, NEW p \in Procs, NEW q \in Procs, p # q,
           proc[p].pc \in Attempt
    PROVE  proc[q].pc \notin Attempt
<1> SUFFICES ASSUME proc[q].pc \in Attempt PROVE FALSE
  OBVIOUS
<1>1. proc["publish"].pc \in Attempt /\ proc["daemon"].pc \in Attempt
  BY DEF Procs
<1>2. "publish" \in Procs /\ "daemon" \in Procs
  BY DEF Procs
<1>3. proc["publish"].via # "drain"
  BY <1>2, ProcFields DEF ShapeOf
<1>4. proc["daemon"].via # "drain"
  BY <1>1 DEF Accounts, Apart, DrainingOf, Attempt
<1>5. lock = "publish" /\ lock = "daemon"
  BY <1>1, <1>2, <1>3, <1>4 DEF Typed, Locked, Locking
<1> QED BY <1>5

\* A step that charges nothing and lets no attempt past the gates.
LEMMA LimitsRest ==
    ASSUME Typed, Limits, NEW p \in Procs, NEW r, Moves(p, r), raced => raced',
           UNCHANGED <<charged, budget>>,
           Admitted(r) => /\ Admitted(proc[p]) /\ r.base = proc[p].base
                          /\ r.now = proc[p].now /\ r.act = proc[p].act
    PROVE  Limits'
<1> SUFFICES ASSUME ~raced'
             PROVE  /\ Recalls(charged, budget, budget.last)' /\ InOrder(charged)'
                    /\ Spaced(charged)' /\ \A q \in Procs : ReadyOf(proc'[q], charged')
  BY DEF Limits
<1>1. /\ Recalls(charged, budget, budget.last) /\ InOrder(charged) /\ Spaced(charged)
      /\ \A q \in Procs : ReadyOf(proc[q], charged)
  BY DEF Limits
<1>2. proc'[p] = r /\ \A q \in Procs \ {p} : proc'[q] = proc[q]
  BY MovesTo
<1>3. ReadyOf(r, charged)
  BY <1>1 DEF ReadyOf
<1>4. ASSUME NEW q \in Procs PROVE ReadyOf(proc'[q], charged')
  <2>1. CASE q = p
    BY <1>2, <1>3, <2>1
  <2>2. CASE q # p
    BY <1>1, <1>2, <2>2
  <2> QED BY <2>1, <2>2
<1>5. charged' = charged /\ budget' = budget
  OBVIOUS
<1>6. Recalls(charged, budget, budget.last)'
  BY <1>1, <1>5 DEF Recalls
<1>7. InOrder(charged)' /\ Spaced(charged)'
  BY <1>1, <1>5 DEF InOrder, Spaced
<1> QED BY <1>4, <1>6, <1>7

LEMMA LimitsIdle ==
    ASSUME Typed, Limits, NEW p \in Procs, Moves(p, Idle), raced => raced',
           UNCHANGED <<charged, budget>>
    PROVE  Limits'
<1>1. ~Admitted(Idle)
  BY DEF Admitted, Idle
<1> QED BY <1>1, LimitsRest

LEMMA GateLimits ==
    ASSUME Typed, Limits, NEW p \in Procs, attempt_outbound_action(p)
    PROVE  Limits'
<1> DEFINE d == proc[p]
           base == prune_kind(budget, d.now)
           r == [d EXCEPT !.pc = "resolve", !.base = base]
<1>1. /\ d.pc = "gate" /\ UNCHANGED <<charged, budget, raced>>
  BY DEF attempt_outbound_action, At, history
<1>2. d \in Process /\ d.now \in Time
  BY ProcFields
<1>3. CASE \E o : Finish(p, o)
  <2>1. PICK o : Finish(p, o)
    BY <1>3
  <2> DEFINE s == [d EXCEPT !.pc = "record", !.outcome = o, !.base = FreshBudget]
  <2>2. Moves(p, s) /\ s.pc = "record"
    BY <1>2, <2>1, FinishMoves DEF Process
  <2> HIDE DEF s
  <2>3. ~Admitted(s)
    BY <2>2 DEF Admitted
  <2> QED BY <1>1, <2>2, <2>3, LimitsRest
<1>4. CASE ~\E o : Finish(p, o)
  <2>1. Moves(p, r) /\ ~Defers(base, d.act, d.now)
    <3>1. LET external == p = "daemon" \/ ExternalPublishing
          IN  execute_outbound_action(control, base, d.act, d.now, external) = "allow"
              /\ Moves(p, r)
      BY <1>4 DEF attempt_outbound_action, Moves, Typed, TypeOK
    <3>2. ~Defers(base, d.act, d.now)
      BY <3>1 DEF execute_outbound_action
    <3> QED BY <3>1, <3>2
  <2>2. r.pc = "resolve" /\ r.base = base /\ r.now = d.now /\ r.act = d.act
    BY <1>2 DEF Process
  <2>3. proc'[p] = r /\ \A q \in Procs \ {p} : proc'[q] = proc[q]
    BY <2>1, MovesTo
  <2>4. /\ charged \in Seq([act : Actions, at : Time]) /\ Len(charged) \in Nat
        /\ budget \in BudgetsOf(Len(charged))
    BY BudgetIs DEF Typed, TypeOK
  <2>5. budget.last \in Int /\ d.now \in Int
    <3>1. budget.last \in Time \union {NoTime}
      BY <2>4 DEF BudgetsOf
    <3>2. \A x \in Time \union {NoTime} : x \in Int
      BY Constants
    <3> QED BY <1>2, <3>1, <3>2
  <2>6. base.last = budget.last
    BY <2>4, <2>5, PruneKeeps
  <2> HIDE DEF r, base
  <2>7. ASSUME ~raced PROVE ReadyOf(r, charged)
    <3>1. Recalls(charged, budget, budget.last) /\ InOrder(charged)
      BY <2>7 DEF Limits
    <3>2. Recalls(charged, base, LargerOf(d.now, budget.last))
      BY <2>4, <2>5, <3>1, RecallsPruned DEF base
    <3>3. Recalls(charged, r.base, AdmissionTime(r.base, r.now))
      BY <2>2, <2>6, <3>2 DEF AdmissionTime
    <3> QED BY <2>1, <2>2, <3>3 DEF ReadyOf
  <2>8. ASSUME ~raced', NEW q \in Procs PROVE ReadyOf(proc'[q], charged')
    <3>1. CASE q = p
      BY <1>1, <2>3, <2>7, <2>8, <3>1
    <3>2. CASE q # p
      BY <1>1, <2>3, <2>8, <3>2 DEF Limits
    <3> QED BY <3>1, <3>2
  <2>9. ASSUME ~raced'
        PROVE  Recalls(charged, budget, budget.last)' /\ InOrder(charged)' /\ Spaced(charged)'
    <3>1. Recalls(charged, budget, budget.last) /\ InOrder(charged) /\ Spaced(charged)
      BY <1>1, <2>9 DEF Limits
    <3> QED BY <1>1, <3>1 DEF Recalls, InOrder, Spaced
  <2> QED BY <2>8, <2>9 DEF Limits
<1> QED BY <1>3, <1>4

LEMMA ChargeLimits ==
    ASSUME Typed, Accounts, Limits, NEW p \in Procs, save_outbound_budget_state(p)
    PROVE  Limits'
<1> DEFINE d == proc[p]
           s == [d EXCEPT !.pc = "record", !.outcome = "executed", !.base = FreshBudget]
           at == AdmissionTime(d.base, d.now)
<1>1. /\ d.pc = "charge" /\ raced' = raced /\ Finish(p, "executed")
      /\ budget' = record_outbound_action(d.base, d.act, d.now)
      /\ charged' = Append(charged, [act |-> d.act, at |-> budget'.last])
  BY DEF save_outbound_budget_state, At
<1>2. d \in Process /\ d.now \in Time /\ d.base \in Budget /\ d.act \in Actions
  BY <1>1, ProcFields DEF ShapeOf, Attempt
<1>3. Moves(p, s) /\ s.pc = "record"
  BY <1>1, <1>2, FinishMoves DEF Process
<1>4. /\ charged \in Seq([act : Actions, at : Time]) /\ Len(charged) \in Nat
      /\ d.base \in BudgetsOf(Len(charged))
  BY <1>2, BudgetIs DEF Typed, TypeOK
<1>5. budget'.last = at
  BY <1>1, <1>2, <1>4, RecordType
<1> HIDE DEF s, at
<1>6. proc'[p] = s /\ (\A q \in Procs \ {p} : proc'[q] = proc[q]) /\ ~Admitted(s)
  BY <1>3, MovesTo DEF Admitted
<1> SUFFICES ASSUME ~raced'
             PROVE  /\ Recalls(charged, budget, budget.last)' /\ InOrder(charged)'
                    /\ Spaced(charged)' /\ \A q \in Procs : ReadyOf(proc'[q], charged')
  BY DEF Limits
<1>7. /\ Recalls(charged, d.base, AdmissionTime(d.base, d.now)) /\ ~Defers(d.base, d.act, d.now)
      /\ InOrder(charged) /\ Spaced(charged)
  BY <1>1 DEF Limits, ReadyOf, Admitted
<1>8. charged' = Append(charged, [act |-> d.act, at |-> at])
  BY <1>1, <1>5
<1>9. Recalls(charged', budget', at) /\ InOrder(charged')
  BY <1>1, <1>2, <1>4, <1>7, <1>8, RecallsRecord DEF at
<1>10. Spaced(charged')
  BY <1>2, <1>4, <1>7, <1>8, SpacedOneMore DEF at
<1>11. ASSUME NEW q \in Procs PROVE ReadyOf(proc'[q], charged')
  <2>1. CASE q = p
    BY <1>6, <2>1 DEF ReadyOf
  <2>2. CASE q # p
    <3>1. proc[q].pc \notin Attempt
      BY <1>1, <2>2, AttemptsAlone DEF Attempt
    <3> QED BY <1>6, <2>2, <3>1 DEF ReadyOf, Admitted, Attempt
  <2> QED BY <2>1, <2>2
<1>12. Recalls(charged, budget, budget.last)' /\ InOrder(charged)' /\ Spaced(charged)'
  BY <1>5, <1>9, <1>10 DEF Recalls, InOrder, Spaced
<1> QED BY <1>11, <1>12

LEMMA StepLimits ==
    ASSUME Typed, Accounts, Limits, NEW p \in Procs, Step(p)
    PROVE  Limits'
<1> DEFINE d == proc[p]
<1>1. d \in Process
  BY ProcFields
<1>2. CASE attempt_outbound_action(p) \/ save_outbound_budget_state(p)
  BY <1>2, GateLimits, ChargeLimits
<1>3. CASE SessionFails(p) \/ StateLockError(p) \/ Crash(p) \/ CrashInSpool(p)
  <2>1. Moves(p, Idle) /\ UNCHANGED <<charged, budget, raced>>
    BY <1>3 DEF SessionFails, StateLockError, Crash, CrashInSpool, Dies, Moves, files, history
  <2> QED BY <2>1, LimitsIdle
<1>9. ASSUME Finish(p, "failed"), UNCHANGED <<charged, budget, raced>>
      PROVE  Limits'
  <2> DEFINE s == [d EXCEPT !.pc = "record", !.outcome = "failed", !.base = FreshBudget]
  <2>2. Moves(p, s) /\ s.pc = "record"
    BY <1>1, <1>9, FinishMoves DEF Process
  <2> HIDE DEF s
  <2>3. ~Admitted(s)
    BY <2>2 DEF Admitted
  <2> QED BY <1>9, <2>2, <2>3, LimitsRest
<1>4. CASE ResolveFails(p) \/ put_record_fails(p)
  <2>1. Finish(p, "failed") /\ UNCHANGED <<charged, budget, raced>>
    BY <1>4 DEF ResolveFails, put_record_fails, files, history
  <2> QED BY <1>9, <2>1
<1>5. ASSUME NEW l, Goto(p, l), UNCHANGED <<charged, budget, raced>>,
             Admitted(d) \/ l \notin {"resolve", "put", "unspool", "charge"}
      PROVE  Limits'
  <2> DEFINE s == [d EXCEPT !.pc = l]
  <2>1. Moves(p, s)
    BY <1>5, GotoMoves
  <2>2. s.pc = l /\ s.base = d.base /\ s.now = d.now /\ s.act = d.act
    BY <1>1 DEF Process
  <2> HIDE DEF s
  <2>3. Admitted(s) => Admitted(d)
    BY <1>5, <2>2 DEF Admitted
  <2> QED BY <1>5, <2>1, <2>2, <2>3, LimitsRest
<1>6. CASE put_record(p) \/ spool_remove(p)
  <2>1. /\ \E l : Goto(p, l)
        /\ Admitted(d) /\ UNCHANGED <<charged, budget, raced>>
    BY <1>6 DEF put_record, spool_remove, files, history, At, Admitted
  <2> QED BY <1>5, <2>1
<1>7. CASE append_journal_action(p) \/ StateLockAcquired(p)
  <2>1. /\ Goto(p, "settle") \/ Goto(p, "gate")
        /\ UNCHANGED <<charged, budget, raced>>
    BY <1>7 DEF append_journal_action, StateLockAcquired, files, history
  <2> QED BY <1>5, <2>1
<1>8. CASE SpoolFirst(p)
  <2> DEFINE s == [d EXCEPT !.pc = "put", !.entry = NextSeq(pending)]
  <2>1. Admitted(d) /\ UNCHANGED <<charged, budget, raced>>
    BY <1>8 DEF SpoolFirst, history, At, Admitted
  <2>2. Goto(p, "put") \/ Moves(p, s) \/ Finish(p, "failed")
    BY <1>8 DEF SpoolFirst, Moves, Typed, TypeOK
  <2>3. s.base = d.base /\ s.now = d.now /\ s.act = d.act
    BY <1>1 DEF Process
  <2> HIDE DEF s
  <2> QED BY <1>5, <1>9, <2>1, <2>2, <2>3, LimitsRest
<1> QED BY <1>2, <1>3, <1>4, <1>6, <1>7, <1>8 DEF Step

LEMMA AroundLimits ==
    ASSUME Typed, Limits,
           \/ UNCHANGED vars \/ Edit \/ run_publish \/ PublishReturns \/ Cycle
    PROVE  Limits'
<1> DEFINE d == proc["daemon"]
<1>0. "daemon" \in Procs /\ "publish" \in Procs /\ d \in Process
  BY ProcFields DEF Procs
<1>1. (raced => raced') /\ UNCHANGED <<charged, budget>>
  <2>1. UNCHANGED <<charged, budget>>
    BY ZenonT(60) DEF vars, Edit, run_publish, PublishReturns, Cycle, run_scheduler_cycle,
           spool_drain, DrainSettles, Decide, NothingToExecute, Select, ExecutionSettles,
           save_breaker_state, files, history
  <2>2. CASE run_publish
    BY <2>1, <2>2, Zenon DEF run_publish
  <2>3. CASE run_scheduler_cycle
    BY <2>1, <2>3, Zenon DEF run_scheduler_cycle
  <2>4. CASE ~run_publish /\ ~run_scheduler_cycle
    <3>1. raced' = raced
      BY <2>4, ZenonT(60) DEF vars, Edit, PublishReturns, Cycle, spool_drain, DrainSettles, Decide,
             NothingToExecute, Select, ExecutionSettles, save_breaker_state, files, history
    <3> QED BY <2>1, <3>1
  <2> QED BY <2>2, <2>3, <2>4
<1>2. ASSUME NEW p \in Procs, NEW r, Moves(p, r),
             r.pc \in {"idle", "drain", "decide", "select", "lock", "gate", "close"}
      PROVE  Limits'
  BY <1>1, <1>2, LimitsRest DEF Admitted
<1>3. CASE UNCHANGED vars \/ Edit
  <2>1. Moves("daemon", d)
    BY <1>0, <1>3 DEF vars, Edit, Moves, Typed, TypeOK
  <2> QED BY <1>0, <1>1, <2>1, LimitsRest
<1>4. CASE run_publish
  <2>1. PICK a \in Actions \ Proposed :
          Moves("publish", [Idle EXCEPT !.pc = "lock", !.now = clock', !.act = a, !.via = "file"])
    BY <1>4 DEF run_publish, Moves
  <2>2. [Idle EXCEPT !.pc = "lock", !.now = clock', !.act = a, !.via = "file"].pc = "lock"
    BY DEF Idle
  <2> QED BY <1>0, <1>2, <2>1, <2>2
<1>5. CASE PublishReturns \/ NothingToExecute \/ save_breaker_state
  <2>1. \E p \in Procs : Moves(p, Idle)
    BY <1>0, <1>5 DEF PublishReturns, NothingToExecute, save_breaker_state, Moves
  <2> QED BY <1>1, <2>1, LimitsIdle
<1>6. CASE run_scheduler_cycle \/ DrainSettles
  <2>1. \E t : LET r == [Idle EXCEPT !.pc = "drain", !.now = t[1], !.todo = t[2]]
               IN  Moves("daemon", r)
    <3>1. CASE run_scheduler_cycle
      <4> DEFINE todo == IF control.offline_mode THEN <<>> ELSE pending
      <4>1. Moves("daemon", [Idle EXCEPT !.pc = "drain", !.now = clock', !.todo = todo])
        BY <3>1 DEF run_scheduler_cycle, Moves
      <4>2. <<clock', todo>>[1] = clock' /\ <<clock', todo>>[2] = todo
        OBVIOUS
      <4> HIDE DEF todo
      <4> QED BY <4>1, <4>2
    <3>2. CASE DrainSettles
      <4> DEFINE todo == IF d.outcome = "failed" THEN <<>> ELSE d.todo
      <4>1. Moves("daemon", [Idle EXCEPT !.pc = "drain", !.now = d.now, !.todo = todo])
        BY <3>2 DEF DrainSettles, Moves
      <4>2. <<d.now, todo>>[1] = d.now /\ <<d.now, todo>>[2] = todo
        OBVIOUS
      <4> HIDE DEF todo
      <4> QED BY <4>1, <4>2
    <3> QED BY <1>6, <3>1, <3>2
  <2>2. \A t : [Idle EXCEPT !.pc = "drain", !.now = t[1], !.todo = t[2]].pc = "drain"
    BY DEF Idle
  <2> QED BY <1>0, <1>2, <2>1, <2>2
<1>7. CASE spool_drain
  <2>1. CASE Goto("daemon", "decide")
    <3>1. Moves("daemon", [d EXCEPT !.pc = "decide"]) /\ [d EXCEPT !.pc = "decide"].pc = "decide"
      BY <1>0, <2>1, GotoMoves DEF Process
    <3> QED BY <1>0, <1>2, <3>1
  <2>2. CASE ~Goto("daemon", "decide")
    <3>1. PICK n \in DOMAIN d.todo :
            proc' = [proc EXCEPT !["daemon"] =
                        [@ EXCEPT !.pc = "gate", !.via = "drain", !.act = d.todo[n],
                                  !.entry = n, !.todo = Without(d.todo, n)]]
      BY <1>7, <2>2 DEF spool_drain
    <3> DEFINE r == [d EXCEPT !.pc = "gate", !.via = "drain", !.act = d.todo[n],
                              !.entry = n, !.todo = Without(d.todo, n)]
    <3>2. Moves("daemon", r)
      BY <1>0, <3>1 DEF Moves, Typed, TypeOK
    <3>3. r.pc = "gate"
      BY <1>0 DEF Process
    <3> HIDE DEF r
    <3> QED BY <1>0, <1>2, <3>2, <3>3
  <2> QED BY <2>1, <2>2
<1>8. CASE Decide
  <2> DEFINE r == [d EXCEPT !.pc = "select", !.approvals = control.approved]
  <2>1. Moves("daemon", r) /\ r.pc = "select"
    BY <1>0, <1>8 DEF Decide, Moves, Typed, TypeOK, Process
  <2> HIDE DEF r
  <2> QED BY <1>0, <1>2, <2>1
<1>9. CASE Select
  <2>1. PICK a \in Candidates :
          proc' = [proc EXCEPT !["daemon"] =
                    [@ EXCEPT !.pc = "lock", !.act = a, !.via = "proposal",
                              !.brk = retain_proposals(breaker, proposals)]]
    BY <1>9 DEF Select
  <2> DEFINE r == [d EXCEPT !.pc = "lock", !.act = a, !.via = "proposal",
                            !.brk = retain_proposals(breaker, proposals)]
  <2>2. Moves("daemon", r) /\ r.pc = "lock"
    BY <1>0, <2>1 DEF Moves, Typed, TypeOK, Process
  <2> HIDE DEF r
  <2> QED BY <1>0, <1>2, <2>2
<1>10. CASE ExecutionSettles
  <2>1. ASSUME NEW b, proc' = [proc EXCEPT !["daemon"].pc = "close", !["daemon"].brk = b]
        PROVE  Limits'
    <3> DEFINE r == [d EXCEPT !.pc = "close", !.brk = b]
    <3>1. Moves("daemon", r) /\ r.pc = "close"
      BY <1>0, <2>1 DEF Moves, Typed, TypeOK, Process
    <3> HIDE DEF r
    <3> QED BY <1>0, <1>2, <3>1
  <2>2. \/ \E b : proc' = [proc EXCEPT !["daemon"].pc = "close", !["daemon"].brk = b]
        \/ Moves("daemon", Idle)
    BY <1>10 DEF ExecutionSettles, Moves
  <2> QED BY <1>0, <1>1, <2>1, <2>2, LimitsIdle
<1> QED BY <1>3, <1>4, <1>5, <1>6, <1>7, <1>8, <1>9, <1>10 DEF Cycle

LEMMA LimitsInit == Init => Limits
<1> SUFFICES ASSUME Init PROVE Limits
  OBVIOUS
<1>1. charged = <<>> /\ Len(charged) = 0 /\ budget = FreshBudget
  BY DEF Init
<1>2. /\ FreshBudget.count = 0 /\ FreshBudget.last = NoTime /\ FreshBudget.recent = <<>>
      /\ FreshBudget.dups = <<>> /\ NoTime = -1
  BY DEF FreshBudget, NoTime
<1>3. DOMAIN budget.recent = {} /\ DOMAIN budget.dups = {}
  BY <1>1, <1>2
<1>4. Recalls(charged, budget, budget.last)
  BY <1>1, <1>2, <1>3 DEF Recalls
<1>5. InOrder(charged) /\ Spaced(charged)
  BY <1>1, Constants DEF InOrder, Spaced
<1>6. \A p \in Procs : ReadyOf(proc[p], charged)
  BY DEF Init, Idle, ReadyOf, Admitted
<1> QED BY <1>4, <1>5, <1>6 DEF Limits

LEMMA LimitsNext == Typed /\ Accounts /\ Limits /\ [Next]_vars => Limits'
<1> SUFFICES ASSUME Typed, Accounts, Limits, [Next]_vars PROVE Limits'
  OBVIOUS
<1>1. CASE UNCHANGED vars \/ Edit \/ run_publish \/ PublishReturns \/ Cycle
  BY <1>1, AroundLimits
<1>2. ASSUME NEW p \in Procs, Step(p) PROVE Limits'
  BY <1>2, StepLimits
<1> QED BY <1>1, <1>2 DEF Next

\* The operator's limits hold of what the budget file admitted, for any limits, any
\* number of admissions and however the attempts interleave and crash, as long as
\* no drain overlaps with a publish (evaluate.cpp:43-66, budget.cpp, publish.cpp).
THEOREM AdmissionsLimited == Spec => []AdmissionsAreLimited
<1>1. Limits => AdmissionsAreLimited
  BY DEF Limits, Spaced, AdmissionsAreLimited, RateLimit, AdmissionsAreSpaced
<1> QED BY <1>1, TypedInit, TypedNext, AccountsInit, AccountsNext, LimitsInit, LimitsNext, PTL
       DEF Spec

-----------------------------------------------------------------------------
(* The spool.                                                              *)

\* What may become of the entries of pending/ in a step.
EntriesKept ==
    ~raced' => \A n \in DOMAIN pending :
                  \/ n \in DOMAIN pending' /\ pending'[n] = pending[n]
                  \/ pending[n] \in network' \union Range(denied')

LEMMA EntriesStep == Typed /\ Accounts /\ [Next]_vars => EntriesKept
<1> SUFFICES ASSUME Typed, Accounts, [Next]_vars, ~raced' PROVE EntriesKept
  BY DEF EntriesKept
<1>0. "daemon" \in Procs /\ pending \in Spools
  BY DEF Procs, Typed, TypeOK
<1>1. CASE pending' = pending
  BY <1>1 DEF EntriesKept
<1>2. ASSUME NEW p \in Procs, pending' # pending,
             attempt_outbound_action(p) \/ SpoolFirst(p) \/ CrashInSpool(p)
      PROVE  EntriesKept
  <2>1. pending' = spool_append(pending, proc[p].act)
    BY <1>2 DEF attempt_outbound_action, SpoolFirst, CrashInSpool
  <2>2. proc[p].act \in Actions
    BY <1>2, ProcFields, CrashInSpoolFinds
       DEF attempt_outbound_action, SpoolFirst, At, ShapeOf, Attempt
  <2>3. \A n \in DOMAIN pending : n \in DOMAIN pending' /\ pending'[n] = pending[n]
    BY <1>0, <2>1, <2>2, Appended
  <2> QED BY <2>3 DEF EntriesKept
<1>3. ASSUME NEW p \in Procs, spool_remove(p) PROVE EntriesKept
  <2>1. /\ proc[p].pc = "unspool" /\ pending' = Without(pending, proc[p].entry)
        /\ network' = network /\ raced' = raced
    BY <1>3 DEF spool_remove, At, history
  <2>2. proc[p].via # "drain"
    BY <2>1, ProcFields DEF ShapeOf, Attempt
  <2>3. proc[p].act \in network /\ pending[proc[p].entry] = proc[p].act
    BY <2>1, <2>2 DEF Accounts, Truth, TrueOf, Kept, KeptOf
  <2>4. /\ DOMAIN pending' = DOMAIN pending \ {proc[p].entry}
        /\ \A n \in DOMAIN pending \ {proc[p].entry} : pending'[n] = pending[n]
    <3> DEFINE e == proc[p].entry
    <3>1. pending' = Without(pending, e)
      BY <2>1
    <3> HIDE DEF e
    <3>2. /\ DOMAIN pending' = DOMAIN pending \ {e}
          /\ \A n \in DOMAIN pending \ {e} : pending'[n] = pending[n]
      BY <1>0, <3>1, Removed
    <3> QED BY <3>2 DEF e
  <2> QED BY <2>1, <2>3, <2>4 DEF EntriesKept
<1>4. ASSUME DrainSettles, pending' # pending PROVE EntriesKept
  <2> DEFINE d == proc["daemon"]
  <2>1. /\ d.pc = "settle" /\ d.via = "drain" /\ pending' = Without(pending, d.entry)
        /\ d.outcome \in {"executed", "denied"} /\ network' = network /\ raced' = raced
        /\ d.outcome = "denied" => denied' = With(denied, d.entry, pending[d.entry])
    BY <1>4 DEF DrainSettles, At
  <2>2. pending[d.entry] = d.act /\ (d.outcome = "executed" => d.act \in network)
    BY <1>0, <2>1 DEF Accounts, Truth, TrueOf, Kept, KeptOf
  <2>3. /\ DOMAIN pending' = DOMAIN pending \ {d.entry}
        /\ \A n \in DOMAIN pending \ {d.entry} : pending'[n] = pending[n]
    <3> DEFINE e == d.entry
    <3>1. pending' = Without(pending, e)
      BY <2>1
    <3> HIDE DEF e
    <3>2. /\ DOMAIN pending' = DOMAIN pending \ {e}
          /\ \A n \in DOMAIN pending \ {e} : pending'[n] = pending[n]
      BY <1>0, <3>1, Removed
    <3> QED BY <3>2 DEF e
  <2>4. d.outcome = "denied" => pending[d.entry] \in Range(denied')
    BY <2>1 DEF With, Range
  <2> QED BY <2>1, <2>2, <2>3, <2>4 DEF EntriesKept
<1>5. CASE Edit \/ run_publish \/ PublishReturns \/ UNCHANGED vars
  BY <1>1, <1>5 DEF Edit, run_publish, PublishReturns, vars, files
<1>6. CASE Cycle
  BY <1>1, <1>4, <1>6, ZenonT(60) DEF Cycle, run_scheduler_cycle, spool_drain, Decide, NothingToExecute,
     Select, ExecutionSettles, save_breaker_state, files
<1>7. ASSUME NEW p \in Procs, Step(p) PROVE EntriesKept
  BY <1>1, <1>2, <1>3, <1>7 DEF Step, SessionFails, ResolveFails, put_record, put_record_fails,
     save_outbound_budget_state, append_journal_action, StateLockAcquired, StateLockError, Crash,
     files
<1> QED BY <1>5, <1>6, <1>7 DEF Next

\* A spooled action leaves pending/ only once its record is on the network or it is
\* in denied/, whatever fails or crashes (spool.cpp:170-180, 208-243).
THEOREM SpoolIsKept == Spec => SpoolKeepsUnpublished
<1>1. Typed /\ Accounts /\ [Next]_vars =>
        [~raced' => \A n \in DOMAIN pending :
                      \/ n \in DOMAIN pending' /\ pending'[n] = pending[n]
                      \/ pending[n] \in network' \union Range(denied')]_vars
  BY EntriesStep DEF EntriesKept
<1> QED BY <1>1, TypedInit, TypedNext, AccountsInit, AccountsNext, PTL
       DEF Spec, SpoolKeepsUnpublished
=============================================================================
