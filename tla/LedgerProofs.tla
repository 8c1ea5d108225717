---------------------------- MODULE LedgerProofs ----------------------------
(***************************************************************************)
(* Proofs about Ledger, for every set of keys, every bound and every       *)
(* length of log: the type invariant, and that a ledger hit by crashes     *)
(* (and by I/O failures outside the withdrawal loop) reopens with exactly  *)
(* what was acknowledged.                                                  *)
(***************************************************************************)
EXTENDS Ledger, FiniteSetTheorems, SequenceTheorems, WellFoundedInduction, TLAPS

-----------------------------------------------------------------------------
(* Lemmas about the operators the specification is built from.             *)

\* Every record has a positive length, at most four units.
LEMMA RecordLenType ==
    ASSUME NEW r \in Record
    PROVE  RecordLen(r) \in 1..(MetaUnits + 1) /\ RecordLen(r) > 1
BY DEF RecordLen, Record, EntryRecord, PatchRecord, PatchUnits, MetaUnits, TextUnits

\* Building and changing extents and entries.
LEMMA ExtentType ==
    /\ \A r \in Record, a \in Nat, n \in Nat \ {0} :
        [rec |-> r, at |-> a, len |-> n] \in Extent
    /\ \A x \in Extent, c \in Nat \ {0} :
        /\ [x EXCEPT !.len = c] \in Extent
        /\ [x EXCEPT !.len = c].rec = x.rec
        /\ [x EXCEPT !.len = c].at = x.at
        /\ [x EXCEPT !.len = c].len = c
    /\ \A x \in Extent : x.rec \in Record /\ x.at \in Nat /\ x.len \in Nat \ {0}
BY DEF Extent

LEMMA EntryType ==
    /\ \A e \in Entry, o \in Outcomes : [e EXCEPT !.outcome = o] \in Entry
    /\ \A e \in Entry, p \in Payloads :
        /\ [e EXCEPT !.payload = p] \in Entry
        /\ [e EXCEPT !.payload = p].key = e.key
        /\ [e EXCEPT !.payload = p].outcome = e.outcome
        /\ [e EXCEPT !.payload = p].payload = p
    /\ \A e \in Entry : e.key \in Keys /\ e.outcome \in Outcomes /\ e.payload \in Payloads
BY DEF Entry

\* The size of a log is a number.
LEMMA FileSizeType ==
    ASSUME NEW l \in Seq(Extent)
    PROVE  FileSize(l) \in Nat
<1>1. CASE l = <<>>
  BY <1>1 DEF FileSize
<1>2. CASE l # <<>>
  <2>1. Len(l) \in 1..Len(l)
    BY <1>2
  <2>2. l[Len(l)] \in Extent
    BY <2>1
  <2> QED BY <1>2, <2>2 DEF FileSize, Extent
<1> QED BY <1>1, <1>2

\* Writing a record keeps the log a sequence of extents.
LEMMA WrittenType ==
    ASSUME NEW l \in Seq(Extent), NEW r \in Record
    PROVE  /\ Written(l, r) \in Seq(Extent)
           /\ Len(Written(l, r)) = Len(l) + 1
<1>1. [rec |-> r, at |-> FileSize(l), len |-> RecordLen(r)] \in Extent
  <2>1. FileSize(l) \in Nat
    BY FileSizeType
  <2>2. RecordLen(r) \in Nat \ {0}
    BY RecordLenType DEF MetaUnits
  <2> QED BY <2>1, <2>2, ExtentType
<1> QED BY <1>1 DEF Written

\* Cutting the tail of a log leaves a log.
LEMMA CutTailType ==
    ASSUME NEW l \in Seq(Extent), NEW n \in 0..Len(l), NEW c \in Nat \ {0}
    PROVE  /\ CutTail(l, n, c) \in Seq(Extent)
           /\ Len(CutTail(l, n, c)) = n
           /\ \A i \in 1..n : /\ i < n => CutTail(l, n, c)[i] = l[i]
                              /\ CutTail(l, n, c)[i].at = l[i].at
                              /\ i = n => CutTail(l, n, c)[i].len = c
                              /\ i = n /\ l[i].len = c => CutTail(l, n, c)[i] = l[i]
<1>1. CASE n = 0
  BY <1>1 DEF CutTail
<1>2. CASE n # 0
  <2> DEFINE p == SubSeq(l, 1, n)
  <2>1. p \in Seq(Extent) /\ Len(p) = n /\ \A i \in 1..n : p[i] = l[i]
    BY <1>2
  <2>2. [p[n] EXCEPT !.len = c] \in Extent
    <3>1. p[n] \in Extent
      BY <1>2, <2>1
    <3> QED BY <3>1, ExtentType
  <2>3. CutTail(l, n, c) = [p EXCEPT ![n] = [p[n] EXCEPT !.len = c]]
    BY <1>2 DEF CutTail
  <2> HIDE DEF p
  <2>4. /\ CutTail(l, n, c) \in Seq(Extent) /\ Len(CutTail(l, n, c)) = n
        /\ \A i \in 1..n : i # n => CutTail(l, n, c)[i] = l[i]
        /\ CutTail(l, n, c)[n] = [l[n] EXCEPT !.len = c]
    BY <1>2, <2>1, <2>2, <2>3
  <2>5. l[n] \in Extent
    BY <1>2
  <2>6. /\ [l[n] EXCEPT !.len = c].at = l[n].at /\ [l[n] EXCEPT !.len = c].len = c
        /\ l[n].len = c => [l[n] EXCEPT !.len = c] = l[n]
    BY <2>5 DEF Extent
  <2>7. ASSUME NEW i \in 1..n
        PROVE  /\ i < n => CutTail(l, n, c)[i] = l[i]
               /\ CutTail(l, n, c)[i].at = l[i].at
               /\ i = n => CutTail(l, n, c)[i].len = c
               /\ i = n /\ l[i].len = c => CutTail(l, n, c)[i] = l[i]
    <3>1. CASE i = n
      <4> DEFINE y == CutTail(l, n, c)[n]
                 z == [l[n] EXCEPT !.len = c]
      <4>1. y = z
        BY <2>4
      <4>2. z.at = l[n].at /\ z.len = c /\ (l[n].len = c => z = l[n])
        BY <2>6
      <4> HIDE DEF z
      <4>3. y.at = l[n].at /\ y.len = c /\ (l[n].len = c => y = l[n])
        BY <4>1, <4>2
      <4> QED BY <3>1, <4>3
    <3>2. CASE i # n
      BY <2>4, <3>2
    <3> QED BY <3>1, <3>2
  <2> QED BY <2>4, <2>7
<1> QED BY <1>1, <1>2

\* A record applied to entries yields entries.
LEMMA AppliedType ==
    ASSUME NEW m \in Seq(Entry), NEW r \in Record, Acceptable(m, r)
    PROVE  Applied(m, r) \in Seq(Entry)
<1>1. CASE r.type = "entry"
  <2>1. r.entry \in Entry
    BY <1>1 DEF Record, EntryRecord, PatchRecord
  <2> QED BY <1>1, <2>1 DEF Applied
<1>2. CASE r.type # "entry"
  <2>1. r.id \in DOMAIN m /\ r.outcome \in Outcomes
    BY <1>2 DEF Acceptable, Record, EntryRecord, PatchRecord
  <2>2. [m[r.id] EXCEPT !.outcome = r.outcome] \in Entry
    <3>1. m[r.id] \in Entry
      BY <2>1
    <3> QED BY <2>1, <3>1, EntryType
  <2> QED BY <1>2, <2>1, <2>2 DEF Applied
<1> QED BY <1>1, <1>2

\* Compaction changes nothing of an entry but its payload.
LEMMA CompactedType ==
    ASSUME NEW m \in Seq(Entry), NEW need
    PROVE  /\ Compacted(m, need) \in Seq(Entry)
           /\ DOMAIN Compacted(m, need) = DOMAIN m
           /\ Len(Compacted(m, need)) = Len(m)
           /\ \A i \in DOMAIN m :
                /\ Compacted(m, need)[i].key = m[i].key
                /\ Compacted(m, need)[i].outcome = m[i].outcome
<1> DEFINE x == Compacted(m, need)
<1>1. DOMAIN x = 1..Len(m)
  BY DEF Compacted
<1>2. ASSUME NEW i \in 1..Len(m)
      PROVE  x[i] \in Entry /\ x[i].key = m[i].key /\ x[i].outcome = m[i].outcome
  <2>1. PICK p \in Payloads : x[i] = [m[i] EXCEPT !.payload = p]
    <3> DEFINE q == IF i \in Released(m, need) THEN "released"
                    ELSE IF m[i].outcome = "withdrawn" /\ m[i].payload = "text" THEN "none"
                    ELSE m[i].payload
    <3>1. m[i] \in Entry
      OBVIOUS
    <3>2. q \in Payloads
      BY <3>1, EntryType DEF Payloads
    <3>3. x[i] = [m[i] EXCEPT !.payload = q]
      BY DEF Compacted
    <3> QED BY <3>2, <3>3
  <2>2. m[i] \in Entry
    OBVIOUS
  <2> QED BY <2>1, <2>2, EntryType
<1>3. x \in Seq(Entry) /\ Len(x) = Len(m)
  BY <1>1, <1>2 DEF Compacted
<1> HIDE DEF x
<1> QED BY <1>1, <1>2, <1>3 DEF x

\* One more entry raises the number of texts by its own; more entries never
\* lower it.
LEMMA TextsCount ==
    ASSUME NEW m \in Seq(Entry)
    PROVE  /\ \A n \in Nat : Texts(m, n) \in Nat
           /\ \A n \in Nat \ {0} : Texts(m, n) = Texts(m, n - 1) + TextUnits(m[n])
           /\ \A n \in Nat : \A k \in 0..n : Texts(m, k) <= Texts(m, n)
<1> DEFINE T(k) == {j \in 1..k : m[j].payload = "text"}
<1>1. ASSUME NEW k \in Nat
      PROVE  IsFiniteSet(T(k)) /\ Cardinality(T(k)) \in Nat
  <2>1. IsFiniteSet(1..k)
    BY FS_Interval
  <2>2. T(k) \subseteq 1..k
    OBVIOUS
  <2>3. IsFiniteSet(T(k))
    BY <2>1, <2>2, FS_Subset
  <2> QED BY <2>3, FS_CardinalityType
<1>2. ASSUME NEW n \in Nat \ {0}
      PROVE  Texts(m, n) = Texts(m, n - 1) + TextUnits(m[n])
  <2>1. IsFiniteSet(T(n - 1)) /\ Cardinality(T(n - 1)) \in Nat
    BY <1>1, n - 1 \in Nat
  <2>2. CASE m[n].payload = "text"
    <3> DEFINE U == T(n - 1)
               V == T(n)
    <3>1. V = U \cup {n} /\ n \notin U /\ IsFiniteSet(U) /\ Cardinality(U) \in Nat
      BY <2>1, <2>2
    <3>2. Texts(m, n) = Cardinality(V) /\ Texts(m, n - 1) = Cardinality(U)
      BY DEF Texts
    <3>3. TextUnits(m[n]) = 1
      BY <2>2 DEF TextUnits
    <3> HIDE DEF U, V
    <3>4. Cardinality(U \cup {n}) = IF n \in U THEN Cardinality(U) ELSE Cardinality(U) + 1
      BY <3>1, FS_AddElement
    <3>5. Cardinality(V) = Cardinality(U) + 1
      BY <3>1, <3>4
    <3> QED BY <3>1, <3>2, <3>3, <3>5
  <2>3. CASE m[n].payload # "text"
    <3> DEFINE U == T(n - 1)
               V == T(n)
    <3>1. V = U /\ Cardinality(U) \in Nat
      BY <2>1, <2>3
    <3>2. Texts(m, n) = Cardinality(V) /\ Texts(m, n - 1) = Cardinality(U)
      BY DEF Texts
    <3>3. TextUnits(m[n]) = 0
      BY <2>3 DEF TextUnits
    <3> HIDE DEF U, V
    <3> QED BY <3>1, <3>2, <3>3
  <2> QED BY <2>2, <2>3
<1>3. ASSUME NEW n \in Nat, NEW k \in 0..n
      PROVE  Texts(m, k) <= Texts(m, n)
  <2>1. T(k) \subseteq T(n) /\ IsFiniteSet(T(n))
    BY <1>1
  <2>2. Cardinality(T(k)) <= Cardinality(T(n))
    BY <2>1, FS_Subset
  <2> QED BY <2>2 DEF Texts
<1>4. \A n \in Nat : Texts(m, n) \in Nat
  BY <1>1 DEF Texts
<1> QED BY <1>2, <1>3, <1>4

\* The flattened log is well formed: whole extents that do not overlap.
LEMMA FlattenedType ==
    ASSUME NEW m \in Seq(Entry)
    PROVE  /\ Flattened(m) \in Seq(Extent)
           /\ Len(Flattened(m)) = Len(m)
           /\ \A i \in 1..Len(m) : /\ Flattened(m)[i].rec = EntryRec(i, m[i])
                                   /\ Flattened(m)[i].len = RecordLen(EntryRec(i, m[i]))
           /\ \A i, j \in 1..Len(m) : i < j =>
                Flattened(m)[i].at + Flattened(m)[i].len <= Flattened(m)[j].at
<1> DEFINE x == Flattened(m)
<1>1. ASSUME NEW i \in 1..Len(m)
      PROVE  /\ EntryRec(i, m[i]) \in Record
             /\ x[i].rec = EntryRec(i, m[i])
             /\ x[i].at = 3 * (i - 1) + Texts(m, i - 1)
             /\ x[i].len = RecordLen(EntryRec(i, m[i]))
             /\ x[i].len = 3 + TextUnits(m[i])
             /\ x[i] \in Extent
  <2>1. m[i] \in Entry
    OBVIOUS
  <2>2. EntryRec(i, m[i]) \in Record
    BY <2>1 DEF EntryRec, Record, EntryRecord
  <2>3. x[i] = [rec |-> EntryRec(i, m[i]), at |-> 3 * (i - 1) + Texts(m, i - 1),
                len |-> RecordLen(EntryRec(i, m[i]))]
    BY DEF Flattened, MetaUnits
  <2>4. RecordLen(EntryRec(i, m[i])) = 3 + TextUnits(m[i])
    BY DEF RecordLen, EntryRec, MetaUnits
  <2>5. TextUnits(m[i]) \in 0..1
    BY DEF TextUnits
  <2>6. Texts(m, i - 1) \in Nat
    BY TextsCount, i - 1 \in Nat
  <2>7. 3 * (i - 1) + Texts(m, i - 1) \in Nat /\ RecordLen(EntryRec(i, m[i])) \in Nat \ {0}
    BY <2>4, <2>5, <2>6
  <2> HIDE DEF x
  <2> QED BY <2>2, <2>3, <2>4, <2>7, ExtentType
<1>2. x \in Seq(Extent) /\ Len(x) = Len(m)
  <2>1. DOMAIN x = 1..Len(m)
    BY DEF Flattened
  <2> QED BY <1>1, <2>1 DEF Flattened
<1>3. ASSUME NEW i \in 1..Len(m), NEW j \in 1..Len(m), i < j
      PROVE  x[i].at + x[i].len <= x[j].at
  <2>1. /\ x[i].at = 3 * (i - 1) + Texts(m, i - 1)
        /\ x[i].len = 3 + TextUnits(m[i])
        /\ x[j].at = 3 * (j - 1) + Texts(m, j - 1)
    BY <1>1
  <2>2. Texts(m, i) = Texts(m, i - 1) + TextUnits(m[i])
    BY TextsCount
  <2>3. Texts(m, i) <= Texts(m, j - 1)
    <3>1. i \in 0..(j - 1) /\ j - 1 \in Nat
      BY <1>3
    <3> QED BY <3>1, TextsCount
  <2>4. Texts(m, i - 1) \in Nat /\ Texts(m, i) \in Nat /\ Texts(m, j - 1) \in Nat
    <3>1. i - 1 \in Nat /\ i \in Nat /\ j - 1 \in Nat
      OBVIOUS
    <3>2. \A k \in Nat : Texts(m, k) \in Nat
      BY TextsCount
    <3> QED BY ONLY <3>1, <3>2
  <2>5. TextUnits(m[i]) \in 0..1
    BY DEF TextUnits
  <2> HIDE DEF x
  <2> QED BY <1>3, <2>1, <2>2, <2>3, <2>4, <2>5
<1> HIDE DEF x
<1> QED BY <1>1, <1>2, <1>3 DEF x
-----------------------------------------------------------------------------
(* The type invariant, with faults and damage allowed.                     *)

\* What types alone do not say: the recovery position stays inside the log,
\* and a record being committed is the last one written.
TypeInv ==
    /\ TypeOK
    /\ pc = "recover" => pos <= Len(log) + 1
    /\ pc \in {"sync", "publish"} =>
        /\ pending \in Record /\ Acceptable(mem, pending)
        /\ Len(log) > 0

\* A commit started from typed variables leaves them typed.
LEMMA StartCommitType ==
    ASSUME log \in Seq(Extent), NEW r \in Record, StartCommit(r)
    PROVE  log' \in Seq(Extent) /\ Len(log') > 0 /\ pending' = r /\ pc' = "sync"
BY WrittenType DEF StartCommit

\* The variables a process loses with its memory are typed afterwards.
LEMMA ForgetType ==
    ASSUME Forget
    PROVE  /\ mem' \in Seq(Entry) /\ offset' \in Nat /\ pending' \in Record \cup {NoRecord}
           /\ pos' \in Nat \ {0} /\ fence' \in Nat
           /\ sweep' \in [sel : Selectors, next : Nat] \cup {NoSweep}
           /\ staged' \in Seq(Extent)
BY DEF Forget

LEMMA TypeInvInit == Init => TypeInv
<1> SUFFICES ASSUME Init PROVE TypeInv
  OBVIOUS
<1>1. /\ log \in Seq(Extent) /\ staged \in Seq(Extent)
      /\ mem \in Seq(Entry) /\ acked \in Seq(Entry)
  BY DEF Init
<1>2. marker \in Marker /\ synced \in Nat /\ offset \in Nat /\ fence \in Nat /\ pos \in Nat \ {0}
  BY DEF Init, Marker
<1>3. sweep \in [sel : Selectors, next : Nat] \cup {NoSweep} /\ pending \in Record \cup {NoRecord}
  BY DEF Init
<1>4. unfenced \in BOOLEAN /\ pc = "closed"
  BY DEF Init
<1> QED BY <1>1, <1>2, <1>3, <1>4 DEF TypeInv, TypeOK

LEMMA TypeInvNext == TypeInv /\ [Next]_vars => TypeInv'
<1> SUFFICES ASSUME TypeInv, [Next]_vars PROVE TypeInv'
  OBVIOUS
<1> USE DEF TypeInv, TypeOK
<1>1. CASE OpenRefused
  BY <1>1, ForgetType DEF OpenRefused
<1>2. CASE Open
  <2>1. FileSize(log) \in Nat
    BY FileSizeType
  <2>2. fence' \in Nat
    BY <1>2, <2>1 DEF Open, Marker, NoMarker
  <2> QED BY <1>2, <2>2 DEF Open
<1>3. CASE RecoverRecord
  <2>1. log[pos] \in Extent
    BY <1>3 DEF RecoverRecord, MoreToRecover
  <2>2. log[pos].rec \in Record
    BY <2>1, ExtentType
  <2>3. mem' \in Seq(Entry)
    BY <1>3, <2>2, AppliedType DEF RecoverRecord, ValidAt
  <2> QED BY <1>3, <2>3 DEF RecoverRecord, MoreToRecover
<1>4. CASE RecoverHeal
  <2>1. log[pos] \in Extent
    BY <1>4 DEF RecoverHeal, MoreToRecover
  <2>2. fence' \in Nat
    BY <1>4, <2>1, ExtentType DEF RecoverHeal
  <2> QED BY <1>4, <2>2 DEF RecoverHeal
<1>5. CASE RecoverRefused
  BY <1>5, ForgetType DEF RecoverRefused
<1>6. CASE RecoverDone
  <2>1. log' \in Seq(Extent)
    BY <1>6 DEF RecoverDone
  <2> QED BY <1>6, <2>1 DEF RecoverDone
<1>7. CASE RepublishMarker
  BY <1>7 DEF RepublishMarker, write_off, Marker
<1>8. ASSUME NEW k \in Keys, NEW o \in Outcomes, NEW p \in {"text", "none"},
             append(k, o, p)
      PROVE  TypeInv'
  <2> DEFINE e == [key |-> k, outcome |-> o, payload |-> p]
             r == EntryRec(Len(mem) + 1, e)
  <2>1. e \in Entry
    BY DEF Entry, Payloads
  <2>2. r \in Record /\ r.type = "entry" /\ r.id = Len(mem) + 1
    BY <2>1 DEF Record, EntryRecord, EntryRec
  <2>3. StartCommit(r)
    BY <1>8 DEF append
  <2> HIDE DEF r
  <2>4. Acceptable(mem, r)
    BY <2>2 DEF Acceptable
  <2> QED BY <1>8, <2>2, <2>3, <2>4, StartCommitType DEF append, Acceptable
<1>9. ASSUME NEW i \in DOMAIN mem, NEW o \in Outcomes, set_outcome(i, o)
      PROVE  TypeInv'
  <2> DEFINE r == PatchRec(i, o)
  <2>2. r \in Record /\ r.type = "patch" /\ r.id = i /\ r.outcome = o
    BY DEF Record, PatchRecord, PatchRec
  <2>3. StartCommit(r)
    BY <1>9 DEF set_outcome
  <2> HIDE DEF r
  <2>4. Acceptable(mem, r)
    BY <1>9, <2>2 DEF Acceptable, set_outcome
  <2> QED BY <1>9, <2>2, <2>3, <2>4, StartCommitType DEF set_outcome, Acceptable
<1>10. CASE SyncRecord
  <2>1. RecordLen(pending) \in Nat /\ FileSize(log) \in Nat
    BY <1>10, RecordLenType, FileSizeType DEF SyncRecord, MetaUnits
  <2> QED BY <1>10, <2>1 DEF SyncRecord, Acceptable
<1>11. CASE PublishMarker
  <2>1. Applied(mem, pending) \in Seq(Entry)
    BY <1>11, AppliedType DEF PublishMarker
  <2>2. acked' \in Seq(Entry)
    BY <1>11, AppliedType DEF PublishMarker
  <2>3. Len(Applied(mem, pending)) \in Nat
    BY <2>1
  <2> QED BY <1>11, <2>1, <2>2, <2>3 DEF PublishMarker, write_off, Marker
<1>12. ASSUME NEW S \in Selectors, WithdrawBegin(S)
       PROVE  TypeInv'
  BY <1>12 DEF WithdrawBegin
<1>13. CASE WithdrawNext
  <2>1. PICK i \in ToWithdraw : /\ StartCommit(PatchRec(i, "withdrawn"))
                                /\ sweep' = [sweep EXCEPT !.next = i + 1]
    BY <1>13 DEF WithdrawNext
  <2> DEFINE r == PatchRec(i, "withdrawn")
  <2>2. i \in DOMAIN mem
    BY DEF ToWithdraw
  <2>3. r \in Record /\ r.type = "patch" /\ r.id = i /\ r.outcome = "withdrawn"
    BY <2>2 DEF Record, PatchRecord, PatchRec, Outcomes
  <2>4. StartCommit(r)
    BY <2>1
  <2> HIDE DEF r
  <2>5. Acceptable(mem, r)
    BY <2>2, <2>3 DEF Acceptable
  <2>6. sweep' \in [sel : Selectors, next : Nat] \cup {NoSweep}
    BY <1>13, <2>1, <2>2 DEF WithdrawNext
  <2> QED BY <1>13, <2>3, <2>4, <2>5, <2>6, StartCommitType DEF WithdrawNext, Acceptable
<1>14. CASE WithdrawEnd
  BY <1>14 DEF WithdrawEnd
<1>15. ASSUME NEW need, compact_release(need)
       PROVE  TypeInv'
  <2>1. mem' \in Seq(Entry)
    BY <1>15, CompactedType DEF compact_release
  <2>2. staged' \in Seq(Extent)
    BY <1>15, <2>1, FlattenedType DEF compact_release
  <2> QED BY <1>15, <2>1, <2>2 DEF compact_release
<1>16. CASE CompactRemoveMarker
  BY <1>16 DEF CompactRemoveMarker, Marker
<1>17. CASE CompactRename
  <2>1. \A i \in DOMAIN acked : acked'[i] \in Entry
    <3> TAKE i \in DOMAIN acked
    <3>1. acked[i] \in Entry
      OBVIOUS
    <3>2. i \in DOMAIN mem => mem[i] \in Entry
      OBVIOUS
    <3> QED BY <1>17, <3>1, <3>2, EntryType DEF CompactRename
  <2>2. acked' \in Seq(Entry)
    <3>1. DOMAIN acked = 1..Len(acked) /\ Len(acked) \in Nat
      OBVIOUS
    <3>2. acked' \in [1..Len(acked) -> Entry]
      BY <1>17, <2>1, <3>1 DEF CompactRename
    <3> QED BY <3>1, <3>2, SeqDef
  <2>3. FileSize(staged) \in Nat
    BY FileSizeType
  <2> QED BY <1>17, <2>2, <2>3 DEF CompactRename
<1>18. CASE CompactPublish
  <2>1. FileSize(log) \in Nat
    BY FileSizeType
  <2> QED BY <1>18, <2>1 DEF CompactPublish, write_off, Marker
<1>19. ASSUME GiveUp, UNCHANGED <<synced, marker, acked, unfenced>>,
              log' \in Seq(Extent)
       PROVE  TypeInv'
  BY <1>19, ForgetType DEF GiveUp
<1>20. CASE SyncFails
  <2>1. log[Len(log)] \in Extent /\ Len(log) \in 0..Len(log)
    BY <1>20 DEF SyncFails
  <2>2. log[Len(log)].len \in Nat
    BY <2>1, ExtentType
  <2>3. log' \in Seq(Extent)
    <3>1. CASE log' = SubSeq(log, 1, Len(log) - 1)
      BY <3>1
    <3>2. ASSUME NEW c \in 1..log[Len(log)].len, log' = CutTail(log, Len(log), c)
          PROVE  log' \in Seq(Extent)
      <4>1. c \in Nat \ {0}
        BY <2>2
      <4> QED BY <2>1, <3>2, <4>1, CutTailType
    <3> QED BY <1>20, <3>1, <3>2 DEF SyncFails
  <2> QED BY <1>19, <1>20, <2>3 DEF SyncFails
<1>21. CASE PublishFails
  BY <1>19, <1>21 DEF PublishFails
<1>22. CASE CompactFails
  BY <1>19, <1>22 DEF CompactFails
<1>23. CASE Close
  BY <1>23, ForgetType, FileSizeType DEF Close
<1>24. CASE Crash
  <2>1. PICK n \in 0..Len(log), c \in 1..(MetaUnits + 1) : log' = CutTail(log, n, c)
    BY <1>24 DEF Crash, Survivors
  <2>2. log' \in Seq(Extent)
    <3>1. c \in Nat \ {0}
      BY DEF MetaUnits
    <3> QED BY <2>1, <3>1, CutTailType
  <2> QED BY <1>24, <2>2, ForgetType, FileSizeType DEF Crash
<1>25. CASE DamageLog
  <2>1. log' \in Seq(Extent)
    <3>1. PICK i \in DOMAIN log :
            \/ /\ log[i].len = RecordLen(log[i].rec)
               /\ log' = [log EXCEPT ![i].len = log[i].len - 1]
            \/ log' = SubSeq(log, 1, i - 1)
      BY <1>25 DEF DamageLog
    <3>2. log[i] \in Extent
      OBVIOUS
    <3>3. CASE log[i].len = RecordLen(log[i].rec) /\ log' = [log EXCEPT ![i].len = log[i].len - 1]
      <4>1. log[i].len - 1 \in Nat \ {0}
        BY <3>2, <3>3, ExtentType, RecordLenType DEF MetaUnits
      <4>2. [log[i] EXCEPT !.len = log[i].len - 1] \in Extent
        BY <3>2, <4>1, ExtentType
      <4> QED BY <3>3, <4>2
    <3>4. CASE log' = SubSeq(log, 1, i - 1)
      BY <3>4
    <3> QED BY <3>1, <3>3, <3>4
  <2>2. FileSize(log') \in Nat
    BY <2>1, FileSizeType
  <2> QED BY <1>25, <2>1, <2>2 DEF DamageLog
<1>26. CASE UNCHANGED vars
  BY <1>26 DEF vars, Acceptable
<1> QED
  BY <1>1, <1>2, <1>3, <1>4, <1>5, <1>6, <1>7, <1>8, <1>9, <1>10, <1>11, <1>12,
     <1>13, <1>14, <1>15, <1>16, <1>17, <1>18, <1>20, <1>21, <1>22, <1>23, <1>24,
     <1>25, <1>26
  DEF Next, compact, release_payloads

\* Every reachable state is well typed, whatever fails or is damaged: no code
\* path of the ledger leaves an entry, an extent or a marker malformed.
THEOREM LedgerTypeCorrect == Spec => []TypeOK
<1>1. TypeInv => TypeOK
  BY DEF TypeInv
<1> QED BY <1>1, TypeInvInit, TypeInvNext, PTL DEF Spec
-----------------------------------------------------------------------------
(* Crash safety.  The inductive invariant speaks of the first n extents of *)
(* the log (the committed prefix) and of the run of recovery over them:    *)
(* run[i] is what recover.c holds after i records.                         *)

End(l, n) == IF n = 0 THEN 0 ELSE l[n].at + l[n].len

\* Extents follow each other without overlap.
Ordered(l) == \A i, j \in 1..Len(l) : i < j => l[i].at + l[i].len <= l[j].at

Unique(m) == \A i, j \in DOMAIN m : m[i].key = m[j].key => i = j

\* run is what recovery holds before the first record, after it, and so on.
Replays(run, l, n) ==
    /\ run \in [0..n -> Seq(Entry)]
    /\ run[0] = <<>>
    /\ \A i \in 1..n : /\ l[i].len = RecordLen(l[i].rec)
                       /\ Acceptable(run[i - 1], l[i].rec)
                       /\ run[i] = Applied(run[i - 1], l[i].rec)
    /\ \A i \in 0..n : Unique(run[i])

\* The files: the committed prefix is durable, replays to what was acked, and
\* is what the marker fences; without a marker it is the whole log.
Durable(n, run) ==
    /\ n \in 0..Len(log)
    /\ Replays(run, log, n) /\ run[n] = acked
    /\ End(log, n) <= synced
    /\ marker # NoMarker => marker = [count |-> Len(acked), offset |-> End(log, n)]
    /\ marker = NoMarker => n = Len(log)

\* Compaction has changed payloads and nothing else.
SameButPayload(m, a) ==
    /\ Len(m) = Len(a)
    /\ \A i \in 1..Len(a) : m[i].key = a[i].key /\ m[i].outcome = a[i].outcome

\* The process: what each step of an operation has established.
Working(n, run) ==
    /\ pc = "closed" => mem = <<>>
    /\ pc = "recover" => pos \in 1..(n + 1) /\ fence = End(log, n) /\ mem = run[pos - 1]
    /\ pc \in {"remark", "idle", "staged", "unmarked", "reopen"} => n = Len(log)
    /\ pc \in {"remark", "idle", "sync", "publish", "reopen"} => mem = acked
    /\ pc \in {"remark", "idle", "sync"} => offset = End(log, n)
    /\ pc \in {"idle", "sync", "publish", "staged"} => marker # NoMarker
    /\ pc \in {"remark", "unmarked", "reopen"} => marker = NoMarker
    /\ pc \in {"sync", "publish"} =>
        /\ Len(log) = n + 1
        /\ log[n + 1] = [rec |-> pending, at |-> End(log, n), len |-> RecordLen(pending)]
        /\ Unique(Applied(mem, pending))
    /\ pc = "publish" => offset = End(log, n) + RecordLen(pending) /\ offset <= synced
    /\ pc \in {"staged", "unmarked"} =>
        staged = Flattened(mem) /\ SameButPayload(mem, acked)

\* The environment the theorem is about: no damage to closed files, and no I/O
\* failure inside a withdrawal loop, which carries on after one.
Benign == ~LogDamage /\ (IOFaults => Selectors = {})

CrashInv ==
    /\ TypeInv /\ Ordered(log)
    /\ ~unfenced /\ pc # "refused"
    /\ IOFaults => sweep = NoSweep
    /\ \E n, run : Durable(n, run) /\ Working(n, run)

LEMMA FileSizeIsEnd ==
    ASSUME NEW l \in Seq(Extent)
    PROVE  FileSize(l) = End(l, Len(l))
BY DEF FileSize, End

\* Extents have a positive length, so the ends of an ordered log increase.
LEMMA EndsIncrease ==
    ASSUME NEW l \in Seq(Extent), Ordered(l)
    PROVE  /\ \A i \in 0..Len(l) : End(l, i) \in Nat
           /\ \A i \in 1..Len(l) : l[i].at < End(l, i)
           /\ \A i, j \in 0..Len(l) : i < j => End(l, i) < End(l, j)
           /\ \A i \in 0..Len(l), j \in 1..Len(l) : i < j => End(l, i) <= l[j].at
<1>1. \A i \in 1..Len(l) : l[i].at \in Nat /\ l[i].len \in Nat \ {0}
  BY ExtentType
<1>2. \A i \in 0..Len(l) : End(l, i) \in Nat
  BY <1>1 DEF End
<1>3. \A i \in 1..Len(l) : l[i].at < End(l, i)
  BY <1>1 DEF End
<1>4. ASSUME NEW i \in 0..Len(l), NEW j \in 1..Len(l), i < j
      PROVE  End(l, i) <= l[j].at
  <2>1. CASE i = 0
    BY <1>1, <2>1 DEF End
  <2>2. CASE i # 0
    BY <1>4, <2>2 DEF End, Ordered
  <2> QED BY <2>1, <2>2
<1>5. ASSUME NEW i \in 0..Len(l), NEW j \in 0..Len(l), i < j
      PROVE  End(l, i) < End(l, j)
  <2>1. j \in 1..Len(l)
    BY <1>5
  <2>2. End(l, i) <= l[j].at /\ l[j].at < End(l, j)
    BY <1>3, <1>4, <1>5, <2>1
  <2>3. l[j].at \in Nat /\ End(l, i) \in Nat /\ End(l, j) \in Nat
    BY <1>1, <1>2, <2>1
  <2> QED BY <2>2, <2>3
<1> QED BY <1>2, <1>3, <1>4, <1>5

\* An appended record extends an ordered log.
LEMMA WrittenOrdered ==
    ASSUME NEW l \in Seq(Extent), Ordered(l), NEW r \in Record
    PROVE  /\ Ordered(Written(l, r))
           /\ \A i \in 1..Len(l) : Written(l, r)[i] = l[i]
           /\ Written(l, r)[Len(l) + 1] = [rec |-> r, at |-> End(l, Len(l)), len |-> RecordLen(r)]
<1> DEFINE x == [rec |-> r, at |-> FileSize(l), len |-> RecordLen(r)]
           w == Written(l, r)
<1>1. x \in Extent
  BY FileSizeType, RecordLenType, ExtentType DEF MetaUnits
<1>2. w \in Seq(Extent) /\ Len(w) = Len(l) + 1 /\ w[Len(l) + 1] = x
      /\ \A i \in 1..Len(l) : w[i] = l[i]
  BY <1>1 DEF Written
<1>3. x.at = End(l, Len(l))
  BY FileSizeIsEnd
<1>4. \A i \in 1..Len(l) : l[i].at + l[i].len <= x.at
  <2> TAKE i \in 1..Len(l)
  <2>1. End(l, i) = l[i].at + l[i].len
    BY DEF End
  <2>2. CASE i = Len(l)
    BY <1>3, <2>1, <2>2, EndsIncrease
  <2>3. CASE i < Len(l)
    BY <1>3, <2>1, <2>3, EndsIncrease
  <2> QED BY <2>2, <2>3
<1> HIDE DEF x, w
<1>5. Ordered(w)
  BY <1>2, <1>4 DEF Ordered
<1> QED BY <1>2, <1>3, <1>5, FileSizeIsEnd DEF x, w

\* Two logs that agree on the first n extents have the same committed prefix.
LEMMA SamePrefix ==
    ASSUME NEW l, NEW k, NEW n \in Nat, NEW run,
           \A i \in 1..n : k[i] = l[i], Replays(run, l, n)
    PROVE  Replays(run, k, n) /\ End(k, n) = End(l, n)
<1>1. End(k, n) = End(l, n)
  BY DEF End
<1> QED BY <1>1 DEF Replays

\* Where recovery stands: inside the prefix every record is accepted, and at
\* its end nothing is left below the fence.
LEMMA RecoveryStaysInPrefix ==
    ASSUME TypeInv, Ordered(log), pc = "recover",
           NEW n, NEW run, Durable(n, run), Working(n, run)
    PROVE  /\ MoreToRecover <=> pos <= n
           /\ MoreToRecover => ValidAt(pos)
<1>1. log \in Seq(Extent) /\ n \in 0..Len(log) /\ pos \in 1..(n + 1)
      /\ fence = End(log, n) /\ mem = run[pos - 1] /\ Len(log) \in Nat
  BY DEF TypeInv, TypeOK, Durable, Working
<1>2. pos <= n => pos <= Len(log) /\ log[pos].at < fence /\ End(log, pos) <= fence
  <2> SUFFICES ASSUME pos <= n
               PROVE  pos <= Len(log) /\ log[pos].at < fence /\ End(log, pos) <= fence
    OBVIOUS
  <2>1. pos \in 1..Len(log)
    BY <1>1
  <2>2. log[pos].at < End(log, pos) /\ End(log, pos) \in Nat /\ End(log, n) \in Nat
        /\ log[pos].at \in Nat
    BY <1>1, <2>1, EndsIncrease, ExtentType
  <2>3. End(log, pos) <= End(log, n)
    <3>1. CASE pos = n
      BY <2>2, <3>1
    <3>2. CASE pos < n
      <4>1. End(log, pos) < End(log, n)
        BY <1>1, <2>1, <3>2, EndsIncrease
      <4> QED BY <2>2, <4>1
    <3> QED BY <1>1, <3>1, <3>2
  <2> QED BY <1>1, <2>1, <2>2, <2>3
<1>3. ~(pos <= n) /\ pos <= Len(log) => ~(log[pos].at < fence)
  <2> SUFFICES ASSUME ~(pos <= n), pos <= Len(log) PROVE ~(log[pos].at < fence)
    OBVIOUS
  <2>1. pos \in 1..Len(log) /\ n < pos
    BY <1>1
  <2>2. End(log, n) <= log[pos].at
    BY <1>1, <2>1, EndsIncrease
  <2>3. log[pos].at \in Nat /\ End(log, n) \in Nat
    BY <1>1, <2>1, EndsIncrease, ExtentType
  <2> QED BY <1>1, <2>2, <2>3
<1>4. MoreToRecover <=> pos <= n
  BY <1>2, <1>3 DEF MoreToRecover
<1>5. ASSUME pos <= n PROVE ValidAt(pos)
  <2>1. pos \in 1..n
    BY <1>1, <1>5
  <2>2. log[pos].len = RecordLen(log[pos].rec) /\ Acceptable(mem, log[pos].rec)
    BY <1>1, <2>1 DEF Durable, Replays
  <2>3. End(log, pos) = log[pos].at + log[pos].len
    BY <2>1 DEF End
  <2> QED BY <1>2, <1>5, <2>2, <2>3 DEF ValidAt
<1> QED BY <1>4, <1>5

\* A crash cuts the log behind the durable prefix.
LEMMA CrashKeepsPrefix ==
    ASSUME TypeInv, Ordered(log), NEW n \in 0..Len(log), End(log, n) <= synced,
           NEW x \in Survivors(log, synced)
    PROVE  /\ x \in Seq(Extent) /\ Ordered(x) /\ n <= Len(x)
           /\ \A i \in 1..n : x[i] = log[i]
           /\ n = Len(log) => x = log
<1>0. log \in Seq(Extent) /\ synced \in Nat
  BY DEF TypeInv, TypeOK
<1>1. PICK m \in 0..Len(log), c \in 1..(MetaUnits + 1) : x = CutTail(log, m, c)
  BY DEF Survivors
<1>2. c \in Nat \ {0}
  BY DEF MetaUnits
<1>3. /\ x \in Seq(Extent) /\ Len(x) = m
      /\ \A i \in 1..m : /\ i < m => x[i] = log[i]
                         /\ x[i].at = log[i].at
                         /\ i = m => x[i].len = c
                         /\ i = m /\ log[i].len = c => x[i] = log[i]
  <2>1. /\ CutTail(log, m, c) \in Seq(Extent) /\ Len(CutTail(log, m, c)) = m
        /\ \A i \in 1..m : /\ i < m => CutTail(log, m, c)[i] = log[i]
                           /\ CutTail(log, m, c)[i].at = log[i].at
                           /\ i = m => CutTail(log, m, c)[i].len = c
                           /\ i = m /\ log[i].len = c => CutTail(log, m, c)[i] = log[i]
    <3>1. log \in Seq(Extent) /\ m \in 0..Len(log) /\ c \in Nat \ {0}
      BY <1>0, <1>2
    <3> QED BY ONLY <3>1, CutTailType
  <2> QED BY ONLY <1>1, <2>1
<1>4. FileSize(x) >= synced /\ \A i \in 1..m : x[i].len <= log[i].len
  BY <1>3 DEF Survivors
<1>5. \A i \in 1..m : x[i].at = log[i].at /\ x[i].len <= log[i].len
  BY <1>3, <1>4
<1>6. m > 0 => FileSize(x) = log[m].at + c /\ c <= log[m].len /\ log[m].len \in Nat /\ log[m].at \in Nat
  <2> SUFFICES ASSUME m > 0
               PROVE  FileSize(x) = log[m].at + c /\ c <= log[m].len
                      /\ log[m].len \in Nat /\ log[m].at \in Nat
    OBVIOUS
  <2>1. m \in 1..m /\ m \in 1..Len(log) /\ log[m] \in Extent
    BY <1>0
  <2>2. x[m].at = log[m].at /\ x[m].len = c
    BY <1>3, <2>1
  <2>3. FileSize(x) = x[m].at + x[m].len
    BY <1>3, FileSizeIsEnd, <2>1 DEF End
  <2> QED BY <1>4, <2>1, <2>2, <2>3, ExtentType
<1>7. Ordered(x)
  <2> SUFFICES ASSUME NEW i \in 1..m, NEW j \in 1..m, i < j
               PROVE  x[i].at + x[i].len <= x[j].at
    BY <1>3 DEF Ordered
  <2>1. i \in 1..Len(log) /\ j \in 1..Len(log)
    BY <1>0
  <2>2. log[i].at + log[i].len <= log[j].at
    BY <2>1 DEF Ordered
  <2>3. log[i].at \in Nat /\ log[i].len \in Nat /\ log[j].at \in Nat /\ x[i].len \in Nat
    BY <1>0, <1>3, <2>1, ExtentType
  <2> QED BY <1>5, <2>2, <2>3
<1>8. n <= m
  <2> SUFFICES ASSUME m < n PROVE FALSE
    BY <1>0
  <2>1. End(log, m) < End(log, n) /\ End(log, m) \in Nat /\ End(log, n) \in Nat
    BY <1>0, EndsIncrease
  <2>2. FileSize(x) <= End(log, m)
    <3>1. CASE m = 0
      BY <1>3, <3>1 DEF FileSize, End
    <3>2. CASE m > 0
      BY <1>2, <1>6, <3>2 DEF End
    <3> QED BY <3>1, <3>2
  <2>3. FileSize(x) \in Nat
    BY <1>3, FileSizeType
  <2> QED BY <1>0, <1>4, <2>1, <2>2, <2>3
<1>10. ASSUME m = n, n > 0 PROVE x[n] = log[n]
  <2>1. n \in 1..Len(log) /\ log[n] \in Extent
    BY <1>0, <1>10
  <2>2. log[n].at + c >= log[n].at + log[n].len
    <3>1. End(log, n) = log[n].at + log[n].len
      BY <1>10 DEF End
    <3>2. log[n].at + c >= synced
      BY <1>4, <1>6, <1>10
    <3> QED BY <1>0, <1>2, <1>6, <1>10, <3>1, <3>2
  <2>3. c = log[n].len
    BY <1>2, <1>6, <1>10, <2>2
  <2> QED BY <1>3, <1>10, <2>1, <2>3
<1>11. \A i \in 1..n : x[i] = log[i]
  BY <1>0, <1>3, <1>8, <1>10
<1>12. n = Len(log) => x = log
  BY <1>0, <1>3, <1>8, <1>11
<1> QED BY <1>3, <1>7, <1>8, <1>11, <1>12

\* A new key and a changed outcome both keep the keys unique.
LEMMA UniqueApplied ==
    ASSUME NEW m \in Seq(Entry), Unique(m), NEW r \in Record, Acceptable(m, r),
           r.type = "entry" => lookup(m, r.entry.key) = {}
    PROVE  Unique(Applied(m, r))
<1>1. CASE r.type = "entry"
  <2>1. Applied(m, r) = Append(m, r.entry) /\ r.entry \in Entry
    BY <1>1 DEF Applied, Record, EntryRecord, PatchRecord
  <2>2. \A i \in DOMAIN m : m[i].key # r.entry.key
    BY <1>1 DEF lookup
  <2> QED BY <2>1, <2>2 DEF Unique
<1>2. CASE r.type # "entry"
  <2>1. r.id \in DOMAIN m /\ Applied(m, r) = [m EXCEPT ![r.id].outcome = r.outcome]
    BY <1>2 DEF Acceptable, Applied
  <2>2. \A i \in DOMAIN m : Applied(m, r)[i].key = m[i].key
    <3> TAKE i \in DOMAIN m
    <3>1. m[i] \in Entry
      OBVIOUS
    <3>2. [m[i] EXCEPT !.outcome = r.outcome].key = m[i].key
      BY <3>1 DEF Entry
    <3> QED BY <2>1, <3>2
  <2>3. DOMAIN Applied(m, r) = DOMAIN m
    BY <2>1
  <2> QED BY <2>2, <2>3 DEF Unique
<1> QED BY <1>1, <1>2

\* Writing a record leaves the committed prefix alone.
LEMMA CommitStarts ==
    ASSUME TypeInv, Ordered(log), pc = "idle",
           NEW n, NEW run, Durable(n, run), Working(n, run),
           NEW r \in Record, Acceptable(mem, r),
           r.type = "entry" => lookup(mem, r.entry.key) = {},
           StartCommit(r), UNCHANGED <<synced, marker, mem, offset, acked>>
    PROVE  Ordered(log') /\ Durable(n, run)' /\ Working(n, run)'
<1>1. log \in Seq(Extent) /\ mem \in Seq(Entry) /\ n = Len(log) /\ n \in Nat
      /\ mem = acked /\ offset = End(log, n) /\ marker # NoMarker
  BY DEF TypeInv, TypeOK, Working
<1>2. /\ log' \in Seq(Extent) /\ Ordered(log') /\ Len(log') = n + 1
      /\ \A i \in 1..n : log'[i] = log[i]
      /\ log'[n + 1] = [rec |-> r, at |-> End(log, n), len |-> RecordLen(r)]
  <2>1. log' = Written(log, r)
    BY DEF StartCommit
  <2> QED BY <1>1, <2>1, WrittenType, WrittenOrdered
<1>3. Replays(run, log', n) /\ End(log', n) = End(log, n)
  BY <1>1, <1>2, SamePrefix DEF Durable
<1>4. Durable(n, run)'
  BY <1>1, <1>2, <1>3 DEF Durable
<1>5. Unique(Applied(mem, r))
  <2>1. Unique(mem)
    BY <1>1 DEF Durable, Replays
  <2> QED BY <1>1, <2>1, UniqueApplied
<1>6. Working(n, run)'
  BY <1>1, <1>2, <1>3, <1>5 DEF Working, StartCommit
<1> QED BY <1>2, <1>4, <1>6

\* A process that stops leaves the committed prefix in place.
LEMMA ProcessStops ==
    ASSUME NEW n, NEW run, Durable(n, run), n \in Nat, pc' = "closed", Forget,
           UNCHANGED <<marker, acked>>,
           n <= Len(log'), Len(log') \in Nat, \A i \in 1..n : log'[i] = log[i],
           marker = NoMarker => n = Len(log'),
           End(log, n) <= synced'
    PROVE  Durable(n, run)' /\ Working(n, run)'
<1>1. Replays(run, log', n) /\ End(log', n) = End(log, n)
  BY SamePrefix DEF Durable
<1>2. Durable(n, run)'
  BY <1>1 DEF Durable
<1>3. Working(n, run)'
  BY DEF Working, Forget
<1> QED BY <1>2, <1>3

LEMMA CrashInvInit == Init => CrashInv
<1> SUFFICES ASSUME Init PROVE CrashInv
  OBVIOUS
<1>1. TypeInv
  BY TypeInvInit
<1> DEFINE run == [i \in 0..0 |-> <<>>]
<1>2. /\ log = <<>> /\ acked = <<>> /\ mem = <<>> /\ synced = 0 /\ marker = NoMarker
      /\ pc = "closed" /\ sweep = NoSweep /\ ~unfenced
  BY DEF Init
<1>3. Replays(run, log, 0) /\ run[0] = acked
  BY <1>2 DEF Replays, Unique
<1>4. Durable(0, run)
  BY <1>2, <1>3 DEF Durable, End
<1>5. Working(0, run)
  BY <1>2 DEF Working
<1>6. Ordered(log)
  BY <1>2 DEF Ordered
<1> QED BY <1>1, <1>2, <1>4, <1>5, <1>6 DEF CrashInv

\* The compacted log replays to the entries it was written from.
LEMMA FlattenedReplays ==
    ASSUME NEW m \in Seq(Entry), Unique(m)
    PROVE  \E run : Replays(run, Flattened(m), Len(m)) /\ run[Len(m)] = m
<1> DEFINE run == [i \in 0..Len(m) |-> SubSeq(m, 1, i)]
           f == Flattened(m)
<1>1. \A i \in 0..Len(m) : /\ run[i] \in Seq(Entry) /\ Len(run[i]) = i
                            /\ \A k \in 1..i : run[i][k] = m[k]
  OBVIOUS
<1>2. run[0] = <<>> /\ run[Len(m)] = m
  OBVIOUS
<1>3. ASSUME NEW i \in 1..Len(m)
      PROVE  /\ f[i].len = RecordLen(f[i].rec)
             /\ Acceptable(run[i - 1], f[i].rec)
             /\ run[i] = Applied(run[i - 1], f[i].rec)
  <2>1. f[i].rec = EntryRec(i, m[i]) /\ f[i].len = RecordLen(EntryRec(i, m[i]))
    BY FlattenedType
  <2>2. i - 1 \in 0..Len(m) /\ Len(run[i - 1]) = i - 1
    BY <1>1
  <2>3. Acceptable(run[i - 1], EntryRec(i, m[i]))
    BY <2>2 DEF Acceptable, EntryRec
  <2>4. run[i] = Append(run[i - 1], m[i])
    BY <1>1, <2>2
  <2> HIDE DEF run, f
  <2> QED BY <2>1, <2>3, <2>4 DEF Applied, EntryRec
<1>4. \A i \in 0..Len(m) : Unique(run[i])
  BY <1>1 DEF Unique
<1>5. run \in [0..Len(m) -> Seq(Entry)]
  BY <1>1
<1> HIDE DEF run
<1>6. Replays(run, f, Len(m))
  BY <1>2, <1>3, <1>4, <1>5 DEF Replays
<1> QED BY <1>2, <1>6

LEMMA CrashInvNext == Benign /\ CrashInv /\ [Next]_vars => CrashInv'
<1> SUFFICES ASSUME Benign, CrashInv, [Next]_vars PROVE CrashInv'
  OBVIOUS
<1>1. TypeInv /\ TypeInv'
  BY TypeInvNext DEF CrashInv
<1>2. PICK n, run : Durable(n, run) /\ Working(n, run)
  BY DEF CrashInv
<1>3. /\ Ordered(log) /\ ~unfenced /\ pc # "refused" /\ (IOFaults => sweep = NoSweep)
      /\ log \in Seq(Extent) /\ Len(log) \in Nat /\ n \in 0..Len(log) /\ n \in Nat
      /\ synced \in Nat /\ mem \in Seq(Entry) /\ acked \in Seq(Entry)
      /\ FileSize(log) = End(log, Len(log))
  BY <1>1, <1>2, FileSizeIsEnd DEF CrashInv, TypeInv, TypeOK, Durable
<1>4. End(log, n) \in Nat /\ End(log, n) <= synced
  BY <1>2, <1>3, EndsIncrease DEF Durable
\* To show the invariant afterwards it is enough to give the prefix and run.
<1>5. ASSUME NEW k, NEW h, Durable(k, h)', Working(k, h)', Ordered(log'),
             unfenced' = unfenced, pc' # "refused", IOFaults => sweep' = NoSweep
      PROVE  CrashInv'
  BY <1>1, <1>3, <1>5 DEF CrashInv
<1>6. CASE OpenRefused
  <2>1. marker.offset = End(log, n)
    BY <1>2, <1>6 DEF OpenRefused, Durable
  <2>2. End(log, n) <= End(log, Len(log))
    <3>1. CASE n = Len(log)
      BY <1>3, <1>4, <3>1
    <3>2. CASE n < Len(log)
      <4>1. End(log, n) < End(log, Len(log)) /\ End(log, Len(log)) \in Nat
        BY <1>3, <3>2, EndsIncrease
      <4> QED BY <1>4, <4>1
    <3> QED BY <1>3, <3>1, <3>2
  <2>3. End(log, Len(log)) \in Nat
    BY <1>3, EndsIncrease
  <2> QED BY <1>3, <1>4, <1>6, <2>1, <2>2, <2>3 DEF OpenRefused
<1>7. CASE Open
  <2>1. fence' = End(log, n)
    BY <1>2, <1>3, <1>7 DEF Open, Durable, NoMarker
  <2>2. Durable(n, run)'
    BY <1>2, <1>7 DEF Open, Durable
  <2>3. run[0] = <<>>
    BY <1>2 DEF Durable, Replays
  <2>4. Working(n, run)'
    BY <1>3, <1>7, <2>1, <2>3 DEF Open, Working
  <2> QED BY <1>3, <1>5, <1>7, <2>2, <2>4 DEF Open
<1>8. CASE RecoverRecord
  <2>1. pos <= n /\ pos \in 1..n
    BY <1>1, <1>2, <1>3, <1>8, RecoveryStaysInPrefix DEF RecoverRecord, Working
  <2>2. mem' = run[pos]
    BY <1>2, <1>8, <2>1 DEF RecoverRecord, Working, Durable, Replays
  <2>3. Durable(n, run)'
    BY <1>2, <1>8 DEF RecoverRecord, Durable
  <2>4. Working(n, run)'
    BY <1>2, <1>3, <1>8, <2>1, <2>2 DEF RecoverRecord, Working
  <2> QED BY <1>3, <1>5, <1>8, <2>3, <2>4 DEF RecoverRecord
<1>9. CASE RecoverHeal
  BY <1>1, <1>2, <1>3, <1>9, RecoveryStaysInPrefix DEF RecoverHeal
<1>10. CASE RecoverRefused
  <2>1. pc = "recover" /\ marker # NoMarker /\ (MoreToRecover => ValidAt(pos))
        /\ (MoreToRecover <=> pos <= n) /\ pos \in 1..(n + 1)
    BY <1>1, <1>2, <1>3, <1>10, RecoveryStaysInPrefix DEF RecoverRefused, Working
  <2>2. ~MoreToRecover => mem = acked
    BY <1>2, <1>3, <2>1 DEF Working, Durable
  <2>3. Len(acked) = marker.count
    BY <1>2, <2>1 DEF Durable
  <2> QED BY <1>10, <2>1, <2>2, <2>3 DEF RecoverRefused
<1>11. CASE RecoverDone
  <2>1. pc = "recover" /\ pos = n + 1 /\ fence = End(log, n)
    BY <1>1, <1>2, <1>3, <1>11, RecoveryStaysInPrefix DEF RecoverDone, Working
  <2>2. mem = acked
    BY <1>2, <1>3, <2>1 DEF Working, Durable
  <2>3. log' = SubSeq(log, 1, n) /\ Len(log') = n /\ \A i \in 1..n : log'[i] = log[i]
    BY <1>3, <1>11, <2>1 DEF RecoverDone
  <2>4. Ordered(log')
    BY <1>3, <2>3 DEF Ordered
  <2>5. Replays(run, log', n) /\ End(log', n) = End(log, n)
    <3>1. Replays(run, log, n) /\ n \in Nat
      BY <1>2, <1>3 DEF Durable
    <3>2. \A i \in 1..n : log'[i] = log[i]
      BY <2>3
    <3> QED BY ONLY <3>1, <3>2, SamePrefix
  <2>6. End(log, n) <= synced'
    BY <1>3, <1>4, <1>11, <2>1 DEF RecoverDone
  <2>7. Durable(n, run)'
    <3>1. acked' = acked /\ marker' = marker
      BY <1>11 DEF RecoverDone
    <3>3. Len(log') = n /\ n \in 0..n
      BY <1>3, <2>3
    <3>2. /\ run[n] = acked
          /\ marker # NoMarker => marker = [count |-> Len(acked), offset |-> End(log, n)]
      BY <1>2 DEF Durable
    <3> QED BY <2>5, <2>6, <3>1, <3>2, <3>3 DEF Durable
  <2>8. Working(n, run)'
    BY <1>11, <2>1, <2>2, <2>3, <2>5 DEF RecoverDone, Working
  <2> QED BY <1>3, <1>5, <1>11, <2>4, <2>7, <2>8 DEF RecoverDone
<1>12. CASE RepublishMarker
  <2>1. mem = acked /\ offset = End(log, n) /\ n = Len(log)
    BY <1>2, <1>12 DEF RepublishMarker, Working
  <2>2. marker' = [count |-> Len(acked), offset |-> End(log, n)] /\ marker' # NoMarker
    BY <1>4, <1>12, <2>1 DEF RepublishMarker, write_off, NoMarker
  <2>3. Durable(n, run)'
    BY <1>2, <1>12, <2>2 DEF RepublishMarker, Durable
  <2>4. Working(n, run)'
    BY <1>12, <2>1, <2>2 DEF RepublishMarker, Working
  <2> QED BY <1>3, <1>5, <1>12, <2>3, <2>4 DEF RepublishMarker
<1>13. ASSUME NEW r \in Record, Acceptable(mem, r), StartCommit(r), pc = "idle",
              r.type = "entry" => lookup(mem, r.entry.key) = {},
              UNCHANGED <<synced, marker, mem, offset, acked, unfenced>>,
              IOFaults => sweep' = NoSweep
       PROVE  CrashInv'
  <2>1. Ordered(log') /\ Durable(n, run)' /\ Working(n, run)'
    BY <1>1, <1>2, <1>3, <1>13, CommitStarts
  <2>2. pc' = "sync"
    BY <1>13 DEF StartCommit
  <2> QED BY <1>5, <1>13, <2>1, <2>2
<1>14. ASSUME NEW k \in Keys, NEW o \in Outcomes, NEW p \in {"text", "none"},
              append(k, o, p)
       PROVE  CrashInv'
  <2> DEFINE e == [key |-> k, outcome |-> o, payload |-> p]
             r == EntryRec(Len(mem) + 1, e)
  <2>1. e \in Entry
    BY DEF Entry, Payloads
  <2>2. r \in Record /\ r.type = "entry" /\ r.id = Len(mem) + 1 /\ r.entry.key = k
    BY <1>3, <2>1 DEF Record, EntryRecord, EntryRec
  <2>3. StartCommit(r) /\ lookup(mem, k) = {} /\ pc = "idle" /\ sweep' = NoSweep
        /\ UNCHANGED <<synced, marker, mem, offset, acked, unfenced>>
    BY <1>14 DEF append
  <2> HIDE DEF r
  <2>4. Acceptable(mem, r)
    BY <2>2 DEF Acceptable
  <2> QED BY <1>13, <2>2, <2>3, <2>4
<1>15. ASSUME NEW i \in DOMAIN mem, NEW o \in Outcomes, set_outcome(i, o)
       PROVE  CrashInv'
  <2> DEFINE r == PatchRec(i, o)
  <2>1. r \in Record /\ r.type = "patch" /\ r.id = i /\ r.outcome = o
    BY <1>3 DEF Record, PatchRecord, PatchRec
  <2>2. StartCommit(r) /\ pc = "idle" /\ sweep' = NoSweep
        /\ UNCHANGED <<synced, marker, mem, offset, acked, unfenced>>
    BY <1>15 DEF set_outcome
  <2> HIDE DEF r
  <2>3. Acceptable(mem, r)
    BY <1>15, <2>1 DEF Acceptable, set_outcome
  <2> QED BY <1>13, <2>1, <2>2, <2>3
<1>16. CASE WithdrawNext
  <2>1. PICK i \in ToWithdraw : StartCommit(PatchRec(i, "withdrawn"))
    BY <1>16 DEF WithdrawNext
  <2> DEFINE r == PatchRec(i, "withdrawn")
  <2>2. i \in DOMAIN mem
    BY DEF ToWithdraw
  <2>3. r \in Record /\ r.type = "patch" /\ r.id = i /\ r.outcome = "withdrawn"
    BY <1>3, <2>2 DEF Record, PatchRecord, PatchRec, Outcomes
  <2>4. StartCommit(r) /\ pc = "idle" /\ ~IOFaults
        /\ UNCHANGED <<synced, marker, mem, offset, acked, unfenced>>
    BY <1>3, <1>16, <2>1 DEF WithdrawNext
  <2> HIDE DEF r
  <2>5. Acceptable(mem, r)
    BY <2>2, <2>3 DEF Acceptable
  <2> QED BY <1>13, <2>3, <2>4, <2>5
<1>17. CASE SyncRecord
  <2>1. pc = "sync" /\ offset = End(log, n) /\ Len(log) = n + 1
        /\ log[n + 1] = [rec |-> pending, at |-> End(log, n), len |-> RecordLen(pending)]
    BY <1>2, <1>17 DEF SyncRecord, Working
  <2>2. synced' = End(log, n) + RecordLen(pending) /\ RecordLen(pending) \in Nat
    <3>1. RecordLen(pending) \in Nat
      BY <1>1, <2>1, RecordLenType DEF TypeInv, MetaUnits
    <3>2. FileSize(log) = log[n + 1].at + log[n + 1].len
      BY <1>3, <2>1 DEF End
    <3> QED BY <1>17, <2>1, <3>1, <3>2 DEF SyncRecord
  <2>3. Durable(n, run)'
    BY <1>2, <1>4, <1>17, <2>2 DEF SyncRecord, Durable
  <2>4. Working(n, run)'
    BY <1>2, <1>4, <1>17, <2>1, <2>2 DEF SyncRecord, Working
  <2> QED BY <1>3, <1>5, <1>17, <2>3, <2>4 DEF SyncRecord
<1>18. CASE PublishMarker
  <2>1. /\ pc = "publish" /\ mem = acked /\ Len(log) = n + 1 /\ marker # NoMarker
        /\ log[n + 1] = [rec |-> pending, at |-> End(log, n), len |-> RecordLen(pending)]
        /\ offset = End(log, n) + RecordLen(pending) /\ offset <= synced
        /\ Unique(Applied(mem, pending))
    BY <1>2, <1>18 DEF PublishMarker, Working
  <2>2. pending \in Record /\ Acceptable(mem, pending)
    BY <1>1, <2>1 DEF TypeInv
  <2>3. Applied(mem, pending) \in Seq(Entry)
    BY <1>3, <2>2, AppliedType
  <2>4. mem' = Applied(mem, pending) /\ acked' = Applied(mem, pending)
    BY <1>18, <2>1, <2>2 DEF PublishMarker
  <2> DEFINE h == [i \in 0..(n + 1) |-> IF i = n + 1 THEN Applied(mem, pending) ELSE run[i]]
  <2>5. /\ h[n + 1] = Applied(mem, pending) /\ h[n] = mem /\ h[0] = <<>>
        /\ \A i \in 0..n : h[i] = run[i]
    BY <1>2, <1>3, <2>1 DEF Durable, Replays
  <2>6. h \in [0..(n + 1) -> Seq(Entry)] /\ \A i \in 0..(n + 1) : Unique(h[i])
    BY <1>2, <1>3, <2>1, <2>3 DEF Durable, Replays
  <2> HIDE DEF h
  <2>7. \A i \in 1..(n + 1) : /\ log[i].len = RecordLen(log[i].rec)
                               /\ Acceptable(h[i - 1], log[i].rec)
                               /\ h[i] = Applied(h[i - 1], log[i].rec)
    <3> TAKE i \in 1..(n + 1)
    <3>1. CASE i = n + 1
      BY <1>3, <2>1, <2>2, <2>5, <3>1
    <3>2. CASE i # n + 1
      <4>1. i \in 1..n /\ h[i] = run[i] /\ h[i - 1] = run[i - 1]
        BY <1>3, <2>5, <3>2
      <4> QED BY <1>2, <4>1 DEF Durable, Replays
    <3> QED BY <3>1, <3>2
  <2>8. Replays(h, log, n + 1)
    BY <2>5, <2>6, <2>7 DEF Replays
  <2>9. End(log, n + 1) = offset
    BY <1>3, <2>1 DEF End
  <2>10. marker' = [count |-> Len(acked'), offset |-> End(log, n + 1)] /\ marker' # NoMarker
    <3>1. offset \in Nat
      BY <1>1 DEF TypeInv, TypeOK
    <3> QED BY <1>18, <2>4, <2>9, <3>1 DEF PublishMarker, write_off, NoMarker
  <2>10a. PICK g : g = h
    OBVIOUS
  <2>11. Durable(n + 1, g)'
    <3>1. log' = log /\ synced' = synced
      BY <1>18 DEF PublishMarker
    <3>2. n + 1 \in 0..Len(log) /\ offset <= synced
      BY <1>2, <1>3, <1>18, <2>1 DEF PublishMarker, Working
    <3>3. g[n + 1] = acked' /\ Replays(g, log, n + 1)
      BY <2>4, <2>5, <2>8, <2>10a
    <3> QED BY <2>9, <2>10, <3>1, <3>2, <3>3 DEF Durable
  <2>12. Working(n + 1, g)'
    BY <1>18, <2>1, <2>4, <2>9, <2>10 DEF PublishMarker, Working
  <2> QED BY <1>3, <1>5, <1>18, <2>11, <2>12 DEF PublishMarker
<1>19. ASSUME NEW S \in Selectors, WithdrawBegin(S)
       PROVE  CrashInv'
  <2>1. ~IOFaults
    BY DEF Benign
  <2>2. Durable(n, run)' /\ Working(n, run)'
    BY <1>2, <1>19 DEF WithdrawBegin, Durable, Working
  <2> QED BY <1>3, <1>5, <1>19, <2>1, <2>2 DEF WithdrawBegin
<1>20. CASE WithdrawEnd
  <2>1. Durable(n, run)' /\ Working(n, run)'
    BY <1>2, <1>20 DEF WithdrawEnd, Durable, Working
  <2> QED BY <1>3, <1>5, <1>20, <2>1 DEF WithdrawEnd
<1>21. ASSUME NEW need, compact_release(need)
       PROVE  CrashInv'
  <2>1. mem = acked /\ n = Len(log) /\ marker # NoMarker
    BY <1>2, <1>21 DEF compact_release, Working
  <2>2. SameButPayload(mem', acked')
    BY <1>3, <1>21, <2>1, CompactedType DEF compact_release, SameButPayload
  <2>3. Durable(n, run)'
    BY <1>2, <1>21 DEF compact_release, Durable
  <2>4. Working(n, run)'
    BY <1>21, <2>1, <2>2 DEF compact_release, Working
  <2> QED BY <1>3, <1>5, <1>21, <2>3, <2>4 DEF compact_release
<1>22. CASE CompactRemoveMarker
  <2>1. n = Len(log) /\ staged = Flattened(mem) /\ SameButPayload(mem, acked)
    BY <1>2, <1>22 DEF CompactRemoveMarker, Working
  <2>2. Durable(n, run)'
    BY <1>2, <1>22, <2>1 DEF CompactRemoveMarker, Durable
  <2>3. Working(n, run)'
    BY <1>22, <2>1 DEF CompactRemoveMarker, Working
  <2> QED BY <1>3, <1>5, <1>22, <2>2, <2>3 DEF CompactRemoveMarker
<1>23. CASE CompactRename
  <2>1. staged = Flattened(mem) /\ SameButPayload(mem, acked) /\ marker = NoMarker
    BY <1>2, <1>23 DEF CompactRename, Working
  <2>2. acked' = mem
    <3>1. DOMAIN acked = 1..Len(acked) /\ DOMAIN mem = 1..Len(acked) /\ Len(acked) = Len(mem)
      BY <1>3, <2>1 DEF SameButPayload
    <3>2. acked' \in Seq(Entry)
      BY <1>1 DEF TypeInv, TypeOK
    <3>3. \A i \in 1..Len(acked) : acked'[i] = mem[i]
      <4> TAKE i \in 1..Len(acked)
      <4>1. acked[i] \in Entry /\ mem[i] \in Entry
        BY <1>3, <3>1
      <4>2. acked'[i] = [acked[i] EXCEPT !.payload = mem[i].payload]
        BY <1>23, <3>1 DEF CompactRename
      <4>3. acked[i].key = mem[i].key /\ acked[i].outcome = mem[i].outcome
        BY <2>1 DEF SameButPayload
      <4> QED BY <4>1, <4>2, <4>3 DEF Entry
    <3>4. DOMAIN acked' = 1..Len(acked)
      BY <1>23, <3>1 DEF CompactRename
    <3> QED BY <1>3, <3>1, <3>2, <3>3, <3>4
  <2>3. log' = Flattened(mem) /\ log' \in Seq(Extent) /\ Len(log') = Len(mem) /\ Ordered(log')
    BY <1>3, <1>23, <2>1, FlattenedType DEF CompactRename, Ordered
  <2>4. Unique(mem)
    <3>1. Unique(acked)
      BY <1>2, <1>3 DEF Durable, Replays
    <3> QED BY <1>3, <2>1, <3>1 DEF Unique, SameButPayload
  <2>5. PICK h : Replays(h, log', Len(mem)) /\ h[Len(mem)] = mem
    BY <1>3, <2>3, <2>4, FlattenedReplays
  <2>6. End(log', Len(mem)) = synced' /\ End(log', Len(mem)) \in Nat
    BY <1>23, <2>3, FileSizeIsEnd, FileSizeType DEF CompactRename
  <2>7. Durable(Len(mem), h)'
    BY <1>3, <1>23, <2>1, <2>2, <2>3, <2>5, <2>6 DEF CompactRename, Durable
  <2>8. Working(Len(mem), h)'
    BY <1>23, <2>1, <2>2, <2>3 DEF CompactRename, Working
  <2> QED BY <1>3, <1>5, <1>23, <2>3, <2>7, <2>8 DEF CompactRename
<1>24. CASE CompactPublish
  <2>1. n = Len(log) /\ mem = acked
    BY <1>2, <1>24 DEF CompactPublish, Working
  <2>2. marker' = [count |-> Len(acked), offset |-> End(log, n)] /\ marker' # NoMarker
        /\ offset' = End(log, n)
    BY <1>3, <1>4, <1>24, <2>1 DEF CompactPublish, write_off, NoMarker
  <2>3. Durable(n, run)'
    BY <1>2, <1>24, <2>2 DEF CompactPublish, Durable
  <2>4. Working(n, run)'
    BY <1>24, <2>1, <2>2 DEF CompactPublish, Working
  <2> QED BY <1>3, <1>5, <1>24, <2>3, <2>4 DEF CompactPublish
\* A failure outside the withdrawal loop ends the process.
<1>25. ASSUME IOFaults, GiveUp, UNCHANGED <<synced, marker, acked, unfenced>>,
              log' \in Seq(Extent), Ordered(log'), n <= Len(log'),
              \A i \in 1..n : log'[i] = log[i], marker = NoMarker => n = Len(log')
       PROVE  CrashInv'
  <2>1. pc' = "closed" /\ Forget
    BY <1>3, <1>25 DEF GiveUp
  <2>2. Durable(n, run)' /\ Working(n, run)'
    BY <1>2, <1>3, <1>4, <1>25, <2>1, ProcessStops
  <2> QED BY <1>5, <1>25, <2>1, <2>2 DEF Forget
<1>26. CASE SyncFails
  <2>1. Len(log) = n + 1 /\ marker # NoMarker
    BY <1>2, <1>26 DEF SyncFails, Working
  <2>2. /\ log' \in Seq(Extent) /\ Ordered(log') /\ n <= Len(log')
        /\ \A i \in 1..n : log'[i] = log[i]
    <3>1. CASE log' = SubSeq(log, 1, Len(log) - 1)
      <4>1. log' \in Seq(Extent) /\ Len(log') = n /\ \A i \in 1..n : log'[i] = log[i]
        BY <1>3, <2>1, <3>1
      <4> QED BY <1>3, <2>1, <4>1 DEF Ordered
    <3>2. ASSUME NEW c \in 1..log[Len(log)].len, log' = CutTail(log, Len(log), c)
          PROVE  /\ log' \in Seq(Extent) /\ Ordered(log') /\ n <= Len(log')
                 /\ \A i \in 1..n : log'[i] = log[i]
      <4>1. log[n + 1] \in Extent /\ Len(log) \in 0..Len(log)
        BY <1>3, <2>1
      <4>2. c \in Nat \ {0}
        BY <2>1, <4>1, ExtentType
      <4>3. /\ log' \in Seq(Extent) /\ Len(log') = n + 1
            /\ \A i \in 1..n : log'[i] = log[i]
            /\ log'[n + 1].at = log[n + 1].at
        <5>1. PICK m : m = n + 1
          OBVIOUS
        <5>2. m \in 0..Len(log) /\ log' = CutTail(log, m, c) /\ log \in Seq(Extent)
          BY <1>3, <2>1, <3>2, <5>1
        <5>3. /\ log' \in Seq(Extent) /\ Len(log') = m
              /\ \A i \in 1..m : /\ i < m => log'[i] = log[i]
                                 /\ log'[i].at = log[i].at
                                 /\ i = m => log'[i].len = c
                                 /\ i = m /\ log[i].len = c => log'[i] = log[i]
          <6>1. /\ CutTail(log, m, c) \in Seq(Extent) /\ Len(CutTail(log, m, c)) = m
                /\ \A i \in 1..m : /\ i < m => CutTail(log, m, c)[i] = log[i]
                                   /\ CutTail(log, m, c)[i].at = log[i].at
                                   /\ i = m => CutTail(log, m, c)[i].len = c
                                   /\ i = m /\ log[i].len = c => CutTail(log, m, c)[i] = log[i]
            BY ONLY <4>2, <5>2, CutTailType
          <6> QED BY ONLY <5>2, <6>1
        <5>4. m \in 1..m /\ \A i \in 1..n : i \in 1..m /\ i < m
          BY <1>3, <5>1
        <5> QED BY <5>1, <5>3, <5>4
      <4>4. Ordered(log')
        <5> SUFFICES ASSUME NEW i \in 1..(n + 1), NEW j \in 1..(n + 1), i < j
                     PROVE  log'[i].at + log'[i].len <= log'[j].at
          BY <4>3 DEF Ordered
        <5>1. i \in 1..n /\ log'[i] = log[i] /\ log'[j].at = log[j].at
          BY <1>3, <4>3
        <5> QED BY <1>3, <2>1, <5>1 DEF Ordered
      <4> QED BY <1>3, <4>3, <4>4
    <3> QED BY <1>26, <3>1, <3>2 DEF SyncFails
  <2> QED BY <1>25, <1>26, <2>1, <2>2 DEF SyncFails
<1>27. CASE PublishFails \/ CompactFails
  <2>1. IOFaults /\ GiveUp /\ UNCHANGED <<log, synced, marker, acked, unfenced>>
    BY <1>27 DEF PublishFails, CompactFails
  <2> QED BY <1>2, <1>3, <1>25, <2>1 DEF Durable
<1>28. CASE Close
  <2>1. n = Len(log) /\ pc' = "closed" /\ Forget /\ synced' = End(log, n)
    BY <1>2, <1>3, <1>28 DEF Close, Working
  <2>2. Durable(n, run)' /\ Working(n, run)'
    BY <1>2, <1>3, <1>4, <1>28, <2>1, ProcessStops DEF Close
  <2> QED BY <1>3, <1>5, <1>28, <2>1, <2>2 DEF Close, Forget
<1>29. CASE Crash
  <2>1. log' \in Survivors(log, synced) /\ synced' = FileSize(log') /\ pc' = "closed" /\ Forget
        /\ UNCHANGED <<marker, acked, unfenced>>
    BY <1>29 DEF Crash
  <2>2. /\ log' \in Seq(Extent) /\ Ordered(log') /\ n <= Len(log')
        /\ \A i \in 1..n : log'[i] = log[i]
        /\ n = Len(log) => log' = log
    BY <1>1, <1>3, <1>4, <2>1, CrashKeepsPrefix
  <2>3. End(log, n) <= synced'
    <3>1. FileSize(log') >= synced /\ FileSize(log') \in Nat
      BY <2>1, <2>2, FileSizeType DEF Survivors
    <3> QED BY <1>3, <1>4, <2>1, <3>1
  <2>4. marker = NoMarker => n = Len(log')
    BY <1>2, <2>2 DEF Durable
  <2>5. Durable(n, run)' /\ Working(n, run)'
    BY <1>2, <1>3, <2>1, <2>2, <2>3, <2>4, ProcessStops
  <2> QED BY <1>5, <2>1, <2>2, <2>5 DEF Forget
<1>30. CASE DamageLog
  BY <1>30 DEF DamageLog, Benign
<1>31. CASE UNCHANGED vars
  <2>1. Durable(n, run)' /\ Working(n, run)'
    BY <1>2, <1>31 DEF vars, Durable, Working
  <2> QED BY <1>3, <1>5, <1>31, <2>1 DEF vars
<1> QED
  BY <1>6, <1>7, <1>8, <1>9, <1>10, <1>11, <1>12, <1>14, <1>15, <1>16, <1>17, <1>18,
     <1>19, <1>20, <1>21, <1>22, <1>23, <1>24, <1>26, <1>27, <1>28, <1>29, <1>30, <1>31
  DEF Next, compact, release_payloads

\* For any keys and any length of log, crashes at any step, and I/O failures
\* that end the process, leave a ledger that reopens with exactly the entries
\* and outcomes its callers were told of (append.c, outcome.c, compact.c,
\* commit.c and recover.c together).
THEOREM CrashSafety == Benign => (Spec => []OpenRestoresAcked)
<1> SUFFICES ASSUME Benign PROVE Spec => []OpenRestoresAcked
  OBVIOUS
<1>1. CrashInv => OpenRestoresAcked
  BY DEF CrashInv, OpenRestoresAcked, Working
<1>2. CrashInv /\ [Next]_vars => CrashInv'
  BY CrashInvNext
<1> QED BY <1>1, <1>2, CrashInvInit, PTL DEF Spec

\* Under the same conditions recover.c never refuses the files.
THEOREM NoRefusal == Benign => (Spec => []NeverRefused)
<1> SUFFICES ASSUME Benign PROVE Spec => []NeverRefused
  OBVIOUS
<1>1. CrashInv => NeverRefused
  BY DEF CrashInv, NeverRefused
<1>2. CrashInv /\ [Next]_vars => CrashInv'
  BY CrashInvNext
<1> QED BY <1>1, <1>2, CrashInvInit, PTL DEF Spec

\* The marker is never ahead of the bytes that were fsync'd.
THEOREM MarkerDurability == Benign => (Spec => []MarkerIsDurable)
<1> SUFFICES ASSUME Benign PROVE Spec => []MarkerIsDurable
  OBVIOUS
<1>1. CrashInv => MarkerIsDurable
  BY DEF CrashInv, MarkerIsDurable, Durable
<1>2. CrashInv /\ [Next]_vars => CrashInv'
  BY CrashInvNext
<1> QED BY <1>1, <1>2, CrashInvInit, PTL DEF Spec

\* No key ever has two ids.
THEOREM DedupKeys == Benign => (Spec => []UniqueKeys)
<1> SUFFICES ASSUME Benign PROVE Spec => []UniqueKeys
  OBVIOUS
<1>1. CrashInv => UniqueKeys
  <2> SUFFICES ASSUME CrashInv PROVE Unique(mem)
    BY DEF UniqueKeys, Unique
  <2>1. PICK n, run : Durable(n, run) /\ Working(n, run)
    BY DEF CrashInv
  <2>2. n \in Nat /\ mem \in Seq(Entry) /\ acked \in Seq(Entry)
        /\ Unique(acked) /\ \A i \in 0..n : Unique(run[i])
    BY <2>1 DEF CrashInv, TypeInv, TypeOK, Durable, Replays
  <2>3. CASE pc = "closed"
    BY <2>1, <2>3 DEF Working, Unique
  <2>4. CASE pc = "recover"
    BY <2>1, <2>2, <2>4 DEF Working
  <2>5. CASE pc \in {"remark", "idle", "sync", "publish", "reopen"}
    BY <2>1, <2>2, <2>5 DEF Working
  <2>6. CASE pc \in {"staged", "unmarked"}
    BY <2>1, <2>2, <2>6 DEF Working, SameButPayload, Unique
  <2>7. pc \in {"closed", "refused", "recover", "remark", "idle", "sync",
               "publish", "staged", "unmarked", "reopen"} /\ pc # "refused"
    BY DEF CrashInv, TypeInv, TypeOK
  <2> QED BY <2>3, <2>4, <2>5, <2>6, <2>7
<1>2. CrashInv /\ [Next]_vars => CrashInv'
  BY CrashInvNext
<1> QED BY <1>1, <1>2, CrashInvInit, PTL DEF Spec

-----------------------------------------------------------------------------
(* Refinement: what callers were told is the list ObservationLog promises. *)

Promise == INSTANCE ObservationLog WITH entries <- acked

\* What a compaction in progress will put in place.
Compacting == pc \in {"staged", "unmarked"} => \E need \in Int : mem = Compacted(acked, need)

\* The oldest are released first.
LEMMA ReleasedIsDownward ==
    ASSUME NEW m \in Seq(Entry), NEW need \in Int,
           NEW i \in Released(m, need), NEW j \in Releasable(m), j < i
    PROVE  j \in Released(m, need)
<1> DEFINE B(k) == {x \in Releasable(m) : x < k}
<1>1. IsFiniteSet(DOMAIN m) /\ Releasable(m) \subseteq DOMAIN m
  <2>1. DOMAIN m = 1..Len(m) /\ Len(m) \in Nat
    OBVIOUS
  <2>2. IsFiniteSet(1..Len(m))
    BY <2>1, FS_Interval
  <2> QED BY <2>1, <2>2 DEF Releasable
<1>2. i \in Int /\ j \in Int
  BY <1>1 DEF Released
<1>3. B(j) \subseteq B(i) /\ B(i) \subseteq DOMAIN m
  BY <1>1, <1>2
<1>4. IsFiniteSet(B(i)) /\ IsFiniteSet(B(j))
  BY <1>1, <1>3, FS_Subset
<1>5. Cardinality(B(j)) <= Cardinality(B(i)) /\ Cardinality(B(i)) \in Nat
      /\ Cardinality(B(j)) \in Nat
  BY <1>3, <1>4, FS_Subset, FS_CardinalityType
<1>6. Cardinality(B(i)) < need
  BY DEF Released
<1> HIDE DEF B
<1>7. Cardinality(B(j)) < need
  BY <1>5, <1>6
<1> QED BY <1>7 DEF B, Released

LEMMA CompactingNext ==
    Benign /\ CrashInv /\ Compacting /\ [Next]_vars => Compacting'
<1> SUFFICES ASSUME Benign, CrashInv, Compacting, [Next]_vars, pc' \in {"staged", "unmarked"}
             PROVE  \E need \in Int : mem' = Compacted(acked', need)
  BY DEF Compacting
<1>1. ASSUME NEW need \in Int, compact_release(need)
      PROVE  \E x \in Int : mem' = Compacted(acked', x)
  <2>1. mem = acked
    BY <1>1 DEF CrashInv, Working, compact_release
  <2> QED BY <1>1, <2>1 DEF compact_release
<1>2. CASE compact
  BY <1>1, <1>2 DEF compact
<1>3. ASSUME NEW cap \in Caps, release_payloads(cap)
      PROVE  \E need \in Int : mem' = Compacted(acked', need)
  <2>1. offset \in Nat /\ cap \in Nat
    BY CapsAssumption DEF CrashInv, TypeInv, TypeOK
  <2>2. offset - (cap - cap \div 5) \in Int
    BY <2>1
  <2> QED BY <1>1, <1>3, <2>2 DEF release_payloads
<1>4. CASE pc \in {"staged", "unmarked"} /\ UNCHANGED <<mem, acked>>
  BY <1>4 DEF Compacting
<1>5. \/ compact \/ \E cap \in Caps : release_payloads(cap)
      \/ pc \in {"staged", "unmarked"} /\ UNCHANGED <<mem, acked>>
  BY DEF Next, vars, OpenRefused, Open, RecoverRecord, RecoverHeal, RecoverRefused,
         RecoverDone, RepublishMarker, append, set_outcome, StartCommit, SyncRecord,
         PublishMarker, WithdrawBegin, WithdrawNext, WithdrawEnd, CompactRemoveMarker,
         CompactRename, CompactPublish, SyncFails, PublishFails, CompactFails, GiveUp, Close,
         Crash, DamageLog
<1> QED BY <1>2, <1>3, <1>4, <1>5

\* A publication is one Observe or one Resolve.
LEMMA PublishImplements ==
    ASSUME CrashInv, PublishMarker
    PROVE  Promise!Next \/ acked' = acked
<1>1. PICK n, run : Durable(n, run) /\ Working(n, run)
  BY DEF CrashInv
<1>2. /\ mem = acked /\ pending \in Record /\ Acceptable(acked, pending)
      /\ acked' = Applied(acked, pending) /\ Unique(Applied(acked, pending))
      /\ acked \in Seq(Entry)
  BY <1>1 DEF PublishMarker, Working, CrashInv, TypeInv, TypeOK
<1>3. CASE pending.type = "entry"
  <2> DEFINE e == pending.entry
  <2>1. e \in Entry /\ acked' = Append(acked, e)
    BY <1>2, <1>3 DEF Applied, Record, EntryRecord, PatchRecord
  <2>2. e = [key |-> e.key, outcome |-> e.outcome, payload |-> e.payload]
        /\ e.key \in Keys /\ e.outcome \in Outcomes /\ e.payload \in Payloads
    BY <2>1 DEF Entry
  <2>3. \A i \in DOMAIN acked : acked[i].key # e.key
    <3> SUFFICES ASSUME NEW i \in DOMAIN acked, acked[i].key = e.key PROVE FALSE
      OBVIOUS
    <3>1. Unique(Append(acked, e))
      BY <1>2, <2>1
    <3> HIDE DEF e
    <3>2. /\ i \in DOMAIN Append(acked, e) /\ Len(acked) + 1 \in DOMAIN Append(acked, e)
          /\ Append(acked, e)[i] = acked[i] /\ Append(acked, e)[Len(acked) + 1] = e
          /\ i # Len(acked) + 1
      BY <1>2, <2>1
    <3> QED BY <3>1, <3>2 DEF Unique
  <2> HIDE DEF e
  <2>4. Promise!Observe
    BY <2>1, <2>2, <2>3 DEF Promise!Observe
  <2> QED BY <2>4 DEF Promise!Next
<1>4. CASE pending.type # "entry"
  <2>1. /\ pending.id \in DOMAIN acked /\ pending.outcome \in Outcomes
        /\ acked' = [acked EXCEPT ![pending.id].outcome = pending.outcome]
        /\ ~(is_committed(acked[pending.id].outcome) /\ pending.outcome = "pending")
    BY <1>2, <1>4 DEF Applied, Acceptable, Record, EntryRecord, PatchRecord
  <2>2. Promise!Resolve
    BY <2>1 DEF Promise!Resolve, Promise!Closed, is_committed
  <2> QED BY <2>2 DEF Promise!Next
<1> QED BY <1>3, <1>4

\* The rename of a compacted log is one Shrink.
LEMMA RenameImplements ==
    ASSUME CrashInv, Compacting, CompactRename
    PROVE  Promise!Next
<1>1. PICK need \in Int : mem = Compacted(acked, need)
  BY DEF Compacting, CompactRename
<1>2. acked \in Seq(Entry)
  BY DEF CrashInv, TypeInv, TypeOK
<1> DEFINE R == Released(acked, need)
           p(i) == IF i \in R THEN "released"
                   ELSE IF acked[i].outcome = "withdrawn" /\ acked[i].payload = "text"
                        THEN "none" ELSE acked[i].payload
<1>3. DOMAIN mem = DOMAIN acked
  BY <1>1 DEF Compacted
<1>4. \A i \in DOMAIN acked : acked[i] \in Entry
  BY <1>2
<1>5. \A i \in DOMAIN acked : mem[i] = [acked[i] EXCEPT !.payload = p(i)]
  BY <1>1 DEF Compacted
<1>6. \A i \in DOMAIN acked : mem[i].payload = p(i)
  BY <1>4, <1>5 DEF Entry
<1>7. acked' = [i \in DOMAIN acked |-> [acked[i] EXCEPT !.payload = mem[i].payload]]
  BY <1>3 DEF CompactRename
<1>8. \A i \in DOMAIN acked : [acked[i] EXCEPT !.payload = acked[i].payload] = acked[i]
  BY <1>4 DEF Entry
<1>9. acked' = [i \in DOMAIN acked |->
                 IF i \in R THEN [acked[i] EXCEPT !.payload = "released"]
                 ELSE IF acked[i].outcome = "withdrawn" /\ acked[i].payload = "text"
                      THEN [acked[i] EXCEPT !.payload = "none"]
                      ELSE acked[i]]
  BY <1>6, <1>7, <1>8
<1>10. Promise!Releasable = Releasable(acked)
  BY DEF Promise!Releasable, Releasable
<1>11. R \in SUBSET Promise!Releasable
  BY <1>10 DEF Released
<1>12. \A i \in R : \A j \in Promise!Releasable : j < i => j \in R
  BY <1>2, <1>10, ReleasedIsDownward
<1> HIDE DEF R
<1>13. Promise!Shrink
  BY <1>9, <1>11, <1>12 DEF Promise!Shrink
<1> QED BY <1>13 DEF Promise!Next

\* For any keys and lengths, crashes at any step, and I/O failures that end the
\* process: what callers were told of is a list that only grows, keeps its keys,
\* changes one outcome at a time and gives up text as core.h promises; a crash, a
\* recovery or a failure never shows (append.c, outcome.c, compact.c, recover.c).
THEOREM KeepsThePromise == Benign => (Spec => Promise!Spec)
<1> SUFFICES ASSUME Benign PROVE Spec => Promise!Spec
  OBVIOUS
<1> DEFINE I == CrashInv /\ Compacting
<1>1. Init => I
  BY CrashInvInit DEF Init, Compacting
<1>2. I /\ [Next]_vars => I'
  BY CrashInvNext, CompactingNext
<1>3. Init => Promise!Init
  BY DEF Init, Promise!Init
<1>4. I /\ [Next]_vars => [Promise!Next]_acked
  <2> SUFFICES ASSUME CrashInv, Compacting, [Next]_vars PROVE Promise!Next \/ acked' = acked
    OBVIOUS
  <2>1. PublishMarker \/ CompactRename \/ acked' = acked
    BY DEF Next, vars, OpenRefused, Open, RecoverRecord, RecoverHeal, RecoverRefused,
           RecoverDone, RepublishMarker, append, set_outcome, SyncRecord, WithdrawBegin,
           WithdrawNext, WithdrawEnd, compact, release_payloads, compact_release,
           CompactRemoveMarker, CompactPublish, SyncFails, PublishFails, CompactFails, Close,
           Crash, DamageLog
  <2> QED BY <2>1, PublishImplements, RenameImplements
<1> QED BY <1>1, <1>2, <1>3, <1>4, PTL DEF Spec, Promise!Spec

\* The files themselves hold it at every instant: the extents the marker names, or
\* all of them without one, are durable, whole, and replay to what callers were
\* told of, so the next open gives back just that.
FilesHoldAcked == \E n, run : Durable(n, run)

THEOREM FilesKeepThePromise == Benign => (Spec => []FilesHoldAcked)
<1> SUFFICES ASSUME Benign PROVE Spec => []FilesHoldAcked
  OBVIOUS
<1>1. CrashInv => FilesHoldAcked
  BY DEF CrashInv, FilesHoldAcked
<1>2. CrashInv /\ [Next]_vars => CrashInv'
  BY CrashInvNext
<1> QED BY <1>1, <1>2, CrashInvInit, PTL DEF Spec

-----------------------------------------------------------------------------
(* A release brings the file under its cap.                                *)

\* A set of naturals that is not empty has a least element.
LEMMA LeastNatural ==
    ASSUME NEW S \in SUBSET Nat, S # {}
    PROVE  \E x \in S : \A y \in S : x <= y
<1> DEFINE R == {ss \in Nat \X Nat : ss[1] < ss[2]}
<1>1. IsWellFoundedOn(R, Nat)
  BY NatLessThanWellFounded DEF OpToRel
<1>2. \A x \in S, y \in S : ~ (<<y, x>> \in R) => x <= y
  OBVIOUS
<1> HIDE DEF R
<1>3. \E x \in S : \A y \in S : ~ (<<y, x>> \in R)
  BY <1>1, WFMin
<1> QED BY <1>2, <1>3

\* What a compacted log of m takes.
Bulk(m) == 3 * Len(m) + Texts(m, Len(m))

\* Patches change no payload, so the texts counted stay.
LEMMA BulkGrows ==
    ASSUME NEW m \in Seq(Entry), NEW r \in Record, Acceptable(m, r)
    PROVE  Bulk(Applied(m, r)) <= Bulk(m) + RecordLen(r)
<1> DEFINE new == Applied(m, r)
<1>1. new \in Seq(Entry) /\ Bulk(m) \in Nat /\ RecordLen(r) \in Nat
  <2>1. RecordLen(r) \in Nat
    BY RecordLenType DEF MetaUnits
  <2>2. Len(m) \in Nat
    OBVIOUS
  <2>3. Texts(m, Len(m)) \in Nat
    BY <2>2, TextsCount
  <2> QED BY <2>1, <2>2, <2>3, AppliedType DEF Bulk
<1>2. CASE r.type = "entry"
  <2>1. r.entry \in Entry /\ new = Append(m, r.entry)
    BY <1>2 DEF Applied, Record, EntryRecord, PatchRecord
  <2>2. PICK L \in Nat : L = Len(m)
    OBVIOUS
  <2>3. Len(new) = L + 1 /\ new[L + 1] = r.entry /\ \A j \in 1..L : new[j] = m[j]
    BY <2>1, <2>2
  <2> HIDE DEF new
  <2>4. Texts(new, L) = Texts(m, L)
    <3>1. {j \in 1..L : new[j].payload = "text"} = {j \in 1..L : m[j].payload = "text"}
      BY <2>3
    <3> QED BY <3>1 DEF Texts
  <2>5. L + 1 \in Nat \ {0} /\ (L + 1) - 1 = L
    BY <2>2
  <2>6. Texts(new, L + 1) = Texts(new, L) + TextUnits(new[L + 1])
    BY <1>1, <2>5, TextsCount
  <2>7. Texts(m, L) \in Nat /\ TextUnits(r.entry) \in Nat
    BY <2>2, TextsCount DEF TextUnits
  <2>8. RecordLen(r) = 3 + TextUnits(r.entry)
    BY <1>2 DEF RecordLen, MetaUnits
  <2>9. /\ Bulk(new) = 3 * (L + 1) + Texts(new, L + 1)
        /\ Bulk(m) = 3 * L + Texts(m, L)
    BY <2>2, <2>3 DEF Bulk
  <2>10. Texts(new, L + 1) = Texts(m, L) + TextUnits(r.entry)
    BY <2>3, <2>4, <2>6
  <2>11. Bulk(new) = Bulk(m) + RecordLen(r)
    BY <2>2, <2>7, <2>8, <2>9, <2>10
  <2> QED BY <1>1, <2>11 DEF new
<1>3. CASE r.type # "entry"
  <2>1. r.id \in DOMAIN m /\ new = [m EXCEPT ![r.id].outcome = r.outcome]
    BY <1>3 DEF Applied, Acceptable
  <2>2. Len(new) = Len(m) /\ DOMAIN new = 1..Len(m)
    BY <2>1
  <2>3. \A j \in 1..Len(m) : new[j].payload = m[j].payload
    <3> TAKE j \in 1..Len(m)
    <3>1. m[j] \in Entry
      OBVIOUS
    <3>2. [m[j] EXCEPT !.outcome = r.outcome].payload = m[j].payload
      BY <3>1 DEF Entry
    <3>3. new[j] = IF j = r.id THEN [m[j] EXCEPT !.outcome = r.outcome] ELSE m[j]
      BY <2>1
    <3> QED BY <3>2, <3>3
  <2> HIDE DEF new
  <2>4. {j \in 1..Len(m) : new[j].payload = "text"} = {j \in 1..Len(m) : m[j].payload = "text"}
    BY <2>3
  <2>5. Bulk(new) = Bulk(m)
    BY <2>2, <2>4 DEF Bulk, Texts
  <2> QED BY <1>1, <2>5 DEF new
<1> QED BY <1>2, <1>3

\* A log is at least as long as the compacted log of what it replays to.
LEMMA LogHoldsBulk ==
    ASSUME NEW l \in Seq(Extent), Ordered(l), NEW n \in 0..Len(l), NEW run, Replays(run, l, n)
    PROVE  Bulk(run[n]) <= End(l, n)
<1> DEFINE S == {i \in 0..n : ~(Bulk(run[i]) <= End(l, i))}
<1> SUFFICES ASSUME S # {} PROVE FALSE
  BY n \in 0..n
<1>1. PICK x \in S : \A y \in S : x <= y
  <2>1. S \in SUBSET Nat /\ S # {}
    OBVIOUS
  <2> HIDE DEF S
  <2> QED BY <2>1, LeastNatural
<1>2. x # 0
  <2>1. Bulk(<<>>) = 0
    <3>1. {j \in 1..0 : <<>>[j].payload = "text"} = {}
      OBVIOUS
    <3> QED BY <3>1, FS_EmptySet DEF Bulk, Texts
  <2> QED BY <2>1 DEF Replays, End
<1>3. PICK k \in Nat : x = k + 1 /\ k \in 0..n /\ x \in 1..n /\ x \in 1..Len(l) /\ k \in 0..Len(l)
  BY <1>2, x - 1 \in Nat
<1>4. Bulk(run[k]) <= End(l, k)
  BY <1>1, <1>3
<1>5. l[x] \in Extent /\ l[x].rec \in Record /\ l[x].at \in Nat /\ l[x].len \in Nat
  BY <1>3, ExtentType
<1>6. /\ l[x].len = RecordLen(l[x].rec) /\ Acceptable(run[k], l[x].rec)
      /\ run[x] = Applied(run[k], l[x].rec) /\ run[k] \in Seq(Entry) /\ run[x] \in Seq(Entry)
  BY <1>3 DEF Replays
<1>7. Bulk(run[x]) <= Bulk(run[k]) + l[x].len
  BY <1>5, <1>6, BulkGrows
<1>8. End(l, k) <= l[x].at /\ End(l, k) \in Nat /\ End(l, x) = l[x].at + l[x].len
  BY <1>2, <1>3, EndsIncrease DEF End
<1>9. \A m \in Seq(Entry) : Bulk(m) \in Nat
  <2> TAKE m \in Seq(Entry)
  <2>1. Len(m) \in Nat
    OBVIOUS
  <2>2. Texts(m, Len(m)) \in Nat
    BY <2>1, TextsCount
  <2> QED BY <2>1, <2>2 DEF Bulk
<1>10. Bulk(run[k]) \in Nat /\ Bulk(run[x]) \in Nat
  BY <1>6, <1>9
<1>11. Bulk(run[x]) <= End(l, x)
  BY <1>4, <1>5, <1>7, <1>8, <1>10
<1> QED BY <1>11

\* If something releasable is kept, `need' of them are released.
LEMMA ReleasesEnough ==
    ASSUME NEW m \in Seq(Entry), NEW need \in Int, Releasable(m) \ Released(m, need) # {}
    PROVE  /\ IsFiniteSet(Released(m, need)) /\ Cardinality(Released(m, need)) \in Nat
           /\ need <= Cardinality(Released(m, need))
<1> DEFINE S == Releasable(m) \ Released(m, need)
           B(k) == {j \in Releasable(m) : j < k}
<1>1. IsFiniteSet(DOMAIN m) /\ Releasable(m) \subseteq DOMAIN m /\ DOMAIN m \subseteq Nat
  <2>1. DOMAIN m = 1..Len(m) /\ Len(m) \in Nat
    OBVIOUS
  <2>2. IsFiniteSet(1..Len(m))
    BY <2>1, FS_Interval
  <2> QED BY <2>1, <2>2 DEF Releasable
<1>2. Released(m, need) \subseteq DOMAIN m
  BY <1>1 DEF Released
<1>3. IsFiniteSet(Released(m, need)) /\ Cardinality(Released(m, need)) \in Nat
  BY <1>1, <1>2, FS_Subset, FS_CardinalityType
<1>4. PICK x \in S : \A y \in S : x <= y
  <2>1. S \in SUBSET Nat /\ S # {}
    BY <1>1
  <2> HIDE DEF S
  <2> QED BY <2>1, LeastNatural
<1>5. B(x) \subseteq Released(m, need)
  <2> SUFFICES ASSUME NEW j \in B(x), j \notin Released(m, need) PROVE FALSE
    OBVIOUS
  <2>1. j \in S /\ j < x /\ j \in Nat /\ x \in Nat
    BY <1>1
  <2> QED BY <1>4, <2>1
<1>6. ~(Cardinality(B(x)) < need)
  BY <1>4 DEF Released
<1>7. Cardinality(B(x)) <= Cardinality(Released(m, need)) /\ Cardinality(B(x)) \in Nat
  <2>1. IsFiniteSet(B(x))
    BY <1>3, <1>5, FS_Subset
  <2> QED BY <1>3, <1>5, <2>1, FS_Subset, FS_CardinalityType
<1> HIDE DEF B
<1>8. need <= Cardinality(Released(m, need))
  BY <1>3, <1>6, <1>7
<1> QED BY <1>3, <1>8

\* A compaction takes away at least what it releases, and leaves nothing else
\* to release than what it kept.
LEMMA CompactedBulk ==
    ASSUME NEW m \in Seq(Entry), NEW need \in Int
    PROVE  /\ Bulk(Compacted(m, need)) \in Nat /\ Bulk(m) \in Nat
           /\ Cardinality(Released(m, need)) \in Nat
           /\ Bulk(Compacted(m, need)) <= Bulk(m) - Cardinality(Released(m, need))
           /\ Releasable(Compacted(m, need)) \subseteq Releasable(m) \ Released(m, need)
<1> DEFINE new == Compacted(m, need)
           K == Released(m, need)
<1>1. new \in Seq(Entry) /\ DOMAIN new = DOMAIN m /\ Len(new) = Len(m)
      /\ \A i \in DOMAIN m : new[i].outcome = m[i].outcome
  BY CompactedType
<1>2. \A i \in DOMAIN m : new[i].payload = "text" => m[i].payload = "text" /\ i \notin K
  <2> TAKE i \in DOMAIN m
  <2>1. m[i] \in Entry
    OBVIOUS
  <2>2. new[i].payload = IF i \in K THEN "released"
                         ELSE IF m[i].outcome = "withdrawn" /\ m[i].payload = "text" THEN "none"
                         ELSE m[i].payload
    BY <2>1 DEF Compacted, Entry
  <2> HIDE DEF new, K
  <2> QED BY <2>2
<1>3. PICK L \in Nat : L = Len(m) /\ DOMAIN m = 1..L
  OBVIOUS
<1> DEFINE T == {j \in 1..L : m[j].payload = "text"}
           U == {j \in 1..L : new[j].payload = "text"}
<1>4. U \subseteq T \ K /\ K \subseteq T
  BY <1>2, <1>3 DEF Released, Releasable
<1>5. IsFiniteSet(T) /\ Cardinality(T) \in Nat
  <2>1. IsFiniteSet(1..L)
    BY <1>3, FS_Interval
  <2> QED BY <2>1, FS_Subset, FS_CardinalityType
<1>6. Bulk(m) = 3 * L + Cardinality(T) /\ Bulk(new) = 3 * L + Cardinality(U)
  BY <1>1, <1>3 DEF Bulk, Texts
<1>7. Releasable(new) \subseteq Releasable(m) \ K
  BY <1>1, <1>2 DEF Releasable
<1> HIDE DEF new, K, T, U
<1>8. IsFiniteSet(K) /\ Cardinality(K) \in Nat /\ T \cap K = K
  BY <1>4, <1>5, FS_Subset, FS_CardinalityType
<1>9. IsFiniteSet(T \ K) /\ Cardinality(T \ K) = Cardinality(T) - Cardinality(K)
  BY <1>5, <1>8, FS_Difference
<1>10. Cardinality(U) <= Cardinality(T \ K) /\ Cardinality(U) \in Nat
  BY <1>4, <1>9, FS_Subset, FS_CardinalityType
<1> QED BY <1>3, <1>5, <1>6, <1>7, <1>8, <1>9, <1>10 DEF new, K

\* The size of the compacted log.
LEMMA FlattenedSize ==
    ASSUME NEW m \in Seq(Entry)
    PROVE  FileSize(Flattened(m)) = Bulk(m)
<1>1. PICK L \in Nat : L = Len(m)
  OBVIOUS
<1>2. Flattened(m) \in Seq(Extent) /\ Len(Flattened(m)) = L
  BY <1>1, FlattenedType
<1>3. CASE L = 0
  <2>1. Flattened(m) = <<>>
    BY <1>2, <1>3
  <2>2. {j \in 1..0 : m[j].payload = "text"} = {}
    OBVIOUS
  <2>3. Texts(m, 0) = 0
    BY <2>2, FS_EmptySet DEF Texts
  <2> QED BY <1>1, <1>3, <2>1, <2>3 DEF FileSize, Bulk
<1>4. CASE L # 0
  <2>1. L \in 1..Len(m) /\ L \in Nat \ {0} /\ m[L] \in Entry
    BY <1>1, <1>4
  <2>2. /\ Flattened(m)[L].at = 3 * (L - 1) + Texts(m, L - 1)
        /\ Flattened(m)[L].len = 3 + TextUnits(m[L])
    BY <1>1, <2>1 DEF Flattened, MetaUnits, RecordLen, EntryRec
  <2>3. Texts(m, L) = Texts(m, L - 1) + TextUnits(m[L])
    BY <2>1, TextsCount
  <2>4. Texts(m, L - 1) \in Nat /\ TextUnits(m[L]) \in Nat
    BY <2>1, L - 1 \in Nat, TextsCount DEF TextUnits
  <2>5. FileSize(Flattened(m)) = Flattened(m)[L].at + Flattened(m)[L].len
    BY <1>2, <1>4 DEF FileSize
  <2>6. Bulk(m) = 3 * L + Texts(m, L)
    BY <1>1 DEF Bulk
  <2> QED BY <2>1, <2>2, <2>3, <2>4, <2>5, <2>6
<1> QED BY <1>3, <1>4

LEMMA ReleaseFits ==
    ASSUME CrashInv, NEW cap \in Caps, release_payloads(cap)
    PROVE  FileSize(staged') <= cap \/ Releasable(mem') = {}
<1>1. PICK n, run : Durable(n, run) /\ Working(n, run)
  BY DEF CrashInv
<1>2. /\ log \in Seq(Extent) /\ Ordered(log) /\ mem \in Seq(Entry) /\ offset \in Nat
      /\ n = Len(log) /\ n \in 0..Len(log) /\ mem = run[n] /\ offset = End(log, n)
      /\ Replays(run, log, n)
  BY <1>1 DEF CrashInv, TypeInv, TypeOK, Durable, Working, release_payloads, compact_release
<1>3. Bulk(mem) <= offset
  BY <1>2, LogHoldsBulk
<1>4. cap \in Nat /\ cap \div 5 \in Nat /\ cap \div 5 <= cap
  BY CapsAssumption
<1>5. PICK need \in Int : need = offset - (cap - cap \div 5)
  BY <1>2, <1>4
<1>6. mem' = Compacted(mem, need) /\ staged' = Flattened(mem')
  BY <1>5 DEF release_payloads, compact_release
<1>7. /\ Bulk(mem') \in Nat /\ Bulk(mem) \in Nat /\ Cardinality(Released(mem, need)) \in Nat
      /\ Bulk(mem') <= Bulk(mem) - Cardinality(Released(mem, need))
      /\ Releasable(mem') \subseteq Releasable(mem) \ Released(mem, need)
  BY <1>2, <1>6, CompactedBulk
<1>8. FileSize(staged') = Bulk(mem')
  BY <1>2, <1>6, CompactedType, FlattenedSize
<1>9. ASSUME Releasable(mem') # {}
      PROVE  Bulk(mem') <= cap
  <2>1. need <= Cardinality(Released(mem, need))
    BY <1>2, <1>7, <1>9, ReleasesEnough
  <2> QED BY <1>2, <1>3, <1>4, <1>5, <1>7, <2>1
<1> QED BY <1>8, <1>9

\* release_payloads leaves a log within the cap it was given, or nothing more to
\* release, for any cap, number of entries and history of the log.
THEOREM ReleaseReachesCap == Benign => (Spec => ReleaseMeetsCap)
<1> SUFFICES ASSUME Benign PROVE Spec => ReleaseMeetsCap
  OBVIOUS
<1>1. CrashInv /\ [Next]_vars => CrashInv'
  BY CrashInvNext
<1>2. CrashInv =>
        [\A cap \in Caps :
           release_payloads(cap) => \/ FileSize(staged') <= cap
                                    \/ Releasable(mem') = {}]_vars
  BY ReleaseFits
<1> QED BY <1>1, <1>2, CrashInvInit, PTL DEF Spec, ReleaseMeetsCap
=============================================================================
