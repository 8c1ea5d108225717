---------------------------- MODULE GraphProofs ----------------------------
(***************************************************************************)
(* What the language graph promises, for any texts, tokenizers, hashes,    *)
(* group keys, ceilings, capacities and number of operations.              *)
(*                                                                         *)
(* The inductive invariant, GraphInv, holds between two operations.  The   *)
(* graph in memory is Sound: its arrays refer to each other only (Stored), *)
(* both hash tables Hold every entry of their array at the end of an       *)
(* unbroken probe chain (Indexed), and the group of every episode Covers   *)
(* its tokens (Grouped).  Its valence is what every token has Felt, no     *)
(* migration is Due later than the ledger reaches, and the file is Written *)
(* by an encoder from a graph of which the same holds.                     *)
(*                                                                         *)
(* The sections follow the code: positions and probing, then one for each  *)
(* operation that changes a graph, each ending in a lemma that the         *)
(* operation leaves a sound graph; then the loader, which accepts what an  *)
(* encoder wrote; then the invariant, with one lemma per action.           *)
(***************************************************************************)
EXTENDS Graph, FiniteSetTheorems, WellFoundedInduction, TLAPS

\* A set of naturals that is not empty has a least element.
LEMMA LeastNatural ==
  ASSUME NEW S \in SUBSET Nat, S # {}
  PROVE  \E x \in S : \A y \in S : x <= y
  <1> DEFINE R == {ss \in Nat \X Nat : ss[1] < ss[2]}
  <1>1. IsWellFoundedOn(R, Nat)
    BY NatLessThanWellFounded DEF OpToRel
  <1>2. \A x \in S, y \in S : ~ (<<y, x>> \in R) => x <= y
    OBVIOUS
  <1> HIDE DEF R
  <1>3. \E x \in S : \A y \in S : ~ (<<y, x>> \in R)
    BY <1>1, WFMin
  <1> QED
    BY <1>2, <1>3

---------------------------------------------------------------------------
(* Recursion, order and positions. *)

\* What holds of 0 and passes from each number to the next holds up to n.
LEMMA Upwards ==
  ASSUME NEW n \in Nat, NEW P, 0 \in P, \A d \in 1..n : d - 1 \in P => d \in P
  PROVE  \A d \in 0..n : d \in P
  <1> DEFINE Bad == {d \in 0..n : d \notin P}
  <1> SUFFICES ASSUME NEW e \in 0..n, e \notin P PROVE FALSE
    OBVIOUS
  <1>1. PICK x \in Bad : \A y \in Bad : x <= y
    <2>1. Bad \in SUBSET Nat /\ e \in Bad
      OBVIOUS
    <2> HIDE DEF Bad
    <2> QED BY <2>1, LeastNatural
  <1>2. x \in 1..n /\ x - 1 \notin Bad /\ x - 1 \in 0..n
    BY <1>1
  <1> QED BY <1>1, <1>2

\* Values that start in a set and go from each set to the next.
LEMMA Passes ==
  ASSUME NEW n \in Nat, NEW T, NEW f, f[0] \in T[0],
         \A i \in 1..n : f[i - 1] \in T[i - 1] => f[i] \in T[i]
  PROVE  \A i \in 0..n : f[i] \in T[i]
  <1> DEFINE P == {i \in 0..n : f[i] \in T[i]}
  <1>1. 0 \in P /\ \A i \in 1..n : i - 1 \in P => i \in P
    OBVIOUS
  <1>2. \A i \in 0..n : i \in P
    <2> HIDE DEF P
    <2> QED BY <1>1, Upwards
  <1> QED BY <1>2

\* The first m values of f are given by its first value and a step.
Stepped(f, n, T, first, step, m) ==
  /\ f = [i \in 0..n |-> f[i]] /\ f[0] = first
  /\ \A i \in 0..n : i <= m => f[i] \in T[i]
  /\ \A i \in 1..n : i <= m => f[i] = step[<<i, f[i - 1]>>]

\* The first value is in the first set, and the step leads from each to the next.
Leads(n, T, first, step) ==
  first \in T[0] /\ \A i \in 1..n : \A v \in T[i - 1] : step[<<i, v>>] \in T[i]

Iterates(f, n, T, first, step) ==
  /\ f = [i \in 0..n |-> f[i]] /\ f[0] = first
  /\ \A i \in 0..n : f[i] \in T[i]
  /\ \A i \in 1..n : f[i] = step[<<i, f[i - 1]>>]

\* A function given by its first value and a step exists, and its values are
\* where the step leads.
LEMMA Recursion ==
  ASSUME NEW n \in Nat, NEW T, NEW first, NEW step, Leads(n, T, first, step)
  PROVE  \E f : Iterates(f, n, T, first, step)
  <1> DEFINE P == {m \in 0..n : \E f : Stepped(f, n, T, first, step, m)}
  <1>1. 0 \in P
    <2> DEFINE h == [i \in 0..n |-> first]
    <2>1. h = [i \in 0..n |-> h[i]] /\ h[0] = first
      OBVIOUS
    <2> HIDE DEF h
    <2>2. Stepped(h, n, T, first, step, 0)
      BY <2>1 DEF Stepped, Leads
    <2> QED BY <2>2
  <1>2. ASSUME NEW m \in 1..n, m - 1 \in P PROVE m \in P
    <2>1. PICK f : Stepped(f, n, T, first, step, m - 1)
      BY <1>2
    <2> DEFINE v == step[<<m, f[m - 1]>>]
               h == [i \in 0..n |-> IF i = m THEN v ELSE f[i]]
    <2>2. m - 1 \in 0..n /\ f[m - 1] \in T[m - 1] /\ v \in T[m]
      BY <2>1 DEF Stepped, Leads
    <2> HIDE DEF v
    <2>3. DOMAIN h = 0..n /\ h[m] = v /\ \A i \in 0..n : i # m => h[i] = f[i]
      BY <2>2
    <2>h. h = [i \in 0..n |-> h[i]]
      OBVIOUS
    <2> HIDE DEF h
    <2>4. h[0] = first
      BY <2>1, <2>3 DEF Stepped
    <2>5. ASSUME NEW i \in 0..n, i <= m PROVE h[i] \in T[i]
      <3>1. CASE i = m
        BY <2>2, <2>3, <3>1
      <3>2. CASE i # m
        BY <2>1, <2>3, <2>5, <3>2 DEF Stepped
      <3> QED BY <3>1, <3>2
    <2>6. ASSUME NEW i \in 1..n, i <= m PROVE h[i] = step[<<i, h[i - 1]>>]
      <3>1. h[i - 1] = f[i - 1]
        BY <2>3, <2>6
      <3>2. CASE i = m
        BY <2>3, <3>1, <3>2 DEF v
      <3>3. CASE i # m
        BY <2>1, <2>3, <2>6, <3>1, <3>3 DEF Stepped
      <3> QED BY <3>2, <3>3
    <2>7. Stepped(h, n, T, first, step, m)
      BY <2>h, <2>4, <2>5, <2>6 DEF Stepped
    <2> QED BY <2>7
  <1>3. n \in P
    <2> HIDE DEF P
    <2>1. \A d \in 0..n : d \in P
      BY <1>1, <1>2, Upwards
    <2> QED BY <2>1
  <1>4. PICK f : Stepped(f, n, T, first, step, n)
    BY <1>3
  <1>5. /\ f = [i \in 0..n |-> f[i]] /\ f[0] = first
        /\ \A i \in 0..n : i <= n => f[i] \in T[i]
        /\ \A i \in 1..n : i <= n => f[i] = step[<<i, f[i - 1]>>]
    BY <1>4 DEF Stepped
  <1>6. (\A i \in 0..n : i <= n) /\ (\A i \in 1..n : i <= n)
    OBVIOUS
  <1>7. Iterates(f, n, T, first, step)
    BY <1>5, <1>6, Zenon DEF Iterates
  <1> QED BY <1>7

\* A strict order of the elements of S.
StrictOrder(S, R) ==
  /\ \A x \in S : <<x, x>> \notin R
  /\ \A x, y \in S : x # y => <<x, y>> \in R \/ <<y, x>> \in R
  /\ \A x, y, z \in S : <<x, y>> \in R /\ <<y, z>> \in R => <<x, z>> \in R

Rank(S, R, x) == Cardinality({y \in S : <<y, x>> \in R})

\* A finite set with a strict order has an element of each rank.
LEMMA Ranks ==
  ASSUME NEW S, IsFiniteSet(S), NEW R, StrictOrder(S, R)
  PROVE  /\ Cardinality(S) \in Nat
         /\ \A x \in S : Rank(S, R, x) \in 0..(Cardinality(S) - 1)
         /\ \A x, y \in S : <<x, y>> \in R => Rank(S, R, x) < Rank(S, R, y)
         /\ \A i \in 1..Cardinality(S) : \E x \in S : Rank(S, R, x) = i - 1
  <1> DEFINE n == Cardinality(S)
             Below(x) == {y \in S : <<y, x>> \in R}
             rank == [x \in S |-> Cardinality(Below(x))]
  <1>1. n \in Nat
    BY FS_CardinalityType
  <1>2. ASSUME NEW x \in S PROVE rank[x] \in 0..(n - 1)
    <2>1. Below(x) \in SUBSET S /\ x \notin Below(x)
      BY DEF StrictOrder
    <2>2. IsFiniteSet(Below(x)) /\ Cardinality(Below(x)) <= n /\ Cardinality(Below(x)) # n
      BY <2>1, FS_Subset
    <2>3. Cardinality(Below(x)) \in Nat
      BY <2>2, FS_CardinalityType
    <2> HIDE DEF Below
    <2> QED BY <1>1, <2>2, <2>3
  <1>3. ASSUME NEW x \in S, NEW y \in S, <<x, y>> \in R PROVE rank[x] < rank[y]
    <2>1. Below(x) \in SUBSET Below(y) /\ x \in Below(y) /\ x \notin Below(x)
          /\ Below(y) \in SUBSET S
      BY <1>3 DEF StrictOrder
    <2>2. IsFiniteSet(Below(y))
      BY <2>1, FS_Subset
    <2>3. Cardinality(Below(x)) <= Cardinality(Below(y))
          /\ Cardinality(Below(x)) # Cardinality(Below(y))
      BY <2>1, <2>2, FS_Subset
    <2>4. Cardinality(Below(x)) \in Nat /\ Cardinality(Below(y)) \in Nat
      BY <2>1, <2>2, FS_Subset, FS_CardinalityType
    <2> HIDE DEF Below
    <2> QED BY <2>3, <2>4
  <1>4. rank \in Surjection(S, 0..(n - 1))
    <2>1. rank \in [S -> 0..(n - 1)]
      BY <1>2
    <2>2. ASSUME NEW x \in S, NEW y \in S, rank[x] = rank[y] PROVE x = y
      <3>0. rank[x] \in Nat /\ rank[y] \in Nat
        BY <1>2
      <3>1. <<x, y>> \notin R /\ <<y, x>> \notin R
        <4> HIDE DEF rank
        <4> QED BY <1>3, <2>2, <3>0
      <3> QED BY <3>1 DEF StrictOrder
    <2> HIDE DEF rank
    <2>3. rank \in Injection(S, 0..(n - 1))
      BY <2>1, <2>2 DEF Injection, IsInjective
    <2>4. IsFiniteSet(0..(n - 1)) /\ Cardinality(0..(n - 1)) = n
      BY <1>1, FS_Interval, SMTT(40)
    <2> QED BY <2>3, <2>4, FS_Injection
  <1>5. ASSUME NEW i \in 1..n PROVE \E x \in S : Cardinality(Below(x)) = i - 1
    <2>1. i - 1 \in 0..(n - 1)
      BY <1>1
    <2>2. PICK x \in S : rank[x] = i - 1
      BY <1>4, <2>1 DEF Surjection
    <2> QED BY <2>2
  <1> QED BY <1>1, <1>2, <1>3, <1>5 DEF Rank

\* The positions of a sequence that are in I, in order: I has n of them, and the
\* number of those up to a position finds it.
LEMMA Positions ==
  ASSUME NEW m \in Nat, NEW I \in SUBSET (1..m)
  PROVE  LET at == Ordered(I, LAMBDA a, b : a < b)
             n  == Cardinality(I)
         IN /\ n \in Nat /\ IsFiniteSet(I)
            /\ at \in [1..n -> I]
            /\ \A i, k \in 1..n : i < k => at[i] < at[k]
            /\ \A x \in I : Cardinality((1..x) \cap I) \in 1..n
                            /\ at[Cardinality((1..x) \cap I)] = x
  <1> DEFINE R == {p \in I \X I : p[1] < p[2]}
             n == Cardinality(I)
             at == Ordered(I, LAMBDA a, b : a < b)
             At(i) == CHOOSE x \in I : Cardinality({y \in I : y < x}) = i - 1
  <1>0. \A x \in I : x \in Nat
    OBVIOUS
  <1>1. IsFiniteSet(I)
    <2>1. IsFiniteSet(1..m)
      BY FS_Interval
    <2> QED BY <2>1, FS_Subset
  <1>2. StrictOrder(I, R)
    BY DEF StrictOrder
  <1>3. \A x \in I : {y \in I : <<y, x>> \in R} = {y \in I : y < x}
    OBVIOUS
  <1>4. \A x \in I : Rank(I, R, x) = Cardinality({y \in I : y < x})
    BY <1>3 DEF Rank
  <1>5. at = [i \in 1..n |-> At(i)]
    BY DEF Ordered
  <1> HIDE DEF R, at
  <1>6. n \in Nat
    BY <1>1, FS_CardinalityType
  <1>7. ASSUME NEW i \in 1..n PROVE at[i] \in I /\ Rank(I, R, at[i]) = i - 1
    <2>0. \E x \in I : Rank(I, R, x) = i - 1
      <3>1. \A k \in 1..Cardinality(I) : \E x \in I : Rank(I, R, x) = k - 1
        BY <1>1, <1>2, Ranks
      <3> QED BY <3>1
    <2>1. \E x \in I : Cardinality({y \in I : y < x}) = i - 1
      BY <1>4, <2>0
    <2>2. at[i] = At(i)
      <3> HIDE DEF At
      <3> QED BY <1>5
    <2>3. at[i] \in I /\ Cardinality({y \in I : y < at[i]}) = i - 1
      BY <2>1, <2>2
    <2> QED BY <1>4, <2>3
  <1>8. at \in [1..n -> I]
    <2> HIDE DEF At
    <2> QED BY <1>5, <1>7
  <1>9. ASSUME NEW x \in I, NEW y \in I, x < y PROVE Rank(I, R, x) < Rank(I, R, y)
    <2>1. <<x, y>> \in R
      BY <1>9 DEF R
    <2> QED BY <1>1, <1>2, <2>1, Ranks
  <1>10. ASSUME NEW i \in 1..n, NEW k \in 1..n, i < k PROVE at[i] < at[k]
    <2>1. at[i] \in Nat /\ at[k] \in Nat
      BY <1>0, <1>7
    <2>2. at[i] # at[k]
      BY <1>7, <1>10, <1>6
    <2>3. ~(at[k] < at[i])
      <3> SUFFICES ASSUME at[k] < at[i] PROVE FALSE
        OBVIOUS
      <3>1. Rank(I, R, at[k]) < Rank(I, R, at[i])
        BY <1>7, <1>9
      <3> QED BY <1>6, <1>7, <1>10, <3>1
    <2> QED BY <2>1, <2>2, <2>3
  <1>11. ASSUME NEW x \in I
         PROVE  /\ Cardinality((1..x) \cap I) = Rank(I, R, x) + 1
                /\ Cardinality((1..x) \cap I) \in 1..n
                /\ at[Cardinality((1..x) \cap I)] = x
    <2> DEFINE B == {y \in I : y < x}
               c == Cardinality((1..x) \cap I)
    <2>1. (1..x) \cap I = B \cup {x} /\ x \notin B /\ B \in SUBSET I
      <3>1. \A y \in I : y \in 1..x <=> y < x \/ y = x
        BY <1>0
      <3>2. x \notin B
        BY <1>0
      <3> QED BY <3>1, <3>2
    <2>2. IsFiniteSet(B)
      BY <1>1, <2>1, FS_Subset
    <2>3. c = Cardinality(B) + 1
      <3> HIDE DEF B
      <3> QED BY <2>1, <2>2, FS_AddElement
    <2>4. c = Rank(I, R, x) + 1
      BY <1>4, <2>3
    <2>5. Rank(I, R, x) \in 0..(n - 1)
      BY <1>1, <1>2, Ranks
    <2>6. c \in 1..n
      BY <2>4, <2>5, <1>6
    <2> HIDE DEF c
    <2>7. at[c] \in I /\ Rank(I, R, at[c]) = Rank(I, R, x)
      BY <1>7, <2>4, <2>5, <2>6
    <2>8. ~(at[c] < x) /\ ~(x < at[c])
      <3>1. Rank(I, R, x) \in Nat
        BY <2>5
      <3>2. at[c] < x => Rank(I, R, at[c]) < Rank(I, R, x)
        BY <1>9, <2>7
      <3>3. x < at[c] => Rank(I, R, x) < Rank(I, R, at[c])
        BY <1>9, <2>7
      <3>4. ~(Rank(I, R, x) < Rank(I, R, x))
        BY <3>1
      <3> QED BY <2>7, <3>2, <3>3, <3>4
    <2>9. at[c] = x
      <3>1. at[c] \in Nat /\ x \in Nat
        BY <1>0, <2>7
      <3> QED BY <2>8, <3>1
    <2> QED BY <2>4, <2>6, <2>9 DEF c
  <1> QED BY <1>1, <1>6, <1>8, <1>10, <1>11 DEF at

\* The positions, in order, hold what is left of a sequence; and each stands
\* where its rank says.
Places(seq, I, kept, at) ==
  /\ at \in [1..Cardinality(I) -> I]
  /\ \A i, k \in 1..Cardinality(I) : i < k => at[i] < at[k]
  /\ \A i \in 1..Cardinality(I) : kept[i] = seq[at[i]]
  /\ \A x \in I : /\ Cardinality((1..x) \cap I) \in 1..Cardinality(I)
                  /\ at[Cardinality((1..x) \cap I)] = x

LEMMA KeptIs ==
  ASSUME NEW S, NEW seq \in Seq(S), NEW I \in SUBSET (DOMAIN seq)
  PROVE  /\ Cardinality(I) \in Nat /\ IsFiniteSet(I)
         /\ Kept(seq, I) \in Seq(S) /\ Len(Kept(seq, I)) = Cardinality(I)
         /\ \E at : Places(seq, I, Kept(seq, I), at)
  <1> DEFINE at == Ordered(I, LAMBDA a, b : a < b)
             n  == Cardinality(I)
  <1>1. Len(seq) \in Nat /\ DOMAIN seq = 1..Len(seq) /\ \A i \in DOMAIN seq : seq[i] \in S
    OBVIOUS
  <1>2. /\ n \in Nat /\ IsFiniteSet(I)
        /\ at \in [1..n -> I]
        /\ \A i, k \in 1..n : i < k => at[i] < at[k]
        /\ \A x \in I : Cardinality((1..x) \cap I) \in 1..n
                        /\ at[Cardinality((1..x) \cap I)] = x
    BY <1>1, Positions
  <1>3. Kept(seq, I) = [k \in DOMAIN at |-> seq[at[k]]]
    BY DEF Kept
  <1> HIDE DEF at, n
  <1>4. Kept(seq, I) = [k \in 1..n |-> seq[at[k]]]
    BY <1>2, <1>3
  <1>5. \A k \in 1..n : seq[at[k]] \in S
    BY <1>1, <1>2
  <1>6. Kept(seq, I) \in Seq(S) /\ Len(Kept(seq, I)) = n
    BY <1>2, <1>4, <1>5
  <1>7. \A k \in 1..n : Kept(seq, I)[k] = seq[at[k]]
    BY <1>4
  <1>8. Places(seq, I, Kept(seq, I), at)
    BY <1>2, <1>7 DEF n, Places
  <1> QED BY <1>2, <1>6, <1>8 DEF n

---------------------------------------------------------------------------
(* Open addressing. *)

\* Every slot is reached from every hash.
LEMMA Reached ==
  ASSUME NEW c \in Nat \ {0}, NEW h \in Nat, NEW p \in 0..(c - 1)
  PROVE  \E k \in 0..(c - 1) : (h + k) % c = p
  <1>1. h = c * (h \div c) + (h % c) /\ h % c \in 0..(c - 1) /\ h \div c \in Nat
    OBVIOUS
  <1>2. PICK q \in Nat, r \in 0..(c - 1) : h = c * q + r
    BY <1>1
  <1>3. CASE r <= p
    <2>1. p - r \in 0..(c - 1) /\ h + (p - r) = c * q + p
      BY <1>2, <1>3
    <2>2. (c * q + p) % c = p
      OBVIOUS
    <2> QED BY <2>1, <2>2
  <1>4. CASE p < r
    <2>1. p - r + c \in 0..(c - 1) /\ h + (p - r + c) = c * (q + 1) + p
      BY <1>2, <1>4
    <2>2. (c * (q + 1) + p) % c = p
      OBVIOUS
    <2> QED BY <2>1, <2>2
  <1> QED BY <1>2, <1>3, <1>4

\* The table of c slots holds each entry once, after no free slot of its chain,
\* and has a free slot.
Holds(slots, c, hashes) ==
  /\ c \in Nat \ {0} /\ Len(hashes) < c
  /\ slots \in [0..(c - 1) -> 0..Len(hashes)]
  /\ \A p, q \in 0..(c - 1) : slots[p] = slots[q] /\ slots[p] # 0 => p = q
  /\ \A i \in 1..Len(hashes) : \E k \in 0..(c - 1) :
       /\ slots[(hashes[i] + k) % c] = i
       /\ \A e \in 0..(k - 1) : slots[(hashes[i] + e) % c] # 0

\* There is a table, or nothing to hold.
Table(slots, hashes) ==
  \/ slots = <<>> /\ Len(hashes) = 0
  \/ \E c \in Nat : Holds(slots, c, hashes)

LEMMA CapacityIs ==
  ASSUME NEW c \in Nat \ {0}, NEW V, NEW slots \in [0..(c - 1) -> V]
  PROVE  Capacity(slots) = c /\ slots # <<>>
  <1>1. Cardinality(0..(c - 1)) = c
    BY FS_Interval
  <1>2. DOMAIN slots = 0..(c - 1) /\ 0 \in DOMAIN slots
    OBVIOUS
  <1>3. slots # <<>>
    BY <1>2
  <1> QED BY <1>1, <1>2, <1>3 DEF Capacity

\* A free slot comes after every hash.
LEMMA FreeSlot ==
  ASSUME NEW slots, NEW c, NEW hashes \in Seq(Nat), Holds(slots, c, hashes), NEW h \in Nat
  PROVE  \E k \in 0..(c - 1) : slots[(h + k) % c] = 0
  <1> DEFINE n == Len(hashes)
  <1>1. c \in Nat \ {0} /\ n \in Nat /\ n < c /\ slots \in [0..(c - 1) -> 0..n]
    BY DEF Holds
  <1> HIDE DEF n
  <1>2. \E p \in 0..(c - 1) : slots[p] = 0
    <2> SUFFICES ASSUME \A p \in 0..(c - 1) : slots[p] # 0 PROVE FALSE
      OBVIOUS
    <2>1. slots \in [0..(c - 1) -> 1..n]
      BY <1>1
    <2>2. slots \in Injection(0..(c - 1), 1..n)
      BY <2>1 DEF Holds, Injection, IsInjective
    <2>3. IsFiniteSet(1..n) /\ Cardinality(1..n) = n
      BY <1>1, FS_Interval
    <2>5. Cardinality(0..(c - 1)) = c
      BY <1>1, FS_Interval
    <2>4. c <= n
      BY <2>2, <2>3, <2>5, FS_Injection
    <2> QED BY <1>1, <2>4
  <1>3. PICK p \in 0..(c - 1) : slots[p] = 0
    BY <1>2
  <1>4. c \in Nat \ {0}
    BY <1>1
  <1>5. PICK k \in 0..(c - 1) : (h + k) % c = p
    BY <1>4, Reached
  <1> QED BY <1>3, <1>5

\* Where a probe stops.
LEMMA ProbeStops ==
  ASSUME NEW c \in Nat \ {0}, NEW V, NEW slots \in [0..(c - 1) -> V], NEW h \in Nat, NEW stops,
         NEW k0 \in 0..(c - 1), slots[(h + k0) % c] \in stops
  PROVE  \E k \in 0..k0 :
           /\ Probe(slots, h, stops) = (h + k) % c
           /\ (h + k) % c \in 0..(c - 1)
           /\ slots[(h + k) % c] \in stops
           /\ \A e \in 0..(k - 1) : slots[(h + e) % c] \notin stops
  <1> DEFINE K == {k \in DOMAIN slots : slots[(h + k) % c] \in stops}
  <1>1. Capacity(slots) = c
    BY CapacityIs
  <1>2. k0 \in K /\ K \in SUBSET Nat /\ K \in SUBSET (0..(c - 1))
    OBVIOUS
  <1>3. Probe(slots, h, stops) = (h + Min(K)) % c
    BY <1>1 DEF Probe
  <1> DEFINE m == Min(K)
  <1>4. \E x \in K : \A y \in K : x <= y
    <2> HIDE DEF K
    <2> QED BY <1>2, LeastNatural
  <1>5. m \in K /\ \A y \in K : m <= y
    BY <1>4 DEF Min
  <1> HIDE DEF m
  <1>6. m \in 0..k0 /\ m \in 0..(c - 1)
    BY <1>2, <1>5
  <1>7. (h + m) % c \in 0..(c - 1)
    BY <1>6
  <1>8. ASSUME NEW e \in 0..(m - 1) PROVE slots[(h + e) % c] \notin stops
    BY <1>5, <1>6
  <1>9. slots[(h + m) % c] \in stops
    BY <1>5
  <1> QED BY <1>3, <1>6, <1>7, <1>8, <1>9 DEF m

\* A probe for an entry of the table finds it.
LEMMA FindEntry ==
  ASSUME NEW slots, NEW hashes \in Seq(Nat), Table(slots, hashes), NEW i \in 1..Len(hashes)
  PROVE  Find(slots, hashes[i], {i}) = i
  <1>1. PICK c \in Nat : Holds(slots, c, hashes)
    BY DEF Table
  <1>2. /\ c \in Nat \ {0} /\ slots \in [0..(c - 1) -> 0..Len(hashes)]
        /\ hashes[i] \in Nat /\ i # 0
    BY <1>1 DEF Holds
  <1>3. PICK k0 \in 0..(c - 1) :
          /\ slots[(hashes[i] + k0) % c] = i
          /\ \A e \in 0..(k0 - 1) : slots[(hashes[i] + e) % c] # 0
    BY <1>1 DEF Holds
  <1>4. slots[(hashes[i] + k0) % c] \in {0} \cup {i}
    BY <1>3
  <1>5. PICK k \in 0..k0 :
          /\ Probe(slots, hashes[i], {0} \cup {i}) = (hashes[i] + k) % c
          /\ slots[(hashes[i] + k) % c] \in {0} \cup {i}
    BY <1>2, <1>4, ProbeStops
  <1>6. slots[(hashes[i] + k) % c] = i
    <2>1. k = k0 \/ k \in 0..(k0 - 1)
      OBVIOUS
    <2> QED BY <1>3, <1>5, <2>1
  <1>7. slots # <<>>
    BY <1>2, CapacityIs
  <1> QED BY <1>5, <1>6, <1>7 DEF Find

\* A probe for what no entry is finds nothing.
LEMMA FindNothing ==
  ASSUME NEW slots, NEW hashes \in Seq(Nat), Table(slots, hashes), NEW h \in Nat
  PROVE  Find(slots, h, {}) = 0
  <1>1. CASE slots = <<>>
    BY <1>1 DEF Find
  <1>2. ASSUME NEW c \in Nat, Holds(slots, c, hashes) PROVE Find(slots, h, {}) = 0
    <2>1. c \in Nat \ {0} /\ slots \in [0..(c - 1) -> 0..Len(hashes)]
      BY <1>2 DEF Holds
    <2>2. PICK k0 \in 0..(c - 1) : slots[(h + k0) % c] = 0
      BY <1>2, FreeSlot
    <2>3. slots[(h + k0) % c] \in {0} \cup {}
      BY <2>2
    <2>4. PICK k \in 0..k0 :
            /\ Probe(slots, h, {0} \cup {}) = (h + k) % c
            /\ slots[(h + k) % c] \in {0} \cup {}
      BY <2>1, <2>3, ProbeStops
    <2>5. slots # <<>>
      BY <2>1, CapacityIs
    <2> QED BY <2>4, <2>5 DEF Find
  <1> QED BY <1>1, <1>2 DEF Table

\* One more entry in a table with room for it.
LEMMA InsertHolds ==
  ASSUME NEW slots, NEW c, NEW hashes \in Seq(Nat), Holds(slots, c, hashes), NEW h \in Nat,
         Len(hashes) + 1 < c
  PROVE  Holds(Insert(slots, h, Len(hashes) + 1), c, Append(hashes, h))
  <1> DEFINE n == Len(hashes)
             more == Append(hashes, h)
             table == Insert(slots, h, n + 1)
  <1>1. c \in Nat \ {0} /\ n \in Nat /\ slots \in [0..(c - 1) -> 0..n]
    BY DEF Holds
  <1>2. Len(more) = n + 1 /\ more[n + 1] = h /\ \A i \in 1..n : more[i] = hashes[i]
    OBVIOUS
  <1>h. \A i \in 1..n : hashes[i] \in Nat
    OBVIOUS
  <1>3. PICK k0 \in 0..(c - 1) : slots[(h + k0) % c] = 0
    BY FreeSlot
  <1>4. slots[(h + k0) % c] \in {0}
    BY <1>3
  <1>5. PICK k \in 0..k0 :
          /\ Probe(slots, h, {0}) = (h + k) % c
          /\ (h + k) % c \in 0..(c - 1)
          /\ slots[(h + k) % c] \in {0}
          /\ \A e \in 0..(k - 1) : slots[(h + e) % c] \notin {0}
    BY <1>1, <1>4, ProbeStops
  <1> DEFINE p == (h + k) % c
  <1>6. table = [slots EXCEPT ![p] = n + 1]
    BY <1>5 DEF Insert
  <1>p. p \in 0..(c - 1) /\ slots[p] = 0
    BY <1>5
  <1> HIDE DEF n, table, p, more
  <1>7. table \in [0..(c - 1) -> 0..(n + 1)]
    BY <1>1, <1>6, <1>p
  <1>8. /\ table[p] = n + 1
        /\ \A q \in 0..(c - 1) : q # p => table[q] = slots[q]
    BY <1>1, <1>6, <1>p
  <1>9. \A q, r \in 0..(c - 1) : table[q] = table[r] /\ table[q] # 0 => q = r
    <2> SUFFICES ASSUME NEW q \in 0..(c - 1), NEW r \in 0..(c - 1), table[q] = table[r],
                        table[q] # 0, q # r
                 PROVE FALSE
      OBVIOUS
    <2>1. slots[q] \in 0..n /\ slots[r] \in 0..n
      BY <1>1
    <2>2. q # p /\ r # p
      BY <1>1, <1>8, <2>1
    <2>3. slots[q] = slots[r] /\ slots[q] # 0
      BY <1>8, <2>2
    <2> QED BY <2>3 DEF Holds
  <1>10. ASSUME NEW i \in 1..(n + 1)
         PROVE  \E d \in 0..(c - 1) :
                  /\ table[(more[i] + d) % c] = i
                  /\ \A e \in 0..(d - 1) : table[(more[i] + e) % c] # 0
    <2>0. \A x \in Nat, e \in Nat : (x + e) % c \in 0..(c - 1)
      BY <1>1
    <2>1. CASE i = n + 1
      <3>0. k \in 0..(c - 1)
        BY <1>1, <1>5
      <3>1. table[(h + k) % c] = n + 1
        BY <1>8 DEF p
      <3>2. ASSUME NEW e \in 0..(k - 1) PROVE table[(h + e) % c] # 0
        <4>1. slots[(h + e) % c] # 0
          BY <1>5
        <4>2. (h + e) % c \in 0..(c - 1)
          BY <2>0, <3>0
        <4> QED BY <1>1, <1>p, <1>8, <4>1, <4>2
      <3> QED BY <1>2, <2>1, <3>0, <3>1, <3>2
    <2>2. CASE i \in 1..n
      <3>1. PICK d \in 0..(c - 1) :
              /\ slots[(hashes[i] + d) % c] = i
              /\ \A e \in 0..(d - 1) : slots[(hashes[i] + e) % c] # 0
        BY <2>2 DEF Holds, n
      <3>2. table[(hashes[i] + d) % c] = i
        <4>1. (hashes[i] + d) % c \in 0..(c - 1)
          BY <1>h, <2>0, <2>2
        <4> QED BY <1>p, <1>8, <2>2, <3>1, <4>1
      <3>3. ASSUME NEW e \in 0..(d - 1) PROVE table[(hashes[i] + e) % c] # 0
        <4>1. (hashes[i] + e) % c \in 0..(c - 1) /\ slots[(hashes[i] + e) % c] # 0
          BY <1>h, <2>0, <2>2, <3>1
        <4> QED BY <1>1, <1>p, <1>8, <4>1
      <3> QED BY <1>2, <2>2, <3>1, <3>2, <3>3
    <2> QED BY <1>1, <2>1, <2>2
  <1>11. Len(hashes) + 1 < c
    OBVIOUS
  <1> QED BY <1>1, <1>2, <1>7, <1>9, <1>10, <1>11 DEF Holds, n, table, more

\* A table of the size found has room for twice the entries.
LEMMA SizeFits ==
  ASSUME NEW from \in Nat \ {0}, NEW entries \in Nat
  PROVE  SizeFor(from, entries) \in Nat \ {0} /\ SizeFor(from, entries) >= 2 * entries
  <1> DEFINE Next1(v) == IF v >= entries * 2 THEN v ELSE v * 2
             T == [k \in 0..entries |->
                     {v \in Nat \ {0} : v >= entries * 2 \/ v >= k * 2}]
             step == [p \in (1..entries) \X Nat |-> Next1(p[2])]
             Is(f) == f = [k \in 0..entries |->
                             IF k = 0 THEN from
                             ELSE IF f[k - 1] >= entries * 2 THEN f[k - 1] ELSE f[k - 1] * 2]
  <1>1. from \in T[0]
    OBVIOUS
  <1>2. ASSUME NEW k \in 1..entries, NEW v \in T[k - 1]
        PROVE  Next1(v) \in T[k]
    <2>1. v \in Nat \ {0} /\ (v >= entries * 2 \/ v >= (k - 1) * 2)
      OBVIOUS
    <2>2. CASE v >= entries * 2
      BY <2>1, <2>2
    <2>3. CASE ~(v >= entries * 2)
      <3>1. v >= k
        BY <2>1, <2>3
      <3>2. v * 2 \in Nat \ {0} /\ v * 2 >= k * 2
        BY <2>1, <3>1
      <3> QED BY <2>3, <3>2
    <2> QED BY <2>2, <2>3
  <1>3. \A k \in 1..entries : \A v \in T[k - 1] : v \in Nat /\ step[<<k, v>>] = Next1(v)
    <2> HIDE DEF Next1
    <2> QED OBVIOUS
  <1> HIDE DEF T, step
  <1>4. \E f : Is(f)
    <2>1. \A k \in 1..entries : \A v \in T[k - 1] : step[<<k, v>>] \in T[k]
      <3> HIDE DEF Next1
      <3> QED BY <1>2, <1>3
    <2>2. PICK f : Iterates(f, entries, T, from, step)
      BY <1>1, <2>1, Recursion DEF Leads
    <2>3. \A i \in 1..entries : f[i] = Next1(f[i - 1])
      <3>1. \A i \in 1..entries : i - 1 \in 0..entries
        OBVIOUS
      <3> HIDE DEF Next1
      <3> QED BY <1>3, <2>2, <3>1 DEF Iterates
    <2>4. \A i \in 0..entries : f[i] = IF i = 0 THEN from ELSE Next1(f[i - 1])
      <3>1. f[0] = from
        BY <2>2 DEF Iterates
      <3>2. \A i \in 0..entries : i # 0 => i \in 1..entries
        OBVIOUS
      <3> HIDE DEF Next1
      <3> QED BY <2>3, <3>1, <3>2
    <2>5. Is(f)
      BY <2>2, <2>4 DEF Iterates
    <2> QED BY <2>5
  <1>5. PICK f : Is(f) /\ SizeFor(from, entries) = f[entries]
    BY <1>4 DEF SizeFor
  <1>6. f[0] = from /\ \A k \in 1..entries : f[k] = Next1(f[k - 1])
    BY <1>5
  <1>7. \A k \in 0..entries : f[k] \in T[k]
    <2>1. f[0] \in T[0]
      BY <1>1, <1>6
    <2>2. \A k \in 1..entries : f[k - 1] \in T[k - 1] => f[k] \in T[k]
      <3> HIDE DEF Next1
      <3> QED BY <1>2, <1>6
    <2> QED BY <2>1, <2>2, Passes
  <1>8. f[entries] \in T[entries]
    BY <1>7
  <1> QED BY <1>5, <1>8 DEF T

\* A table filled with entries that leave it room holds them.
LEMMA FillHolds ==
  ASSUME NEW size \in Nat \ {0}, NEW hashes \in Seq(Nat), Len(hashes) < size
  PROVE  Holds(Fill(size, hashes), size, hashes)
  <1> DEFINE n == Len(hashes)
             zero == [k \in 0..(size - 1) |-> 0]
             V == [0..(size - 1) -> Nat]
             upto(i) == SubSeq(hashes, 1, i)
             T == [i \in 0..n |-> {slots \in V : Holds(slots, size, upto(i))}]
             step == [p \in (1..n) \X V |-> Insert(p[2], hashes[p[1]], p[1])]
             Is(f) == f = [i \in 0..n |-> IF i = 0 THEN zero ELSE Insert(f[i - 1], hashes[i], i)]
  <1>0. n \in Nat /\ \A i \in 1..n : hashes[i] \in Nat
    OBVIOUS
  <1>1. zero \in T[0]
    <2>1. zero \in [0..(size - 1) -> 0..0] /\ zero \in V
      OBVIOUS
    <2>2. upto(0) = <<>> /\ Len(upto(0)) = 0
      OBVIOUS
    <2>3. Holds(zero, size, upto(0))
      BY <2>1, <2>2 DEF Holds
    <2> HIDE DEF zero, upto, V
    <2> QED BY <1>0, <2>1, <2>3
  <1>2. ASSUME NEW i \in 1..n, NEW slots \in T[i - 1]
        PROVE  Insert(slots, hashes[i], i) \in T[i]
    <2>1. /\ upto(i - 1) \in Seq(Nat) /\ Len(upto(i - 1)) = i - 1
          /\ upto(i) = Append(upto(i - 1), hashes[i]) /\ Len(upto(i)) = i
      <3> HIDE DEF T
      <3> QED OBVIOUS
    <2>2. Holds(slots, size, upto(i - 1)) /\ (i - 1) + 1 < size
      OBVIOUS
    <2> HIDE DEF upto
    <2>3. Holds(Insert(slots, hashes[i], (i - 1) + 1), size, Append(upto(i - 1), hashes[i]))
      BY <1>0, <2>1, <2>2, InsertHolds
    <2>4. Holds(Insert(slots, hashes[i], i), size, upto(i))
      BY <2>1, <2>3
    <2>5. Insert(slots, hashes[i], i) \in V
      <3>1. Insert(slots, hashes[i], i) \in [0..(size - 1) -> 0..i]
        BY <2>1, <2>4 DEF Holds
      <3>2. 0..i \subseteq Nat
        OBVIOUS
      <3> QED BY <3>1, <3>2
    <2> HIDE DEF V
    <2> QED BY <2>4, <2>5
  <1>3. \A i \in 1..n : \A v \in T[i - 1] : step[<<i, v>>] = Insert(v, hashes[i], i)
    <2>1. \A i \in 1..n : \A v \in T[i - 1] : v \in V
      <3> HIDE DEF upto, V
      <3> QED OBVIOUS
    <2> HIDE DEF T, V, n
    <2> QED BY <2>1
  <1> HIDE DEF T, step, zero
  <1>5. \E f : Is(f)
    <2>1. \A i \in 1..n : \A v \in T[i - 1] : step[<<i, v>>] \in T[i]
      BY <1>2, <1>3
    <2>2. PICK f : Iterates(f, n, T, zero, step)
      <3> HIDE DEF n
      <3> QED BY <1>0, <1>1, <2>1, Recursion DEF Leads
    <2>3. \A i \in 1..n : f[i] = Insert(f[i - 1], hashes[i], i)
      <3>1. \A i \in 1..n : f[i - 1] \in T[i - 1]
        BY <1>0, <2>2 DEF Iterates
      <3> QED BY <1>3, <2>2, <3>1 DEF Iterates
    <2>4. \A i \in 0..n : f[i] = IF i = 0 THEN zero ELSE Insert(f[i - 1], hashes[i], i)
      <3>1. f[0] = zero
        BY <2>2 DEF Iterates
      <3>2. \A i \in 0..n : i # 0 => i \in 1..n
        BY <1>0
      <3> HIDE DEF n
      <3> QED BY <2>3, <3>1, <3>2
    <2>5. Is(f)
      <3> HIDE DEF n
      <3> QED BY <2>2, <2>4 DEF Iterates
    <2> QED BY <2>5
  <1>6. PICK f : Is(f) /\ Fill(size, hashes) = f[n]
    BY <1>5 DEF Fill, zero
  <1> HIDE DEF n
  <1>7. f[0] = zero /\ \A i \in 1..n : f[i] = Insert(f[i - 1], hashes[i], i)
    BY <1>0, <1>6
  <1>8. \A i \in 0..n : f[i] \in T[i]
    <2>1. f[0] \in T[0]
      BY <1>1, <1>7
    <2>2. \A i \in 1..n : f[i - 1] \in T[i - 1] => f[i] \in T[i]
      BY <1>2, <1>7
    <2> QED BY <1>0, <2>1, <2>2, Passes
  <1>9. f[n] \in T[n]
    BY <1>0, <1>8
  <1>10. upto(n) = hashes
    BY DEF n
  <1>11. Holds(f[n], size, upto(n))
    <2> HIDE DEF V, upto
    <2> QED BY <1>0, <1>9 DEF T
  <1> QED BY <1>6, <1>10, <1>11

---------------------------------------------------------------------------
(* What holds of a graph between two operations. *)

Node == [token : Tokens, observations : Nat]
Edge == [source : Nat, target : Nat, observations : Nat]
Note == [node : Nat, weight : Nat]
Episode == [id : Nat, at : Nat, recalls : Nat, summary : Seq(Note)]
Group == [key : {GroupKey(s) : s \in Seq(Nat)}, tokens : SUBSET Nat]
Feeling == [node : Nat, signals : Seq(Signs)]
Migration == [boundary : Nat, source : Nat, target : Nat]
Slots == {<<>>} \cup UNION {[0..(c - 1) -> Nat] : c \in Nat}

Graphs ==
  [nodes : Seq(Node), edges : Seq(Edge), episodes : Seq(Episode), groups : Seq(Group),
   member : Seq(Nat), valence : Seq(Feeling), log : Seq(Nat), mirror : Seq(Nat),
   node_index : Slots, edge_index : Slots, architecture : Nat, migrations : Seq(Migration)]

\* No token has two nodes.
NodesSound(nodes) ==
  \A i, k \in 1..Len(nodes) : nodes[i].token = nodes[k].token => i = k

\* An edge joins two nodes, and no two join the same.
EdgesSound(n, edges) ==
  /\ \A i \in 1..Len(edges) : edges[i].source \in 1..n /\ edges[i].target \in 1..n
  /\ \A i, k \in 1..Len(edges) :
       edges[i].source = edges[k].source /\ edges[i].target = edges[k].target => i = k

\* A summary is short and names nodes.
SummarySound(n, summary) ==
  Len(summary) <= SummarySize /\ \A k \in 1..Len(summary) : summary[k].node \in 1..n

EpisodesSound(n, episodes) ==
  \A i \in 1..Len(episodes) : SummarySound(n, episodes[i].summary)

\* The records are in node order, each of an event, and the log is short.
ValenceSound(n, valence, log) ==
  /\ \A i \in 1..Len(valence) : valence[i].node \in 1..n /\ valence[i].signals # <<>>
  /\ \A i, k \in 1..Len(valence) : i < k => valence[i].node < valence[k].node
  /\ Len(log) <= EventCapacity /\ \A i \in 1..Len(log) : log[i] \in 1..n

\* The generations are a chain that ends at the one the graph has.
Migrated(migrations, architecture) ==
  migrations # <<>> => /\ MigrationsChain(migrations)
                       /\ Last(migrations).target = architecture

\* What a snapshot holds of a graph.
Stored(graph) ==
  /\ graph \in Graphs
  /\ NodesSound(graph.nodes)
  /\ EdgesSound(Len(graph.nodes), graph.edges)
  /\ EpisodesSound(Len(graph.nodes), graph.episodes)
  /\ ValenceSound(Len(graph.nodes), graph.valence, graph.log)
  /\ Migrated(graph.migrations, graph.architecture)

\* The tables hold the arrays.
Indexed(graph) ==
  /\ Table(graph.node_index, NodeHashes(graph.nodes))
  /\ Table(graph.edge_index, EdgeHashes(graph.edges))

\* A union is finite and within its limit.
GroupsSound(groups) ==
  \A j \in 1..Len(groups) :
    IsFiniteSet(groups[j].tokens) /\ Cardinality(groups[j].tokens) <= GroupTokenMax

\* A group that is not full has every node of the summary.
Covers(group, summary) ==
  \/ Cardinality(group.tokens) = GroupTokenMax
  \/ \A k \in 1..Len(summary) : summary[k].node \in group.tokens

\* Each of the first n episodes has a group that covers it.
Covered(episodes, n, groups, member) ==
  /\ Len(member) = n
  /\ \A i \in 1..n : /\ member[i] \in 1..Len(groups)
                     /\ Covers(groups[member[i]], episodes[i].summary)

Grouped(graph) ==
  /\ GroupsSound(graph.groups)
  /\ Covered(graph.episodes, Len(graph.episodes), graph.groups, graph.member)

Sound(graph) == Stored(graph) /\ Indexed(graph) /\ Grouped(graph)

---------------------------------------------------------------------------
(* Finding and adding nodes and edges. *)

\* The constants that the proofs use.
LEMMA GraphConstants ==
  /\ IsFiniteSet(Tokens) /\ Cardinality(Tokens) \in Nat
  /\ NodeCapacity \in Nat /\ EdgeCapacity \in Nat
  /\ EpisodeMax \in Nat \ {0} /\ SummarySize \in Nat \ {0}
  /\ GroupTokenMax \in Nat \ {0} /\ EventCapacity \in Nat \ {0}
  /\ NodeFloor \in Nat \ {0} /\ EdgeFloor \in Nat \ {0}
  /\ \A t \in Tokens : HashToken(t) \in Nat
  /\ \A t \in Concepts : HashToken(t) \in Nat
  BY GraphAssumption, FS_CardinalityType

\* Nodes are at most as many as tokens.
LEMMA NodesFew ==
  ASSUME NEW nodes \in Seq(Node), NodesSound(nodes)
  PROVE  Len(nodes) \in Nat /\ Len(nodes) <= Cardinality(Tokens)
  <1> DEFINE n == Len(nodes)
             f == [i \in 1..n |-> nodes[i].token]
  <1>1. n \in Nat /\ \A i \in 1..n : nodes[i] \in Node
    OBVIOUS
  <1>2. f \in [1..n -> Tokens]
    BY <1>1 DEF Node
  <1>3. f \in Injection(1..n, Tokens)
    <2>1. \A i, k \in 1..n : f[i] = f[k] => i = k
      BY DEF NodesSound
    <2> HIDE DEF f
    <2> QED BY <1>2, <2>1 DEF Injection, IsInjective
  <1>4. Cardinality(1..n) <= Cardinality(Tokens)
    <2> HIDE DEF f, n
    <2> QED BY <1>3, GraphConstants, FS_Injection
  <1>5. Cardinality(1..n) = n
    <2> HIDE DEF n
    <2> QED BY <1>1, FS_Interval
  <1> QED BY <1>1, <1>4, <1>5

LEMMA NodeHashesAre ==
  ASSUME NEW nodes \in Seq(Node)
  PROVE  /\ NodeHashes(nodes) \in Seq(Nat) /\ Len(NodeHashes(nodes)) = Len(nodes)
         /\ \A i \in 1..Len(nodes) : NodeHashes(nodes)[i] = HashToken(nodes[i].token)
  <1>1. Len(nodes) \in Nat /\ DOMAIN nodes = 1..Len(nodes)
        /\ \A i \in 1..Len(nodes) : nodes[i] \in Node
    OBVIOUS
  <1>2. \A i \in 1..Len(nodes) : HashToken(nodes[i].token) \in Nat
    BY <1>1, GraphConstants DEF Node
  <1>3. NodeHashes(nodes) = [i \in 1..Len(nodes) |-> HashToken(nodes[i].token)]
    BY <1>1 DEF NodeHashes
  <1> QED BY <1>1, <1>2, <1>3

LEMMA EdgeHashesAre ==
  ASSUME NEW nodes \in Seq(Node), NodesSound(nodes),
         NEW edges \in Seq(Edge), EdgesSound(Len(nodes), edges)
  PROVE  /\ EdgeHashes(edges) \in Seq(Nat) /\ Len(EdgeHashes(edges)) = Len(edges)
         /\ \A i \in 1..Len(edges) :
              EdgeHashes(edges)[i] = HashEdge(edges[i].source, edges[i].target)
         /\ \A s, t \in 1..Len(nodes) : HashEdge(s, t) \in Nat
  <1>1. Len(edges) \in Nat /\ DOMAIN edges = 1..Len(edges)
    OBVIOUS
  <1>2. Len(nodes) \in Nat /\ Len(nodes) <= Cardinality(Tokens) /\ Cardinality(Tokens) \in Nat
    BY NodesFew, GraphConstants
  <1>3. \A s, t \in 1..Len(nodes) : HashEdge(s, t) \in Nat
    <2>1. \A s \in 1..Len(nodes) : s \in 1..Cardinality(Tokens)
      BY <1>2
    <2> QED BY <2>1, GraphAssumption
  <1>4. \A i \in 1..Len(edges) : HashEdge(edges[i].source, edges[i].target) \in Nat
    BY <1>3 DEF EdgesSound
  <1>5. EdgeHashes(edges) = [i \in 1..Len(edges) |-> HashEdge(edges[i].source, edges[i].target)]
    BY <1>1 DEF EdgeHashes
  <1> QED BY <1>1, <1>3, <1>4, <1>5

\* A node is found by its token, and only by it.
LEMMA FoundNode ==
  ASSUME NEW graph, Stored(graph), Indexed(graph), NEW token \in Tokens \cup Concepts
  PROVE  \/ /\ find_node(graph, token) \in 1..Len(graph.nodes)
            /\ graph.nodes[find_node(graph, token)].token = token
         \/ /\ find_node(graph, token) = 0
            /\ \A i \in 1..Len(graph.nodes) : graph.nodes[i].token # token
  <1> DEFINE nodes == graph.nodes
             n == Len(nodes)
             matches == {i \in DOMAIN graph.nodes : graph.nodes[i].token = token}
             hashes == NodeHashes(nodes)
  <1>1. nodes \in Seq(Node) /\ NodesSound(nodes)
    BY DEF Stored, Graphs
  <1>2. n \in Nat /\ DOMAIN nodes = 1..n
    BY <1>1
  <1>3. hashes \in Seq(Nat) /\ Len(hashes) = n
        /\ \A i \in 1..n : hashes[i] = HashToken(nodes[i].token)
    BY <1>1, NodeHashesAre
  <1>4. Table(graph.node_index, hashes)
    BY DEF Indexed
  <1>5. find_node(graph, token) = Find(graph.node_index, HashToken(token), matches)
    BY DEF find_node
  <1>6. ASSUME NEW i \in 1..n, nodes[i].token = token
        PROVE  find_node(graph, token) = i
    <2>1. matches = {i}
      BY <1>1, <1>2, <1>6 DEF NodesSound
    <2>2. HashToken(token) = hashes[i]
      BY <1>3, <1>6
    <2> HIDE DEF matches, hashes, nodes, n
    <2>3. i \in 1..Len(hashes)
      BY <1>3
    <2>4. Find(graph.node_index, hashes[i], {i}) = i
      BY <1>3, <1>4, <2>3, FindEntry
    <2> QED BY <1>5, <2>1, <2>2, <2>4
  <1>7. ASSUME \A i \in 1..n : nodes[i].token # token
        PROVE  find_node(graph, token) = 0
    <2>1. matches = {}
      BY <1>2, <1>7
    <2>2. HashToken(token) \in Nat
      BY GraphConstants
    <2> HIDE DEF matches, hashes, nodes, n
    <2>3. Find(graph.node_index, HashToken(token), {}) = 0
      BY <1>3, <1>4, <2>2, FindNothing
    <2> QED BY <1>5, <2>1, <2>3
  <1> QED BY <1>6, <1>7

\* An edge is found by its ends, and only by them.
LEMMA FoundEdge ==
  ASSUME NEW graph, Stored(graph), Indexed(graph),
         NEW s \in 1..Len(graph.nodes), NEW t \in 1..Len(graph.nodes)
  PROVE  \/ /\ find_edge(graph, s, t) \in 1..Len(graph.edges)
            /\ graph.edges[find_edge(graph, s, t)].source = s
            /\ graph.edges[find_edge(graph, s, t)].target = t
         \/ /\ find_edge(graph, s, t) = 0
            /\ \A i \in 1..Len(graph.edges) :
                 ~(graph.edges[i].source = s /\ graph.edges[i].target = t)
  <1> DEFINE nodes == graph.nodes
             edges == graph.edges
             n == Len(edges)
             matches == {i \in DOMAIN graph.edges :
                           graph.edges[i].source = s /\ graph.edges[i].target = t}
             hashes == EdgeHashes(edges)
  <1>1. /\ nodes \in Seq(Node) /\ NodesSound(nodes)
        /\ edges \in Seq(Edge) /\ EdgesSound(Len(nodes), edges)
    BY DEF Stored, Graphs
  <1>2. n \in Nat /\ DOMAIN edges = 1..n
    BY <1>1
  <1>3. /\ hashes \in Seq(Nat) /\ Len(hashes) = n
        /\ \A i \in 1..n : hashes[i] = HashEdge(edges[i].source, edges[i].target)
        /\ HashEdge(s, t) \in Nat
    BY <1>1, EdgeHashesAre
  <1>4. Table(graph.edge_index, hashes)
    BY DEF Indexed
  <1>5. find_edge(graph, s, t) = Find(graph.edge_index, HashEdge(s, t), matches)
    BY DEF find_edge
  <1>6. ASSUME NEW i \in 1..n, edges[i].source = s, edges[i].target = t
        PROVE  find_edge(graph, s, t) = i
    <2>1. matches = {i}
      BY <1>1, <1>2, <1>6 DEF EdgesSound
    <2>2. HashEdge(s, t) = hashes[i]
      BY <1>3, <1>6
    <2> HIDE DEF matches, hashes, nodes, n
    <2>3. i \in 1..Len(hashes)
      BY <1>3
    <2>4. Find(graph.edge_index, hashes[i], {i}) = i
      BY <1>3, <1>4, <2>3, FindEntry
    <2> QED BY <1>5, <2>1, <2>2, <2>4
  <1>7. ASSUME \A i \in 1..n : ~(edges[i].source = s /\ edges[i].target = t)
        PROVE  find_edge(graph, s, t) = 0
    <2>1. matches = {}
      BY <1>2, <1>7
    <2> HIDE DEF matches, hashes, nodes, n
    <2>3. Find(graph.edge_index, HashEdge(s, t), {}) = 0
      BY <1>3, <1>4, FindNothing
    <2> QED BY <1>5, <2>1, <2>3
  <1> QED BY <1>6, <1>7

LEMMA TableSlots ==
  ASSUME NEW slots, NEW hashes \in Seq(Nat), Table(slots, hashes)
  PROVE  slots \in Slots
  <1>1. ASSUME NEW c \in Nat, Holds(slots, c, hashes) PROVE slots \in Slots
    <2>1. slots \in [0..(c - 1) -> 0..Len(hashes)] /\ 0..Len(hashes) \subseteq Nat
      BY <1>1 DEF Holds
    <2>2. slots \in [0..(c - 1) -> Nat]
      BY <2>1
    <2> QED BY <2>2 DEF Slots
  <1> QED BY <1>1 DEF Table, Slots

\* A table of fresh size holds the entries, with room for one more.
LEMMA FillFits ==
  ASSUME NEW from \in Nat \ {0}, NEW hashes \in Seq(Nat)
  PROVE  \E c \in Nat : /\ Holds(Fill(SizeFor(from, Len(hashes) + 1), hashes), c, hashes)
                        /\ Len(hashes) + 1 < c
  <1> DEFINE c == SizeFor(from, Len(hashes) + 1)
  <1>1. Len(hashes) \in Nat /\ Len(hashes) + 1 \in Nat
    OBVIOUS
  <1>2. c \in Nat \ {0} /\ c >= 2 * (Len(hashes) + 1)
    BY <1>1, SizeFits
  <1> HIDE DEF c
  <1>3. Len(hashes) < c /\ Len(hashes) + 1 < c
    BY <1>1, <1>2
  <1>4. Holds(Fill(c, hashes), c, hashes)
    BY <1>2, <1>3, FillHolds
  <1> QED BY <1>2, <1>3, <1>4 DEF c

\* Growing keeps the entries and makes room.
LEMMA GrowHolds ==
  ASSUME NEW slots, NEW hashes \in Seq(Nat), Table(slots, hashes), NEW floor \in Nat \ {0}
  PROVE  \E c \in Nat : /\ Holds(MaybeGrow(slots, floor, hashes), c, hashes)
                        /\ Len(hashes) + 1 < c
  <1>1. Len(hashes) \in Nat
    OBVIOUS
  <1>2. CASE slots = <<>>
    <2>1. Capacity(slots) = 0
      <3>1. DOMAIN slots = {}
        BY <1>2
      <3> QED BY <3>1, FS_EmptySet DEF Capacity
    <2>2. MaybeGrow(slots, floor, hashes) = Fill(SizeFor(floor, Len(hashes) + 1), hashes)
      BY <1>1, <1>2, <2>1 DEF MaybeGrow, Rebuilt
    <2> QED BY <2>2, FillFits
  <1>3. ASSUME NEW c \in Nat, Holds(slots, c, hashes)
        PROVE  \E d \in Nat : /\ Holds(MaybeGrow(slots, floor, hashes), d, hashes)
                              /\ Len(hashes) + 1 < d
    <2>1. c \in Nat \ {0} /\ slots \in [0..(c - 1) -> 0..Len(hashes)]
      BY <1>3 DEF Holds
    <2>2. Capacity(slots) = c /\ slots # <<>>
      BY <2>1, CapacityIs
    <2>3. CASE Len(hashes) * 2 + 2 > c
      <3>1. MaybeGrow(slots, floor, hashes) = Fill(SizeFor(c * 2, Len(hashes) + 1), hashes)
        BY <2>2, <2>3 DEF MaybeGrow, Rebuilt
      <3>2. c * 2 \in Nat \ {0}
        BY <2>1
      <3> QED BY <3>1, <3>2, FillFits
    <2>4. CASE ~(Len(hashes) * 2 + 2 > c)
      <3>1. MaybeGrow(slots, floor, hashes) = slots
        BY <2>2, <2>4 DEF MaybeGrow
      <3>2. Len(hashes) + 1 < c
        BY <1>1, <2>4
      <3> QED BY <1>3, <3>1, <3>2
    <2> QED BY <2>3, <2>4
  <1> QED BY <1>2, <1>3 DEF Table

\* An entry more, after growing.
LEMMA AddHolds ==
  ASSUME NEW slots, NEW hashes \in Seq(Nat), Table(slots, hashes), NEW floor \in Nat \ {0},
         NEW h \in Nat
  PROVE  Table(Insert(MaybeGrow(slots, floor, hashes), h, Len(hashes) + 1), Append(hashes, h))
  <1>1. PICK c \in Nat : /\ Holds(MaybeGrow(slots, floor, hashes), c, hashes)
                         /\ Len(hashes) + 1 < c
    BY GrowHolds
  <1>2. Holds(Insert(MaybeGrow(slots, floor, hashes), h, Len(hashes) + 1), c,
              Append(hashes, h))
    BY <1>1, InsertHolds
  <1> QED BY <1>2 DEF Table

\* Fresh tables hold the arrays.
LEMMA ReindexedHolds ==
  ASSUME NEW graph, Stored(graph)
  PROVE  Stored(Reindexed(graph)) /\ Indexed(Reindexed(graph))
         /\ \A f \in {"nodes", "edges", "episodes", "groups", "member", "valence", "log",
                      "mirror", "architecture", "migrations"} :
              Reindexed(graph)[f] = graph[f]
  <1> DEFINE nodes == NodeHashes(graph.nodes)
             edges == EdgeHashes(graph.edges)
             r == Reindexed(graph)
  <1>1. /\ nodes \in Seq(Nat) /\ Len(nodes) = Len(graph.nodes)
        /\ edges \in Seq(Nat) /\ Len(edges) = Len(graph.edges)
    BY NodeHashesAre, EdgeHashesAre DEF Stored, Graphs
  <1>2. r = [graph EXCEPT !.node_index = Fill(SizeFor(NodeFloor, Len(nodes) + 1), nodes),
                          !.edge_index = Fill(SizeFor(EdgeFloor, Len(edges) + 1), edges)]
    BY <1>1 DEF Reindexed
  <1>g. graph \in Graphs
    BY DEF Stored
  <1> HIDE DEF nodes, edges, r
  <1>3. /\ r.node_index = Fill(SizeFor(NodeFloor, Len(nodes) + 1), nodes)
        /\ r.edge_index = Fill(SizeFor(EdgeFloor, Len(edges) + 1), edges)
        /\ \A f \in {"nodes", "edges", "episodes", "groups", "member", "valence", "log",
                     "mirror", "architecture", "migrations"} : r[f] = graph[f]
    BY <1>g, <1>2 DEF Graphs
  <1>4. Table(r.node_index, nodes) /\ Table(r.edge_index, edges)
    BY <1>1, <1>3, FillFits, GraphConstants DEF Table
  <1>5. r.node_index \in Slots /\ r.edge_index \in Slots
    BY <1>1, <1>4, TableSlots
  <1>6. r \in Graphs
    BY <1>g, <1>2, <1>3, <1>5 DEF Graphs
  <1>7. /\ r.nodes = graph.nodes /\ r.edges = graph.edges /\ r.episodes = graph.episodes
        /\ r.valence = graph.valence /\ r.log = graph.log
        /\ r.architecture = graph.architecture /\ r.migrations = graph.migrations
    BY <1>3
  <1>8. Stored(r)
    BY <1>6, <1>7 DEF Stored
  <1>9. Indexed(r)
    BY <1>4, <1>7 DEF Indexed, nodes, edges
  <1> QED BY <1>3, <1>8, <1>9 DEF r

---------------------------------------------------------------------------
(* Observing. *)

\* What observing keeps: the tokens, the ends, and all that is not nodes and edges.
Grown(a, b) ==
  /\ Len(a.nodes) <= Len(b.nodes)
  /\ \A i \in 1..Len(a.nodes) : b.nodes[i].token = a.nodes[i].token
  /\ Len(a.edges) <= Len(b.edges)
  /\ \A i \in 1..Len(a.edges) : /\ b.edges[i].source = a.edges[i].source
                                /\ b.edges[i].target = a.edges[i].target
  /\ b.episodes = a.episodes /\ b.groups = a.groups /\ b.member = a.member
  /\ b.valence = a.valence /\ b.log = a.log /\ b.mirror = a.mirror
  /\ b.architecture = a.architecture /\ b.migrations = a.migrations

LEMMA GrownSound ==
  ASSUME NEW a, NEW b, Sound(a), Grown(a, b), b \in Graphs, NodesSound(b.nodes),
         EdgesSound(Len(b.nodes), b.edges), Indexed(b)
  PROVE  Sound(b)
  <1>1. Len(a.nodes) \in Nat /\ Len(b.nodes) \in Nat /\ Len(a.nodes) <= Len(b.nodes)
    BY DEF Sound, Stored, Graphs, Grown
  <1>2. EpisodesSound(Len(b.nodes), b.episodes)
    <2>1. \A x \in 1..Len(a.nodes) : x \in 1..Len(b.nodes)
      BY <1>1
    <2>2. b.episodes = a.episodes /\ EpisodesSound(Len(a.nodes), a.episodes)
      BY DEF Sound, Stored, Grown
    <2> QED BY <2>1, <2>2 DEF EpisodesSound, SummarySound
  <1>3. ValenceSound(Len(b.nodes), b.valence, b.log)
    <2>1. \A x \in 1..Len(a.nodes) : x \in 1..Len(b.nodes)
      BY <1>1
    <2>2. b.valence = a.valence /\ b.log = a.log /\ ValenceSound(Len(a.nodes), a.valence, a.log)
      BY DEF Sound, Stored, Grown
    <2> QED BY <2>1, <2>2 DEF ValenceSound
  <1>4. Migrated(b.migrations, b.architecture)
    BY DEF Sound, Stored, Grown
  <1>5. Grouped(b)
    BY DEF Sound, Grouped, Grown
  <1> QED BY <1>2, <1>3, <1>4, <1>5 DEF Sound, Stored

LEMMA GrownAgain ==
  ASSUME NEW a, NEW b, NEW c, a \in Graphs, b \in Graphs, c \in Graphs, Grown(a, b), Grown(b, c)
  PROVE  Grown(a, c)
  <1>1. /\ Len(a.nodes) \in Nat /\ Len(b.nodes) \in Nat /\ Len(c.nodes) \in Nat
        /\ Len(a.edges) \in Nat /\ Len(b.edges) \in Nat /\ Len(c.edges) \in Nat
    <2>1. ASSUME NEW x \in Graphs PROVE Len(x.nodes) \in Nat /\ Len(x.edges) \in Nat
      <3>1. x.nodes \in Seq(Node) /\ x.edges \in Seq(Edge)
        BY DEF Graphs
      <3> QED BY <3>1
    <2> QED BY <2>1
  <1>2. /\ Len(a.nodes) <= Len(b.nodes) /\ Len(b.nodes) <= Len(c.nodes)
        /\ Len(a.edges) <= Len(b.edges) /\ Len(b.edges) <= Len(c.edges)
    BY DEF Grown
  <1>3. Len(a.nodes) <= Len(c.nodes) /\ Len(a.edges) <= Len(c.edges)
    BY <1>1, <1>2
  <1>4. /\ \A i \in 1..Len(a.nodes) : i \in 1..Len(b.nodes)
        /\ \A i \in 1..Len(a.edges) : i \in 1..Len(b.edges)
    BY <1>1, <1>2
  <1>5. \A i \in 1..Len(a.nodes) : c.nodes[i].token = a.nodes[i].token
    BY <1>4 DEF Grown
  <1>6. \A i \in 1..Len(a.edges) : /\ c.edges[i].source = a.edges[i].source
                                   /\ c.edges[i].target = a.edges[i].target
    BY <1>4 DEF Grown
  <1>7. /\ c.episodes = a.episodes /\ c.groups = a.groups /\ c.member = a.member
        /\ c.valence = a.valence /\ c.log = a.log /\ c.mirror = a.mirror
        /\ c.architecture = a.architecture /\ c.migrations = a.migrations
    BY DEF Grown
  <1> QED BY <1>3, <1>5, <1>6, <1>7 DEF Grown

LEMMA GrownSelf ==
  ASSUME NEW a, a \in Graphs
  PROVE  Grown(a, a)
  <1>1. Len(a.nodes) \in Nat /\ Len(a.edges) \in Nat
    BY DEF Graphs
  <1> QED BY <1>1 DEF Grown

\* A node seen once more.
LEMMA NodeAgain ==
  ASSUME NEW graph, Sound(graph), NEW i \in 1..Len(graph.nodes),
         NEW b, b = [graph EXCEPT !.nodes[i].observations = @ + 1]
  PROVE  Sound(b) /\ Grown(graph, b) /\ b.edges = graph.edges /\ Len(b.nodes) = Len(graph.nodes)
  <1> DEFINE nodes == graph.nodes
             more == [nodes EXCEPT ![i].observations = @ + 1]
  <1>1. graph \in Graphs /\ nodes \in Seq(Node) /\ i \in 1..Len(nodes) /\ Len(nodes) \in Nat
    BY DEF Sound, Stored, Graphs
  <1>2. b = [graph EXCEPT !.nodes = more]
    OBVIOUS
  <1> HIDE DEF nodes
  <1>3. /\ more \in Seq(Node) /\ Len(more) = Len(nodes)
        /\ \A k \in 1..Len(nodes) : more[k].token = nodes[k].token
    <2>n. nodes[i] \in Node
      BY <1>1
    <2>1. nodes[i] \in Node /\ [nodes[i] EXCEPT !.observations = @ + 1] \in Node
      BY <2>n DEF Node
    <2>2. [nodes[i] EXCEPT !.observations = @ + 1].token = nodes[i].token
      BY <2>1 DEF Node
    <2>3. more = [nodes EXCEPT ![i] = [nodes[i] EXCEPT !.observations = @ + 1]]
      OBVIOUS
    <2> DEFINE x == [nodes[i] EXCEPT !.observations = @ + 1]
    <2> HIDE DEF x, more
    <2> QED BY <1>1, <2>1, <2>2, <2>3 DEF x
  <1> HIDE DEF more
  <1>4. /\ b \in Graphs /\ b.nodes = more /\ b.edges = graph.edges
        /\ b.episodes = graph.episodes /\ b.groups = graph.groups /\ b.member = graph.member
        /\ b.valence = graph.valence /\ b.log = graph.log /\ b.mirror = graph.mirror
        /\ b.architecture = graph.architecture /\ b.migrations = graph.migrations
        /\ b.node_index = graph.node_index /\ b.edge_index = graph.edge_index
    BY <1>1, <1>2, <1>3 DEF Graphs
  <1>5. Grown(graph, b)
    <2>1. Len(graph.edges) \in Nat
      BY <1>1 DEF Graphs
    <2> QED BY <1>1, <1>3, <1>4, <2>1 DEF Grown, nodes
  <1>6. NodesSound(b.nodes)
    BY <1>1, <1>3, <1>4 DEF NodesSound, Sound, Stored, nodes
  <1>7. EdgesSound(Len(b.nodes), b.edges)
    BY <1>3, <1>4 DEF Sound, Stored, nodes
  <1>8. NodeHashes(b.nodes) = NodeHashes(graph.nodes)
    <2>1. DOMAIN more = 1..Len(nodes) /\ DOMAIN nodes = 1..Len(nodes)
      BY <1>1, <1>3
    <2>2. \A k \in 1..Len(nodes) : HashToken(more[k].token) = HashToken(nodes[k].token)
      BY <1>3
    <2> QED BY <1>4, <2>1, <2>2 DEF NodeHashes, nodes
  <1>9. Indexed(b)
    BY <1>4, <1>8 DEF Indexed, Sound
  <1> QED BY <1>3, <1>4, <1>5, <1>6, <1>7, <1>9, GrownSound DEF nodes

\* A node more.
WithNode(graph, token) ==
  [graph EXCEPT !.nodes = Append(@, [token |-> token, observations |-> 1]),
                !.node_index = Insert(MaybeGrow(graph.node_index, NodeFloor,
                                                NodeHashes(graph.nodes)),
                                      HashToken(token), Len(graph.nodes) + 1)]

LEMMA NodeAdded ==
  ASSUME NEW graph, Sound(graph), NEW token \in Tokens,
         \A k \in 1..Len(graph.nodes) : graph.nodes[k].token # token,
         NEW b, b = WithNode(graph, token)
  PROVE  /\ Sound(b) /\ Grown(graph, b) /\ b.edges = graph.edges
         /\ Len(b.nodes) = Len(graph.nodes) + 1 /\ b.nodes[Len(graph.nodes) + 1].token = token
  <1> DEFINE nodes == graph.nodes
             n == Len(nodes)
             node == [token |-> token, observations |-> 1]
             more == Append(nodes, node)
             hashes == NodeHashes(nodes)
             slots == Insert(MaybeGrow(graph.node_index, NodeFloor, hashes),
                             HashToken(token), n + 1)
  <1>1. graph \in Graphs /\ nodes \in Seq(Node) /\ n \in Nat /\ NodesSound(nodes)
    BY DEF Sound, Stored, Graphs
  <1>2. hashes \in Seq(Nat) /\ Len(hashes) = n
        /\ \A k \in 1..n : hashes[k] = HashToken(nodes[k].token)
    BY <1>1, NodeHashesAre
  <1>3. b = [graph EXCEPT !.nodes = more, !.node_index = slots]
    BY DEF WithNode
  <1>4. Table(graph.node_index, hashes)
    BY DEF Sound, Indexed
  <1>5. HashToken(token) \in Nat /\ NodeFloor \in Nat \ {0}
    BY GraphConstants
  <1>6. node \in Node /\ node.token = token
    BY DEF Node
  <1>7. \A k \in 1..n : nodes[k].token # token
    OBVIOUS
  <1> HIDE DEF nodes, node, n, hashes
  <1>8. Table(slots, Append(hashes, HashToken(token)))
    BY <1>2, <1>4, <1>5, AddHolds
  <1>9. Append(hashes, HashToken(token)) \in Seq(Nat)
    BY <1>2, <1>5
  <1>10. slots \in Slots
    BY <1>8, <1>9, TableSlots
  <1> HIDE DEF slots
  <1>11. /\ more \in Seq(Node) /\ Len(more) = n + 1 /\ more[n + 1] = node
         /\ \A k \in 1..n : more[k] = nodes[k]
    BY <1>1, <1>6 DEF n
  <1> HIDE DEF more
  <1>12. /\ b \in Graphs /\ b.nodes = more /\ b.edges = graph.edges
         /\ b.episodes = graph.episodes /\ b.groups = graph.groups /\ b.member = graph.member
         /\ b.valence = graph.valence /\ b.log = graph.log /\ b.mirror = graph.mirror
         /\ b.architecture = graph.architecture /\ b.migrations = graph.migrations
         /\ b.node_index = slots /\ b.edge_index = graph.edge_index
    BY <1>1, <1>3, <1>10, <1>11 DEF Graphs
  <1>13. Grown(graph, b)
    <2>1. Len(graph.edges) \in Nat
      BY <1>1 DEF Graphs
    <2>2. Len(b.nodes) = n + 1 /\ n <= n + 1
      BY <1>1, <1>11, <1>12
    <2> QED BY <1>11, <1>12, <2>1, <2>2 DEF Grown, nodes, n
  <1>14. NodesSound(b.nodes)
    <2>1. ASSUME NEW i \in 1..(n + 1), NEW k \in 1..(n + 1), more[i].token = more[k].token
          PROVE  i = k
      <3>1. (i \in 1..n \/ i = n + 1) /\ (k \in 1..n \/ k = n + 1)
        BY <1>1
      <3>2. CASE i \in 1..n /\ k \in 1..n
        BY <1>1, <1>11, <2>1, <3>2 DEF NodesSound, n
      <3>3. CASE ~(i \in 1..n /\ k \in 1..n)
        BY <1>6, <1>7, <1>11, <2>1, <3>1, <3>3
      <3> QED BY <3>2, <3>3
    <2> QED BY <1>11, <1>12, <2>1 DEF NodesSound
  <1>15. EdgesSound(Len(b.nodes), b.edges)
    <2>1. EdgesSound(n, graph.edges)
      BY DEF Sound, Stored, n, nodes
    <2>2. Len(b.nodes) = n + 1 /\ \A x \in 1..n : x \in 1..(n + 1)
      BY <1>1, <1>11, <1>12
    <2> QED BY <1>12, <2>1, <2>2 DEF EdgesSound
  <1>16. NodeHashes(b.nodes) = Append(hashes, HashToken(token))
    <2> DEFINE l == NodeHashes(more)
               r == Append(hashes, HashToken(token))
    <2>1. l \in Seq(Nat) /\ Len(l) = n + 1
          /\ \A k \in 1..(n + 1) : l[k] = HashToken(more[k].token)
      BY <1>11, NodeHashesAre
    <2>2. r \in Seq(Nat) /\ Len(r) = n + 1 /\ r[n + 1] = HashToken(token)
          /\ \A k \in 1..n : r[k] = hashes[k]
      BY <1>1, <1>2, <1>5
    <2>3. \A k \in 1..(n + 1) : l[k] = r[k]
      <3> HIDE DEF l, r
      <3>1. \A k \in 1..(n + 1) : k \in 1..n \/ k = n + 1
        BY <1>1
      <3>2. \A k \in 1..n : l[k] = r[k]
        <4>1. \A k \in 1..n : k \in 1..(n + 1)
          BY <1>1
        <4> QED BY <1>2, <1>11, <2>1, <2>2, <4>1, ZenonT(60)
      <3>3. l[n + 1] = r[n + 1]
        <4>1. n + 1 \in 1..(n + 1)
          BY <1>1
        <4> QED BY <1>6, <1>11, <2>1, <2>2, <4>1
      <3> QED BY <3>1, <3>2, <3>3
    <2> HIDE DEF l, r
    <2>4. l = r
      BY <2>1, <2>2, <2>3, SMTT(40)
    <2> QED BY <1>12, <2>4 DEF l, r
  <1>17. Indexed(b)
    BY <1>8, <1>12, <1>16 DEF Indexed, Sound
  <1> QED BY <1>6, <1>11, <1>12, <1>13, <1>14, <1>15, <1>17, GrownSound DEF n, nodes

\* A token becomes a node once; above the ceiling nothing changes.
LEMMA InternSound ==
  ASSUME NEW graph, Sound(graph), NEW token \in Tokens
  PROVE  LET r == intern_node(graph, token)
         IN /\ r = [ok |-> r.ok, at |-> r.at, graph |-> r.graph]
            /\ r.ok \in BOOLEAN /\ Sound(r.graph) /\ Grown(graph, r.graph)
            /\ r.graph.edges = graph.edges
            /\ r.ok => r.at \in 1..Len(r.graph.nodes) /\ r.graph.nodes[r.at].token = token
            /\ find_node(graph, token) # 0 => r.ok /\ Len(r.graph.nodes) = Len(graph.nodes)
            /\ r.ok /\ find_node(graph, token) = 0 => Len(r.graph.nodes) = Len(graph.nodes) + 1
            /\ ~r.ok => NodeCapacity # 0 /\ Len(graph.nodes) >= NodeCapacity
  <1> DEFINE r == intern_node(graph, token)
             i == find_node(graph, token)
             again == [graph EXCEPT !.nodes[i].observations = @ + 1]
             added == WithNode(graph, token)
  <1>1. \/ i \in 1..Len(graph.nodes) /\ graph.nodes[i].token = token
        \/ i = 0 /\ \A k \in 1..Len(graph.nodes) : graph.nodes[k].token # token
    BY FoundNode DEF Sound
  <1>2. r = IF i # 0 THEN [ok |-> TRUE, at |-> i, graph |-> again]
            ELSE IF NodeCapacity # 0 /\ Len(graph.nodes) >= NodeCapacity
            THEN [ok |-> FALSE, at |-> 0, graph |-> graph]
            ELSE [ok |-> TRUE, at |-> Len(graph.nodes) + 1, graph |-> added]
    BY DEF intern_node, WithNode
  <1>3. graph \in Graphs /\ Len(graph.nodes) \in Nat
    BY DEF Sound, Stored, Graphs
  <1>4. Grown(graph, graph)
    BY <1>3, GrownSelf
  <1> HIDE DEF r, i
  <1>5. CASE i # 0
    <2> HIDE DEF again, added
    <2>1. i \in 1..Len(graph.nodes) /\ graph.nodes[i].token = token
      BY <1>1, <1>5
    <2>2. /\ Sound(again) /\ Grown(graph, again) /\ again.edges = graph.edges
          /\ Len(again.nodes) = Len(graph.nodes)
      BY <2>1, NodeAgain DEF again
    <2>3. r = [ok |-> TRUE, at |-> i, graph |-> again]
      BY <1>2, <1>5
    <2>4. again.nodes[i].token = token
      BY <2>1, <2>2 DEF Grown
    <2> QED BY <1>5, <2>1, <2>2, <2>3, <2>4 DEF r, i
  <1>6. CASE i = 0 /\ NodeCapacity # 0 /\ Len(graph.nodes) >= NodeCapacity
    <2> HIDE DEF again, added
    <2>1. r = [ok |-> FALSE, at |-> 0, graph |-> graph]
      BY <1>2, <1>6
    <2> QED BY <1>4, <1>6, <2>1 DEF r, i
  <1>7. CASE i = 0 /\ ~(NodeCapacity # 0 /\ Len(graph.nodes) >= NodeCapacity)
    <2> HIDE DEF again, added
    <2>1. /\ Sound(added) /\ Grown(graph, added) /\ added.edges = graph.edges
          /\ Len(added.nodes) = Len(graph.nodes) + 1
          /\ added.nodes[Len(graph.nodes) + 1].token = token
      <3>1. \A k \in 1..Len(graph.nodes) : graph.nodes[k].token # token
        BY <1>1, <1>3, <1>7
      <3> QED BY <3>1, NodeAdded DEF added
    <2>3. r = [ok |-> TRUE, at |-> Len(graph.nodes) + 1, graph |-> added]
      BY <1>2, <1>7
    <2> QED BY <1>3, <1>7, <2>1, <2>3 DEF r, i
  <1> QED BY <1>5, <1>6, <1>7

\* An edge seen once more.
LEMMA EdgeAgain ==
  ASSUME NEW graph, Sound(graph), NEW i \in 1..Len(graph.edges),
         NEW b, b = [graph EXCEPT !.edges[i].observations = @ + 1]
  PROVE  Sound(b) /\ Grown(graph, b) /\ b.nodes = graph.nodes /\ Len(b.edges) = Len(graph.edges)
  <1> DEFINE edges == graph.edges
             more == [edges EXCEPT ![i].observations = @ + 1]
  <1>1. graph \in Graphs /\ edges \in Seq(Edge) /\ i \in 1..Len(edges) /\ Len(edges) \in Nat
    BY DEF Sound, Stored, Graphs
  <1>2. b = [graph EXCEPT !.edges = more]
    OBVIOUS
  <1> HIDE DEF edges
  <1>3. /\ more \in Seq(Edge) /\ Len(more) = Len(edges)
        /\ \A k \in 1..Len(edges) : /\ more[k].source = edges[k].source
                                    /\ more[k].target = edges[k].target
    <2>n. edges[i] \in Edge
      BY <1>1
    <2>1. edges[i] \in Edge /\ [edges[i] EXCEPT !.observations = @ + 1] \in Edge
      BY <2>n DEF Edge
    <2>2. /\ [edges[i] EXCEPT !.observations = @ + 1].source = edges[i].source
          /\ [edges[i] EXCEPT !.observations = @ + 1].target = edges[i].target
      BY <2>1 DEF Edge
    <2>3. more = [edges EXCEPT ![i] = [edges[i] EXCEPT !.observations = @ + 1]]
      OBVIOUS
    <2> DEFINE x == [edges[i] EXCEPT !.observations = @ + 1]
    <2> HIDE DEF x, more
    <2> QED BY <1>1, <2>1, <2>2, <2>3 DEF x
  <1> HIDE DEF more
  <1>4. /\ b \in Graphs /\ b.edges = more /\ b.nodes = graph.nodes
        /\ b.episodes = graph.episodes /\ b.groups = graph.groups /\ b.member = graph.member
        /\ b.valence = graph.valence /\ b.log = graph.log /\ b.mirror = graph.mirror
        /\ b.architecture = graph.architecture /\ b.migrations = graph.migrations
        /\ b.node_index = graph.node_index /\ b.edge_index = graph.edge_index
    BY <1>1, <1>2, <1>3 DEF Graphs
  <1>5. Grown(graph, b)
    <2>1. Len(graph.nodes) \in Nat
      BY <1>1 DEF Graphs
    <2> QED BY <1>1, <1>3, <1>4, <2>1 DEF Grown, edges
  <1>6. NodesSound(b.nodes)
    BY <1>4 DEF Sound, Stored
  <1>7. EdgesSound(Len(b.nodes), b.edges)
    <2>1. EdgesSound(Len(graph.nodes), edges)
      BY DEF Sound, Stored, edges
    <2>2. \A k \in 1..Len(edges) : /\ more[k].source \in 1..Len(graph.nodes)
                                    /\ more[k].target \in 1..Len(graph.nodes)
      BY <1>3, <2>1 DEF EdgesSound
    <2>3. ASSUME NEW k \in 1..Len(edges), NEW m \in 1..Len(edges),
                 more[k].source = more[m].source, more[k].target = more[m].target
          PROVE  k = m
      <3>1. edges[k].source = edges[m].source /\ edges[k].target = edges[m].target
        BY <1>3, <2>3
      <3> QED BY <2>1, <3>1 DEF EdgesSound
    <2>4. b.edges = more /\ Len(b.nodes) = Len(graph.nodes) /\ Len(more) = Len(edges)
      BY <1>3, <1>4
    <2>5. PICK m, c : m = Len(graph.nodes) /\ c = Len(edges)
      OBVIOUS
    <2>6. /\ \A k \in 1..c : more[k].source \in 1..m /\ more[k].target \in 1..m
          /\ \A k, j \in 1..c :
               more[k].source = more[j].source /\ more[k].target = more[j].target => k = j
          /\ Len(more) = c
      BY <2>2, <2>3, <2>4, <2>5
    <2> HIDE DEF edges
    <2>7. EdgesSound(m, more)
      BY <2>6 DEF EdgesSound
    <2> QED BY <2>4, <2>5, <2>7
  <1>8. EdgeHashes(b.edges) = EdgeHashes(graph.edges)
    <2>1. DOMAIN more = 1..Len(edges) /\ DOMAIN edges = 1..Len(edges)
      BY <1>1, <1>3
    <2>2. \A k \in 1..Len(edges) : HashEdge(more[k].source, more[k].target)
                                     = HashEdge(edges[k].source, edges[k].target)
      BY <1>3
    <2> QED BY <1>4, <2>1, <2>2 DEF EdgeHashes, edges
  <1>9. Indexed(b)
    BY <1>4, <1>8 DEF Indexed, Sound
  <1> QED BY <1>3, <1>4, <1>5, <1>6, <1>7, <1>9, GrownSound DEF edges

\* An edge more.
WithEdge(graph, s, t) ==
  [graph EXCEPT !.edges = Append(@, [source |-> s, target |-> t, observations |-> 1]),
                !.edge_index = Insert(MaybeGrow(graph.edge_index, EdgeFloor,
                                                EdgeHashes(graph.edges)),
                                      HashEdge(s, t), Len(graph.edges) + 1)]

LEMMA EdgeAdded ==
  ASSUME NEW graph, Sound(graph),
         NEW s \in 1..Len(graph.nodes), NEW t \in 1..Len(graph.nodes),
         \A k \in 1..Len(graph.edges) :
           ~(graph.edges[k].source = s /\ graph.edges[k].target = t),
         NEW b, b = WithEdge(graph, s, t)
  PROVE  /\ Sound(b) /\ Grown(graph, b) /\ b.nodes = graph.nodes
         /\ Len(b.edges) = Len(graph.edges) + 1
         /\ b.edges[Len(graph.edges) + 1].source = s /\ b.edges[Len(graph.edges) + 1].target = t
  <1> DEFINE edges == graph.edges
             n == Len(edges)
             edge == [source |-> s, target |-> t, observations |-> 1]
             more == Append(edges, edge)
             hashes == EdgeHashes(edges)
             slots == Insert(MaybeGrow(graph.edge_index, EdgeFloor, hashes),
                             HashEdge(s, t), n + 1)
  <1>1. /\ graph \in Graphs /\ edges \in Seq(Edge) /\ n \in Nat
        /\ EdgesSound(Len(graph.nodes), edges)
        /\ graph.nodes \in Seq(Node) /\ NodesSound(graph.nodes) /\ Len(graph.nodes) \in Nat
    BY DEF Sound, Stored, Graphs
  <1>2. /\ hashes \in Seq(Nat) /\ Len(hashes) = n
        /\ \A k \in 1..n : hashes[k] = HashEdge(edges[k].source, edges[k].target)
        /\ HashEdge(s, t) \in Nat
    BY <1>1, EdgeHashesAre
  <1>3. b = [graph EXCEPT !.edges = more, !.edge_index = slots]
    BY DEF WithEdge
  <1>4. Table(graph.edge_index, hashes)
    BY DEF Sound, Indexed
  <1>5. EdgeFloor \in Nat \ {0}
    BY GraphConstants
  <1>6. edge \in Edge /\ edge.source = s /\ edge.target = t
    <2>1. s \in Nat /\ t \in Nat
      BY <1>1
    <2> QED BY <2>1 DEF Edge
  <1>7. \A k \in 1..n : ~(edges[k].source = s /\ edges[k].target = t)
    OBVIOUS
  <1> HIDE DEF edges, edge, n, hashes
  <1>8. Table(slots, Append(hashes, HashEdge(s, t)))
    BY <1>2, <1>4, <1>5, AddHolds
  <1>9. Append(hashes, HashEdge(s, t)) \in Seq(Nat)
    BY <1>2
  <1>10. slots \in Slots
    BY <1>8, <1>9, TableSlots
  <1> HIDE DEF slots
  <1>11. /\ more \in Seq(Edge) /\ Len(more) = n + 1 /\ more[n + 1] = edge
         /\ \A k \in 1..n : more[k] = edges[k]
    BY <1>1, <1>6 DEF n
  <1> HIDE DEF more
  <1>12. /\ b \in Graphs /\ b.edges = more /\ b.nodes = graph.nodes
         /\ b.episodes = graph.episodes /\ b.groups = graph.groups /\ b.member = graph.member
         /\ b.valence = graph.valence /\ b.log = graph.log /\ b.mirror = graph.mirror
         /\ b.architecture = graph.architecture /\ b.migrations = graph.migrations
         /\ b.node_index = graph.node_index /\ b.edge_index = slots
    BY <1>1, <1>3, <1>10, <1>11 DEF Graphs
  <1>13. Grown(graph, b)
    <2>2. Len(b.edges) = n + 1 /\ n <= n + 1
      BY <1>1, <1>11, <1>12
    <2> QED BY <1>1, <1>11, <1>12, <2>2 DEF Grown, edges, n
  <1>14. NodesSound(b.nodes)
    BY <1>1, <1>12
  <1>15. EdgesSound(Len(b.nodes), b.edges)
    <2>0. \A i \in 1..(n + 1) : i \in 1..n \/ i = n + 1
      BY <1>1
    <2>1. \A i \in 1..(n + 1) : /\ more[i].source \in 1..Len(graph.nodes)
                                /\ more[i].target \in 1..Len(graph.nodes)
      BY <1>1, <1>6, <1>11, <2>0 DEF EdgesSound, n
    <2>2. ASSUME NEW i \in 1..(n + 1), NEW k \in 1..(n + 1),
                 more[i].source = more[k].source, more[i].target = more[k].target
          PROVE  i = k
      <3>2. CASE i \in 1..n /\ k \in 1..n
        BY <1>1, <1>11, <2>2, <3>2 DEF EdgesSound, n
      <3>3. CASE ~(i \in 1..n /\ k \in 1..n)
        BY <1>6, <1>7, <1>11, <2>0, <2>2, <3>3
      <3> QED BY <3>2, <3>3
    <2> QED BY <1>11, <1>12, <2>1, <2>2 DEF EdgesSound
  <1>16. EdgeHashes(b.edges) = Append(hashes, HashEdge(s, t))
    <2> DEFINE l == EdgeHashes(more)
               r == Append(hashes, HashEdge(s, t))
    <2>1. l \in Seq(Nat) /\ Len(l) = n + 1
          /\ \A k \in 1..(n + 1) : l[k] = HashEdge(more[k].source, more[k].target)
      BY <1>1, <1>11, <1>12, <1>15, EdgeHashesAre
    <2>2. r \in Seq(Nat) /\ Len(r) = n + 1 /\ r[n + 1] = HashEdge(s, t)
          /\ \A k \in 1..n : r[k] = hashes[k]
      BY <1>1, <1>2
    <2>3. \A k \in 1..(n + 1) : l[k] = r[k]
      <3> HIDE DEF l, r
      <3>1. \A k \in 1..(n + 1) : k \in 1..n \/ k = n + 1
        BY <1>1
      <3>2. \A k \in 1..n : l[k] = r[k]
        <4>1. \A k \in 1..n : k \in 1..(n + 1)
          BY <1>1
        <4> QED BY <1>2, <1>11, <2>1, <2>2, <4>1, ZenonT(60)
      <3>3. l[n + 1] = r[n + 1]
        <4>1. n + 1 \in 1..(n + 1)
          BY <1>1
        <4> QED BY <1>6, <1>11, <2>1, <2>2, <4>1
      <3> QED BY <3>1, <3>2, <3>3
    <2> HIDE DEF l, r
    <2>4. l = r
      BY <2>1, <2>2, <2>3
    <2> QED BY <1>12, <2>4 DEF l, r
  <1>17. Indexed(b)
    BY <1>8, <1>12, <1>16 DEF Indexed, Sound
  <1> QED BY <1>6, <1>11, <1>12, <1>13, <1>14, <1>15, <1>17, GrownSound DEF n, edges

\* A pair becomes an edge once; above the ceiling nothing changes.
LEMMA PairSound ==
  ASSUME NEW graph, Sound(graph),
         NEW s \in 1..Len(graph.nodes), NEW t \in 1..Len(graph.nodes)
  PROVE  LET r == observe_pair(graph, s, t)
         IN /\ r = [ok |-> r.ok, graph |-> r.graph]
            /\ r.ok \in BOOLEAN /\ Sound(r.graph) /\ Grown(graph, r.graph)
            /\ r.graph.nodes = graph.nodes
            /\ find_edge(graph, s, t) # 0 => r.ok /\ Len(r.graph.edges) = Len(graph.edges)
            /\ r.ok /\ find_edge(graph, s, t) = 0 => Len(r.graph.edges) = Len(graph.edges) + 1
            /\ ~r.ok => EdgeCapacity # 0 /\ Len(graph.edges) >= EdgeCapacity
  <1> DEFINE r == observe_pair(graph, s, t)
             i == find_edge(graph, s, t)
             again == [graph EXCEPT !.edges[i].observations = @ + 1]
             added == WithEdge(graph, s, t)
  <1>1. \/ i \in 1..Len(graph.edges)
        \/ i = 0 /\ \A k \in 1..Len(graph.edges) :
                      ~(graph.edges[k].source = s /\ graph.edges[k].target = t)
    BY FoundEdge DEF Sound
  <1>2. r = IF i # 0 THEN [ok |-> TRUE, graph |-> again]
            ELSE IF EdgeCapacity # 0 /\ Len(graph.edges) >= EdgeCapacity
            THEN [ok |-> FALSE, graph |-> graph]
            ELSE [ok |-> TRUE, graph |-> added]
    BY DEF observe_pair, WithEdge
  <1>3. graph \in Graphs /\ Len(graph.edges) \in Nat
    BY DEF Sound, Stored, Graphs
  <1>4. Grown(graph, graph)
    BY <1>3, GrownSelf
  <1> HIDE DEF r, i
  <1>5. CASE i # 0
    <2> HIDE DEF again, added
    <2>1. i \in 1..Len(graph.edges)
      BY <1>1, <1>5
    <2>2. /\ Sound(again) /\ Grown(graph, again) /\ again.nodes = graph.nodes
          /\ Len(again.edges) = Len(graph.edges)
      BY <2>1, EdgeAgain DEF again
    <2>3. r = [ok |-> TRUE, graph |-> again]
      BY <1>2, <1>5
    <2> QED BY <1>5, <2>2, <2>3 DEF r, i
  <1>6. CASE i = 0 /\ EdgeCapacity # 0 /\ Len(graph.edges) >= EdgeCapacity
    <2> HIDE DEF again, added
    <2>1. r = [ok |-> FALSE, graph |-> graph]
      BY <1>2, <1>6
    <2> QED BY <1>4, <1>6, <2>1 DEF r, i
  <1>7. CASE i = 0 /\ ~(EdgeCapacity # 0 /\ Len(graph.edges) >= EdgeCapacity)
    <2> HIDE DEF again, added
    <2>1. /\ Sound(added) /\ Grown(graph, added) /\ added.nodes = graph.nodes
          /\ Len(added.edges) = Len(graph.edges) + 1
      <3>1. \A k \in 1..Len(graph.edges) :
              ~(graph.edges[k].source = s /\ graph.edges[k].target = t)
        BY <1>1, <1>3, <1>7
      <3> QED BY <3>1, EdgeAdded DEF added
    <2>3. r = [ok |-> TRUE, graph |-> added]
      BY <1>2, <1>7
    <2> QED BY <1>7, <2>1, <2>3 DEF r, i
  <1> QED BY <1>5, <1>6, <1>7

\* A walk over the first i tokens: it has met a node of each, unless it has stopped.
Walk(graph, toks, i, w) ==
  /\ w = [ok |-> w.ok, graph |-> w.graph, seen |-> w.seen]
  /\ w.ok \in BOOLEAN /\ Sound(w.graph) /\ Grown(graph, w.graph) /\ w.seen \in Seq(Nat)
  /\ w.ok => /\ Len(w.seen) = i
             /\ \A k \in 1..i : /\ w.seen[k] \in 1..Len(w.graph.nodes)
                                /\ w.graph.nodes[w.seen[k]].token = toks[k]

\* What the dry run counts.
NewNodes(graph, toks) == {i \in DOMAIN toks : find_node(graph, toks[i]) = 0}

NewEdges(graph, toks) ==
  {i \in DOMAIN toks \ {1} :
     \/ find_node(graph, toks[i - 1]) = 0 \/ find_node(graph, toks[i]) = 0
     \/ find_edge(graph, find_node(graph, toks[i - 1]), find_node(graph, toks[i])) = 0}

Fits(graph, toks) ==
  /\ NodeCapacity = 0 \/ Len(graph.nodes) + Cardinality(NewNodes(graph, toks)) <= NodeCapacity
  /\ EdgeCapacity = 0 \/ Len(graph.edges) + Cardinality(NewEdges(graph, toks)) <= EdgeCapacity

\* A walk that the dry run foresaw.
Within(graph, toks, i, w) ==
  /\ w.ok
  /\ Len(w.graph.nodes) <= Len(graph.nodes) + Cardinality(NewNodes(graph, toks) \cap (1..i))
  /\ Len(w.graph.edges) <= Len(graph.edges) + Cardinality(NewEdges(graph, toks) \cap (1..i))

\* One token: its node, then the pair it makes with the one before.
Step(w, token) ==
  LET n == intern_node(w.graph, token)
      p == IF w.seen = <<>> THEN n ELSE observe_pair(n.graph, Last(w.seen), n.at)
  IN IF ~w.ok THEN w
     ELSE IF ~n.ok THEN [ok |-> FALSE, graph |-> n.graph, seen |-> w.seen]
     ELSE [ok |-> p.ok, graph |-> p.graph,
           seen |-> IF p.ok THEN Append(w.seen, n.at) ELSE w.seen]

LEMMA EmitIs ==
  ASSUME NEW w, NEW token
  PROVE  observe_emit(w, token) = Step(w, token)
  <1> DEFINE n == intern_node(w.graph, token)
             p == IF w.seen = <<>> THEN n ELSE observe_pair(n.graph, Last(w.seen), n.at)
  <1>1. observe_emit(w, token) =
          IF ~w.ok THEN w
          ELSE IF ~n.ok THEN [ok |-> FALSE, graph |-> n.graph, seen |-> w.seen]
          ELSE Advance(w, n, p)
    BY DEF observe_emit, Pair
  <1>2. Advance(w, n, p) = [ok |-> p.ok, graph |-> p.graph,
                            seen |-> IF p.ok THEN Append(w.seen, n.at) ELSE w.seen]
    BY DEF Advance
  <1>3. Step(w, token) =
          IF ~w.ok THEN w
          ELSE IF ~n.ok THEN [ok |-> FALSE, graph |-> n.graph, seen |-> w.seen]
          ELSE [ok |-> p.ok, graph |-> p.graph,
                seen |-> IF p.ok THEN Append(w.seen, n.at) ELSE w.seen]
    BY DEF Step
  <1> HIDE DEF n, p
  <1> QED BY <1>1, <1>2, <1>3

\* The node and the pair of a step.
LEMMA StepParts ==
  ASSUME NEW graph, Sound(graph), NEW toks \in Seq(Tokens), NEW i \in 1..Len(toks),
         NEW w, Walk(graph, toks, i - 1, w), w.ok,
         NEW n, n = intern_node(w.graph, toks[i]),
         NEW p, p = IF w.seen = <<>> THEN n ELSE observe_pair(n.graph, Last(w.seen), n.at)
  PROVE  /\ n.ok \in BOOLEAN /\ Sound(n.graph) /\ Grown(graph, n.graph)
         /\ n.ok => /\ p.ok \in BOOLEAN /\ Sound(p.graph) /\ Grown(graph, p.graph)
                    /\ p.graph.nodes = n.graph.nodes /\ n.at \in 1..Len(n.graph.nodes)
                    /\ n.graph.nodes[n.at].token = toks[i]
         /\ n.graph.edges = w.graph.edges
         /\ \A k \in 1..(i - 1) : /\ w.seen[k] \in 1..Len(n.graph.nodes)
                                  /\ n.graph.nodes[w.seen[k]].token = toks[k]
         /\ w.seen = <<>> <=> i = 1
         /\ i > 1 => Last(w.seen) = w.seen[i - 1]
  <1>1. toks[i] \in Tokens /\ i \in Nat /\ i - 1 \in Nat
    OBVIOUS
  <1>2. /\ Sound(w.graph) /\ Grown(graph, w.graph) /\ w.seen \in Seq(Nat) /\ Len(w.seen) = i - 1
        /\ \A k \in 1..(i - 1) : /\ w.seen[k] \in 1..Len(w.graph.nodes)
                                 /\ w.graph.nodes[w.seen[k]].token = toks[k]
    BY DEF Walk
  <1>3. /\ n.ok \in BOOLEAN /\ Sound(n.graph) /\ Grown(w.graph, n.graph)
        /\ n.graph.edges = w.graph.edges
        /\ n.ok => n.at \in 1..Len(n.graph.nodes) /\ n.graph.nodes[n.at].token = toks[i]
    BY <1>1, <1>2, InternSound
  <1>4. graph \in Graphs /\ w.graph \in Graphs /\ n.graph \in Graphs
    BY <1>2, <1>3 DEF Sound, Stored
  <1>5. Grown(graph, n.graph)
    BY <1>2, <1>3, <1>4, GrownAgain
  <1>6. \A k \in 1..(i - 1) : /\ w.seen[k] \in 1..Len(n.graph.nodes)
                              /\ n.graph.nodes[w.seen[k]].token = toks[k]
    <2>1. /\ Len(w.graph.nodes) \in Nat /\ Len(n.graph.nodes) \in Nat
          /\ Len(w.graph.nodes) <= Len(n.graph.nodes)
          /\ \A k \in 1..Len(w.graph.nodes) : n.graph.nodes[k].token = w.graph.nodes[k].token
      <3>1. w.graph.nodes \in Seq(Node)
        BY <1>4 DEF Graphs
      <3>2. n.graph.nodes \in Seq(Node)
        BY <1>4 DEF Graphs
      <3> QED BY <1>3, <3>1, <3>2 DEF Grown
    <2>2. ASSUME NEW k \in 1..(i - 1)
          PROVE  /\ w.seen[k] \in 1..Len(n.graph.nodes)
                 /\ n.graph.nodes[w.seen[k]].token = toks[k]
      <3>1. w.seen[k] \in 1..Len(w.graph.nodes) /\ w.graph.nodes[w.seen[k]].token = toks[k]
        BY <1>2
      <3>2. PICK x : x = w.seen[k]
        OBVIOUS
      <3>3. x \in 1..Len(w.graph.nodes) /\ x \in 1..Len(n.graph.nodes)
        BY <2>1, <3>1, <3>2
      <3> QED BY <2>1, <3>1, <3>2, <3>3
    <2> QED BY <2>2
  <1>7. (w.seen = <<>> <=> i = 1) /\ (i > 1 => Last(w.seen) = w.seen[i - 1])
    BY <1>1, <1>2 DEF Last
  <1>8. ASSUME n.ok
        PROVE  /\ p.ok \in BOOLEAN /\ Sound(p.graph) /\ Grown(graph, p.graph)
               /\ p.graph.nodes = n.graph.nodes
    <2>1. CASE i = 1
      <3>1. p = n
        BY <1>7, <2>1
      <3> QED BY <1>3, <1>5, <3>1
    <2>2. CASE i > 1
      <3>1. p = observe_pair(n.graph, w.seen[i - 1], n.at)
        BY <1>7, <2>2, SMTT(40)
      <3>2. w.seen[i - 1] \in 1..Len(n.graph.nodes) /\ n.at \in 1..Len(n.graph.nodes)
        BY <1>1, <1>3, <1>6, <1>8, <2>2
      <3>3. /\ p.ok \in BOOLEAN /\ Sound(p.graph) /\ Grown(n.graph, p.graph)
            /\ p.graph.nodes = n.graph.nodes
        BY <1>3, <3>1, <3>2, PairSound, SMTT(40)
      <3>4. p.graph \in Graphs
        BY <3>3, ZenonT(30) DEF Sound, Stored
      <3> QED BY <1>4, <1>5, <3>3, <3>4, GrownAgain
    <2> QED BY <1>1, <2>1, <2>2
  <1> QED BY <1>3, <1>5, <1>6, <1>7, <1>8

\* A step keeps the walk.
LEMMA StepWalks ==
  ASSUME NEW graph, Sound(graph), NEW toks \in Seq(Tokens), NEW i \in 1..Len(toks),
         NEW w, Walk(graph, toks, i - 1, w)
  PROVE  Walk(graph, toks, i, observe_emit(w, toks[i]))
  <1> DEFINE n == intern_node(w.graph, toks[i])
             p == IF w.seen = <<>> THEN n ELSE observe_pair(n.graph, Last(w.seen), n.at)
             v == observe_emit(w, toks[i])
  <1>0. i \in Nat /\ i - 1 \in Nat
    OBVIOUS
  <1>1. v = Step(w, toks[i])
    BY EmitIs DEF Walk
  <1>2. Step(w, toks[i]) =
          IF ~w.ok THEN w
          ELSE IF ~n.ok THEN [ok |-> FALSE, graph |-> n.graph, seen |-> w.seen]
          ELSE [ok |-> p.ok, graph |-> p.graph,
                seen |-> IF p.ok THEN Append(w.seen, n.at) ELSE w.seen]
    BY DEF Step
  <1> HIDE DEF v
  <1>3. CASE ~w.ok
    BY <1>1, <1>2, <1>3 DEF Walk, v
  <1>4. CASE w.ok
    <2>1. /\ n.ok \in BOOLEAN /\ Sound(n.graph) /\ Grown(graph, n.graph)
          /\ n.ok => /\ p.ok \in BOOLEAN /\ Sound(p.graph) /\ Grown(graph, p.graph)
                     /\ p.graph.nodes = n.graph.nodes /\ n.at \in 1..Len(n.graph.nodes)
                     /\ n.graph.nodes[n.at].token = toks[i]
          /\ \A k \in 1..(i - 1) : /\ w.seen[k] \in 1..Len(n.graph.nodes)
                                   /\ n.graph.nodes[w.seen[k]].token = toks[k]
      BY <1>4, StepParts
    <2>2. w.seen \in Seq(Nat) /\ Len(w.seen) = i - 1
      BY <1>4 DEF Walk
    <2> HIDE DEF n, p
    <2>3. CASE ~n.ok
      <3>1. v = [ok |-> FALSE, graph |-> n.graph, seen |-> w.seen]
        BY <1>1, <1>2, <1>4, <2>3
      <3> QED BY <2>1, <2>2, <3>1 DEF Walk, v
    <2>4. CASE n.ok /\ ~p.ok
      <3>1. v = [ok |-> FALSE, graph |-> p.graph, seen |-> w.seen]
        BY <1>1, <1>2, <1>4, <2>1, <2>4
      <3> QED BY <2>1, <2>2, <2>4, <3>1 DEF Walk, v
    <2>5. CASE n.ok /\ p.ok
      <3> DEFINE seen == Append(w.seen, n.at)
      <3>1. v = [ok |-> TRUE, graph |-> p.graph, seen |-> seen]
        BY <1>1, <1>2, <1>4, <2>1, <2>5
      <3>n. n.at \in Nat
        <4>1. n.at \in 1..Len(n.graph.nodes) /\ Len(n.graph.nodes) \in Nat
          <5>1. n.graph.nodes \in Seq(Node)
            BY <2>1 DEF Sound, Stored, Graphs
          <5> QED BY <2>1, <2>5, <5>1
        <4> QED BY <4>1
      <3>2. /\ seen \in Seq(Nat) /\ Len(seen) = i /\ seen[i] = n.at
            /\ \A k \in 1..(i - 1) : seen[k] = w.seen[k]
        BY <1>0, <2>2, <3>n
      <3> HIDE DEF seen
      <3>3. \A k \in 1..i : /\ seen[k] \in 1..Len(p.graph.nodes)
                            /\ p.graph.nodes[seen[k]].token = toks[k]
        <4>1. \A k \in 1..i : k \in 1..(i - 1) \/ k = i
          BY <1>0
        <4> QED BY <2>1, <2>5, <3>2, <4>1, ZenonT(60)
      <3> QED BY <2>1, <2>5, <3>1, <3>2, <3>3 DEF Walk, v
    <2> QED BY <2>3, <2>4, <2>5
  <1> QED BY <1>3, <1>4

\* The node that has a token is the one found.
LEMMA FindIs ==
  ASSUME NEW graph, Sound(graph), NEW x \in 1..Len(graph.nodes), NEW token \in Tokens \cup Concepts,
         graph.nodes[x].token = token
  PROVE  find_node(graph, token) = x
  <1>1. find_node(graph, token) \in 1..Len(graph.nodes)
        /\ graph.nodes[find_node(graph, token)].token = token
    BY FoundNode DEF Sound
  <1>2. NodesSound(graph.nodes)
    BY DEF Sound, Stored
  <1> QED BY <1>1, <1>2 DEF NodesSound

\* What is found stays found.
LEMMA NodeKept ==
  ASSUME NEW a, NEW b, Sound(a), Sound(b), Grown(a, b), NEW token \in Tokens \cup Concepts,
         find_node(a, token) # 0
  PROVE  find_node(b, token) = find_node(a, token) /\ find_node(a, token) \in 1..Len(a.nodes)
  <1> DEFINE x == find_node(a, token)
  <1>1. x \in 1..Len(a.nodes) /\ a.nodes[x].token = token
    BY FoundNode DEF Sound
  <1>2. Len(a.nodes) \in Nat /\ Len(b.nodes) \in Nat /\ Len(a.nodes) <= Len(b.nodes)
    BY DEF Sound, Stored, Graphs, Grown
  <1> HIDE DEF x
  <1>3. x \in 1..Len(b.nodes) /\ b.nodes[x].token = token
    BY <1>1, <1>2 DEF Grown
  <1>4. find_node(b, token) = x
    BY <1>3, FindIs
  <1> QED BY <1>1, <1>4 DEF x

LEMMA EdgeKept ==
  ASSUME NEW a, NEW b, Sound(a), Sound(b), Grown(a, b),
         NEW s \in 1..Len(a.nodes), NEW t \in 1..Len(a.nodes), find_edge(a, s, t) # 0
  PROVE  find_edge(b, s, t) # 0
  <1> DEFINE x == find_edge(a, s, t)
  <1>1. x \in 1..Len(a.edges) /\ a.edges[x].source = s /\ a.edges[x].target = t
    BY FoundEdge DEF Sound
  <1>2. /\ Len(a.nodes) \in Nat /\ Len(b.nodes) \in Nat /\ Len(a.nodes) <= Len(b.nodes)
        /\ Len(a.edges) \in Nat /\ Len(b.edges) \in Nat /\ Len(a.edges) <= Len(b.edges)
    <2>1. a.nodes \in Seq(Node) /\ a.edges \in Seq(Edge)
      BY DEF Sound, Stored, Graphs
    <2>2. b.nodes \in Seq(Node) /\ b.edges \in Seq(Edge)
      BY DEF Sound, Stored, Graphs
    <2> QED BY <2>1, <2>2 DEF Grown
  <1> HIDE DEF x
  <1>3. x \in 1..Len(b.edges) /\ b.edges[x].source = s /\ b.edges[x].target = t
    BY <1>1, <1>2 DEF Grown
  <1>4. s \in 1..Len(b.nodes) /\ t \in 1..Len(b.nodes)
    BY <1>2
  <1>5. x # 0 /\ ~(\A i \in 1..Len(b.edges) : ~(b.edges[i].source = s /\ b.edges[i].target = t))
    BY <1>2, <1>3
  <1>6. find_edge(b, s, t) \in 1..Len(b.edges)
    BY <1>4, <1>5, FoundEdge DEF Sound
  <1> QED BY <1>2, <1>6

\* Counting a set up to one more.
LEMMA CountUpTo ==
  ASSUME NEW m \in Nat, NEW N \in SUBSET (1..m), NEW i \in 1..m
  PROVE  /\ Cardinality(N \cap (1..i)) \in Nat /\ Cardinality(N \cap (1..(i - 1))) \in Nat
         /\ Cardinality(N) \in Nat
         /\ Cardinality(N \cap (1..i)) <= Cardinality(N)
         /\ i \in N => Cardinality(N \cap (1..i)) = Cardinality(N \cap (1..(i - 1))) + 1
         /\ i \notin N => Cardinality(N \cap (1..i)) = Cardinality(N \cap (1..(i - 1)))
  <1> DEFINE A == N \cap (1..i)
             B == N \cap (1..(i - 1))
  <1>1. IsFiniteSet(1..m)
    BY FS_Interval
  <1>2. IsFiniteSet(N)
    BY <1>1, FS_Subset
  <1>3. A \in SUBSET N /\ B \in SUBSET N
    OBVIOUS
  <1>4. IsFiniteSet(A) /\ IsFiniteSet(B) /\ Cardinality(A) <= Cardinality(N)
    <2> HIDE DEF A, B
    <2> QED BY <1>2, <1>3, FS_Subset
  <1>5. i \notin B /\ (i \in N => A = B \cup {i}) /\ (i \notin N => A = B)
    OBVIOUS
  <1> HIDE DEF A, B
  <1>6. Cardinality(B \cup {i}) = Cardinality(B) + 1
    BY <1>4, <1>5, FS_AddElement
  <1>7. Cardinality(A) \in Nat /\ Cardinality(B) \in Nat /\ Cardinality(N) \in Nat
    BY <1>2, <1>4, FS_CardinalityType
  <1> QED BY <1>4, <1>5, <1>6, <1>7 DEF A, B

\* A step that the dry run foresaw succeeds.
LEMMA StepWithin ==
  ASSUME NEW graph, Sound(graph), NEW toks \in Seq(Tokens), NEW i \in 1..Len(toks),
         NEW w, Walk(graph, toks, i - 1, w), Fits(graph, toks), Within(graph, toks, i - 1, w)
  PROVE  Within(graph, toks, i, observe_emit(w, toks[i]))
  <1> DEFINE n == intern_node(w.graph, toks[i])
             p == IF w.seen = <<>> THEN n ELSE observe_pair(n.graph, Last(w.seen), n.at)
             v == observe_emit(w, toks[i])
             N == NewNodes(graph, toks)
             E == NewEdges(graph, toks)
             N0 == Cardinality(N \cap (1..(i - 1)))
             N1 == Cardinality(N \cap (1..i))
             E0 == Cardinality(E \cap (1..(i - 1)))
             E1 == Cardinality(E \cap (1..i))
  <1>0. i \in Nat /\ i - 1 \in Nat /\ toks[i] \in Tokens /\ DOMAIN toks = 1..Len(toks)
        /\ Len(toks) \in Nat
    OBVIOUS
  <1>1. v = IF ~n.ok THEN [ok |-> FALSE, graph |-> n.graph, seen |-> w.seen]
            ELSE [ok |-> p.ok, graph |-> p.graph,
                  seen |-> IF p.ok THEN Append(w.seen, n.at) ELSE w.seen]
    <2>1. v = Step(w, toks[i])
      BY EmitIs
    <2>2. w.ok
      BY DEF Within
    <2> QED BY <2>1, <2>2 DEF Step
  <1>2. /\ n.ok \in BOOLEAN /\ Sound(n.graph) /\ Grown(graph, n.graph)
        /\ n.ok => /\ p.ok \in BOOLEAN /\ Sound(p.graph) /\ Grown(graph, p.graph)
                   /\ p.graph.nodes = n.graph.nodes /\ n.at \in 1..Len(n.graph.nodes)
                   /\ n.graph.nodes[n.at].token = toks[i]
        /\ n.graph.edges = w.graph.edges
        /\ \A k \in 1..(i - 1) : /\ w.seen[k] \in 1..Len(n.graph.nodes)
                                 /\ n.graph.nodes[w.seen[k]].token = toks[k]
        /\ w.seen = <<>> <=> i = 1
        /\ i > 1 => Last(w.seen) = w.seen[i - 1]
    BY StepParts DEF Within
  <1>3. Sound(w.graph) /\ Grown(graph, w.graph)
    BY DEF Walk
  <1>4. /\ find_node(w.graph, toks[i]) # 0 => n.ok /\ Len(n.graph.nodes) = Len(w.graph.nodes)
        /\ n.ok /\ find_node(w.graph, toks[i]) = 0 =>
             Len(n.graph.nodes) = Len(w.graph.nodes) + 1
        /\ ~n.ok => NodeCapacity # 0 /\ Len(w.graph.nodes) >= NodeCapacity
    BY <1>0, <1>3, InternSound
  <1>5. find_node(w.graph, toks[i]) = 0 => i \in N
    BY <1>0, <1>3, NodeKept DEF NewNodes
  <1>6. N \in SUBSET (1..Len(toks)) /\ E \in SUBSET (1..Len(toks))
    BY <1>0 DEF NewNodes, NewEdges
  <1>7. /\ Len(graph.nodes) \in Nat /\ Len(w.graph.nodes) \in Nat /\ Len(n.graph.nodes) \in Nat
        /\ Len(graph.edges) \in Nat /\ Len(w.graph.edges) \in Nat
    <2>1. ASSUME NEW a, Sound(a) PROVE Len(a.nodes) \in Nat /\ Len(a.edges) \in Nat
      <3>1. a.nodes \in Seq(Node) /\ a.edges \in Seq(Edge)
        BY <2>1 DEF Sound, Stored, Graphs
      <3> QED BY <3>1
    <2> HIDE DEF n
    <2> QED BY <1>2, <1>3, <2>1
  <1>8. /\ N0 \in Nat /\ N1 \in Nat /\ Cardinality(N) \in Nat /\ N1 <= Cardinality(N)
        /\ i \in N => N1 = N0 + 1
        /\ i \notin N => N1 = N0
    <2> HIDE DEF N, E
    <2> QED BY <1>0, <1>6, CountUpTo, ZenonT(60)
  <1>9. /\ E0 \in Nat /\ E1 \in Nat /\ Cardinality(E) \in Nat /\ E1 <= Cardinality(E)
        /\ i \in E => E1 = E0 + 1
        /\ i \notin E => E1 = E0
    <2> HIDE DEF N, E
    <2> QED BY <1>0, <1>6, CountUpTo, ZenonT(60)
  <1>10. /\ Len(w.graph.nodes) <= Len(graph.nodes) + N0
         /\ Len(w.graph.edges) <= Len(graph.edges) + E0
    BY DEF Within
  <1>11. /\ NodeCapacity = 0 \/ Len(graph.nodes) + Cardinality(N) <= NodeCapacity
         /\ EdgeCapacity = 0 \/ Len(graph.edges) + Cardinality(E) <= EdgeCapacity
         /\ NodeCapacity \in Nat /\ EdgeCapacity \in Nat
    BY GraphConstants DEF Fits
  <1> HIDE DEF N, N0, N1, E0, E1, n, p, v
  <1>12. n.ok /\ Len(n.graph.nodes) <= Len(graph.nodes) + N1
    <2>1. CASE find_node(w.graph, toks[i]) # 0
      BY <1>4, <1>7, <1>8, <1>10, <2>1, SMTT(40)
    <2>2. CASE find_node(w.graph, toks[i]) = 0
      <3>1. N1 = N0 + 1
        BY <1>5, <1>8, <2>2
      <3>2. n.ok
        <4> SUFFICES ASSUME ~n.ok PROVE FALSE
          BY <1>2
        <4> QED BY <1>4, <1>7, <1>8, <1>10, <1>11, <3>1
      <3>3. Len(n.graph.nodes) = Len(w.graph.nodes) + 1
        BY <1>4, <2>2, <3>2
      <3>4. Len(n.graph.nodes) <= Len(graph.nodes) + N1
        <4>1. \A a, b, c \in Nat : a <= b + c => a + 1 <= b + (c + 1)
          OBVIOUS
        <4> QED BY <1>7, <1>8, <1>10, <3>1, <3>3, <4>1
      <3> QED BY <3>2, <3>4
    <2> QED BY <2>1, <2>2
  <1>13. p.ok /\ Len(p.graph.edges) <= Len(graph.edges) + E1
    <2>1. CASE i = 1
      <3>1. p = n
        BY <1>2, <2>1 DEF p
      <3>2. E1 >= E0
        BY <1>9
      <3>3. Len(w.graph.edges) <= Len(graph.edges) + E1
        BY <1>7, <1>9, <1>10, <3>2
      <3>4. p.graph.edges = w.graph.edges
        BY <1>2, <3>1
      <3> QED BY <1>12, <3>1, <3>3, <3>4
    <2>2. CASE i > 1
      <3> DEFINE s == w.seen[i - 1]
                 t == n.at
      <3>1. p = observe_pair(n.graph, s, t)
        BY <1>2, <2>2 DEF p
      <3>0. i - 1 \in 1..(i - 1) /\ i - 1 \in 1..Len(toks) /\ toks[i - 1] \in Tokens
        BY <1>0, <2>2
      <3>2. /\ s \in 1..Len(n.graph.nodes) /\ n.graph.nodes[s].token = toks[i - 1]
            /\ t \in 1..Len(n.graph.nodes) /\ n.graph.nodes[t].token = toks[i]
        BY <1>2, <1>12, <3>0
      <3> HIDE DEF s, t
      <3>3. /\ p.ok \in BOOLEAN
            /\ find_edge(n.graph, s, t) # 0 => p.ok /\ Len(p.graph.edges) = Len(n.graph.edges)
            /\ p.ok /\ find_edge(n.graph, s, t) = 0 =>
                 Len(p.graph.edges) = Len(n.graph.edges) + 1
            /\ ~p.ok => EdgeCapacity # 0 /\ Len(n.graph.edges) >= EdgeCapacity
        BY <1>2, <3>1, <3>2, PairSound
      <3>4. CASE find_edge(n.graph, s, t) # 0
        <4>1. p.ok /\ Len(p.graph.edges) = Len(n.graph.edges)
          BY <3>3, <3>4
        <4>2. E0 <= E1 /\ E0 \in Nat /\ E1 \in Nat
          BY <1>9
        <4>3. Len(n.graph.edges) = Len(w.graph.edges) /\ Len(w.graph.edges) <= Len(graph.edges) + E0
          BY <1>2, <1>10
        <4>4. Len(p.graph.edges) <= Len(graph.edges) + E1
          BY <1>7, <4>1, <4>2, <4>3
        <4> QED BY <4>1, <4>4
      <3>5. CASE find_edge(n.graph, s, t) = 0
        <4>1. i \in E
          <5> DEFINE a == find_node(graph, toks[i - 1])
                     b == find_node(graph, toks[i])
          <5>1. ASSUME a # 0, b # 0, find_edge(graph, a, b) # 0 PROVE FALSE
            <6>1. find_node(n.graph, toks[i - 1]) = s /\ find_node(n.graph, toks[i]) = t
              BY <1>0, <1>2, <3>0, <3>2, FindIs, ZenonT(60)
            <6>2. a = s /\ b = t /\ a \in 1..Len(graph.nodes) /\ b \in 1..Len(graph.nodes)
              BY <1>0, <1>2, <3>0, <5>1, <6>1, NodeKept
            <6> HIDE DEF a, b
            <6>3. find_edge(n.graph, a, b) # 0
              BY <1>2, <5>1, <6>2, EdgeKept
            <6> QED BY <3>5, <6>2, <6>3
          <5>2. i \in DOMAIN toks \ {1}
            BY <1>0, <2>2
          <5> QED BY <5>1, <5>2 DEF NewEdges
        <4> HIDE DEF E
        <4>2. E1 = E0 + 1
          BY <1>9, <4>1
        <4>3. p.ok
          <5> SUFFICES ASSUME ~p.ok PROVE FALSE
            BY <3>3
          <5> QED BY <1>2, <1>7, <1>9, <1>10, <1>11, <3>3, <4>2
        <4>4. Len(p.graph.edges) = Len(w.graph.edges) + 1
          BY <1>2, <3>3, <3>5, <4>3
        <4>5. Len(p.graph.edges) <= Len(graph.edges) + E1
          <5>1. \A a, b, c \in Nat : a <= b + c => a + 1 <= b + (c + 1)
            OBVIOUS
          <5> QED BY <1>7, <1>9, <1>10, <4>2, <4>4, <5>1
        <4> QED BY <4>3, <4>5
      <3> QED BY <3>4, <3>5
    <2> QED BY <1>0, <2>1, <2>2
  <1>14. v.ok /\ v.graph = p.graph /\ p.graph.nodes = n.graph.nodes
    BY <1>1, <1>2, <1>12, <1>13
  <1> QED BY <1>12, <1>13, <1>14 DEF Within, N1, E1, N, v

\* The whole walk.
LEMMA WalkedIs ==
  ASSUME NEW graph, Sound(graph), NEW toks \in Seq(Tokens)
  PROVE  /\ Walk(graph, toks, Len(toks), Walked(graph, toks))
         /\ Fits(graph, toks) => Within(graph, toks, Len(toks), Walked(graph, toks))
  <1> DEFINE n == Len(toks)
             first == [ok |-> TRUE, graph |-> graph, seen |-> <<>>]
             V == [ok : BOOLEAN, graph : Graphs, seen : Seq(Nat)]
             Good(i, w) == Walk(graph, toks, i, w)
                           /\ (Fits(graph, toks) => Within(graph, toks, i, w))
             T == [i \in 0..n |-> {w \in V : Good(i, w)}]
             step == [p \in (1..n) \X V |-> observe_emit(p[2], toks[p[1]])]
             Is(f) == f = [i \in 0..n |-> IF i = 0 THEN first
                                          ELSE observe_emit(f[i - 1], toks[i])]
  <1>0. n \in Nat /\ 0 \in 0..n
    OBVIOUS
  <1>g. graph \in Graphs /\ Grown(graph, graph) /\ Len(graph.nodes) \in Nat
        /\ Len(graph.edges) \in Nat
    <2>1. graph \in Graphs /\ graph.nodes \in Seq(Node) /\ graph.edges \in Seq(Edge)
      BY DEF Sound, Stored, Graphs
    <2> QED BY <2>1, GrownSelf
  <1>1. first \in T[0]
    <2>1. /\ first.ok = TRUE /\ first.graph = graph /\ first.seen = <<>> /\ first \in V
          /\ Len(first.seen) = 0
      BY <1>g
    <2>2. first = [ok |-> first.ok, graph |-> first.graph, seen |-> first.seen]
      OBVIOUS
    <2> HIDE DEF first
    <2>3. Walk(graph, toks, 0, first)
      BY <1>g, <2>1, <2>2 DEF Walk
    <2>4. Within(graph, toks, 0, first)
      <3>1. 1..0 = {} /\ NewNodes(graph, toks) \cap {} = {} /\ NewEdges(graph, toks) \cap {} = {}
        OBVIOUS
      <3>2. Cardinality({}) = 0
        BY FS_EmptySet
      <3>3. /\ Cardinality(NewNodes(graph, toks) \cap (1..0)) = 0
            /\ Cardinality(NewEdges(graph, toks) \cap (1..0)) = 0
        BY <3>1, <3>2
      <3> QED BY <1>g, <2>1, <3>3 DEF Within
    <2> HIDE DEF V
    <2> QED BY <1>0, <2>1, <2>3, <2>4
  <1>2. ASSUME NEW i \in 1..n, NEW w \in T[i - 1]
        PROVE  observe_emit(w, toks[i]) \in T[i]
    <2> DEFINE v == observe_emit(w, toks[i])
    <2>0. i \in 1..Len(toks) /\ i - 1 \in 0..n /\ i \in 0..n
      BY <1>0
    <2>1. Walk(graph, toks, i - 1, w) /\ (Fits(graph, toks) => Within(graph, toks, i - 1, w))
      <3> HIDE DEF V, n
      <3> QED BY <2>0
    <2> HIDE DEF T, V
    <2>2. Walk(graph, toks, i, v)
      BY <2>0, <2>1, StepWalks
    <2>3. Fits(graph, toks) => Within(graph, toks, i, v)
      BY <2>0, <2>1, StepWithin
    <2>4. v \in V
      <3>1. v = [ok |-> v.ok, graph |-> v.graph, seen |-> v.seen] /\ v.ok \in BOOLEAN
            /\ v.graph \in Graphs /\ v.seen \in Seq(Nat)
        BY <2>2 DEF Walk, Sound, Stored
      <3> HIDE DEF v
      <3> QED BY <3>1, SMTT(40) DEF V
    <2> HIDE DEF v
    <2>5. Good(i, v)
      BY <2>2, <2>3
    <2> HIDE DEF n, Good
    <2> QED BY <2>0, <2>4, <2>5 DEF T, v
  <1>3. \A i \in 1..n : \A v \in T[i - 1] : step[<<i, v>>] = observe_emit(v, toks[i])
    <2>1. ASSUME NEW i \in 1..n, NEW v \in T[i - 1] PROVE v \in V
      <3>1. i - 1 \in 0..n
        BY <1>0
      <3> HIDE DEF Good, V, n
      <3> QED BY <3>1
    <2> HIDE DEF T, V, n
    <2> QED BY <2>1
  <1> HIDE DEF T, step, first
  <1>5. \E f : Is(f)
    <2>1. \A i \in 1..n : \A v \in T[i - 1] : step[<<i, v>>] \in T[i]
      BY <1>2, <1>3
    <2>2. PICK f : Iterates(f, n, T, first, step)
      <3> HIDE DEF n
      <3> QED BY <1>0, <1>1, <2>1, Recursion DEF Leads
    <2>3. \A i \in 1..n : f[i] = observe_emit(f[i - 1], toks[i])
      <3>0. \A i \in 1..n : i - 1 \in 0..n
        BY <1>0
      <3>1. \A i \in 1..n : f[i - 1] \in T[i - 1]
        BY <3>0, <2>2 DEF Iterates
      <3> HIDE DEF n
      <3> QED BY <1>3, <2>2, <3>1 DEF Iterates
    <2>4. \A i \in 0..n : f[i] = IF i = 0 THEN first ELSE observe_emit(f[i - 1], toks[i])
      <3>1. f[0] = first
        BY <2>2 DEF Iterates
      <3>2. \A i \in 0..n : i # 0 => i \in 1..n
        BY <1>0
      <3> HIDE DEF n
      <3> QED BY <2>3, <3>1, <3>2
    <2>5. Is(f)
      <3> HIDE DEF n
      <3> QED BY <2>2, <2>4 DEF Iterates
    <2> QED BY <2>5
  <1>6. PICK f : Is(f) /\ Walked(graph, toks) = f[n]
    BY <1>5 DEF Walked, first
  <1> HIDE DEF n
  <1>7. f[0] = first /\ \A i \in 1..n : f[i] = observe_emit(f[i - 1], toks[i])
    BY <1>0, <1>6
  <1>8. \A i \in 0..n : f[i] \in T[i]
    <2>1. f[0] \in T[0]
      BY <1>1, <1>7
    <2>2. \A i \in 1..n : f[i - 1] \in T[i - 1] => f[i] \in T[i]
      BY <1>2, <1>7
    <2> QED BY <1>0, <2>1, <2>2, Passes
  <1>9. f[n] \in T[n] /\ n \in 0..n
    BY <1>0, <1>8
  <1>10. Good(n, f[n])
    <2> HIDE DEF V, Good
    <2> QED BY <1>0, <1>9 DEF T
  <1> QED BY <1>6, <1>10 DEF n

---------------------------------------------------------------------------
(* Episodes and their groups. *)

\* A summary is short and names nodes that were seen.
LEMMA EpisodeBuilt ==
  ASSUME NEW m \in Nat, NEW seen \in Seq(Nat), \A k \in 1..Len(seen) : seen[k] \in 1..m,
         NEW id \in Nat, NEW at \in Nat
  PROVE  /\ episode_build(seen, id, at) \in Episode
         /\ SummarySound(m, episode_build(seen, id, at).summary)
  <1> DEFINE Count(x) == Cardinality({i \in DOMAIN seen : seen[i] = x})
             S == ToSet(seen)
             Comes(a, b) == Count(a) > Count(b) \/ (Count(a) = Count(b) /\ a < b)
             R == {p \in S \X S : Comes(p[1], p[2])}
             n == Cardinality(S)
             sorted == Ordered(S, LAMBDA a, b : Count(a) > Count(b) \/ (Count(a) = Count(b) /\ a < b))
             At(i) == CHOOSE x \in S : Cardinality({y \in S : Comes(y, x)}) = i - 1
             kept == SubSeq(sorted, 1, Min({Len(sorted), SummarySize}))
             summary == [k \in DOMAIN kept |-> [node |-> kept[k], weight |-> Count(kept[k])]]
  <1>1. DOMAIN seen = 1..Len(seen) /\ Len(seen) \in Nat
    OBVIOUS
  <1>2. S \in SUBSET (1..m)
    BY <1>1 DEF ToSet
  <1>3. IsFiniteSet(S)
    <2>1. IsFiniteSet(1..m)
      BY FS_Interval
    <2> HIDE DEF S
    <2> QED BY <1>2, <2>1, FS_Subset
  <1>4. ASSUME NEW x PROVE Count(x) \in Nat
    <2>1. IsFiniteSet(1..Len(seen))
      BY <1>1, FS_Interval
    <2>2. {i \in DOMAIN seen : seen[i] = x} \in SUBSET (1..Len(seen))
      BY <1>1
    <2>3. IsFiniteSet({i \in DOMAIN seen : seen[i] = x})
      BY <2>1, <2>2, FS_Subset
    <2> QED BY <2>3, FS_CardinalityType
  <1> HIDE DEF Count, S
  <1>5. StrictOrder(S, R)
    <2>0. \A x \in S : x \in Nat /\ Count(x) \in Nat
      BY <1>2, <1>4
    <2>1. \A x \in S : ~Comes(x, x)
      BY <2>0
    <2>2. \A x, y \in S : x # y => Comes(x, y) \/ Comes(y, x)
      BY <2>0
    <2>3. \A x, y, z \in S : Comes(x, y) /\ Comes(y, z) => Comes(x, z)
      BY <2>0
    <2>4. \A x, y \in S : <<x, y>> \in R <=> Comes(x, y)
      <3> HIDE DEF Comes
      <3> QED OBVIOUS
    <2> HIDE DEF Comes, R
    <2> QED BY <2>1, <2>2, <2>3, <2>4 DEF StrictOrder
  <1>6. ASSUME NEW x \in S PROVE Rank(S, R, x) = Cardinality({y \in S : Comes(y, x)})
    <2>1. {y \in S : <<y, x>> \in R} = {y \in S : Comes(y, x)}
      <3> HIDE DEF Comes
      <3> QED OBVIOUS
    <2> HIDE DEF Comes, R
    <2> QED BY <2>1 DEF Rank
  <1>7. n \in Nat
    <2> QED BY <1>3, FS_CardinalityType
  <1>8. sorted = [i \in 1..n |-> At(i)]
    BY DEF Ordered
  <1>9. ASSUME NEW i \in 1..n PROVE At(i) \in S
    <2>1. \E x \in S : Rank(S, R, x) = i - 1
      <3> HIDE DEF R
      <3> QED BY <1>3, <1>5, Ranks
    <2>2. \E x \in S : Cardinality({y \in S : Comes(y, x)}) = i - 1
      <3> HIDE DEF R, Comes
      <3> QED BY <1>6, <2>1
    <2> HIDE DEF Comes
    <2> QED BY <2>2
  <1> HIDE DEF At, R, n, sorted
  <1>10. sorted \in Seq(S) /\ Len(sorted) = n
    BY <1>7, <1>8, <1>9
  <1>11. kept \in Seq(S) /\ Len(kept) \in Nat /\ Len(kept) <= SummarySize
    <2> DEFINE l == Min({Len(sorted), SummarySize})
    <2>1. SummarySize \in Nat
      BY GraphConstants
    <2>2. l \in {Len(sorted), SummarySize} /\ l <= SummarySize /\ l <= Len(sorted)
      <3>1. \E x \in {Len(sorted), SummarySize} : \A y \in {Len(sorted), SummarySize} : x <= y
        BY <1>7, <1>10, <2>1
      <3>2. l \in {Len(sorted), SummarySize} /\ \A y \in {Len(sorted), SummarySize} : l <= y
        BY <3>1 DEF Min
      <3> QED BY <3>2
    <2> HIDE DEF l
    <2>3. l \in Nat
      BY <1>7, <1>10, <2>1, <2>2
    <2>4. SubSeq(sorted, 1, l) \in Seq(S) /\ Len(SubSeq(sorted, 1, l)) = l
      BY <1>10, <2>2, <2>3
    <2> QED BY <2>2, <2>3, <2>4 DEF l
  <1> HIDE DEF kept
  <1>12. DOMAIN kept = 1..Len(kept) /\ \A k \in 1..Len(kept) : kept[k] \in S
    BY <1>11
  <1>13. ASSUME NEW k \in 1..Len(kept)
         PROVE  kept[k] \in 1..m /\ [node |-> kept[k], weight |-> Count(kept[k])] \in Note
    <2>0. kept[k] \in 1..m
      BY <1>2, <1>12
    <2>a. kept[k] \in Nat
      BY <2>0
    <2>b. Count(kept[k]) \in Nat
      BY <1>4
    <2>1. kept[k] \in 1..m /\ kept[k] \in Nat /\ Count(kept[k]) \in Nat
      BY <2>0, <2>a, <2>b
    <2> QED BY <2>1 DEF Note
  <1>14. /\ summary \in Seq(Note) /\ Len(summary) = Len(kept)
         /\ \A k \in 1..Len(kept) : summary[k].node = kept[k]
    <2>1. summary = [k \in 1..Len(kept) |-> [node |-> kept[k], weight |-> Count(kept[k])]]
      BY <1>12
    <2>2. \A k \in 1..Len(kept) : summary[k] = [node |-> kept[k], weight |-> Count(kept[k])]
      BY <2>1
    <2> HIDE DEF summary
    <2>3. summary \in Seq(Note) /\ Len(summary) = Len(kept)
      <3>1. \A k \in 1..Len(kept) : summary[k] \in Note
        BY <1>13, <2>2
      <3>2. DOMAIN summary = 1..Len(kept) /\ summary = [k \in 1..Len(kept) |-> summary[k]]
        BY <2>1
      <3>3. PICK l \in Nat : l = Len(kept)
        BY <1>11
      <3>4. summary \in [1..l -> Note]
        BY <3>1, <3>2, <3>3
      <3>5. summary \in Seq(Note) /\ Len(summary) = l
        BY <3>4
      <3> QED BY <3>3, <3>5
    <2>4. ASSUME NEW k \in 1..Len(kept) PROVE summary[k].node = kept[k]
      <3>1. PICK w : w = Count(kept[k])
        OBVIOUS
      <3>2. summary[k] = [node |-> kept[k], weight |-> w]
        BY <2>2, <3>1
      <3> QED BY <3>2
    <2> QED BY <2>3, <2>4
  <1>15. episode_build(seen, id, at) = [id |-> id, at |-> at, recalls |-> 0, summary |-> summary]
    BY DEF episode_build, kept, sorted, S, Count
  <1> HIDE DEF summary
  <1>16. episode_build(seen, id, at) \in Episode
    BY <1>14, <1>15 DEF Episode
  <1>17. \A k \in 1..Len(kept) : kept[k] \in 1..m
    BY <1>13
  <1>18. SummarySound(m, summary)
    BY <1>11, <1>14, <1>17 DEF SummarySound
  <1> QED BY <1>15, <1>16, <1>18

\* A union that is not full has every node it was given.
LEMMA UnionIs ==
  ASSUME NEW tokens \in SUBSET Nat, IsFiniteSet(tokens), Cardinality(tokens) <= GroupTokenMax,
         NEW nodes \in Seq(Nat)
  PROVE  LET u == Union(tokens, nodes)
         IN /\ u \in SUBSET Nat /\ IsFiniteSet(u) /\ Cardinality(u) <= GroupTokenMax
            /\ tokens \subseteq u
            /\ Cardinality(tokens) = GroupTokenMax => Cardinality(u) = GroupTokenMax
            /\ Cardinality(u) = GroupTokenMax \/ \A k \in 1..Len(nodes) : nodes[k] \in u
  <1> DEFINE n == Len(nodes)
             V == SUBSET Nat
             Next1(u, k) == IF Cardinality(u) < GroupTokenMax THEN u \cup {nodes[k]} ELSE u
             Good(i, u) == /\ IsFiniteSet(u) /\ Cardinality(u) <= GroupTokenMax /\ tokens \subseteq u
                           /\ Cardinality(u) = GroupTokenMax \/ \A k \in 1..i : nodes[k] \in u
             T == [i \in 0..n |-> {u \in V : Good(i, u)}]
             step == [p \in (1..n) \X V |-> Next1(p[2], p[1])]
             Is(f) == f = [k \in 0..n |->
                             IF k = 0 THEN tokens
                             ELSE IF Cardinality(f[k - 1]) < GroupTokenMax
                                  THEN f[k - 1] \cup {nodes[k]} ELSE f[k - 1]]
  <1>0. n \in Nat /\ 0 \in 0..n /\ GroupTokenMax \in Nat \ {0}
        /\ \A k \in 1..n : nodes[k] \in Nat
    BY GraphConstants
  <1>1. tokens \in T[0]
    <2> HIDE DEF n
    <2> QED BY <1>0
  <1>2. ASSUME NEW i \in 1..n, NEW u \in T[i - 1] PROVE Next1(u, i) \in T[i]
    <2>0. i - 1 \in 0..n /\ i \in 0..n /\ i \in Nat /\ nodes[i] \in Nat
      BY <1>0
    <2>1. u \in V /\ Good(i - 1, u)
      <3> HIDE DEF n, V, Good
      <3> QED BY <2>0
    <2>2. Cardinality(u) \in Nat
      BY <2>1, FS_CardinalityType
    <2>3. CASE Cardinality(u) < GroupTokenMax
      <3> DEFINE w == u \cup {nodes[i]}
      <3>1. IsFiniteSet(w) /\ Cardinality(w) <= Cardinality(u) + 1 /\ Cardinality(w) \in Nat
        <4>1. CASE nodes[i] \in u
          <5>1. w = u
            BY <4>1
          <5> QED BY <2>1, <2>2, <5>1, SMTT(40)
        <4>2. CASE nodes[i] \notin u
          <5>1. IsFiniteSet(w) /\ Cardinality(w) = Cardinality(u) + 1
            BY <2>1, <4>2, FS_AddElement
          <5> HIDE DEF w
          <5> QED BY <2>2, <5>1
        <4> QED BY <4>1, <4>2
      <3>2. Cardinality(w) <= GroupTokenMax
        <4> HIDE DEF w
        <4> QED BY <1>0, <2>2, <2>3, <3>1
      <3>3. \A k \in 1..i : nodes[k] \in w
        <4>1. \A k \in 1..(i - 1) : nodes[k] \in u
          BY <1>0, <2>1, <2>2, <2>3
        <4>2. \A k \in 1..i : k \in 1..(i - 1) \/ k = i
          BY <2>0
        <4> QED BY <4>1, <4>2
      <3>4. w \in V /\ Good(i, w)
        BY <2>0, <2>1, <3>1, <3>2, <3>3
      <3>5. Next1(u, i) = w
        BY <2>3
      <3> HIDE DEF w, V, Good, Next1, n
      <3> QED BY <2>0, <3>4, <3>5
    <2>4. CASE ~(Cardinality(u) < GroupTokenMax)
      <3>1. Cardinality(u) = GroupTokenMax
        BY <1>0, <2>1, <2>2, <2>4
      <3>2. Good(i, u) /\ Next1(u, i) = u
        BY <2>1, <2>4, <3>1
      <3> HIDE DEF V, Good, Next1, n
      <3> QED BY <2>0, <2>1, <3>2
    <2> QED BY <2>3, <2>4
  <1>3. \A i \in 1..n : \A v \in T[i - 1] : step[<<i, v>>] = Next1(v, i)
    <2>1. ASSUME NEW i \in 1..n, NEW v \in T[i - 1] PROVE v \in V
      <3>1. i - 1 \in 0..n
        BY <1>0
      <3> HIDE DEF Good, V, n
      <3> QED BY <3>1
    <2> HIDE DEF T, V, n, Next1
    <2> QED BY <2>1
  <1> HIDE DEF T, step
  <1>5. \E f : Is(f)
    <2>1. \A i \in 1..n : \A v \in T[i - 1] : step[<<i, v>>] \in T[i]
      <3> HIDE DEF Next1
      <3> QED BY <1>2, <1>3
    <2>2. PICK f : Iterates(f, n, T, tokens, step)
      <3> HIDE DEF n
      <3> QED BY <1>0, <1>1, <2>1, Recursion DEF Leads
    <2>3. \A i \in 1..n : f[i] = Next1(f[i - 1], i)
      <3>0. \A i \in 1..n : i - 1 \in 0..n
        BY <1>0
      <3>1. \A i \in 1..n : f[i - 1] \in T[i - 1]
        BY <3>0, <2>2 DEF Iterates
      <3> HIDE DEF n, Next1
      <3> QED BY <1>3, <2>2, <3>1 DEF Iterates
    <2>4. \A i \in 0..n : f[i] = IF i = 0 THEN tokens ELSE Next1(f[i - 1], i)
      <3>1. f[0] = tokens
        BY <2>2 DEF Iterates
      <3>2. \A i \in 0..n : i # 0 => i \in 1..n
        BY <1>0
      <3> HIDE DEF n, Next1
      <3> QED BY <2>3, <3>1, <3>2
    <2>5. Is(f)
      <3> HIDE DEF n
      <3> QED BY <2>2, <2>4 DEF Iterates
    <2> QED BY <2>5
  <1>6. PICK f : Is(f) /\ Union(tokens, nodes) = f[n]
    BY <1>5 DEF Union
  <1> HIDE DEF n
  <1>7. f[0] = tokens /\ \A i \in 1..n : f[i] = Next1(f[i - 1], i)
    <2>1. f = [k \in 0..n |-> IF k = 0 THEN tokens ELSE Next1(f[k - 1], k)]
      BY <1>6
    <2> HIDE DEF Next1
    <2> QED BY <1>0, <2>1
  <1>8. \A i \in 0..n : f[i] \in T[i]
    <2>1. f[0] \in T[0]
      BY <1>1, <1>7
    <2>2. \A i \in 1..n : f[i - 1] \in T[i - 1] => f[i] \in T[i]
      <3> HIDE DEF Next1
      <3> QED BY <1>2, <1>7
    <2> QED BY <1>0, <2>1, <2>2, Passes
  <1>9. f[n] \in T[n] /\ n \in 0..n
    BY <1>0, <1>8
  <1>10. f[n] \in V /\ Good(n, f[n])
    <2> HIDE DEF V, Good
    <2> QED BY <1>0, <1>9 DEF T
  <1> DEFINE u == f[n]
  <1>11. Cardinality(tokens) = GroupTokenMax => Cardinality(u) = GroupTokenMax
    <2>1. tokens \in SUBSET u /\ IsFiniteSet(u) /\ Cardinality(u) <= GroupTokenMax
      BY <1>10
    <2> HIDE DEF u
    <2>2. Cardinality(tokens) <= Cardinality(u)
      BY <2>1, FS_Subset
    <2>3. Cardinality(u) \in Nat /\ Cardinality(tokens) \in Nat
      BY <2>1, FS_CardinalityType
    <2> QED BY <1>0, <2>1, <2>2, <2>3
  <1> QED BY <1>6, <1>10, <1>11 DEF n

\* The same but for the groups.
Beside(a, b) ==
  /\ b.nodes = a.nodes /\ b.edges = a.edges /\ b.episodes = a.episodes
  /\ b.valence = a.valence /\ b.log = a.log /\ b.mirror = a.mirror
  /\ b.node_index = a.node_index /\ b.edge_index = a.edge_index
  /\ b.architecture = a.architecture /\ b.migrations = a.migrations

LEMMA BesideStored ==
  ASSUME NEW a, NEW b, Beside(a, b), b \in Graphs
  PROVE  /\ Stored(a) => Stored(b)
         /\ Indexed(a) => Indexed(b)
  BY DEF Beside, Stored, Indexed

\* The nodes of a summary.
LEMMA SummaryNodesAre ==
  ASSUME NEW episode \in Episode
  PROVE  /\ SummaryNodes(episode) \in Seq(Nat)
         /\ Len(SummaryNodes(episode)) = Len(episode.summary)
         /\ \A k \in 1..Len(episode.summary) :
              SummaryNodes(episode)[k] = episode.summary[k].node
  <1> DEFINE s == episode.summary
  <1>1. s \in Seq(Note)
    BY DEF Episode
  <1>2. DOMAIN s = 1..Len(s) /\ Len(s) \in Nat /\ \A k \in 1..Len(s) : s[k] \in Note
    BY <1>1
  <1>3. SummaryNodes(episode) = [k \in 1..Len(s) |-> s[k].node]
    BY <1>2 DEF SummaryNodes
  <1> HIDE DEF s
  <1>4. \A k \in 1..Len(s) : s[k].node \in Nat
    BY <1>2 DEF Note
  <1>5. SummaryNodes(episode) \in Seq(Nat) /\ Len(SummaryNodes(episode)) = Len(s)
    BY <1>2, <1>3, <1>4
  <1> QED BY <1>3, <1>5 DEF s

\* One more episode has a group that covers it, and the others keep theirs.
LEMMA IndexEpisode ==
  ASSUME NEW graph \in Graphs, NEW i \in 1..Len(graph.episodes), GroupsSound(graph.groups),
         Covered(graph.episodes, i - 1, graph.groups, graph.member),
         NEW h, h = index_episode(graph, i)
  PROVE  /\ h \in Graphs /\ Beside(graph, h) /\ GroupsSound(h.groups)
         /\ Covered(h.episodes, i, h.groups, h.member)
  <1> DEFINE episodes == graph.episodes
             nodes  == SummaryNodes(episodes[i])
             key    == GroupKey(nodes)
             known  == GroupOf(graph.groups, key)
             groups == IF known # 0 THEN graph.groups ELSE group_create(graph.groups, key)
             id     == IF known # 0 THEN known ELSE Len(groups)
             union  == Union(groups[id].tokens, nodes)
             more   == [groups EXCEPT ![id].tokens = union]
             member == [k \in 1..i |-> IF k = i THEN id ELSE graph.member[k]]
  <1>1. /\ episodes \in Seq(Episode) /\ Len(episodes) \in Nat /\ episodes[i] \in Episode
        /\ i \in Nat /\ i - 1 \in Nat
        /\ graph.groups \in Seq(Group) /\ Len(graph.groups) \in Nat
        /\ graph.member \in Seq(Nat) /\ Len(graph.member) = i - 1
    <2>1. episodes \in Seq(Episode) /\ graph.groups \in Seq(Group) /\ graph.member \in Seq(Nat)
      BY DEF Graphs
    <2>2. i \in 1..Len(episodes) /\ Len(episodes) \in Nat
      BY <2>1
    <2>3. episodes[i] \in Episode
      BY <2>1, <2>2
    <2> HIDE DEF episodes
    <2> QED BY <2>1, <2>2, <2>3 DEF Covered
  <1>2. h = [graph EXCEPT !.groups = more, !.member = member]
    BY DEF index_episode
  <1>3. /\ nodes \in Seq(Nat) /\ Len(nodes) = Len(episodes[i].summary)
        /\ \A k \in 1..Len(episodes[i].summary) : nodes[k] = episodes[i].summary[k].node
    BY <1>1, SummaryNodesAre
  <1> HIDE DEF nodes
  <1>4. known \in 0..Len(graph.groups)
    <2> DEFINE I == {j \in 1..Len(graph.groups) : graph.groups[j].key = key}
    <2>1. known = IF I # {} THEN Min(I) ELSE 0
      BY DEF GroupOf, SelectInSeq
    <2>2. I \in SUBSET Nat
      OBVIOUS
    <2>3. I # {} => \E x \in I : \A y \in I : x <= y
      <3> HIDE DEF I
      <3> QED BY <2>2, LeastNatural
    <2>4. I # {} => Min(I) \in I
      <3> HIDE DEF I
      <3> QED BY <2>3 DEF Min
    <2> HIDE DEF known
    <2> QED BY <1>1, <2>1, <2>4
  <1> HIDE DEF known
  <1>5. /\ groups \in Seq(Group) /\ Len(groups) \in Nat /\ GroupsSound(groups)
        /\ id \in 1..Len(groups)
        /\ \A j \in 1..Len(graph.groups) : j \in 1..Len(groups) /\ groups[j] = graph.groups[j]
    <2>1. CASE known # 0
      <3>1. groups = graph.groups /\ id = known
        BY <2>1
      <3> HIDE DEF groups, id
      <3> QED BY <1>1, <1>4, <2>1, <3>1
    <2>2. CASE known = 0
      <3> DEFINE group == [key |-> key, tokens |-> {}]
      <3>1. group \in Group /\ group.tokens = {}
        BY <1>3 DEF Group
      <3>2. groups = Append(graph.groups, group) /\ id = Len(groups)
        BY <2>2 DEF group_create
      <3> HIDE DEF group, groups, id
      <3>3. /\ groups \in Seq(Group) /\ Len(groups) = Len(graph.groups) + 1
            /\ groups[Len(graph.groups) + 1] = group
            /\ \A j \in 1..Len(graph.groups) : groups[j] = graph.groups[j]
        BY <1>1, <3>1, <3>2
      <3>4. IsFiniteSet({}) /\ Cardinality({}) = 0 /\ GroupTokenMax \in Nat
        BY FS_EmptySet, GraphConstants
      <3>5. \A j \in 1..Len(groups) : j \in 1..Len(graph.groups) \/ j = Len(graph.groups) + 1
        BY <1>1, <3>3
      <3>6. GroupsSound(groups)
        <4>1. ASSUME NEW j \in 1..Len(groups)
              PROVE  IsFiniteSet(groups[j].tokens) /\ Cardinality(groups[j].tokens) <= GroupTokenMax
          <5>1. CASE j \in 1..Len(graph.groups)
            BY <3>3, <5>1 DEF GroupsSound
          <5>2. CASE j = Len(graph.groups) + 1
            <6>1. groups[j].tokens = {}
              BY <3>1, <3>3, <5>2
            <6> QED BY <3>4, <6>1
          <5> QED BY <3>5, <5>1, <5>2
        <4> QED BY <4>1 DEF GroupsSound
      <3> QED BY <1>1, <3>2, <3>3, <3>6
    <2> QED BY <2>1, <2>2
  <1> HIDE DEF groups, id
  <1>6. /\ groups[id] \in Group /\ groups[id].tokens \in SUBSET Nat
        /\ IsFiniteSet(groups[id].tokens) /\ Cardinality(groups[id].tokens) <= GroupTokenMax
    <2>1. groups[id] \in Group
      BY <1>5
    <2> QED BY <1>5, <2>1 DEF GroupsSound, Group
  <1>7. /\ union \in SUBSET Nat /\ IsFiniteSet(union) /\ Cardinality(union) <= GroupTokenMax
        /\ groups[id].tokens \subseteq union
        /\ Cardinality(groups[id].tokens) = GroupTokenMax => Cardinality(union) = GroupTokenMax
        /\ Cardinality(union) = GroupTokenMax \/ \A k \in 1..Len(nodes) : nodes[k] \in union
    BY <1>3, <1>6, UnionIs
  <1> HIDE DEF union
  <1>8. /\ more \in Seq(Group) /\ Len(more) = Len(groups) /\ more[id].tokens = union
        /\ \A j \in 1..Len(groups) : j # id => more[j] = groups[j]
    <2> DEFINE x == [groups[id] EXCEPT !.tokens = union]
    <2>1. x \in Group /\ x.tokens = union
      BY <1>6, <1>7 DEF Group
    <2>2. more = [groups EXCEPT ![id] = x]
      OBVIOUS
    <2> HIDE DEF x, more
    <2> QED BY <1>5, <2>1, <2>2
  <1> HIDE DEF more
  <1>9. GroupsSound(more)
    <2>1. \A j \in 1..Len(more) : j \in 1..Len(groups)
      BY <1>8
    <2> QED BY <1>5, <1>7, <1>8, <2>1 DEF GroupsSound
  <1>10. /\ member \in Seq(Nat) /\ Len(member) = i /\ member[i] = id
         /\ \A k \in 1..(i - 1) : member[k] = graph.member[k]
    <2>1. id \in Nat
      BY <1>5
    <2>2. \A k \in 1..i : k = i \/ k \in 1..(i - 1)
      BY <1>1
    <2>3. \A k \in 1..i : member[k] \in Nat
      BY <1>1, <2>1, <2>2
    <2>4. member \in [1..i -> Nat]
      BY <2>3
    <2> QED BY <1>1, <2>4
  <1> HIDE DEF member
  <1>11. /\ h \in Graphs /\ h.groups = more /\ h.member = member /\ Beside(graph, h)
    BY <1>2, <1>8, <1>10 DEF Graphs, Beside
  <1>12. ASSUME NEW k \in 1..(i - 1)
         PROVE  member[k] \in 1..Len(more) /\ Covers(more[member[k]], episodes[k].summary)
    <2>0. PICK j : j = graph.member[k]
      OBVIOUS
    <2>1. j \in 1..Len(graph.groups) /\ Covers(graph.groups[j], episodes[k].summary)
          /\ member[k] = j
      BY <1>10, <2>0 DEF Covered
    <2>2. j \in 1..Len(groups) /\ groups[j] = graph.groups[j]
      BY <1>5, <2>1
    <2>3. CASE j # id
      BY <1>8, <2>1, <2>2, <2>3
    <2>4. CASE j = id
      <3>1. Covers(groups[id], episodes[k].summary)
        BY <2>1, <2>2, <2>4
      <3>2. Covers(more[id], episodes[k].summary)
        BY <1>7, <1>8, <3>1 DEF Covers
      <3> QED BY <1>8, <2>1, <2>2, <2>4, <3>2
    <2> QED BY <2>3, <2>4
  <1>13. member[i] \in 1..Len(more) /\ Covers(more[member[i]], episodes[i].summary)
    BY <1>3, <1>5, <1>7, <1>8, <1>10 DEF Covers
  <1>14. Covered(episodes, i, more, member)
    <2>1. \A k \in 1..i : k = i \/ k \in 1..(i - 1)
      BY <1>1
    <2> QED BY <1>10, <1>12, <1>13, <2>1 DEF Covered
  <1>15. h.episodes = episodes
    BY <1>11 DEF Beside
  <1> QED BY <1>9, <1>11, <1>14, <1>15

\* Every episode has a group again, and nothing else changes.
LEMMA RegroupedIs ==
  ASSUME NEW graph \in Graphs
  PROVE  Regrouped(graph) \in Graphs /\ Beside(graph, Regrouped(graph))
         /\ Grouped(Regrouped(graph))
  <1> DEFINE n == Len(graph.episodes)
             bare == [graph EXCEPT !.groups = <<>>, !.member = <<>>]
             V == Graphs
             Good(i, h) == /\ Beside(graph, h) /\ GroupsSound(h.groups)
                           /\ Covered(h.episodes, i, h.groups, h.member)
             T == [i \in 0..n |-> {h \in V : Good(i, h)}]
             step == [p \in (1..n) \X V |-> index_episode(p[2], p[1])]
             Is(f) == f = [i \in 0..n |-> IF i = 0 THEN bare ELSE index_episode(f[i - 1], i)]
  <1>0. n \in Nat /\ 0 \in 0..n
    <2>1. graph.episodes \in Seq(Episode)
      BY DEF Graphs
    <2> QED BY <2>1
  <1>1. bare \in T[0]
    <2>e. <<>> \in Seq(Group) /\ <<>> \in Seq(Nat)
      OBVIOUS
    <2>x. PICK x \in Seq(Group) : x = <<>>
      BY <2>e, Zenon
    <2>y. PICK y \in Seq(Nat) : y = <<>>
      BY <2>e, Zenon
    <2>b. bare = [graph EXCEPT !.groups = x, !.member = y]
      BY <2>x, <2>y
    <2> HIDE DEF bare
    <2>1. bare \in Graphs /\ Beside(graph, bare) /\ bare.groups = <<>> /\ bare.member = <<>>
      <3>1. bare \in Graphs /\ bare.groups = x /\ bare.member = y
        BY <2>b DEF Graphs
      <3>2. Beside(graph, bare)
        BY <2>b DEF Graphs, Beside
      <3> QED BY <2>x, <2>y, <3>1, <3>2
    <2> HIDE DEF bare
    <2>2. GroupsSound(bare.groups) /\ Covered(bare.episodes, 0, bare.groups, bare.member)
      BY <2>1 DEF GroupsSound, Covered
    <2>3. Good(0, bare)
      BY <2>1, <2>2
    <2> HIDE DEF Good, n
    <2> QED BY <1>0, <2>1, <2>3
  <1>2. ASSUME NEW i \in 1..n, NEW h \in T[i - 1]
        PROVE  index_episode(h, i) \in T[i]
    <2> DEFINE v == index_episode(h, i)
    <2>0. i - 1 \in 0..n /\ i \in 0..n
      BY <1>0
    <2>1. h \in Graphs /\ Good(i - 1, h)
      <3> HIDE DEF n, Good
      <3> QED BY <2>0
    <2> HIDE DEF T, v
    <2>2. i \in 1..Len(h.episodes)
      BY <2>1 DEF Beside
    <2>3. /\ v \in Graphs /\ Beside(h, v) /\ GroupsSound(v.groups)
          /\ Covered(v.episodes, i, v.groups, v.member)
      BY <2>1, <2>2, IndexEpisode DEF v
    <2>4. Beside(graph, v)
      BY <2>1, <2>3 DEF Beside
    <2>5. Good(i, v)
      BY <2>3, <2>4
    <2> HIDE DEF n, Good
    <2> QED BY <2>0, <2>3, <2>5 DEF T, v
  <1>3. \A i \in 1..n : \A v \in T[i - 1] : step[<<i, v>>] = index_episode(v, i)
    <2>1. ASSUME NEW i \in 1..n, NEW v \in T[i - 1] PROVE v \in V
      <3>1. i - 1 \in 0..n
        BY <1>0
      <3> HIDE DEF Good, V, n
      <3> QED BY <3>1
    <2> HIDE DEF T, V, n
    <2> QED BY <2>1
  <1> HIDE DEF T, step, bare
  <1>5. \E f : Is(f)
    <2>1. \A i \in 1..n : \A v \in T[i - 1] : step[<<i, v>>] \in T[i]
      BY <1>2, <1>3
    <2>2. PICK f : Iterates(f, n, T, bare, step)
      <3> HIDE DEF n
      <3> QED BY <1>0, <1>1, <2>1, Recursion DEF Leads
    <2>3. \A i \in 1..n : f[i] = index_episode(f[i - 1], i)
      <3>0. \A i \in 1..n : i - 1 \in 0..n
        BY <1>0
      <3>1. \A i \in 1..n : f[i - 1] \in T[i - 1]
        BY <3>0, <2>2 DEF Iterates
      <3> HIDE DEF n
      <3> QED BY <1>3, <2>2, <3>1 DEF Iterates
    <2>4. \A i \in 0..n : f[i] = IF i = 0 THEN bare ELSE index_episode(f[i - 1], i)
      <3>1. f[0] = bare
        BY <2>2 DEF Iterates
      <3>2. \A i \in 0..n : i # 0 => i \in 1..n
        BY <1>0
      <3> HIDE DEF n
      <3> QED BY <2>3, <3>1, <3>2
    <2>5. Is(f)
      <3> HIDE DEF n
      <3> QED BY <2>2, <2>4 DEF Iterates
    <2> QED BY <2>5
  <1>6. PICK f : Is(f) /\ Regrouped(graph) = f[n]
    BY <1>5 DEF Regrouped, bare
  <1> HIDE DEF n
  <1>7. f[0] = bare /\ \A i \in 1..n : f[i] = index_episode(f[i - 1], i)
    BY <1>0, <1>6
  <1>8. \A i \in 0..n : f[i] \in T[i]
    <2>1. f[0] \in T[0]
      BY <1>1, <1>7
    <2>2. \A i \in 1..n : f[i - 1] \in T[i - 1] => f[i] \in T[i]
      BY <1>2, <1>7
    <2> QED BY <1>0, <2>1, <2>2, Passes
  <1>9. f[n] \in T[n] /\ n \in 0..n
    BY <1>0, <1>8
  <1>10. f[n] \in V /\ Good(n, f[n])
    <2> HIDE DEF V, Good
    <2> QED BY <1>0, <1>9 DEF T
  <1> DEFINE r == f[n]
  <1>11. Grouped(r)
    <2>1. r.episodes = graph.episodes
      BY <1>10 DEF Beside
    <2> HIDE DEF r
    <2> QED BY <1>10, <2>1 DEF Grouped, n, r
  <1> QED BY <1>6, <1>10, <1>11

\* An episode joins.
LEMMA RecordSound ==
  ASSUME NEW graph, Sound(graph), NEW episode \in Episode,
         SummarySound(Len(graph.nodes), episode.summary),
         NEW h, h = record_episode(graph, episode)
  PROVE  /\ Sound(h) /\ h.nodes = graph.nodes /\ h.edges = graph.edges
         /\ h.valence = graph.valence /\ h.log = graph.log /\ h.mirror = graph.mirror
         /\ h.architecture = graph.architecture /\ h.migrations = graph.migrations
         /\ h.episodes = Append(graph.episodes, episode)
  <1> DEFINE n == Len(graph.episodes)
             more == Append(graph.episodes, episode)
             b == [graph EXCEPT !.episodes = more]
  <1>1. graph \in Graphs /\ graph.episodes \in Seq(Episode) /\ n \in Nat
    BY DEF Sound, Stored, Graphs
  <1>2. /\ more \in Seq(Episode) /\ Len(more) = n + 1 /\ more[n + 1] = episode
        /\ \A k \in 1..n : more[k] = graph.episodes[k]
    BY <1>1
  <1>3. h = index_episode(b, n + 1)
    BY DEF record_episode
  <1> HIDE DEF more, n
  <1>4. /\ b \in Graphs /\ b.episodes = more /\ b.nodes = graph.nodes /\ b.edges = graph.edges
        /\ b.groups = graph.groups /\ b.member = graph.member
        /\ b.valence = graph.valence /\ b.log = graph.log /\ b.mirror = graph.mirror
        /\ b.architecture = graph.architecture /\ b.migrations = graph.migrations
        /\ b.node_index = graph.node_index /\ b.edge_index = graph.edge_index
    BY <1>1, <1>2 DEF Graphs
  <1> HIDE DEF b
  <1>5. \A k \in 1..(n + 1) : k \in 1..n \/ k = n + 1
    BY <1>1
  <1>6. EpisodesSound(Len(b.nodes), b.episodes)
    <2>1. ASSUME NEW k \in 1..(n + 1) PROVE SummarySound(Len(graph.nodes), more[k].summary)
      <3>1. CASE k \in 1..n
        <4>1. SummarySound(Len(graph.nodes), graph.episodes[k].summary)
          BY <3>1 DEF Sound, Stored, EpisodesSound, n
        <4> QED BY <1>2, <3>1, <4>1
      <3>2. CASE k = n + 1
        BY <1>2, <3>2
      <3> QED BY <1>5, <3>1, <3>2
    <2> QED BY <1>2, <1>4, <2>1 DEF EpisodesSound
  <1>7. Stored(b) /\ Indexed(b)
    BY <1>4, <1>6 DEF Sound, Stored, Indexed
  <1>8. GroupsSound(b.groups) /\ Covered(b.episodes, (n + 1) - 1, b.groups, b.member)
    <2>1. (n + 1) - 1 = n
      BY <1>1
    <2>2. GroupsSound(graph.groups) /\ Covered(graph.episodes, n, graph.groups, graph.member)
      BY DEF Sound, Grouped, n
    <2>3. Covered(more, n, graph.groups, graph.member)
      BY <1>2, <2>2 DEF Covered
    <2> QED BY <1>4, <2>1, <2>2, <2>3
  <1>9. n + 1 \in 1..Len(b.episodes)
    BY <1>1, <1>2, <1>4
  <1>10. /\ h \in Graphs /\ Beside(b, h) /\ GroupsSound(h.groups)
         /\ Covered(h.episodes, n + 1, h.groups, h.member)
    BY <1>3, <1>4, <1>8, <1>9, IndexEpisode
  <1>11. Stored(h) /\ Indexed(h)
    BY <1>7, <1>10, BesideStored
  <1>12. Grouped(h)
    <2>1. Len(h.episodes) = n + 1
      BY <1>2, <1>4, <1>10 DEF Beside
    <2> QED BY <1>10, <2>1 DEF Grouped
  <1> QED BY <1>4, <1>10, <1>11, <1>12 DEF Sound, Beside, more

\* Fewer episodes, grouped again.
LEMMA FewerSound ==
  ASSUME NEW graph, Stored(graph), Indexed(graph), NEW I \in SUBSET (DOMAIN graph.episodes),
         NEW h, h = Regrouped([graph EXCEPT !.episodes = Kept(@, I)])
  PROVE  /\ Sound(h) /\ h.nodes = graph.nodes /\ h.edges = graph.edges
         /\ h.valence = graph.valence /\ h.log = graph.log /\ h.mirror = graph.mirror
         /\ h.architecture = graph.architecture /\ h.migrations = graph.migrations
  <1> DEFINE kept == Kept(graph.episodes, I)
             b == [graph EXCEPT !.episodes = kept]
  <1>1. /\ graph \in Graphs /\ graph.episodes \in Seq(Episode)
        /\ DOMAIN graph.episodes = 1..Len(graph.episodes)
    BY DEF Stored, Graphs
  <1>2. /\ Cardinality(I) \in Nat
        /\ kept \in Seq(Episode) /\ Len(kept) = Cardinality(I)
        /\ \E at \in [1..Cardinality(I) -> I] :
             \A i \in 1..Cardinality(I) : kept[i] = graph.episodes[at[i]]
    BY <1>1, KeptIs DEF Places
  <1> HIDE DEF kept
  <1>4. /\ b \in Graphs /\ b.episodes = kept /\ b.nodes = graph.nodes /\ b.edges = graph.edges
        /\ b.valence = graph.valence /\ b.log = graph.log /\ b.mirror = graph.mirror
        /\ b.architecture = graph.architecture /\ b.migrations = graph.migrations
        /\ b.node_index = graph.node_index /\ b.edge_index = graph.edge_index
    BY <1>1, <1>2 DEF Graphs
  <1>h. h = Regrouped(b)
    BY DEF kept
  <1> HIDE DEF b
  <1>5. EpisodesSound(Len(b.nodes), b.episodes)
    <2>1. EpisodesSound(Len(graph.nodes), graph.episodes)
      BY DEF Stored
    <2>2. ASSUME NEW k \in 1..Len(kept) PROVE SummarySound(Len(graph.nodes), kept[k].summary)
      <3>1. PICK x \in I : kept[k] = graph.episodes[x]
        BY <1>2
      <3>2. x \in 1..Len(graph.episodes)
        BY <1>1
      <3> QED BY <2>1, <3>1, <3>2 DEF EpisodesSound
    <2> QED BY <1>4, <2>2 DEF EpisodesSound
  <1>6. Stored(b) /\ Indexed(b)
    BY <1>4, <1>5 DEF Stored, Indexed
  <1>7. h \in Graphs /\ Beside(b, h) /\ Grouped(h)
    BY <1>4, <1>h, RegroupedIs
  <1>8. Stored(h) /\ Indexed(h)
    BY <1>6, <1>7, BesideStored
  <1> QED BY <1>4, <1>7, <1>8 DEF Sound, Beside

\* What learning a text keeps.
Learnt(a, b) ==
  /\ Len(a.nodes) <= Len(b.nodes)
  /\ \A i \in 1..Len(a.nodes) : b.nodes[i].token = a.nodes[i].token
  /\ b.valence = a.valence /\ b.log = a.log /\ b.mirror = a.mirror
  /\ b.architecture = a.architecture /\ b.migrations = a.migrations

\* A text is remembered, in place of the victim when there is no room.
LEMMA RememberSound ==
  ASSUME NEW graph, Sound(graph), NEW toks \in Seq(Tokens),
         NEW w, Walk(graph, toks, Len(toks), w), NEW id \in Nat, NEW at \in Nat,
         NEW h, h = Remember(graph, w, id, at)
  PROVE  Sound(h) /\ Learnt(graph, h)
  <1>1. Sound(w.graph) /\ Grown(graph, w.graph) /\ w.seen \in Seq(Nat)
    BY DEF Walk
  <1>2. Learnt(graph, w.graph)
    BY <1>1 DEF Grown, Learnt
  <1>3. \/ h = w.graph
        \/ /\ w.ok
           /\ h = record_episode(IF Len(w.graph.episodes) >= EpisodeMax
                                 THEN evict_episode(w.graph) ELSE w.graph,
                                 episode_build(w.seen, id, at))
    BY DEF Remember
  <1>4. ASSUME w.ok, h = record_episode(IF Len(w.graph.episodes) >= EpisodeMax
                                        THEN evict_episode(w.graph) ELSE w.graph,
                                        episode_build(w.seen, id, at))
        PROVE  Sound(h) /\ Learnt(graph, h)
    <2> DEFINE e == episode_build(w.seen, id, at)
    <2>1. PICK room : room = IF Len(w.graph.episodes) >= EpisodeMax
                             THEN evict_episode(w.graph) ELSE w.graph
      OBVIOUS
    <2>2. /\ Sound(room) /\ room.nodes = w.graph.nodes
          /\ room.valence = w.graph.valence /\ room.log = w.graph.log
          /\ room.mirror = w.graph.mirror
          /\ room.architecture = w.graph.architecture /\ room.migrations = w.graph.migrations
      <3>1. CASE Len(w.graph.episodes) >= EpisodeMax
        <4> DEFINE I == DOMAIN w.graph.episodes \ {Victim(w.graph.episodes)}
        <4>1. room = Regrouped([w.graph EXCEPT !.episodes = Kept(@, I)])
          BY <2>1, <3>1 DEF evict_episode
        <4>2. I \in SUBSET (DOMAIN w.graph.episodes)
          OBVIOUS
        <4> HIDE DEF I
        <4>3. PICK a : a = w.graph
          OBVIOUS
        <4>4. Stored(a) /\ Indexed(a) /\ I \in SUBSET (DOMAIN a.episodes)
          BY <1>1, <4>2, <4>3 DEF Sound
        <4>5. room = Regrouped([a EXCEPT !.episodes = Kept(@, I)])
          BY <4>1, <4>3
        <4>6. /\ Sound(room) /\ room.nodes = a.nodes
              /\ room.valence = a.valence /\ room.log = a.log /\ room.mirror = a.mirror
              /\ room.architecture = a.architecture /\ room.migrations = a.migrations
          BY <4>4, <4>5, FewerSound, ZenonT(60)
        <4> QED BY <4>3, <4>6
      <3>2. CASE ~(Len(w.graph.episodes) >= EpisodeMax)
        BY <1>1, <2>1, <3>2
      <3> QED BY <3>1, <3>2
    <2>3. e \in Episode /\ SummarySound(Len(room.nodes), e.summary)
      <3>1. Len(room.nodes) \in Nat
        <4>1. room.nodes \in Seq(Node)
          BY <2>2 DEF Sound, Stored, Graphs
        <4> QED BY <4>1
      <3>2. \A k \in 1..Len(w.seen) : w.seen[k] \in 1..Len(room.nodes)
        BY <1>4, <2>2 DEF Walk
      <3> QED BY <1>1, <3>1, <3>2, EpisodeBuilt
    <2>4. h = record_episode(room, e)
      BY <1>4, <2>1
    <2> HIDE DEF e
    <2>5. /\ Sound(h) /\ h.nodes = room.nodes
          /\ h.valence = room.valence /\ h.log = room.log /\ h.mirror = room.mirror
          /\ h.architecture = room.architecture /\ h.migrations = room.migrations
      BY <2>2, <2>3, <2>4, RecordSound
    <2> QED BY <1>2, <2>2, <2>5 DEF Learnt
  <1> QED BY <1>1, <1>2, <1>3, <1>4

\* Learning a text leaves a sound graph; and rejecting one read by the current
\* tokenizer leaves the graph as it was.
LEMMA ObserveSound ==
  ASSUME NEW graph, Sound(graph), NEW text \in Texts, NEW schema \in {1, 2},
         NEW id \in Nat, NEW at \in Nat,
         NEW o, o = observe_with_memory(graph, text, schema, id, at)
  PROVE  /\ o.ok \in BOOLEAN /\ Sound(o.graph) /\ Learnt(graph, o.graph)
         /\ schema = Schema /\ ~o.ok => o.graph = graph
  <1> DEFINE toks == Tokenize(text, schema)
             w == Walked(graph, toks)
  <1>1. toks \in Seq(Tokens)
    BY GraphAssumption
  <1> HIDE DEF toks
  <1>2. /\ Walk(graph, toks, Len(toks), w)
        /\ Fits(graph, toks) => Within(graph, toks, Len(toks), w)
    BY <1>1, WalkedIs
  <1>3. Learnt(graph, graph)
    <2>1. graph.nodes \in Seq(Node)
      BY DEF Sound, Stored, Graphs
    <2> QED BY <2>1 DEF Learnt
  <1>4. CASE ~check_budget(graph, text)
    <2>1. o = [ok |-> FALSE, graph |-> graph]
      BY <1>4 DEF observe_with_memory
    <2> QED BY <1>3, <2>1
  <1>5. CASE check_budget(graph, text)
    <2>1. o = [ok |-> w.ok, graph |-> Remember(graph, w, id, at)]
      BY <1>5 DEF observe_with_memory, Learn, toks
    <2> HIDE DEF w
    <2>2. o.ok = w.ok /\ o.graph = Remember(graph, w, id, at)
      BY <2>1
    <2>3. o.ok \in BOOLEAN /\ Sound(o.graph) /\ Learnt(graph, o.graph)
      BY <1>1, <1>2, <2>2, RememberSound DEF Walk
    <2>4. ASSUME schema = Schema PROVE o.ok
      <3>1. toks = Tokenize(text, Schema)
        BY <2>4 DEF toks
      <3>2. Fits(graph, toks)
        <4>1. check_budget(graph, text) = Fits(graph, toks)
          <5> SUFFICES check_budget(graph, text) = Fits(graph, Tokenize(text, Schema))
            BY <3>1
          <5> QED BY Zenon DEF check_budget, Fits, NewNodes, NewEdges
        <4> QED BY <1>5, <4>1
      <3> QED BY <1>2, <2>2, <3>2 DEF Within
    <2> QED BY <2>3, <2>4
  <1> QED BY <1>4, <1>5

---------------------------------------------------------------------------
(* Valence. *)

\* The records hold what each token has felt, and every token that felt has one.
Felt(graph, signals) ==
  /\ signals \in [Tokens -> Seq(Signs)]
  /\ \A i \in 1..Len(graph.valence) :
       graph.valence[i].signals = signals[graph.nodes[graph.valence[i].node].token]
  /\ \A t \in Tokens : signals[t] # <<>> =>
       \E i \in 1..Len(graph.valence) : graph.nodes[graph.valence[i].node].token = t

\* The same arrays but for valence.
Elsewhere(a, b) ==
  /\ b.nodes = a.nodes /\ b.edges = a.edges /\ b.episodes = a.episodes
  /\ b.groups = a.groups /\ b.member = a.member /\ b.mirror = a.mirror
  /\ b.node_index = a.node_index /\ b.edge_index = a.edge_index
  /\ b.architecture = a.architecture /\ b.migrations = a.migrations

\* What precedes n in a strictly increasing array is its first elements.
LEMMA Before ==
  ASSUME NEW valence \in Seq(Feeling), NEW n \in Nat,
         \A i, k \in 1..Len(valence) : i < k => valence[i].node < valence[k].node
  PROVE  LET at == Cardinality({k \in DOMAIN valence : valence[k].node < n})
         IN /\ at \in 0..Len(valence)
            /\ \A k \in 1..Len(valence) : k <= at <=> valence[k].node < n
  <1> DEFINE L == Len(valence)
             K == {k \in DOMAIN valence : valence[k].node < n}
             C == (1..(L + 1)) \ K
  <1>1. L \in Nat /\ DOMAIN valence = 1..L /\ \A k \in 1..L : valence[k].node \in Nat
    <2>1. L \in Nat /\ DOMAIN valence = 1..L /\ \A k \in 1..L : valence[k] \in Feeling
      OBVIOUS
    <2> QED BY <2>1 DEF Feeling
  <1>2. L + 1 \in C /\ C \in SUBSET Nat
    BY <1>1
  <1>3. PICK x \in C : \A y \in C : x <= y
    <2> HIDE DEF C
    <2> QED BY <1>2, LeastNatural
  <1>4. x \in 1..(L + 1) /\ x - 1 \in 0..L
    BY <1>1
  <1>5. K = 1..(x - 1)
    <2>1. ASSUME NEW k \in 1..(x - 1) PROVE k \in K
      <3>1. k \in 1..(L + 1) /\ ~(x <= k)
        BY <1>4
      <3> QED BY <1>3, <3>1
    <2>2. ASSUME NEW k \in K PROVE k \in 1..(x - 1)
      <3>0. k \in 1..L /\ valence[k].node < n
        BY <1>1
      <3>1. x # k
        BY <1>3
      <3>2. ~(x < k)
        <4> SUFFICES ASSUME x < k PROVE FALSE
          OBVIOUS
        <4>1. x \in 1..L
          BY <1>1, <1>4, <3>0
        <4>2. valence[x].node < valence[k].node
          BY <3>0, <4>1
        <4>3. valence[x].node < n
          BY <1>1, <3>0, <4>1, <4>2
        <4>4. x \in K
          BY <1>1, <4>1, <4>3
        <4> QED BY <1>3, <4>4
      <3> QED BY <1>1, <1>4, <3>0, <3>1, <3>2
    <2> HIDE DEF K
    <2>3. K \subseteq 1..(x - 1) /\ 1..(x - 1) \subseteq K
      BY <2>1, <2>2
    <2> QED BY <2>3
  <1>6. Cardinality(K) = x - 1
    <2> HIDE DEF K
    <2>1. x - 1 \in Nat
      BY <1>4
    <2>2. Cardinality(1..(x - 1)) = x - 1
      BY <2>1, FS_Interval
    <2> QED BY <1>5, <2>2
  <1>7. \A k \in 1..L : k <= x - 1 <=> valence[k].node < n
    <2>1. \A k \in 1..L : k \in K <=> valence[k].node < n
      BY <1>1
    <2>2. \A k \in 1..L : k \in 1..(x - 1) <=> k <= x - 1
      BY <1>1, <1>4
    <2> HIDE DEF K
    <2> QED BY <1>5, <2>1, <2>2
  <1> QED BY <1>4, <1>6, <1>7

\* The records after an event.
WithEvent(valence, n, signal) ==
  LET i  == SelectInSeq(valence, LAMBDA r : r.node = n)
      at == Cardinality({k \in DOMAIN valence : valence[k].node < n})
  IN IF i # 0 THEN [valence EXCEPT ![i].signals = Append(@, signal)]
     ELSE [k \in 1..(Len(valence) + 1) |->
             IF k <= at THEN valence[k]
             ELSE IF k = at + 1 THEN [node |-> n, signals |-> <<signal>>]
             ELSE valence[k - 1]]

\* The record at p is the one the event changed or added; the others stay.
EventAt(valence, more, n, signal, p) ==
  /\ more[p].node = n
  /\ \/ \E q \in 1..Len(valence) : /\ valence[q].node = n
                                   /\ more[p].signals = Append(valence[q].signals, signal)
     \/ /\ more[p].signals = <<signal>>
        /\ \A q \in 1..Len(valence) : valence[q].node # n
  /\ \A k \in 1..Len(more) : k # p => \E q \in 1..Len(valence) : more[k] = valence[q]
  /\ \A q \in 1..Len(valence) : valence[q].node # n =>
       \E k \in 1..Len(more) : more[k] = valence[q]

\* An event: one record longer by a signal, or one record more in its place.
LEMMA EventIs ==
  ASSUME NEW m \in Nat, NEW valence \in Seq(Feeling), NEW log, ValenceSound(m, valence, log),
         NEW n \in 1..m, NEW signal \in Signs,
         NEW more, more = WithEvent(valence, n, signal)
  PROVE  /\ more \in Seq(Feeling)
         /\ \A k \in 1..Len(more) : more[k].node \in 1..m /\ more[k].signals # <<>>
         /\ \A j, k \in 1..Len(more) : j < k => more[j].node < more[k].node
         /\ \E p \in 1..Len(more) : EventAt(valence, more, n, signal, p)
  <1> DEFINE L == Len(valence)
             I == {j \in 1..Len(valence) : valence[j].node = n}
             at == Cardinality({j \in DOMAIN valence : valence[j].node < n})
             fresh == [node |-> n, signals |-> <<signal>>]
             i == SelectInSeq(valence, LAMBDA r : r.node = n)
  <1>0. more = IF i # 0 THEN [valence EXCEPT ![i].signals = Append(@, signal)]
               ELSE [k \in 1..(L + 1) |->
                       IF k <= at THEN valence[k]
                       ELSE IF k = at + 1 THEN fresh ELSE valence[k - 1]]
    BY DEF WithEvent
  <1>1. L \in Nat /\ \A k \in 1..L : valence[k] \in Feeling
    OBVIOUS
  <1>2. \A k \in 1..L : /\ valence[k].node \in Nat /\ valence[k].node \in 1..m
                        /\ valence[k].signals \in Seq(Signs) /\ valence[k].signals # <<>>
    BY <1>1 DEF Feeling, ValenceSound
  <1>3. \A j, k \in 1..L : j < k => valence[j].node < valence[k].node
    BY DEF ValenceSound
  <1>4. i \in I \/ (i = 0 /\ I = {})
    <2>1. i = IF I # {} THEN Min(I) ELSE 0
      BY DEF SelectInSeq
    <2>2. I \in SUBSET Nat
      OBVIOUS
    <2>3. I # {} => \E x \in I : \A y \in I : x <= y
      <3> HIDE DEF I
      <3> QED BY <2>2, LeastNatural
    <2>4. I # {} => Min(I) \in I
      <3> HIDE DEF I
      <3> QED BY <2>3 DEF Min
    <2> QED BY <2>1, <2>4
  <1> HIDE DEF i
  <1>5. CASE i \in I
    <2> DEFINE x == [valence[i] EXCEPT !.signals = Append(@, signal)]
    <2>1. i \in 1..L /\ valence[i].node = n /\ i # 0
      BY <1>5
    <2>2. /\ x \in Feeling /\ x.node = n /\ x.signals = Append(valence[i].signals, signal)
          /\ x.signals # <<>>
      <3>1. valence[i] \in Feeling /\ valence[i].signals \in Seq(Signs)
        BY <1>1, <1>2, <2>1
      <3>2. /\ Append(valence[i].signals, signal) \in Seq(Signs)
            /\ Append(valence[i].signals, signal) # <<>>
        BY <3>1
      <3> QED BY <2>1, <3>1, <3>2 DEF Feeling
    <2>3. more = [valence EXCEPT ![i] = x]
      BY <1>0, <2>1
    <2> HIDE DEF x
    <2>4. /\ more \in Seq(Feeling) /\ Len(more) = L /\ more[i] = x
          /\ \A k \in 1..L : k # i => more[k] = valence[k]
      BY <1>1, <2>1, <2>2, <2>3
    <2>5. \A k \in 1..L : more[k].node = valence[k].node
      BY <2>1, <2>2, <2>4
    <2>6. \A k \in 1..L : more[k].node \in 1..m /\ more[k].signals # <<>>
      BY <1>2, <2>1, <2>2, <2>4
    <2>7. \A j, k \in 1..L : j < k => more[j].node < more[k].node
      BY <1>3, <2>5
    <2>8. /\ \A k \in 1..L : k # i => \E q \in 1..L : more[k] = valence[q]
          /\ \A q \in 1..L : valence[q].node # n => \E k \in 1..L : more[k] = valence[q]
      BY <2>1, <2>4
    <2>9. EventAt(valence, more, n, signal, i)
      BY <2>1, <2>2, <2>4, <2>8 DEF EventAt
    <2> HIDE DEF L
    <2> QED BY <2>1, <2>4, <2>6, <2>7, <2>9
  <1>6. CASE i = 0 /\ I = {}
    <2>1. at \in 0..L /\ \A k \in 1..L : k <= at <=> valence[k].node < n
      <3>1. n \in Nat
        OBVIOUS
      <3>2. \A j, k \in 1..Len(valence) : j < k => valence[j].node < valence[k].node
        BY <1>3
      <3> QED BY <3>1, <3>2, Before
    <2>2. \A k \in 1..L : valence[k].node # n
      BY <1>6
    <2>3. more = [k \in 1..(L + 1) |-> IF k <= at THEN valence[k]
                                       ELSE IF k = at + 1 THEN fresh ELSE valence[k - 1]]
      BY <1>0, <1>6
    <2>4. fresh \in Feeling /\ fresh.node = n /\ fresh.signals = <<signal>>
          /\ fresh.signals # <<>>
      <3>1. <<signal>> \in Seq(Signs) /\ <<signal>> # <<>> /\ n \in Nat
        OBVIOUS
      <3> QED BY <3>1 DEF Feeling
    <2> HIDE DEF at, fresh, L, I
    <2>5. /\ \A k \in 1..(L + 1) : k <= at => k \in 1..L /\ more[k] = valence[k]
          /\ at + 1 \in 1..(L + 1) /\ more[at + 1] = fresh
          /\ \A k \in 1..(L + 1) : k > at + 1 => k - 1 \in 1..L /\ more[k] = valence[k - 1]
          /\ \A k \in 1..(L + 1) : k <= at \/ k = at + 1 \/ k > at + 1
      BY <1>1, <2>1, <2>3
    <2>6. \A k \in 1..(L + 1) : more[k] \in Feeling
      BY <1>1, <2>4, <2>5 DEF L
    <2>7. more \in Seq(Feeling) /\ Len(more) = L + 1
      <3>1. more \in [1..(L + 1) -> Feeling]
        BY <2>3, <2>6
      <3> QED BY <1>1, <3>1
    <2>8. ASSUME NEW k \in 1..(L + 1) PROVE more[k].node \in 1..m /\ more[k].signals # <<>>
      BY <1>2, <2>4, <2>5
    <2>9. ASSUME NEW j \in 1..(L + 1), NEW k \in 1..(L + 1), j < k
          PROVE  more[j].node < more[k].node
      <3>0. j \in Nat /\ k \in Nat /\ at \in Nat
        BY <1>1, <2>1
      <3>1. CASE k <= at
        <4>1. j <= at
          BY <2>9, <3>0, <3>1
        <4> QED BY <1>3, <2>5, <2>9, <3>1, <4>1 DEF L
      <3>2. CASE k = at + 1
        <4>1. j <= at
          BY <2>9, <3>0, <3>2
        <4>2. j \in 1..L /\ more[j] = valence[j] /\ valence[j].node < n
          BY <2>1, <2>5, <4>1
        <4> QED BY <2>4, <2>5, <3>2, <4>2
      <3>3. CASE k > at + 1
        <4>1. k - 1 \in 1..L /\ more[k] = valence[k - 1] /\ ~(k - 1 <= at)
          BY <2>5, <3>0, <3>3
        <4>2. valence[k - 1].node > n
          <5>1. ~(valence[k - 1].node < n) /\ valence[k - 1].node # n
            BY <2>1, <2>2, <4>1 DEF L
          <5>2. valence[k - 1].node \in Nat /\ n \in Nat
            BY <1>2, <4>1
          <5> QED BY <5>1, <5>2
        <4>3. CASE j <= at
          <5>1. j \in 1..L /\ more[j] = valence[j] /\ valence[j].node < n
            BY <2>1, <2>5, <4>3
          <5>2. valence[k - 1].node \in Nat /\ n \in Nat /\ valence[j].node \in Nat
            BY <1>2, <4>1, <5>1
          <5>3. valence[j].node < valence[k - 1].node
            BY <4>2, <5>1, <5>2, SMTT(40)
          <5> QED BY <4>1, <5>1, <5>3
        <4>4. CASE j = at + 1
          <5>1. valence[k - 1].node \in Nat /\ n \in Nat
            BY <1>2, <4>1
          <5> QED BY <2>4, <2>5, <4>1, <4>2, <4>4, <5>1
        <4>5. CASE j > at + 1
          <5>1. j - 1 \in 1..L /\ more[j] = valence[j - 1] /\ j - 1 < k - 1
            BY <2>5, <2>9, <3>0, <4>5
          <5>2. valence[j - 1].node < valence[k - 1].node
            BY <1>3, <4>1, <5>1
          <5> QED BY <4>1, <5>1, <5>2
        <4> QED BY <2>5, <4>3, <4>4, <4>5
      <3> QED BY <2>5, <3>1, <3>2, <3>3
    <2>10. ASSUME NEW k \in 1..(L + 1), k # at + 1
           PROVE  \E q \in 1..L : more[k] = valence[q]
      BY <2>5, <2>10
    <2>11. ASSUME NEW q \in 1..L PROVE \E k \in 1..(L + 1) : more[k] = valence[q]
      <3>1. CASE q <= at
        <4>1. q \in 1..(L + 1)
          BY <1>1
        <4> QED BY <2>5, <3>1, <4>1
      <3>2. CASE ~(q <= at)
        <4>1. q + 1 \in 1..(L + 1) /\ q + 1 > at + 1 /\ (q + 1) - 1 = q
          BY <1>1, <2>1, <3>2
        <4> QED BY <2>5, <4>1
      <3> QED BY <3>1, <3>2
    <2>12. /\ more[at + 1].node = n /\ more[at + 1].signals = <<signal>>
           /\ at + 1 \in 1..(L + 1)
      BY <2>4, <2>5
    <2>13. EventAt(valence, more, n, signal, at + 1)
      BY <2>2, <2>7, <2>10, <2>11, <2>12 DEF EventAt, L
    <2> QED BY <2>7, <2>8, <2>9, <2>12, <2>13
  <1> QED BY <1>4, <1>5, <1>6

\* An event goes to the record of its token, and the others keep theirs.
LEMMA EventSound ==
  ASSUME NEW graph, Sound(graph), NEW token \in Tokens \cup Concepts,
         find_node(graph, token) # 0, NEW signal \in Signs,
         NEW h, h = valence_event(graph, token, signal)
  PROVE  /\ Sound(h) /\ Elsewhere(graph, h) /\ token \in Tokens
         /\ \A f : Felt(graph, f) => Felt(h, [f EXCEPT ![token] = Append(@, signal)])
  <1> DEFINE n == find_node(graph, token)
             m == Len(graph.nodes)
             valence == graph.valence
             more == WithEvent(valence, n, signal)
             kept == IF Len(graph.log) = EventCapacity THEN Tail(graph.log) ELSE graph.log
             log == Append(kept, n)
  <1>1. n \in 1..m /\ graph.nodes[n].token = token
    BY FoundNode DEF Sound
  <1>2. /\ graph \in Graphs /\ graph.nodes \in Seq(Node) /\ m \in Nat
        /\ valence \in Seq(Feeling) /\ graph.log \in Seq(Nat)
        /\ NodesSound(graph.nodes) /\ ValenceSound(m, valence, graph.log)
    BY DEF Sound, Stored, Graphs
  <1>3. graph.nodes[n] \in Node /\ token \in Tokens
    <2>1. graph.nodes[n] \in Node
      BY <1>1, <1>2
    <2> QED BY <1>1, <2>1 DEF Node
  <1>4. h = [graph EXCEPT !.valence = more, !.log = log]
    BY Zenon DEF valence_event, WithEvent
  <1> HIDE DEF n, m, valence, more
  <1>5. /\ more \in Seq(Feeling)
        /\ \A k \in 1..Len(more) : more[k].node \in 1..m /\ more[k].signals # <<>>
        /\ \A j, k \in 1..Len(more) : j < k => more[j].node < more[k].node
        /\ \E p \in 1..Len(more) : EventAt(valence, more, n, signal, p)
    BY <1>1, <1>2, EventIs DEF more
  <1>6. log \in Seq(Nat) /\ Len(log) <= EventCapacity /\ \A k \in 1..Len(log) : log[k] \in 1..m
    <2>1. EventCapacity \in Nat \ {0} /\ Len(graph.log) \in Nat /\ Len(graph.log) <= EventCapacity
          /\ \A k \in 1..Len(graph.log) : graph.log[k] \in 1..m
      BY <1>2, GraphConstants DEF ValenceSound
    <2>2. /\ kept \in Seq(Nat) /\ Len(kept) \in Nat /\ Len(kept) + 1 <= EventCapacity
          /\ \A k \in 1..Len(kept) : kept[k] \in 1..m
      <3>1. CASE Len(graph.log) = EventCapacity
        <4>1. graph.log # <<>> /\ kept = Tail(graph.log)
          BY <2>1, <3>1
        <4>2. /\ Tail(graph.log) \in Seq(Nat) /\ Len(Tail(graph.log)) = Len(graph.log) - 1
              /\ \A k \in 1..(Len(graph.log) - 1) : Tail(graph.log)[k] = graph.log[k + 1]
          BY <1>2, <4>1
        <4>3. \A k \in 1..(Len(graph.log) - 1) : k + 1 \in 1..Len(graph.log)
          BY <2>1
        <4> QED BY <2>1, <3>1, <4>1, <4>2, <4>3
      <3>2. CASE Len(graph.log) # EventCapacity
        BY <1>2, <2>1, <3>2
      <3> QED BY <3>1, <3>2
    <2> HIDE DEF kept
    <2>3. n \in Nat
      BY <1>1, <1>2
    <2>4. /\ log \in Seq(Nat) /\ Len(log) = Len(kept) + 1 /\ log[Len(kept) + 1] = n
          /\ \A k \in 1..Len(kept) : log[k] = kept[k]
      BY <2>2, <2>3
    <2> HIDE DEF log
    <2>5. \A k \in 1..(Len(kept) + 1) : k \in 1..Len(kept) \/ k = Len(kept) + 1
      BY <2>2
    <2> QED BY <1>1, <2>2, <2>4, <2>5
  <1> HIDE DEF log
  <1>7. h \in Graphs /\ h.valence = more /\ h.log = log /\ Elsewhere(graph, h)
    BY <1>2, <1>4, <1>5, <1>6 DEF Graphs, Elsewhere
  <1>8. Sound(h)
    <2>1. ValenceSound(Len(h.nodes), h.valence, h.log)
      BY <1>5, <1>6, <1>7 DEF ValenceSound, Elsewhere, m
    <2>2. Stored(h)
      BY <1>7, <2>1 DEF Sound, Stored, Elsewhere
    <2>3. Indexed(h) /\ Grouped(h)
      BY <1>7 DEF Sound, Indexed, Grouped, Elsewhere
    <2> QED BY <2>2, <2>3 DEF Sound
  <1>9. ASSUME NEW f, Felt(graph, f)
        PROVE  Felt(h, [f EXCEPT ![token] = Append(@, signal)])
    <2> DEFINE f2 == [f EXCEPT ![token] = Append(@, signal)]
               Token(k) == graph.nodes[k].token
    <2>1. /\ f \in [Tokens -> Seq(Signs)]
          /\ \A q \in 1..Len(valence) : valence[q].signals = f[Token(valence[q].node)]
          /\ \A t \in Tokens : f[t] # <<>> =>
               \E q \in 1..Len(valence) : Token(valence[q].node) = t
      BY <1>9 DEF Felt, valence
    <2>2. /\ f2 \in [Tokens -> Seq(Signs)] /\ f2[token] = Append(f[token], signal)
          /\ \A t \in Tokens : t # token => f2[t] = f[t]
      BY <1>3, <2>1
    <2> HIDE DEF f2
    <2>3. PICK p \in 1..Len(more) : EventAt(valence, more, n, signal, p)
      BY <1>5
    <2>4. \A k \in 1..m : Token(k) = token => k = n
      BY <1>1, <1>2 DEF NodesSound, m
    <2>5. \A k \in 1..m : Token(k) \in Tokens
      <3>1. \A k \in 1..m : graph.nodes[k] \in Node
        BY <1>2 DEF m
      <3> QED BY <3>1 DEF Node
    <2>6. \A q \in 1..Len(valence) : valence[q].node \in 1..m
      BY <1>2 DEF ValenceSound
    <2>t. Token(n) = token
      BY <1>1
    <2> HIDE DEF Token
    <2>7. ASSUME NEW k \in 1..Len(more) PROVE more[k].signals = f2[Token(more[k].node)]
      <3>1. CASE k = p
        <4>1. more[k].node = n
          BY <2>3, <3>1 DEF EventAt
        <4>2. CASE \E q \in 1..Len(valence) : /\ valence[q].node = n
                                              /\ more[p].signals = Append(valence[q].signals, signal)
          BY <2>1, <2>2, <2>t, <3>1, <4>1, <4>2
        <4>3. CASE /\ more[p].signals = <<signal>>
                   /\ \A q \in 1..Len(valence) : valence[q].node # n
          <5>1. f[token] = <<>>
            <6> SUFFICES ASSUME f[token] # <<>> PROVE FALSE
              OBVIOUS
            <6>1. PICK q \in 1..Len(valence) : Token(valence[q].node) = token
              BY <1>3, <2>1
            <6> QED BY <2>4, <2>6, <4>3, <6>1
          <5>2. Append(<<>>, signal) = <<signal>>
            OBVIOUS
          <5> QED BY <2>2, <2>t, <3>1, <4>1, <4>3, <5>1, <5>2
        <4> QED BY <2>3, <4>2, <4>3 DEF EventAt
      <3>2. CASE k # p
        <4>1. PICK q \in 1..Len(valence) : more[k] = valence[q]
          BY <2>3, <3>2 DEF EventAt
        <4>2. more[k].node # n
          <5>0. p \in Nat /\ k \in Nat
            OBVIOUS
          <5>1. k < p \/ p < k
            BY <3>2, <5>0
          <5>2. more[k].node < more[p].node \/ more[p].node < more[k].node
            BY <1>5, <5>1
          <5>3. more[p].node = n /\ more[k].node \in Nat /\ n \in Nat
            BY <1>1, <1>2, <1>5, <2>3 DEF EventAt
          <5> QED BY <5>2, <5>3
        <4>3. more[k].node \in 1..m
          BY <1>5
        <4>4. Token(more[k].node) # token
          BY <2>4, <4>2, <4>3
        <4> QED BY <2>1, <2>2, <2>5, <4>1, <4>3, <4>4
      <3> QED BY <3>1, <3>2
    <2>8. ASSUME NEW t \in Tokens, f2[t] # <<>>
          PROVE  \E k \in 1..Len(more) : Token(more[k].node) = t
      <3>1. CASE t = token
        BY <2>3, <2>t, <3>1 DEF EventAt
      <3>2. CASE t # token
        <4>1. f[t] # <<>>
          BY <2>2, <2>8, <3>2
        <4>2. PICK q \in 1..Len(valence) : Token(valence[q].node) = t
          BY <2>1, <4>1
        <4>3. valence[q].node # n
          BY <2>t, <3>2, <4>2
        <4> QED BY <2>3, <4>2, <4>3 DEF EventAt
      <3> QED BY <3>1, <3>2
    <2>9. h.nodes = graph.nodes /\ h.valence = more
      BY <1>7 DEF Elsewhere
    <2> QED BY <2>2, <2>7, <2>8, <2>9 DEF Felt, f2, Token
  <1> QED BY <1>3, <1>7, <1>8, <1>9

---------------------------------------------------------------------------
(* Pruning. *)

\* Nothing of the valence, nor of its log, is of a node that goes.
Avoids(valence, log, dropped) ==
  /\ \A i \in 1..Len(valence) : valence[i].node \notin dropped
  /\ \A i \in 1..Len(log) : log[i] \notin dropped

LEMMA DroppedIs ==
  ASSUME NEW graph \in Graphs, NEW max \in Nat, Len(graph.nodes) > max
  PROVE  Avoids(graph.valence, graph.log, Dropped(graph, max))
  <1> DEFINE m == Len(graph.nodes)
             protect == {graph.valence[i].node : i \in DOMAIN graph.valence} \cup ToSet(graph.log)
             S == DOMAIN graph.nodes \ protect
             Count(x) == graph.nodes[x].observations
             Comes(a, b) == Count(a) < Count(b) \/ (Count(a) = Count(b) /\ a < b)
             R == {p \in S \X S : Comes(p[1], p[2])}
             n == Cardinality(S)
             sorted == Ordered(S, LAMBDA a, b : Count(a) < Count(b) \/ (Count(a) = Count(b) /\ a < b))
             At(i) == CHOOSE x \in S : Cardinality({y \in S : Comes(y, x)}) = i - 1
             drop == Min({m - max, Len(sorted)})
  <1>1. /\ graph.nodes \in Seq(Node) /\ DOMAIN graph.nodes = 1..m /\ m \in Nat
        /\ \A x \in 1..m : graph.nodes[x] \in Node
        /\ graph.valence \in Seq(Feeling) /\ DOMAIN graph.valence = 1..Len(graph.valence)
        /\ graph.log \in Seq(Nat) /\ DOMAIN graph.log = 1..Len(graph.log)
    BY DEF Graphs
  <1>2. S \in SUBSET (1..m)
    BY <1>1
  <1>p. /\ \A i \in 1..Len(graph.valence) : graph.valence[i].node \in protect
        /\ \A i \in 1..Len(graph.log) : graph.log[i] \in protect
    BY <1>1 DEF ToSet
  <1>q. \A x \in S : x \notin protect
    OBVIOUS
  <1>3. IsFiniteSet(S)
    <2>1. IsFiniteSet(1..m)
      BY <1>1, FS_Interval
    <2> HIDE DEF S, m
    <2> QED BY <1>2, <2>1, FS_Subset
  <1>4. ASSUME NEW x \in 1..m PROVE Count(x) \in Nat
    BY <1>1 DEF Node
  <1>d. Dropped(graph, max) = ToSet(SubSeq(sorted, 1, drop))
    BY DEF Dropped
  <1> HIDE DEF Count, S, protect
  <1>5. StrictOrder(S, R)
    <2>0. \A x \in S : x \in Nat /\ Count(x) \in Nat
      BY <1>2, <1>4
    <2>1. \A x \in S : ~Comes(x, x)
      BY <2>0
    <2>2. \A x, y \in S : x # y => Comes(x, y) \/ Comes(y, x)
      BY <2>0
    <2>3. \A x, y, z \in S : Comes(x, y) /\ Comes(y, z) => Comes(x, z)
      BY <2>0
    <2>4. \A x, y \in S : <<x, y>> \in R <=> Comes(x, y)
      <3> HIDE DEF Comes
      <3> QED OBVIOUS
    <2> HIDE DEF Comes, R
    <2> QED BY <2>1, <2>2, <2>3, <2>4 DEF StrictOrder
  <1>6. ASSUME NEW x \in S PROVE Rank(S, R, x) = Cardinality({y \in S : Comes(y, x)})
    <2>1. {y \in S : <<y, x>> \in R} = {y \in S : Comes(y, x)}
      <3> HIDE DEF Comes
      <3> QED OBVIOUS
    <2> HIDE DEF Comes, R
    <2> QED BY <2>1 DEF Rank
  <1>7. n \in Nat
    <2> QED BY <1>3, FS_CardinalityType
  <1>8. sorted = [i \in 1..n |-> At(i)]
    BY DEF Ordered
  <1>9. ASSUME NEW i \in 1..n PROVE At(i) \in S
    <2>1. \E x \in S : Rank(S, R, x) = i - 1
      <3> HIDE DEF R
      <3> QED BY <1>3, <1>5, Ranks
    <2>2. \E x \in S : Cardinality({y \in S : Comes(y, x)}) = i - 1
      <3> HIDE DEF R, Comes
      <3> QED BY <1>6, <2>1
    <2> HIDE DEF Comes
    <2> QED BY <2>2
  <1> HIDE DEF At, R, n, sorted
  <1>10. sorted \in Seq(S) /\ Len(sorted) = n
    BY <1>7, <1>8, <1>9
  <1>11. \A x \in ToSet(SubSeq(sorted, 1, drop)) : x \in S
    <2>1. m - max \in Nat
      BY <1>1
    <2>2. drop \in {m - max, Len(sorted)} /\ drop <= Len(sorted)
      <3>1. \E x \in {m - max, Len(sorted)} : \A y \in {m - max, Len(sorted)} : x <= y
        BY <1>7, <1>10, <2>1
      <3>2. drop \in {m - max, Len(sorted)} /\ \A y \in {m - max, Len(sorted)} : drop <= y
        BY <3>1 DEF Min
      <3> QED BY <3>2
    <2> HIDE DEF drop
    <2>3. drop \in Nat
      BY <1>7, <1>10, <2>1, <2>2
    <2>4. SubSeq(sorted, 1, drop) \in Seq(S)
      BY <1>10, <2>2, <2>3
    <2>5. PICK s \in Seq(S) : s = SubSeq(sorted, 1, drop)
      BY <2>4
    <2>6. \A x \in ToSet(s) : x \in S
      BY DEF ToSet
    <2> QED BY <2>5, <2>6
  <1> HIDE DEF drop
  <1> QED BY <1>1, <1>2, <1>d, <1>p, <1>q, <1>11 DEF Avoids

\* A node's number once others are dropped.
Remap(dropped, n) == Cardinality((1..n) \ dropped)

\* What is kept is found at its new number, in the same order.
Compacts(seq, dropped, kept) ==
  LET K == DOMAIN seq \ dropped
  IN /\ \A x \in K : /\ x \in 1..Len(seq) /\ Remap(dropped, x) \in 1..Len(kept)
                     /\ kept[Remap(dropped, x)] = seq[x]
     /\ \A x, y \in K : x < y => Remap(dropped, x) < Remap(dropped, y)
     /\ \A i \in 1..Len(kept) : \E x \in K : Remap(dropped, x) = i /\ kept[i] = seq[x]

LEMMA RemapIs ==
  ASSUME NEW S, NEW seq \in Seq(S), NEW dropped,
         NEW kept, kept = Kept(seq, DOMAIN seq \ dropped)
  PROVE  kept \in Seq(S) /\ Len(kept) \in Nat /\ Compacts(seq, dropped, kept)
  <1>0. PICK K : K = DOMAIN seq \ dropped
    OBVIOUS
  <1>1. K \in SUBSET (DOMAIN seq) /\ Len(seq) \in Nat /\ DOMAIN seq = 1..Len(seq)
    BY <1>0
  <1> DEFINE n == Cardinality(K)
  <1>2. /\ n \in Nat /\ kept \in Seq(S) /\ Len(kept) = n
        /\ \E at : Places(seq, K, kept, at)
    BY <1>0, <1>1, KeptIs
  <1>3. PICK at \in [1..n -> K] :
              /\ \A i, k \in 1..n : i < k => at[i] < at[k]
              /\ \A i \in 1..n : kept[i] = seq[at[i]]
              /\ \A x \in K : /\ Cardinality((1..x) \cap K) \in 1..n
                              /\ at[Cardinality((1..x) \cap K)] = x
    BY <1>2 DEF Places
  <1> HIDE DEF n
  <1>4. ASSUME NEW x \in K PROVE Remap(dropped, x) \in 1..n /\ at[Remap(dropped, x)] = x
    <2>1. (1..x) \ dropped = (1..x) \cap K
      BY <1>0, <1>1
    <2>2. Remap(dropped, x) = Cardinality((1..x) \cap K)
      BY <2>1 DEF Remap
    <2> QED BY <1>3, <2>2
  <1>5. ASSUME NEW x \in K, NEW y \in K, x < y PROVE Remap(dropped, x) < Remap(dropped, y)
    <2>1. PICK i \in 1..n : i = Remap(dropped, x) /\ at[i] = x
      BY <1>4
    <2>2. PICK k \in 1..n : k = Remap(dropped, y) /\ at[k] = y
      BY <1>4
    <2>3. x \in Nat /\ y \in Nat
      BY <1>1
    <2>4. ~(k < i) /\ i # k
      BY <1>3, <1>5, <2>1, <2>2, <2>3
    <2> QED BY <1>2, <2>1, <2>2, <2>4
  <1>6. ASSUME NEW i \in 1..n PROVE \E x \in K : Remap(dropped, x) = i /\ kept[i] = seq[x]
    <2>1. PICK x \in K : x = at[i]
      BY <1>3
    <2>2. PICK k \in 1..n : k = Remap(dropped, x) /\ at[k] = x
      BY <1>4
    <2>3. at[i] \in Nat /\ at[k] = at[i] /\ i \in Nat /\ k \in Nat
      BY <1>1, <1>2, <2>1, <2>2
    <2>4. ~(i < k) /\ ~(k < i)
      BY <1>3, <2>3
    <2>5. k = i
      BY <2>3, <2>4
    <2> QED BY <1>3, <2>1, <2>2, <2>5
  <1>7. \A x \in K : x \in 1..Len(seq)
    BY <1>1
  <1>8. ASSUME NEW x \in K
        PROVE  Remap(dropped, x) \in 1..n /\ kept[Remap(dropped, x)] = seq[x]
    <2>1. PICK i \in 1..n : i = Remap(dropped, x) /\ at[i] = x
      BY <1>4
    <2>2. kept[i] = seq[at[i]]
      BY <1>3
    <2> QED BY <2>1, <2>2
  <1>9. Len(kept) = n /\ n \in Nat /\ kept \in Seq(S)
    BY <1>2
  <1>10. Compacts(seq, dropped, kept)
    BY <1>0, <1>5, <1>6, <1>7, <1>8, <1>9, Zenon DEF Compacts
  <1> QED BY <1>9, <1>10

\* New numbers for the nodes that stay, in the same order.
Renumbers(m, n, dropped) ==
  /\ m \in Nat /\ n \in Nat
  /\ \A x \in (1..m) \ dropped : Remap(dropped, x) \in 1..n
  /\ \A x, y \in (1..m) \ dropped : x < y => Remap(dropped, x) < Remap(dropped, y)

LEMMA RemapOnce ==
  ASSUME NEW m, NEW n, NEW dropped, Renumbers(m, n, dropped),
         NEW x \in (1..m) \ dropped, NEW y \in (1..m) \ dropped,
         Remap(dropped, x) = Remap(dropped, y)
  PROVE  x = y
  <1>1. x \in Nat /\ y \in Nat /\ Remap(dropped, x) \in Nat /\ Remap(dropped, y) \in Nat
    BY DEF Renumbers
  <1>2. ~(x < y) /\ ~(y < x)
    BY <1>1 DEF Renumbers
  <1> QED BY <1>1, <1>2

\* What pruning leaves of the edges, a summary, the episodes, valence and its log.
EdgesLeft(edges, dropped) ==
  LET kept == Kept(edges, {i \in DOMAIN edges : edges[i].source \notin dropped
                                                /\ edges[i].target \notin dropped})
  IN [k \in DOMAIN kept |-> [kept[k] EXCEPT !.source = Remap(dropped, @),
                                            !.target = Remap(dropped, @)]]

SummaryLeft(summary, dropped) ==
  LET kept == Kept(summary, {k \in DOMAIN summary : summary[k].node \notin dropped})
  IN [k \in DOMAIN kept |-> [kept[k] EXCEPT !.node = Remap(dropped, @)]]

EpisodesLeft(episodes, dropped) ==
  LET trimmed == [i \in DOMAIN episodes |->
                    [episodes[i] EXCEPT !.summary = SummaryLeft(@, dropped)]]
  IN Kept(trimmed, {i \in DOMAIN trimmed : trimmed[i].summary # <<>>})

ValenceLeft(valence, dropped) ==
  [k \in DOMAIN valence |-> [valence[k] EXCEPT !.node = Remap(dropped, @)]]

LogLeft(log, dropped) == [k \in DOMAIN log |-> Remap(dropped, log[k])]

\* The edges between nodes that stay still join two nodes, each pair once.
LEMMA EdgesPruned ==
  ASSUME NEW m, NEW n, NEW dropped, Renumbers(m, n, dropped),
         NEW edges \in Seq(Edge), EdgesSound(m, edges),
         NEW more, more = EdgesLeft(edges, dropped)
  PROVE  more \in Seq(Edge) /\ EdgesSound(n, more)
  <1> DEFINE I == {i \in DOMAIN edges : edges[i].source \notin dropped
                                        /\ edges[i].target \notin dropped}
             kept == Kept(edges, I)
             c == Cardinality(I)
             New(e) == [e EXCEPT !.source = Remap(dropped, @), !.target = Remap(dropped, @)]
  <1>1. DOMAIN edges = 1..Len(edges) /\ Len(edges) \in Nat /\ \A i \in 1..Len(edges) : edges[i] \in Edge
    OBVIOUS
  <1>2. I \in SUBSET (DOMAIN edges)
    BY SMTT(40)
  <1>3. more = [k \in DOMAIN kept |-> New(kept[k])]
    BY DEF EdgesLeft
  <1>4. \A i \in I : /\ i \in 1..Len(edges)
                     /\ edges[i].source \notin dropped /\ edges[i].target \notin dropped
    BY <1>1
  <1> HIDE DEF I
  <1>5. /\ c \in Nat /\ kept \in Seq(Edge) /\ Len(kept) = c
        /\ \E at : Places(edges, I, kept, at)
    BY <1>2, KeptIs
  <1>6. PICK at : Places(edges, I, kept, at)
    BY <1>5
  <1> HIDE DEF kept, c
  <1>7. DOMAIN kept = 1..c
    BY <1>5
  <1>8. ASSUME NEW k \in 1..c
        PROVE  /\ at[k] \in I /\ at[k] \in Nat
               /\ edges[at[k]].source \in (1..m) \ dropped
               /\ edges[at[k]].target \in (1..m) \ dropped
               /\ New(kept[k]) \in Edge
               /\ New(kept[k]).source = Remap(dropped, edges[at[k]].source)
               /\ New(kept[k]).target = Remap(dropped, edges[at[k]].target)
               /\ New(kept[k]).source \in 1..n /\ New(kept[k]).target \in 1..n
    <2>1. at[k] \in I /\ kept[k] = edges[at[k]]
      BY <1>6 DEF Places, c
    <2>2. PICK e : e = kept[k]
      OBVIOUS
    <2>3. at[k] \in 1..Len(edges) /\ e \in Edge /\ e = edges[at[k]]
      BY <1>1, <1>4, <2>1, <2>2
    <2>4. e.source \in (1..m) \ dropped /\ e.target \in (1..m) \ dropped
      BY <1>4, <2>1, <2>3 DEF EdgesSound
    <2>5. /\ Remap(dropped, e.source) \in 1..n /\ Remap(dropped, e.target) \in 1..n
          /\ n \in Nat
      BY <2>4 DEF Renumbers
    <2>a. PICK v \in Nat, w \in Nat : v = Remap(dropped, e.source) /\ w = Remap(dropped, e.target)
      BY <2>5
    <2>b. New(e) = [e EXCEPT !.source = v, !.target = w]
      BY <2>a
    <2>6. /\ New(e) \in Edge /\ New(e).source = Remap(dropped, e.source)
          /\ New(e).target = Remap(dropped, e.target)
      BY <2>3, <2>a, <2>b DEF Edge
    <2> HIDE DEF New
    <2> QED BY <2>1, <2>2, <2>3, <2>4, <2>5, <2>6
  <1> HIDE DEF New
  <1>9. \A k \in 1..c : more[k] = New(kept[k])
    BY <1>3, <1>7
  <1>10. more \in Seq(Edge) /\ Len(more) = c
    <2>1. more = [k \in 1..c |-> New(kept[k])]
      BY <1>3, <1>7
    <2>2. more \in [1..c -> Edge]
      BY <1>8, <2>1
    <2> QED BY <1>5, <2>2
  <1>11. ASSUME NEW i \in 1..c, NEW k \in 1..c,
                more[i].source = more[k].source, more[i].target = more[k].target
         PROVE  i = k
    <2>1. /\ Remap(dropped, edges[at[i]].source) = Remap(dropped, edges[at[k]].source)
          /\ Remap(dropped, edges[at[i]].target) = Remap(dropped, edges[at[k]].target)
      BY <1>8, <1>9, <1>11, SMTT(40)
    <2>2. edges[at[i]].source = edges[at[k]].source /\ edges[at[i]].target = edges[at[k]].target
      BY <1>8, <2>1, RemapOnce, SMTT(40)
    <2>3. at[i] = at[k] /\ at[i] \in Nat
      BY <1>4, <1>8, <2>2 DEF EdgesSound
    <2>4. ~(i < k) /\ ~(k < i)
      <3>1. i < k => at[i] < at[k]
        BY <1>6 DEF Places, c
      <3>2. k < i => at[k] < at[i]
        BY <1>6 DEF Places, c
      <3> QED BY <2>3, <3>1, <3>2
    <2> QED BY <2>4
  <1>12. \A k \in 1..c : more[k].source \in 1..n /\ more[k].target \in 1..n
    BY <1>8, <1>9
  <1> QED BY <1>10, <1>11, <1>12 DEF EdgesSound

\* Valence and its log keep their order and their nodes.
Moved(valence, more, dropped) ==
  /\ Len(more) = Len(valence)
  /\ \A i \in 1..Len(valence) : /\ more[i].node = Remap(dropped, valence[i].node)
                                /\ more[i].signals = valence[i].signals

LEMMA ValencePruned ==
  ASSUME NEW m, NEW n, NEW dropped, Renumbers(m, n, dropped),
         NEW valence \in Seq(Feeling), NEW log \in Seq(Nat), ValenceSound(m, valence, log),
         Avoids(valence, log, dropped),
         NEW more, more = ValenceLeft(valence, dropped), NEW less, less = LogLeft(log, dropped)
  PROVE  /\ more \in Seq(Feeling) /\ less \in Seq(Nat) /\ ValenceSound(n, more, less)
         /\ Moved(valence, more, dropped)
  <1> DEFINE New(r) == [r EXCEPT !.node = Remap(dropped, @)]
             c == Len(valence)
             l == Len(log)
  <1>1. /\ DOMAIN valence = 1..c /\ c \in Nat /\ \A i \in 1..c : valence[i] \in Feeling
        /\ DOMAIN log = 1..l /\ l \in Nat
    OBVIOUS
  <1>2. /\ \A i \in 1..c : valence[i].node \in (1..m) \ dropped /\ valence[i].signals # <<>>
        /\ \A i, k \in 1..c : i < k => valence[i].node < valence[k].node
        /\ l <= EventCapacity /\ \A i \in 1..l : log[i] \in (1..m) \ dropped
    BY DEF ValenceSound, Avoids
  <1>3. /\ more = [k \in 1..c |-> New(valence[k])]
        /\ less = [k \in 1..l |-> Remap(dropped, log[k])]
    BY <1>1 DEF ValenceLeft, LogLeft
  <1> HIDE DEF c, l
  <1>4. ASSUME NEW k \in 1..c
        PROVE  /\ New(valence[k]) \in Feeling
               /\ New(valence[k]).node = Remap(dropped, valence[k].node)
               /\ New(valence[k]).signals = valence[k].signals
               /\ New(valence[k]).node \in 1..n
    <2>1. PICK r : r = valence[k]
      OBVIOUS
    <2>2. r \in Feeling /\ r.node \in (1..m) \ dropped
      BY <1>1, <1>2, <2>1
    <2>3. Remap(dropped, r.node) \in 1..n /\ n \in Nat
      BY <2>2 DEF Renumbers
    <2>a. PICK v \in Nat : v = Remap(dropped, r.node)
      BY <2>3
    <2>b. New(r) = [r EXCEPT !.node = v]
      BY <2>a
    <2>4. /\ New(r) \in Feeling /\ New(r).node = Remap(dropped, r.node)
          /\ New(r).signals = r.signals
      BY <2>2, <2>a, <2>b DEF Feeling
    <2> HIDE DEF New
    <2> QED BY <2>1, <2>3, <2>4
  <1> HIDE DEF New
  <1>5. \A k \in 1..c : more[k] = New(valence[k])
    BY <1>3
  <1>6. more \in Seq(Feeling) /\ Len(more) = c
    <2>1. more \in [1..c -> Feeling]
      BY <1>3, <1>4
    <2> QED BY <1>1, <2>1
  <1>7. ASSUME NEW k \in 1..l PROVE Remap(dropped, log[k]) \in 1..n /\ Remap(dropped, log[k]) \in Nat
    BY <1>2 DEF Renumbers
  <1>8. less \in Seq(Nat) /\ Len(less) = l /\ \A k \in 1..l : less[k] \in 1..n
    <2>1. less \in [1..l -> Nat] /\ \A k \in 1..l : less[k] \in 1..n
      BY <1>3, <1>7
    <2> QED BY <1>1, <2>1
  <1>9. ASSUME NEW i \in 1..c, NEW k \in 1..c, i < k PROVE more[i].node < more[k].node
    <2>1. valence[i].node < valence[k].node
      BY <1>2, <1>9
    <2>2. Remap(dropped, valence[i].node) < Remap(dropped, valence[k].node)
      BY <1>2, <2>1 DEF Renumbers
    <2> QED BY <1>4, <1>5, <2>2
  <1>10. /\ \A i \in 1..c : more[i].node \in 1..n /\ more[i].signals # <<>>
         /\ \A i \in 1..c : more[i].node = Remap(dropped, valence[i].node)
                            /\ more[i].signals = valence[i].signals
    BY <1>2, <1>4, <1>5
  <1>11. ValenceSound(n, more, less)
    BY <1>2, <1>6, <1>8, <1>9, <1>10 DEF ValenceSound
  <1> QED BY <1>6, <1>8, <1>10, <1>11 DEF c, Moved

\* A summary loses what was dropped.
LEMMA SummaryPruned ==
  ASSUME NEW m, NEW n, NEW dropped, Renumbers(m, n, dropped),
         NEW summary \in Seq(Note), SummarySound(m, summary)
  PROVE  /\ SummaryLeft(summary, dropped) \in Seq(Note)
         /\ SummarySound(n, SummaryLeft(summary, dropped))
  <1> DEFINE I == {k \in DOMAIN summary : summary[k].node \notin dropped}
             kept == Kept(summary, I)
             c == Cardinality(I)
             New(e) == [e EXCEPT !.node = Remap(dropped, @)]
             more == SummaryLeft(summary, dropped)
  <1>1. /\ DOMAIN summary = 1..Len(summary) /\ Len(summary) \in Nat
        /\ \A i \in 1..Len(summary) : summary[i] \in Note
    OBVIOUS
  <1>2. I \in SUBSET (DOMAIN summary) /\ IsFiniteSet(1..Len(summary))
    BY <1>1, FS_Interval
  <1>3. more = [k \in DOMAIN kept |-> New(kept[k])]
    BY DEF SummaryLeft
  <1>4. \A i \in I : i \in 1..Len(summary) /\ summary[i].node \notin dropped
    BY <1>1
  <1> HIDE DEF I, more
  <1>5. /\ c \in Nat /\ kept \in Seq(Note) /\ Len(kept) = c
        /\ \E at : Places(summary, I, kept, at)
    BY <1>2, KeptIs
  <1>6. PICK at : Places(summary, I, kept, at)
    BY <1>5
  <1>l. c <= Len(summary)
    <2>1. I \in SUBSET (1..Len(summary))
      BY <1>1, <1>2
    <2>2. Cardinality(I) <= Cardinality(1..Len(summary))
      BY <1>2, <2>1, FS_Subset, SMTT(40)
    <2>3. PICK l \in Nat : l = Len(summary)
      BY <1>1
    <2>4. Cardinality(1..l) = l
      BY FS_Interval
    <2> QED BY <2>2, <2>3, <2>4
  <1> HIDE DEF kept, c
  <1>7. DOMAIN kept = 1..c
    BY <1>5
  <1>8. ASSUME NEW k \in 1..c
        PROVE  New(kept[k]) \in Note /\ New(kept[k]).node \in 1..n
    <2>1. at[k] \in I /\ kept[k] = summary[at[k]]
      BY <1>6 DEF Places, c
    <2>2. PICK e : e = kept[k]
      OBVIOUS
    <2>3. at[k] \in 1..Len(summary) /\ e \in Note /\ e = summary[at[k]]
      BY <1>1, <1>4, <2>1, <2>2
    <2>4. e.node \in (1..m) \ dropped
      BY <1>4, <2>1, <2>3 DEF SummarySound
    <2>5. Remap(dropped, e.node) \in 1..n /\ n \in Nat
      BY <2>4 DEF Renumbers
    <2>a. PICK v \in Nat : v = Remap(dropped, e.node)
      BY <2>5
    <2>b. New(e) = [e EXCEPT !.node = v]
      BY <2>a
    <2>6. New(e) \in Note /\ New(e).node = v
      BY <2>3, <2>a, <2>b DEF Note
    <2> HIDE DEF New
    <2> QED BY <2>2, <2>5, <2>6, <2>a
  <1> HIDE DEF New
  <1>9. more \in [1..c -> Note] /\ \A k \in 1..c : more[k].node \in 1..n
    BY <1>3, <1>7, <1>8
  <1>10. more \in Seq(Note) /\ Len(more) = c
    BY <1>5, <1>9
  <1>11. c <= SummarySize
    <2>1. Len(summary) <= SummarySize /\ SummarySize \in Nat
      BY GraphConstants DEF SummarySound
    <2> QED BY <1>1, <1>5, <1>l, <2>1
  <1> QED BY <1>9, <1>10, <1>11 DEF SummarySound, more

\* The episodes that keep a token.
LEMMA EpisodesPruned ==
  ASSUME NEW m, NEW n, NEW dropped, Renumbers(m, n, dropped),
         NEW episodes \in Seq(Episode), EpisodesSound(m, episodes)
  PROVE  /\ EpisodesLeft(episodes, dropped) \in Seq(Episode)
         /\ EpisodesSound(n, EpisodesLeft(episodes, dropped))
  <1> DEFINE New(e) == [e EXCEPT !.summary = SummaryLeft(@, dropped)]
             trimmed == [i \in DOMAIN episodes |-> New(episodes[i])]
             I == {i \in DOMAIN trimmed : trimmed[i].summary # <<>>}
             kept == Kept(trimmed, I)
             c == Len(episodes)
  <1>1. DOMAIN episodes = 1..c /\ c \in Nat /\ \A i \in 1..c : episodes[i] \in Episode
    OBVIOUS
  <1>2. EpisodesLeft(episodes, dropped) = kept
    BY DEF EpisodesLeft
  <1> HIDE DEF c
  <1>3. ASSUME NEW i \in 1..c
        PROVE  New(episodes[i]) \in Episode /\ SummarySound(n, New(episodes[i]).summary)
    <2>1. PICK e : e = episodes[i]
      OBVIOUS
    <2>2. e \in Episode /\ e.summary \in Seq(Note) /\ SummarySound(m, e.summary)
      <3>1. e \in Episode /\ SummarySound(m, e.summary)
        BY <1>1, <2>1 DEF EpisodesSound, c
      <3> QED BY <3>1 DEF Episode
    <2>3. PICK s : s = SummaryLeft(e.summary, dropped)
      OBVIOUS
    <2>4. s \in Seq(Note) /\ SummarySound(n, s)
      BY <2>2, <2>3, SummaryPruned
    <2>5. New(e) = [e EXCEPT !.summary = s]
      BY <2>3
    <2>6. New(e) \in Episode /\ New(e).summary = s
      BY <2>2, <2>4, <2>5 DEF Episode
    <2> HIDE DEF New
    <2> QED BY <2>1, <2>4, <2>6
  <1> HIDE DEF New
  <1>4. trimmed \in [1..c -> Episode] /\ \A i \in 1..c : SummarySound(n, trimmed[i].summary)
    BY <1>1, <1>3
  <1>5. trimmed \in Seq(Episode) /\ DOMAIN trimmed = 1..c
    BY <1>1, <1>4
  <1>6. I \in SUBSET (DOMAIN trimmed)
    OBVIOUS
  <1> HIDE DEF trimmed, I
  <1>7. /\ kept \in Seq(Episode) /\ Len(kept) = Cardinality(I)
        /\ \E at : Places(trimmed, I, kept, at)
    BY <1>5, <1>6, KeptIs
  <1>8. PICK at : Places(trimmed, I, kept, at)
    BY <1>7
  <1> HIDE DEF kept
  <1>9. ASSUME NEW k \in 1..Len(kept) PROVE SummarySound(n, kept[k].summary)
    <2>1. at[k] \in I /\ kept[k] = trimmed[at[k]]
      BY <1>7, <1>8 DEF Places
    <2>2. at[k] \in 1..c
      BY <1>5, <1>6, <2>1
    <2> QED BY <1>4, <2>1, <2>2
  <1> QED BY <1>2, <1>7, <1>9 DEF EpisodesSound

\* The vocabulary left.
Pruned(graph, dropped) ==
  [graph EXCEPT !.nodes = Kept(@, DOMAIN @ \ dropped), !.edges = EdgesLeft(@, dropped),
                !.valence = ValenceLeft(@, dropped), !.log = LogLeft(@, dropped),
                !.episodes = EpisodesLeft(@, dropped)]

\* Pruning leaves a sound graph, and the signals of every token.
LEMMA PrunedSound ==
  ASSUME NEW graph, Stored(graph), NEW dropped,
         Avoids(graph.valence, graph.log, dropped),
         NEW h, h = Pruned(graph, dropped)
  PROVE  /\ Stored(h) /\ h.mirror = graph.mirror /\ h.architecture = graph.architecture
         /\ h.migrations = graph.migrations
         /\ \A f : Felt(graph, f) => Felt(h, f)
  <1> DEFINE nodes == graph.nodes
             m == Len(nodes)
             K == DOMAIN nodes \ dropped
             kept == Kept(nodes, K)
             n == Len(kept)
             edges == EdgesLeft(graph.edges, dropped)
             valence == ValenceLeft(graph.valence, dropped)
             log == LogLeft(graph.log, dropped)
             episodes == EpisodesLeft(graph.episodes, dropped)
  <1>1. /\ graph \in Graphs /\ nodes \in Seq(Node) /\ m \in Nat /\ DOMAIN nodes = 1..m
        /\ graph.edges \in Seq(Edge) /\ graph.valence \in Seq(Feeling)
        /\ graph.log \in Seq(Nat) /\ graph.episodes \in Seq(Episode)
    BY DEF Stored, Graphs
  <1>2. /\ NodesSound(nodes) /\ EdgesSound(m, graph.edges) /\ EpisodesSound(m, graph.episodes)
        /\ ValenceSound(m, graph.valence, graph.log) /\ Migrated(graph.migrations, graph.architecture)
    BY DEF Stored
  <1>3. K = (1..m) \ dropped
    BY <1>1
  <1>4. /\ kept \in Seq(Node) /\ n \in Nat
        /\ \A x \in K : /\ Remap(dropped, x) \in 1..n /\ kept[Remap(dropped, x)] = nodes[x]
        /\ \A x, y \in K : x < y => Remap(dropped, x) < Remap(dropped, y)
        /\ \A i \in 1..n : \E x \in K : Remap(dropped, x) = i /\ kept[i] = nodes[x]
    <2>1. kept \in Seq(Node) /\ Len(kept) \in Nat /\ Compacts(nodes, dropped, kept)
      BY <1>1, RemapIs
    <2> HIDE DEF nodes, kept
    <2> QED BY <2>1, Zenon DEF Compacts
  <1> HIDE DEF K, kept, n, m
  <1>5. Renumbers(m, n, dropped)
    BY <1>1, <1>3, <1>4 DEF Renumbers
  <1>6. NodesSound(kept)
    <2>1. ASSUME NEW i \in 1..n, NEW k \in 1..n, kept[i].token = kept[k].token
          PROVE  i = k
      <3>1. PICK x \in K : Remap(dropped, x) = i /\ kept[i] = nodes[x]
        BY <1>4
      <3>2. PICK y \in K : Remap(dropped, y) = k /\ kept[k] = nodes[y]
        BY <1>4
      <3>3. x \in 1..m /\ y \in 1..m /\ nodes[x].token = nodes[y].token
        BY <1>3, <2>1, <3>1, <3>2
      <3>4. x = y
        BY <1>2, <3>3 DEF NodesSound, m
      <3> QED BY <3>1, <3>2, <3>4
    <2> QED BY <2>1 DEF NodesSound, n
  <1>7. edges \in Seq(Edge) /\ EdgesSound(n, edges)
    BY <1>1, <1>2, <1>5, EdgesPruned
  <1>8. episodes \in Seq(Episode) /\ EpisodesSound(n, episodes)
    BY <1>1, <1>2, <1>5, EpisodesPruned
  <1>9. /\ valence \in Seq(Feeling) /\ log \in Seq(Nat) /\ ValenceSound(n, valence, log)
        /\ Moved(graph.valence, valence, dropped)
    BY <1>1, <1>2, <1>5, ValencePruned
  <1>v. /\ Len(valence) = Len(graph.valence)
        /\ \A i \in 1..Len(graph.valence) :
             /\ valence[i].node = Remap(dropped, graph.valence[i].node)
             /\ valence[i].signals = graph.valence[i].signals
    BY <1>9 DEF Moved
  <1>10. h = [graph EXCEPT !.nodes = kept, !.edges = edges, !.valence = valence, !.log = log,
                           !.episodes = episodes]
    BY DEF Pruned, kept, K
  <1> HIDE DEF edges, episodes, valence, log
  <1>11. h \in Graphs
    <2>1. PICK a \in Seq(Node), b \in Seq(Edge), c \in Seq(Feeling), d \in Seq(Nat), e \in Seq(Episode) :
            a = kept /\ b = edges /\ c = valence /\ d = log /\ e = episodes
      BY <1>4, <1>7, <1>8, <1>9
    <2>2. h = [graph EXCEPT !.nodes = a, !.edges = b, !.valence = c, !.log = d, !.episodes = e]
      BY <1>10, <2>1
    <2>3. PICK x : x = [graph EXCEPT !.nodes = a, !.edges = b]
      OBVIOUS
    <2>4. x \in Graphs
      BY <1>1, <2>3 DEF Graphs
    <2>5. PICK y : y = [x EXCEPT !.valence = c, !.log = d]
      OBVIOUS
    <2>6. y \in Graphs
      BY <2>4, <2>5 DEF Graphs
    <2>7. h = [y EXCEPT !.episodes = e]
      BY <2>2, <2>3, <2>5, Zenon
    <2> QED BY <2>6, <2>7 DEF Graphs
  <1>12. /\ h.nodes = kept /\ h.edges = edges /\ h.valence = valence /\ h.log = log
         /\ h.episodes = episodes /\ h.mirror = graph.mirror
         /\ h.architecture = graph.architecture /\ h.migrations = graph.migrations
    BY <1>1, <1>10 DEF Graphs
  <1>13. Stored(h)
    BY <1>2, <1>6, <1>7, <1>8, <1>9, <1>11, <1>12 DEF Stored, n
  <1>14. ASSUME NEW f, Felt(graph, f) PROVE Felt(h, f)
    <2>1. ASSUME NEW i \in 1..Len(graph.valence)
          PROVE  /\ valence[i].signals = graph.valence[i].signals
                 /\ kept[valence[i].node] = nodes[graph.valence[i].node]
      <3>1. graph.valence[i].node \in K
        BY <1>2, <1>3 DEF ValenceSound, Avoids
      <3> QED BY <1>4, <1>v, <3>1
    <2>2. /\ f \in [Tokens -> Seq(Signs)]
          /\ \A i \in 1..Len(graph.valence) :
               graph.valence[i].signals = f[nodes[graph.valence[i].node].token]
          /\ \A t \in Tokens : f[t] # <<>> =>
               \E i \in 1..Len(graph.valence) : nodes[graph.valence[i].node].token = t
      BY <1>14 DEF Felt
    <2>3. \A i \in 1..Len(valence) : valence[i].signals = f[kept[valence[i].node].token]
      BY <1>v, <2>1, <2>2
    <2>4. \A t \in Tokens : f[t] # <<>> => \E i \in 1..Len(valence) : kept[valence[i].node].token = t
      BY <1>v, <2>1, <2>2, SMTT(40)
    <2> QED BY <1>12, <2>2, <2>3, <2>4 DEF Felt
  <1> QED BY <1>12, <1>13, <1>14

LEMMA PruneSound ==
  ASSUME NEW graph, Sound(graph), NEW max \in Nat, NEW h, h = prune_vocabulary(graph, max)
  PROVE  /\ Sound(h) /\ h.mirror = graph.mirror /\ h.architecture = graph.architecture
         /\ h.migrations = graph.migrations
         /\ \A f : Felt(graph, f) => Felt(h, f)
  <1>1. CASE Len(graph.nodes) <= max
    <2>1. h = graph
      BY <1>1, ZenonT(30) DEF prune_vocabulary
    <2> QED BY <2>1, ZenonT(30)
  <1>2. CASE ~(Len(graph.nodes) <= max)
    <2>1. graph \in Graphs /\ Stored(graph) /\ Len(graph.nodes) > max
      <3>1. graph \in Graphs /\ Stored(graph) /\ graph.nodes \in Seq(Node)
        BY DEF Sound, Stored, Graphs
      <3>2. Len(graph.nodes) \in Nat
        BY <3>1
      <3> QED BY <1>2, <3>1, <3>2
    <2>2. PICK dropped : dropped = Dropped(graph, max)
      OBVIOUS
    <2>3. Avoids(graph.valence, graph.log, dropped)
      BY <2>1, <2>2, DroppedIs
    <2>a. h = Regrouped(Reindexed(Pruned(graph, Dropped(graph, max))))
      BY <1>2, Zenon
         DEF prune_vocabulary, Pruned, EdgesLeft, EpisodesLeft, SummaryLeft, ValenceLeft, LogLeft,
             Remap
    <2>4. PICK p : p = Pruned(graph, dropped)
      OBVIOUS
    <2>5. h = Regrouped(Reindexed(p))
      BY <2>2, <2>4, <2>a
    <2>6. /\ Stored(p) /\ p.mirror = graph.mirror /\ p.architecture = graph.architecture
          /\ p.migrations = graph.migrations
          /\ \A f : Felt(graph, f) => Felt(p, f)
      BY <2>1, <2>3, <2>4, PrunedSound
    <2>7. PICK r : r = Reindexed(p)
      OBVIOUS
    <2>8. /\ Stored(r) /\ Indexed(r) /\ r.nodes = p.nodes /\ r.valence = p.valence
          /\ r.mirror = p.mirror /\ r.architecture = p.architecture
          /\ r.migrations = p.migrations
      BY <2>6, <2>7, ReindexedHolds
    <2>9. h \in Graphs /\ Beside(r, h) /\ Grouped(h)
      BY <2>5, <2>7, <2>8, RegroupedIs DEF Stored
    <2>10. Sound(h)
      BY <2>8, <2>9, BesideStored, SMTT(40) DEF Sound
    <2>11. \A f : Felt(p, f) => Felt(h, f)
      BY <2>8, <2>9 DEF Felt, Beside
    <2> QED BY <2>6, <2>8, <2>9, <2>10, <2>11 DEF Beside
  <1> QED BY <1>1, <1>2

---------------------------------------------------------------------------
(* The small steps. *)

\* Recall counts, and changes nothing else of an episode.
LEMMA RecalledSound ==
  ASSUME NEW graph, Sound(graph), NEW positions, NEW h, h = Recalled(graph, positions)
  PROVE  /\ Sound(h) /\ h.migrations = graph.migrations
         /\ \A f : Felt(graph, f) => Felt(h, f)
  <1> DEFINE c == Len(graph.episodes)
             New(i) == IF i \in positions THEN [graph.episodes[i] EXCEPT !.recalls = @ + 1]
                       ELSE graph.episodes[i]
             episodes == [i \in DOMAIN graph.episodes |-> New(i)]
  <1>1. /\ graph \in Graphs /\ graph.episodes \in Seq(Episode) /\ c \in Nat
        /\ DOMAIN graph.episodes = 1..c /\ \A i \in 1..c : graph.episodes[i] \in Episode
    BY DEF Sound, Stored, Graphs
  <1>2. h = [graph EXCEPT !.episodes = episodes]
    BY Zenon DEF Recalled
  <1> HIDE DEF c
  <1>3. ASSUME NEW i \in 1..c
        PROVE  New(i) \in Episode /\ New(i).summary = graph.episodes[i].summary
    <2>1. PICK e \in Episode : e = graph.episodes[i]
      BY <1>1
    <2>2. [e EXCEPT !.recalls = @ + 1] \in Episode
          /\ [e EXCEPT !.recalls = @ + 1].summary = e.summary
      BY DEF Episode
    <2>3. New(i) = IF i \in positions THEN [e EXCEPT !.recalls = @ + 1] ELSE e
      BY <2>1
    <2> HIDE DEF New
    <2> QED BY <2>1, <2>2, <2>3
  <1> HIDE DEF New
  <1>4. /\ episodes \in Seq(Episode) /\ Len(episodes) = c
        /\ \A i \in 1..c : episodes[i].summary = graph.episodes[i].summary
    <2>1. episodes \in [1..c -> Episode]
          /\ \A i \in 1..c : episodes[i].summary = graph.episodes[i].summary
      BY <1>1, <1>3
    <2> HIDE DEF episodes
    <2> QED BY <1>1, <2>1
  <1> HIDE DEF episodes
  <1>5. /\ h \in Graphs /\ h.episodes = episodes /\ h.nodes = graph.nodes /\ h.edges = graph.edges
        /\ h.valence = graph.valence /\ h.log = graph.log /\ h.groups = graph.groups
        /\ h.member = graph.member /\ h.architecture = graph.architecture
        /\ h.migrations = graph.migrations
        /\ h.node_index = graph.node_index /\ h.edge_index = graph.edge_index
    BY <1>1, <1>2, <1>4 DEF Graphs
  <1>6. EpisodesSound(Len(h.nodes), h.episodes)
    BY <1>4, <1>5 DEF Sound, Stored, EpisodesSound, c
  <1>7. Stored(h) /\ Indexed(h)
    BY <1>5, <1>6 DEF Sound, Stored, Indexed
  <1>8. Grouped(h)
    <2>1. Covered(graph.episodes, c, graph.groups, graph.member) /\ GroupsSound(graph.groups)
      BY DEF Sound, Grouped, c
    <2>2. Covered(h.episodes, c, h.groups, h.member)
      BY <1>4, <1>5, <2>1 DEF Covered
    <2> QED BY <1>4, <1>5, <2>1, <2>2 DEF Grouped
  <1>9. \A f : Felt(graph, f) => Felt(h, f)
    BY <1>5 DEF Felt
  <1> QED BY <1>5, <1>7, <1>8, <1>9 DEF Sound

\* An entry of the mirror is no concern of the rest.
Mirrored(graph, id) == [graph EXCEPT !.mirror = Append(@, id)]

LEMMA MirrorSound ==
  ASSUME NEW graph, Sound(graph), NEW id \in Nat, NEW h, h = Mirrored(graph, id)
  PROVE  /\ Sound(h) /\ h.migrations = graph.migrations /\ h.architecture = graph.architecture
         /\ \A f : Felt(graph, f) => Felt(h, f)
  <1>1. graph \in Graphs /\ graph.mirror \in Seq(Nat)
    BY DEF Sound, Stored, Graphs
  <1>2. PICK s \in Seq(Nat) : s = Append(graph.mirror, id)
    <2>1. PICK m \in Seq(Nat) : m = graph.mirror
      BY <1>1
    <2>2. Append(m, id) \in Seq(Nat)
      OBVIOUS
    <2> QED BY <2>1, <2>2
  <1>3. h = [graph EXCEPT !.mirror = s]
    BY <1>2 DEF Mirrored
  <1>4. /\ h \in Graphs /\ h.episodes = graph.episodes /\ h.nodes = graph.nodes
        /\ h.edges = graph.edges /\ h.valence = graph.valence /\ h.log = graph.log
        /\ h.groups = graph.groups /\ h.member = graph.member
        /\ h.architecture = graph.architecture /\ h.migrations = graph.migrations
        /\ h.node_index = graph.node_index /\ h.edge_index = graph.edge_index
    BY <1>1, <1>3 DEF Graphs
  <1>5. Stored(h) /\ Indexed(h) /\ Grouped(h)
    BY <1>4 DEF Sound, Stored, Indexed, Grouped
  <1>6. \A f : Felt(graph, f) => Felt(h, f)
    BY <1>4, SMTT(40) DEF Felt
  <1> QED BY <1>4, <1>5, <1>6 DEF Sound

\* Learning keeps valence with its tokens.
LEMMA LearntFelt ==
  ASSUME NEW a, Stored(a), NEW b, Learnt(a, b), NEW f, Felt(a, f)
  PROVE  Felt(b, f)
  <1>1. \A i \in 1..Len(a.valence) : a.valence[i].node \in 1..Len(a.nodes)
    BY DEF Stored, ValenceSound
  <1>2. \A i \in 1..Len(a.valence) : b.nodes[a.valence[i].node].token = a.nodes[a.valence[i].node].token
    BY <1>1 DEF Learnt
  <1>3. b.valence = a.valence
    BY DEF Learnt
  <1>4. /\ f \in [Tokens -> Seq(Signs)]
        /\ \A i \in 1..Len(a.valence) : a.valence[i].signals = f[a.nodes[a.valence[i].node].token]
        /\ \A t \in Tokens : f[t] # <<>> =>
             \E i \in 1..Len(a.valence) : a.nodes[a.valence[i].node].token = t
    BY DEF Felt
  <1>5. \A i \in 1..Len(b.valence) : b.valence[i].signals = f[b.nodes[b.valence[i].node].token]
    BY <1>2, <1>3, <1>4, SMTT(40)
  <1>6. \A t \in Tokens : f[t] # <<>> =>
          \E i \in 1..Len(b.valence) : b.nodes[b.valence[i].node].token = t
    BY <1>2, <1>3, <1>4, SMTT(40)
  <1> QED BY <1>4, <1>5, <1>6 DEF Felt

\* A graph with nothing in it.
LEMMA EmptySound ==
  ASSUME NEW architecture \in Nat, NEW h, h = EmptyGraph(architecture)
  PROVE  /\ Sound(h) /\ Felt(h, [t \in Tokens |-> <<>>])
         /\ h.architecture = architecture /\ h.migrations = <<>>
  <1>1. /\ <<>> \in Seq(Node) /\ <<>> \in Seq(Edge) /\ <<>> \in Seq(Episode) /\ <<>> \in Seq(Group)
        /\ <<>> \in Seq(Nat) /\ <<>> \in Seq(Feeling) /\ <<>> \in Seq(Migration)
        /\ <<>> \in Slots /\ <<>> \in Seq(Signs)
    BY DEF Slots
  <1>2. PICK s : s = <<>>
    OBVIOUS
  <1>3. Len(s) = 0 /\ DOMAIN s = {}
    BY <1>2
  <1>4. h = [nodes |-> s, edges |-> s, episodes |-> s, groups |-> s, member |-> s,
             valence |-> s, log |-> s, mirror |-> s, node_index |-> s, edge_index |-> s,
             architecture |-> architecture, migrations |-> s]
    BY <1>2 DEF EmptyGraph
  <1>5. h \in Graphs
    <2>1. /\ s \in Seq(Node) /\ s \in Seq(Edge) /\ s \in Seq(Episode) /\ s \in Seq(Group)
          /\ s \in Seq(Nat) /\ s \in Seq(Feeling) /\ s \in Seq(Migration) /\ s \in Slots
      BY <1>1, <1>2, Zenon
    <2> QED BY <1>4, <2>1 DEF Graphs
  <1>6. /\ h.nodes = s /\ h.edges = s /\ h.episodes = s /\ h.groups = s /\ h.member = s
        /\ h.valence = s /\ h.log = s /\ h.node_index = s /\ h.edge_index = s
        /\ h.architecture = architecture /\ h.migrations = s
    BY <1>4
  <1>7. Stored(h)
    BY <1>2, <1>3, <1>5, <1>6, GraphConstants
       DEF Stored, NodesSound, EdgesSound, EpisodesSound, ValenceSound, Migrated
  <1>8. Indexed(h)
    <2>1. Len(NodeHashes(h.nodes)) = 0 /\ Len(EdgeHashes(h.edges)) = 0
      BY <1>3, <1>6, <1>7, NodeHashesAre, EdgeHashesAre DEF Stored, Graphs
    <2> QED BY <1>2, <1>6, <2>1 DEF Indexed, Table
  <1>9. Grouped(h)
    BY <1>3, <1>6 DEF Grouped, GroupsSound, Covered
  <1>10. Felt(h, [t \in Tokens |-> <<>>])
    <2>1. PICK e \in Seq(Signs) : e = <<>>
      BY <1>1
    <2>2. [t \in Tokens |-> e] \in [Tokens -> Seq(Signs)]
      OBVIOUS
    <2> QED BY <1>3, <1>6, <2>1, <2>2 DEF Felt
  <1> QED BY <1>2, <1>6, <1>7, <1>8, <1>9, <1>10 DEF Sound

---------------------------------------------------------------------------
(* Migrations. *)

\* A migration that may come next: it widens what the graph has, no earlier than
\* the last.
Follows(graph, m) ==
  /\ m \in Migration /\ migration_validate(m) /\ m.source = graph.architecture
  /\ \A i \in 1..Len(graph.migrations) : graph.migrations[i].boundary <= m.boundary

LEMMA ExpandSound ==
  ASSUME NEW graph, Sound(graph), NEW m, Follows(graph, m), NEW h, h = expand_neural(graph, m)
  PROVE  /\ Sound(h) /\ h.architecture = m.target
         /\ h.migrations = Append(graph.migrations, m)
         /\ \A f : Felt(graph, f) => Felt(h, f)
  <1> DEFINE l == Len(graph.migrations)
             more == Append(graph.migrations, m)
  <1>1. graph \in Graphs /\ graph.migrations \in Seq(Migration) /\ m \in Migration
    BY DEF Sound, Stored, Graphs, Follows
  <1>2. m.target \in Nat
    BY <1>1 DEF Migration
  <1>3. /\ more \in Seq(Migration) /\ Len(more) = l + 1 /\ more[l + 1] = m /\ l \in Nat
        /\ \A i \in 1..l : more[i] = graph.migrations[i]
        /\ DOMAIN more = 1..(l + 1) /\ DOMAIN graph.migrations = 1..l
    <2>1. PICK s \in Seq(Migration) : s = graph.migrations
      BY <1>1
    <2>2. PICK x \in Migration : x = m
      BY <1>1
    <2>3. /\ Append(s, x) \in Seq(Migration) /\ Len(Append(s, x)) = Len(s) + 1
          /\ Append(s, x)[Len(s) + 1] = x /\ Len(s) \in Nat
          /\ \A i \in 1..Len(s) : Append(s, x)[i] = s[i]
      OBVIOUS
    <2>4. DOMAIN Append(s, x) = 1..(Len(s) + 1) /\ DOMAIN s = 1..Len(s)
      BY <2>3
    <2> QED BY <2>1, <2>2, <2>3, <2>4
  <1>4. h = [graph EXCEPT !.architecture = m.target, !.migrations = more]
    BY DEF expand_neural
  <1> HIDE DEF more
  <1>5. /\ h \in Graphs /\ h.episodes = graph.episodes /\ h.nodes = graph.nodes
        /\ h.edges = graph.edges /\ h.valence = graph.valence /\ h.log = graph.log
        /\ h.groups = graph.groups /\ h.member = graph.member
        /\ h.architecture = m.target /\ h.migrations = more
        /\ h.node_index = graph.node_index /\ h.edge_index = graph.edge_index
    BY <1>1, <1>2, <1>3, <1>4, ZenonT(60) DEF Graphs
  <1>6. Migrated(more, m.target)
    <2>1. Migrated(graph.migrations, graph.architecture)
      BY DEF Sound, Stored
    <2>2. Last(more) = m
      BY <1>3 DEF Last
    <2>3. ASSUME NEW i \in 1..(l + 1)
          PROVE  /\ migration_validate(more[i])
                 /\ i > 1 => /\ more[i - 1].boundary <= more[i].boundary
                             /\ more[i - 1].target = more[i].source
      <3>1. CASE i \in 1..l
        <4>1. graph.migrations # <<>>
          BY <1>1, <3>1
        <4>2. MigrationsChain(graph.migrations)
          BY <2>1, <4>1 DEF Migrated
        <4>3. more[i] = graph.migrations[i]
          BY <1>3, <3>1
        <4>4. i > 1 => i - 1 \in 1..l
          BY <1>3, <3>1
        <4>5. i > 1 => more[i - 1] = graph.migrations[i - 1]
          BY <1>3, <4>4
        <4> QED BY <1>3, <3>1, <4>2, <4>3, <4>5 DEF MigrationsChain
      <3>2. CASE i = l + 1
        <4>1. more[i] = m /\ migration_validate(m)
          BY <1>3, <3>2 DEF Follows
        <4>2. ASSUME i > 1 PROVE more[i - 1].boundary <= more[i].boundary
                                 /\ more[i - 1].target = more[i].source
          <5>1. l \in 1..l /\ i - 1 = l
            BY <1>3, <3>2, <4>2
          <5>2. graph.migrations # <<>> /\ more[i - 1] = graph.migrations[l]
            BY <1>1, <1>3, <5>1
          <5>3. Last(graph.migrations) = graph.migrations[l]
            BY DEF Last
          <5>4. graph.migrations[l].target = graph.architecture
            BY <2>1, <5>2, <5>3 DEF Migrated
          <5> QED BY <4>1, <5>1, <5>2, <5>4 DEF Follows
        <4> QED BY <4>1, <4>2
      <3> QED BY <1>3, <3>1, <3>2
    <2>4. MigrationsChain(more)
      BY <1>3, <2>3, SMTT(40) DEF MigrationsChain
    <2> QED BY <2>2, <2>4 DEF Migrated
  <1>7. Stored(h) /\ Indexed(h) /\ Grouped(h)
    BY <1>5, <1>6 DEF Sound, Stored, Indexed, Grouped
  <1>8. \A f : Felt(graph, f) => Felt(h, f)
    BY <1>5 DEF Felt
  <1> QED BY <1>5, <1>7, <1>8 DEF Sound, more

\* The boundaries of a chain never go back.
LEMMA ChainGrows ==
  ASSUME NEW migrations \in Seq(Migration), MigrationsChain(migrations)
  PROVE  \A k \in 1..Len(migrations) : \A i \in 1..k :
           migrations[i].boundary <= migrations[k].boundary
  <1> DEFINE n == Len(migrations)
             P == {d \in 0..n : \A i \in 1..d : migrations[i].boundary <= migrations[d].boundary}
  <1>1. n \in Nat /\ DOMAIN migrations = 1..n /\ \A i \in 1..n : migrations[i].boundary \in Nat
    <2>1. n \in Nat /\ DOMAIN migrations = 1..n /\ \A i \in 1..n : migrations[i] \in Migration
      OBVIOUS
    <2> QED BY <2>1 DEF Migration
  <1> HIDE DEF n
  <1>2. 0 \in P
    BY <1>1
  <1>3. ASSUME NEW d \in 1..n, d - 1 \in P PROVE d \in P
    <2>1. \A i \in 1..(d - 1) : migrations[i].boundary <= migrations[d - 1].boundary
      BY <1>3
    <2>2. d > 1 => migrations[d - 1].boundary <= migrations[d].boundary
      BY <1>1 DEF MigrationsChain
    <2>3. ASSUME NEW i \in 1..d PROVE migrations[i].boundary <= migrations[d].boundary
      <3>1. CASE i = d
        BY <1>1, <3>1
      <3>2. CASE i # d
        <4>1. i \in 1..(d - 1) /\ d - 1 \in 1..n /\ i \in 1..n /\ d > 1
          BY <1>1, <3>2
        <4> QED BY <1>1, <2>1, <2>2, <4>1
      <3> QED BY <3>1, <3>2
    <2>4. d \in 0..n
      BY <1>1
    <2> QED BY <2>3, <2>4
  <1>4. \A d \in 0..n : d \in P
    <2> HIDE DEF P
    <2> QED BY <1>1, <1>2, <1>3, Upwards
  <1>5. \A k \in 1..n : k \in 0..n
    BY <1>1
  <1> QED BY <1>4, <1>5 DEF n

\* The migrations may run from the architecture.
Valid(architecture, migrations) ==
  migrations # <<>> => migrations[1].source = architecture /\ MigrationsChain(migrations)

\* The first p have run: those before entry id, and of those at it the first k.
Reach(graph, architecture, migrations, id, k, p) ==
  /\ p \in 0..Len(migrations) /\ Len(graph.migrations) = p
  /\ \A i \in 1..p : graph.migrations[i] = migrations[i]
  /\ graph.architecture = IF p = 0 THEN architecture ELSE migrations[p].target
  /\ \A i \in 1..Len(migrations) :
       i <= p <=> \/ migrations[i].boundary < id
                  \/ migrations[i].boundary = id /\ i <= k

\* A rebuild under way: a sound graph with these signals, and the migrations that
\* were due.
Underway(r, f, architecture, migrations, id, k) ==
  /\ r \in [ok : BOOLEAN, graph : Graphs] /\ Sound(r.graph) /\ Felt(r.graph, f)
  /\ Len(migrations) = 0 => r.graph.migrations = <<>>
  /\ r.ok => /\ Valid(architecture, migrations)
             /\ \E p : Reach(r.graph, architecture, migrations, id, k, p)

\* One migration, at its boundary.
MigrationStep(r, migrations, id, k) ==
  IF ~r.ok \/ migrations[k].boundary # id THEN r
  ELSE [r EXCEPT !.graph = expand_neural(@, migrations[k])]

LEMMA MigrationSteps ==
  ASSUME NEW r, NEW f, NEW architecture \in Nat, NEW migrations \in Seq(Migration),
         NEW id \in Nat, NEW k \in 1..Len(migrations),
         Underway(r, f, architecture, migrations, id, k - 1)
  PROVE  Underway(MigrationStep(r, migrations, id, k), f, architecture, migrations, id, k)
  <1> DEFINE n == Len(migrations)
             m == migrations[k]
  <1>1. /\ n \in Nat /\ DOMAIN migrations = 1..n /\ k \in Nat
        /\ \A i \in 1..n : migrations[i] \in Migration /\ migrations[i].boundary \in Nat
    <2>1. n \in Nat /\ DOMAIN migrations = 1..n /\ \A i \in 1..n : migrations[i] \in Migration
      OBVIOUS
    <2> QED BY <2>1 DEF Migration
  <1>2. r \in [ok : BOOLEAN, graph : Graphs] /\ Sound(r.graph) /\ Felt(r.graph, f)
    BY DEF Underway
  <1>e. Len(migrations) # 0
    BY <1>1
  <1>3. CASE ~r.ok
    <2>1. MigrationStep(r, migrations, id, k) = r
      BY <1>3 DEF MigrationStep
    <2> QED BY <1>2, <1>3, <1>e, <2>1 DEF Underway
  <1>4. CASE r.ok /\ m.boundary # id
    <2>1. MigrationStep(r, migrations, id, k) = r
      BY <1>4 DEF MigrationStep
    <2>2. Valid(architecture, migrations)
      BY <1>4 DEF Underway
    <2>3. PICK p : Reach(r.graph, architecture, migrations, id, k - 1, p)
      BY <1>4 DEF Underway
    <2>4. ASSUME NEW i \in 1..n
          PROVE  i <= p <=> \/ migrations[i].boundary < id
                            \/ migrations[i].boundary = id /\ i <= k
      <3>1. i <= p <=> \/ migrations[i].boundary < id
                       \/ migrations[i].boundary = id /\ i <= k - 1
        BY <2>3 DEF Reach
      <3>2. i = k => migrations[i].boundary # id
        BY <1>4
      <3>3. i # k => (i <= k <=> i <= k - 1)
        BY <1>1
      <3> QED BY <3>1, <3>2, <3>3
    <2>5. Reach(r.graph, architecture, migrations, id, k, p)
      BY <2>3, <2>4 DEF Reach
    <2> QED BY <1>2, <1>e, <2>1, <2>2, <2>5 DEF Underway
  <1>5. CASE r.ok /\ m.boundary = id
    <2> DEFINE h == expand_neural(r.graph, m)
    <2>1. MigrationStep(r, migrations, id, k) = [r EXCEPT !.graph = h]
      BY <1>5 DEF MigrationStep
    <2>2. Valid(architecture, migrations) /\ migrations # <<>>
      BY <1>1, <1>5 DEF Underway
    <2>3. PICK p : Reach(r.graph, architecture, migrations, id, k - 1, p)
      BY <1>5 DEF Underway
    <2>4. MigrationsChain(migrations) /\ migrations[1].source = architecture
      BY <2>2 DEF Valid
    <2>5. \A i \in 1..k : migrations[i].boundary <= m.boundary
      BY <2>4, ChainGrows
    <2>6. p = k - 1
      <3>1. p \in Nat /\ p <= n
        BY <1>1, <2>3 DEF Reach
      <3>2. ~(k <= p)
        BY <1>1, <1>5, <2>3 DEF Reach
      <3>3. k > 1 => k - 1 <= p
        <4>1. SUFFICES ASSUME k > 1 PROVE k - 1 <= p
          OBVIOUS
        <4>2. k - 1 \in 1..n /\ k - 1 \in 1..k
          BY <1>1, <4>1
        <4>3. migrations[k - 1].boundary <= id /\ migrations[k - 1].boundary \in Nat
          BY <1>1, <1>5, <2>5, <4>2
        <4>4. k - 1 <= k - 1
          BY <1>1
        <4>5. k - 1 <= p <=> \/ migrations[k - 1].boundary < id
                             \/ migrations[k - 1].boundary = id /\ k - 1 <= k - 1
          BY <2>3, <4>2 DEF Reach
        <4> QED BY <4>3, <4>4, <4>5
      <3>4. k \in Nat /\ k >= 1
        BY <1>1
      <3> QED BY <3>1, <3>2, <3>3, <3>4
    <2>7. Follows(r.graph, m)
      <3>1. m \in Migration /\ migration_validate(m)
        BY <1>1, <2>4 DEF MigrationsChain
      <3>2. m.source = r.graph.architecture
        <4>1. CASE k = 1
          BY <2>3, <2>4, <2>6, <4>1 DEF Reach
        <4>2. CASE k # 1
          <5>1. k > 1 /\ p # 0
            BY <1>1, <2>6, <4>2
          <5>2. migrations[k - 1].target = m.source
            BY <1>1, <2>4, <5>1 DEF MigrationsChain
          <5> QED BY <2>3, <2>6, <5>1, <5>2 DEF Reach
        <4> QED BY <4>1, <4>2
      <3>3. ASSUME NEW i \in 1..Len(r.graph.migrations)
            PROVE  r.graph.migrations[i].boundary <= m.boundary
        <4>1. i \in 1..p /\ i \in 1..k
          BY <1>1, <2>3, <2>6 DEF Reach
        <4>2. r.graph.migrations[i] = migrations[i]
          BY <2>3, <4>1 DEF Reach
        <4> QED BY <2>5, <4>1, <4>2
      <3> QED BY <3>1, <3>2, <3>3 DEF Follows
    <2>8. /\ Sound(h) /\ h.architecture = m.target
          /\ h.migrations = Append(r.graph.migrations, m)
          /\ Felt(h, f)
      BY <1>2, <2>7, ExpandSound
    <2>9. h \in Graphs
      BY <2>8 DEF Sound, Stored
    <2>10. /\ Len(h.migrations) = k /\ \A i \in 1..k : h.migrations[i] = migrations[i]
      <3>1. r.graph.migrations \in Seq(Migration) /\ m \in Migration
        BY <1>1, <1>2 DEF Graphs
      <3>2. Len(r.graph.migrations) = k - 1 /\ \A i \in 1..(k - 1) : r.graph.migrations[i] = migrations[i]
        BY <2>3, <2>6 DEF Reach
      <3>3. PICK s \in Seq(Migration) : s = r.graph.migrations
        BY <3>1
      <3>4. /\ Len(Append(s, m)) = Len(s) + 1 /\ Append(s, m)[Len(s) + 1] = m
            /\ \A i \in 1..Len(s) : Append(s, m)[i] = s[i]
        BY <3>1
      <3>5. h.migrations = Append(s, m) /\ Len(s) = k - 1
        BY <2>8, <3>2, <3>3
      <3>6. \A i \in 1..k : i \in 1..(k - 1) \/ i = k
        BY <1>1
      <3>7. (k - 1) + 1 = k
        BY <1>1
      <3> HIDE DEF h
      <3> QED BY <3>2, <3>3, <3>4, <3>5, <3>6, <3>7
    <2> HIDE DEF h
    <2>11. ASSUME NEW i \in 1..n
           PROVE  i <= k <=> \/ migrations[i].boundary < id
                             \/ migrations[i].boundary = id /\ i <= k
      <3>1. i <= k - 1 <=> \/ migrations[i].boundary < id
                           \/ migrations[i].boundary = id /\ i <= k - 1
        BY <2>3, <2>6 DEF Reach
      <3>2. i # k => (i <= k <=> i <= k - 1)
        BY <1>1
      <3> QED BY <1>1, <1>5, <3>1, <3>2
    <2>12. Reach(h, architecture, migrations, id, k, k)
      <3>1. k \in 0..n /\ k # 0
        BY <1>1
      <3> QED BY <2>8, <2>10, <2>11, <3>1 DEF Reach
    <2>13. /\ [r EXCEPT !.graph = h] \in [ok : BOOLEAN, graph : Graphs]
           /\ [r EXCEPT !.graph = h].graph = h
      BY <1>2, <2>9
    <2> QED BY <1>e, <2>1, <2>2, <2>8, <2>12, <2>13 DEF Underway
  <1> QED BY <1>3, <1>4, <1>5

\* Every migration, each at its boundary.
LEMMA ApplySound ==
  ASSUME NEW r, NEW f, NEW architecture \in Nat, NEW migrations \in Seq(Migration),
         NEW id \in Nat, Underway(r, f, architecture, migrations, id, 0)
  PROVE  Underway(apply_migrations(r, migrations, id), f, architecture, migrations, id,
                  Len(migrations))
  <1> DEFINE n == Len(migrations)
             V == [ok : BOOLEAN, graph : Graphs]
             Good(k, v) == Underway(v, f, architecture, migrations, id, k)
             T == [k \in 0..n |-> {v \in V : Good(k, v)}]
             step == [p \in (1..n) \X V |-> MigrationStep(p[2], migrations, id, p[1])]
             Is(a) == a = [k \in 0..n |-> IF k = 0 THEN r
                                          ELSE MigrationStep(a[k - 1], migrations, id, k)]
  <1>0. n \in Nat /\ 0 \in 0..n
    OBVIOUS
  <1>1. r \in T[0]
    <2>1. r \in V /\ Good(0, r)
      BY DEF Underway
    <2> HIDE DEF V, Good, n
    <2> QED BY <1>0, <2>1
  <1>2. ASSUME NEW k \in 1..n, NEW v \in T[k - 1]
        PROVE  MigrationStep(v, migrations, id, k) \in T[k]
    <2>0. k - 1 \in 0..n /\ k \in 0..n
      BY <1>0
    <2>1. Good(k - 1, v)
      <3> HIDE DEF n, Good, V
      <3> QED BY <2>0
    <2> HIDE DEF T
    <2>2. Good(k, MigrationStep(v, migrations, id, k))
      BY <2>1, MigrationSteps
    <2>3. MigrationStep(v, migrations, id, k) \in V
      BY <2>2 DEF Underway
    <2> HIDE DEF n, Good, V
    <2> QED BY <2>0, <2>2, <2>3 DEF T
  <1>3. \A k \in 1..n : \A v \in T[k - 1] : step[<<k, v>>] = MigrationStep(v, migrations, id, k)
    <2>1. ASSUME NEW k \in 1..n, NEW v \in T[k - 1] PROVE v \in V
      <3>1. k - 1 \in 0..n
        BY <1>0
      <3> HIDE DEF Good, V, n
      <3> QED BY <3>1
    <2> HIDE DEF T, V, n
    <2> QED BY <2>1
  <1> HIDE DEF T, step
  <1>5. \E a : Is(a)
    <2>1. \A k \in 1..n : \A v \in T[k - 1] : step[<<k, v>>] \in T[k]
      BY <1>2, <1>3
    <2>2. PICK a : Iterates(a, n, T, r, step)
      <3> HIDE DEF n
      <3> QED BY <1>0, <1>1, <2>1, Recursion DEF Leads
    <2>3. \A k \in 1..n : a[k] = MigrationStep(a[k - 1], migrations, id, k)
      <3>0. \A k \in 1..n : k - 1 \in 0..n
        BY <1>0
      <3>1. \A k \in 1..n : a[k - 1] \in T[k - 1]
        BY <3>0, <2>2 DEF Iterates
      <3> HIDE DEF n
      <3> QED BY <1>3, <2>2, <3>1 DEF Iterates
    <2>4. \A k \in 0..n : a[k] = IF k = 0 THEN r ELSE MigrationStep(a[k - 1], migrations, id, k)
      <3>1. a[0] = r
        BY <2>2 DEF Iterates
      <3>2. \A k \in 0..n : k # 0 => k \in 1..n
        BY <1>0
      <3> HIDE DEF n
      <3> QED BY <2>3, <3>1, <3>2
    <2>5. Is(a)
      <3> HIDE DEF n
      <3> QED BY <2>2, <2>4 DEF Iterates
    <2> QED BY <2>5
  <1>6. PICK a : Is(a) /\ apply_migrations(r, migrations, id) = a[n]
    <2>1. apply_migrations(r, migrations, id) = (CHOOSE a : Is(a))[n]
      BY Zenon DEF apply_migrations, MigrationStep
    <2> HIDE DEF Is
    <2> QED BY <1>5, <2>1
  <1> HIDE DEF n
  <1>7. a[0] = r /\ \A k \in 1..n : a[k] = MigrationStep(a[k - 1], migrations, id, k)
    BY <1>0, <1>6
  <1>8. \A k \in 0..n : a[k] \in T[k]
    <2>1. a[0] \in T[0]
      BY <1>1, <1>7
    <2>2. \A k \in 1..n : a[k - 1] \in T[k - 1] => a[k] \in T[k]
      BY <1>2, <1>7
    <2> QED BY <1>0, <2>1, <2>2, Passes
  <1>9. a[n] \in T[n] /\ n \in 0..n
    BY <1>0, <1>8
  <1>10. Good(n, a[n])
    <2> HIDE DEF V, Good
    <2> QED BY <1>0, <1>9 DEF T
  <1> QED BY <1>6, <1>10 DEF n

\* The next entry, after every migration of this one.
LEMMA NextEntry ==
  ASSUME NEW r, NEW f, NEW architecture, NEW migrations \in Seq(Migration), NEW id \in Nat,
         Underway(r, f, architecture, migrations, id, Len(migrations))
  PROVE  Underway(r, f, architecture, migrations, id + 1, 0)
  <1>1. ASSUME r.ok PROVE \E p : Reach(r.graph, architecture, migrations, id + 1, 0, p)
    <2>1. PICK p : Reach(r.graph, architecture, migrations, id, Len(migrations), p)
      BY <1>1 DEF Underway
    <2>2. ASSUME NEW i \in 1..Len(migrations)
          PROVE  i <= p <=> \/ migrations[i].boundary < id + 1
                            \/ migrations[i].boundary = id + 1 /\ i <= 0
      <3>0. migrations[i] \in Migration
        OBVIOUS
      <3>1. migrations[i].boundary \in Nat
        BY <3>0 DEF Migration
      <3>2. i <= Len(migrations) /\ ~(i <= 0)
        OBVIOUS
      <3>3. i <= p <=> \/ migrations[i].boundary < id
                       \/ migrations[i].boundary = id /\ i <= Len(migrations)
        BY <2>1 DEF Reach
      <3> QED BY <3>1, <3>2, <3>3
    <2> QED BY <2>1, <2>2 DEF Reach
  <1> QED BY <1>1 DEF Underway

---------------------------------------------------------------------------
(* Replay and rebuild. *)

Recorded == [text : Texts, schema : {1, 2}, outcome : {"pending", "learned", "excluded"}]

\* What is replayed of an entry is as sound as what came before.
LEMMA MirrorUnderway ==
  ASSUME NEW r, r.ok, NEW f, NEW architecture \in Nat, NEW migrations \in Seq(Migration),
         NEW id \in Nat, Underway(r, f, architecture, migrations, id, 0),
         NEW text \in Texts, NEW schema \in {1, 2},
         NEW o, o = observe_with_memory(r.graph, text, schema, id, id)
  PROVE  Underway(Mirror(r, o, id), f, architecture, migrations, id, 0)
  <1>1. /\ r \in [ok : BOOLEAN, graph : Graphs] /\ Sound(r.graph) /\ Felt(r.graph, f)
        /\ Valid(architecture, migrations)
        /\ \E p : Reach(r.graph, architecture, migrations, id, 0, p)
        /\ (Len(migrations) = 0 => r.graph.migrations = <<>>)
    BY DEF Underway
  <1>2. o.ok \in BOOLEAN /\ Sound(o.graph) /\ Learnt(r.graph, o.graph)
    BY <1>1, ObserveSound
  <1>3. CASE ~o.ok
    <2>1. Mirror(r, o, id) = [r EXCEPT !.ok = FALSE]
      BY <1>3 DEF Mirror
    <2>2. /\ Mirror(r, o, id) \in [ok : BOOLEAN, graph : Graphs]
          /\ Mirror(r, o, id).graph = r.graph /\ ~Mirror(r, o, id).ok
      BY <1>1, <2>1
    <2> QED BY <1>1, <2>2 DEF Underway
  <1>4. CASE o.ok
    <2>1. PICK h : h = Mirrored(o.graph, id)
      OBVIOUS
    <2>2. Mirror(r, o, id) = [r EXCEPT !.graph = h]
      BY <1>4, <2>1 DEF Mirror, Mirrored
    <2>3. /\ Sound(h) /\ h.migrations = o.graph.migrations /\ h.architecture = o.graph.architecture
          /\ \A s : Felt(o.graph, s) => Felt(h, s)
      <3>1. PICK a : a = o.graph
        OBVIOUS
      <3>2. Sound(a) /\ h = Mirrored(a, id)
        BY <1>2, <2>1, <3>1
      <3>3. /\ Sound(h) /\ h.migrations = a.migrations /\ h.architecture = a.architecture
            /\ \A s : Felt(a, s) => Felt(h, s)
        BY <3>2, MirrorSound
      <3> QED BY <3>1, <3>3
    <2>4. h \in Graphs
      BY <2>3 DEF Sound, Stored
    <2>5. Felt(h, f)
      BY <1>1, <1>2, <2>3, LearntFelt DEF Sound
    <2>6. h.migrations = r.graph.migrations /\ h.architecture = r.graph.architecture
      BY <1>2, <2>3 DEF Learnt
    <2>7. \E p : Reach(h, architecture, migrations, id, 0, p)
      <3>1. PICK p : Reach(r.graph, architecture, migrations, id, 0, p)
        BY <1>1
      <3>2. Reach(h, architecture, migrations, id, 0, p)
        BY <2>6, <3>1 DEF Reach
      <3> QED BY <3>2
    <2>8. /\ Mirror(r, o, id) \in [ok : BOOLEAN, graph : Graphs]
          /\ Mirror(r, o, id).graph = h
      BY <1>1, <2>2, <2>4
    <2> QED BY <1>1, <2>3, <2>5, <2>6, <2>7, <2>8 DEF Underway
  <1> QED BY <1>2, <1>3, <1>4

LEMMA ReplayStepSound ==
  ASSUME ledger \in Seq(Recorded), NEW r, NEW f, NEW architecture \in Nat,
         NEW migrations \in Seq(Migration), NEW id \in 1..Len(ledger),
         Underway(r, f, architecture, migrations, id - 1, Len(migrations))
  PROVE  Underway(ReplayStep(r, migrations, id), f, architecture, migrations, id, Len(migrations))
  <1>1. id \in Nat /\ id - 1 \in Nat /\ (id - 1) + 1 = id
    OBVIOUS
  <1>2. CASE ~r.ok
    BY <1>2 DEF ReplayStep, Underway
  <1>3. CASE r.ok
    <2>1. Underway(r, f, architecture, migrations, id, 0)
      BY <1>1, NextEntry
    <2>2. ledger[id].text \in Texts /\ ledger[id].schema \in {1, 2}
      <3>1. ledger[id] \in Recorded
        OBVIOUS
      <3> QED BY <3>1 DEF Recorded
    <2>3. PICK o : o = observe_with_memory(r.graph, ledger[id].text, ledger[id].schema, id, id)
      OBVIOUS
    <2>4. PICK q : q = IF ledger[id].outcome # "learned" THEN r ELSE Mirror(r, o, id)
      OBVIOUS
    <2>5. Underway(q, f, architecture, migrations, id, 0)
      <3>1. Underway(Mirror(r, o, id), f, architecture, migrations, id, 0)
        BY <1>1, <1>3, <2>1, <2>2, <2>3, MirrorUnderway
      <3> QED BY <2>1, <2>4, <3>1
    <2>6. ReplayStep(r, migrations, id) = apply_migrations(q, migrations, id)
      BY <1>3, <2>3, <2>4 DEF ReplayStep
    <2> QED BY <1>1, <2>5, <2>6, ApplySound
  <1> QED BY <1>2, <1>3

\* No signal yet.
Silence == [t \in Tokens |-> <<>>]

\* The replay starts from an empty graph.
LEMMA EmptyUnderway ==
  ASSUME NEW architecture \in Nat, NEW migrations \in Seq(Migration),
         NEW r, r = [ok |-> validate_migrations(architecture, migrations),
                     graph |-> EmptyGraph(architecture)]
  PROVE  Underway(r, Silence, architecture, migrations, 0, 0)
  <1>1. PICK h : h = EmptyGraph(architecture)
    OBVIOUS
  <1>2. /\ Sound(h) /\ Felt(h, Silence) /\ h.architecture = architecture /\ h.migrations = <<>>
    BY <1>1, EmptySound DEF Silence
  <1>3. h \in Graphs
    BY <1>2 DEF Sound, Stored
  <1>4. PICK v \in BOOLEAN : /\ v = validate_migrations(architecture, migrations)
                             /\ v => Valid(architecture, migrations)
    <2>1. validate_migrations(architecture, migrations) \in BOOLEAN
      BY DEF validate_migrations
    <2>2. validate_migrations(architecture, migrations) => Valid(architecture, migrations)
      BY DEF validate_migrations, Valid
    <2> QED BY <2>1, <2>2
  <1>5. r = [ok |-> v, graph |-> h]
    BY <1>1, <1>4
  <1>6. r \in [ok : BOOLEAN, graph : Graphs] /\ r.graph = h /\ r.ok = v
    BY <1>3, <1>5
  <1>7. Reach(h, architecture, migrations, 0, 0, 0)
    <2>1. Len(migrations) \in Nat /\ \A i \in 1..Len(migrations) : migrations[i] \in Migration
      OBVIOUS
    <2>2. \A i \in 1..Len(migrations) :
            ~(migrations[i].boundary < 0) /\ ~(i <= 0)
      BY <2>1 DEF Migration
    <2>3. Len(h.migrations) = 0
      BY <1>2
    <2> QED BY <1>2, <2>1, <2>2, <2>3 DEF Reach
  <1> QED BY <1>2, <1>4, <1>6, <1>7 DEF Underway

\* The replay of the whole ledger.
LEMMA ReplayedSound ==
  ASSUME ledger \in Seq(Recorded), NEW architecture \in Nat, NEW migrations \in Seq(Migration)
  PROVE  Underway(Replayed(architecture, migrations), Silence, architecture, migrations,
                  Len(ledger), Len(migrations))
  <1> DEFINE n == Len(ledger)
             empty == [ok |-> validate_migrations(architecture, migrations),
                       graph |-> EmptyGraph(architecture)]
             r == apply_migrations(empty, migrations, 0)
             V == [ok : BOOLEAN, graph : Graphs]
             Good(k, v) == Underway(v, Silence, architecture, migrations, k, Len(migrations))
             T == [k \in 0..n |-> {v \in V : Good(k, v)}]
             step == [p \in (1..n) \X V |-> ReplayStep(p[2], migrations, p[1])]
             Is(a) == a = [id \in 0..n |-> IF id = 0 THEN r
                                           ELSE ReplayStep(a[id - 1], migrations, id)]
  <1>0. n \in Nat /\ 0 \in 0..n
    OBVIOUS
  <1>1. r \in T[0]
    <2>1. Underway(empty, Silence, architecture, migrations, 0, 0)
      BY EmptyUnderway
    <2>2. Good(0, r)
      <3> HIDE DEF empty
      <3> QED BY <2>1, ApplySound
    <2>3. r \in V
      BY <2>2 DEF Underway
    <2> HIDE DEF V, Good, n, r
    <2> QED BY <1>0, <2>2, <2>3
  <1> HIDE DEF r
  <1>2. ASSUME NEW k \in 1..n, NEW v \in T[k - 1]
        PROVE  ReplayStep(v, migrations, k) \in T[k]
    <2>0. k - 1 \in 0..n /\ k \in 0..n
      BY <1>0
    <2>1. Good(k - 1, v)
      <3> HIDE DEF n, Good, V
      <3> QED BY <2>0
    <2> HIDE DEF T
    <2>2. Good(k, ReplayStep(v, migrations, k))
      BY <2>1, ReplayStepSound
    <2>3. ReplayStep(v, migrations, k) \in V
      BY <2>2 DEF Underway
    <2> HIDE DEF n, Good, V
    <2> QED BY <2>0, <2>2, <2>3 DEF T
  <1>3. \A k \in 1..n : \A v \in T[k - 1] : step[<<k, v>>] = ReplayStep(v, migrations, k)
    <2>1. ASSUME NEW k \in 1..n, NEW v \in T[k - 1] PROVE v \in V
      <3>1. k - 1 \in 0..n
        BY <1>0
      <3> HIDE DEF Good, V, n
      <3> QED BY <3>1
    <2> HIDE DEF T, V, n
    <2> QED BY <2>1
  <1> HIDE DEF T, step
  <1>5. \E a : Is(a)
    <2>1. \A k \in 1..n : \A v \in T[k - 1] : step[<<k, v>>] \in T[k]
      BY <1>2, <1>3
    <2>2. PICK a : Iterates(a, n, T, r, step)
      <3> HIDE DEF n
      <3> QED BY <1>0, <1>1, <2>1, Recursion DEF Leads
    <2>3. \A k \in 1..n : a[k] = ReplayStep(a[k - 1], migrations, k)
      <3>0. \A k \in 1..n : k - 1 \in 0..n
        BY <1>0
      <3>1. \A k \in 1..n : a[k - 1] \in T[k - 1]
        BY <3>0, <2>2 DEF Iterates
      <3> HIDE DEF n
      <3> QED BY <1>3, <2>2, <3>1 DEF Iterates
    <2>4. \A k \in 0..n : a[k] = IF k = 0 THEN r ELSE ReplayStep(a[k - 1], migrations, k)
      <3>1. a[0] = r
        BY <2>2 DEF Iterates
      <3>2. \A k \in 0..n : k # 0 => k \in 1..n
        BY <1>0
      <3> HIDE DEF n
      <3> QED BY <2>3, <3>1, <3>2
    <2>5. Is(a)
      <3> HIDE DEF n
      <3> QED BY <2>2, <2>4 DEF Iterates
    <2> QED BY <2>5
  <1>6. PICK a : Is(a) /\ Replayed(architecture, migrations) = a[n]
    <2>1. Replayed(architecture, migrations) = (CHOOSE a : Is(a))[n]
      BY Zenon DEF Replayed, r
    <2> HIDE DEF Is
    <2> QED BY <1>5, <2>1
  <1> HIDE DEF n
  <1>7. a[0] = r /\ \A k \in 1..n : a[k] = ReplayStep(a[k - 1], migrations, k)
    BY <1>0, <1>6
  <1>8. \A k \in 0..n : a[k] \in T[k]
    <2>1. a[0] \in T[0]
      BY <1>1, <1>7
    <2>2. \A k \in 1..n : a[k - 1] \in T[k - 1] => a[k] \in T[k]
      BY <1>2, <1>7
    <2> QED BY <1>0, <2>1, <2>2, Passes
  <1>9. a[n] \in T[n] /\ n \in 0..n
    BY <1>0, <1>8
  <1>10. Good(n, a[n])
    <2> HIDE DEF V, Good
    <2> QED BY <1>0, <1>9 DEF T
  <1> QED BY <1>6, <1>10 DEF n

\* An event of the journal.
Happening == [token : Tokens \cup Concepts, signal : Signs]

LEMMA SameSequence ==
  ASSUME NEW S, NEW s \in Seq(S), NEW t \in Seq(S), Len(s) = Len(t),
         \A i \in 1..Len(s) : s[i] = t[i]
  PROVE  s = t
  <1>1. s = [i \in 1..Len(s) |-> s[i]] /\ t = [i \in 1..Len(t) |-> t[i]]
    OBVIOUS
  <1> QED BY <1>1

\* The place of what stands at j is j.
LEMMA PlaceIs ==
  ASSUME NEW S, NEW seq \in Seq(S), NEW I \in SUBSET (DOMAIN seq), NEW kept, NEW at,
         Places(seq, I, kept, at), NEW j \in 1..Cardinality(I)
  PROVE  at[j] \in I /\ Cardinality((1..at[j]) \cap I) = j
  <1>1. Cardinality(I) \in Nat /\ Len(seq) \in Nat /\ DOMAIN seq = 1..Len(seq)
    BY KeptIs
  <1>2. at[j] \in I
    BY DEF Places
  <1>3. PICK i \in 1..Cardinality(I) : i = Cardinality((1..at[j]) \cap I) /\ at[i] = at[j]
    BY <1>2 DEF Places
  <1>4. at[j] \in Nat /\ i \in Nat /\ j \in Nat
    BY <1>1, <1>2
  <1>5. ~(i < j) /\ ~(j < i)
    <2>1. i < j => at[i] < at[j]
      BY DEF Places
    <2>2. j < i => at[j] < at[i]
      BY DEF Places
    <2> QED BY <1>3, <1>4, <2>1, <2>2
  <1> QED BY <1>2, <1>3, <1>4, <1>5

\* The signals of a token grow by those that are its own.
LEMMA SignalsGrow ==
  ASSUME NEW s \in Seq(Happening), NEW e \in Happening, NEW t
  PROVE  /\ Signals(s, t) \in Seq(Signs)
         /\ Signals(Append(s, e), t) = IF e.token = t THEN Append(Signals(s, t), e.signal)
                                       ELSE Signals(s, t)
  <1> DEFINE n == Len(s)
             s2 == Append(s, e)
             I1 == {i \in DOMAIN s : s[i].token = t}
             I2 == {i \in DOMAIN s2 : s2[i].token = t}
             k1 == Kept(s, I1)
             k2 == Kept(s2, I2)
             c1 == Cardinality(I1)
             c2 == Cardinality(I2)
  <1>1. /\ n \in Nat /\ DOMAIN s = 1..n /\ s2 \in Seq(Happening) /\ Len(s2) = n + 1
        /\ DOMAIN s2 = 1..(n + 1) /\ s2[n + 1] = e /\ \A i \in 1..n : s2[i] = s[i]
    OBVIOUS
  <1>2. /\ Signals(s, t) = [i \in DOMAIN k1 |-> k1[i].signal]
        /\ Signals(s2, t) = [i \in DOMAIN k2 |-> k2[i].signal]
    BY DEF Signals
  <1>3. /\ I1 \in SUBSET (DOMAIN s) /\ I2 \in SUBSET (DOMAIN s2)
        /\ \A i \in 1..n : i \in I2 <=> i \in I1
        /\ n + 1 \in I2 <=> e.token = t
        /\ n + 1 \notin I1
    BY <1>1
  <1> HIDE DEF I1, I2, s2, n
  <1>4. /\ c1 \in Nat /\ IsFiniteSet(I1) /\ k1 \in Seq(Happening) /\ Len(k1) = c1
        /\ \E at : Places(s, I1, k1, at)
    BY <1>3, KeptIs
  <1>5. /\ c2 \in Nat /\ IsFiniteSet(I2) /\ k2 \in Seq(Happening) /\ Len(k2) = c2
        /\ \E at : Places(s2, I2, k2, at)
    BY <1>1, <1>3, KeptIs
  <1>6. PICK a1 : Places(s, I1, k1, a1)
    BY <1>4
  <1>7. PICK a2 : Places(s2, I2, k2, a2)
    BY <1>5
  <1>8. ASSUME NEW j \in 1..c1 PROVE j \in 1..c2 /\ k2[j] = k1[j]
    <2>1. a1[j] \in I1 /\ Cardinality((1..a1[j]) \cap I1) = j
      BY <1>3, <1>6, PlaceIs
    <2>2. PICK x \in 1..n : x = a1[j]
      BY <1>1, <1>3, <2>1
    <2>3. x \in I2 /\ (1..x) \cap I2 = (1..x) \cap I1
      <3>1. \A i \in 1..x : i \in 1..n
        BY <1>1
      <3> QED BY <1>3, <2>1, <2>2, <3>1
    <2>4. j \in 1..c2 /\ a2[j] = x
      BY <1>7, <2>1, <2>2, <2>3 DEF Places
    <2>5. k2[j] = s2[x] /\ k1[j] = s[x]
      BY <1>6, <1>7, <2>2, <2>4 DEF Places
    <2> QED BY <1>1, <2>4, <2>5
  <1>9. e.token # t => c2 = c1
    <2>1. SUFFICES ASSUME e.token # t PROVE c2 = c1
      OBVIOUS
    <2>2. I2 = I1
      <3>1. \A i \in 1..(n + 1) : i \in 1..n \/ i = n + 1
        BY <1>1
      <3>2. \A i \in I2 : i \in I1
        BY <1>1, <1>3, <2>1, <3>1
      <3>3. \A i \in I1 : i \in I2
        BY <1>1, <1>3
      <3> QED BY <3>2, <3>3
    <2> QED BY <2>2
  <1>10. e.token = t => c2 = c1 + 1 /\ k2[c2] = e
    <2>1. SUFFICES ASSUME e.token = t PROVE c2 = c1 + 1 /\ k2[c2] = e
      OBVIOUS
    <2>2. I2 = I1 \cup {n + 1}
      <3>1. \A i \in 1..(n + 1) : i \in 1..n \/ i = n + 1
        BY <1>1
      <3>2. \A i \in I2 : i \in I1 \/ i = n + 1
        BY <1>1, <1>3, <3>1
      <3>3. (\A i \in I1 : i \in I2) /\ n + 1 \in I2
        BY <1>1, <1>3, <2>1
      <3> QED BY <3>2, <3>3
    <2>3. c2 = c1 + 1
      BY <1>3, <1>4, <2>2, FS_AddElement
    <2>4. n + 1 \in I2 /\ (1..(n + 1)) \cap I2 = I2
      BY <1>1, <1>3, <2>2
    <2>5. c2 \in 1..c2 /\ a2[c2] = n + 1
      BY <1>7, <2>4 DEF Places
    <2>6. k2[c2] = s2[n + 1]
      BY <1>7, <2>5 DEF Places
    <2> QED BY <1>1, <2>3, <2>6
  <1> HIDE DEF k1, k2, c1, c2
  <1> DEFINE g1 == Signals(s, t)
             g2 == Signals(s2, t)
  <1>11. g1 \in Seq(Signs) /\ Len(g1) = c1 /\ \A j \in 1..c1 : g1[j] = k1[j].signal
    <2>1. DOMAIN k1 = 1..c1 /\ \A j \in 1..c1 : k1[j] \in Happening
      BY <1>4
    <2>2. g1 = [i \in 1..c1 |-> k1[i].signal] /\ \A j \in 1..c1 : k1[j].signal \in Signs
      BY <1>2, <2>1 DEF Happening
    <2> HIDE DEF g1
    <2> QED BY <1>4, <2>2
  <1>12. g2 \in Seq(Signs) /\ Len(g2) = c2 /\ \A j \in 1..c2 : g2[j] = k2[j].signal
    <2>1. DOMAIN k2 = 1..c2 /\ \A j \in 1..c2 : k2[j] \in Happening
      BY <1>5
    <2>2. g2 = [i \in 1..c2 |-> k2[i].signal] /\ \A j \in 1..c2 : k2[j].signal \in Signs
      BY <1>2, <2>1 DEF Happening
    <2> HIDE DEF g2
    <2> QED BY <1>5, <2>2
  <1> HIDE DEF g1, g2
  <1>13. CASE e.token # t
    <2>1. Len(g1) = Len(g2) /\ \A j \in 1..Len(g2) : g2[j] = g1[j]
      BY <1>8, <1>9, <1>11, <1>12, <1>13
    <2>2. g2 = g1
      BY <1>11, <1>12, <2>1, SameSequence
    <2> QED BY <1>11, <1>13, <2>2 DEF g1, g2, s2
  <1>14. CASE e.token = t
    <2>1. e.signal \in Signs
      BY DEF Happening
    <2>a. PICK v \in Signs, y \in Seq(Signs) : v = e.signal /\ y = g1
      BY <1>11, <2>1
    <2>b. /\ Append(y, v) \in Seq(Signs) /\ Len(Append(y, v)) = Len(y) + 1
          /\ Append(y, v)[Len(y) + 1] = v /\ \A j \in 1..Len(y) : Append(y, v)[j] = y[j]
      OBVIOUS
    <2>2. PICK q \in Seq(Signs) : q = Append(y, v)
      BY <2>b
    <2>3. /\ Len(q) = c1 + 1 /\ q[c1 + 1] = e.signal /\ \A j \in 1..c1 : q[j] = g1[j]
      BY <1>11, <2>2, <2>a, <2>b
    <2>c. q = Append(g1, e.signal)
      BY <2>2, <2>a
    <2>4. c2 = c1 + 1 /\ k2[c1 + 1] = e
      BY <1>10, <1>14
    <2>5. \A j \in 1..(c1 + 1) : j \in 1..c1 \/ j = c1 + 1
      BY <1>4
    <2>6. Len(q) = Len(g2) /\ \A j \in 1..Len(g2) : g2[j] = q[j]
      BY <1>8, <1>11, <1>12, <2>3, <2>4, <2>5, SMTT(40)
    <2>7. g2 = q
      BY <1>12, <2>6, SameSequence
    <2> QED BY <1>11, <1>14, <2>c, <2>7 DEF g1, g2, s2
  <1> QED BY <1>13, <1>14

\* The signals of the first k events.
Heard(k) == [t \in Tokens |-> Signals(SubSeq(journal, 1, k), t)]

LEMMA HeardGrows ==
  ASSUME journal \in Seq(Happening), NEW k \in 1..Len(journal), journal[k].token \in Tokens
  PROVE  /\ Heard(k - 1) \in [Tokens -> Seq(Signs)]
         /\ Heard(k) = [Heard(k - 1) EXCEPT ![journal[k].token] = Append(@, journal[k].signal)]
  <1>1. PICK s \in Seq(Happening), e \in Happening :
          /\ s = SubSeq(journal, 1, k - 1) /\ e = journal[k] /\ SubSeq(journal, 1, k) = Append(s, e)
    <2>1. Len(journal) \in Nat /\ k \in Nat /\ k - 1 \in Nat /\ k - 1 <= Len(journal) /\ k <= Len(journal)
      OBVIOUS
    <2>2. /\ SubSeq(journal, 1, k - 1) \in Seq(Happening) /\ Len(SubSeq(journal, 1, k - 1)) = k - 1
          /\ \A i \in 1..(k - 1) : SubSeq(journal, 1, k - 1)[i] = journal[i]
      BY <2>1
    <2>3. /\ SubSeq(journal, 1, k) \in Seq(Happening) /\ Len(SubSeq(journal, 1, k)) = k
          /\ \A i \in 1..k : SubSeq(journal, 1, k)[i] = journal[i]
      BY <2>1
    <2>4. PICK s \in Seq(Happening) : s = SubSeq(journal, 1, k - 1)
      BY <2>2
    <2>5. PICK u \in Seq(Happening) : u = SubSeq(journal, 1, k)
      BY <2>3
    <2>6. PICK e \in Happening : e = journal[k]
      OBVIOUS
    <2>7. /\ Append(s, e) \in Seq(Happening) /\ Len(Append(s, e)) = Len(s) + 1
          /\ Append(s, e)[Len(s) + 1] = e /\ \A i \in 1..Len(s) : Append(s, e)[i] = s[i]
      OBVIOUS
    <2>8. PICK a \in Seq(Happening) : a = Append(s, e)
      BY <2>7
    <2>9. Len(s) + 1 = k /\ Len(u) = k /\ Len(a) = k
      BY <2>1, <2>2, <2>3, <2>4, <2>5, <2>7, <2>8
    <2>10. \A i \in 1..k : i \in 1..(k - 1) \/ i = k
      BY <2>1
    <2>11. \A i \in 1..Len(u) : u[i] = a[i]
      BY <2>2, <2>3, <2>4, <2>5, <2>6, <2>7, <2>8, <2>9, <2>10
    <2>12. u = a
      BY <2>9, <2>11, SameSequence
    <2> QED BY <2>4, <2>5, <2>6, <2>8, <2>12
  <1>2. \A t \in Tokens : /\ Heard(k - 1)[t] = Signals(s, t) /\ Heard(k)[t] = Signals(Append(s, e), t)
    BY <1>1 DEF Heard
  <1>3. \A t \in Tokens : Signals(s, t) \in Seq(Signs)
    BY SignalsGrow
  <1>4. \A t \in Tokens : Signals(Append(s, e), t) = IF e.token = t THEN Append(Signals(s, t), e.signal)
                                                     ELSE Signals(s, t)
    BY SignalsGrow
  <1>5. /\ Heard(k - 1) = [t \in Tokens |-> Heard(k - 1)[t]]
        /\ Heard(k) = [t \in Tokens |-> Heard(k)[t]]
    BY DEF Heard
  <1>6. PICK a : a = Heard(k - 1)
    OBVIOUS
  <1>7. PICK b : b = Heard(k)
    OBVIOUS
  <1>8. a \in [Tokens -> Seq(Signs)] /\ b = [t \in Tokens |-> b[t]]
    BY <1>2, <1>3, <1>5, <1>6, <1>7
  <1>9. \A t \in Tokens : b[t] = IF e.token = t THEN Append(a[t], e.signal) ELSE a[t]
    BY <1>2, <1>4, <1>6, <1>7
  <1>10. b = [a EXCEPT ![e.token] = Append(@, e.signal)]
    BY <1>1, <1>8, <1>9
  <1> QED BY <1>1, <1>6, <1>7, <1>8, <1>10

\* A rebuild that has felt the first k events.
Replaying(r, architecture, migrations, k) ==
  /\ r \in [ok : BOOLEAN, graph : Graphs] /\ Sound(r.graph)
  /\ r.ok => /\ Felt(r.graph, Heard(k))
             /\ \E p : Reach(r.graph, architecture, migrations, Len(ledger), Len(migrations), p)

LEMMA FeltAgainSound ==
  ASSUME journal \in Seq(Happening), NEW r, NEW architecture, NEW migrations,
         NEW k \in 1..Len(journal), Replaying(r, architecture, migrations, k - 1)
  PROVE  Replaying(FeltAgain(r, journal[k]), architecture, migrations, k)
  <1> DEFINE e == journal[k]
  <1>1. r \in [ok : BOOLEAN, graph : Graphs] /\ Sound(r.graph)
    BY DEF Replaying
  <1>2. e \in Happening /\ e.token \in Tokens \cup Concepts /\ e.signal \in Signs
    <2>1. e \in Happening
      OBVIOUS
    <2> QED BY <2>1 DEF Happening
  <1> HIDE DEF e
  <1>3. CASE ~r.ok \/ find_node(r.graph, e.token) = 0
    <2>1. FeltAgain(r, e) = [r EXCEPT !.ok = FALSE]
      BY <1>3 DEF FeltAgain
    <2>2. /\ FeltAgain(r, e) \in [ok : BOOLEAN, graph : Graphs]
          /\ FeltAgain(r, e).graph = r.graph /\ ~FeltAgain(r, e).ok
      BY <1>1, <2>1
    <2> QED BY <1>1, <2>2 DEF Replaying, e
  <1>4. CASE r.ok /\ find_node(r.graph, e.token) # 0
    <2>1. PICK a : a = r.graph
      OBVIOUS
    <2>2. PICK h : h = valence_event(a, e.token, e.signal)
      OBVIOUS
    <2>3. FeltAgain(r, e) = [r EXCEPT !.graph = h]
      BY <1>4, <2>1, <2>2 DEF FeltAgain
    <2>4. PICK token \in Tokens \cup Concepts, signal \in Signs : token = e.token /\ signal = e.signal
      BY <1>2
    <2>5. /\ Sound(h) /\ Elsewhere(a, h) /\ token \in Tokens
          /\ \A f : Felt(a, f) => Felt(h, [f EXCEPT ![token] = Append(@, signal)])
      <3>1. Sound(a) /\ find_node(a, token) # 0 /\ h = valence_event(a, token, signal)
        BY <1>1, <1>4, <2>1, <2>2, <2>4
      <3> QED BY <3>1, EventSound
    <2>6. Felt(a, Heard(k - 1))
      BY <1>4, <2>1 DEF Replaying
    <2>7. Heard(k) = [Heard(k - 1) EXCEPT ![token] = Append(@, signal)]
      BY <2>4, <2>5, HeardGrows DEF e
    <2>8. Felt(h, Heard(k))
      BY <2>5, <2>6, <2>7
    <2>9. \E p : Reach(h, architecture, migrations, Len(ledger), Len(migrations), p)
      <3>1. PICK p : Reach(a, architecture, migrations, Len(ledger), Len(migrations), p)
        BY <1>4, <2>1 DEF Replaying
      <3>2. Reach(h, architecture, migrations, Len(ledger), Len(migrations), p)
        BY <2>5, <3>1 DEF Reach, Elsewhere
      <3> QED BY <3>2
    <2>10. h \in Graphs
      BY <2>5 DEF Sound, Stored
    <2>11. /\ FeltAgain(r, e) \in [ok : BOOLEAN, graph : Graphs]
           /\ FeltAgain(r, e).graph = h
      BY <1>1, <2>3, <2>10
    <2> QED BY <2>5, <2>8, <2>9, <2>11 DEF Replaying, e
  <1> QED BY <1>1, <1>3, <1>4

\* Nothing heard is silence, and everything heard is the journal.
LEMMA HeardEnds ==
  ASSUME journal \in Seq(Happening)
  PROVE  Heard(0) = Silence /\ Heard(Len(journal)) = [t \in Tokens |-> Signals(journal, t)]
  <1>1. SubSeq(journal, 1, 0) = <<>> /\ SubSeq(journal, 1, Len(journal)) = journal
    <2>1. Len(journal) \in Nat
      OBVIOUS
    <2>2. SubSeq(journal, 1, Len(journal)) \in Seq(Happening)
      BY <2>1
    <2>3. /\ Len(SubSeq(journal, 1, Len(journal))) = Len(journal)
          /\ \A i \in 1..Len(journal) : SubSeq(journal, 1, Len(journal))[i] = journal[i]
      BY <2>1
    <2>4. SubSeq(journal, 1, Len(journal)) = journal
      BY <2>2, <2>3, SameSequence
    <2>5. SubSeq(journal, 1, 0) = <<>>
      OBVIOUS
    <2> QED BY <2>4, <2>5
  <1>2. ASSUME NEW t PROVE Signals(<<>>, t) = <<>>
    <2> DEFINE none == <<>>
               I == {i \in DOMAIN none : none[i].token = t}
               k == Kept(none, I)
    <2>1. none \in Seq(Happening) /\ DOMAIN none = {}
      OBVIOUS
    <2>2. I = {} /\ I \in SUBSET (DOMAIN none)
      BY <2>1
    <2>3. Signals(none, t) = [i \in DOMAIN k |-> k[i].signal]
      BY DEF Signals
    <2> HIDE DEF I, none
    <2>4. k \in Seq(Happening) /\ Len(k) = Cardinality(I)
      BY <2>1, <2>2, KeptIs
    <2>5. Cardinality(I) = 0
      BY <2>2, FS_EmptySet
    <2> HIDE DEF k
    <2>6. DOMAIN k = {}
      BY <2>4, <2>5
    <2>7. Signals(none, t) = [i \in {} |-> k[i].signal]
      BY <2>3, <2>6
    <2>8. [i \in {} |-> k[i].signal] = <<>>
      OBVIOUS
    <2> QED BY <2>7, <2>8 DEF none
  <1> QED BY <1>1, <1>2 DEF Heard, Silence

\* No migration of the graph is of a boundary the ledger has not reached.
Timely(graph) ==
  \A i \in 1..Len(graph.migrations) : graph.migrations[i].boundary <= Len(ledger)

\* A rebuild that succeeds gives a sound graph, with the journal's signals.
LEMMA RebuiltSound ==
  ASSUME ledger \in Seq(Recorded), journal \in Seq(Happening), NEW architecture \in Nat,
         NEW migrations \in Seq(Migration), NEW r, r = RebuiltGraph(architecture, migrations)
  PROVE  /\ r.ok \in BOOLEAN /\ Sound(r.graph)
         /\ r.ok => /\ Felt(r.graph, [t \in Tokens |-> Signals(journal, t)])
                    /\ Timely(r.graph)
  <1> DEFINE n == Len(journal)
             first == Replayed(architecture, migrations)
             V == [ok : BOOLEAN, graph : Graphs]
             Good(k, v) == Replaying(v, architecture, migrations, k)
             T == [k \in 0..n |-> {v \in V : Good(k, v)}]
             step == [p \in (1..n) \X V |-> FeltAgain(p[2], journal[p[1]])]
             Is(a) == a = [k \in 0..n |-> IF k = 0 THEN first
                                          ELSE FeltAgain(a[k - 1], journal[k])]
  <1>0. n \in Nat /\ 0 \in 0..n
    OBVIOUS
  <1>1. first \in T[0]
    <2>1. Underway(first, Silence, architecture, migrations, Len(ledger), Len(migrations))
      BY ReplayedSound
    <2>2. Good(0, first)
      BY <2>1, HeardEnds DEF Underway, Replaying
    <2>3. first \in V
      BY <2>2 DEF Replaying
    <2> HIDE DEF V, Good, n, first
    <2> QED BY <1>0, <2>2, <2>3
  <1> HIDE DEF first
  <1>2. ASSUME NEW k \in 1..n, NEW v \in T[k - 1]
        PROVE  FeltAgain(v, journal[k]) \in T[k]
    <2>0. k - 1 \in 0..n /\ k \in 0..n
      BY <1>0
    <2>1. Good(k - 1, v)
      <3> HIDE DEF n, Good, V
      <3> QED BY <2>0
    <2> HIDE DEF T
    <2>2. Good(k, FeltAgain(v, journal[k]))
      BY <2>1, FeltAgainSound
    <2>3. FeltAgain(v, journal[k]) \in V
      BY <2>2 DEF Replaying
    <2> HIDE DEF n, Good, V
    <2> QED BY <2>0, <2>2, <2>3 DEF T
  <1>3. \A k \in 1..n : \A v \in T[k - 1] : step[<<k, v>>] = FeltAgain(v, journal[k])
    <2>1. ASSUME NEW k \in 1..n, NEW v \in T[k - 1] PROVE v \in V
      <3>1. k - 1 \in 0..n
        BY <1>0
      <3> HIDE DEF Good, V, n
      <3> QED BY <3>1
    <2> HIDE DEF T, V, n
    <2> QED BY <2>1
  <1> HIDE DEF T, step
  <1>5. \E a : Is(a)
    <2>1. \A k \in 1..n : \A v \in T[k - 1] : step[<<k, v>>] \in T[k]
      BY <1>2, <1>3
    <2>2. PICK a : Iterates(a, n, T, first, step)
      <3> HIDE DEF n
      <3> QED BY <1>0, <1>1, <2>1, Recursion DEF Leads
    <2>3. \A k \in 1..n : a[k] = FeltAgain(a[k - 1], journal[k])
      <3>0. \A k \in 1..n : k - 1 \in 0..n
        BY <1>0
      <3>1. \A k \in 1..n : a[k - 1] \in T[k - 1]
        BY <3>0, <2>2 DEF Iterates
      <3> HIDE DEF n
      <3> QED BY <1>3, <2>2, <3>1 DEF Iterates
    <2>4. \A k \in 0..n : a[k] = IF k = 0 THEN first ELSE FeltAgain(a[k - 1], journal[k])
      <3>1. a[0] = first
        BY <2>2 DEF Iterates
      <3>2. \A k \in 0..n : k # 0 => k \in 1..n
        BY <1>0
      <3> HIDE DEF n
      <3> QED BY <2>3, <3>1, <3>2
    <2>5. Is(a)
      <3> HIDE DEF n
      <3> QED BY <2>2, <2>4 DEF Iterates
    <2> QED BY <2>5
  <1>6. PICK a : Is(a) /\ r = a[n]
    <2>1. r = (CHOOSE a : Is(a))[n]
      BY Zenon DEF RebuiltGraph, first
    <2> HIDE DEF Is
    <2> QED BY <1>5, <2>1
  <1> HIDE DEF n
  <1>7. a[0] = first /\ \A k \in 1..n : a[k] = FeltAgain(a[k - 1], journal[k])
    BY <1>0, <1>6
  <1>8. \A k \in 0..n : a[k] \in T[k]
    <2>1. a[0] \in T[0]
      BY <1>1, <1>7
    <2>2. \A k \in 1..n : a[k - 1] \in T[k - 1] => a[k] \in T[k]
      BY <1>2, <1>7
    <2> QED BY <1>0, <2>1, <2>2, Passes
  <1>9. a[n] \in T[n] /\ n \in 0..n
    BY <1>0, <1>8
  <1>10. Replaying(r, architecture, migrations, n)
    <2> HIDE DEF V, Good
    <2>1. Good(n, a[n])
      BY <1>0, <1>9 DEF T
    <2> QED BY <1>6, <2>1 DEF Good
  <1>11. ASSUME r.ok PROVE Timely(r.graph)
    <2>1. PICK p : Reach(r.graph, architecture, migrations, Len(ledger), Len(migrations), p)
      BY <1>10, <1>11 DEF Replaying
    <2>2. ASSUME NEW i \in 1..Len(r.graph.migrations)
          PROVE  r.graph.migrations[i].boundary <= Len(ledger)
      <3>1. i \in 1..p /\ i <= p /\ i \in 1..Len(migrations)
        BY <2>1 DEF Reach
      <3>2. migrations[i] \in Migration
        BY <3>1
      <3>3. migrations[i].boundary \in Nat /\ Len(ledger) \in Nat
        BY <3>2, SMTT(40) DEF Migration
      <3>4. migrations[i].boundary < Len(ledger) \/ migrations[i].boundary = Len(ledger)
        BY <2>1, <3>1 DEF Reach
      <3>5. r.graph.migrations[i] = migrations[i]
        BY <2>1, <3>1 DEF Reach
      <3> QED BY <3>3, <3>4, <3>5
    <2> QED BY <2>2 DEF Timely
  <1>12. r.ok \in BOOLEAN /\ Sound(r.graph) /\ (r.ok => Felt(r.graph, Heard(n)))
    BY <1>10 DEF Replaying
  <1> QED BY <1>11, <1>12, HeardEnds DEF n

---------------------------------------------------------------------------
(* A snapshot that was written is read back. *)

LEMMA SomeGraph ==
  ASSUME NEW graph \in Graphs
  PROVE  graph # NoGraph
  <1>1. "nodes" \in DOMAIN graph
    BY DEF Graphs
  <1>2. DOMAIN NoGraph = {}
    BY DEF NoGraph
  <1> QED BY <1>1, <1>2

\* A snapshot read so far.
Reading(graph, seen) == [ok |-> TRUE, graph |-> graph, seen |-> seen]

LEMMA ReadingIs ==
  ASSUME NEW graph, NEW seen, NEW r, r = Reading(graph, seen)
  PROVE  r.ok /\ r.graph = graph /\ r.seen = seen
  BY DEF Reading

LEMMA ReadNodes ==
  ASSUME NEW v, NEW a \in Graphs, NEW seen, "nodes" \notin seen, NEW body,
         NEW s, s = Section("nodes", body)
  PROVE  decode_section(v, Reading(a, seen), s)
           = Reading([a EXCEPT !.nodes = body], seen \cup {"nodes"})
  <1>1. s.tag = "nodes" /\ s.body = body
    BY DEF Section
  <1>2. PICK r : r = Reading(a, seen)
    OBVIOUS
  <1>3. r.ok /\ r.graph = a /\ r.seen = seen /\ a # NoGraph
    BY <1>2, ReadingIs, SomeGraph
  <1> QED BY <1>1, <1>2, <1>3 DEF decode_section, Reading

LEMMA ReadEdges ==
  ASSUME NEW v, NEW a \in Graphs, NEW seen, "edges" \notin seen, NEW body,
         decode_edges(a, body), NEW s, s = Section("edges", body)
  PROVE  decode_section(v, Reading(a, seen), s)
           = Reading([a EXCEPT !.edges = body], seen \cup {"edges"})
  <1>1. s.tag = "edges" /\ s.body = body
    BY DEF Section
  <1>2. PICK r : r = Reading(a, seen)
    OBVIOUS
  <1>3. r.ok /\ r.graph = a /\ r.seen = seen /\ a # NoGraph
    BY <1>2, ReadingIs, SomeGraph
  <1> QED BY <1>1, <1>2, <1>3 DEF decode_section, Reading

LEMMA ReadLedger ==
  ASSUME NEW v, NEW a \in Graphs, NEW seen, "ledger" \notin seen, NEW body,
         NEW s, s = Section("ledger", body)
  PROVE  decode_section(v, Reading(a, seen), s)
           = Reading([a EXCEPT !.mirror = body], seen \cup {"ledger"})
  <1>1. s.tag = "ledger" /\ s.body = body
    BY DEF Section
  <1>2. PICK r : r = Reading(a, seen)
    OBVIOUS
  <1>3. r.ok /\ r.graph = a /\ r.seen = seen /\ a # NoGraph
    BY <1>2, ReadingIs, SomeGraph
  <1> QED BY <1>1, <1>2, <1>3 DEF decode_section, Reading

\* A graph whose context rows the loader's size check lets through.
Roomy(graph) == HasRoom(ContextBody(graph))

\* What a reader is left with once it has passed that check or failed it.
Passed(graph, reading) == IF Roomy(graph) THEN reading ELSE Failure

LEMMA ReadContext ==
  ASSUME NEW v, NEW a \in Graphs, NEW seen, "context" \notin seen, "ledger" \in seen,
         NEW graph, graph.mirror = a.mirror,
         NEW s, s = Section("context", ContextBody(graph))
  PROVE  decode_section(v, Reading(a, seen), s)
           = Passed(graph, Reading(a, seen \cup {"context"}))
  <1>0. PICK body : body = ContextBody(graph)
    OBVIOUS
  <1>1. s.tag = "context" /\ s.body = body /\ body.rows = a.mirror
        /\ (Roomy(graph) <=> HasRoom(body))
    BY <1>0 DEF Section, ContextBody, Roomy
  <1>2. PICK r : r = Reading(a, seen)
    OBVIOUS
  <1>3. r.ok /\ r.graph = a /\ r.seen = seen /\ a # NoGraph
    BY <1>2, ReadingIs, SomeGraph
  <1>4. Len(a.mirror) <= Len(a.mirror)
    <2>1. a.mirror \in Seq(Nat)
      BY DEF Graphs
    <2>2. Len(a.mirror) \in Nat
      BY <2>1
    <2> QED BY <2>2
  <1>5. CASE Roomy(graph)
    <2>1. HasRoom(body)
      BY <1>1, <1>5
    <2> QED BY <1>1, <1>2, <1>3, <1>4, <1>5, <2>1 DEF decode_section, Reading, Passed
  <1>6. CASE ~Roomy(graph)
    <2>1. ~HasRoom(body)
      BY <1>1, <1>6
    <2> QED BY <1>1, <1>2, <1>3, <1>6, <2>1 DEF decode_section, Passed
  <1> QED BY <1>5, <1>6

\* A reader that failed reads nothing more.
LEMMA FailedStays ==
  ASSUME NEW v, NEW s
  PROVE  decode_section(v, Failure, s) = Failure
  <1>1. ~Failure.ok
    BY DEF Failure
  <1> QED BY <1>1 DEF decode_section

LEMMA ReadEpisodes ==
  ASSUME NEW v, NEW a \in Graphs, NEW seen, "episodes" \notin seen, NEW body,
         decode_episodes(a, body), NEW s, s = Section("episodes", body)
  PROVE  decode_section(v, Reading(a, seen), s)
           = Reading([a EXCEPT !.episodes = body], seen \cup {"episodes"})
  <1>1. s.tag = "episodes" /\ s.body = body
    BY DEF Section
  <1>2. PICK r : r = Reading(a, seen)
    OBVIOUS
  <1>3. r.ok /\ r.graph = a /\ r.seen = seen /\ a # NoGraph
    BY <1>2, ReadingIs, SomeGraph
  <1> QED BY <1>1, <1>2, <1>3 DEF decode_section, Reading

WithValence(a, body) == [a EXCEPT !.valence = body.records, !.log = body.log]

LEMMA ReadValence ==
  ASSUME NEW v, NEW a \in Graphs, NEW seen, "valence" \notin seen, "nodes" \in seen,
         NEW body, decode_valence(a, body), NEW s, s = Section("valence", body)
  PROVE  decode_section(v, Reading(a, seen), s)
           = Reading(WithValence(a, body), seen \cup {"valence"})
  <1>1. s.tag = "valence" /\ s.body = body
    BY DEF Section
  <1>2. PICK r : r = Reading(a, seen)
    OBVIOUS
  <1>3. r.ok /\ r.graph = a /\ r.seen = seen /\ a # NoGraph
    BY <1>2, ReadingIs, SomeGraph
  <1> QED BY <1>1, <1>2, <1>3 DEF decode_section, Reading, WithValence

LEMMA ReadSchema ==
  ASSUME NEW v, NEW a \in Graphs, NEW seen, "schema" \notin seen,
         NEW s, s = Section("schema", Schema)
  PROVE  decode_section(v, Reading(a, seen), s) = Reading(a, seen \cup {"schema"})
  <1>1. s.tag = "schema" /\ s.body \in {1, 2}
    BY DEF Section, Schema
  <1>2. PICK r : r = Reading(a, seen)
    OBVIOUS
  <1>3. r.ok /\ r.graph = a /\ r.seen = seen /\ a # NoGraph
    BY <1>2, ReadingIs, SomeGraph
  <1> QED BY <1>1, <1>2, <1>3 DEF decode_section, Reading

LEMMA ReadNetwork ==
  ASSUME NEW v, NEW a \in Graphs, NEW seen, "network" \notin seen,
         NEW s, s = Section("network", a.architecture)
  PROVE  decode_section(v, Reading(a, seen), s) = Reading(a, seen \cup {"network"})
  <1>1. s.tag = "network" /\ s.body = a.architecture
    BY DEF Section
  <1>2. PICK r : r = Reading(a, seen)
    OBVIOUS
  <1>3. r.ok /\ r.graph = a /\ r.seen = seen /\ a # NoGraph
    BY <1>2, ReadingIs, SomeGraph
  <1> QED BY <1>1, <1>2, <1>3 DEF decode_section, Reading

NetworkOf(a, seen, s) ==
  a \in Graphs /\ "network" \notin seen /\ s = Section("network", a.architecture)

LEMMA NetworkRead ==
  ASSUME NEW v, NEW a, NEW seen, NEW s, NetworkOf(a, seen, s)
  PROVE  decode_section(v, Reading(a, seen), s) = Reading(a, seen \cup {"network"})
  BY ReadNetwork DEF NetworkOf

LEMMA ReadMigrations ==
  ASSUME NEW a \in Graphs, NEW seen, "migrations" \notin seen, "network" \notin seen,
         NEW body, decode_migrations(a, body), NEW s, s = Section("migrations", body)
  PROVE  decode_section(7, Reading(a, seen), s)
           = Reading([a EXCEPT !.migrations = body], seen \cup {"migrations"})
  <1>1. s.tag = "migrations" /\ s.body = body
    BY DEF Section
  <1>2. PICK r : r = Reading(a, seen)
    OBVIOUS
  <1>3. r.ok /\ r.graph = a /\ r.seen = seen /\ a # NoGraph
    BY <1>2, ReadingIs, SomeGraph
  <1> QED BY <1>1, <1>2, <1>3 DEF decode_section, Reading

LEMMA ReadHeader ==
  ASSUME NEW v \in {5, 6, 7}, NEW body, NEW s, s = Section("header", body)
  PROVE  decode_section(v, Reading(NoGraph, {}), s)
           = Reading(IF v = 5 THEN EmptyGraph(Legacy) ELSE NoGraph, {"header"})
  <1>1. s.tag = "header" /\ s.body = body
    BY DEF Section
  <1>2. PICK r : r = Reading(NoGraph, {})
    OBVIOUS
  <1>3. r.ok /\ r.graph = NoGraph /\ r.seen = {}
    BY <1>2, ReadingIs
  <1> QED BY <1>1, <1>2, <1>3 DEF decode_section, Reading

LEMMA ReadArch ==
  ASSUME NEW v \in {6, 7}, NEW body, NEW s, s = Section("arch", body)
  PROVE  decode_section(v, Reading(NoGraph, {"header"}), s)
           = Reading(EmptyGraph(body), {"header", "arch"})
  <1>1. s.tag = "arch" /\ s.body = body
    BY DEF Section
  <1>2. PICK r : r = Reading(NoGraph, {"header"})
    OBVIOUS
  <1>3. r.ok /\ r.graph = NoGraph /\ r.seen = {"header"} /\ v > 5
    BY <1>2, ReadingIs
  <1>4. {"header"} \cup {"arch"} = {"header", "arch"}
    OBVIOUS
  <1> QED BY <1>1, <1>2, <1>3, <1>4 DEF decode_section, Reading

\* What learning left in a graph is read from its seven sections.
Learned == {"nodes", "edges", "ledger", "context", "episodes", "valence", "schema"}

SameLearning(a, b) ==
  /\ b.nodes = a.nodes /\ b.edges = a.edges /\ b.mirror = a.mirror
  /\ b.episodes = a.episodes /\ b.valence = a.valence /\ b.log = a.log

\* The reader's states at the seven sections.
ReadStates(l, v, graph, first) ==
  /\ l[0] = first
  /\ \A j \in 1..7 : l[j] = decode_section(v, l[j - 1], LearnedSections(graph)[j])

\* A graph passes its own reader's checks.
LEMMA StoredDecodes ==
  ASSUME NEW graph, Stored(graph), NEW a, a.nodes = graph.nodes
  PROVE  /\ decode_edges(a, graph.edges) /\ decode_episodes(a, graph.episodes)
         /\ decode_valence(a, [records |-> graph.valence, log |-> graph.log])
  <1> DEFINE m == Len(graph.nodes)
  <1>1. /\ graph.nodes \in Seq(Node) /\ graph.edges \in Seq(Edge)
        /\ graph.episodes \in Seq(Episode) /\ graph.valence \in Seq(Feeling)
        /\ graph.log \in Seq(Nat)
    BY DEF Stored, Graphs
  <1>2. DOMAIN a.nodes = 1..m /\ m \in Nat
    BY <1>1
  <1> HIDE DEF m
  <1>3. decode_edges(a, graph.edges)
    <2>1. EdgesSound(m, graph.edges)
      BY DEF Stored, m
    <2>2. DOMAIN graph.edges = 1..Len(graph.edges)
      BY <1>1
    <2> QED BY <1>2, <2>1, <2>2 DEF decode_edges, EdgesSound
  <1>4. decode_episodes(a, graph.episodes)
    <2>1. EpisodesSound(m, graph.episodes)
      BY DEF Stored, m
    <2>2. DOMAIN graph.episodes = 1..Len(graph.episodes)
      BY <1>1
    <2>3. ASSUME NEW i \in DOMAIN graph.episodes
          PROVE  /\ Len(graph.episodes[i].summary) <= SummarySize
                 /\ ToSet(SummaryNodes(graph.episodes[i])) \subseteq DOMAIN a.nodes
      <3>1. PICK e \in Episode : e = graph.episodes[i]
        BY <1>1
      <3>2. SummarySound(m, e.summary)
        BY <2>1, <2>2, <3>1 DEF EpisodesSound
      <3>3. /\ SummaryNodes(e) \in Seq(Nat) /\ Len(SummaryNodes(e)) = Len(e.summary)
            /\ \A k \in 1..Len(e.summary) : SummaryNodes(e)[k] = e.summary[k].node
        BY SummaryNodesAre
      <3>4. DOMAIN SummaryNodes(e) = 1..Len(e.summary)
        BY <3>3
      <3>5. ToSet(SummaryNodes(e)) \subseteq 1..m
        BY <3>2, <3>3, <3>4 DEF ToSet, SummarySound
      <3> QED BY <1>2, <3>1, <3>2, <3>5 DEF SummarySound
    <2> QED BY <2>3 DEF decode_episodes
  <1>5. decode_valence(a, [records |-> graph.valence, log |-> graph.log])
    <2>1. ValenceSound(m, graph.valence, graph.log)
      BY DEF Stored, m
    <2>2. DOMAIN graph.valence = 1..Len(graph.valence) /\ DOMAIN graph.log = 1..Len(graph.log)
          /\ Len(graph.valence) \in Nat
      BY <1>1
    <2>3. PICK body : body = [records |-> graph.valence, log |-> graph.log]
      OBVIOUS
    <2>4. body.records = graph.valence /\ body.log = graph.log
      BY <2>3
    <2>5. ASSUME NEW i \in 1..Len(graph.valence)
          PROVE  /\ graph.valence[i].node \in 1..m /\ graph.valence[i].signals # <<>>
                 /\ i > 1 => graph.valence[i - 1].node < graph.valence[i].node
      <3>1. graph.valence[i].node \in 1..m /\ graph.valence[i].signals # <<>>
        BY <2>1 DEF ValenceSound
      <3>2. ASSUME i > 1 PROVE graph.valence[i - 1].node < graph.valence[i].node
        <4>1. i - 1 \in 1..Len(graph.valence) /\ i - 1 < i
          BY <2>2, <3>2
        <4> QED BY <2>1, <4>1 DEF ValenceSound
      <3> QED BY <3>1, <3>2
    <2>6. Len(graph.log) <= EventCapacity /\ ToSet(graph.log) \subseteq 1..m
      BY <2>1, <2>2 DEF ValenceSound, ToSet
    <2> QED BY <1>2, <2>2, <2>3, <2>4, <2>5, <2>6 DEF decode_valence
  <1> QED BY <1>3, <1>4, <1>5

LEMMA LearnedIs ==
  ASSUME NEW graph
  PROVE  LET s == LearnedSections(graph)
         IN /\ Len(s) = 7 /\ s[1] = Section("nodes", graph.nodes)
            /\ s[2] = Section("edges", graph.edges) /\ s[3] = Section("ledger", graph.mirror)
            /\ s[4] = Section("context", ContextBody(graph))
            /\ s[5] = Section("episodes", graph.episodes)
            /\ s[6] = Section("valence", [records |-> graph.valence, log |-> graph.log])
            /\ s[7] = Section("schema", Schema)
  BY DEF LearnedSections

LEMMA LearnedRead ==
  ASSUME NEW v, NEW graph, Stored(graph), NEW a \in Graphs, NEW seen, seen \cap Learned = {}
  PROVE  \E l, b : /\ ReadStates(l, v, graph, Reading(a, seen))
                   /\ l[7] = Passed(graph, Reading(b, seen \cup Learned))
                   /\ b \in Graphs /\ SameLearning(graph, b)
                   /\ b.architecture = a.architecture /\ b.migrations = a.migrations
  <1>0. /\ graph.nodes \in Seq(Node) /\ graph.edges \in Seq(Edge) /\ graph.mirror \in Seq(Nat)
        /\ graph.episodes \in Seq(Episode) /\ graph.valence \in Seq(Feeling)
        /\ graph.log \in Seq(Nat)
    BY DEF Stored, Graphs
  <1>s. PICK s : s = LearnedSections(graph)
    OBVIOUS
  <1>u. /\ s[1] = Section("nodes", graph.nodes)
        /\ s[2] = Section("edges", graph.edges) /\ s[3] = Section("ledger", graph.mirror)
        /\ s[4] = Section("context", ContextBody(graph))
        /\ s[5] = Section("episodes", graph.episodes)
        /\ s[6] = Section("valence", [records |-> graph.valence, log |-> graph.log])
        /\ s[7] = Section("schema", Schema)
    BY <1>s, LearnedIs
  <1>t. /\ "nodes" \notin seen /\ "edges" \notin seen /\ "ledger" \notin seen
        /\ "context" \notin seen /\ "episodes" \notin seen /\ "valence" \notin seen
        /\ "schema" \notin seen
    BY DEF Learned
  <1>1. PICK a1 : a1 = [a EXCEPT !.nodes = graph.nodes]
    OBVIOUS
  <1>2. a1 \in Graphs /\ a1.nodes = graph.nodes /\ a1.architecture = a.architecture
        /\ a1.migrations = a.migrations
    BY <1>0, <1>1 DEF Graphs
  <1>3. PICK a2 : a2 = [a1 EXCEPT !.edges = graph.edges]
    OBVIOUS
  <1>4. a2 \in Graphs /\ a2.nodes = graph.nodes /\ a2.edges = graph.edges
        /\ a2.architecture = a.architecture /\ a2.migrations = a.migrations
    BY <1>0, <1>2, <1>3 DEF Graphs
  <1>5. PICK a3 : a3 = [a2 EXCEPT !.mirror = graph.mirror]
    OBVIOUS
  <1>6. a3 \in Graphs /\ a3.nodes = graph.nodes /\ a3.edges = graph.edges
        /\ a3.mirror = graph.mirror
        /\ a3.architecture = a.architecture /\ a3.migrations = a.migrations
    BY <1>0, <1>4, <1>5 DEF Graphs
  <1>7. PICK a4 : a4 = [a3 EXCEPT !.episodes = graph.episodes]
    OBVIOUS
  <1>8. a4 \in Graphs /\ a4.nodes = graph.nodes /\ a4.edges = graph.edges
        /\ a4.mirror = graph.mirror /\ a4.episodes = graph.episodes
        /\ a4.architecture = a.architecture /\ a4.migrations = a.migrations
    BY <1>0, <1>6, <1>7 DEF Graphs
  <1>9. PICK a5 : a5 = [a4 EXCEPT !.valence = graph.valence, !.log = graph.log]
    OBVIOUS
  <1>10. a5 \in Graphs /\ SameLearning(graph, a5)
         /\ a5.architecture = a.architecture /\ a5.migrations = a.migrations
    BY <1>0, <1>8, <1>9 DEF Graphs, SameLearning
  <1> DEFINE q0 == Reading(a, seen)
             q1 == Reading(a1, seen \cup {"nodes"})
             q2 == Reading(a2, seen \cup {"nodes"} \cup {"edges"})
             q3 == Reading(a3, seen \cup {"nodes"} \cup {"edges"} \cup {"ledger"})
             p4 == Reading(a3, seen \cup {"nodes"} \cup {"edges"} \cup {"ledger"} \cup {"context"})
             p5 == Reading(a4, seen \cup {"nodes"} \cup {"edges"} \cup {"ledger"} \cup {"context"}
                               \cup {"episodes"})
             p6 == Reading(a5, seen \cup {"nodes"} \cup {"edges"} \cup {"ledger"} \cup {"context"}
                               \cup {"episodes"} \cup {"valence"})
             p7 == Reading(a5, seen \cup {"nodes"} \cup {"edges"} \cup {"ledger"} \cup {"context"}
                               \cup {"episodes"} \cup {"valence"} \cup {"schema"})
             q4 == Passed(graph, p4)
             q5 == Passed(graph, p5)
             q6 == Passed(graph, p6)
             q7 == Passed(graph, p7)
  <1>11. q1 = decode_section(v, q0, s[1])
    BY <1>1, <1>t, <1>u, ReadNodes
  <1>12. q2 = decode_section(v, q1, s[2])
    <2>1. decode_edges(a1, graph.edges)
      BY <1>2, StoredDecodes
    <2> QED BY <1>2, <1>3, <1>t, <1>u, <2>1, ReadEdges
  <1>13. q3 = decode_section(v, q2, s[3])
    BY <1>4, <1>5, <1>t, <1>u, ReadLedger
  <1>14. q4 = decode_section(v, q3, s[4])
    BY <1>6, <1>t, <1>u, ReadContext
  <1>15. p5 = decode_section(v, p4, s[5])
    <2>1. decode_episodes(a3, graph.episodes)
      BY <1>6, StoredDecodes
    <2> QED BY <1>6, <1>7, <1>t, <1>u, <2>1, ReadEpisodes
  <1>16. p6 = decode_section(v, p5, s[6])
    <2>1. PICK body : body = [records |-> graph.valence, log |-> graph.log]
      OBVIOUS
    <2>2. body.records = graph.valence /\ body.log = graph.log
      BY <2>1
    <2>3. decode_valence(a4, body) /\ s[6] = Section("valence", body)
      BY <1>8, <1>u, <2>1, StoredDecodes
    <2>4. a5 = WithValence(a4, body)
      BY <1>9, <2>2 DEF WithValence
    <2>5. PICK known : known = seen \cup {"nodes"} \cup {"edges"} \cup {"ledger"}
                                   \cup {"context"} \cup {"episodes"}
      OBVIOUS
    <2>6. "valence" \notin known /\ "nodes" \in known
      BY <1>t, <2>5
    <2>7. decode_section(v, Reading(a4, known), s[6])
            = Reading(WithValence(a4, body), known \cup {"valence"})
      BY <1>8, <2>3, <2>6, ReadValence
    <2>8. p5 = Reading(a4, known) /\ p6 = Reading(a5, known \cup {"valence"})
      BY <2>5
    <2> HIDE DEF p5, p6
    <2> QED BY <2>4, <2>7, <2>8
  <1>17. p7 = decode_section(v, p6, s[7])
    BY <1>10, <1>t, <1>u, ReadSchema
  <1>p. /\ q5 = decode_section(v, q4, s[5]) /\ q6 = decode_section(v, q5, s[6])
        /\ q7 = decode_section(v, q6, s[7])
    <2> HIDE DEF p4, p5, p6, p7
    <2>1. CASE Roomy(graph)
      <3>1. q4 = p4 /\ q5 = p5 /\ q6 = p6 /\ q7 = p7
        BY <2>1 DEF Passed
      <3> QED BY <1>15, <1>16, <1>17, <3>1
    <2>2. CASE ~Roomy(graph)
      <3>1. q4 = Failure /\ q5 = Failure /\ q6 = Failure /\ q7 = Failure
        BY <2>2 DEF Passed
      <3> QED BY <3>1, FailedStays
    <2> QED BY <2>1, <2>2
  <1>18. q7 = Passed(graph, Reading(a5, seen \cup Learned))
    <2>1. seen \cup {"nodes"} \cup {"edges"} \cup {"ledger"} \cup {"context"}
            \cup {"episodes"} \cup {"valence"} \cup {"schema"} = seen \cup Learned
      BY DEF Learned
    <2> QED BY <2>1
  <1> HIDE DEF q0, q1, q2, q3, q4, q5, q6, q7
  <1> DEFINE l == [j \in 0..7 |-> CASE j = 0 -> q0 [] j = 1 -> q1 [] j = 2 -> q2 [] j = 3 -> q3
                                    [] j = 4 -> q4 [] j = 5 -> q5 [] j = 6 -> q6 [] OTHER -> q7]
  <1>19. /\ l[0] = q0 /\ l[1] = q1 /\ l[2] = q2 /\ l[3] = q3
         /\ l[4] = q4 /\ l[5] = q5 /\ l[6] = q6 /\ l[7] = q7
    OBVIOUS
  <1> HIDE DEF l
  <1>20. ASSUME NEW j \in 1..7 PROVE l[j] = decode_section(v, l[j - 1], s[j])
    <2>1. \/ (j = 1 /\ j - 1 = 0)
          \/ (j = 2 /\ j - 1 = 1)
          \/ (j = 3 /\ j - 1 = 2)
          \/ (j = 4 /\ j - 1 = 3)
          \/ (j = 5 /\ j - 1 = 4)
          \/ (j = 6 /\ j - 1 = 5)
          \/ (j = 7 /\ j - 1 = 6)
      OBVIOUS
    <2> QED BY <1>11, <1>12, <1>13, <1>14, <1>p, <1>19, <2>1, Zenon
  <1>21. ReadStates(l, v, graph, Reading(a, seen))
    BY <1>19, <1>20, <1>s DEF ReadStates, q0
  <1> QED BY <1>10, <1>18, <1>19, <1>21

\* The reader is at these states as it goes through the sections.
Read(a, image) ==
  /\ a[0] = Reading(NoGraph, {})
  /\ \A k \in 1..Len(image.sections) :
       a[k] = decode_section(image.version, a[k - 1], image.sections[k])

LEMMA DecodeIs ==
  ASSUME NEW image, Len(image.sections) \in Nat, NEW a, Read(a, image)
  PROVE  Decode(image) = load_finish(image.version, a[Len(image.sections)])
  <1> DEFINE n == Len(image.sections)
             v == image.version
             Is(f) == f = [k \in 0..n |->
                             IF k = 0 THEN [ok |-> TRUE, graph |-> NoGraph, seen |-> {}]
                             ELSE decode_section(image.version, f[k - 1], image.sections[k])]
             first == Reading(NoGraph, {})
  <1>1. first = [ok |-> TRUE, graph |-> NoGraph, seen |-> {}]
    BY DEF Reading
  <1> DEFINE whole == [k \in 0..n |-> a[k]]
  <1>2. n \in Nat /\ 0 \in 0..n /\ n \in 0..n
    OBVIOUS
  <1>3. a[0] = first /\ \A k \in 1..n : a[k] = decode_section(v, a[k - 1], image.sections[k])
    BY DEF Read
  <1>4. Decode(image) = load_finish(v, (CHOOSE f : Is(f))[n])
    BY DEF Decode
  <1>5. Is(whole)
    <2>1. \A k \in 0..n : k # 0 => k \in 1..n /\ k - 1 \in 0..n
      BY <1>2
    <2> HIDE DEF n, first, v
    <2>2. \A k \in 0..n : whole[k] = a[k]
      OBVIOUS
    <2> HIDE DEF whole
    <2>3. \A k \in 0..n : whole[k] = IF k = 0 THEN first
                                     ELSE decode_section(v, whole[k - 1], image.sections[k])
      BY <1>3, <2>1, <2>2
    <2>4. whole = [k \in 0..n |-> IF k = 0 THEN first
                                  ELSE decode_section(v, whole[k - 1], image.sections[k])]
      BY <2>3 DEF whole
    <2> QED BY <1>1, <2>4 DEF v
  <1> HIDE DEF whole
  <1>6. PICK f : Is(f) /\ Decode(image) = load_finish(v, f[n])
    <2> HIDE DEF Is, v, n
    <2> QED BY <1>4, <1>5
  <1>7. f[0] = first /\ \A k \in 1..n : f[k] = decode_section(v, f[k - 1], image.sections[k])
    <2>1. \A k \in 0..n : f[k] = IF k = 0 THEN [ok |-> TRUE, graph |-> NoGraph, seen |-> {}]
                                 ELSE decode_section(v, f[k - 1], image.sections[k])
      BY <1>6
    <2>2. \A k \in 1..n : k \in 0..n /\ k # 0
      BY <1>2
    <2> HIDE DEF n, v, first, Is
    <2> QED BY <1>1, <1>2, <2>1, <2>2
  <1> DEFINE P == {k \in 0..n : f[k] = a[k]}
  <1>8. 0 \in P
    <2> HIDE DEF n, first
    <2> QED BY <1>2, <1>3, <1>7
  <1>9. \A k \in 1..n : k - 1 \in P => k \in P
    <2>1. \A k \in 1..n : k \in 0..n
      BY <1>2
    <2> HIDE DEF n, first, v
    <2> QED BY <1>3, <1>7, <2>1
  <1>10. n \in P
    <2> HIDE DEF n, P
    <2> QED BY <1>2, <1>8, <1>9, Upwards
  <1>11. f[n] = a[n]
    <2> HIDE DEF n
    <2> QED BY <1>10
  <1> HIDE DEF Is, first, P
  <1> QED BY <1>6, <1>11

\* The sections before those of learning.
ReadHead(f, v, head, n) ==
  f[0] = Reading(NoGraph, {}) /\ \A j \in 1..n : f[j] = decode_section(v, f[j - 1], head[j])

LEMMA Joined ==
  ASSUME NEW S, NEW s \in Seq(S), NEW t \in Seq(S)
  PROVE  /\ s \o t \in Seq(S) /\ Len(s \o t) = Len(s) + Len(t)
         /\ \A i \in 1..Len(s) : (s \o t)[i] = s[i]
         /\ \A i \in 1..Len(t) : (s \o t)[Len(s) + i] = t[i]
  OBVIOUS

\* A snapshot whose first sections the reader accepts.
Opened(image, v, S, head, graph, f, a, seen) ==
  /\ head \in Seq(S) /\ LearnedSections(graph) \in Seq(S)
  /\ image.version = v /\ image.sections = head \o LearnedSections(graph)
  /\ ReadHead(f, v, head, Len(head))
  /\ a \in Graphs /\ f[Len(head)] = Reading(a, seen) /\ seen \cap Learned = {}

\* It is read to the end, with what learning left.
Ends(graph, image, v, a, seen) ==
  \E b : /\ b \in Graphs /\ SameLearning(graph, b)
         /\ b.architecture = a.architecture /\ b.migrations = a.migrations
         /\ Decode(image) = load_finish(v, Passed(graph, Reading(b, seen \cup Learned)))

LEMMA WholeRead ==
  ASSUME NEW graph, Stored(graph), NEW image, NEW v, NEW S, NEW head, NEW f, NEW a, NEW seen,
         Opened(image, v, S, head, graph, f, a, seen)
  PROVE  Ends(graph, image, v, a, seen)
  <1>1. PICK l, b : /\ ReadStates(l, v, graph, Reading(a, seen))
                    /\ l[7] = Passed(graph, Reading(b, seen \cup Learned))
                    /\ b \in Graphs /\ SameLearning(graph, b)
                    /\ b.architecture = a.architecture /\ b.migrations = a.migrations
    BY LearnedRead, ZenonT(60) DEF Opened
  <1>h. head \in Seq(S) /\ image.sections = head \o LearnedSections(graph)
        /\ image.version = v /\ ReadHead(f, v, head, Len(head))
        /\ f[Len(head)] = Reading(a, seen)
    BY DEF Opened
  <1>s. PICK s \in Seq(S) : s = LearnedSections(graph)
    BY DEF Opened
  <1>t. PICK t : t = image.sections
    OBVIOUS
  <1>2. PICK n \in Nat : n = Len(head)
    BY <1>h
  <1>3. Len(s) = 7
    BY <1>s, LearnedIs
  <1>4. /\ Len(t) = n + 7 /\ \A i \in 1..n : t[i] = head[i]
        /\ \A i \in 1..7 : t[n + i] = s[i]
    <2>1. t = head \o s
      BY <1>h, <1>s, <1>t
    <2>2. /\ Len(head \o s) = Len(head) + Len(s)
          /\ \A i \in 1..Len(head) : (head \o s)[i] = head[i]
          /\ \A i \in 1..Len(s) : (head \o s)[Len(head) + i] = s[i]
      BY <1>h, <1>s, Joined
    <2>3. /\ Len(t) = Len(head) + Len(s)
          /\ \A i \in 1..Len(head) : t[i] = head[i]
          /\ \A i \in 1..Len(s) : t[Len(head) + i] = s[i]
      BY <2>1, <2>2, Zenon
    <2> QED BY <1>2, <1>3, <2>3
  <1> DEFINE c == [k \in 0..(n + 7) |-> IF k <= n THEN f[k] ELSE l[k - n]]
  <1>5. /\ \A k \in 0..n : c[k] = f[k]
        /\ \A k \in 0..7 : c[n + k] = l[k]
    <2>1. \A k \in 0..n : k \in 0..(n + 7) /\ k <= n
      BY <1>2
    <2>2. \A k \in 0..n : c[k] = f[k]
      BY <2>1
    <2>3. ASSUME NEW k \in 0..7 PROVE c[n + k] = l[k]
      <3>1. CASE k = 0
        <4>1. c[n] = f[n] /\ n + k = n
          BY <1>2, <2>2, <3>1
        <4>2. l[0] = Reading(a, seen)
          BY <1>1 DEF ReadStates
        <4> HIDE DEF c
        <4> QED BY <1>2, <1>h, <3>1, <4>1, <4>2
      <3>2. CASE k # 0
        <4>1. n + k \in 0..(n + 7) /\ ~(n + k <= n) /\ n + k - n = k
          BY <1>2, <3>2
        <4> QED BY <4>1
      <3> QED BY <3>1, <3>2
    <2> QED BY <2>2, <2>3
  <1> HIDE DEF c
  <1>6. Read(c, image)
    <2>1. c[0] = Reading(NoGraph, {})
      BY <1>2, <1>5, <1>h DEF ReadHead
    <2>2. ASSUME NEW k \in 1..(n + 7)
          PROVE  c[k] = decode_section(v, c[k - 1], t[k])
      <3>1. CASE k <= n
        <4>1. k \in 1..n /\ k \in 0..n /\ k - 1 \in 0..n
          BY <1>2, <3>1
        <4>2. f[k] = decode_section(v, f[k - 1], head[k])
          BY <1>2, <1>h, <4>1 DEF ReadHead
        <4> QED BY <1>4, <1>5, <4>1, <4>2
      <3>2. CASE ~(k <= n)
        <4>1. PICK j \in 1..7 : k = n + j
          <5>1. k - n \in 1..7 /\ k = n + (k - n)
            BY <1>2, <3>2
          <5> QED BY <5>1
        <4>2. j \in 0..7 /\ j - 1 \in 0..7 /\ k - 1 = n + (j - 1)
          BY <1>2, <4>1
        <4>3. l[j] = decode_section(v, l[j - 1], s[j])
          BY <1>1, <1>s DEF ReadStates
        <4>4. c[k] = l[j] /\ c[k - 1] = l[j - 1] /\ t[k] = s[j]
          BY <1>4, <1>5, <4>1, <4>2
        <4> QED BY <4>3, <4>4
      <3> QED BY <3>1, <3>2
    <2> QED BY <1>4, <1>h, <1>t, <2>1, <2>2 DEF Read
  <1>7. Decode(image) = load_finish(v, c[n + 7])
    <2>1. Len(image.sections) = n + 7 /\ n + 7 \in Nat
      BY <1>2, <1>4, <1>t
    <2> QED BY <1>6, <1>h, <2>1, DecodeIs
  <1>8. c[n + 7] = Passed(graph, Reading(b, seen \cup Learned))
    BY <1>1, <1>5
  <1> QED BY <1>1, <1>7, <1>8 DEF Ends

\* What the loader answers of a graph that it was given to read.
Answered(graph, b) ==
  IF Roomy(graph) THEN [ok |-> TRUE, graph |-> Regrouped(Reindexed(b))]
  ELSE [ok |-> FALSE, graph |-> NoGraph]

\* A reader that met every section it needs, and did not fail, has a graph.
LEMMA FinishIs ==
  ASSUME NEW v \in {5, 6, 7}, NEW graph, NEW b \in Graphs, NEW seen, "header" \in seen,
         "network" \in seen, v > 5 => "arch" \in seen, v = 7 => "migrations" \in seen
  PROVE  load_finish(v, Passed(graph, Reading(b, seen \cup Learned))) = Answered(graph, b)
  <1>1. PICK r : r = Reading(b, seen \cup Learned)
    OBVIOUS
  <1>2. r.ok /\ r.graph = b /\ r.seen = seen \cup Learned /\ b # NoGraph
    BY <1>1, ReadingIs, SomeGraph
  <1>3. Required(v) \subseteq r.seen
    BY <1>2 DEF Required, Learned
  <1>4. CASE Roomy(graph)
    <2>1. Passed(graph, r) = r
      BY <1>4 DEF Passed
    <2> QED BY <1>1, <1>2, <1>3, <1>4, <2>1 DEF load_finish, Answered
  <1>5. CASE ~Roomy(graph)
    <2>1. Passed(graph, r) = Failure
      BY <1>5 DEF Passed
    <2>2. ~Failure.ok
      BY DEF Failure
    <2> QED BY <1>1, <1>5, <2>1, <2>2 DEF load_finish, Answered
  <1> QED BY <1>4, <1>5

LEMMA SectionsAre ==
  ASSUME NEW graph, NEW T
  PROVE  \E S : T \subseteq S /\ LearnedSections(graph) \in Seq(S)
  <1>1. PICK a, b, c, d, e, f, h :
          /\ a = Section("nodes", graph.nodes) /\ b = Section("edges", graph.edges)
          /\ c = Section("ledger", graph.mirror) /\ d = Section("context", ContextBody(graph))
          /\ e = Section("episodes", graph.episodes)
          /\ f = Section("valence", [records |-> graph.valence, log |-> graph.log])
          /\ h = Section("schema", Schema)
    OBVIOUS
  <1>2. LearnedSections(graph) = <<a, b, c, d, e, f, h>>
    BY <1>1, Zenon DEF LearnedSections
  <1> DEFINE S == T \cup {a, b, c, d, e, f, h}
  <1>3. <<a, b, c, d, e, f, h>> \in Seq(S)
    <2>1. a \in S /\ b \in S /\ c \in S /\ d \in S /\ e \in S /\ f \in S /\ h \in S
      OBVIOUS
    <2> HIDE DEF S
    <2> QED BY <2>1
  <1>4. T \subseteq S
    OBVIOUS
  <1> HIDE DEF S
  <1> QED BY <1>2, <1>3, <1>4

\* Read back, a graph has what learning left in it, and its topology.
ReadBack(graph, image, b) ==
  /\ b \in Graphs /\ SameLearning(graph, b)
  /\ b.architecture = graph.architecture /\ b.migrations = graph.migrations
  /\ Decode(image) = Answered(graph, b)

Writes5(graph, image) ==
  graph.migrations = <<>> /\ graph.architecture = Legacy /\ image = snapshot_v5(graph)

LEMMA ReadBack5 ==
  ASSUME NEW graph, Stored(graph), NEW image, Writes5(graph, image)
  PROVE  \E b : ReadBack(graph, image, b)
  <1>1. PICK x, y : x = Section("header", 5) /\ y = Section("network", Legacy)
    OBVIOUS
  <1>2. PICK S : x \in S /\ y \in S /\ LearnedSections(graph) \in Seq(S)
    <2>1. PICK S : {x, y} \subseteq S /\ LearnedSections(graph) \in Seq(S)
      BY SectionsAre
    <2> QED BY <2>1
  <1>3. PICK head \in Seq(S) : /\ head = <<x, y>> /\ Len(head) = 2
                               /\ head[1] = x /\ head[2] = y
    <2>1. <<x, y>> \in Seq(S)
      BY <1>2
    <2> QED BY <2>1
  <1>4. image.version = 5 /\ image.sections = head \o LearnedSections(graph)
    <2>1. head = <<Section("header", 5), Section("network", Legacy)>>
      BY <1>1, <1>3
    <2>2. PICK s : s = head \o LearnedSections(graph)
      OBVIOUS
    <2>3. image = [version |-> 5, sections |-> s]
      BY <2>1, <2>2, Zenon DEF snapshot_v5, Writes5
    <2> QED BY <2>2, <2>3
  <1>5. PICK a : a = EmptyGraph(Legacy) /\ a \in Graphs /\ a.architecture = Legacy
                 /\ a.migrations = <<>>
    <2>1. PICK a : a = EmptyGraph(Legacy)
      OBVIOUS
    <2>2. Legacy \in Nat
      BY DEF Legacy
    <2> QED BY <2>1, <2>2, EmptySound DEF Sound, Stored
  <1> DEFINE r1 == Reading(a, {"header"})
             r2 == Reading(a, {"header"} \cup {"network"})
             f == [k \in 0..2 |-> IF k = 0 THEN Reading(NoGraph, {})
                                  ELSE IF k = 1 THEN r1 ELSE r2]
  <1>6. f[0] = Reading(NoGraph, {}) /\ f[1] = r1 /\ f[2] = r2
    OBVIOUS
  <1>7. r1 = decode_section(5, Reading(NoGraph, {}), x)
    <2>1. 5 \in {5, 6, 7}
      OBVIOUS
    <2>2. PICK v \in {5, 6, 7} : v = 5
      BY <2>1
    <2>3. decode_section(v, Reading(NoGraph, {}), x)
            = Reading(IF v = 5 THEN EmptyGraph(Legacy) ELSE NoGraph, {"header"})
      BY <1>1, ReadHeader
    <2> QED BY <1>5, <2>2, <2>3
  <1>8. r2 = decode_section(5, r1, y)
    <2>1. PICK known, v : known = {"header"} /\ v = 5
      OBVIOUS
    <2>2. NetworkOf(a, known, y)
      BY <1>1, <1>5, <2>1 DEF NetworkOf
    <2>3. decode_section(v, Reading(a, known), y) = Reading(a, known \cup {"network"})
      BY <2>2, NetworkRead
    <2> QED BY <2>1, <2>3
  <1> HIDE DEF f, r1, r2
  <1>9. ReadHead(f, 5, head, Len(head))
    <2>1. \A j \in 1..2 : (j = 1 /\ j - 1 = 0) \/ (j = 2 /\ j - 1 = 1)
      OBVIOUS
    <2>2. \A j \in 1..2 : f[j] = decode_section(5, f[j - 1], head[j])
      BY <1>3, <1>6, <1>7, <1>8, <2>1, Zenon
    <2> QED BY <1>3, <1>6, <2>2 DEF ReadHead
  <1>10. PICK seen : /\ seen = {"header"} \cup {"network"} /\ seen \cap Learned = {}
                     /\ f[Len(head)] = Reading(a, seen)
    <2>1. ({"header"} \cup {"network"}) \cap Learned = {}
      BY DEF Learned
    <2> QED BY <1>3, <1>6, <2>1 DEF r2
  <1>11. PICK b : /\ b \in Graphs /\ SameLearning(graph, b)
                  /\ b.architecture = a.architecture /\ b.migrations = a.migrations
                  /\ Decode(image) = load_finish(5, Passed(graph, Reading(b, seen \cup Learned)))
    <2>1. PICK v : v = 5
      OBVIOUS
    <2>2. Opened(image, v, S, head, graph, f, a, seen)
      BY <1>2, <1>4, <1>5, <1>9, <1>10, <2>1 DEF Opened
    <2>3. Ends(graph, image, v, a, seen)
      BY <2>2, WholeRead
    <2> QED BY <2>1, <2>3 DEF Ends
  <1>12. load_finish(5, Passed(graph, Reading(b, seen \cup Learned))) = Answered(graph, b)
    <2>1. PICK v \in {5, 6, 7} : v = 5
      OBVIOUS
    <2>2. "header" \in seen /\ "network" \in seen /\ ~(v > 5) /\ v # 7
      BY <1>10, <2>1
    <2>3. load_finish(v, Passed(graph, Reading(b, seen \cup Learned))) = Answered(graph, b)
      BY <1>11, <2>2, FinishIs
    <2> QED BY <2>1, <2>3
  <1> QED BY <1>5, <1>11, <1>12 DEF ReadBack, Writes5

Writes6(graph, image) == graph.migrations = <<>> /\ image = snapshot_v6(graph)

LEMMA ReadBack6 ==
  ASSUME NEW graph, Stored(graph), NEW image, Writes6(graph, image)
  PROVE  \E b : ReadBack(graph, image, b)
  <1>0. PICK architecture \in Nat : architecture = graph.architecture
    BY DEF Stored, Graphs
  <1>1. PICK x, y, z : /\ x = Section("header", 6) /\ y = Section("arch", architecture)
                       /\ z = Section("network", architecture)
    OBVIOUS
  <1>2. PICK S : x \in S /\ y \in S /\ z \in S /\ LearnedSections(graph) \in Seq(S)
    <2>1. PICK S : {x, y, z} \subseteq S /\ LearnedSections(graph) \in Seq(S)
      BY SectionsAre
    <2> QED BY <2>1
  <1>3. PICK head \in Seq(S) : /\ head = <<x, y, z>> /\ Len(head) = 3
                               /\ head[1] = x /\ head[2] = y /\ head[3] = z
    <2>1. <<x, y, z>> \in Seq(S)
      BY <1>2
    <2> QED BY <2>1
  <1>4. image.version = 6 /\ image.sections = head \o LearnedSections(graph)
    <2>1. head = <<Section("header", 6), Section("arch", graph.architecture),
                   Section("network", graph.architecture)>>
      BY <1>0, <1>1, <1>3
    <2>2. PICK s : s = head \o LearnedSections(graph)
      OBVIOUS
    <2>3. image = [version |-> 6, sections |-> s]
      BY <2>1, <2>2, Zenon DEF snapshot_v6, Writes6
    <2> QED BY <2>2, <2>3
  <1>5. PICK a : a = EmptyGraph(architecture) /\ a \in Graphs /\ a.architecture = architecture
                 /\ a.migrations = <<>>
    <2>1. PICK a : a = EmptyGraph(architecture)
      OBVIOUS
    <2> QED BY <2>1, EmptySound DEF Sound, Stored
  <1> DEFINE r1 == Reading(NoGraph, {"header"})
             r2 == Reading(a, {"header", "arch"})
             r3 == Reading(a, {"header", "arch"} \cup {"network"})
             f == [k \in 0..3 |-> IF k = 0 THEN Reading(NoGraph, {})
                                  ELSE IF k = 1 THEN r1 ELSE IF k = 2 THEN r2 ELSE r3]
  <1>6. f[0] = Reading(NoGraph, {}) /\ f[1] = r1 /\ f[2] = r2 /\ f[3] = r3
    OBVIOUS
  <1>7. r1 = decode_section(6, Reading(NoGraph, {}), x) /\ r2 = decode_section(6, r1, y)
    <2>1. PICK v : v \in {5, 6, 7} /\ v \in {6, 7} /\ v = 6
      OBVIOUS
    <2>2. decode_section(v, Reading(NoGraph, {}), x)
            = Reading(IF v = 5 THEN EmptyGraph(Legacy) ELSE NoGraph, {"header"})
      BY <1>1, <2>1, ReadHeader
    <2>3. decode_section(v, Reading(NoGraph, {"header"}), y)
            = Reading(EmptyGraph(architecture), {"header", "arch"})
      BY <1>1, <2>1, ReadArch
    <2> QED BY <1>5, <2>1, <2>2, <2>3
  <1>8. r3 = decode_section(6, r2, z)
    <2>1. PICK known, v : known = {"header", "arch"} /\ v = 6
      OBVIOUS
    <2>2. NetworkOf(a, known, z)
      BY <1>1, <1>5, <2>1 DEF NetworkOf
    <2>3. decode_section(v, Reading(a, known), z) = Reading(a, known \cup {"network"})
      BY <2>2, NetworkRead
    <2> QED BY <2>1, <2>3
  <1> HIDE DEF f, r1, r2, r3
  <1>9. ReadHead(f, 6, head, Len(head))
    <2>1. \A j \in 1..3 : \/ (j = 1 /\ j - 1 = 0)
                         \/ (j = 2 /\ j - 1 = 1)
                         \/ (j = 3 /\ j - 1 = 2)
      OBVIOUS
    <2>2. \A j \in 1..3 : f[j] = decode_section(6, f[j - 1], head[j])
      BY <1>3, <1>6, <1>7, <1>8, <2>1, Zenon
    <2> QED BY <1>3, <1>6, <2>2 DEF ReadHead
  <1>10. PICK seen : /\ seen = {"header", "arch"} \cup {"network"} /\ seen \cap Learned = {}
                     /\ f[Len(head)] = Reading(a, seen)
    <2>1. ({"header", "arch"} \cup {"network"}) \cap Learned = {}
      BY DEF Learned
    <2> QED BY <1>3, <1>6, <2>1 DEF r3
  <1>11. PICK b : /\ b \in Graphs /\ SameLearning(graph, b)
                  /\ b.architecture = a.architecture /\ b.migrations = a.migrations
                  /\ Decode(image) = load_finish(6, Passed(graph, Reading(b, seen \cup Learned)))
    <2>1. PICK v : v = 6
      OBVIOUS
    <2>2. Opened(image, v, S, head, graph, f, a, seen)
      BY <1>2, <1>4, <1>5, <1>9, <1>10, <2>1 DEF Opened
    <2>3. Ends(graph, image, v, a, seen)
      BY <2>2, WholeRead
    <2> QED BY <2>1, <2>3 DEF Ends
  <1>12. load_finish(6, Passed(graph, Reading(b, seen \cup Learned))) = Answered(graph, b)
    <2>1. PICK v \in {5, 6, 7} : v = 6
      OBVIOUS
    <2>2. "header" \in seen /\ "network" \in seen /\ "arch" \in seen /\ v # 7
      BY <1>10, <2>1
    <2>3. load_finish(v, Passed(graph, Reading(b, seen \cup Learned))) = Answered(graph, b)
      BY <1>11, <2>2, FinishIs
    <2> QED BY <2>1, <2>3
  <1> QED BY <1>0, <1>5, <1>11, <1>12 DEF ReadBack, Writes6

Writes7(graph, image) == graph.migrations # <<>> /\ image = snapshot_v7(graph)

LEMMA ReadBack7 ==
  ASSUME NEW graph, Stored(graph), NEW image, Writes7(graph, image)
  PROVE  \E b : ReadBack(graph, image, b)
  <1>0. PICK architecture \in Nat, migrations \in Seq(Migration) :
          /\ architecture = graph.architecture /\ migrations = graph.migrations
          /\ migrations # <<>> /\ MigrationsChain(migrations)
          /\ Last(migrations).target = architecture
    BY DEF Stored, Graphs, Writes7, Migrated
  <1>1. PICK x, y, m, z : /\ x = Section("header", 6) /\ y = Section("arch", architecture)
                          /\ m = Section("migrations", migrations)
                          /\ z = Section("network", architecture)
    OBVIOUS
  <1>5. PICK a : a = EmptyGraph(architecture) /\ a \in Graphs /\ a.architecture = architecture
    <2>1. PICK a : a = EmptyGraph(architecture)
      OBVIOUS
    <2>2. Sound(a) /\ a.architecture = architecture
      BY <2>1, EmptySound
    <2> QED BY <2>1, <2>2 DEF Sound, Stored
  <1>6. PICK c : /\ c = [a EXCEPT !.migrations = migrations] /\ c \in Graphs
                 /\ c.architecture = architecture /\ c.migrations = migrations
    <2>1. PICK c : c = [a EXCEPT !.migrations = migrations]
      OBVIOUS
    <2>2. a \in Graphs /\ a.architecture = architecture
      BY <1>5
    <2>3. c \in Graphs
      BY <2>1, <2>2 DEF Graphs
    <2>4. c.architecture = architecture /\ c.migrations = migrations
      BY <2>1, <2>2 DEF Graphs
    <2> QED BY <2>1, <2>3, <2>4
  <1> DEFINE r1 == Reading(NoGraph, {"header"})
             r2 == Reading(a, {"header", "arch"})
             r3 == Reading(c, {"header", "arch"} \cup {"migrations"})
             r4 == Reading(c, {"header", "arch"} \cup {"migrations"} \cup {"network"})
             f == [k \in 0..4 |-> IF k = 0 THEN Reading(NoGraph, {})
                                  ELSE IF k = 1 THEN r1 ELSE IF k = 2 THEN r2
                                  ELSE IF k = 3 THEN r3 ELSE r4]
  <1>7. f[0] = Reading(NoGraph, {}) /\ f[1] = r1 /\ f[2] = r2 /\ f[3] = r3 /\ f[4] = r4
    OBVIOUS
  <1>8. r1 = decode_section(7, Reading(NoGraph, {}), x) /\ r2 = decode_section(7, r1, y)
    <2>1. PICK v : v \in {5, 6, 7} /\ v \in {6, 7} /\ v = 7
      OBVIOUS
    <2>2. decode_section(v, Reading(NoGraph, {}), x)
            = Reading(IF v = 5 THEN EmptyGraph(Legacy) ELSE NoGraph, {"header"})
      BY <1>1, <2>1, ReadHeader
    <2>3. decode_section(v, Reading(NoGraph, {"header"}), y)
            = Reading(EmptyGraph(architecture), {"header", "arch"})
      BY <1>1, <2>1, ReadArch
    <2> QED BY <1>5, <2>1, <2>2, <2>3
  <1>9. r3 = decode_section(7, r2, m)
    <2>0. "migrations" \notin {"header", "arch"} /\ "network" \notin {"header", "arch"}
      OBVIOUS
    <2>1. PICK known : /\ known = {"header", "arch"} /\ "migrations" \notin known
                       /\ "network" \notin known
      BY <2>0
    <2>2. decode_migrations(a, migrations)
      BY <1>0, <1>5 DEF decode_migrations
    <2>3. decode_section(7, Reading(a, known), m)
            = Reading([a EXCEPT !.migrations = migrations], known \cup {"migrations"})
      BY <1>1, <1>5, <2>1, <2>2, ReadMigrations
    <2> QED BY <1>6, <2>1, <2>3
  <1>10. r4 = decode_section(7, r3, z)
    <2>1. PICK known, v : known = {"header", "arch"} \cup {"migrations"} /\ v = 7
      OBVIOUS
    <2>2. NetworkOf(c, known, z)
      BY <1>1, <1>6, <2>1 DEF NetworkOf
    <2>3. decode_section(v, Reading(c, known), z) = Reading(c, known \cup {"network"})
      BY <2>2, NetworkRead
    <2> QED BY <2>1, <2>3
  <1> HIDE DEF f, r1, r2, r3, r4
  <1>2. PICK S : x \in S /\ y \in S /\ m \in S /\ z \in S /\ LearnedSections(graph) \in Seq(S)
    <2>1. PICK S : {x, y, m, z} \subseteq S /\ LearnedSections(graph) \in Seq(S)
      BY SectionsAre
    <2> QED BY <2>1
  <1>3. PICK head \in Seq(S) : /\ head = <<x, y, m, z>> /\ Len(head) = 4
                               /\ head[1] = x /\ head[2] = y /\ head[3] = m /\ head[4] = z
    <2>1. <<x, y, m, z>> \in Seq(S)
      BY <1>2
    <2> QED BY <2>1
  <1>4. image.version = 7 /\ image.sections = head \o LearnedSections(graph)
    <2>1. head = <<Section("header", 6), Section("arch", graph.architecture),
                   Section("migrations", graph.migrations),
                   Section("network", graph.architecture)>>
      BY <1>0, <1>1, <1>3
    <2>2. PICK s : s = head \o LearnedSections(graph)
      OBVIOUS
    <2>3. image = [version |-> 7, sections |-> s]
      BY <2>1, <2>2, Zenon DEF snapshot_v7, Writes7
    <2> QED BY <2>2, <2>3
  <1>11. ReadHead(f, 7, head, Len(head))
    <2>1. \A j \in 1..4 : \/ (j = 1 /\ j - 1 = 0)
                          \/ (j = 2 /\ j - 1 = 1)
                          \/ (j = 3 /\ j - 1 = 2)
                          \/ (j = 4 /\ j - 1 = 3)
      OBVIOUS
    <2>2. \A j \in 1..4 : f[j] = decode_section(7, f[j - 1], head[j])
      BY <1>3, <1>7, <1>8, <1>9, <1>10, <2>1, Zenon
    <2> QED BY <1>3, <1>7, <2>2 DEF ReadHead
  <1>12. PICK seen : /\ seen = {"header", "arch"} \cup {"migrations"} \cup {"network"}
                     /\ seen \cap Learned = {} /\ f[Len(head)] = Reading(c, seen)
    <2>1. ({"header", "arch"} \cup {"migrations"} \cup {"network"}) \cap Learned = {}
      BY DEF Learned
    <2> QED BY <1>3, <1>7, <2>1 DEF r4
  <1>13. PICK b : /\ b \in Graphs /\ SameLearning(graph, b)
                  /\ b.architecture = c.architecture /\ b.migrations = c.migrations
                  /\ Decode(image) = load_finish(7, Passed(graph, Reading(b, seen \cup Learned)))
    <2>1. PICK v : v = 7
      OBVIOUS
    <2>2. Opened(image, v, S, head, graph, f, c, seen)
      BY <1>2, <1>4, <1>6, <1>11, <1>12, <2>1 DEF Opened
    <2>3. Ends(graph, image, v, c, seen)
      BY <2>2, WholeRead
    <2> QED BY <2>1, <2>3 DEF Ends
  <1>14. load_finish(7, Passed(graph, Reading(b, seen \cup Learned))) = Answered(graph, b)
    <2>1. PICK v \in {5, 6, 7} : v = 7
      OBVIOUS
    <2>2. "header" \in seen /\ "network" \in seen /\ "arch" \in seen /\ "migrations" \in seen
      BY <1>12
    <2>3. load_finish(v, Passed(graph, Reading(b, seen \cup Learned))) = Answered(graph, b)
      BY <1>13, <2>2, FinishIs
    <2> QED BY <2>1, <2>3
  <1> QED BY <1>0, <1>6, <1>13, <1>14 DEF ReadBack

\* The version follows the generation, and any reader of it gets the graph back.
LEMMA EncodeIs ==
  ASSUME NEW graph, Stored(graph), NEW image, image = Encode(graph)
  PROVE  \/ Writes5(graph, image)
         \/ graph.architecture # Legacy /\ Writes6(graph, image)
         \/ Writes7(graph, image)
  <1>1. CASE graph.migrations # <<>>
    BY <1>1 DEF Encode, Writes7
  <1>2. CASE graph.migrations = <<>> /\ graph.architecture = Legacy
    <2>1. image = snapshot_v5(graph)
      BY <1>2 DEF Encode
    <2> QED BY <1>2, <2>1 DEF Writes5
  <1>3. CASE graph.migrations = <<>> /\ graph.architecture # Legacy
    <2>1. image = snapshot_v6(graph)
      BY <1>3 DEF Encode
    <2> QED BY <1>3, <2>1 DEF Writes6
  <1> QED BY <1>1, <1>2, <1>3

LEMMA ReadsBack ==
  ASSUME NEW graph, Stored(graph), NEW image, image = Encode(graph)
  PROVE  \E b : ReadBack(graph, image, b)
  BY EncodeIs, ReadBack5, ReadBack6, ReadBack7

\* The probe finds the descriptor, which the writer puts second.
LEMMA SecondIs ==
  ASSUME NEW S, NEW head \in Seq(S), NEW t \in Seq(S), NEW s, s = head \o t,
         2 <= Len(head), head[1].tag # "arch", head[2].tag = "arch"
  PROVE  s[SelectInSeq(s, LAMBDA x : x.tag = "arch")] = head[2]
  <1> DEFINE I == {i \in 1..Len(s) : s[i].tag = "arch"}
             w == SelectInSeq(s, LAMBDA x : x.tag = "arch")
  <1>1. /\ Len(s) = Len(head) + Len(t) /\ Len(head) \in Nat /\ Len(t) \in Nat
        /\ \A i \in 1..Len(head) : s[i] = head[i]
    BY Joined
  <1>2. s[1] = head[1] /\ s[2] = head[2] /\ 2 \in 1..Len(s)
    BY <1>1
  <1>3. 2 \in I /\ 1 \notin I
    BY <1>2
  <1>4. w = IF I # {} THEN Min(I) ELSE 0
    BY DEF SelectInSeq
  <1>5. \A x \in I : x \in Nat /\ 2 <= x
    <2>1. \A x \in I : x \in 1..Len(s) /\ x # 1
      BY <1>3
    <2> HIDE DEF I
    <2> QED BY <1>1, <2>1
  <1> HIDE DEF I, w
  <1>6. \A x \in I : (\A y \in I : x <= y) => x = 2
    BY <1>3, <1>5
  <1>7. Min(I) = 2
    BY <1>3, <1>5, <1>6 DEF Min
  <1>8. w = 2
    BY <1>3, <1>4, <1>7
  <1> QED BY <1>2, <1>8 DEF w

LEMMA ArchitectureIs ==
  ASSUME NEW graph, Stored(graph), NEW image, image = Encode(graph)
  PROVE  snapshot_architecture(image) = graph.architecture
  <1>1. CASE Writes5(graph, image)
    <2>1. image.version = 5
      <3>1. PICK s : s = <<Section("header", 5), Section("network", Legacy)>>
                           \o LearnedSections(graph)
        OBVIOUS
      <3>2. image = [version |-> 5, sections |-> s]
        BY <1>1, <3>1, Zenon DEF snapshot_v5, Writes5
      <3> QED BY <3>2
    <2> QED BY <1>1, <2>1 DEF Writes5, snapshot_architecture
  <1>2. ASSUME NEW x, NEW y, NEW head, NEW more, NEW S,
               x = Section("header", 6), y = Section("arch", graph.architecture),
               head \in Seq(S), more \in Seq(S), 2 <= Len(head), head[1] = x, head[2] = y,
               image.sections = head \o more, image.version # 5
        PROVE  snapshot_architecture(image) = graph.architecture
    <2>1. x.tag = "header" /\ y.tag = "arch" /\ y.body = graph.architecture
      BY <1>2 DEF Section
    <2>2. PICK s : s = image.sections
      OBVIOUS
    <2>3. s[SelectInSeq(s, LAMBDA z : z.tag = "arch")] = y
      BY <1>2, <2>1, <2>2, SecondIs
    <2>4. snapshot_architecture(image) = s[SelectInSeq(s, LAMBDA z : z.tag = "arch")].body
      BY <1>2, <2>2 DEF snapshot_architecture
    <2> QED BY <2>1, <2>3, <2>4
  <1>3. CASE Writes6(graph, image)
    <2>1. PICK x, y, z, s : /\ x = Section("header", 6) /\ y = Section("arch", graph.architecture)
                            /\ z = Section("network", graph.architecture)
                            /\ s = <<x, y, z>> \o LearnedSections(graph)
      OBVIOUS
    <2>2. image = [version |-> 6, sections |-> s]
      BY <1>3, <2>1, Zenon DEF snapshot_v6, Writes6
    <2>3. PICK S : x \in S /\ y \in S /\ z \in S /\ LearnedSections(graph) \in Seq(S)
      <3>1. PICK S : {x, y, z} \subseteq S /\ LearnedSections(graph) \in Seq(S)
        BY SectionsAre
      <3> QED BY <3>1
    <2>4. PICK head \in Seq(S) : /\ head = <<x, y, z>> /\ Len(head) = 3
                                 /\ head[1] = x /\ head[2] = y
      <3>1. <<x, y, z>> \in Seq(S)
        BY <2>3
      <3> QED BY <3>1
    <2>5. image.sections = head \o LearnedSections(graph) /\ image.version # 5 /\ 2 <= Len(head)
      BY <2>1, <2>2, <2>4
    <2> QED BY <1>2, <2>1, <2>3, <2>4, <2>5
  <1>4. CASE Writes7(graph, image)
    <2>1. PICK x, y, m, z, s : /\ x = Section("header", 6)
                               /\ y = Section("arch", graph.architecture)
                               /\ m = Section("migrations", graph.migrations)
                               /\ z = Section("network", graph.architecture)
                               /\ s = <<x, y, m, z>> \o LearnedSections(graph)
      OBVIOUS
    <2>2. image = [version |-> 7, sections |-> s]
      BY <1>4, <2>1, Zenon DEF snapshot_v7, Writes7
    <2>3. PICK S : x \in S /\ y \in S /\ m \in S /\ z \in S /\ LearnedSections(graph) \in Seq(S)
      <3>1. PICK S : {x, y, m, z} \subseteq S /\ LearnedSections(graph) \in Seq(S)
        BY SectionsAre
      <3> QED BY <3>1
    <2>4. PICK head \in Seq(S) : /\ head = <<x, y, m, z>> /\ Len(head) = 4
                                 /\ head[1] = x /\ head[2] = y
      <3>1. <<x, y, m, z>> \in Seq(S)
        BY <2>3
      <3> QED BY <3>1
    <2>5. image.sections = head \o LearnedSections(graph) /\ image.version # 5 /\ 2 <= Len(head)
      BY <2>1, <2>2, <2>4
    <2> QED BY <1>2, <2>1, <2>3, <2>4, <2>5
  <1> QED BY <1>1, <1>3, <1>4, EncodeIs

\* What the two graphs share decides what a snapshot of them holds.
LEMMA SameSnapshot ==
  ASSUME NEW a, NEW b, SameLearning(a, b), b.architecture = a.architecture,
         b.migrations = a.migrations
  PROVE  Encode(b) = Encode(a)
  <1>1. LearnedSections(b) = LearnedSections(a)
    <2>1. ContextBody(b) = ContextBody(a)
      BY Zenon DEF ContextBody, SameLearning
    <2> QED BY <2>1, Zenon DEF LearnedSections, SameLearning
  <1>2. snapshot_v5(b) = snapshot_v5(a)
    BY <1>1, Zenon DEF snapshot_v5
  <1>3. snapshot_v6(b) = snapshot_v6(a)
    BY <1>1, Zenon DEF snapshot_v6
  <1>4. snapshot_v7(b) = snapshot_v7(a)
    BY <1>1, Zenon DEF snapshot_v7
  <1> QED BY <1>2, <1>3, <1>4, Zenon DEF Encode

\* The context section of a graph that does not fit is in its snapshot.
LEMMA CrampedIs ==
  ASSUME NEW graph, ~Roomy(graph), NEW S, NEW head \in Seq(S), LearnedSections(graph) \in Seq(S),
         NEW image, image.sections = head \o LearnedSections(graph)
  PROVE  Cramped(image)
  <1>1. PICK t \in Seq(S) : t = LearnedSections(graph)
    OBVIOUS
  <1>2. PICK x : x = Section("context", ContextBody(graph))
    OBVIOUS
  <1>3. Len(t) = 7 /\ t[4] = x
    BY <1>1, <1>2, LearnedIs
  <1>4. PICK n \in Nat : n = Len(head)
    OBVIOUS
  <1>5. PICK all : all = head \o t
    OBVIOUS
  <1>6. all \in Seq(S) /\ Len(all) = n + 7 /\ all[n + 4] = x
    <2>1. /\ head \o t \in Seq(S) /\ Len(head \o t) = Len(head) + Len(t)
          /\ \A i \in 1..Len(t) : (head \o t)[Len(head) + i] = t[i]
      BY Joined
    <2>2. 4 \in 1..Len(t)
      BY <1>3
    <2>3. all \in Seq(S) /\ Len(all) = n + 7 /\ all[n + 4] = t[4]
      BY <1>3, <1>4, <1>5, <2>1, <2>2
    <2> QED BY <1>3, <2>3
  <1>7. x \in ToSet(all)
    <2>1. n + 4 \in DOMAIN all
      BY <1>4, <1>6
    <2> QED BY <1>6, <2>1 DEF ToSet
  <1>8. x.tag = "context" /\ ~HasRoom(x.body)
    BY <1>2 DEF Section, Roomy
  <1> QED BY <1>1, <1>5, <1>7, <1>8 DEF Cramped

LEMMA WrittenCramped ==
  ASSUME NEW graph, Stored(graph), NEW image, image = Encode(graph), ~Roomy(graph)
  PROVE  Cramped(image)
  <1>1. ASSUME NEW a, NEW b, NEW T, a \in T, b \in T, NEW c, c \in T, NEW d, d \in T, NEW head,
               head \in {<<a, b>>, <<a, b, c>>, <<a, b, c, d>>},
               image.sections = head \o LearnedSections(graph)
        PROVE  Cramped(image)
    <2>1. PICK S : T \subseteq S /\ LearnedSections(graph) \in Seq(S)
      BY SectionsAre
    <2>2. head \in Seq(S)
      <3>1. a \in S /\ b \in S /\ c \in S /\ d \in S
        BY <1>1, <2>1
      <3>2. <<a, b>> \in Seq(S) /\ <<a, b, c>> \in Seq(S) /\ <<a, b, c, d>> \in Seq(S)
        BY <3>1
      <3> QED BY <1>1, <3>2
    <2> QED BY <1>1, <2>1, <2>2, CrampedIs
  <1>2. PICK x, y, z, m : /\ x = Section("header", 6) /\ y = Section("arch", graph.architecture)
                          /\ m = Section("migrations", graph.migrations)
                          /\ z = Section("network", graph.architecture)
    OBVIOUS
  <1>3. PICK u, w : u = Section("header", 5) /\ w = Section("network", Legacy)
    OBVIOUS
  <1>4. CASE Writes5(graph, image)
    <2>1. PICK s : s = <<u, w>> \o LearnedSections(graph)
      OBVIOUS
    <2>2. image = [version |-> 5, sections |-> s]
      BY <1>3, <1>4, <2>1, Zenon DEF snapshot_v5, Writes5
    <2>3. image.sections = <<u, w>> \o LearnedSections(graph)
      BY <2>1, <2>2
    <2>4. u \in {u, w} /\ w \in {u, w} /\ <<u, w>> \in {<<u, w>>, <<u, w, u>>, <<u, w, u, u>>}
      OBVIOUS
    <2> QED BY <1>1, <2>3, <2>4
  <1>5. CASE Writes6(graph, image)
    <2>1. PICK s : s = <<x, y, z>> \o LearnedSections(graph)
      OBVIOUS
    <2>2. image = [version |-> 6, sections |-> s]
      BY <1>2, <1>5, <2>1, Zenon DEF snapshot_v6, Writes6
    <2>3. image.sections = <<x, y, z>> \o LearnedSections(graph)
      BY <2>1, <2>2
    <2>4. x \in {x, y, z} /\ y \in {x, y, z} /\ z \in {x, y, z}
          /\ <<x, y, z>> \in {<<x, y>>, <<x, y, z>>, <<x, y, z, z>>}
      OBVIOUS
    <2> QED BY <1>1, <2>3, <2>4
  <1>6. CASE Writes7(graph, image)
    <2>1. PICK s : s = <<x, y, m, z>> \o LearnedSections(graph)
      OBVIOUS
    <2>2. image = [version |-> 7, sections |-> s]
      BY <1>2, <1>6, <2>1, Zenon DEF snapshot_v7, Writes7
    <2>3. image.sections = <<x, y, m, z>> \o LearnedSections(graph)
      BY <2>1, <2>2
    <2>4. x \in {x, y, m, z} /\ y \in {x, y, m, z} /\ m \in {x, y, m, z} /\ z \in {x, y, m, z}
          /\ <<x, y, m, z>> \in {<<x, y>>, <<x, y, m>>, <<x, y, m, z>>}
      OBVIOUS
    <2> QED BY <1>1, <2>3, <2>4
  <1> QED BY <1>4, <1>5, <1>6, EncodeIs

\* Written and read back: accepted, sound, and the same to the next writer, unless
\* the rows of its context are too many for what follows them.
LEMMA DecodeEncode ==
  ASSUME NEW graph, Stored(graph), NEW image, image = Encode(graph),
         NEW read, read = Decode(image)
  PROVE  /\ Sound(read.graph) \/ ~read.ok
         /\ read.ok => /\ Encode(read.graph) = image
                        /\ read.graph.architecture = graph.architecture
                        /\ read.graph.migrations = graph.migrations
                        /\ \A f : Felt(graph, f) => Felt(read.graph, f)
         /\ ~read.ok => Cramped(image)
  <1>1. PICK b : ReadBack(graph, image, b)
    BY ReadsBack
  <1>2. b \in Graphs /\ SameLearning(graph, b) /\ b.architecture = graph.architecture
        /\ b.migrations = graph.migrations
    BY <1>1 DEF ReadBack
  <1>3. Stored(b)
    BY <1>2 DEF Stored, SameLearning
  <1>4. PICK c : c = Reindexed(b)
    OBVIOUS
  <1>5. /\ Stored(c) /\ Indexed(c)
        /\ SameLearning(b, c) /\ c.architecture = b.architecture /\ c.migrations = b.migrations
    <2>1. /\ Stored(c) /\ Indexed(c)
          /\ \A f \in {"nodes", "edges", "episodes", "groups", "member", "valence", "log",
                       "mirror", "architecture", "migrations"} : c[f] = b[f]
      BY <1>3, <1>4, ReindexedHolds
    <2> QED BY <2>1 DEF SameLearning
  <1>6. PICK d : d = Regrouped(c)
    OBVIOUS
  <1>7. d \in Graphs /\ Beside(c, d) /\ Grouped(d)
    BY <1>5, <1>6, RegroupedIs DEF Stored
  <1>8. Sound(d)
    BY <1>5, <1>7, BesideStored DEF Sound
  <1>9. SameLearning(graph, d) /\ d.architecture = graph.architecture
        /\ d.migrations = graph.migrations
    BY <1>2, <1>5, <1>7 DEF SameLearning, Beside
  <1>10. IF Roomy(graph) THEN read.ok /\ read.graph = d ELSE ~read.ok
    <2>1. read = Answered(graph, b)
      BY <1>1 DEF ReadBack
    <2>2. CASE Roomy(graph)
      <3>1. read = [ok |-> TRUE, graph |-> d]
        BY <1>4, <1>6, <2>1, <2>2 DEF Answered
      <3> QED BY <2>2, <3>1
    <2>3. CASE ~Roomy(graph)
      <3>1. read = [ok |-> FALSE, graph |-> NoGraph]
        BY <2>1, <2>3 DEF Answered
      <3> QED BY <2>3, <3>1
    <2> QED BY <2>2, <2>3
  <1>11. Encode(d) = image
    BY <1>9, SameSnapshot
  <1>12. ASSUME NEW f, Felt(graph, f) PROVE Felt(d, f)
    BY <1>9, <1>12 DEF Felt, SameLearning
  <1>13. ~Roomy(graph) => Cramped(image)
    BY WrittenCramped
  <1> QED BY <1>8, <1>9, <1>10, <1>11, <1>12, <1>13

---------------------------------------------------------------------------
(* The inductive invariant. *)

\* No migration of the graph has a boundary past this entry.
Due(graph, n) == \A i \in 1..Len(graph.migrations) : graph.migrations[i].boundary <= n

\* What a writer left: a snapshot of a graph, and what its tokens had felt.
Written(f, n) ==
  \E graph, felts : /\ f = [image |-> Encode(graph), felt |-> felts]
                    /\ Stored(graph) /\ Felt(graph, felts) /\ Due(graph, n)

\* The graph in memory is sound, its valence is what its tokens felt, and the
\* snapshot is of a graph of which this holds too.
GraphInv ==
  /\ ledger \in Seq(Recorded) /\ journal \in Seq(Happening)
  /\ Sound(g) /\ Felt(g, felt) /\ Due(g, Len(ledger))
  /\ file # None => Written(file, Len(ledger))
  /\ Down => felt = Silence

LEMMA DueLater ==
  ASSUME NEW graph \in Graphs, NEW m \in Nat, NEW n \in Nat, m <= n, Due(graph, m)
  PROVE  Due(graph, n)
  <1>1. ASSUME NEW i \in 1..Len(graph.migrations)
        PROVE  graph.migrations[i].boundary <= n
    <2>1. graph.migrations \in Seq(Migration)
      BY DEF Graphs
    <2>2. graph.migrations[i] \in Migration
      BY <2>1
    <2>3. graph.migrations[i].boundary \in Nat /\ graph.migrations[i].boundary <= m
      BY <2>2 DEF Migration, Due
    <2> QED BY <2>3
  <1> QED BY <1>1 DEF Due

LEMMA WrittenLater ==
  ASSUME NEW f, NEW m \in Nat, NEW n \in Nat, m <= n, Written(f, m)
  PROVE  Written(f, n)
  <1>1. PICK graph, felts : /\ f = [image |-> Encode(graph), felt |-> felts]
                            /\ Stored(graph) /\ Felt(graph, felts) /\ Due(graph, m)
    BY DEF Written
  <1>2. graph \in Graphs
    BY <1>1 DEF Stored
  <1>3. Due(graph, n)
    BY <1>1, <1>2, DueLater
  <1> QED BY <1>1, <1>3 DEF Written

LEMMA DueAgain ==
  ASSUME NEW a, NEW b, b.migrations = a.migrations, NEW n, Due(a, n)
  PROVE  Due(b, n)
  BY DEF Due

LEMMA LeastIn ==
  ASSUME NEW I \in SUBSET Nat, I # {}
  PROVE  Min(I) \in I
  <1>1. \E x \in I : \A y \in I : x <= y
    BY LeastNatural
  <1> QED BY <1>1 DEF Min

LEMMA WriteIs ==
  ASSUME NEW graph, Sound(graph), NEW felts, Felt(graph, felts), NEW n, Due(graph, n),
         NEW f, f = [image |-> Encode(graph), felt |-> felts]
  PROVE  Written(f, n)
  BY DEF Written, Sound

LEMMA FirstInvariant ==
  ASSUME Init
  PROVE  GraphInv
  <1>1. OldTexts \in Seq(Texts)
    BY GraphAssumption
  <1>2. ledger \in Seq(Recorded)
    <2>1. \A i \in DOMAIN OldTexts : Entry(OldTexts[i], 1, "learned") \in Recorded
      BY <1>1 DEF Entry, Recorded
    <2>2. ledger = [i \in DOMAIN OldTexts |-> Entry(OldTexts[i], 1, "learned")]
      BY DEF Init
    <2>3. ledger \in [1..Len(OldTexts) -> Recorded]
      <3>1. DOMAIN OldTexts = 1..Len(OldTexts)
        BY <1>1
      <3> HIDE DEF Recorded
      <3> QED BY <2>1, <2>2, <3>1
    <2>4. Len(OldTexts) \in Nat
      BY <1>1
    <2> HIDE DEF Recorded
    <2> QED BY <2>3, <2>4
  <1>3. journal \in Seq(Happening)
    BY DEF Init
  <1>4. PICK a \in Declared : g = Replayed(a, <<>>).graph
    BY DEF Init
  <1>5. a \in Nat
    BY GraphAssumption
  <1>6. PICK r : r = Replayed(a, <<>>)
    OBVIOUS
  <1>7. PICK none \in Seq(Migration) : none = <<>> /\ Len(none) = 0
    <2>1. <<>> \in Seq(Migration)
      OBVIOUS
    <2> QED BY <2>1
  <1>8. Underway(r, Silence, a, none, Len(ledger), Len(none))
    BY <1>2, <1>5, <1>6, <1>7, ReplayedSound
  <1>9. Sound(g) /\ Felt(g, Silence) /\ g.migrations = <<>>
    BY <1>4, <1>6, <1>7, <1>8 DEF Underway
  <1>10. Due(g, Len(ledger))
    BY <1>9 DEF Due
  <1>11. felt = Silence /\ file = None /\ ~Down
    BY DEF Init, Silence, Down
  <1> QED BY <1>2, <1>3, <1>9, <1>10, <1>11 DEF GraphInv

\* Observing: the entry is noted, and learned when the graph took it.
LEMMA ObserveKeeps ==
  ASSUME GraphInv, NEW text \in Texts, Observe(text)
  PROVE  GraphInv' /\ (status' = "capacity" => g' = g)
  <1> DEFINE I == {i \in 1..Len(ledger) : ledger[i].text = text /\ ledger[i].outcome = "pending"}
             known == SelectInSeq(ledger, LAMBDA e : e.text = text /\ e.outcome = "pending")
             id == IF known # 0 THEN known ELSE Len(ledger) + 1
             n == Len(ledger)
  <1>1. ledger \in Seq(Recorded) /\ n \in Nat
    BY DEF GraphInv
  <1>2. known \in 0..n
    <2>1. known = IF I # {} THEN Min(I) ELSE 0
      BY DEF SelectInSeq
    <2>2. I \in SUBSET Nat /\ \A x \in I : x \in 0..n
      BY <1>1
    <2>3. I # {} => Min(I) \in I
      <3> HIDE DEF I
      <3> QED BY <2>2, LeastIn
    <2> HIDE DEF I, known, n
    <2>4. CASE I # {}
      <3>1. known = Min(I)
        BY <2>1, <2>4
      <3> QED BY <2>2, <2>3, <2>4, <3>1, Zenon
    <2>5. CASE I = {}
      <3>1. known = 0
        BY <2>1, <2>5
      <3> QED BY <1>1, <3>1
    <2> QED BY <2>4, <2>5
  <1> HIDE DEF known
  <1>3. id \in Nat /\ (known # 0 => known \in 1..n)
    BY <1>1, <1>2
  <1>4. PICK o : /\ o = observe_with_memory(g, text, Schema, id, id)
                 /\ g' = IF o.ok THEN [o.graph EXCEPT !.mirror = Append(@, id)] ELSE o.graph
                 /\ ledger' = LET e == Entry(text, Schema, IF o.ok THEN "learned" ELSE "pending")
                              IN IF known # 0 THEN [ledger EXCEPT ![id] = e]
                                 ELSE Append(ledger, e)
                 /\ status' = IF o.ok THEN "ok" ELSE "capacity"
                 /\ UNCHANGED <<file, journal, felt>>
    BY Zenon DEF Observe, id, known
  <1> HIDE DEF id
  <1>5. Schema \in {1, 2}
    BY DEF Schema
  <1>6. /\ o.ok \in BOOLEAN /\ Sound(o.graph) /\ Learnt(g, o.graph)
        /\ ~o.ok => o.graph = g
    BY <1>3, <1>4, <1>5, ObserveSound DEF GraphInv
  <1>7. Felt(o.graph, felt) /\ o.graph.migrations = g.migrations
    BY <1>6, LearntFelt DEF GraphInv, Sound, Learnt
  <1>8. Sound(g') /\ Felt(g', felt) /\ g'.migrations = g.migrations
    <2>1. CASE o.ok
      <3>1. PICK a : a = o.graph
        OBVIOUS
      <3>2. PICK h : h = Mirrored(a, id)
        OBVIOUS
      <3>3. Sound(h) /\ h.migrations = a.migrations /\ Felt(h, felt)
        BY <1>3, <1>6, <1>7, <3>1, <3>2, MirrorSound
      <3>4. g' = h
        BY <1>4, <2>1, <3>1, <3>2 DEF Mirrored
      <3> QED BY <1>7, <3>1, <3>3, <3>4
    <2>2. CASE ~o.ok
      <3>1. g' = o.graph
        BY <1>4, <2>2
      <3> QED BY <1>6, <1>7, <3>1
    <2> QED BY <1>6, <2>1, <2>2
  <1>9. ledger' \in Seq(Recorded) /\ Len(ledger') \in Nat /\ n <= Len(ledger')
    <2>1. PICK e \in Recorded :
            e = Entry(text, Schema, IF o.ok THEN "learned" ELSE "pending")
      <3>1. PICK w \in {"pending", "learned", "excluded"} :
              w = IF o.ok THEN "learned" ELSE "pending"
        OBVIOUS
      <3>2. Entry(text, Schema, w) \in Recorded
        BY <1>5 DEF Entry, Recorded
      <3> HIDE DEF Recorded
      <3> QED BY <3>1, <3>2
    <2>2. CASE known # 0
      <3>1. id = known /\ id \in 1..n
        BY <1>3, <2>2 DEF id
      <3>2. ledger' = [ledger EXCEPT ![id] = e]
        BY <1>4, <2>1, <2>2
      <3> HIDE DEF Recorded
      <3> QED BY <1>1, <3>1, <3>2
    <2>3. CASE known = 0
      <3>1. ledger' = Append(ledger, e)
        BY <1>4, <2>1, <2>3
      <3> HIDE DEF Recorded
      <3> QED BY <1>1, <3>1
    <2> QED BY <2>2, <2>3
  <1>10. Due(g', Len(ledger'))
    <2>1. Due(g', n)
      BY <1>8, DueAgain DEF GraphInv
    <2>2. g' \in Graphs
      BY <1>8 DEF Sound, Stored
    <2> HIDE DEF n
    <2> QED BY <1>1, <1>9, <2>1, <2>2, DueLater
  <1>11. file' # None => Written(file', Len(ledger'))
    <2>1. file # None => Written(file, n)
      BY DEF GraphInv
    <2> HIDE DEF n
    <2> QED BY <1>1, <1>4, <1>9, <2>1, WrittenLater
  <1>12. ~Down'
    BY <1>4 DEF Down
  <1>13. status' = "capacity" => g' = g
    BY <1>4, <1>6
  <1>14. journal' \in Seq(Happening) /\ felt' = felt
    BY <1>4 DEF GraphInv
  <1> QED BY <1>8, <1>9, <1>10, <1>11, <1>12, <1>13, <1>14 DEF GraphInv

\* Feeling: the journal's signal is the token's, and no other's.
LEMMA FeelKeeps ==
  ASSUME GraphInv, NEW token \in Concepts, NEW signal \in Signs, Feel(token, signal)
  PROVE  GraphInv'
  <1>1. /\ find_node(g, token) # 0 /\ token \in Tokens \cup Concepts
        /\ journal' = Append(journal, [token |-> token, signal |-> signal])
        /\ felt' = [felt EXCEPT ![token] = Append(@, signal)]
        /\ UNCHANGED <<status, file, ledger>>
    BY DEF Feel
  <1>2. PICK h : h = valence_event(g, token, signal) /\ g' = h
    BY DEF Feel
  <1>3. Sound(g) /\ Felt(g, felt)
    BY DEF GraphInv
  <1>4. /\ Sound(h) /\ Elsewhere(g, h)
        /\ \A f : Felt(g, f) => Felt(h, [f EXCEPT ![token] = Append(@, signal)])
    BY <1>1, <1>2, <1>3, EventSound
  <1>5. Felt(g', felt')
    BY <1>1, <1>2, <1>3, <1>4
  <1>6. Due(g', Len(ledger'))
    <2>1. h.migrations = g.migrations /\ Due(g, Len(ledger))
      BY <1>4 DEF Elsewhere, GraphInv
    <2> QED BY <1>1, <1>2, <2>1, DueAgain
  <1>7. journal' \in Seq(Happening)
    <2>1. PICK e \in Happening : e = [token |-> token, signal |-> signal]
      BY <1>1 DEF Happening
    <2>2. journal \in Seq(Happening) /\ journal' = Append(journal, e)
      BY <1>1, <2>1 DEF GraphInv
    <2> HIDE DEF Happening
    <2> QED BY <2>2
  <1>8. ~Down'
    BY <1>1 DEF Feel, Running, Down
  <1>9. ledger' \in Seq(Recorded) /\ (file' # None => Written(file', Len(ledger')))
    BY <1>1 DEF GraphInv
  <1> QED BY <1>2, <1>4, <1>5, <1>6, <1>7, <1>8, <1>9 DEF GraphInv

\* Recalling changes counts only.
LEMMA RecalledKeeps ==
  ASSUME GraphInv, NEW positions, Running, g' = Recalled(g, positions),
         UNCHANGED <<status, file, ledger, journal, felt>>
  PROVE  GraphInv'
  <1>1. PICK h : h = Recalled(g, positions) /\ g' = h
    OBVIOUS
  <1>2. Sound(g) /\ Felt(g, felt) /\ Due(g, Len(ledger))
    BY DEF GraphInv
  <1>3. Sound(h) /\ h.migrations = g.migrations /\ Felt(h, felt)
    BY <1>1, <1>2, RecalledSound
  <1>4. Due(h, Len(ledger))
    BY <1>2, <1>3, DueAgain
  <1>5. ~Down'
    BY DEF Running, Down
  <1> QED BY <1>1, <1>3, <1>4, <1>5 DEF GraphInv

LEMMA SaveKeeps ==
  ASSUME GraphInv, Save
  PROVE  GraphInv'
  <1>1. /\ file' = [image |-> Encode(g), felt |-> felt]
        /\ UNCHANGED <<g, status, ledger, journal, felt>>
    BY DEF Save
  <1>2. Written(file', Len(ledger'))
    <2>1. PICK f : f = [image |-> Encode(g), felt |-> felt] /\ file' = f
      BY <1>1
    <2>2. Written(f, Len(ledger))
      BY <2>1, WriteIs DEF GraphInv
    <2> QED BY <1>1, <2>1, <2>2
  <1> QED BY <1>1, <1>2 DEF GraphInv, Down

LEMMA RotateKeeps ==
  ASSUME GraphInv, NEW max_nodes \in Ceilings, Rotate(max_nodes)
  PROVE  GraphInv'
  <1>1. PICK h : /\ h = prune_vocabulary(g, max_nodes) /\ g' = h
                 /\ file' = [image |-> Encode(h), felt |-> felt]
                 /\ UNCHANGED <<status, ledger, journal, felt>>
    BY Zenon DEF Rotate
  <1>2. Sound(g) /\ Felt(g, felt) /\ Due(g, Len(ledger)) /\ max_nodes \in Nat
    BY GraphAssumption DEF GraphInv
  <1>3. Sound(h) /\ h.migrations = g.migrations /\ Felt(h, felt)
    BY <1>1, <1>2, PruneSound
  <1>4. Due(h, Len(ledger))
    BY <1>2, <1>3, DueAgain
  <1>5. Written(file', Len(ledger'))
    <2>1. PICK f : f = [image |-> Encode(h), felt |-> felt] /\ file' = f
      BY <1>1
    <2>2. Written(f, Len(ledger))
      BY <1>3, <1>4, <2>1, WriteIs
    <2> QED BY <1>1, <2>1, <2>2
  <1>6. ~Down'
    BY <1>1 DEF Rotate, Running, Down
  <1> QED BY <1>1, <1>3, <1>4, <1>5, <1>6 DEF GraphInv

LEMMA StopKeeps ==
  ASSUME GraphInv, Stop
  PROVE  GraphInv'
  <1>1. PICK h : h = EmptyGraph(Legacy) /\ g' = h
    BY DEF Stop
  <1>2. Legacy \in Nat
    BY DEF Legacy
  <1>3. Sound(h) /\ Felt(h, Silence) /\ h.migrations = <<>>
    BY <1>1, <1>2, EmptySound DEF Silence
  <1>4. felt' = Silence /\ UNCHANGED <<file, ledger, journal>>
    BY DEF Stop, Silence
  <1>5. Due(h, Len(ledger))
    BY <1>3 DEF Due
  <1> QED BY <1>1, <1>3, <1>4, <1>5 DEF GraphInv

\* What the file holds is refused for its context rows, or read back sound, with
\* what its tokens had felt.
LEMMA FileRefused ==
  ASSUME GraphInv, file # None, ~Decode(file.image).ok
  PROVE  Cramped(file.image)
  <1>1. PICK graph, felts : /\ file = [image |-> Encode(graph), felt |-> felts]
                            /\ Stored(graph) /\ Felt(graph, felts) /\ Due(graph, Len(ledger))
    BY DEF GraphInv, Written
  <1>2. PICK image : image = Encode(graph)
    OBVIOUS
  <1>3. PICK read : read = Decode(image)
    OBVIOUS
  <1>4. file.image = image
    BY <1>1, <1>2
  <1>5. ~read.ok
    BY <1>3, <1>4
  <1> QED BY <1>1, <1>2, <1>3, <1>4, <1>5, DecodeEncode

LEMMA FileReads ==
  ASSUME GraphInv, file # None, NEW read, read = Decode(file.image), read.ok
  PROVE  /\ Sound(read.graph) /\ Encode(read.graph) = file.image
         /\ Felt(read.graph, file.felt) /\ Due(read.graph, Len(ledger))
         /\ snapshot_architecture(file.image) = read.graph.architecture
         /\ file = [image |-> file.image, felt |-> file.felt]
  <1>1. PICK graph, felts : /\ file = [image |-> Encode(graph), felt |-> felts]
                            /\ Stored(graph) /\ Felt(graph, felts) /\ Due(graph, Len(ledger))
    BY DEF GraphInv, Written
  <1>2. PICK image : image = Encode(graph)
    OBVIOUS
  <1>3. file = [image |-> image, felt |-> felts]
    BY <1>1, <1>2
  <1>4. file.image = image /\ file.felt = felts
    BY <1>3
  <1>5. read = Decode(image)
    BY <1>4
  <1>6. /\ Sound(read.graph) /\ Encode(read.graph) = image
        /\ read.graph.architecture = graph.architecture
        /\ read.graph.migrations = graph.migrations
        /\ \A f : Felt(graph, f) => Felt(read.graph, f)
    BY <1>1, <1>2, <1>5, DecodeEncode
  <1>7. snapshot_architecture(image) = graph.architecture
    BY <1>1, <1>2, ArchitectureIs
  <1>8. Due(read.graph, Len(ledger))
    BY <1>1, <1>6, DueAgain
  <1> QED BY <1>1, <1>3, <1>4, <1>6, <1>7, <1>8

LEMMA RestartKeeps ==
  ASSUME GraphInv, Restart
  PROVE  GraphInv'
  <1>1. UNCHANGED <<file, ledger, journal>> /\ Down /\ status' = "ok"
    BY DEF Restart
  <1>2. CASE file = None
    <2>1. PICK a \in Declared : g' = EmptyGraph(a)
      BY <1>2 DEF Restart
    <2>2. felt' = felt /\ felt = Silence
      BY <1>1, <1>2 DEF Restart, GraphInv
    <2>3. a \in Nat
      BY GraphAssumption
    <2>4. PICK h : h = EmptyGraph(a) /\ g' = h
      BY <2>1
    <2>5. Sound(h) /\ Felt(h, Silence) /\ h.migrations = <<>>
      BY <2>3, <2>4, EmptySound DEF Silence
    <2>6. Due(h, Len(ledger))
      BY <2>5 DEF Due
    <2> QED BY <1>1, <2>2, <2>4, <2>5, <2>6 DEF GraphInv, Down
  <1>3. CASE file # None
    <2>1. PICK read : read = Decode(file.image)
      OBVIOUS
    <2>2. read.ok /\ g' = read.graph /\ felt' = file.felt
      BY <1>3, <2>1 DEF Restart
    <2>3. Sound(read.graph) /\ Felt(read.graph, file.felt) /\ Due(read.graph, Len(ledger))
      BY <1>3, <2>1, <2>2, FileReads
    <2> QED BY <1>1, <2>2, <2>3 DEF GraphInv, Down
  <1> QED BY <1>2, <1>3

LEMMA ExpandKeeps ==
  ASSUME GraphInv, ExpandNeural
  PROVE  GraphInv'
  <1>1. PICK read : read = Decode(file.image)
    OBVIOUS
  <1>2. PICK a : a = read.graph
    OBVIOUS
  <1>3. PICK m : m = [boundary |-> Len(ledger), source |-> a.architecture,
                      target |-> a.architecture + 1]
    OBVIOUS
  <1>4. PICK h : h = expand_neural(a, m)
    OBVIOUS
  <1>5. /\ file # None /\ read.ok /\ file' = [file EXCEPT !.image = Encode(h)]
        /\ UNCHANGED <<g, status, ledger, journal, felt>>
    BY <1>1, <1>2, <1>3, <1>4, Zenon DEF ExpandNeural
  <1>6. /\ Sound(a) /\ Felt(a, file.felt) /\ Due(a, Len(ledger))
        /\ file = [image |-> file.image, felt |-> file.felt]
    BY <1>1, <1>2, <1>5, FileReads
  <1>7. Len(ledger) \in Nat /\ a.architecture \in Nat
    <2>1. ledger \in Seq(Recorded)
      BY DEF GraphInv
    <2>2. a \in Graphs
      BY <1>6 DEF Sound, Stored
    <2>3. Len(ledger) \in Nat
      BY <2>1
    <2> QED BY <2>2, <2>3 DEF Graphs
  <1>8. m \in Migration /\ m.boundary = Len(ledger) /\ m.source = a.architecture
        /\ m.target = a.architecture + 1
    BY <1>3, <1>7 DEF Migration
  <1>9. Follows(a, m)
    BY <1>6, <1>7, <1>8 DEF Follows, Due, migration_validate
  <1>10. Sound(h) /\ h.migrations = Append(a.migrations, m) /\ Felt(h, file.felt)
    BY <1>4, <1>6, <1>9, ExpandSound
  <1>11. Due(h, Len(ledger))
    <2>1. PICK s \in Seq(Migration) : s = a.migrations
      BY <1>6 DEF Sound, Stored, Graphs
    <2>2. h.migrations = Append(s, m)
      BY <1>10, <2>1
    <2>3. ASSUME NEW i \in 1..Len(Append(s, m))
          PROVE  Append(s, m)[i].boundary <= Len(ledger)
      <3>1. i \in 1..Len(s) \/ i = Len(s) + 1
        BY <1>8
      <3>2. CASE i \in 1..Len(s)
        <4>1. Append(s, m)[i] = s[i]
          BY <1>8, <3>2
        <4> QED BY <1>6, <2>1, <3>2, <4>1 DEF Due
      <3>3. CASE i = Len(s) + 1
        <4>1. Append(s, m)[i] = m
          BY <1>8, <3>3
        <4> QED BY <1>7, <1>8, <4>1
      <3> QED BY <3>1, <3>2, <3>3
    <2> QED BY <2>2, <2>3 DEF Due
  <1>12. Written(file', Len(ledger'))
    <2>1. PICK image, felts : image = Encode(h) /\ felts = file.felt
      OBVIOUS
    <2>2. PICK old : file = [image |-> old, felt |-> felts]
      BY <1>6, <2>1
    <2>3. file' = [image |-> image, felt |-> felts]
      BY <1>5, <2>1, <2>2
    <2>4. Written(file', Len(ledger))
      BY <1>10, <1>11, <2>1, <2>3, WriteIs
    <2> QED BY <1>5, <2>4
  <1> QED BY <1>5, <1>12 DEF GraphInv, Down

LEMMA ExcludeKeeps ==
  ASSUME GraphInv, NEW id \in DOMAIN ledger, Exclude(id)
  PROVE  GraphInv'
  <1>1. /\ ledger' = [ledger EXCEPT ![id].outcome = "excluded"]
        /\ UNCHANGED <<g, status, file, journal, felt>>
    BY DEF Exclude
  <1>2. ledger \in Seq(Recorded)
    BY DEF GraphInv
  <1>3. PICK e \in Recorded : e = ledger[id]
    BY <1>2
  <1>4. PICK x \in Recorded : x = [e EXCEPT !.outcome = "excluded"]
    BY DEF Recorded
  <1>5. ledger' = [ledger EXCEPT ![id] = x]
    BY <1>1, <1>3, <1>4
  <1>6. ledger' \in Seq(Recorded) /\ Len(ledger') = Len(ledger)
    <2> HIDE DEF Recorded
    <2> QED BY <1>2, <1>5
  <1> QED BY <1>1, <1>6 DEF GraphInv, Down

LEMMA RebuildFromKeeps ==
  ASSUME GraphInv, Down, NEW initial \in Nat, NEW final, NEW migrations \in Seq(Migration),
         RebuildFrom(initial, final, migrations), UNCHANGED <<g, ledger, journal, felt>>
  PROVE  GraphInv'
  <1>1. PICK r : /\ r = RebuiltGraph(initial, migrations)
                 /\ LET ok == r.ok /\ r.graph.architecture = final
                    IN /\ file' = IF ok THEN [image |-> Encode(r.graph),
                                              felt |-> [t \in Tokens |-> Signals(journal, t)]]
                                  ELSE file
                       /\ status' = IF ok THEN "ended" ELSE "refused"
    BY Zenon DEF RebuildFrom
  <1>2. /\ Sound(r.graph)
        /\ r.ok => /\ Felt(r.graph, [t \in Tokens |-> Signals(journal, t)])
                   /\ Timely(r.graph)
    BY <1>1, RebuiltSound DEF GraphInv
  <1>3. file' # None => Written(file', Len(ledger'))
    <2>1. CASE r.ok /\ r.graph.architecture = final
      <3>1. PICK h, felts : h = r.graph /\ felts = [t \in Tokens |-> Signals(journal, t)]
        OBVIOUS
      <3>2. Sound(h) /\ Felt(h, felts) /\ Due(h, Len(ledger))
        BY <1>2, <2>1, <3>1 DEF Due, Timely
      <3>3. PICK f : f = [image |-> Encode(h), felt |-> felts] /\ file' = f
        BY <1>1, <2>1, <3>1
      <3>4. Written(f, Len(ledger))
        BY <3>2, <3>3, WriteIs
      <3> QED BY <3>3, <3>4
    <2>2. CASE ~(r.ok /\ r.graph.architecture = final)
      <3>1. file' = file
        BY <1>1, <2>2
      <3> QED BY <3>1 DEF GraphInv
    <2> QED BY <2>1, <2>2
  <1> QED BY <1>3 DEF GraphInv

LEMMA RebuildKeeps ==
  ASSUME GraphInv, Rebuild
  PROVE  GraphInv'
  <1>1. Down /\ UNCHANGED <<g, ledger, journal, felt>>
    BY DEF Rebuild
  <1>2. CASE file = None
    <2>1. PICK a \in Declared : RebuildFrom(a, a, <<>>)
      BY <1>2 DEF Rebuild
    <2>2. a \in Nat
      BY GraphAssumption
    <2>3. PICK none \in Seq(Migration) : none = <<>>
      <3>1. <<>> \in Seq(Migration)
        OBVIOUS
      <3> QED BY <3>1
    <2>4. RebuildFrom(a, a, none)
      BY <2>1, <2>3
    <2> QED BY <1>1, <2>2, <2>4, RebuildFromKeeps
  <1>3. CASE file # None
    <2>1. PICK read : read = Decode(file.image)
      OBVIOUS
    <2>2. PICK final, history, initial :
            /\ final = snapshot_architecture(file.image) /\ history = read.graph.migrations
            /\ initial = IF history = <<>> THEN final ELSE history[1].source
      OBVIOUS
    <2>3. read.ok /\ RebuildFrom(initial, final, history)
      BY <1>3, <2>1, <2>2 DEF Rebuild
    <2>4. Sound(read.graph) /\ final = read.graph.architecture
      BY <1>3, <2>1, <2>2, <2>3, FileReads
    <2>5. read.graph \in Graphs
      BY <2>4 DEF Sound, Stored
    <2>6. final \in Nat /\ history \in Seq(Migration)
      BY <2>2, <2>4, <2>5 DEF Graphs
    <2>7. initial \in Nat
      <3>1. CASE history = <<>>
        BY <2>2, <2>6, <3>1
      <3>2. CASE history # <<>>
        <4>1. history[1] \in Migration
          BY <2>6, <3>2
        <4> QED BY <2>2, <3>2, <4>1 DEF Migration
      <3> QED BY <3>1, <3>2
    <2> QED BY <1>1, <2>3, <2>6, <2>7, RebuildFromKeeps
  <1> QED BY <1>2, <1>3

LEMMA StepInvariant ==
  ASSUME GraphInv, [Next]_vars
  PROVE  GraphInv'
  <1>1. ASSUME NEW text \in Texts, Observe(text) PROVE GraphInv'
    BY <1>1, ObserveKeeps
  <1>2. ASSUME NEW text \in Texts, Recall(text, 1) PROVE GraphInv'
    <2>1. PICK positions : /\ Running /\ g' = Recalled(g, positions)
                           /\ UNCHANGED <<status, file, ledger, journal, felt>>
      BY <1>2 DEF Recall
    <2> QED BY <2>1, RecalledKeeps
  <1>3. ASSUME NEW text \in Texts, RecallRanked(text, 1) PROVE GraphInv'
    <2>1. PICK positions : /\ Running /\ g' = Recalled(g, positions)
                           /\ UNCHANGED <<status, file, ledger, journal, felt>>
      BY <1>3 DEF RecallRanked
    <2> QED BY <2>1, RecalledKeeps
  <1>4. ASSUME NEW token \in Concepts, NEW signal \in Signs, Feel(token, signal) PROVE GraphInv'
    BY <1>4, FeelKeeps
  <1>5. ASSUME Save PROVE GraphInv'
    BY <1>5, SaveKeeps
  <1>6. ASSUME NEW n \in Ceilings, Rotate(n) PROVE GraphInv'
    BY <1>6, RotateKeeps
  <1>7. ASSUME Stop PROVE GraphInv'
    BY <1>7, StopKeeps
  <1>8. ASSUME Restart PROVE GraphInv'
    BY <1>8, RestartKeeps
  <1>9. ASSUME ExpandNeural PROVE GraphInv'
    BY <1>9, ExpandKeeps
  <1>10. ASSUME NEW id \in DOMAIN ledger, Exclude(id) PROVE GraphInv'
    BY <1>10, ExcludeKeeps
  <1>11. ASSUME Rebuild PROVE GraphInv'
    BY <1>11, RebuildKeeps
  <1>12. ASSUME UNCHANGED vars PROVE GraphInv'
    BY <1>12 DEF GraphInv, vars, Down
  <1> QED
    BY <1>1, <1>2, <1>3, <1>4, <1>5, <1>6, <1>7, <1>8, <1>9, <1>10, <1>11, <1>12 DEF Next

\* Observing, recalling, feeling, pruning, expanding, rebuilding, saving and
\* loading leave a sound graph, whatever the texts, the hashes and the ceilings.
THEOREM GraphInvariant == Spec => []GraphInv
  <1>1. Init => GraphInv
    BY FirstInvariant
  <1>2. GraphInv /\ [Next]_vars => GraphInv'
    BY StepInvariant
  <1> QED BY <1>1, <1>2, PTL DEF Spec

---------------------------------------------------------------------------
(* The properties. *)

\* The first of a sequence that fits, where at most one does.
LEMMA OnlyLeast ==
  ASSUME NEW I \in SUBSET Nat, NEW i, I = {i}
  PROVE  Min(I) = i
  <1>1. I # {}
    OBVIOUS
  <1>2. Min(I) \in I
    BY <1>1, LeastIn
  <1> QED BY <1>2

LEMMA NodeIsFirst ==
  ASSUME NEW graph, Sound(graph), NEW token \in Tokens
  PROVE  find_node(graph, token) = SelectInSeq(graph.nodes, LAMBDA n : n.token = token)
  <1> DEFINE I == {i \in 1..Len(graph.nodes) : graph.nodes[i].token = token}
             w == SelectInSeq(graph.nodes, LAMBDA n : n.token = token)
             at == find_node(graph, token)
  <1>1. w = IF I # {} THEN Min(I) ELSE 0
    BY DEF SelectInSeq
  <1>2. \/ at \in 1..Len(graph.nodes) /\ graph.nodes[at].token = token
        \/ at = 0 /\ \A i \in 1..Len(graph.nodes) : graph.nodes[i].token # token
    BY FoundNode DEF Sound
  <1>3. \A i, k \in 1..Len(graph.nodes) : graph.nodes[i].token = graph.nodes[k].token => i = k
    BY DEF Sound, Stored, NodesSound
  <1>4. I \in SUBSET Nat
    OBVIOUS
  <1> HIDE DEF w, at
  <1>5. CASE at \in 1..Len(graph.nodes) /\ graph.nodes[at].token = token
    <2>1. I = {at}
      BY <1>3, <1>5
    <2>2. Min(I) = at
      <3> HIDE DEF I
      <3> QED BY <1>4, <2>1, OnlyLeast
    <2> HIDE DEF I
    <2> QED BY <1>1, <2>1, <2>2 DEF w, at
  <1>6. CASE at = 0 /\ \A i \in 1..Len(graph.nodes) : graph.nodes[i].token # token
    <2>1. I = {}
      BY <1>6
    <2> HIDE DEF I
    <2> QED BY <1>1, <1>6, <2>1 DEF w, at
  <1> QED BY <1>2, <1>5, <1>6

LEMMA EdgeIsFirst ==
  ASSUME NEW graph, Sound(graph), NEW s \in 1..Len(graph.nodes), NEW t \in 1..Len(graph.nodes)
  PROVE  find_edge(graph, s, t)
           = SelectInSeq(graph.edges, LAMBDA e : e.source = s /\ e.target = t)
  <1> DEFINE I == {i \in 1..Len(graph.edges) :
                     graph.edges[i].source = s /\ graph.edges[i].target = t}
             w == SelectInSeq(graph.edges, LAMBDA e : e.source = s /\ e.target = t)
             at == find_edge(graph, s, t)
  <1>1. w = IF I # {} THEN Min(I) ELSE 0
    BY DEF SelectInSeq
  <1>2. \/ /\ at \in 1..Len(graph.edges)
           /\ graph.edges[at].source = s /\ graph.edges[at].target = t
        \/ /\ at = 0
           /\ \A i \in 1..Len(graph.edges) :
                ~(graph.edges[i].source = s /\ graph.edges[i].target = t)
    BY FoundEdge DEF Sound
  <1>3. \A i, k \in 1..Len(graph.edges) :
          graph.edges[i].source = graph.edges[k].source
            /\ graph.edges[i].target = graph.edges[k].target => i = k
    BY DEF Sound, Stored, EdgesSound
  <1>4. I \in SUBSET Nat
    OBVIOUS
  <1> HIDE DEF w, at
  <1>5. CASE at \in 1..Len(graph.edges) /\ graph.edges[at].source = s
             /\ graph.edges[at].target = t
    <2>1. I = {at}
      BY <1>3, <1>5
    <2>2. Min(I) = at
      <3> HIDE DEF I
      <3> QED BY <1>4, <2>1, OnlyLeast
    <2> HIDE DEF I
    <2> QED BY <1>1, <2>1, <2>2 DEF w, at
  <1>6. CASE at = 0 /\ \A i \in 1..Len(graph.edges) :
                          ~(graph.edges[i].source = s /\ graph.edges[i].target = t)
    <2>1. I = {}
      BY <1>6
    <2> HIDE DEF I
    <2> QED BY <1>1, <1>6, <2>1 DEF w, at
  <1> QED BY <1>2, <1>5, <1>6

\* A probe of either table (atp_find_node, atp_find_edge) finds every token and
\* every pair that is there, and nothing else.
THEOREM IndexesAreComplete == Spec => []IndexesFindEverything
  <1>1. GraphInv => IndexesFindEverything
    <2>1. SUFFICES ASSUME GraphInv PROVE IndexesFindEverything
      OBVIOUS
    <2>2. Sound(g)
      BY <2>1 DEF GraphInv
    <2>3. DOMAIN g.nodes = 1..Len(g.nodes)
      <3>1. g.nodes \in Seq(Node)
        BY <2>2 DEF Sound, Stored, Graphs
      <3> QED BY <3>1
    <2>4. \A t \in Tokens :
            find_node(g, t) = SelectInSeq(g.nodes, LAMBDA n : n.token = t)
      BY <2>2, NodeIsFirst
    <2>5. \A s, t \in DOMAIN g.nodes :
            find_edge(g, s, t) = SelectInSeq(g.edges, LAMBDA e : e.source = s /\ e.target = t)
      BY <2>2, <2>3, EdgeIsFirst
    <2> QED BY <2>4, <2>5 DEF IndexesFindEverything
  <1> QED BY <1>1, GraphInvariant, PTL

\* Prefiltering by group (atp_graph_recall) hides no episode that shares a token
\* with the query.
THEOREM RecallHidesNothing == Spec => []RecallIsExact
  <1>1. GraphInv => RecallIsExact
    <2>1. SUFFICES ASSUME GraphInv, NEW query \in SUBSET DOMAIN g.nodes,
                          NEW i \in DOMAIN g.episodes, Overlaps(g.episodes[i], query)
                   PROVE  i \in Scanned(g, query)
      BY DEF RecallIsExact
    <2>2. Sound(g)
      BY <2>1 DEF GraphInv
    <2>3. g.episodes \in Seq(Episode)
      BY <2>2 DEF Sound, Stored, Graphs
    <2>4. i \in 1..Len(g.episodes) /\ g.episodes[i] \in Episode
      BY <2>3
    <2>5. PICK e \in Episode : e = g.episodes[i]
      BY <2>4
    <2>6. PICK group : group = g.groups[g.member[i]]
      OBVIOUS
    <2>7. Covers(group, e.summary)
      BY <2>2, <2>4, <2>5, <2>6 DEF Sound, Grouped, Covered
    <2>8. /\ SummaryNodes(e) \in Seq(Nat) /\ Len(SummaryNodes(e)) = Len(e.summary)
          /\ \A k \in 1..Len(e.summary) : SummaryNodes(e)[k] = e.summary[k].node
      BY SummaryNodesAre
    <2>9. PICK q \in query : q \in ToSet(SummaryNodes(e))
      BY <2>1, <2>5 DEF Overlaps
    <2>10. PICK k \in 1..Len(e.summary) : q = e.summary[k].node
      <3>1. DOMAIN SummaryNodes(e) = 1..Len(e.summary)
        BY <2>8
      <3> QED BY <2>8, <2>9, <3>1 DEF ToSet
    <2>11. Cardinality(group.tokens) = GroupTokenMax \/ group.tokens \cap query # {}
      BY <2>7, <2>9, <2>10 DEF Covers
    <2> QED BY <2>6, <2>11 DEF Scanned
  <1> QED BY <1>1, GraphInvariant, PTL

\* The loader (atp_graph_load) accepts a snapshot that atp_graph_save wrote, and the
\* graph it builds is the one that was saved, of all the model holds; the one check
\* that may refuse it is that on the size of the context's rows (atp_decode_context).
THEOREM SnapshotsAreReadable == Spec => []SnapshotsLoad
  <1>1. GraphInv => SnapshotsLoad
    <2>1. SUFFICES ASSUME GraphInv, file # None, NEW read, read = Decode(file.image)
                   PROVE  IF read.ok THEN Encode(read.graph) = file.image
                          ELSE Cramped(file.image)
      BY DEF SnapshotsLoad
    <2> QED BY <2>1, FileReads, FileRefused
  <1> QED BY <1>1, GraphInvariant, PTL

\* The valence record of a node (atp_graph_valence_event) holds the signals of its
\* token, in order, however atp_graph_prune_vocabulary renumbers the nodes.
THEOREM ValenceStaysWithItsToken == Spec => []ValenceFollowsItsToken
  <1>1. GraphInv => ValenceFollowsItsToken
    <2>1. SUFFICES ASSUME GraphInv, NEW t \in Tokens
                   PROVE  LET n == SelectInSeq(g.nodes, LAMBDA x : x.token = t)
                              i == SelectInSeq(g.valence, LAMBDA r : r.node = n)
                          IN felt[t] = (IF n = 0 \/ i = 0 THEN <<>> ELSE g.valence[i].signals)
      BY DEF ValenceFollowsItsToken
    <2> DEFINE n == SelectInSeq(g.nodes, LAMBDA x : x.token = t)
               I == {k \in 1..Len(g.valence) : g.valence[k].node = n}
               i == SelectInSeq(g.valence, LAMBDA r : r.node = n)
    <2>2. Sound(g) /\ Felt(g, felt)
      BY <2>1 DEF GraphInv
    <2>3. n = find_node(g, t)
      BY <2>2, NodeIsFirst
    <2> HIDE DEF n
    <2>4. i = IF I # {} THEN Min(I) ELSE 0
      BY DEF SelectInSeq
    <2> HIDE DEF i
    <2>5. \/ n \in 1..Len(g.nodes) /\ g.nodes[n].token = t
          \/ n = 0 /\ \A k \in 1..Len(g.nodes) : g.nodes[k].token # t
      BY <2>2, <2>3, FoundNode DEF Sound
    <2>6. /\ \A k \in 1..Len(g.valence) : g.valence[k].node \in 1..Len(g.nodes)
          /\ \A j, k \in 1..Len(g.nodes) : g.nodes[j].token = g.nodes[k].token => j = k
      BY <2>2 DEF Sound, Stored, ValenceSound, NodesSound
    <2>7. /\ \A k \in 1..Len(g.valence) :
               g.valence[k].signals = felt[g.nodes[g.valence[k].node].token]
          /\ felt[t] # <<>> =>
               \E k \in 1..Len(g.valence) : g.nodes[g.valence[k].node].token = t
      BY <2>2 DEF Felt
    <2>8. CASE n = 0
      <3>1. felt[t] = <<>>
        BY <2>5, <2>6, <2>7, <2>8
      <3> QED BY <2>8, <3>1 DEF n, i
    <2>9. CASE n # 0 /\ I = {}
      <3>1. felt[t] = <<>>
        BY <2>5, <2>6, <2>7, <2>9
      <3>2. i = 0
        BY <2>4, <2>9
      <3> QED BY <3>1, <3>2 DEF n, i
    <2>10. CASE n # 0 /\ I # {}
      <3>1. I \in SUBSET Nat
        OBVIOUS
      <3>2. i \in I
        <4>1. Min(I) \in I
          <5> HIDE DEF I
          <5> QED BY <2>10, <3>1, LeastIn
        <4>2. i = Min(I)
          BY <2>4, <2>10
        <4> QED BY <4>1, <4>2
      <3>3. i \in 1..Len(g.valence) /\ g.valence[i].node = n /\ i # 0
        BY <3>2
      <3>4. felt[t] = g.valence[i].signals
        BY <2>5, <2>7, <2>10, <3>3
      <3> QED BY <2>10, <3>3, <3>4 DEF n, i
    <2> QED BY <2>8, <2>9, <2>10
  <1> QED BY <1>1, GraphInvariant, PTL

\* An observation above a ceiling leaves the graph as it met it: what
\* atp_check_budget admits does not meet the ceiling half-way.
THEOREM RejectionIsWhole == Spec => RejectedWhole
  <1>1. GraphInv /\ [Next]_vars => [Running /\ status' = "capacity" => g' = g]_vars
    <2>1. SUFFICES ASSUME GraphInv, Next, Running, status' = "capacity"
                   PROVE  g' = g
      BY DEF vars
    <2>2. ASSUME NEW text \in Texts, Observe(text) PROVE g' = g
      BY <2>1, <2>2, ObserveKeeps
    <2>3. status = "ok"
      BY <2>1 DEF Running
    <2> QED
      BY <2>1, <2>2, <2>3
      DEF Next, Recall, RecallRanked, Feel, Save, Rotate, Stop, Restart, ExpandNeural,
          Exclude, Rebuild, Down
  <1> QED BY <1>1, GraphInvariant, PTL DEF Spec, RejectedWhole
=============================================================================
