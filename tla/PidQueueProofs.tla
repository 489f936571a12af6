---------------------------- MODULE PidQueueProofs ----------------------------
(***************************************************************************)
(* What the operations on a queue of pids do to the set of its pids, and   *)
(* that none gets queued twice.                                            *)
(***************************************************************************)
EXTENDS PidQueue, Functions, FiniteSetTheorems, TLAPS

\* Ranks count the entries of a queue that stay: each has one, and each number
\* up to theirs is that of one.
LEMMA RankResult ==
  ASSUME NEW n \in Nat, NEW S \in SUBSET (1..n)
  PROVE  /\ Cardinality(S) \in Nat /\ Cardinality(S) <= n
         /\ \A j \in S : Cardinality({i \in S : i <= j}) \in 1..Cardinality(S)
         /\ \A j, k \in S : Cardinality({i \in S : i <= j}) = Cardinality({i \in S : i <= k})
                            => j = k
         /\ \A r \in 1..Cardinality(S) :
              \E j \in S : Cardinality({i \in S : i <= j}) = r
<1> DEFINE Upto(j) == {i \in S : i <= j}
           rank == [j \in S |-> Cardinality(Upto(j))]
<1>1. /\ IsFiniteSet(S) /\ Cardinality(S) \in Nat /\ Cardinality(S) <= n
  <2>1. IsFiniteSet(1..n) /\ Cardinality(1..n) <= n
    BY FS_Interval
  <2>2. IsFiniteSet(S) /\ Cardinality(S) <= Cardinality(1..n)
    BY <2>1, FS_Subset
  <2>3. Cardinality(S) \in Nat /\ Cardinality(1..n) \in Nat
    BY <2>1, <2>2, FS_CardinalityType
  <2> QED
    BY <2>1, <2>2, <2>3
<1>2. ASSUME NEW j \in S
      PROVE  /\ IsFiniteSet(Upto(j)) /\ Cardinality(Upto(j)) \in Nat
             /\ Cardinality(Upto(j)) <= Cardinality(S)
  <2>1. Upto(j) \in SUBSET S
    OBVIOUS
  <2> QED
    BY <1>1, <2>1, FS_Subset, FS_CardinalityType
<1>3. ASSUME NEW j \in S  PROVE Cardinality(Upto(j)) # 0
  <2>1. j \in Upto(j)
    OBVIOUS
  <2> QED
    BY <1>2, <2>1, FS_EmptySet
<1>4. ASSUME NEW j \in S, NEW k \in S, j < k
      PROVE  Cardinality(Upto(j)) # Cardinality(Upto(k))
  <2>0. j \in Int /\ k \in Int /\ \A i \in S : i \in Int
    OBVIOUS
  <2>1. Upto(j) \in SUBSET Upto(k) /\ k \in Upto(k) /\ k \notin Upto(j)
    <3>1. \A i \in S : i <= j => i <= k
      BY <1>4, <2>0
    <3>2. ~(k <= j) /\ k <= k
      BY <1>4, <2>0
    <3> QED
      BY <3>1, <3>2
  <2> QED
    BY <1>2, <2>1, FS_Subset
<1>5. ASSUME NEW j \in S, NEW k \in S, Cardinality(Upto(j)) = Cardinality(Upto(k))
      PROVE  j = k
  <2>1. j \in Int /\ k \in Int
    OBVIOUS
  <2>2. ~(j < k) /\ ~(k < j)
    BY <1>4, <1>5
  <2> QED
    BY <2>1, <2>2
<1>6. \A j \in S : rank[j] \in 1..Cardinality(S)
  BY <1>1, <1>2, <1>3
<1>7. rank \in Injection(S, 1..Cardinality(S))
  BY <1>5, <1>6 DEF Injection, IsInjective
<1>8. IsFiniteSet(1..Cardinality(S)) /\ Cardinality(1..Cardinality(S)) = Cardinality(S)
  BY <1>1, FS_Interval
<1>9. rank \in Surjection(S, 1..Cardinality(S))
  BY <1>7, <1>8, FS_Injection
<1>10. \A r \in 1..Cardinality(S) : \E j \in S : rank[j] = r
  BY <1>9 DEF Surjection
<1> QED
  BY <1>1, <1>5, <1>6, <1>10

\* The loop of sem_remove_pid removes one pid and keeps the others.
LEMMA CompactedResult ==
  ASSUME NEW D, NEW q \in Seq(D), NEW p
  PROVE  /\ Compacted(q, p) \in Seq(D)
         /\ IsInjective(q) => IsInjective(Compacted(q, p))
         /\ Len(Compacted(q, p)) <= Len(q)
         /\ Range(Compacted(q, p)) = Range(q) \ {p}
         /\ q = <<>> => Compacted(q, p) = <<>>
<1> DEFINE S == Staying(q, p)
           N == Cardinality(S)
           Rank(j) == Cardinality({i \in S : i <= j})
           at(k) == CHOOSE j \in S : Rank(j) = k
           c == Compacted(q, p)
<1>1. Len(q) \in Nat /\ S \in SUBSET (1..Len(q)) /\ DOMAIN q = 1..Len(q)
  BY DEF Staying
<1>2. N \in Nat /\ N <= Len(q)
  BY <1>1, RankResult
<1>3. \A j \in S : Rank(j) \in 1..N
  BY <1>1, RankResult
<1>4. \A j, k \in S : Rank(j) = Rank(k) => j = k
  BY <1>1, RankResult
<1>5. \A r \in 1..N : \E j \in S : Rank(j) = r
  BY <1>1, RankResult
<1> HIDE DEF Rank, N
<1>6. \A k \in 1..N : at(k) \in S /\ Rank(at(k)) = k
  BY <1>5
<1>7. c = [k \in 1..N |-> q[at(k)]]
  BY DEF Compacted, N, Rank
<1> HIDE DEF at, c, S
<1>8. \A k \in 1..N : at(k) \in 1..Len(q) /\ c[k] = q[at(k)] /\ c[k] \in D /\ c[k] # p
  BY <1>1, <1>6, <1>7 DEF S, Staying
<1>9. c \in Seq(D) /\ Len(c) = N /\ DOMAIN c = 1..N
  BY <1>2, <1>7, <1>8
<1>10. ASSUME IsInjective(q), NEW k \in 1..N, NEW l \in 1..N, c[k] = c[l]  PROVE k = l
  <2>1. at(k) = at(l)
    BY <1>1, <1>8, <1>10 DEF IsInjective
  <2> QED
    BY <1>6, <2>1
<1>11. ASSUME NEW x \in Range(q) \ {p}  PROVE x \in Range(c)
  <2>1. PICK j \in 1..Len(q) : q[j] = x
    BY <1>1 DEF Range
  <2>2. j \in S
    BY <2>1 DEF S, Staying
  <2>3. Rank(j) \in 1..N /\ at(Rank(j)) = j
    BY <1>3, <1>4, <1>6, <2>2
  <2> QED
    BY <1>8, <1>9, <2>1, <2>3 DEF Range
<1>12. ASSUME NEW x \in Range(c)  PROVE x \in Range(q) \ {p}
  BY <1>1, <1>8, <1>9, <1>12 DEF Range
<1>13. Range(c) = Range(q) \ {p}
  BY <1>11, <1>12
<1>14. q = <<>> => c = <<>>
  BY <1>2, <1>9
<1> QED
  BY <1>2, <1>9, <1>10, <1>13, <1>14 DEF c, IsInjective

\* Taking the head of a queue, and adding a tail.
LEMMA TailOfQueue ==
  ASSUME NEW D, NEW q \in Seq(D), IsInjective(q), q # <<>>
  PROVE  /\ Tail(q) \in Seq(D) /\ IsInjective(Tail(q)) /\ Len(Tail(q)) = Len(q) - 1
         /\ Head(q) \in Range(q)
         /\ Range(Tail(q)) = Range(q) \ {Head(q)}
<1> DEFINE u == Tail(q)
<1>1. /\ Len(q) \in Nat /\ Len(q) >= 1 /\ u \in Seq(D) /\ Len(u) = Len(q) - 1
      /\ Head(q) = q[1] /\ DOMAIN q = 1..Len(q) /\ DOMAIN u = 1..(Len(q) - 1)
      /\ \A k \in 1..(Len(q) - 1) : u[k] = q[k + 1]
  OBVIOUS
<1> HIDE DEF u
<1>2. Head(q) \in Range(q)
  BY <1>1 DEF Range
<1>3. ASSUME NEW k \in 1..Len(u), NEW l \in 1..Len(u), u[k] = u[l]  PROVE k = l
  <2>1. q[k + 1] = q[l + 1] /\ k + 1 \in 1..Len(q) /\ l + 1 \in 1..Len(q)
    BY <1>1, <1>3
  <2>2. k + 1 = l + 1
    BY <1>1, <2>1 DEF IsInjective
  <2> QED
    BY <1>1, <2>2
<1>4. ASSUME NEW x \in Range(u)  PROVE x \in Range(q) \ {Head(q)}
  <2>1. PICK k \in 1..Len(u) : u[k] = x
    BY <1>1 DEF Range
  <2>2. k + 1 \in 1..Len(q) /\ q[k + 1] = x /\ 1 \in 1..Len(q) /\ k + 1 # 1
    BY <1>1, <2>1
  <2> QED
    BY <1>1, <2>2 DEF Range, IsInjective
<1>5. ASSUME NEW x \in Range(q) \ {Head(q)}  PROVE x \in Range(u)
  <2>1. PICK k \in 1..Len(q) : q[k] = x /\ k # 1
    BY <1>1, <1>5 DEF Range
  <2>2. k - 1 \in 1..Len(u) /\ u[k - 1] = x
    BY <1>1, <2>1
  <2> QED
    BY <1>1, <2>2 DEF Range
<1>6. Range(u) = Range(q) \ {Head(q)}
  BY <1>4, <1>5
<1> QED
  BY <1>1, <1>2, <1>3, <1>6 DEF u, IsInjective

LEMMA AppendToQueue ==
  ASSUME NEW D, NEW q \in Seq(D), IsInjective(q), NEW x \in D, x \notin Range(q)
  PROVE  /\ Append(q, x) \in Seq(D) /\ IsInjective(Append(q, x))
         /\ Len(Append(q, x)) = Len(q) + 1
         /\ Range(Append(q, x)) = Range(q) \cup {x}
<1> DEFINE u == Append(q, x)
<1>1. /\ Len(q) \in Nat /\ u \in Seq(D) /\ Len(u) = Len(q) + 1
      /\ DOMAIN q = 1..Len(q) /\ DOMAIN u = 1..(Len(q) + 1)
      /\ \A k \in 1..Len(q) : u[k] = q[k]
      /\ u[Len(q) + 1] = x
  OBVIOUS
<1> HIDE DEF u
<1>2. ASSUME NEW k \in 1..Len(u), NEW l \in 1..Len(u), u[k] = u[l]  PROVE k = l
  <2>1. \A m \in 1..Len(q) : u[m] # x
    BY <1>1 DEF Range
  <2> QED
    BY <1>1, <1>2, <2>1 DEF IsInjective
<1>3. ASSUME NEW y \in Range(u)  PROVE y \in Range(q) \cup {x}
  BY <1>1 DEF Range
<1>4. ASSUME NEW y \in Range(q) \cup {x}  PROVE y \in Range(u)
  BY <1>1 DEF Range
<1> QED
  BY <1>1, <1>2, <1>3, <1>4 DEF u, IsInjective
=============================================================================
