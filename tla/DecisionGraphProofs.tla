-------------------------- MODULE DecisionGraphProofs --------------------------
(***************************************************************************)
(* What execute_graph promises, for any graph, any model, any limits and   *)
(* any answers: a graph that is answered has decided the nodes whose       *)
(* conditions hold and no other, and its waves are the stages of its plan, *)
(* within the limits of the model and of the application.  First           *)
(* recursion over the naturals, then the levels of a graph, its order and  *)
(* its chunks, then the invariant of the execution.                        *)
(***************************************************************************)
EXTENDS Decisions, FiniteSetTheorems, SequenceTheorems, WellFoundedInduction, TLAPS

-------------------------------------------------------------------------------
(* Induction and recursion over the naturals, by sets and functions.       *)

LEMMA LeastExists ==
    ASSUME NEW T \in SUBSET Nat, T # {}
    PROVE  \E m \in T : \A k \in T : m <= k
<1> DEFINE less == OpToRel(<, Nat)
<1>1. IsWellFoundedOn(less, Nat)
  BY NatLessThanWellFounded, Zenon
<1>2. ASSUME NEW i \in Nat, NEW j \in Nat, i < j PROVE <<i, j>> \in less
  BY <1>2, SMT DEF OpToRel
<1> HIDE DEF less
<1>3. PICK x \in T : \A y \in T : <<y, x>> \notin less
  BY <1>1, WFMin
<1>4. \A y \in T : ~(y < x)
  BY <1>2, <1>3, Zenon
<1> QED BY <1>4

LEMMA SetInduction ==
    ASSUME NEW T \in SUBSET Nat, 0 \in T, \A n \in T : n + 1 \in T
    PROVE  T = Nat
<1> SUFFICES ASSUME Nat \ T # {} PROVE FALSE
  OBVIOUS
<1>1. PICK m \in Nat \ T : \A k \in Nat \ T : m <= k
  BY LeastExists
<1>2. m # 0 /\ m - 1 \in Nat /\ ~(m <= m - 1)
  OBVIOUS
<1>3. m - 1 \in T
  BY <1>1, <1>2
<1> QED BY <1>2, <1>3

\* A function is defined by its value at 0 and by each value from the one before.
Recursive(g, S, base, F) ==
    g \in [Nat -> S] /\ g[0] = base /\ \A n \in Nat : g[n + 1] = F[n + 1][g[n]]

LEMMA Recursion ==
    ASSUME NEW S, NEW base \in S, NEW F \in [Nat -> [S -> S]]
    PROVE  \E g : Recursive(g, S, base, F)
<1> DEFINE Partial(n) == {h \in [0..n -> S] : h[0] = base /\ \A i \in 1..n : h[i] = F[i][h[i - 1]]}
<1>1. \A n \in Nat : Partial(n) # {}
  <2> DEFINE T == {n \in Nat : Partial(n) # {}}
  <2>1. 0 \in T
    <3> DEFINE h == [i \in 0..0 |-> base]
    <3>1. h \in Partial(0)
      OBVIOUS
    <3> QED BY <3>1
  <2>2. ASSUME NEW n \in T PROVE n + 1 \in T
    <3>1. PICK h \in Partial(n) : TRUE
      OBVIOUS
    <3> DEFINE k == [i \in 0..(n + 1) |-> IF i = n + 1 THEN F[n + 1][h[n]] ELSE h[i]]
    <3>2. h[n] \in S /\ F[n + 1] \in [S -> S]
      BY <3>1
    <3>3. F[n + 1][h[n]] \in S
      BY <3>2
    <3>4. k \in [0..(n + 1) -> S]
      BY <3>1, <3>3
    <3>5. k[0] = base
      BY <3>1
    <3>6. ASSUME NEW i \in 1..(n + 1) PROVE k[i] = F[i][k[i - 1]]
      <4>1. CASE i = n + 1
        <5>1. k[i] = F[n + 1][h[n]] /\ i - 1 \in 0..n /\ i - 1 = n /\ i - 1 # n + 1
          BY <4>1
        <5> QED BY <5>1, <4>1
      <4>2. CASE i # n + 1
        <5>1. i \in 1..n /\ i - 1 # n + 1 /\ i - 1 \in 0..(n + 1) /\ i \in 0..(n + 1)
          BY <4>2
        <5>2. h[i] = F[i][h[i - 1]]
          BY <5>1, <3>1
        <5> QED BY <5>1, <5>2, <4>2
      <4> QED BY <4>1, <4>2
    <3>7. k \in Partial(n + 1)
      BY <3>4, <3>5, <3>6
    <3> HIDE DEF Partial, k
    <3> QED BY <3>7
  <2> HIDE DEF T
  <2>3. T \in SUBSET Nat
    BY DEF T
  <2>4. T = Nat
    BY <2>1, <2>2, <2>3, SetInduction
  <2> QED BY <2>4 DEF T
<1>2. ASSUME NEW n \in Nat, NEW m \in Nat, NEW h \in Partial(n), NEW k \in Partial(m)
      PROVE  \A i \in Nat : i <= n /\ i <= m => h[i] = k[i]
  <2> DEFINE T == {i \in Nat : i <= n /\ i <= m => h[i] = k[i]}
  <2>1. 0 \in T
    OBVIOUS
  <2>2. ASSUME NEW i \in T PROVE i + 1 \in T
    <3> SUFFICES ASSUME i + 1 <= n, i + 1 <= m PROVE h[i + 1] = k[i + 1]
      OBVIOUS
    <3>1. h[i] = k[i] /\ i + 1 \in 1..n /\ i + 1 \in 1..m /\ (i + 1) - 1 = i
      OBVIOUS
    <3>2. h[i + 1] = F[i + 1][h[(i + 1) - 1]] /\ k[i + 1] = F[i + 1][k[(i + 1) - 1]]
      BY <3>1
    <3> QED BY <3>1, <3>2
  <2> HIDE DEF T
  <2>3. T \in SUBSET Nat
    BY DEF T
  <2>4. T = Nat
    BY <2>1, <2>2, <2>3, SetInduction
  <2> QED BY <2>4 DEF T
<1> DEFINE at(n) == CHOOSE h \in Partial(n) : TRUE
<1> DEFINE g == [n \in Nat |-> at(n)[n]]
<1>3. \A n \in Nat : at(n) \in Partial(n)
  BY <1>1
<1> HIDE DEF at
<1>4. \A n \in Nat : at(n)[n] \in S /\ at(n)[0] = base
  BY <1>3
<1>5. g \in [Nat -> S] /\ g[0] = base
  BY <1>4
<1>6. ASSUME NEW n \in Nat PROVE g[n + 1] = F[n + 1][g[n]]
  <2>1. at(n) \in Partial(n) /\ at(n + 1) \in Partial(n + 1)
    BY <1>3
  <2>2. n + 1 \in 1..(n + 1) /\ (n + 1) - 1 = n
    OBVIOUS
  <2>3. at(n + 1)[n + 1] = F[n + 1][at(n + 1)[n]]
    BY <2>1, <2>2
  <2>4. at(n + 1)[n] = at(n)[n]
    <3> HIDE DEF Partial
    <3>1. n + 1 \in Nat /\ n <= n + 1 /\ n <= n
      OBVIOUS
    <3> QED BY <1>2, <2>1, <3>1
  <2> QED BY <2>3, <2>4
<1>7. Recursive(g, S, base, F)
  <2> HIDE DEF g
  <2> QED BY <1>5, <1>6 DEF Recursive
<1> QED BY <1>7

-------------------------------------------------------------------------------
(* The levels of a graph, and the rounds of the skipping loop.             *)

LEMMA UpToDef ==
    /\ UpTo \in [Nat -> SUBSET Indices]
    /\ UpTo[0] = {}
    /\ \A k \in Nat : UpTo[k + 1] = UpTo[k] \cup Level(UpTo[k])
<1> DEFINE more(done) == done \cup Level(done)
<1> DEFINE F == [k \in Nat |-> [done \in SUBSET Indices |-> more(done)]]
<1> DEFINE IsUpTo(f) == f = [k \in Nat |-> IF k = 0 THEN {} ELSE f[k - 1] \cup Level(f[k - 1])]
<1>1. F \in [Nat -> [SUBSET Indices -> SUBSET Indices]]
  BY DEF Level
<1>2. {} \in SUBSET Indices
  OBVIOUS
<1>3. PICK g \in [Nat -> SUBSET Indices] :
         g[0] = {} /\ \A k \in Nat : g[k + 1] = F[k + 1][g[k]]
  <2> DEFINE Sets == SUBSET Indices
  <2>1. F \in [Nat -> [Sets -> Sets]] /\ {} \in Sets
    BY <1>1, <1>2
  <2> HIDE DEF F, Sets
  <2>2. \E g : Recursive(g, Sets, {}, F)
    BY <2>1, Recursion, Zenon
  <2> QED BY <2>2 DEF Sets, Recursive
<1>4. ASSUME NEW k \in Nat PROVE g[k + 1] = more(g[k])
  <2>1. g[k] \in SUBSET Indices /\ k + 1 \in Nat
    OBVIOUS
  <2>2. F[k + 1] = [done \in SUBSET Indices |-> more(done)]
    BY <2>1
  <2>3. F[k + 1][g[k]] = more(g[k])
    <3> HIDE DEF more, F
    <3> QED BY <2>1, <2>2
  <2> QED BY <1>3, <2>3
<1>5. IsUpTo(g)
  <2>1. ASSUME NEW k \in Nat
        PROVE  g[k] = IF k = 0 THEN {} ELSE g[k - 1] \cup Level(g[k - 1])
    <3>1. CASE k = 0
      BY <3>1, <1>3
    <3>2. CASE k # 0
      <4>1. k - 1 \in Nat /\ (k - 1) + 1 = k
        BY <3>2
      <4>2. g[(k - 1) + 1] = more(g[k - 1])
        BY <4>1, <1>4
      <4> QED BY <4>1, <4>2, <3>2
    <3> QED BY <3>1, <3>2
  <2> QED BY <2>1
<1>6. UpTo = CHOOSE f : IsUpTo(f)
  BY DEF UpTo
<1>7. IsUpTo(UpTo)
  <2> HIDE DEF IsUpTo
  <2> QED BY <1>5, <1>6, Zenon
<1>8. UpTo[0] = {} /\ \A k \in Nat : UpTo[k + 1] = more(UpTo[k])
  <2>1. UpTo[0] = {}
    BY <1>7
  <2>2. ASSUME NEW k \in Nat PROVE UpTo[k + 1] = more(UpTo[k])
    <3>1. k + 1 \in Nat /\ k + 1 # 0 /\ (k + 1) - 1 = k
      OBVIOUS
    <3>2. UpTo[k + 1] = IF k + 1 = 0 THEN {} ELSE UpTo[(k + 1) - 1] \cup Level(UpTo[(k + 1) - 1])
      BY <3>1, <1>7
    <3> QED BY <3>1, <3>2
  <2> QED BY <2>1, <2>2
<1>9. UpTo \in [Nat -> SUBSET Indices]
  <2> DEFINE T == {k \in Nat : UpTo[k] \subseteq Indices}
  <2>1. T = Nat
    <3>1. 0 \in T
      BY <1>8
    <3>2. \A k \in T : k + 1 \in T
      BY <1>8 DEF Level
    <3>3. T \in SUBSET Nat
      OBVIOUS
    <3> HIDE DEF T
    <3> QED BY <3>1, <3>2, <3>3, SetInduction
  <2>2. UpTo = [k \in Nat |-> UpTo[k]]
    BY <1>7
  <2>3. \A k \in Nat : UpTo[k] \in SUBSET Indices
    BY <2>1
  <2> QED BY <2>2, <2>3
<1> QED BY <1>8, <1>9

LEMMA SkippingDef ==
    ASSUME pending \subseteq Indices, skipped \subseteq Indices
    PROVE  /\ Skipping \in [Nat -> SUBSET Indices]
           /\ Skipping[0] = skipped
           /\ \A n \in Nat : Skipping[n + 1] = Skipping[n] \cup
                {i \in pending \ Skipping[n] : RuledOut(i, Skipping[n])}
<1> DEFINE more(gone) == gone \cup {i \in pending \ gone : RuledOut(i, gone)}
<1> DEFINE F == [n \in Nat |-> [gone \in SUBSET Indices |-> more(gone)]]
<1> DEFINE IsSkipping(f) ==
              f = [n \in Nat |-> IF n = 0 THEN skipped
                                 ELSE f[n - 1] \cup {i \in pending \ f[n - 1] : RuledOut(i, f[n - 1])}]
<1>1. F \in [Nat -> [SUBSET Indices -> SUBSET Indices]]
  OBVIOUS
<1>2. skipped \in SUBSET Indices
  OBVIOUS
<1>3. PICK g \in [Nat -> SUBSET Indices] :
         g[0] = skipped /\ \A n \in Nat : g[n + 1] = F[n + 1][g[n]]
  <2> DEFINE Sets == SUBSET Indices
  <2>1. F \in [Nat -> [Sets -> Sets]] /\ skipped \in Sets
    BY <1>1, <1>2
  <2> HIDE DEF F, Sets
  <2>2. \E g : Recursive(g, Sets, skipped, F)
    BY <2>1, Recursion, Zenon
  <2> QED BY <2>2 DEF Sets, Recursive
<1>4. ASSUME NEW n \in Nat PROVE g[n + 1] = more(g[n])
  <2>1. g[n] \in SUBSET Indices /\ n + 1 \in Nat
    OBVIOUS
  <2>2. F[n + 1] = [gone \in SUBSET Indices |-> more(gone)]
    BY <2>1
  <2>3. F[n + 1][g[n]] = more(g[n])
    <3> HIDE DEF more, F
    <3> QED BY <2>1, <2>2
  <2> QED BY <1>3, <2>3
<1>5. IsSkipping(g)
  <2>1. ASSUME NEW n \in Nat
        PROVE  g[n] = IF n = 0 THEN skipped ELSE more(g[n - 1])
    <3>1. CASE n = 0
      BY <3>1, <1>3
    <3>2. CASE n # 0
      <4>1. n - 1 \in Nat /\ (n - 1) + 1 = n
        BY <3>2
      <4>2. g[(n - 1) + 1] = more(g[n - 1])
        BY <4>1, <1>4
      <4> QED BY <4>1, <4>2, <3>2
    <3> QED BY <3>1, <3>2
  <2>2. g = [n \in Nat |-> g[n]]
    OBVIOUS
  <2> QED BY <2>1, <2>2, Zenon
<1>6. Skipping = CHOOSE f : IsSkipping(f)
  BY DEF Skipping
<1>7. IsSkipping(Skipping)
  <2> HIDE DEF IsSkipping
  <2> QED BY <1>5, <1>6, Zenon
<1>8. Skipping[0] = skipped
  BY <1>7
<1>9. ASSUME NEW n \in Nat PROVE Skipping[n + 1] = more(Skipping[n])
  <2>1. n + 1 \in Nat /\ n + 1 # 0 /\ (n + 1) - 1 = n
    OBVIOUS
  <2>2. Skipping[n + 1] = IF n + 1 = 0 THEN skipped ELSE more(Skipping[(n + 1) - 1])
    BY <2>1, <1>7
  <2> QED BY <2>1, <2>2
<1>10. Skipping \in [Nat -> SUBSET Indices]
  <2> DEFINE T == {n \in Nat : Skipping[n] \subseteq Indices}
  <2>1. T = Nat
    <3>1. 0 \in T
      BY <1>8
    <3>2. \A n \in T : n + 1 \in T
      BY <1>9
    <3>3. T \in SUBSET Nat
      OBVIOUS
    <3> HIDE DEF T
    <3> QED BY <3>1, <3>2, <3>3, SetInduction
  <2>2. Skipping = [n \in Nat |-> Skipping[n]]
    BY <1>7
  <2>3. \A n \in Nat : Skipping[n] \in SUBSET Indices
    BY <2>1
  <2> QED BY <2>2, <2>3
<1> QED BY <1>8, <1>9, <1>10

\* The loop ends: what the rounds skip was skipped before or is ruled out, and
\* nothing that is left is ruled out.
LEMMA SkippingResult ==
    ASSUME pending \subseteq Indices, skipped \subseteq Indices,
           Len(request.nodes) \in Nat, Indices = 1..Len(request.nodes)
    PROVE  LET gone == Skipping[Len(request.nodes)]
           IN  /\ skipped \subseteq gone /\ gone \subseteq skipped \cup pending
               /\ \A i \in gone \ skipped : RuledOut(i, gone)
               /\ \A i \in pending \ gone : ~RuledOut(i, gone)
<1> DEFINE N == Len(request.nodes)
<1> DEFINE more(gone) == {i \in pending \ gone : RuledOut(i, gone)}
<1>1. /\ Skipping \in [Nat -> SUBSET Indices]
      /\ Skipping[0] = skipped
      /\ \A n \in Nat : Skipping[n + 1] = Skipping[n] \cup more(Skipping[n])
  BY SkippingDef
<1>2. IsFiniteSet(Indices) /\ Cardinality(Indices) = N
  <2>1. IsFiniteSet(1..N) /\ Cardinality(1..N) = IF 1 > N THEN 0 ELSE N - 1 + 1
    BY FS_Interval
  <2> QED BY <2>1
<1>3. \A n \in Nat : IsFiniteSet(Skipping[n]) /\ Cardinality(Skipping[n]) \in Nat
                     /\ Cardinality(Skipping[n]) <= N
  BY <1>1, <1>2, FS_Subset, FS_CardinalityType
<1>4. \A n \in Nat : Cardinality(Skipping[n]) >= n \/ Skipping[n + 1] = Skipping[n]
  <2> DEFINE T == {n \in Nat : Cardinality(Skipping[n]) >= n \/ Skipping[n + 1] = Skipping[n]}
  <2>1. 0 \in T
    BY <1>3
  <2>2. ASSUME NEW n \in T PROVE n + 1 \in T
    <3>1. n \in Nat /\ n + 1 \in Nat
      OBVIOUS
    <3>2. CASE Skipping[n + 1] = Skipping[n]
      <4>1. Skipping[(n + 1) + 1] = Skipping[n + 1] \cup more(Skipping[n + 1])
        BY <1>1, <3>1
      <4>2. Skipping[n + 1] = Skipping[n] \cup more(Skipping[n])
        BY <1>1, <3>1
      <4>3. Skipping[(n + 1) + 1] = Skipping[n + 1]
        <5> HIDE DEF more
        <5> QED BY <4>1, <4>2, <3>2
      <4> QED BY <4>3, <3>1
    <3>3. CASE Skipping[n + 1] # Skipping[n]
      <4>1. Cardinality(Skipping[n]) >= n
        BY <3>3
      <4>2. Skipping[n] \in SUBSET Skipping[n + 1]
        BY <1>1, <3>1
      <4>3. /\ Cardinality(Skipping[n]) <= Cardinality(Skipping[n + 1])
            /\ Cardinality(Skipping[n + 1]) = Cardinality(Skipping[n]) => Skipping[n + 1] = Skipping[n]
        BY <4>2, <1>3, <3>1, FS_Subset
      <4>4. Cardinality(Skipping[n + 1]) >= n + 1
        <5> DEFINE before == Cardinality(Skipping[n])
                   after == Cardinality(Skipping[n + 1])
        <5>1. before \in Nat /\ after \in Nat
          BY <1>3, <3>1
        <5>2. before >= n /\ before <= after /\ before # after
          BY <4>1, <4>3, <3>3
        <5> HIDE DEF before, after, T
        <5>3. after >= n + 1
          BY <5>1, <5>2, <3>1
        <5> QED BY <5>3 DEF after
      <4> QED BY <4>4, <3>1
    <3> QED BY <3>2, <3>3
  <2>3. T \in SUBSET Nat
    OBVIOUS
  <2>4. T = Nat
    <3> HIDE DEF T
    <3> QED BY <2>1, <2>2, <2>3, SetInduction
  <2> QED BY <2>4
<1>5. Skipping[N + 1] = Skipping[N]
  <2>1. CASE Cardinality(Skipping[N]) >= N
    <3>1. Skipping[N] \in SUBSET Indices /\ Skipping[N + 1] \in SUBSET Indices
      BY <1>1
    <3>2. Cardinality(Skipping[N]) = Cardinality(Indices)
      BY <2>1, <1>2, <1>3
    <3>3. Skipping[N] = Indices
      BY <3>1, <3>2, <1>2, FS_Subset
    <3>4. Skipping[N] \subseteq Skipping[N + 1]
      BY <1>1
    <3> QED BY <3>1, <3>3, <3>4
  <2> QED BY <2>1, <1>4
<1>6. \A n \in Nat : /\ skipped \subseteq Skipping[n] /\ Skipping[n] \subseteq skipped \cup pending
                     /\ \A i \in Skipping[n] \ skipped : RuledOut(i, Skipping[n])
  <2> DEFINE Good(gone) == /\ skipped \subseteq gone /\ gone \subseteq skipped \cup pending
                           /\ \A i \in gone \ skipped : RuledOut(i, gone)
  <2> DEFINE T == {n \in Nat : Good(Skipping[n])}
  <2>1. 0 \in T
    BY <1>1
  <2>2. ASSUME NEW n \in T PROVE n + 1 \in T
    <3> DEFINE gone == Skipping[n]
    <3> DEFINE next == Skipping[n + 1]
    <3>1. Good(gone) /\ next = gone \cup more(gone)
      BY <1>1
    <3>2. ASSUME NEW i \in next \ skipped PROVE RuledOut(i, next)
      <4>1. RuledOut(i, gone)
        BY <3>1
      <4>2. gone \subseteq next
        BY <3>1
      <4> HIDE DEF gone, next
      <4> QED BY <4>1, <4>2 DEF RuledOut
    <3>3. skipped \subseteq next /\ next \subseteq skipped \cup pending
      BY <3>1
    <3>4. Good(next)
      BY <3>2, <3>3
    <3> QED BY <3>4
  <2>3. T \in SUBSET Nat
    OBVIOUS
  <2>4. T = Nat
    <3> HIDE DEF T
    <3> QED BY <2>1, <2>2, <2>3, SetInduction
  <2> QED BY <2>4
<1>7. \A i \in pending \ Skipping[N] : ~RuledOut(i, Skipping[N])
  <2>1. Skipping[N + 1] = Skipping[N] \cup more(Skipping[N])
    BY <1>1
  <2>2. more(Skipping[N]) \subseteq Skipping[N]
    <3> HIDE DEF more
    <3> QED BY <2>1, <1>5
  <2> QED BY <2>2
<1> QED BY <1>6, <1>7

-------------------------------------------------------------------------------
(* The order of the nodes and the chunks of a wave.                        *)

LEMMA OrderedFacts ==
    ASSUME NEW S \in SUBSET Nat, IsFiniteSet(S)
    PROVE  /\ Cardinality(S) \in Nat
           /\ Ordered(S) \in [1..Cardinality(S) -> S]
           /\ \A i \in S : \E k \in 1..Cardinality(S) : Ordered(S)[k] = i
<1> DEFINE n == Cardinality(S)
<1> DEFINE below(i) == {j \in S : j < i}
<1> DEFINE rank == [i \in S |-> Cardinality(below(i)) + 1]
<1>1. n \in Nat
  BY FS_CardinalityType
<1>2. \A i \in S : below(i) \in SUBSET S
  OBVIOUS
<1>3. \A i \in S : IsFiniteSet(below(i)) /\ Cardinality(below(i)) \in Nat
  <2> HIDE DEF below
  <2> QED BY <1>2, FS_Subset, FS_CardinalityType
<1>4. ASSUME NEW i \in S PROVE Cardinality(below(i)) < n
  <2>1. IsFiniteSet(S \ {i}) /\ Cardinality(S \ {i}) = n - 1
    BY FS_RemoveElement
  <2>2. below(i) \in SUBSET (S \ {i})
    OBVIOUS
  <2>3. Cardinality(below(i)) <= Cardinality(S \ {i})
    <3> HIDE DEF below
    <3> QED BY <2>1, <2>2, FS_Subset
  <2> QED BY <2>1, <2>3, <1>1, <1>3
<1>5. ASSUME NEW i \in S, NEW j \in S, i < j PROVE Cardinality(below(i)) < Cardinality(below(j))
  <2>1. i \notin below(i) /\ below(i) \cup {i} \in SUBSET below(j)
    <3>1. \A k \in S : k \in Nat
      OBVIOUS
    <3>2. ~(i < i) /\ \A k \in S : k < i => k < j
      BY <3>1, <1>5
    <3> QED BY <3>2, <1>5
  <2>2. Cardinality(below(i) \cup {i}) = Cardinality(below(i)) + 1
    <3> HIDE DEF below
    <3> QED BY <2>1, <1>3, FS_AddElement
  <2>3. Cardinality(below(i) \cup {i}) <= Cardinality(below(j))
    <3> HIDE DEF below
    <3> QED BY <2>1, <1>3, FS_Subset
  <2> QED BY <2>2, <2>3, <1>3
<1>6. \A i \in S, j \in S : Cardinality(below(i)) = Cardinality(below(j)) => i = j
  <2> SUFFICES ASSUME NEW i \in S, NEW j \in S, i # j
               PROVE  Cardinality(below(i)) # Cardinality(below(j))
    OBVIOUS
  <2>1. i \in Nat /\ j \in Nat
    OBVIOUS
  <2>2. i < j \/ j < i
    BY <2>1
  <2> HIDE DEF below
  <2> QED BY <2>2, <1>3, <1>5
<1>7. rank \in Injection(S, 1..n)
  <2>1. \A i \in S : rank[i] = Cardinality(below(i)) + 1
    OBVIOUS
  <2>2. \A i \in S : rank[i] \in 1..n
    <3> HIDE DEF below, rank
    <3> QED BY <2>1, <1>1, <1>3, <1>4
  <2>3. \A i \in S, j \in S : rank[i] = rank[j] => i = j
    <3> HIDE DEF below, rank
    <3> QED BY <2>1, <1>3, <1>6
  <2>4. rank = [i \in S |-> rank[i]]
    OBVIOUS
  <2> HIDE DEF rank
  <2> QED BY <2>2, <2>3, <2>4 DEF Injection, IsInjective
<1>8. rank \in Surjection(S, 1..n)
  <2>1. IsFiniteSet(1..n) /\ Cardinality(1..n) = n
    <3>1. IsFiniteSet(1..n) /\ Cardinality(1..n) = IF 1 > n THEN 0 ELSE n - 1 + 1
      BY <1>1, FS_Interval
    <3> QED BY <3>1, <1>1
  <2> HIDE DEF rank
  <2> QED BY <1>7, <2>1, FS_Injection
<1>9. \A k \in 1..n : \E i \in S : Cardinality(below(i)) = k - 1
  <2> SUFFICES ASSUME NEW k \in 1..n PROVE \E i \in S : Cardinality(below(i)) = k - 1
    OBVIOUS
  <2>1. PICK i \in S : rank[i] = k
    <3> HIDE DEF rank
    <3> QED BY <1>8 DEF Surjection
  <2>2. Cardinality(below(i)) + 1 = k
    BY <2>1
  <2> HIDE DEF below
  <2> QED BY <2>2, <1>3
<1>10. Ordered(S) = [k \in 1..n |-> CHOOSE i \in S : Cardinality(below(i)) = k - 1]
  BY DEF Ordered
<1>11. \A k \in 1..n : Ordered(S)[k] \in S /\ Cardinality(below(Ordered(S)[k])) = k - 1
  <2> SUFFICES ASSUME NEW k \in 1..n
               PROVE  Ordered(S)[k] \in S /\ Cardinality(below(Ordered(S)[k])) = k - 1
    OBVIOUS
  <2>1. Ordered(S)[k] = CHOOSE i \in S : Cardinality(below(i)) = k - 1
    <3> HIDE DEF below
    <3> QED BY <1>10
  <2> HIDE DEF below
  <2> QED BY <1>9, <2>1
<1>12. Ordered(S) \in [1..n -> S]
  <2> HIDE DEF below
  <2> QED BY <1>10, <1>11
<1>13. ASSUME NEW i \in S PROVE \E k \in 1..n : Ordered(S)[k] = i
  <2>1. Cardinality(below(i)) + 1 \in 1..n
    <3> HIDE DEF below
    <3> QED BY <1>1, <1>3, <1>4
  <2>2. Ordered(S)[Cardinality(below(i)) + 1] = i
    <3> DEFINE k == Cardinality(below(i)) + 1
    <3> HIDE DEF below
    <3>1. k \in 1..n /\ k - 1 = Cardinality(below(i))
      BY <2>1, <1>3
    <3> HIDE DEF k
    <3>2. Ordered(S)[k] \in S /\ Cardinality(below(Ordered(S)[k])) = Cardinality(below(i))
      BY <3>1, <1>11
    <3>3. Ordered(S)[k] = i
      BY <3>2, <1>6
    <3> QED BY <3>3 DEF k
  <2> QED BY <2>1, <2>2
<1> QED BY <1>1, <1>12, <1>13

LEMMA DivFacts ==
    ASSUME NEW a \in Nat, NEW b \in Nat \ {0}
    PROVE  a \div b \in Nat /\ (a \div b) * b <= a /\ a < (a \div b) * b + b
OBVIOUS

\* The chunks of a sequence take each of its elements, in runs of the size.
LEMMA ChunkedFacts ==
    ASSUME NEW S, NEW s \in Seq(S), NEW size \in Nat \ {0}
    PROVE  LET count == (Len(s) + size - 1) \div size
               chunked == Chunked(s, size)
           IN  /\ count \in Nat /\ DOMAIN chunked = 1..count
               /\ chunked \in Seq(Seq(S)) /\ Len(chunked) = count
               /\ s # <<>> => count # 0
               /\ \A k \in 1..count : Len(chunked[k]) \in 1..size
               /\ UNION {Range(chunked[k]) : k \in DOMAIN chunked} = Range(s)
<1> DEFINE n == Len(s)
<1> DEFINE count == (n + size - 1) \div size
<1> DEFINE chunk(k) == SubSeq(s, (k - 1) * size + 1, Smaller(k * size, n))
<1>1. n \in Nat /\ DOMAIN s = 1..n /\ (s # <<>> => n # 0) /\ \A i \in 1..n : s[i] \in S
  OBVIOUS
<1> HIDE DEF n
<1>2. count \in Nat /\ count * size <= n + size - 1 /\ n + size - 1 < count * size + size
  <2>1. n + size - 1 \in Nat
    BY <1>1
  <2> QED BY <2>1, DivFacts
<1> HIDE DEF count
<1>3. \A k \in Nat : k * size \in Nat /\ (k = 0 => k * size = 0)
  OBVIOUS
<1>4. ASSUME NEW k \in 1..count
      PROVE  /\ (k - 1) * size + 1 \in 1..n /\ k * size \in Nat
             /\ (k - 1) * size + size = k * size
  <2>1. k * size <= count * size /\ (k - 1) * size + size = k * size /\ k * size \in Nat
        /\ (k - 1) * size \in Nat
    BY <1>2, SMT
  <2>2. (k - 1) * size + 1 <= n
    BY <2>1, <1>1, <1>2
  <2> QED BY <2>1, <2>2, <1>1
<1>5. ASSUME NEW k \in 1..count
      PROVE  LET from == (k - 1) * size + 1
                 to == Smaller(k * size, n)
             IN  /\ chunk(k) \in Seq(S) /\ to \in from..n /\ to - from + 1 \in 1..size
                 /\ Len(chunk(k)) = to - from + 1
                 /\ \A i \in 1..to - from + 1 : chunk(k)[i] = s[from + i - 1]
  <2> DEFINE from == (k - 1) * size + 1
  <2> DEFINE to == Smaller(k * size, n)
  <2>1. from \in 1..n /\ to \in from..n /\ to - from + 1 \in 1..size
    <3>1. from \in 1..n /\ k * size \in Nat /\ k * size = from - 1 + size
      BY <1>4
    <3> HIDE DEF from
    <3>2. to \in from..n /\ to <= k * size
      BY <3>1, <1>1 DEF Smaller
    <3> QED BY <3>1, <3>2, <1>1
  <2>2. chunk(k) = SubSeq(s, from, to)
    OBVIOUS
  <2> HIDE DEF from, to, chunk
  <2>3. \A i \in from..to : s[i] \in S
    BY <2>1, <1>1
  <2>4. from \in Int /\ to \in Int /\ from <= to
    BY <2>1, <1>1
  <2>5. /\ SubSeq(s, from, to) \in Seq(S)
        /\ Len(SubSeq(s, from, to)) = to - from + 1
        /\ \A i \in 1..to - from + 1 : SubSeq(s, from, to)[i] = s[from + i - 1]
    BY <2>3, <2>4, SubSeqProperties
  <2>6. /\ chunk(k) \in Seq(S) /\ to \in from..n /\ to - from + 1 \in 1..size
        /\ Len(chunk(k)) = to - from + 1
        /\ \A i \in 1..to - from + 1 : chunk(k)[i] = s[from + i - 1]
    BY <2>1, <2>2, <2>5
  <2> QED BY <2>6 DEF from, to
<1>6. Chunked(s, size) = [k \in 1..count |-> chunk(k)]
  BY DEF Chunked, count, n
<1>7. \A k \in 1..count : Chunked(s, size)[k] = chunk(k)
  <2> HIDE DEF chunk
  <2> QED BY <1>6
<1>8. \A k \in 1..count : Chunked(s, size)[k] \in Seq(S) /\ Len(Chunked(s, size)[k]) \in 1..size
  <2> HIDE DEF chunk
  <2> QED BY <1>5, <1>7
<1>9. DOMAIN Chunked(s, size) = 1..count /\ Chunked(s, size) \in Seq(Seq(S))
      /\ Len(Chunked(s, size)) = count
  <2> HIDE DEF chunk
  <2>1. Chunked(s, size) \in [1..count -> Seq(S)]
    BY <1>6, <1>8
  <2> QED BY <2>1, <1>2
<1>10. s # <<>> => count # 0
  BY <1>1, <1>2, <1>3
<1>11. UNION {Range(Chunked(s, size)[k]) : k \in 1..count} \subseteq Range(s)
  <2> SUFFICES ASSUME NEW k \in 1..count, NEW x \in Range(Chunked(s, size)[k])
               PROVE  x \in Range(s)
    OBVIOUS
  <2> DEFINE from == (k - 1) * size + 1
  <2> DEFINE to == Smaller(k * size, n)
  <2>1. /\ chunk(k) \in Seq(S) /\ to \in from..n /\ to - from + 1 \in 1..size /\ from \in 1..n
        /\ Len(chunk(k)) = to - from + 1
        /\ \A i \in 1..to - from + 1 : chunk(k)[i] = s[from + i - 1]
    BY <1>4, <1>5
  <2>2. x \in Range(chunk(k))
    BY <1>7
  <2> HIDE DEF chunk, from, to
  <2>3. PICK i \in 1..to - from + 1 : x = chunk(k)[i]
    BY <2>1, <2>2 DEF Range
  <2>4. x = s[from + i - 1] /\ from + i - 1 \in 1..n
    BY <2>1, <2>3, <1>1
  <2> QED BY <2>4, <1>1 DEF Range
<1>12. Range(s) \subseteq UNION {Range(Chunked(s, size)[k]) : k \in 1..count}
  <2> SUFFICES ASSUME NEW x \in Range(s)
               PROVE  \E k \in 1..count : x \in Range(Chunked(s, size)[k])
    OBVIOUS
  <2>1. PICK p \in 1..n : x = s[p]
    BY <1>1 DEF Range
  <2> DEFINE q == (p - 1) \div size
  <2> DEFINE k == q + 1
  <2>2. q \in Nat /\ q * size <= p - 1 /\ p - 1 < q * size + size
    <3>1. p - 1 \in Nat
      OBVIOUS
    <3> QED BY <3>1, DivFacts
  <2> HIDE DEF q
  <2>3. k \in 1..count
    <3>1. q * size < count * size
      <4>1. q * size \in Nat /\ count * size \in Nat
        BY <2>2, <1>2, <1>3
      <4> QED BY <4>1, <2>2, <1>2, <1>1
    <3>2. q < count
      BY <3>1, <2>2, <1>2, SMT
    <3> QED BY <3>2, <2>2, <1>2
  <2> DEFINE from == (k - 1) * size + 1
  <2> DEFINE to == Smaller(k * size, n)
  <2>4. /\ chunk(k) \in Seq(S) /\ to \in from..n /\ to - from + 1 \in 1..size /\ from \in 1..n
        /\ Len(chunk(k)) = to - from + 1
        /\ \A i \in 1..to - from + 1 : chunk(k)[i] = s[from + i - 1]
    <3> HIDE DEF k, chunk
    <3> QED BY <2>3, <1>4, <1>5
  <2>5. p \in from..to /\ p - from + 1 \in 1..to - from + 1 /\ from + (p - from + 1) - 1 = p
    <3>1. k - 1 = q /\ k * size = q * size + size /\ q * size \in Nat
      BY <2>2, SMT
    <3>2. from = q * size + 1 /\ to = Smaller(q * size + size, n)
      BY <3>1
    <3> HIDE DEF from, to
    <3>3. p \in from..to
      BY <3>1, <3>2, <2>2, <1>1 DEF Smaller
    <3> QED BY <3>3, <2>4, <1>1
  <2> HIDE DEF k, chunk, from, to
  <2>6. chunk(k)[p - from + 1] = s[p] /\ DOMAIN chunk(k) = 1..to - from + 1
    BY <2>4, <2>5
  <2>7. x \in Range(chunk(k))
    BY <2>1, <2>5, <2>6 DEF Range
  <2> QED BY <2>3, <2>7, <1>7
<1> QED BY <1>2, <1>8, <1>9, <1>10, <1>11, <1>12 DEF count, n

\* FlattenSeq joins the sequences one by one.
Joins(g, S, seqs) ==
    /\ g \in [Nat -> Seq(S)] /\ g[0] = <<>>
    /\ \A n \in Nat : n + 1 <= Len(seqs) => g[n + 1] = g[n] \o seqs[n + 1]

LEMMA JoinsExists ==
    ASSUME NEW S, NEW seqs \in Seq(Seq(S))
    PROVE  \E g : Joins(g, S, seqs)
<1> DEFINE join(n, x) == IF n <= Len(seqs) /\ n # 0 THEN x \o seqs[n] ELSE x
<1> DEFINE F == [n \in Nat |-> [x \in Seq(S) |-> join(n, x)]]
<1>1. \A n \in Nat, x \in Seq(S) : join(n, x) \in Seq(S)
  OBVIOUS
<1>2. F \in [Nat -> [Seq(S) -> Seq(S)]]
  <2> HIDE DEF join
  <2> QED BY <1>1
<1>3. <<>> \in Seq(S)
  OBVIOUS
<1>4. PICK g : Recursive(g, Seq(S), <<>>, F)
  <2> DEFINE T == Seq(S)
  <2>1. F \in [Nat -> [T -> T]] /\ <<>> \in T
    BY <1>2, <1>3
  <2> HIDE DEF F, T
  <2>2. \E g : Recursive(g, T, <<>>, F)
    BY <2>1, Recursion, Zenon
  <2> QED BY <2>2 DEF T
<1>5. g \in [Nat -> Seq(S)] /\ g[0] = <<>>
  BY <1>4 DEF Recursive
<1>6. ASSUME NEW n \in Nat, n + 1 <= Len(seqs) PROVE g[n + 1] = g[n] \o seqs[n + 1]
  <2>1. g[n + 1] = F[n + 1][g[n]]
    BY <1>4 DEF Recursive
  <2>2. F[n + 1] = [x \in Seq(S) |-> join(n + 1, x)] /\ g[n] \in Seq(S)
    BY <1>5
  <2>3. F[n + 1][g[n]] = join(n + 1, g[n])
    <3> HIDE DEF F, join
    <3> QED BY <2>2
  <2>4. join(n + 1, g[n]) = g[n] \o seqs[n + 1]
    <3>1. n + 1 # 0
      OBVIOUS
    <3> QED BY <1>6, <3>1, Zenon
  <2> HIDE DEF F, join
  <2> QED BY <2>1, <2>3, <2>4
<1> QED BY <1>5, <1>6 DEF Joins

LEMMA FlattenIs ==
    ASSUME NEW S, NEW seqs \in Seq(Seq(S)), NEW g, Joins(g, S, seqs)
    PROVE  FlattenSeq(seqs) = g[Len(seqs)]
<1> DEFINE n == Len(seqs)
<1> DEFINE IsFlatten(f) == f = [i \in 1..n |-> IF i = 1 THEN seqs[i] ELSE f[i - 1] \o seqs[i]]
<1>1. n \in Nat /\ \A i \in 1..n : seqs[i] \in Seq(S)
  OBVIOUS
<1>2. CASE n = 0
  <2>1. seqs = <<>>
    BY <1>2
  <2> QED BY <2>1, <1>2 DEF FlattenSeq, Joins
<1>3. CASE n # 0
  <2> DEFINE f == [i \in 1..n |-> g[i]]
  <2>1. \A i \in 1..n : g[i] = IF i = 1 THEN seqs[i] ELSE g[i - 1] \o seqs[i]
    <3> SUFFICES ASSUME NEW i \in 1..n
                 PROVE  g[i] = IF i = 1 THEN seqs[i] ELSE g[i - 1] \o seqs[i]
      OBVIOUS
    <3>1. i - 1 \in Nat /\ (i - 1) + 1 = i /\ (i - 1) + 1 <= n
      BY <1>1
    <3>2. g[(i - 1) + 1] = g[i - 1] \o seqs[(i - 1) + 1]
      BY <3>1 DEF Joins
    <3>3. CASE i = 1
      <4>1. g[i - 1] = <<>>
        BY <3>3 DEF Joins
      <4>2. g[i] = g[i - 1] \o seqs[i]
        BY <3>1, <3>2, Zenon
      <4>3. <<>> \o seqs[i] = seqs[i]
        BY <1>1, ConcatEmptySeq
      <4> QED BY <4>1, <4>2, <4>3, <3>3
    <3> QED BY <3>1, <3>2, <3>3
  <2>2. IsFlatten(f)
    <3>1. \A i \in 1..n : i # 1 => i - 1 \in 1..n
      BY <1>1
    <3>2. \A i \in 1..n : f[i] = IF i = 1 THEN seqs[i] ELSE f[i - 1] \o seqs[i]
      BY <2>1, <3>1
    <3> QED BY <2>1, <3>1
  <2>3. FlattenSeq(seqs) = (CHOOSE h : IsFlatten(h))[n]
    BY <1>3 DEF FlattenSeq
  <2> DEFINE h == CHOOSE h : IsFlatten(h)
  <2>4. IsFlatten(h)
    <3> HIDE DEF IsFlatten, f
    <3> QED BY <2>2
  <2> HIDE DEF h
  <2> DEFINE T == {i \in Nat : i + 1 <= n => h[i + 1] = g[i + 1]}
  <2>5. 0 \in T
    BY <2>1, <2>4, <1>1
  <2>6. ASSUME NEW i \in T PROVE i + 1 \in T
    <3> SUFFICES ASSUME (i + 1) + 1 <= n PROVE h[(i + 1) + 1] = g[(i + 1) + 1]
      OBVIOUS
    <3>1. i \in Nat /\ i + 1 <= n /\ (i + 1) + 1 \in 1..n /\ (i + 1) + 1 # 1
          /\ ((i + 1) + 1) - 1 = i + 1
      BY <1>1
    <3>2. h[i + 1] = g[i + 1]
      BY <3>1
    <3>3. h[(i + 1) + 1] = h[((i + 1) + 1) - 1] \o seqs[(i + 1) + 1]
      BY <2>4, <3>1
    <3>4. g[(i + 1) + 1] = g[((i + 1) + 1) - 1] \o seqs[(i + 1) + 1]
      BY <2>1, <3>1
    <3> QED BY <3>1, <3>2, <3>3, <3>4
  <2>7. T = Nat
    <3>1. T \in SUBSET Nat
      OBVIOUS
    <3> HIDE DEF T
    <3> QED BY <2>5, <2>6, <3>1, SetInduction
  <2>8. h[n] = g[n]
    <3>1. n - 1 \in Nat /\ (n - 1) + 1 = n /\ n <= n
      BY <1>1, <1>3
    <3>2. n - 1 \in T
      BY <2>7, <3>1, Zenon
    <3>3. (n - 1) + 1 <= n => h[(n - 1) + 1] = g[(n - 1) + 1]
      BY <3>2, Zenon
    <3> QED BY <3>1, <3>3, Zenon
  <2> QED BY <2>3, <2>8 DEF h
<1> QED BY <1>2, <1>3

LEMMA FlattenPrefix ==
    ASSUME NEW S, NEW seqs \in Seq(Seq(S)), NEW k \in Nat, k < Len(seqs)
    PROVE  FlattenSeq(SubSeq(seqs, 1, k + 1)) = FlattenSeq(SubSeq(seqs, 1, k)) \o seqs[k + 1]
<1>1. PICK g : Joins(g, S, seqs)
  BY JoinsExists
<1>2. ASSUME NEW m \in 0..Len(seqs) PROVE FlattenSeq(SubSeq(seqs, 1, m)) = g[m]
  <2> DEFINE part == SubSeq(seqs, 1, m)
  <2>1. \A i \in 1..m : seqs[i] \in Seq(S)
    OBVIOUS
  <2>2. part \in Seq(Seq(S)) /\ Len(part) = m /\ \A i \in 1..m : part[i] = seqs[i]
    OBVIOUS
  <2> HIDE DEF part
  <2>3. Joins(g, S, part)
    <3>1. ASSUME NEW n \in Nat, n + 1 <= m PROVE g[n + 1] = g[n] \o part[n + 1]
      <4>1. n + 1 \in 1..m /\ n + 1 <= Len(seqs)
        BY <3>1
      <4> QED BY <1>1, <4>1, <2>2 DEF Joins
    <3> QED BY <1>1, <2>2, <3>1 DEF Joins
  <2>4. FlattenSeq(part) = g[Len(part)]
    BY <2>2, <2>3, FlattenIs
  <2> QED BY <2>2, <2>4 DEF part
<1>3. k \in 0..Len(seqs) /\ k + 1 \in 0..Len(seqs) /\ k + 1 <= Len(seqs)
  OBVIOUS
<1>4. g[k + 1] = g[k] \o seqs[k + 1]
  BY <1>1, <1>3 DEF Joins
<1> QED BY <1>2, <1>3, <1>4

-------------------------------------------------------------------------------
(* The stages of a valid graph.                                            *)

LEMMA GraphFacts ==
    ASSUME request \in Requests
    PROVE  /\ Len(request.nodes) \in Nat /\ Indices = 1..Len(request.nodes)
           /\ IsFiniteSet(Indices) /\ Cardinality(Indices) = Len(request.nodes)
           /\ request.policy \in Policy
<1>1. Len(request.nodes) \in Nat /\ Indices = 1..Len(request.nodes) /\ request.policy \in Policy
  BY DecisionAssumption DEF Indices
<1>2. /\ IsFiniteSet(1..Len(request.nodes))
      /\ Cardinality(1..Len(request.nodes)) =
            IF 1 > Len(request.nodes) THEN 0 ELSE Len(request.nodes) - 1 + 1
  BY <1>1, FS_Interval
<1> QED BY <1>1, <1>2

\* A node is the one of its name.
LEMMA NodeIs ==
    ASSUME ValidGraph, NEW i \in Indices
    PROVE  Node(request.nodes[i].name) = i
<1> DEFINE named == CHOOSE j \in Indices : request.nodes[j].name = request.nodes[i].name
<1>1. named \in Indices /\ request.nodes[named].name = request.nodes[i].name
  OBVIOUS
<1>2. named = i
  <2> HIDE DEF named
  <2> QED BY <1>1 DEF ValidGraph
<1> QED BY <1>2 DEF Node

\* The dependencies of a node of the first k + 1 levels are in the first k.
LEMMA NamesBelow ==
    ASSUME NEW k \in Nat, NEW i \in UpTo[k + 1], NEW name \in DependsOn(i)
    PROVE  \E j \in UpTo[k] : request.nodes[j].name = name
<1> DEFINE Below(m) == \A a \in UpTo[m + 1] : \A b \in DependsOn(a) :
                           \E j \in UpTo[m] : request.nodes[j].name = b
<1> DEFINE T == {m \in Nat : Below(m)}
<1>1. 0 \in T
  <2>1. UpTo[0 + 1] = UpTo[0] \cup Level(UpTo[0]) /\ UpTo[0] = {}
    BY UpToDef
  <2> QED BY <2>1 DEF Level
<1>2. ASSUME NEW m \in T PROVE m + 1 \in T
  <2>1. m \in Nat /\ m + 1 \in Nat /\ Below(m)
    OBVIOUS
  <2>2. UpTo[m + 1] = UpTo[m] \cup Level(UpTo[m])
        /\ UpTo[(m + 1) + 1] = UpTo[m + 1] \cup Level(UpTo[m + 1])
    BY <2>1, UpToDef
  <2>3. ASSUME NEW a \in UpTo[(m + 1) + 1], NEW b \in DependsOn(a)
        PROVE  \E j \in UpTo[m + 1] : request.nodes[j].name = b
    <3>1. CASE a \in UpTo[m + 1]
      BY <3>1, <2>1, <2>2
    <3>2. CASE a \in Level(UpTo[m + 1])
      BY <3>2 DEF Level
    <3> QED BY <3>1, <3>2, <2>2
  <2> QED BY <2>1, <2>3
<1>3. T \in SUBSET Nat
  OBVIOUS
<1>4. T = Nat
  <2> HIDE DEF T
  <2> QED BY <1>1, <1>2, <1>3, SetInduction
<1> QED BY <1>4

\* In a valid graph every dependency names a node.
LEMMA DependencyIsANode ==
    ASSUME request \in Requests, ValidGraph,
           NEW i \in Indices, NEW d \in request.nodes[i].dependencies
    PROVE  Node(d.on) \in Indices /\ request.nodes[Node(d.on)].name = d.on
<1>1. Len(request.nodes) - 1 \in Nat /\ (Len(request.nodes) - 1) + 1 = Len(request.nodes)
  BY GraphFacts
<1>2. i \in UpTo[(Len(request.nodes) - 1) + 1] /\ d.on \in DependsOn(i)
  BY <1>1 DEF ValidGraph, DependsOn
<1>3. PICK j \in UpTo[Len(request.nodes) - 1] : request.nodes[j].name = d.on
  BY <1>1, <1>2, NamesBelow
<1>4. j \in Indices
  BY <1>1, UpToDef
<1> QED BY <1>3, <1>4, NodeIs

LEMMA DependenciesBelow ==
    ASSUME request \in Requests, ValidGraph, NEW k \in Nat,
           NEW i \in UpTo[k + 1], NEW d \in request.nodes[i].dependencies
    PROVE  Node(d.on) \in UpTo[k]
<1>1. d.on \in DependsOn(i)
  BY DEF DependsOn
<1>2. PICK j \in UpTo[k] : request.nodes[j].name = d.on
  BY <1>1, NamesBelow
<1>3. j \in Indices
  BY UpToDef
<1> QED BY <1>2, <1>3, NodeIs

LEMMA DependenciesDecideTheLevel ==
    ASSUME request \in Requests, ValidGraph, NEW k \in Nat, NEW i \in Indices,
           \A d \in request.nodes[i].dependencies : Node(d.on) \in UpTo[k]
    PROVE  i \in UpTo[k + 1]
<1>1. ASSUME NEW name \in DependsOn(i) PROVE \E j \in UpTo[k] : request.nodes[j].name = name
  <2>1. PICK d \in request.nodes[i].dependencies : name = d.on
    BY DEF DependsOn
  <2> QED BY <2>1, DependencyIsANode
<1>2. UpTo[k + 1] = UpTo[k] \cup Level(UpTo[k])
  BY UpToDef
<1> QED BY <1>1, <1>2 DEF Level

\* Levels that all add a node are no more than the nodes, and are the first of
\* the plan.
LEMMA StagesCounted ==
    ASSUME request \in Requests, NEW k \in Nat, \A j \in 1..k : UpTo[j] # UpTo[j - 1]
    PROVE  k <= Len(request.nodes) /\ 1..k \subseteq DOMAIN Stages
<1> DEFINE n == Len(request.nodes)
<1>1. /\ n \in Nat /\ Indices = 1..n /\ IsFiniteSet(Indices) /\ Cardinality(Indices) = n
  BY GraphFacts
<1>2. \A m \in Nat : IsFiniteSet(UpTo[m]) /\ Cardinality(UpTo[m]) \in Nat
                     /\ Cardinality(UpTo[m]) <= n /\ UpTo[m] \in SUBSET UpTo[m + 1]
  <2> SUFFICES ASSUME NEW m \in Nat
               PROVE  IsFiniteSet(UpTo[m]) /\ Cardinality(UpTo[m]) \in Nat
                      /\ Cardinality(UpTo[m]) <= n /\ UpTo[m] \in SUBSET UpTo[m + 1]
    OBVIOUS
  <2>1. UpTo[m] \in SUBSET Indices /\ UpTo[m + 1] = UpTo[m] \cup Level(UpTo[m])
    BY UpToDef
  <2>2. UpTo[m] \in SUBSET UpTo[m + 1]
    BY <2>1
  <2>3. IsFiniteSet(UpTo[m]) /\ Cardinality(UpTo[m]) <= Cardinality(Indices)
    BY <1>1, <2>1, FS_Subset
  <2>4. Cardinality(UpTo[m]) \in Nat
    BY <2>3, FS_CardinalityType
  <2> QED BY <1>1, <2>2, <2>3, <2>4
<1> DEFINE T == {m \in Nat : m <= k => m <= Cardinality(UpTo[m])}
<1>3. 0 \in T
  <2>1. 0 \in Nat /\ Cardinality(UpTo[0]) \in Nat
    BY <1>2
  <2> QED BY <2>1
<1>4. ASSUME NEW m \in T PROVE m + 1 \in T
  <2> SUFFICES ASSUME m + 1 <= k PROVE m + 1 <= Cardinality(UpTo[m + 1])
    OBVIOUS
  <2>1. m \in Nat /\ m + 1 \in 1..k /\ (m + 1) - 1 = m /\ m <= Cardinality(UpTo[m])
    OBVIOUS
  <2>2. UpTo[m + 1] # UpTo[m]
    BY <2>1
  <2>3. /\ UpTo[m] \in SUBSET UpTo[m + 1] /\ IsFiniteSet(UpTo[m + 1])
        /\ Cardinality(UpTo[m]) \in Nat /\ Cardinality(UpTo[m + 1]) \in Nat
    <3>1. m \in Nat /\ m + 1 \in Nat
      BY <2>1
    <3> HIDE DEF T
    <3> QED BY <3>1, <1>2, Zenon
  <2>4. /\ Cardinality(UpTo[m]) <= Cardinality(UpTo[m + 1])
        /\ Cardinality(UpTo[m + 1]) = Cardinality(UpTo[m]) => UpTo[m + 1] = UpTo[m]
    BY <2>3, FS_Subset
  <2> QED BY <2>1, <2>2, <2>3, <2>4
<1>5. T = Nat
  <2>1. T \in SUBSET Nat
    OBVIOUS
  <2> HIDE DEF T
  <2> QED BY <1>3, <1>4, <2>1, SetInduction
<1>6. k <= n
  <2>1. k \in T
    BY <1>5, Zenon
  <2>2. k <= k => k <= Cardinality(UpTo[k])
    BY <2>1, Zenon
  <2>3. Cardinality(UpTo[k]) \in Nat /\ Cardinality(UpTo[k]) <= n
    BY <1>2
  <2> QED BY <1>1, <2>2, <2>3
<1> DEFINE growing == {j \in Indices : UpTo[j] # UpTo[j - 1]}
<1>7. 1..k \in SUBSET growing /\ growing \in SUBSET Indices
  BY <1>1, <1>6
<1>8. IsFiniteSet(growing) /\ Cardinality(growing) \in Nat
  <2> HIDE DEF growing
  <2> QED BY <1>1, <1>7, FS_Subset, FS_CardinalityType
<1>9. k <= Cardinality(growing)
  <2>1. Cardinality(1..k) = k
    <3>1. Cardinality(1..k) = IF 1 > k THEN 0 ELSE k - 1 + 1
      BY FS_Interval
    <3> QED BY <3>1
  <2> HIDE DEF growing
  <2>2. Cardinality(1..k) <= Cardinality(growing)
    BY <1>7, <1>8, FS_Subset
  <2> QED BY <2>1, <2>2
<1>10. DOMAIN Stages = 1..Cardinality(growing)
  BY DEF Stages
<1> HIDE DEF growing
<1> QED BY <1>6, <1>8, <1>9, <1>10

\* When every node is in the first k levels, and each adds a node, they are all
\* the stages of the plan.
LEMMA StagesComplete ==
    ASSUME request \in Requests, NEW k \in Nat, \A j \in 1..k : UpTo[j] # UpTo[j - 1],
           UpTo[k] = Indices
    PROVE  DOMAIN Stages = 1..k
<1> DEFINE n == Len(request.nodes)
<1>1. n \in Nat /\ Indices = 1..n /\ k <= n
  BY GraphFacts, StagesCounted
<1> DEFINE T == {m \in Nat : UpTo[k + m] = Indices}
<1>2. T = Nat
  <2>1. 0 \in T
    OBVIOUS
  <2>2. ASSUME NEW m \in T PROVE m + 1 \in T
    <3>1. k + m \in Nat /\ k + (m + 1) = (k + m) + 1 /\ UpTo[k + m] = Indices
      OBVIOUS
    <3>2. UpTo[(k + m) + 1] = UpTo[k + m] \cup Level(UpTo[k + m])
      BY <3>1, UpToDef
    <3>3. Level(Indices) = {}
      BY DEF Level
    <3> QED BY <3>1, <3>2, <3>3
  <2>3. T \in SUBSET Nat
    OBVIOUS
  <2> HIDE DEF T
  <2> QED BY <2>1, <2>2, <2>3, SetInduction
<1>3. ASSUME NEW j \in Indices, j > k PROVE UpTo[j] = UpTo[j - 1]
  <2>1. j - k \in Nat /\ j - k - 1 \in Nat /\ k + (j - k) = j /\ k + (j - k - 1) = j - 1
    BY <1>1, <1>3
  <2>2. j - k \in T /\ j - k - 1 \in T
    BY <1>2, <2>1, Zenon
  <2>3. UpTo[k + (j - k)] = Indices /\ UpTo[k + (j - k - 1)] = Indices
    BY <2>2, Zenon
  <2> QED BY <2>1, <2>3
<1>4. {j \in Indices : UpTo[j] # UpTo[j - 1]} = 1..k
  <2>1. \A j \in Indices : j > k \/ j \in 1..k
    BY <1>1
  <2>2. \A j \in 1..k : j \in Indices
    BY <1>1
  <2> QED BY <2>1, <2>2, <1>3
<1>5. Cardinality(1..k) = k
  <2>1. Cardinality(1..k) = IF 1 > k THEN 0 ELSE k - 1 + 1
    BY FS_Interval
  <2> QED BY <2>1
<1>6. DOMAIN Stages = 1..Cardinality({j \in Indices : UpTo[j] # UpTo[j - 1]})
  BY DEF Stages
<1> QED BY <1>4, <1>5, <1>6

\* The sizes of the batches of the model and of the application.
LEMMA SizeFacts ==
    ASSUME request \in Requests, model \in Capabilities, NEW count \in Nat
    PROVE  /\ EffectiveBatchSize(count) \in Nat \ {0}
           /\ EffectiveBatchSize(count) \in
                {1} \cup 1..Smaller(model.max_batch_size, request.policy.max_batch_size)
           /\ Smaller(model.max_batch_size, request.policy.max_batch_size) \in Nat
<1>1. model.max_batch_size \in Nat /\ request.policy.max_batch_size \in Nat
  <2>1. request.policy \in Policy
    BY GraphFacts
  <2>2. request.policy.max_batch_size \in Nat
    BY <2>1 DEF Policy
  <2>3. model.max_batch_size \in 0..Unlimited
    BY DecisionAssumption
  <2> QED BY <2>2, <2>3
<1> QED BY <1>1 DEF EffectiveBatchSize, Smaller

LEMMA WholeChunk ==
    ASSUME NEW S, NEW s \in Seq(S), s # <<>>, NEW size \in Nat, Len(s) <= size
    PROVE  Chunked(s, size) = [k \in 1..1 |-> s]
<1> DEFINE n == Len(s)
<1> DEFINE count == (n + size - 1) \div size
<1>1. n \in Nat \ {0} /\ size \in Nat \ {0} /\ n <= size
  OBVIOUS
<1>2. count = 1
  <2>1. n + size - 1 \in Nat
    BY <1>1
  <2>2. count \in Nat /\ count * size <= n + size - 1 /\ n + size - 1 < count * size + size
    BY <1>1, <2>1, DivFacts
  <2>3. count # 0
    <3>1. 0 * size = 0
      BY <1>1
    <3> HIDE DEF count
    <3> QED BY <2>2, <3>1, <1>1
  <2>4. count < 2
    <3> HIDE DEF count
    <3>1. SUFFICES ASSUME count >= 2 PROVE FALSE
      BY <2>2
    <3>2. count - 2 \in Nat /\ (count - 2) * size \in Nat /\ count * size = (count - 2) * size + 2 * size
      BY <2>2, <3>1, <1>1, SMT
    <3> QED BY <2>2, <3>2, <1>1
  <2> HIDE DEF count
  <2> QED BY <2>2, <2>3, <2>4
<1>3. \A k \in 1..1 : SubSeq(s, (k - 1) * size + 1, Smaller(k * size, n)) = s
  <2>1. (1 - 1) * size + 1 = 1 /\ Smaller(1 * size, n) = n
    BY <1>1 DEF Smaller
  <2>2. SubSeq(s, 1, n) = s
    OBVIOUS
  <2>3. SubSeq(s, (1 - 1) * size + 1, Smaller(1 * size, n)) = s
    BY <2>1, <2>2
  <2> QED BY <2>3
<1>4. Chunked(s, size) = [k \in 1..count |-> SubSeq(s, (k - 1) * size + 1, Smaller(k * size, n))]
  BY DEF Chunked
<1> HIDE DEF n, count
<1> QED BY <1>2, <1>3, <1>4

\* The batch size that the plan gives a stage of count nodes.
PlannedSize(count) ==
    IF Strategy = "Batched" THEN EffectiveBatchSize(Len(request.nodes))
    ELSE IF Strategy = "Selective" THEN EffectiveBatchSize(count)
    ELSE 1

\* Sized from the graph or from the wave, the batches of a stage are the same.
LEMMA SameBatches ==
    ASSUME request \in Requests, model \in Capabilities, NEW S, NEW s \in Seq(S), s # <<>>,
           Len(s) <= Len(request.nodes)
    PROVE  Chunked(s, PlannedSize(Len(s))) = Chunked(s, EffectiveBatchSize(Len(s)))
<1> DEFINE c == Len(s)
<1> DEFINE n == Len(request.nodes)
<1> DEFINE limit == Smaller(model.max_batch_size, request.policy.max_batch_size)
<1> DEFINE batched == request.policy.batching /\ model.batching /\ model.batch_size # 1
<1>1. c \in Nat \ {0} /\ n \in Nat \ {0} /\ c <= n /\ limit \in Nat
  BY GraphFacts, SizeFacts
<1>2. \A m \in Nat : EffectiveBatchSize(m) = IF m >= 2 /\ batched /\ Smaller(limit, m) > 1
                                            THEN Smaller(limit, m) ELSE 1
  BY DEF EffectiveBatchSize
<1> HIDE DEF c, n, limit, batched
<1>3. /\ EffectiveBatchSize(c) = IF c >= 2 /\ batched /\ Smaller(limit, c) > 1
                                 THEN Smaller(limit, c) ELSE 1
      /\ EffectiveBatchSize(n) = IF n >= 2 /\ batched /\ Smaller(limit, n) > 1
                                 THEN Smaller(limit, n) ELSE 1
  BY <1>1, <1>2
<1>4. CASE EffectiveBatchSize(n) > 1
  <2>1. EffectiveBatchSize(n) = EffectiveBatchSize(c)
        \/ (c <= EffectiveBatchSize(n) /\ c <= EffectiveBatchSize(c)
            /\ EffectiveBatchSize(n) \in Nat /\ EffectiveBatchSize(c) \in Nat)
    BY <1>1, <1>3, <1>4 DEF Smaller
  <2>2. Chunked(s, EffectiveBatchSize(n)) = Chunked(s, EffectiveBatchSize(c))
    <3>1. CASE EffectiveBatchSize(n) # EffectiveBatchSize(c)
      <4>1. Chunked(s, EffectiveBatchSize(n)) = [k \in 1..1 |-> s]
        BY <2>1, <3>1, WholeChunk DEF c
      <4>2. Chunked(s, EffectiveBatchSize(c)) = [k \in 1..1 |-> s]
        BY <2>1, <3>1, WholeChunk DEF c
      <4> QED BY <4>1, <4>2
    <3> QED BY <3>1
  <2>3. Strategy \in {"Batched", "Selective"}
    <3>1. n # 1
      BY <1>3, <1>4
    <3> QED BY <1>4, <3>1 DEF Strategy, n
  <2> QED BY <2>2, <2>3 DEF PlannedSize, c, n
<1>5. CASE ~(EffectiveBatchSize(n) > 1)
  <2>1. EffectiveBatchSize(c) = 1
    BY <1>1, <1>3, <1>5 DEF Smaller
  <2>2. Strategy # "Batched"
    BY <1>5 DEF Strategy, n
  <2> QED BY <2>1, <2>2 DEF PlannedSize, c
<1> QED BY <1>4, <1>5

LEMMA StageFacts ==
    ASSUME request \in Requests, model \in Capabilities
    PROVE  /\ Stages \in Seq(Seq(Seq(Indices)))
           /\ \A k \in Nat : k + 1 \in DOMAIN Stages =>
                 LET nodes == UpTo[k + 1] \ UpTo[k]
                 IN  /\ Stages[k + 1] = Chunked(Ordered(nodes), PlannedSize(Len(Ordered(nodes))))
                     /\ UNION {Range(Stages[k + 1][c]) : c \in DOMAIN Stages[k + 1]} = nodes
<1> DEFINE count == Cardinality({j \in Indices : UpTo[j] # UpTo[j - 1]})
<1> DEFINE nodes(k) == UpTo[k] \ UpTo[k - 1]
<1> DEFINE stage(k) == Chunked(Ordered(nodes(k)), PlannedSize(Len(Ordered(nodes(k)))))
<1>1. count \in Nat
  <2>1. {j \in Indices : UpTo[j] # UpTo[j - 1]} \in SUBSET Indices
    OBVIOUS
  <2> QED BY <2>1, GraphFacts, FS_Subset, FS_CardinalityType
<1>2. Stages = [k \in 1..count |-> stage(k)]
  BY DEF Stages, PlannedSize
<1>3. ASSUME NEW k \in Nat \ {0}
      PROVE  /\ stage(k) \in Seq(Seq(Indices))
             /\ UNION {Range(stage(k)[c]) : c \in DOMAIN stage(k)} = nodes(k)
  <2>1. k - 1 \in Nat
    OBVIOUS
  <2>2. nodes(k) \in SUBSET Indices /\ nodes(k) \in SUBSET Nat /\ IsFiniteSet(nodes(k))
    <3>1. nodes(k) \in SUBSET Indices /\ IsFiniteSet(Indices) /\ Indices \subseteq Nat
      BY <2>1, UpToDef, GraphFacts
    <3> HIDE DEF nodes
    <3> QED BY <3>1, FS_Subset
  <2> DEFINE s == Ordered(nodes(k))
  <2> HIDE DEF nodes
  <2>3. /\ Cardinality(nodes(k)) \in Nat
        /\ s \in [1..Cardinality(nodes(k)) -> nodes(k)]
        /\ \A i \in nodes(k) : \E j \in 1..Cardinality(nodes(k)) : s[j] = i
    BY <2>2, OrderedFacts
  <2> HIDE DEF s
  <2>4. s \in Seq(Indices) /\ Len(s) \in Nat
    BY <2>2, <2>3
  <2>5. Range(s) = nodes(k)
    BY <2>3 DEF Range
  <2>6. PlannedSize(Len(s)) \in Nat \ {0}
    <3>1. Len(request.nodes) \in Nat
      BY GraphFacts
    <3>2. EffectiveBatchSize(Len(s)) \in Nat \ {0} /\ EffectiveBatchSize(Len(request.nodes)) \in Nat \ {0}
      BY <2>4, <3>1, SizeFacts
    <3> QED BY <3>2 DEF PlannedSize
  <2> DEFINE size == PlannedSize(Len(s))
  <2> DEFINE I == Indices
  <2> DEFINE chunked == Chunked(s, size)
  <2>7. s \in Seq(I) /\ size \in Nat \ {0}
    BY <2>4, <2>6
  <2>8. chunked \in Seq(Seq(I)) /\ UNION {Range(chunked[c]) : c \in DOMAIN chunked} = Range(s)
    <3> HIDE DEF I, size
    <3> QED BY <2>7, ChunkedFacts
  <2>9. stage(k) = chunked
    BY DEF s
  <2> HIDE DEF chunked, stage
  <2> QED BY <2>5, <2>8, <2>9
<1>4. \A k \in 1..count : Stages[k] = stage(k)
  <2> HIDE DEF stage, count
  <2> QED BY <1>2
<1>5. Stages \in Seq(Seq(Seq(Indices))) /\ DOMAIN Stages = 1..count
  <2> DEFINE T == Seq(Seq(Indices))
  <2> HIDE DEF stage, count
  <2>1. \A k \in 1..count : stage(k) \in T
    BY <1>3, <1>1
  <2> HIDE DEF T
  <2>2. Stages \in [1..count -> T]
    BY <1>2, <2>1
  <2>3. Stages \in Seq(T)
    BY <1>1, <2>2
  <2> QED BY <1>2, <2>3 DEF T
<1>6. ASSUME NEW k \in Nat, k + 1 \in DOMAIN Stages
      PROVE  /\ Stages[k + 1] = stage(k + 1)
             /\ UNION {Range(Stages[k + 1][c]) : c \in DOMAIN Stages[k + 1]} = nodes(k + 1)
             /\ nodes(k + 1) = UpTo[k + 1] \ UpTo[k]
  <2>1. k + 1 \in Nat \ {0} /\ (k + 1) - 1 = k /\ k + 1 \in 1..count
    BY <1>5, <1>6
  <2>2. Stages[k + 1] = stage(k + 1)
    <3> HIDE DEF stage
    <3> QED BY <1>4, <2>1
  <2>3. UNION {Range(stage(k + 1)[c]) : c \in DOMAIN stage(k + 1)} = nodes(k + 1)
    BY <1>3, <2>1
  <2>4. nodes(k + 1) = UpTo[k + 1] \ UpTo[k]
    BY <2>1
  <2> HIDE DEF stage, nodes
  <2> QED BY <2>2, <2>3, <2>4
<1> HIDE DEF count
<1> QED BY <1>5, <1>6

-------------------------------------------------------------------------------
(* The invariant of the execution.                                         *)

Wave == UNION {Range(chunks[k]) : k \in DOMAIN chunks}

CallStates == {"waiting", "running", "returned", "miscounted", "erred", "cancelled", "yielded"}

CallRecord ==
    [state : CallStates,
     values : {<<>>} \cup UNION {[S -> UNION Range(Answers)] : S \in SUBSET Indices}]

TypeOK ==
    /\ request \in Requests /\ model \in Capabilities /\ cancelled \in BOOLEAN
    /\ step \in {"plan", "wave", "calls", "done", "failed", "dropped"}
    /\ failure \in {"none", "Cancelled", "CapabilityMismatch", "InvalidRequest", "NoProgress",
                    "InvalidOutput", "Execution"}
    /\ chunks \in Seq(Seq(Indices))
    /\ calls \in [1..Len(chunks) -> CallRecord]

\* Every node is pending, skipped or resolved.
Partition ==
    /\ Indices = pending \cup skipped \cup DOMAIN resolved
    /\ pending \cap skipped = {} /\ pending \cap DOMAIN resolved = {}
    /\ skipped \cap DOMAIN resolved = {}

\* The dependencies of a node are decided, and as its conditions ask.
Chosen(i) ==
    \A d \in request.nodes[i].dependencies :
        /\ Node(d.on) \in DOMAIN resolved
        /\ request.policy.selective => ConditionMatches(d.condition, resolved[Node(d.on)])

\* What is decided or about to be was chosen, and what is skipped is ruled out.
Conditions ==
    /\ \A i \in DOMAIN resolved : Chosen(i)
    /\ \A i \in skipped : request.policy.selective /\ RuledOut(i, skipped)
    /\ step = "calls" => Wave \subseteq pending /\ Wave # {} /\ \A i \in Wave : Chosen(i)
    /\ step = "done" => pending = {}

\* Nothing is called, skipped or decided before the graph is found valid.
Validated ==
    /\ step \in {"wave", "calls", "done"} \/ chunks # <<>> => ValidGraph
    /\ step = "plan" => skipped = {} /\ DOMAIN resolved = {} /\ batches = <<>>

\* The calls are taken in order, and none is made beyond the window.
InWindow ==
    /\ Yielded = 1..Cardinality(Yielded)
    /\ \A k \in DOMAIN calls :
          calls[k].state # "waiting" => k <= Cardinality(Yielded) + Window

ChunkSizes ==
    \A k \in DOMAIN chunks :
        Len(chunks[k]) \in {1} \cup 1..Smaller(model.max_batch_size, request.policy.max_batch_size)

\* The first k stages are behind: every node of theirs is resolved or skipped,
\* and no other is resolved.
AtStage(k) ==
    /\ DOMAIN resolved \subseteq UpTo[k] /\ UpTo[k] \subseteq DOMAIN resolved \cup skipped
    /\ \A j \in 1..k : UpTo[j] # UpTo[j - 1]
    /\ skipped = {} => batches = FlattenSeq(SubSeq(Stages, 1, k))
    /\ step = "calls" =>
          /\ Wave \subseteq UpTo[k + 1] \ UpTo[k]
          /\ UpTo[k + 1] \subseteq DOMAIN resolved \cup skipped \cup Wave
          /\ skipped = {} => chunks = Stages[k + 1]

InStages == step \in {"wave", "calls", "done"} => \E k \in 0..Len(request.nodes) : AtStage(k)

Inv == /\ TypeOK /\ Partition /\ Conditions /\ Validated /\ InWindow /\ ChunkSizes /\ InStages
       /\ StallsOnlyWhenAllSkipped

-------------------------------------------------------------------------------
(* What a wave is made of.                                                 *)

\* The nodes skipped once the skipping loop has run.
Gone == IF request.policy.selective THEN Skipping[Len(request.nodes)] ELSE skipped

\* The loop skips what is ruled out, the wave takes the chosen nodes of the next
\* stage, and nothing is left over without one.
LEMMA WaveFacts ==
    ASSUME TypeOK, Partition, Conditions, ValidGraph, pending # {},
           NEW k \in Nat, DOMAIN resolved \subseteq UpTo[k],
           UpTo[k] \subseteq DOMAIN resolved \cup skipped
    PROVE  LET eligible == Eligible(pending \ Gone)
           IN  /\ skipped \subseteq Gone /\ Gone \subseteq skipped \cup pending
               /\ \A i \in Gone : request.policy.selective /\ RuledOut(i, Gone)
               /\ eligible \subseteq pending \ Gone
               /\ \A i \in eligible : Chosen(i)
               /\ eligible \subseteq UpTo[k + 1] \ UpTo[k]
               /\ UpTo[k + 1] \subseteq DOMAIN resolved \cup Gone \cup eligible
               /\ eligible = {} => pending \ Gone = {} /\ Gone # {}
<1> DEFINE left == pending \ Gone
<1> DEFINE eligible == Eligible(left)
<1>1. /\ request \in Requests /\ pending \subseteq Indices /\ skipped \subseteq Indices
      /\ DOMAIN resolved \subseteq Indices
  BY DEF TypeOK, Partition
<1>2. /\ skipped \subseteq Gone /\ Gone \subseteq skipped \cup pending
      /\ \A i \in Gone \ skipped : request.policy.selective /\ RuledOut(i, Gone)
      /\ request.policy.selective => \A i \in left : ~RuledOut(i, Gone)
  <2>1. CASE request.policy.selective
    <3>1. Gone = Skipping[Len(request.nodes)]
      BY <2>1 DEF Gone
    <3> QED BY <1>1, <2>1, <3>1, GraphFacts, SkippingResult
  <2>2. CASE ~request.policy.selective
    <3>1. Gone = skipped
      BY <2>2 DEF Gone
    <3> QED BY <2>2, <3>1
  <2> QED BY <2>1, <2>2
<1>3. \A i \in Gone : request.policy.selective /\ RuledOut(i, Gone)
  <2> SUFFICES ASSUME NEW i \in skipped PROVE request.policy.selective /\ RuledOut(i, Gone)
    BY <1>2
  <2>1. request.policy.selective /\ RuledOut(i, skipped)
    BY DEF Conditions
  <2> QED BY <2>1, <1>2 DEF RuledOut
<1>4. eligible \subseteq left /\ left \subseteq pending
  BY DEF Eligible
<1>5. ASSUME NEW i \in eligible PROVE Chosen(i)
  <2> SUFFICES ASSUME NEW d \in request.nodes[i].dependencies
               PROVE  /\ Node(d.on) \in DOMAIN resolved
                      /\ request.policy.selective =>
                            ConditionMatches(d.condition, resolved[Node(d.on)])
    BY DEF Chosen
  <2>1. Node(d.on) \in DOMAIN resolved
    BY DEF Eligible, DependsOn
  <2>2. request.policy.selective => ~RuledOut(i, Gone)
    BY <1>2, <1>4
  <2> QED BY <2>1, <2>2 DEF RuledOut
<1>6. ASSUME NEW i \in eligible PROVE i \in UpTo[k + 1] \ UpTo[k]
  <2>1. i \in Indices /\ i \notin DOMAIN resolved /\ i \notin skipped
    BY <1>1, <1>4 DEF Partition
  <2>2. \A d \in request.nodes[i].dependencies : Node(d.on) \in UpTo[k]
    BY <1>5 DEF Chosen
  <2>3. i \in UpTo[k + 1]
    BY <1>1, <2>1, <2>2, DependenciesDecideTheLevel
  <2> QED BY <2>1, <2>3
<1>7. ASSUME NEW i \in left,
             \A d \in request.nodes[i].dependencies : Node(d.on) \in DOMAIN resolved \cup Gone
      PROVE  i \in eligible
  <2>1. ASSUME NEW d \in request.nodes[i].dependencies PROVE Node(d.on) \in DOMAIN resolved
    <3> SUFFICES ASSUME Node(d.on) \in Gone PROVE FALSE
      BY <1>7
    <3>1. request.policy.selective /\ ~RuledOut(i, Gone)
      BY <1>2, <1>3
    <3> QED BY <3>1 DEF RuledOut
  <2>2. \A name \in DependsOn(i) : Node(name) \in DOMAIN resolved
    BY <2>1 DEF DependsOn
  <2> QED BY <2>2 DEF Eligible
<1>8. ASSUME NEW i \in UpTo[k + 1] PROVE i \in DOMAIN resolved \cup Gone \cup eligible
  <2> SUFFICES ASSUME i \in left PROVE i \in eligible
    <3>1. i \in Indices
      BY UpToDef
    <3> QED BY <3>1, <1>2 DEF Partition
  <2>1. \A d \in request.nodes[i].dependencies : Node(d.on) \in UpTo[k]
    BY <1>1, DependenciesBelow
  <2>2. \A d \in request.nodes[i].dependencies : Node(d.on) \in DOMAIN resolved \cup Gone
    BY <2>1, <1>2
  <2> QED BY <2>2, <1>7
<1>9. ASSUME eligible = {} PROVE left = {} /\ Gone # {}
  <2>1. left = {}
    <3> SUFFICES ASSUME left # {} PROVE FALSE
      OBVIOUS
    <3> DEFINE T == {m \in Nat : UpTo[m] \cap left # {}}
    <3>1. T # {}
      <4>1. Len(request.nodes) \in Nat /\ UpTo[Len(request.nodes)] = Indices
        BY <1>1, GraphFacts DEF ValidGraph
      <4>2. UpTo[Len(request.nodes)] \cap left # {}
        BY <4>1, <1>1, <1>4
      <4> QED BY <4>1, <4>2
    <3>2. T \in SUBSET Nat
      OBVIOUS
    <3>3. PICK m \in T : \A j \in T : m <= j
      <4> HIDE DEF T
      <4> QED BY <3>1, <3>2, LeastExists
    <3>4. m # 0 /\ m \in Nat
      BY UpToDef
    <3>5. m - 1 \in Nat /\ (m - 1) + 1 = m /\ ~(m <= m - 1)
      BY <3>4
    <3>6. UpTo[m - 1] \cap left = {}
      BY <3>3, <3>5
    <3>7. PICK i \in UpTo[m] : i \in left
      OBVIOUS
    <3>8. \A d \in request.nodes[i].dependencies : Node(d.on) \in UpTo[m - 1]
      <4>1. i \in UpTo[(m - 1) + 1]
        BY <3>5, <3>7
      <4> HIDE DEF T
      <4> QED BY <1>1, <3>5, <4>1, DependenciesBelow
    <3>9. UpTo[m - 1] \subseteq Indices
      BY <3>5, UpToDef
    <3>10. \A d \in request.nodes[i].dependencies : Node(d.on) \in DOMAIN resolved \cup Gone
      <4>1. UpTo[m - 1] \subseteq DOMAIN resolved \cup Gone
        BY <3>6, <3>9, <1>2 DEF Partition
      <4> QED BY <3>8, <4>1
    <3> QED BY <3>7, <3>10, <1>7, <1>9
  <2> QED BY <2>1
<1> HIDE DEF left, eligible
<1>10. eligible = Eligible(pending \ Gone) /\ left = pending \ Gone
  BY DEF eligible, left
<1>11. /\ eligible \subseteq UpTo[k + 1] \ UpTo[k]
       /\ UpTo[k + 1] \subseteq DOMAIN resolved \cup Gone \cup eligible
  BY <1>6, <1>8
<1> QED BY <1>2, <1>3, <1>4, <1>5, <1>9, <1>10, <1>11

-------------------------------------------------------------------------------
(* The invariant, action by action.                                        *)

\* The plan is a function of the request and of the model, which never change.
LEMMA Frame ==
    ASSUME request' = request, model' = model
    PROVE  /\ Indices' = Indices /\ UpTo' = UpTo /\ Stages' = Stages /\ ValidGraph' = ValidGraph
           /\ \A name : Node(name)' = Node(name)
           /\ \A count : EffectiveBatchSize(count)' = EffectiveBatchSize(count)
           /\ \A count : EffectiveParallelism(count)' = EffectiveParallelism(count)
<1>1. UpTo' = UpTo
  BY SMT DEF UpTo, Level, Indices, DependsOn
<1>2. Indices' = Indices /\ \A name : Node(name)' = Node(name)
  BY DEF Indices, Node
<1>3. /\ \A count : EffectiveBatchSize(count)' = EffectiveBatchSize(count)
      /\ \A count : EffectiveParallelism(count)' = EffectiveParallelism(count)
  BY DEF EffectiveBatchSize, EffectiveParallelism
<1>4. Strategy' = Strategy
  BY <1>2, <1>3 DEF Strategy, DependsOn
<1>5. ValidGraph' = ValidGraph
  BY <1>1, <1>2 DEF ValidGraph
<1>6. Stages' = Stages
  BY <1>1, SMT DEF Stages, Strategy, DependsOn, EffectiveBatchSize, EffectiveParallelism, Indices
<1> QED BY <1>1, <1>2, <1>3, <1>5, <1>6

\* A step that leaves the nodes and the chunks alone, and goes no further than
\* to fail or to be dropped, disturbs the calls only.
LEMMA CallsOnly ==
    ASSUME Inv, step' \in {step, "failed", "dropped"},
           UNCHANGED <<request, model, pending, skipped, resolved, chunks, batches>>
    PROVE  /\ Partition' /\ Conditions' /\ Validated' /\ ChunkSizes' /\ InStages'
           /\ Window' = Window /\ Wave' = Wave /\ Indices' = Indices
<1>1. Wave' = Wave
  BY DEF Wave
<1>2. Indices' = Indices /\ UpTo' = UpTo /\ Stages' = Stages /\ ValidGraph' = ValidGraph
      /\ (\A name : Node(name)' = Node(name))
      /\ (\A count : EffectiveBatchSize(count)' = EffectiveBatchSize(count))
      /\ (\A count : EffectiveParallelism(count)' = EffectiveParallelism(count))
  BY Frame
<1>3. Partition'
  BY <1>2 DEF Inv, Partition
<1>4. \A i : Chosen(i)' = Chosen(i)
  BY <1>2 DEF Chosen
<1>5. \A i : RuledOut(i, skipped)' = RuledOut(i, skipped)
  BY <1>2 DEF RuledOut
<1>6. Conditions'
  BY <1>1, <1>4, <1>5 DEF Inv, Conditions
<1>7. Validated'
  BY <1>2 DEF Inv, Validated
<1>8. ChunkSizes'
  BY DEF Inv, ChunkSizes
<1>9. InStages'
  <2> SUFFICES ASSUME step' \in {"wave", "calls", "done"}
               PROVE  \E k \in 0..Len(request'.nodes) : AtStage(k)'
    BY DEF InStages
  <2>1. step' = step
    OBVIOUS
  <2>2. PICK k \in 0..Len(request.nodes) : AtStage(k)
    BY <2>1 DEF Inv, InStages
  <2>3. AtStage(k)'
    BY <1>1, <1>2, <2>1, <2>2 DEF AtStage
  <2> QED BY <2>2, <2>3
<1>10. Window' = Window
  <2>1. Cardinality(UNION {Range(chunks[k]) : k \in DOMAIN chunks})'
        = Cardinality(UNION {Range(chunks[k]) : k \in DOMAIN chunks})
    OBVIOUS
  <2> QED BY <1>2, <2>1 DEF Window
<1> QED BY <1>1, <1>2, <1>3, <1>6, <1>7, <1>8, <1>9, <1>10

LEMMA DecisionInit ==
    ASSUME Init
    PROVE  Inv
<1>1. DOMAIN resolved = {} /\ DOMAIN chunks = {} /\ Len(chunks) = 0
  BY DEF Init
<1>2. TypeOK
  <2>1. calls \in [1..Len(chunks) -> CallRecord] /\ chunks \in Seq(Seq(Indices))
    BY <1>1 DEF Init
  <2> QED BY <2>1 DEF Init, TypeOK
<1>3. Partition
  BY <1>1 DEF Init, Partition
<1>4. Conditions /\ Validated
  BY <1>1 DEF Init, Conditions, Validated
<1>5. StallsOnlyWhenAllSkipped
  BY DEF Init, StallsOnlyWhenAllSkipped
<1>6. ChunkSizes /\ InStages
  BY DEF Init, ChunkSizes, InStages
<1>7. InWindow
  <2>1. Yielded = {} /\ DOMAIN calls = {}
    BY DEF Init, Yielded
  <2>2. Cardinality(Yielded) = 0
    BY <2>1, FS_EmptySet
  <2> QED BY <2>1, <2>2 DEF InWindow
<1> QED BY <1>2, <1>3, <1>4, <1>5, <1>6, <1>7 DEF Inv

LEMMA PlanKeeps ==
    ASSUME Inv, Plan
    PROVE  Inv'
<1>1. UNCHANGED <<request, model, cancelled, pending, skipped, resolved, chunks, calls, batches>>
      /\ step = "plan" /\ step' \in {"wave", "failed"}
  BY DEF Plan, Fail
<1>2. Indices' = Indices /\ UpTo' = UpTo /\ Stages' = Stages /\ ValidGraph' = ValidGraph
      /\ (\A name : Node(name)' = Node(name))
      /\ (\A count : EffectiveBatchSize(count)' = EffectiveBatchSize(count))
      /\ (\A count : EffectiveParallelism(count)' = EffectiveParallelism(count))
  BY <1>1, Frame
<1>3. TypeOK' /\ StallsOnlyWhenAllSkipped'
  <2>1. failure' \in {"none", "Cancelled", "CapabilityMismatch", "InvalidRequest", "NoProgress",
                      "InvalidOutput", "Execution"}
        /\ failure' \in {failure, "Cancelled", "CapabilityMismatch", "InvalidRequest"}
    BY DEF Plan, Fail, Inv, TypeOK
  <2>2. TypeOK'
    <3>1. (Seq(Seq(Indices)))' = Seq(Seq(Indices)) /\ CallRecord' = CallRecord
      BY <1>2 DEF CallRecord
    <3>2. TypeOK
      BY DEF Inv
    <3> QED BY <1>1, <2>1, <3>1, <3>2, Zenon DEF TypeOK
  <2> QED BY <1>1, <2>1, <2>2 DEF Inv, StallsOnlyWhenAllSkipped
<1>4. Partition'
  BY <1>1, <1>2 DEF Inv, Partition
<1>5. Conditions'
  BY <1>1 DEF Inv, Conditions, Validated
<1>6. Validated'
  BY <1>1, <1>2 DEF Plan, Fail, Inv, Validated
<1>7. ChunkSizes'
  BY <1>1 DEF Inv, ChunkSizes
<1>8. InWindow'
  <2>1. Window' = Window
    <3>1. Cardinality(UNION {Range(chunks[k]) : k \in DOMAIN chunks})'
          = Cardinality(UNION {Range(chunks[k]) : k \in DOMAIN chunks})
      BY <1>1
    <3> QED BY <1>2, <3>1 DEF Window
  <2>2. Yielded' = Yielded
    BY <1>1 DEF Yielded
  <2> QED BY <1>1, <2>1, <2>2 DEF Inv, InWindow
<1>9. InStages'
  <2> SUFFICES ASSUME step' = "wave" PROVE AtStage(0)'
    <3>1. 0 \in 0..Len(request'.nodes)
      BY <1>1, GraphFacts DEF Inv, TypeOK
    <3> QED BY <1>1, <3>1 DEF InStages
  <2>1. UpTo[0] = {}
    BY UpToDef
  <2>2. DOMAIN resolved = {} /\ batches = <<>>
    BY <1>1 DEF Inv, Validated
  <2>3. FlattenSeq(SubSeq(Stages, 1, 0)) = <<>>
    <3>1. Stages \in Seq(Seq(Seq(Indices)))
      BY StageFacts DEF Inv, TypeOK
    <3>2. SubSeq(Stages, 1, 0) = <<>>
      BY <3>1
    <3> QED BY <3>2 DEF FlattenSeq
  <2> QED BY <1>1, <1>2, <2>1, <2>2, <2>3 DEF AtStage
<1> QED BY <1>3, <1>4, <1>5, <1>6, <1>7, <1>8, <1>9 DEF Inv

\* The window is the parallelism of the wave, within both limits.
LEMMA WindowFacts ==
    ASSUME TypeOK
    PROVE  /\ Window \in Nat
           /\ ValidGraph => Window \in
                 1..Smaller(model.recommended_parallelism, request.policy.max_parallelism)
           /\ Window > 1 => model.parallel /\ request.policy.parallel
<1> DEFINE count == Cardinality(Wave)
<1> DEFINE most == Smaller(model.recommended_parallelism, request.policy.max_parallelism)
<1>1. count \in Nat
  <2>1. Wave \in SUBSET Indices
    <3>1. \A k \in DOMAIN chunks : Range(chunks[k]) \subseteq Indices
      BY DEF TypeOK, Range
    <3> QED BY <3>1 DEF Wave
  <2> QED BY <2>1, GraphFacts, FS_Subset, FS_CardinalityType DEF TypeOK
<1>2. model.recommended_parallelism \in Nat \ {0} /\ request.policy.max_parallelism \in Nat
  <2>1. request.policy \in Policy /\ model.recommended_parallelism \in 1..Unlimited
    BY GraphFacts, DecisionAssumption DEF TypeOK
  <2>2. request.policy.max_parallelism \in 0..Unlimited
    BY <2>1 DEF Policy
  <2> QED BY <2>1, <2>2
<1> HIDE DEF count
<1>3. EffectiveParallelism(count) =
         IF count >= 2 /\ request.policy.parallel /\ model.parallel THEN Smaller(most, count) ELSE 1
  BY DEF EffectiveParallelism
<1>4. Window = IF EffectiveBatchSize(count) > 1 THEN 1 ELSE EffectiveParallelism(count)
  BY DEF Window, Wave, count
<1>5. Window = 1 \/ (Window = Smaller(most, count) /\ count >= 2
                     /\ request.policy.parallel /\ model.parallel)
  BY <1>3, <1>4
<1>6. ValidGraph => request.policy.max_parallelism # 0
  BY DEF ValidGraph
<1> QED BY <1>1, <1>2, <1>5, <1>6 DEF Smaller

LEMMA YieldedFacts ==
    ASSUME TypeOK
    PROVE  /\ IsFiniteSet(Yielded) /\ Cardinality(Yielded) \in Nat
           /\ DOMAIN calls = 1..Len(chunks) /\ Len(chunks) \in Nat
<1>1. DOMAIN calls = 1..Len(chunks) /\ Len(chunks) \in Nat
  BY DEF TypeOK
<1>2. IsFiniteSet(DOMAIN calls)
  BY <1>1, FS_Interval
<1>3. Yielded \in SUBSET DOMAIN calls
  BY DEF Yielded
<1> QED BY <1>1, <1>2, <1>3, FS_Subset, FS_CardinalityType

LEMMA RecordSet ==
    ASSUME NEW V, NEW States, NEW r \in [state : States, values : V], NEW s \in States
    PROVE  [r EXCEPT !.state = s] \in [state : States, values : V] /\ [r EXCEPT !.state = s].state = s
OBVIOUS

LEMMA StateSet ==
    ASSUME TypeOK, NEW k \in DOMAIN calls, NEW s \in CallStates, NEW r,
           r = [calls[k] EXCEPT !.state = s], calls' = [calls EXCEPT ![k] = r]
    PROVE  /\ calls' \in [1..Len(chunks) -> CallRecord] /\ DOMAIN calls' = DOMAIN calls
           /\ calls'[k].state = s
           /\ \A j \in DOMAIN calls : j # k => calls'[j] = calls[j]
<1>1. calls \in [1..Len(chunks) -> CallRecord] /\ calls[k] \in CallRecord
  BY DEF TypeOK
<1>2. r \in CallRecord /\ r.state = s
  BY <1>1, RecordSet, Zenon DEF CallRecord
<1> QED BY <1>1, <1>2

LEMMA StartCallKeeps ==
    ASSUME Inv, NEW k \in DOMAIN calls, StartCall(k)
    PROVE  Inv'
<1>1. /\ UNCHANGED <<request, model, cancelled, step, failure, pending, skipped, resolved, chunks, batches>>
      /\ calls[k].state = "waiting" /\ k <= Cardinality(Yielded) + Window
      /\ calls' = [calls EXCEPT ![k].state = IF cancelled THEN "cancelled" ELSE "running"]
  BY DEF StartCall
<1>2. /\ Partition' /\ Conditions' /\ Validated' /\ ChunkSizes' /\ InStages'
      /\ Window' = Window /\ Indices' = Indices
  BY <1>1, CallsOnly
<1>3. /\ calls' \in [1..Len(chunks) -> CallRecord] /\ DOMAIN calls' = DOMAIN calls
      /\ calls'[k].state \in {"cancelled", "running"}
      /\ \A j \in DOMAIN calls : j # k => calls'[j] = calls[j]
  <2> DEFINE state == IF cancelled THEN "cancelled" ELSE "running"
  <2>1. state \in CallStates /\ state \in {"cancelled", "running"}
    BY DEF CallStates
  <2> DEFINE r == [calls[k] EXCEPT !.state = state]
  <2>2. calls' = [calls EXCEPT ![k] = r]
    BY <1>1
  <2>3. r = [calls[k] EXCEPT !.state = state] /\ TypeOK
    BY DEF Inv
  <2> HIDE DEF state, r
  <2> QED BY <2>1, <2>2, <2>3, StateSet
<1>4. TypeOK'
  <2>1. (Seq(Seq(Indices)))' = Seq(Seq(Indices)) /\ CallRecord' = CallRecord
    BY <1>2 DEF CallRecord
  <2>2. TypeOK
    BY DEF Inv
  <2> QED BY <1>1, <1>3, <2>1, <2>2, Zenon DEF TypeOK
<1>6. Yielded' = Yielded
  BY <1>1, <1>3 DEF Yielded
<1>7. InWindow'
  BY <1>1, <1>2, <1>3, <1>6 DEF Inv, InWindow
<1>8. StallsOnlyWhenAllSkipped'
  BY <1>1 DEF Inv, StallsOnlyWhenAllSkipped
<1> QED BY <1>2, <1>4, <1>7, <1>8 DEF Inv

LEMMA CallReturnsKeeps ==
    ASSUME Inv, NEW k \in DOMAIN calls, CallReturns(k)
    PROVE  Inv'
<1>1. /\ UNCHANGED <<request, model, cancelled, step, failure, pending, skipped, resolved, chunks, batches>>
      /\ calls[k].state = "running"
  BY DEF CallReturns, Running
<1>2. /\ Partition' /\ Conditions' /\ Validated' /\ ChunkSizes' /\ InStages'
      /\ Window' = Window /\ Indices' = Indices
  BY <1>1, CallsOnly
<1>3. calls \in [1..Len(chunks) -> CallRecord] /\ chunks \in Seq(Seq(Indices))
  BY DEF Inv, TypeOK
<1>4. /\ calls' \in [1..Len(chunks) -> CallRecord] /\ DOMAIN calls' = DOMAIN calls
      /\ calls'[k].state \in {"returned", "miscounted", "erred"}
      /\ \A j \in DOMAIN calls : j # k => calls'[j] = calls[j]
  <2>1. CASE \E values \in [Range(chunks[k]) -> UNION Range(Answers)] :
                calls' = [calls EXCEPT ![k] = [state |-> "returned", values |-> values]]
    <3>1. PICK values \in [Range(chunks[k]) -> UNION Range(Answers)] :
             calls' = [calls EXCEPT ![k] = [state |-> "returned", values |-> values]]
      BY <2>1
    <3>2. Range(chunks[k]) \in SUBSET Indices
      BY <1>3 DEF Range
    <3>3. [state |-> "returned", values |-> values] \in CallRecord
      BY <3>2 DEF CallRecord, CallStates
    <3> QED BY <3>1, <3>3, <1>3
  <2>2. CASE \E s \in {"miscounted", "erred"} : calls' = [calls EXCEPT ![k].state = s]
    <3>1. PICK s \in {"miscounted", "erred"} : calls' = [calls EXCEPT ![k].state = s]
      BY <2>2
    <3>2. s \in CallStates
      BY DEF CallStates
    <3> DEFINE r == [calls[k] EXCEPT !.state = s]
    <3>3. calls' = [calls EXCEPT ![k] = r]
      BY <3>1
    <3>4. r = [calls[k] EXCEPT !.state = s] /\ TypeOK
      BY DEF Inv
    <3> HIDE DEF r
    <3> QED BY <3>2, <3>3, <3>4, StateSet
  <2>3. \/ \E values \in [Range(chunks[k]) -> UNION Range(Answers)] :
              calls' = [calls EXCEPT ![k] = [state |-> "returned", values |-> values]]
        \/ \E s \in {"miscounted", "erred"} : calls' = [calls EXCEPT ![k].state = s]
    BY Zenon DEF CallReturns
  <2> QED BY <2>1, <2>2, <2>3
<1>5. TypeOK'
  <2>1. (Seq(Seq(Indices)))' = Seq(Seq(Indices)) /\ CallRecord' = CallRecord
    BY <1>2 DEF CallRecord
  <2>2. TypeOK
    BY DEF Inv
  <2> QED BY <1>1, <1>4, <2>1, <2>2, Zenon DEF TypeOK
<1>6. Yielded' = Yielded
  BY <1>1, <1>4 DEF Yielded
<1>7. InWindow'
  BY <1>1, <1>2, <1>4, <1>6 DEF Inv, InWindow
<1>8. StallsOnlyWhenAllSkipped'
  BY <1>1 DEF Inv, StallsOnlyWhenAllSkipped
<1> QED BY <1>2, <1>5, <1>7, <1>8 DEF Inv

LEMMA TakeResultKeeps ==
    ASSUME Inv, NEW k \in DOMAIN calls, TakeResult(k)
    PROVE  Inv'
<1>1. /\ UNCHANGED <<request, model, cancelled, pending, skipped, resolved, chunks, batches>>
      /\ step' \in {step, "failed"} /\ k = Cardinality(Yielded) + 1
      /\ failure' \in {failure, "InvalidOutput", "Execution", "Cancelled"}
      /\ calls' = calls \/ (calls' = [calls EXCEPT ![k].state = "yielded"])
  BY DEF TakeResult, Fail
<1>2. /\ Partition' /\ Conditions' /\ Validated' /\ ChunkSizes' /\ InStages'
      /\ Window' = Window /\ Indices' = Indices
  BY <1>1, CallsOnly
<1>3. /\ calls' \in [1..Len(chunks) -> CallRecord] /\ DOMAIN calls' = DOMAIN calls
      /\ \/ calls' = calls
         \/ /\ calls'[k].state = "yielded"
            /\ \A j \in DOMAIN calls : j # k => calls'[j] = calls[j]
  <2>1. calls \in [1..Len(chunks) -> CallRecord] /\ "yielded" \in CallStates
    BY DEF Inv, TypeOK, CallStates
  <2>2. CASE calls' = calls
    BY <2>1, <2>2
  <2>3. CASE calls' = [calls EXCEPT ![k].state = "yielded"]
    <3> DEFINE r == [calls[k] EXCEPT !.state = "yielded"]
    <3>1. calls' = [calls EXCEPT ![k] = r]
      BY <2>3
    <3>2. r = [calls[k] EXCEPT !.state = "yielded"] /\ TypeOK
      BY DEF Inv
    <3> HIDE DEF r
    <3> QED BY <2>1, <3>1, <3>2, StateSet
  <2> QED BY <1>1, <2>2, <2>3
<1>4. TypeOK'
  <2>1. (Seq(Seq(Indices)))' = Seq(Seq(Indices)) /\ CallRecord' = CallRecord
    BY <1>2 DEF CallRecord
  <2>2. TypeOK
    BY DEF Inv
  <2>3. step' \in {"plan", "wave", "calls", "done", "failed", "dropped"}
        /\ failure' \in {"none", "Cancelled", "CapabilityMismatch", "InvalidRequest", "NoProgress",
                         "InvalidOutput", "Execution"}
    BY <1>1, <2>2 DEF TypeOK
  <2> QED BY <1>1, <1>3, <2>1, <2>2, <2>3, Zenon DEF TypeOK
<1>5. InWindow'
  <2>1. CASE calls' = calls
    <3>1. Yielded' = Yielded
      BY <2>1 DEF Yielded
    <3> QED BY <1>2, <2>1, <3>1 DEF Inv, InWindow
  <2>2. CASE calls' # calls
    <3>1. /\ DOMAIN calls' = DOMAIN calls /\ calls'[k].state = "yielded"
          /\ \A j \in DOMAIN calls : j # k => calls'[j] = calls[j]
      BY <2>2, <1>3
    <3>2. Yielded' = Yielded \cup {k}
      BY <3>1 DEF Yielded
    <3>3. IsFiniteSet(Yielded) /\ Cardinality(Yielded) \in Nat /\ Yielded = 1..Cardinality(Yielded)
      BY YieldedFacts DEF Inv, InWindow
    <3>4. k \notin Yielded
      BY <3>3, <1>1
    <3>5. Cardinality(Yielded') = Cardinality(Yielded) + 1
      BY <3>2, <3>3, <3>4, FS_AddElement
    <3>6. Yielded' = 1..Cardinality(Yielded')
      BY <3>2, <3>3, <3>5, <1>1
    <3>7. Window \in Nat /\ Window' = Window /\ DOMAIN calls \subseteq Nat
      BY <1>2, WindowFacts, YieldedFacts DEF Inv
    <3>8. \A j \in DOMAIN calls' : calls'[j].state # "waiting" => j <= Cardinality(Yielded') + Window'
      <4> SUFFICES ASSUME NEW j \in DOMAIN calls, calls'[j].state # "waiting"
                   PROVE  j <= Cardinality(Yielded) + 1 + Window
        BY <3>1, <3>5, <3>7
      <4>1. CASE j = k
        BY <4>1, <1>1, <3>3, <3>7
      <4>2. CASE j # k
        <5>1. j <= Cardinality(Yielded) + Window
          BY <4>2, <3>1 DEF Inv, InWindow
        <5> QED BY <5>1, <3>3, <3>7
      <4> QED BY <4>1, <4>2
    <3> QED BY <3>6, <3>8 DEF InWindow
  <2> QED BY <1>1, <2>1, <2>2
<1>6. StallsOnlyWhenAllSkipped'
  BY <1>1 DEF Inv, StallsOnlyWhenAllSkipped
<1> QED BY <1>2, <1>4, <1>5, <1>6 DEF Inv

\* Cancel, Drop, a missing decision and a step that changes nothing.
LEMMA QuietKeeps ==
    ASSUME Inv, cancelled' \in BOOLEAN, step' \in {step, "failed", "dropped"},
           failure' \in {failure, "InvalidOutput"},
           UNCHANGED <<request, model, pending, skipped, resolved, chunks, calls, batches>>
    PROVE  Inv'
<1>1. /\ Partition' /\ Conditions' /\ Validated' /\ ChunkSizes' /\ InStages'
      /\ Window' = Window /\ Indices' = Indices
  BY CallsOnly
<1>2. TypeOK'
  <2>1. (Seq(Seq(Indices)))' = Seq(Seq(Indices)) /\ CallRecord' = CallRecord
    BY <1>1 DEF CallRecord
  <2>2. TypeOK
    BY DEF Inv
  <2>3. /\ step' \in {"plan", "wave", "calls", "done", "failed", "dropped"}
        /\ failure' \in {"none", "Cancelled", "CapabilityMismatch", "InvalidRequest", "NoProgress",
                         "InvalidOutput", "Execution"}
    BY <2>2 DEF TypeOK
  <2> QED BY <2>1, <2>2, <2>3, Zenon DEF TypeOK
<1>3. InWindow'
  <2>1. Yielded' = Yielded
    BY DEF Yielded
  <2> QED BY <1>1, <2>1 DEF Inv, InWindow
<1>4. StallsOnlyWhenAllSkipped'
  BY DEF Inv, StallsOnlyWhenAllSkipped
<1> QED BY <1>1, <1>2, <1>3, <1>4 DEF Inv

LEMMA StartWaveKeeps ==
    ASSUME Inv, StartWave
    PROVE  Inv'
<1> DEFINE n == Len(request.nodes)
<1> DEFINE left == pending \ Gone
<1> DEFINE eligible == Eligible(left)
<1> DEFINE s == Ordered(eligible)
<1> DEFINE size == EffectiveBatchSize(Len(s))
<1> DEFINE wave == Chunked(s, size)
<1>1. /\ TypeOK /\ Partition /\ Conditions /\ ValidGraph /\ step = "wave" /\ pending # {}
      /\ UNCHANGED <<request, model, cancelled, resolved, batches>>
      /\ request \in Requests /\ model \in Capabilities
  BY DEF Inv, StartWave, Validated, TypeOK
<1>2. PICK k \in 0..n : AtStage(k)
  BY <1>1 DEF Inv, InStages
<1>3. /\ k \in Nat /\ n \in Nat /\ Indices = 1..n /\ IsFiniteSet(Indices)
  BY <1>1, GraphFacts
<1>4. /\ DOMAIN resolved \subseteq UpTo[k] /\ UpTo[k] \subseteq DOMAIN resolved \cup skipped
      /\ \A j \in 1..k : UpTo[j] # UpTo[j - 1]
      /\ skipped = {} => batches = FlattenSeq(SubSeq(Stages, 1, k))
  BY <1>2 DEF AtStage
<1>5. /\ skipped \subseteq Gone /\ Gone \subseteq skipped \cup pending
      /\ \A i \in Gone : request.policy.selective /\ RuledOut(i, Gone)
      /\ eligible \subseteq pending \ Gone
      /\ \A i \in eligible : Chosen(i)
      /\ eligible \subseteq UpTo[k + 1] \ UpTo[k]
      /\ UpTo[k + 1] \subseteq DOMAIN resolved \cup Gone \cup eligible
      /\ eligible = {} => pending \ Gone = {} /\ Gone # {}
  BY <1>1, <1>3, <1>4, WaveFacts
<1>6. Indices' = Indices /\ UpTo' = UpTo /\ Stages' = Stages /\ ValidGraph' = ValidGraph
      /\ \A name : Node(name)' = Node(name)
  BY <1>1, Frame
<1>7. \/ /\ step' = "failed" /\ failure' = "Cancelled"
         /\ UNCHANGED <<pending, skipped, chunks, calls>>
      \/ /\ pending' = left /\ skipped' = Gone /\ s = <<>>
         /\ step' = "failed" /\ failure' = "NoProgress" /\ UNCHANGED <<chunks, calls>>
      \/ /\ pending' = left /\ skipped' = Gone /\ s # <<>>
         /\ chunks' = wave /\ calls' = [c \in DOMAIN wave |-> Waiting]
         /\ step' = "calls" /\ failure' = failure
  <2> HIDE DEF eligible
  <2> QED BY DEF StartWave, Fail, Gone, eligible
<1>8. eligible \in SUBSET Indices /\ eligible \in SUBSET Nat /\ IsFiniteSet(eligible)
  <2>1. eligible \in SUBSET Indices /\ Indices \in SUBSET Nat
    <3> HIDE DEF eligible, n
    <3>1. Indices \in SUBSET Nat
      BY <1>3
    <3> QED BY <1>1, <1>5, <3>1 DEF Partition
  <2> HIDE DEF eligible
  <2> QED BY <1>3, <2>1, FS_Subset
<1> HIDE DEF left, eligible
<1>9. /\ s \in Seq(Indices) /\ Len(s) \in Nat /\ Len(s) <= n /\ Range(s) = eligible
      /\ s = <<>> <=> eligible = {}
  <2>1. /\ Cardinality(eligible) \in Nat
        /\ s \in [1..Cardinality(eligible) -> eligible]
        /\ \A i \in eligible : \E j \in 1..Cardinality(eligible) : s[j] = i
    BY <1>8, OrderedFacts
  <2>5. Cardinality(eligible) <= n
    BY <1>1, <1>3, <1>8, GraphFacts, FS_Subset
  <2> HIDE DEF s
  <2>2. s \in Seq(Indices) /\ Len(s) \in Nat /\ Len(s) <= n
    <3> DEFINE count == Cardinality(eligible)
    <3> DEFINE I == Indices
    <3>2. count \in Nat /\ s \in [1..count -> I]
      BY <1>8, <2>1
    <3> HIDE DEF count, I
    <3>3. s \in Seq(I) /\ Len(s) = count
      BY <3>2
    <3>1. s \in Seq(Indices) /\ Len(s) = Cardinality(eligible)
      BY <3>3 DEF I, count
    <3> QED BY <2>1, <2>5, <3>1
  <2>3. Range(s) = eligible
    BY <2>1 DEF Range
  <2>4. s = <<>> <=> Range(s) = {}
    <3>1. s = <<>> <=> Len(s) = 0
      BY <2>2
    <3>2. DOMAIN s = 1..Len(s)
      BY <2>2
    <3>3. Len(s) # 0 => 1 \in DOMAIN s
      BY <2>2, <3>2
    <3>4. Len(s) = 0 => DOMAIN s = {}
      BY <3>2
    <3> QED BY <3>1, <3>3, <3>4 DEF Range
  <2> QED BY <2>2, <2>3, <2>4
<1> HIDE DEF s
<1>10. /\ size \in Nat \ {0}
       /\ size \in {1} \cup 1..Smaller(model.max_batch_size, request.policy.max_batch_size)
       /\ Smaller(model.max_batch_size, request.policy.max_batch_size) \in Nat
  BY <1>1, <1>9, SizeFacts
<1>11. /\ wave \in Seq(Seq(Indices)) /\ DOMAIN wave = 1..Len(wave) /\ Len(wave) \in Nat
       /\ s # <<>> => wave # <<>>
       /\ \A c \in DOMAIN wave : Len(wave[c]) \in 1..size
       /\ UNION {Range(wave[c]) : c \in DOMAIN wave} = eligible
  <2> DEFINE I == Indices
  <2>1. s \in Seq(I)
    BY <1>9
  <2> HIDE DEF I, size, wave
  <2>2. LET count == (Len(s) + size - 1) \div size
        IN  /\ count \in Nat /\ DOMAIN wave = 1..count
            /\ wave \in Seq(Seq(I)) /\ Len(wave) = count
            /\ s # <<>> => count # 0
            /\ \A c \in 1..count : Len(wave[c]) \in 1..size
            /\ UNION {Range(wave[c]) : c \in DOMAIN wave} = Range(s)
    BY <1>10, <2>1, ChunkedFacts DEF wave
  <2> QED BY <2>2, <1>9 DEF I
<1> HIDE DEF wave, size
<1>12. CASE step' = "failed" /\ failure' = "Cancelled" /\ UNCHANGED <<pending, skipped, chunks, calls>>
  <2>1. /\ Partition' /\ Conditions' /\ Validated' /\ ChunkSizes' /\ InStages'
        /\ Window' = Window
    BY <1>1, <1>12, CallsOnly
  <2>2. TypeOK'
    <3>1. (Seq(Seq(Indices)))' = Seq(Seq(Indices)) /\ CallRecord' = CallRecord
      BY <1>6 DEF CallRecord
    <3>2. step' \in {"plan", "wave", "calls", "done", "failed", "dropped"}
          /\ failure' \in {"none", "Cancelled", "CapabilityMismatch", "InvalidRequest", "NoProgress",
                           "InvalidOutput", "Execution"}
      BY <1>12
    <3> QED BY <1>1, <1>12, <3>1, <3>2, Zenon DEF TypeOK
  <2>3. InWindow'
    <3>1. Yielded' = Yielded
      BY <1>12 DEF Yielded
    <3> QED BY <1>12, <2>1, <3>1 DEF Inv, InWindow
  <2>4. StallsOnlyWhenAllSkipped'
    BY <1>12 DEF StallsOnlyWhenAllSkipped
  <2> QED BY <2>1, <2>2, <2>3, <2>4 DEF Inv
<1>13. ASSUME pending' = left, skipped' = Gone
       PROVE  /\ Partition' /\ \A i : Chosen(i)' = Chosen(i)
              /\ \A i \in DOMAIN resolved' : Chosen(i)'
              /\ \A i \in skipped' : request'.policy.selective /\ RuledOut(i, skipped)'
  <2>1. Partition'
    BY <1>1, <1>5, <1>6, <1>13 DEF Partition, left
  <2>2. \A i : Chosen(i)' = Chosen(i)
    BY <1>1, <1>6 DEF Chosen
  <2>3. \A i : RuledOut(i, skipped)' = RuledOut(i, Gone)
    BY <1>1, <1>6, <1>13 DEF RuledOut
  <2> QED BY <1>1, <1>5, <1>13, <2>1, <2>2, <2>3 DEF Conditions
<1>14. CASE /\ pending' = left /\ skipped' = Gone /\ s = <<>>
            /\ step' = "failed" /\ failure' = "NoProgress" /\ UNCHANGED <<chunks, calls>>
  <2>1. TypeOK'
    <3>1. (Seq(Seq(Indices)))' = Seq(Seq(Indices)) /\ CallRecord' = CallRecord
      BY <1>6 DEF CallRecord
    <3>2. step' \in {"plan", "wave", "calls", "done", "failed", "dropped"}
          /\ failure' \in {"none", "Cancelled", "CapabilityMismatch", "InvalidRequest", "NoProgress",
                           "InvalidOutput", "Execution"}
      BY <1>14
    <3> QED BY <1>1, <1>14, <3>1, <3>2, Zenon DEF TypeOK
  <2>2. Partition' /\ Conditions'
    BY <1>13, <1>14 DEF Conditions
  <2>3. Validated' /\ InStages'
    BY <1>1, <1>6, <1>14 DEF Validated, InStages
  <2>4. ChunkSizes'
    BY <1>1, <1>14 DEF Inv, ChunkSizes
  <2>5. InWindow'
    <3>1. Yielded' = Yielded
      BY <1>14 DEF Yielded
    <3>2. Window' = Window
      <4>1. Cardinality(UNION {Range(chunks[c]) : c \in DOMAIN chunks})'
            = Cardinality(UNION {Range(chunks[c]) : c \in DOMAIN chunks})
        BY <1>14
      <4> QED BY <1>1, <4>1, Frame DEF Window
    <3> QED BY <1>14, <3>1, <3>2 DEF Inv, InWindow
  <2>6. StallsOnlyWhenAllSkipped'
    BY <1>5, <1>9, <1>14 DEF StallsOnlyWhenAllSkipped, left
  <2> QED BY <2>1, <2>2, <2>3, <2>4, <2>5, <2>6 DEF Inv
<1>15. CASE /\ pending' = left /\ skipped' = Gone /\ s # <<>>
            /\ chunks' = wave /\ calls' = [c \in DOMAIN wave |-> Waiting]
            /\ step' = "calls" /\ failure' = failure
  <2>1. Wave' = eligible
    BY <1>11, <1>15 DEF Wave
  <2>2. TypeOK'
    <3>1. (Seq(Seq(Indices)))' = Seq(Seq(Indices)) /\ CallRecord' = CallRecord
      BY <1>6 DEF CallRecord
    <3>2. Waiting \in CallRecord
      BY DEF Waiting, CallRecord, CallStates
    <3>3. calls' \in [1..Len(chunks') -> CallRecord]
      BY <1>11, <1>15, <3>2
    <3>4. chunks' \in Seq(Seq(Indices))
      BY <1>11, <1>15
    <3>5. step' \in {"plan", "wave", "calls", "done", "failed", "dropped"}
      BY <1>15
    <3> QED BY <1>1, <1>15, <3>1, <3>3, <3>4, <3>5, Zenon DEF TypeOK
  <2>3. Partition' /\ Conditions'
    <3>1. Wave' \subseteq pending' /\ Wave' # {} /\ \A i \in Wave' : Chosen(i)'
      BY <1>5, <1>9, <1>13, <1>15, <2>1 DEF left
    <3> QED BY <1>13, <1>15, <3>1 DEF Conditions
  <2>4. Validated'
    BY <1>1, <1>6, <1>15 DEF Validated
  <2>5. ChunkSizes'
    <3> DEFINE limit == Smaller(model.max_batch_size, request.policy.max_batch_size)
    <3>1. limit' = limit
      BY <1>1
    <3>2. \A c \in DOMAIN wave : Len(wave[c]) \in {1} \cup 1..limit
      <4>1. limit \in Nat /\ size \in {1} \cup 1..limit
        BY <1>10
      <4>2. \A c \in DOMAIN wave : Len(wave[c]) \in 1..size
        BY <1>11
      <4> HIDE DEF limit
      <4>3. \A x \in 1..size : x \in {1} \cup 1..limit
        BY <4>1
      <4> QED BY <4>2, <4>3, Zenon
    <3> QED BY <1>15, <3>1, <3>2 DEF ChunkSizes
  <2>6. InWindow'
    <3>1. \A c \in DOMAIN calls' : calls'[c].state = "waiting"
      BY <1>15 DEF Waiting
    <3>2. Yielded' = {}
      BY <3>1 DEF Yielded
    <3>3. Cardinality(Yielded') = 0
      BY <3>2, FS_EmptySet
    <3> QED BY <3>1, <3>2, <3>3 DEF InWindow
  <2>7. StallsOnlyWhenAllSkipped'
    BY <1>1, <1>15 DEF Inv, StallsOnlyWhenAllSkipped
  <2>8. InStages'
    <3>1. \A j \in 1..(k + 1) : UpTo[j] # UpTo[j - 1]
      <4>1. UpTo[k + 1] # UpTo[k]
        BY <1>5, <1>9, <1>15
      <4>2. \A j \in 1..(k + 1) : j = k + 1 \/ j \in 1..k
        BY <1>3
      <4> QED BY <1>3, <1>4, <4>1, <4>2
    <3>2. k + 1 <= n /\ k + 1 \in DOMAIN Stages
      <4>1. k + 1 \in Nat /\ k + 1 \in 1..(k + 1)
        BY <1>3
      <4> QED BY <1>1, <3>1, <4>1, StagesCounted
    <3>3. ASSUME Gone = {} PROVE chunks' = Stages[k + 1]
      <4>1. UpTo[k + 1] \ UpTo[k] = eligible
        BY <1>4, <1>5, <3>3
      <4>2. Stages[k + 1] = Chunked(Ordered(eligible), PlannedSize(Len(Ordered(eligible))))
        BY <1>1, <1>3, <3>2, <4>1, StageFacts
      <4>3. Stages[k + 1] = Chunked(s, PlannedSize(Len(s)))
        BY <4>2 DEF s
      <4>4. Chunked(s, PlannedSize(Len(s))) = Chunked(s, EffectiveBatchSize(Len(s)))
        BY <1>1, <1>9, <1>15, SameBatches
      <4> QED BY <1>15, <4>3, <4>4 DEF wave, size
    <3>4. AtStage(k)'
      <4>1. DOMAIN resolved \subseteq UpTo[k] /\ UpTo[k] \subseteq DOMAIN resolved \cup Gone
        BY <1>4, <1>5
      <4>2. Gone = {} => batches = FlattenSeq(SubSeq(Stages, 1, k))
        BY <1>4, <1>5
      <4>3. eligible \subseteq UpTo[k + 1] \ UpTo[k]
            /\ UpTo[k + 1] \subseteq DOMAIN resolved \cup Gone \cup eligible
        BY <1>5
      <4> QED BY <1>1, <1>4, <1>6, <1>15, <2>1, <3>3, <4>1, <4>2, <4>3 DEF AtStage
    <3>5. k \in 0..Len(request'.nodes)
      BY <1>1, <1>2
    <3> QED BY <3>4, <3>5 DEF InStages
  <2> QED BY <2>2, <2>3, <2>4, <2>5, <2>6, <2>7, <2>8 DEF Inv
<1> QED BY <1>7, <1>12, <1>14, <1>15

LEMMA CompleteWaveKeeps ==
    ASSUME Inv, CompleteWave
    PROVE  Inv'
<1> DEFINE of(i) == CHOOSE k \in DOMAIN chunks : i \in Range(chunks[k])
<1>1. /\ TypeOK /\ Partition /\ Conditions /\ ValidGraph /\ step = "calls"
      /\ UNCHANGED <<request, model, cancelled, failure, skipped, chunks, calls>>
      /\ pending' = pending \ Wave /\ batches' = batches \o chunks /\ step' = "wave"
      /\ request \in Requests /\ model \in Capabilities
  BY DEF Inv, CompleteWave, Validated, TypeOK, Wave
<1>2. resolved' = [i \in DOMAIN resolved \cup Wave |->
                      IF i \in Wave THEN calls[of(i)].values[i] ELSE resolved[i]]
  BY DEF CompleteWave, Wave
<1>3. /\ DOMAIN resolved' = DOMAIN resolved \cup Wave
      /\ \A i \in DOMAIN resolved : resolved'[i] = resolved[i]
  <2>1. DOMAIN resolved \cap Wave = {}
    BY <1>1 DEF Conditions, Partition
  <2> HIDE DEF of
  <2> QED BY <1>2, <2>1
<1>4. Wave \subseteq pending /\ Wave # {} /\ \A i \in Wave : Chosen(i)
  BY <1>1 DEF Conditions
<1>5. Indices' = Indices /\ UpTo' = UpTo /\ Stages' = Stages /\ ValidGraph' = ValidGraph
      /\ (\A name : Node(name)' = Node(name))
      /\ (\A count : EffectiveBatchSize(count)' = EffectiveBatchSize(count))
      /\ (\A count : EffectiveParallelism(count)' = EffectiveParallelism(count))
  BY <1>1, Frame
<1>6. TypeOK'
  <2>1. (Seq(Seq(Indices)))' = Seq(Seq(Indices)) /\ CallRecord' = CallRecord
    BY <1>5 DEF CallRecord
  <2>2. step' \in {"plan", "wave", "calls", "done", "failed", "dropped"}
    BY <1>1
  <2> QED BY <1>1, <2>1, <2>2, Zenon DEF TypeOK
<1>7. Partition'
  BY <1>1, <1>3, <1>4, <1>5 DEF Partition
<1>8. \A i : Chosen(i) => Chosen(i)'
  <2> SUFFICES ASSUME NEW i, Chosen(i), NEW d \in request.nodes[i].dependencies
               PROVE  /\ Node(d.on) \in DOMAIN resolved'
                      /\ request.policy.selective =>
                            ConditionMatches(d.condition, resolved'[Node(d.on)])
    BY <1>1, <1>5 DEF Chosen
  <2>1. /\ Node(d.on) \in DOMAIN resolved
        /\ request.policy.selective => ConditionMatches(d.condition, resolved[Node(d.on)])
    BY DEF Chosen
  <2> QED BY <1>3, <2>1
<1>9. \A i : RuledOut(i, skipped) => RuledOut(i, skipped)'
  <2> SUFFICES ASSUME NEW i, NEW d \in request.nodes[i].dependencies,
                      \/ Node(d.on) \in skipped
                      \/ /\ Node(d.on) \in DOMAIN resolved
                         /\ ~ConditionMatches(d.condition, resolved[Node(d.on)])
               PROVE  \/ Node(d.on) \in skipped
                      \/ /\ Node(d.on) \in DOMAIN resolved'
                         /\ ~ConditionMatches(d.condition, resolved'[Node(d.on)])
    BY <1>1, <1>5 DEF RuledOut
  <2> QED BY <1>3
<1>10. Conditions'
  BY <1>1, <1>3, <1>4, <1>8, <1>9 DEF Conditions
<1>11. Validated' /\ ChunkSizes'
  BY <1>1, <1>5 DEF Inv, Validated, ChunkSizes
<1>12. InWindow'
  <2>1. Yielded' = Yielded
    BY <1>1 DEF Yielded
  <2>2. Window' = Window
    <3>1. Cardinality(UNION {Range(chunks[c]) : c \in DOMAIN chunks})'
          = Cardinality(UNION {Range(chunks[c]) : c \in DOMAIN chunks})
      BY <1>1
    <3> QED BY <1>5, <3>1 DEF Window
  <2> QED BY <1>1, <2>1, <2>2 DEF Inv, InWindow
<1>13. StallsOnlyWhenAllSkipped'
  BY <1>1, <1>4 DEF Inv, StallsOnlyWhenAllSkipped
<1>14. InStages'
  <2>1. PICK k \in 0..Len(request.nodes) : AtStage(k)
    BY <1>1 DEF Inv, InStages
  <2>2. /\ k \in Nat /\ k + 1 \in Nat /\ (k + 1) - 1 = k /\ Len(request.nodes) \in Nat
    BY <1>1, GraphFacts
  <2>3. /\ DOMAIN resolved \subseteq UpTo[k] /\ \A j \in 1..k : UpTo[j] # UpTo[j - 1]
        /\ skipped = {} => batches = FlattenSeq(SubSeq(Stages, 1, k)) /\ chunks = Stages[k + 1]
        /\ Wave \subseteq UpTo[k + 1] \ UpTo[k]
        /\ UpTo[k + 1] \subseteq DOMAIN resolved \cup skipped \cup Wave
    BY <1>1, <2>1 DEF AtStage
  <2>4. UpTo[k] \subseteq UpTo[k + 1]
    BY <2>2, UpToDef
  <2>5. \A j \in 1..(k + 1) : UpTo[j] # UpTo[j - 1]
    <3>1. UpTo[k + 1] # UpTo[k]
      BY <1>4, <2>3
    <3>2. \A j \in 1..(k + 1) : j = k + 1 \/ j \in 1..k
      BY <2>2
    <3> QED BY <2>2, <2>3, <3>1, <3>2
  <2>6. k + 1 <= Len(request.nodes) /\ k + 1 \in DOMAIN Stages
    <3>1. k + 1 \in 1..(k + 1)
      BY <2>2
    <3> QED BY <1>1, <2>2, <2>5, <3>1, StagesCounted
  <2>7. ASSUME skipped = {} PROVE batches' = FlattenSeq(SubSeq(Stages, 1, k + 1))
    <3> DEFINE T == Seq(Indices)
    <3>1. Stages \in Seq(Seq(T))
      BY <1>1, StageFacts
    <3> HIDE DEF T
    <3>2. k < Len(Stages)
      BY <2>2, <2>6, <3>1
    <3>3. FlattenSeq(SubSeq(Stages, 1, k + 1)) = FlattenSeq(SubSeq(Stages, 1, k)) \o Stages[k + 1]
      BY <2>2, <3>1, <3>2, FlattenPrefix
    <3> QED BY <1>1, <2>3, <2>7, <3>3
  <2>8. AtStage(k + 1)'
    <3>1. /\ DOMAIN resolved' \subseteq UpTo[k + 1]
          /\ UpTo[k + 1] \subseteq DOMAIN resolved' \cup skipped
      BY <1>3, <2>3, <2>4
    <3> QED BY <1>1, <1>5, <2>5, <2>7, <3>1 DEF AtStage
  <2>9. k + 1 \in 0..Len(request'.nodes)
    BY <1>1, <2>2, <2>6
  <2> QED BY <2>8, <2>9 DEF InStages
<1> QED BY <1>6, <1>7, <1>10, <1>11, <1>12, <1>13, <1>14 DEF Inv

LEMMA FinishKeeps ==
    ASSUME Inv, Finish
    PROVE  Inv'
<1>1. /\ UNCHANGED <<request, model, cancelled, failure, pending, skipped, resolved, chunks, calls, batches>>
      /\ step = "wave" /\ step' = "done" /\ pending = {}
  BY DEF Finish
<1>2. Indices' = Indices /\ UpTo' = UpTo /\ Stages' = Stages /\ ValidGraph' = ValidGraph
      /\ (\A name : Node(name)' = Node(name))
      /\ (\A count : EffectiveBatchSize(count)' = EffectiveBatchSize(count))
      /\ (\A count : EffectiveParallelism(count)' = EffectiveParallelism(count))
  BY <1>1, Frame
<1>3. TypeOK'
  <2>1. (Seq(Seq(Indices)))' = Seq(Seq(Indices)) /\ CallRecord' = CallRecord
    BY <1>2 DEF CallRecord
  <2>2. step' \in {"plan", "wave", "calls", "done", "failed", "dropped"} /\ TypeOK
    BY <1>1 DEF Inv
  <2> QED BY <1>1, <2>1, <2>2, Zenon DEF TypeOK
<1>4. Partition'
  BY <1>1, <1>2 DEF Inv, Partition
<1>5. Conditions'
  <2>1. \A i : Chosen(i)' = Chosen(i)
    BY <1>1, <1>2 DEF Chosen
  <2>2. \A i : RuledOut(i, skipped)' = RuledOut(i, skipped)
    BY <1>1, <1>2 DEF RuledOut
  <2> QED BY <1>1, <2>1, <2>2 DEF Inv, Conditions
<1>6. Validated' /\ ChunkSizes'
  BY <1>1, <1>2 DEF Inv, Validated, ChunkSizes
<1>7. InWindow'
  <2>1. Yielded' = Yielded
    BY <1>1 DEF Yielded
  <2>2. Window' = Window
    <3>1. Cardinality(UNION {Range(chunks[c]) : c \in DOMAIN chunks})'
          = Cardinality(UNION {Range(chunks[c]) : c \in DOMAIN chunks})
      BY <1>1
    <3> QED BY <1>2, <3>1 DEF Window
  <2> QED BY <1>1, <2>1, <2>2 DEF Inv, InWindow
<1>8. StallsOnlyWhenAllSkipped'
  BY <1>1 DEF Inv, StallsOnlyWhenAllSkipped
<1>9. InStages'
  <2>1. PICK k \in 0..Len(request.nodes) : AtStage(k)
    BY <1>1 DEF Inv, InStages
  <2>2. AtStage(k)'
    BY <1>1, <1>2, <2>1 DEF AtStage
  <2> QED BY <1>1, <2>1, <2>2 DEF InStages
<1> QED BY <1>3, <1>4, <1>5, <1>6, <1>7, <1>8, <1>9 DEF Inv

-------------------------------------------------------------------------------
(* The theorems.                                                           *)

\* The invariant of execute_graph: what is resolved was chosen, what is skipped
\* is ruled out, and the waves are the stages of the plan, in order.
THEOREM DecisionInvariant == Spec => []Inv
<1>1. Init => Inv
  BY DecisionInit
<1>2. Inv /\ [Next]_vars => Inv'
  <2> SUFFICES ASSUME Inv, [Next]_vars PROVE Inv'
    OBVIOUS
  <2>1. CASE Plan
    BY <2>1, PlanKeeps
  <2>2. CASE StartWave
    BY <2>2, StartWaveKeeps
  <2>3. CASE CompleteWave
    BY <2>3, CompleteWaveKeeps
  <2>4. CASE Finish
    BY <2>4, FinishKeeps
  <2>5. ASSUME NEW k \in DOMAIN calls, StartCall(k) PROVE Inv'
    BY <2>5, StartCallKeeps
  <2>6. ASSUME NEW k \in DOMAIN calls, TakeResult(k) PROVE Inv'
    BY <2>6, TakeResultKeeps
  <2>7. ASSUME NEW k \in DOMAIN calls, CallReturns(k) PROVE Inv'
    BY <2>7, CallReturnsKeeps
  <2>8. CASE Cancel
    BY <2>8, QuietKeeps DEF Cancel
  <2>9. CASE Drop
    <3>1. cancelled \in BOOLEAN
      BY DEF Inv, TypeOK
    <3> QED BY <2>9, <3>1, QuietKeeps DEF Drop
  <2>10. CASE UNCHANGED vars
    <3>1. cancelled \in BOOLEAN
      BY DEF Inv, TypeOK
    <3> QED BY <2>10, <3>1, QuietKeeps DEF vars
  <2>11. CASE MissDecision
    <3>1. cancelled \in BOOLEAN
      BY DEF Inv, TypeOK
    <3> QED BY <2>11, <3>1, QuietKeeps DEF MissDecision, Fail
  <2> QED BY <2>1, <2>2, <2>3, <2>4, <2>5, <2>6, <2>7, <2>8, <2>9, <2>10, <2>11
          DEF Next, Execute, Native
<1> QED BY <1>1, <1>2, PTL DEF Spec

\* The reference definition of need has one solution on a valid graph, which
\* the execution has found.
LEMMA NeededIsResolved ==
    ASSUME Inv, step = "done", NEW i \in Indices
    PROVE  Needed[i] <=> i \in DOMAIN resolved
<1> DEFINE R == DOMAIN resolved
<1> DEFINE Asked(d) == request.policy.selective =>
                          /\ Node(d.on) \in DOMAIN resolved
                          /\ ConditionMatches(d.condition, resolved[Node(d.on)])
<1> DEFINE Follows(f, j) == \A d \in request.nodes[j].dependencies : f[Node(d.on)] /\ Asked(d)
<1> DEFINE IsNeeded(f) == f = [j \in Indices |-> Follows(f, j)]
<1> DEFINE g == [j \in Indices |-> j \in R]
<1>1. /\ request \in Requests /\ Partition /\ pending = {} /\ ValidGraph
      /\ \A j \in R : Chosen(j)
      /\ \A j \in skipped : request.policy.selective /\ RuledOut(j, skipped)
      /\ Indices = skipped \cup R /\ skipped \cap R = {}
  BY DEF Inv, TypeOK, Conditions, Validated, Partition
<1>2. \A j \in Indices : \A d \in request.nodes[j].dependencies : Node(d.on) \in Indices
  BY <1>1, DependencyIsANode
<1>3. \A j \in Indices : g[j] <=> j \in R
  OBVIOUS
<1>4. ASSUME NEW j \in Indices PROVE Follows(g, j) <=> j \in R
  <2>1. ASSUME j \in R PROVE Follows(g, j)
    <3> HIDE DEF g
    <3> SUFFICES ASSUME NEW d \in request.nodes[j].dependencies PROVE g[Node(d.on)] /\ Asked(d)
      OBVIOUS
    <3>1. /\ Node(d.on) \in R
          /\ request.policy.selective => ConditionMatches(d.condition, resolved[Node(d.on)])
      BY <1>1, <2>1 DEF Chosen
    <3> QED BY <1>2, <1>3, <3>1
  <2>2. ASSUME j \notin R, Follows(g, j) PROVE FALSE
    <3>1. j \in skipped
      BY <1>1, <2>2
    <3>2. PICK d \in request.nodes[j].dependencies :
             \/ Node(d.on) \in skipped
             \/ Node(d.on) \in R /\ ~ConditionMatches(d.condition, resolved[Node(d.on)])
      BY <1>1, <3>1 DEF RuledOut
    <3> HIDE DEF g
    <3>3. Node(d.on) \in R /\ (request.policy.selective =>
                                  ConditionMatches(d.condition, resolved[Node(d.on)]))
      BY <1>2, <1>3, <2>2
    <3> QED BY <1>1, <3>1, <3>2, <3>3
  <2> QED BY <2>1, <2>2
<1> HIDE DEF Follows
<1>5. \A j \in Indices : Follows(g, j) \in BOOLEAN
  BY DEF Follows
<1>6. IsNeeded(g)
  <2>1. \A j \in Indices : (j \in R) = Follows(g, j)
    BY <1>4, <1>5
  <2>2. g = [j \in Indices |-> Follows(g, j)]
    <3> DEFINE v(j) == Follows(g, j)
    <3>1. \A j \in Indices : (j \in R) = v(j)
      BY <2>1
    <3> HIDE DEF v
    <3>2. [j \in Indices |-> j \in R] = [j \in Indices |-> v(j)]
      BY <3>1, Zenon
    <3> QED BY <3>2 DEF v
  <2> QED BY <2>2
<1>7. Needed = CHOOSE f : IsNeeded(f)
  BY DEF Needed, Follows
<1> HIDE DEF g
<1>8. IsNeeded(Needed)
  <2> HIDE DEF IsNeeded
  <2> QED BY <1>6, <1>7, Zenon
<1>9. \A j \in Indices : Needed[j] = Follows(Needed, j)
  BY <1>8
<1> DEFINE T == {m \in Nat : \A j \in UpTo[m] : Needed[j] <=> j \in R}
<1>10. 0 \in T
  BY UpToDef
<1>11. ASSUME NEW m \in T PROVE m + 1 \in T
  <2>1. m \in Nat /\ m + 1 \in Nat /\ UpTo[m] \subseteq Indices /\ UpTo[m + 1] \subseteq Indices
        /\ \A j \in UpTo[m] : Needed[j] <=> j \in R
    BY UpToDef
  <2>2. ASSUME NEW j \in UpTo[m + 1] PROVE Needed[j] <=> j \in R
    <3>1. \A d \in request.nodes[j].dependencies : Node(d.on) \in UpTo[m]
      BY <1>1, <2>1, DependenciesBelow
    <3>2. \A d \in request.nodes[j].dependencies : Needed[Node(d.on)] <=> g[Node(d.on)]
      BY <1>3, <2>1, <3>1
    <3>3. Follows(Needed, j) <=> Follows(g, j)
      BY <3>2, Zenon DEF Follows
    <3>4. j \in Indices
      BY <2>1
    <3> QED BY <1>4, <1>9, <3>3, <3>4
  <2> QED BY <2>1, <2>2
<1>12. T = Nat
  <2>1. T \in SUBSET Nat
    OBVIOUS
  <2> HIDE DEF T
  <2> QED BY <1>10, <1>11, <2>1, SetInduction
<1>13. Len(request.nodes) \in Nat /\ UpTo[Len(request.nodes)] = Indices
  BY <1>1, GraphFacts DEF ValidGraph
<1>14. Len(request.nodes) \in T
  BY <1>12, <1>13
<1> QED BY <1>13, <1>14

\* A graph that is answered has decided the nodes that are needed, and no other;
\* one that is left without progress has no node left that waits for another.
THEOREM AnsweredAsNeeded == Spec => []AnswersWhatIsNeeded
<1>1. Inv => AnswersWhatIsNeeded
  <2> SUFFICES ASSUME Inv, step = "done"
               PROVE  /\ DOMAIN resolved = {i \in Indices : Needed[i]}
                      /\ skipped = Indices \ DOMAIN resolved
    BY DEF Inv, AnswersWhatIsNeeded, DecidesTheNeeded
  <2>1. Indices = skipped \cup DOMAIN resolved /\ skipped \cap DOMAIN resolved = {}
    BY DEF Inv, Partition, Conditions
  <2>2. \A i \in Indices : Needed[i] <=> i \in DOMAIN resolved
    BY NeededIsResolved
  <2> QED BY <2>1, <2>2
<1> QED BY <1>1, DecisionInvariant, PTL

LEMMA FollowsThePlan ==
    ASSUME Inv
    PROVE  PlanFollowed
<1>1. ASSUME step = "done", skipped = {} PROVE batches = FlattenSeq(Stages)
  <2>1. /\ request \in Requests /\ model \in Capabilities
        /\ Indices = DOMAIN resolved
    BY <1>1 DEF Inv, TypeOK, Partition, Conditions
  <2>2. PICK k \in 0..Len(request.nodes) : AtStage(k)
    BY <1>1 DEF Inv, InStages
  <2>3. k \in Nat
    BY <2>1, GraphFacts
  <2>4. /\ UpTo[k] = Indices /\ \A j \in 1..k : UpTo[j] # UpTo[j - 1]
        /\ batches = FlattenSeq(SubSeq(Stages, 1, k))
    BY <1>1, <2>1, <2>2, <2>3, UpToDef DEF AtStage
  <2>5. DOMAIN Stages = 1..k
    BY <2>1, <2>3, <2>4, StagesComplete
  <2>6. SubSeq(Stages, 1, k) = Stages
    <3> DEFINE T == Seq(Seq(Indices))
    <3>1. Stages \in Seq(T)
      BY <2>1, StageFacts
    <3> HIDE DEF T
    <3>2. Len(Stages) = k
      BY <2>3, <2>5, <3>1
    <3> QED BY <2>3, <3>1, <3>2
  <2> QED BY <2>4, <2>6
<1>2. ASSUME step = "calls"
      PROVE  \E k \in DOMAIN Stages :
                UNION {Range(chunks[c]) : c \in DOMAIN chunks}
                    \subseteq UNION {Range(Stages[k][c]) : c \in DOMAIN Stages[k]}
  <2>1. request \in Requests /\ model \in Capabilities /\ Wave # {}
    BY <1>2 DEF Inv, TypeOK, Conditions
  <2>2. PICK k \in 0..Len(request.nodes) : AtStage(k)
    BY <1>2 DEF Inv, InStages
  <2>3. k \in Nat /\ k + 1 \in Nat /\ (k + 1) - 1 = k
    BY <2>1, GraphFacts
  <2>4. Wave \subseteq UpTo[k + 1] \ UpTo[k] /\ \A j \in 1..k : UpTo[j] # UpTo[j - 1]
    BY <1>2, <2>2 DEF AtStage
  <2>5. \A j \in 1..(k + 1) : UpTo[j] # UpTo[j - 1]
    <3>1. UpTo[k + 1] # UpTo[k]
      BY <2>1, <2>4
    <3>2. \A j \in 1..(k + 1) : j = k + 1 \/ j \in 1..k
      BY <2>3
    <3> QED BY <2>3, <2>4, <3>1, <3>2
  <2>6. k + 1 \in DOMAIN Stages
    <3>1. k + 1 \in 1..(k + 1)
      BY <2>3
    <3> QED BY <2>1, <2>3, <2>5, <3>1, StagesCounted
  <2>7. UNION {Range(Stages[k + 1][c]) : c \in DOMAIN Stages[k + 1]} = UpTo[k + 1] \ UpTo[k]
    BY <2>1, <2>3, <2>6, StageFacts
  <2>8. UNION {Range(chunks[c]) : c \in DOMAIN chunks} = Wave
    BY DEF Wave
  <2> QED BY <2>4, <2>6, <2>7, <2>8
<1> QED BY <1>1, <1>2 DEF PlanFollowed

LEMMA RespectsTheLimits ==
    ASSUME Inv
    PROVE  LimitsRespected
<1> DEFINE most == Smaller(model.recommended_parallelism, request.policy.max_parallelism)
<1> DEFINE y == Cardinality(Yielded)
<1>1. TypeOK /\ InWindow /\ ChunkSizes /\ Validated
  BY DEF Inv
<1>2. /\ y \in Nat /\ DOMAIN calls = 1..Len(chunks) /\ Len(chunks) \in Nat /\ Window \in Nat
  BY <1>1, YieldedFacts, WindowFacts
<1>3. Running \subseteq (y + 1)..(y + Window)
  <2> SUFFICES ASSUME NEW k \in Running PROVE k \in (y + 1)..(y + Window)
    OBVIOUS
  <2>1. k \in 1..Len(chunks) /\ k \in DOMAIN calls /\ calls[k].state = "running"
    BY <1>2 DEF Running
  <2>2. k <= y + Window /\ Yielded = 1..y
    BY <1>1, <2>1 DEF InWindow
  <2>3. k \notin Yielded
    BY <2>1 DEF Yielded
  <2> HIDE DEF y
  <2> QED BY <1>2, <2>1, <2>2, <2>3
<1> HIDE DEF y
<1>4. Cardinality(Running) \in Nat /\ Cardinality(Running) <= Window
  <2>1. IsFiniteSet((y + 1)..(y + Window))
        /\ Cardinality((y + 1)..(y + Window)) =
              IF y + 1 > y + Window THEN 0 ELSE (y + Window) - (y + 1) + 1
    BY <1>2, FS_Interval
  <2>2. Cardinality((y + 1)..(y + Window)) = Window
    BY <1>2, <2>1
  <2> QED BY <1>3, <2>1, <2>2, FS_Subset, FS_CardinalityType
<1>5. Cardinality(Running) > 0 => ValidGraph
  <2> SUFFICES ASSUME Running # {} PROVE ValidGraph
    BY FS_EmptySet
  <2>1. chunks # <<>>
    BY <1>2 DEF Running
  <2> QED BY <1>1, <2>1 DEF Validated
<1>6. most \in Nat /\ (ValidGraph => Window <= most)
  <2>1. request.policy \in Policy /\ model.recommended_parallelism \in 1..Unlimited
    BY <1>1, GraphFacts, DecisionAssumption DEF TypeOK
  <2>2. request.policy.max_parallelism \in 0..Unlimited
    BY <2>1 DEF Policy
  <2>3. most \in Nat
    BY <2>1, <2>2 DEF Smaller
  <2>4. ValidGraph => Window \in 1..most
    BY <1>1, WindowFacts
  <2> HIDE DEF most
  <2> QED BY <2>3, <2>4
<1>7. Window > 1 => model.parallel /\ request.policy.parallel
  BY <1>1, WindowFacts
<1>8. Cardinality(Running) <= most
  <2> HIDE DEF most
  <2> QED BY <1>2, <1>4, <1>5, <1>6
<1>9. Cardinality(Running) > 1 => model.parallel /\ request.policy.parallel
  BY <1>2, <1>4, <1>7
<1> QED BY <1>1, <1>8, <1>9 DEF LimitsRespected, ChunkSizes

\* What the planner announces is what is executed, within the limits of the model
\* and of the application, also while the calls of a dropped execution still run.
THEOREM PlanIsExecuted == Spec => []ExecutesThePlan
<1>1. Inv => ExecutesThePlan
  BY FollowsThePlan, RespectsTheLimits DEF ExecutesThePlan
<1> QED BY <1>1, DecisionInvariant, PTL

-------------------------------------------------------------------------------
(* The prompts of the adapters: the library's operators are the same in an *)
(* instance, what a layout is made of, the rows and columns of the tensors,*)
(* then the invariant of a call of decide.                                 *)

\* The adapter's FlattenSeq, Min and Max are those of the library.
LEMMA SameFlatten == ASSUME NEW seqs PROVE Laya!FlattenSeq(seqs) = FlattenSeq(seqs)
BY Zenon DEF FlattenSeq, Laya!FlattenSeq

LEMMA SameMin == ASSUME NEW S PROVE Laya!Min(S) = Min(S)
BY Zenon DEF Min, Laya!Min

LEMMA SameCardinality == ASSUME NEW S PROVE Laya!Cardinality(S) = Cardinality(S)
BY Zenon DEF Cardinality, Laya!Cardinality

\* The sequences begin with an element of H each, and have no other; then those
\* of the whole are at the places where the sequences begin.
Headed(seqs, S, H) ==
    /\ seqs \in Seq(Seq(S))
    /\ \A i \in 1..Len(seqs) : /\ Len(seqs[i]) >= 1 /\ seqs[i][1] \in H
                               /\ \A p \in 2..Len(seqs[i]) : seqs[i][p] \notin H

Begin(seqs, i) == Len(FlattenSeq(SubSeq(seqs, 1, i - 1))) + 1

HeadsPlaced(seqs, S, H) ==
    /\ FlattenSeq(seqs) \in Seq(S)
    /\ \A i \in 1..Len(seqs) : /\ FlattenSeq(SubSeq(seqs, 1, i - 1)) \in Seq(S)
                               /\ Begin(seqs, i) \in 1..Len(FlattenSeq(seqs))
                               /\ FlattenSeq(seqs)[Begin(seqs, i)] = seqs[i][1]
    /\ {p \in 1..Len(FlattenSeq(seqs)) : FlattenSeq(seqs)[p] \in H}
       = {Begin(seqs, i) : i \in 1..Len(seqs)}

LEMMA FlattenHeads ==
    ASSUME NEW S, NEW H, NEW seqs, Headed(seqs, S, H)
    PROVE  HeadsPlaced(seqs, S, H)
<1>0. /\ seqs \in Seq(Seq(S))
      /\ \A i \in 1..Len(seqs) : /\ Len(seqs[i]) >= 1 /\ seqs[i][1] \in H
                                 /\ \A p \in 2..Len(seqs[i]) : seqs[i][p] \notin H
  BY DEF Headed
<1> DEFINE F(k) == FlattenSeq(SubSeq(seqs, 1, k))
<1> DEFINE Placed(k) ==
              /\ F(k) \in Seq(S)
              /\ \A i \in 1..k : Len(F(i - 1)) + 1 \in 1..Len(F(k))
                                 /\ F(k)[Len(F(i - 1)) + 1] = seqs[i][1]
              /\ {p \in 1..Len(F(k)) : F(k)[p] \in H} = {Len(F(i - 1)) + 1 : i \in 1..k}
<1> DEFINE T == {k \in Nat : k <= Len(seqs) => Placed(k)}
<1>1. F(0) = <<>>
  <2>1. SubSeq(seqs, 1, 0) = <<>>
    BY SubSeqEmpty
  <2> QED BY <2>1 DEF FlattenSeq
<1>2. \A k \in Nat : k < Len(seqs) => F(k + 1) = F(k) \o seqs[k + 1]
  BY <1>0, FlattenPrefix
<1>3. F(Len(seqs)) = FlattenSeq(seqs)
  <2>1. SubSeq(seqs, 1, Len(seqs)) = seqs
    BY <1>0
  <2> QED BY <2>1
<1> HIDE DEF F
<1>4. 0 \in T
  <2>1. Len(<<>>) = 0 /\ <<>> \in Seq(S)
    OBVIOUS
  <2>2. Len(F(0)) = 0 /\ F(0) \in Seq(S)
    BY <1>1, <2>1, Zenon
  <2> QED BY <2>2
<1>5. ASSUME NEW k \in T PROVE k + 1 \in T
  <2> HIDE DEF Placed
  <2> SUFFICES ASSUME k + 1 <= Len(seqs) PROVE Placed(k + 1)
    BY <1>0
  <2> DEFINE s == F(k)
  <2> DEFINE t == seqs[k + 1]
  <2> DEFINE u == F(k + 1)
  <2>1. k \in Nat /\ k <= Len(seqs) /\ k < Len(seqs) /\ k + 1 \in 1..Len(seqs) /\ Placed(k)
    BY <1>0
  <2>15. /\ s \in Seq(S)
         /\ \A i \in 1..k : Len(F(i - 1)) + 1 \in 1..Len(s) /\ s[Len(F(i - 1)) + 1] = seqs[i][1]
         /\ {p \in 1..Len(s) : s[p] \in H} = {Len(F(i - 1)) + 1 : i \in 1..k}
    BY <2>1 DEF Placed
  <2>2. s \in Seq(S) /\ t \in Seq(S) /\ u = s \o t
    <3>1. t \in Seq(S)
      BY <2>1, <1>0
    <3>2. u = s \o t
      BY <2>1, <1>2
    <3> QED BY <3>1, <3>2, <2>15, Zenon
  <2>3. Len(t) >= 1 /\ t[1] \in H /\ \A p \in 2..Len(t) : t[p] \notin H
    BY <2>1, <1>0
  <2>4. \A i \in 1..k : Len(F(i - 1)) + 1 \in 1..Len(s) /\ s[Len(F(i - 1)) + 1] = seqs[i][1]
    BY <2>15
  <2>5. {p \in 1..Len(s) : s[p] \in H} = {Len(F(i - 1)) + 1 : i \in 1..k}
    BY <2>15
  <2>6. F((k + 1) - 1) = s
    <3>1. (k + 1) - 1 = k
      BY <2>1
    <3> QED BY <3>1
  <2> DEFINE a == Len(s)
  <2> HIDE DEF s, t, u, T
  <2>7. a \in Nat /\ Len(t) \in Nat /\ u \in Seq(S) /\ Len(u) = a + Len(t)
        /\ \A p \in 1..a + Len(t) : u[p] = IF p <= a THEN s[p] ELSE t[p - a]
    BY <2>2, ConcatProperties, LenProperties
  <2>8. a + 1 \in 1..Len(u) /\ u[a + 1] = t[1] /\ u[a + 1] \in H
    <3>1. a + 1 \in 1..a + Len(t) /\ ~(a + 1 <= a) /\ (a + 1) - a = 1
      BY <2>7, <2>3
    <3> QED BY <3>1, <2>7, <2>3
  <2>9. ASSUME NEW p \in 1..Len(u) PROVE u[p] \in H <=> (p \in 1..a /\ s[p] \in H) \/ p = a + 1
    <3>1. CASE p <= a
      BY <3>1, <2>7
    <3>2. CASE p = a + 1
      BY <3>2, <2>8
    <3>3. CASE p > a + 1
      <4>1. p - a \in 2..Len(t) /\ ~(p <= a) /\ u[p] = t[p - a]
        BY <3>3, <2>7
      <4> QED BY <4>1, <2>3, <3>3, <2>7
    <3>4. p \in Nat /\ a \in Nat
      BY <2>7
    <3> HIDE DEF a
    <3>5. p <= a \/ p = a + 1 \/ p > a + 1
      BY <3>4
    <3> QED BY <3>1, <3>2, <3>3, <3>5, Zenon
  <2>10. {p \in 1..Len(u) : u[p] \in H} = {p \in 1..a : s[p] \in H} \cup {a + 1}
    <3>1. 1..a \subseteq 1..Len(u)
      BY <2>7
    <3> QED BY <3>1, <2>8, <2>9
  <2> DEFINE begin(i) == Len(F(i - 1)) + 1
  <2>11. begin(k + 1) = a + 1
    BY <2>6
  <2>12. {begin(i) : i \in 1..k + 1} = {begin(i) : i \in 1..k} \cup {begin(k + 1)}
    <3> HIDE DEF begin
    <3>1. 1..k + 1 = (1..k) \cup {k + 1}
      BY <2>1
    <3> QED BY <3>1
  <2>13. \A i \in 1..k + 1 : begin(i) \in 1..Len(u) /\ u[begin(i)] = seqs[i][1]
    <3>1. ASSUME NEW i \in 1..k PROVE begin(i) \in 1..Len(u) /\ u[begin(i)] = seqs[i][1]
      <4>1. begin(i) \in 1..a /\ s[begin(i)] = seqs[i][1]
        BY <2>4
      <4> HIDE DEF begin
      <4> QED BY <4>1, <2>7
    <3>2. begin(k + 1) \in 1..Len(u) /\ u[begin(k + 1)] = seqs[k + 1][1]
      BY <2>11, <2>8 DEF t
    <3> HIDE DEF begin
    <3> QED BY <3>1, <3>2, <2>1
  <2>14. {p \in 1..Len(u) : u[p] \in H} = {begin(i) : i \in 1..k + 1}
    BY <2>5, <2>10, <2>11, <2>12, Zenon
  <2> QED BY <2>7, <2>13, <2>14 DEF Placed, u
<1>6. T = Nat
  <2>1. T \in SUBSET Nat
    OBVIOUS
  <2> HIDE DEF T
  <2> QED BY <1>4, <1>5, <2>1, SetInduction
<1>7. Placed(Len(seqs))
  <2>1. Len(seqs) \in Nat /\ Len(seqs) <= Len(seqs)
    BY <1>0
  <2> HIDE DEF Placed
  <2> QED BY <1>6, <2>1
<1>8. \A i \in 1..Len(seqs) : F(i - 1) \in Seq(S)
  <2> SUFFICES ASSUME NEW i \in 1..Len(seqs) PROVE F(i - 1) \in Seq(S)
    OBVIOUS
  <2>1. i - 1 \in Nat /\ i - 1 <= Len(seqs)
    BY <1>0
  <2>2. Placed(i - 1)
    <3> HIDE DEF Placed
    <3> QED BY <1>6, <2>1
  <2> QED BY <2>2
<1> QED BY <1>3, <1>7, <1>8 DEF F, HeadsPlaced, Begin
-------------------------------------------------------------------------------
Tok == [kind : {"cls", "sep", "head", "mask", "option", "state"}, question : STRING \cup {""},
        option : Nat]
OptionTok == {t \in Tok : t.kind \in {"mask", "option"}}
Masks == {t \in Tok : t.kind = "mask"}

LEMMA TokenFacts ==
    ASSUME NEW kind \in {"cls", "sep", "head", "mask", "option", "state"},
           NEW name \in STRING \cup {""}, NEW option \in Nat
    PROVE  /\ Laya!Token(kind, name, option) \in Tok
           /\ Laya!Token(kind, name, option).kind = kind
BY DEF Laya!Token, Tok

LEMMA RenderedType ==
    ASSUME NEW q \in LayaQuestion PROVE Laya!Rendered(q) \in Seq(Nat)
<1>1. <<8, 6>> \in Seq(Nat)
  OBVIOUS
<1>2. q.options \in Seq(Nat)
  BY DEF LayaQuestion
<1>3. CASE q.kind = "noul" /\ q.options = <<>>
  BY <1>1, <1>3 DEF Laya!Rendered
<1>4. CASE ~(q.kind = "noul" /\ q.options = <<>>)
  BY <1>2, <1>4 DEF Laya!Rendered
<1> QED BY <1>3, <1>4

LEMMA RepeatFacts ==
    ASSUME NEW S, NEW t \in S, NEW n \in Nat
    PROVE  /\ Laya!Repeat(t, n) \in Seq(S) /\ Len(Laya!Repeat(t, n)) = n
           /\ \A i \in 1..n : Laya!Repeat(t, n)[i] = t
BY DEF Laya!Repeat

IsRepeat(s, S, t) == s \in Seq(S) /\ \A p \in 1..Len(s) : s[p] = t

LEMMA RepeatIs ==
    ASSUME NEW S, NEW t \in S, NEW n \in Nat PROVE IsRepeat(Laya!Repeat(t, n), S, t)
BY RepeatFacts DEF IsRepeat

LEMMA Bounds ==
    ASSUME NEW a \in Int, NEW b \in Int
    PROVE  /\ Laya!AtMost(a, b) \in Int /\ Laya!AtMost(a, b) <= a /\ Laya!AtMost(a, b) <= b
           /\ Laya!AtMost(a, b) \in {a, b}
           /\ Laya!AtLeast(a, b) \in Int /\ Laya!AtLeast(a, b) >= a /\ Laya!AtLeast(a, b) >= b
           /\ Laya!AtLeast(a, b) \in {a, b}
           /\ Laya!SaturatingSub(a, b) \in Nat
BY DEF Laya!AtMost, Laya!AtLeast, Laya!SaturatingSub

LEMMA ShareFacts ==
    ASSUME config \in LayaConfigs, NEW n \in Nat
    PROVE  Laya!Share(n) \in Nat /\ Laya!Share(n) >= 4
<1>1. config.headMax \in Nat
  BY LayaAssumption DEF LayaConfig
<1> DEFINE a == Laya!SaturatingSub(config.headMax, 16)
<1> DEFINE b == Laya!AtLeast(n, 1)
<1>2. a \in Nat /\ b \in Nat \ {0}
  BY <1>1 DEF Laya!SaturatingSub, Laya!AtLeast
<1>3. Laya!Share(n) = Laya!AtLeast(a \div b, 4)
  BY DEF Laya!Share
<1> HIDE DEF a, b
<1>4. a \div b \in Nat
  BY <1>2, DivFacts
<1> QED BY <1>3, <1>4 DEF Laya!AtLeast

\* Each option is its mask and tokens of its own text, also after the cut.
LEMMA OptionsFacts ==
    ASSUME config \in LayaConfigs, NEW q \in LayaQuestion
    PROVE  LET options == Laya!Options(q)
           IN  /\ options \in Seq(Seq(OptionTok)) /\ Len(options) = Len(Laya!Rendered(q))
               /\ \A i \in 1..Len(options) :
                     /\ Len(options[i]) >= 1 /\ options[i][1] = Laya!Token("mask", q.name, i)
                     /\ options[i][1] \in Masks
                     /\ \A p \in 2..Len(options[i]) : options[i][p] \notin Masks
<1> DEFINE n == Len(Laya!Rendered(q))
<1> DEFINE mask(i) == Laya!Token("mask", q.name, i)
<1> DEFINE text(i) == Laya!Token("option", q.name, i)
<1> DEFINE size(i) == Laya!AtMost(Laya!Rendered(q)[i], 48)
<1> DEFINE whole(i) == <<mask(i)>> \o Laya!Repeat(text(i), size(i))
<1> DEFINE cut(ids) == SubSeq(ids, 1, Laya!AtMost(Len(ids), Laya!Share(n)))
<1>1. n \in Nat /\ DOMAIN Laya!Rendered(q) = 1..n /\ \A i \in 1..n : Laya!Rendered(q)[i] \in Nat
  BY RenderedType
<1> HIDE DEF n
<1>2. q.name \in STRING
  BY DEF LayaQuestion
<1>3. \A i \in Nat : /\ mask(i) \in OptionTok /\ mask(i) \in Masks
                     /\ text(i) \in OptionTok /\ text(i) \notin Masks
  <2> SUFFICES ASSUME NEW i \in Nat
               PROVE  /\ mask(i) \in OptionTok /\ mask(i) \in Masks
                      /\ text(i) \in OptionTok /\ text(i) \notin Masks
    OBVIOUS
  <2>1. /\ "mask" \in {"cls", "sep", "head", "mask", "option", "state"}
        /\ "option" \in {"cls", "sep", "head", "mask", "option", "state"}
        /\ q.name \in STRING \cup {""}
    BY <1>2
  <2>2. mask(i) \in Tok /\ mask(i).kind = "mask" /\ text(i) \in Tok /\ text(i).kind = "option"
    BY <1>2, <2>1, TokenFacts, Zenon
  <2> HIDE DEF mask, text
  <2> QED BY <2>1, <2>2 DEF OptionTok, Masks
<1> HIDE DEF mask, text
<1> DEFINE Good(ids, i) == /\ ids \in Seq(OptionTok) /\ Len(ids) >= 1 /\ ids[1] = mask(i)
                           /\ \A p \in 2..Len(ids) : ids[p] = text(i)
<1>4. ASSUME NEW i \in 1..n PROVE Good(whole(i), i)
  <2> DEFINE s == <<mask(i)>>
  <2> DEFINE t == Laya!Repeat(text(i), size(i))
  <2>1. size(i) \in Nat
    BY <1>1 DEF Laya!AtMost
  <2>2. mask(i) \in OptionTok /\ text(i) \in OptionTok
    BY <1>3
  <2>3. s \in Seq(OptionTok) /\ Len(s) = 1 /\ s[1] = mask(i)
    BY <2>2
  <2> HIDE DEF size
  <2>4. t \in Seq(OptionTok) /\ Len(t) = size(i) /\ \A k \in 1..size(i) : t[k] = text(i)
    BY <2>1, <2>2, RepeatFacts
  <2> HIDE DEF s, t
  <2>5. /\ s \o t \in Seq(OptionTok) /\ Len(s \o t) = 1 + size(i)
        /\ \A k \in 1..1 + size(i) : (s \o t)[k] = IF k <= 1 THEN s[k] ELSE t[k - 1]
    <3>1. /\ s \o t \in Seq(OptionTok) /\ Len(s \o t) = Len(s) + Len(t)
          /\ \A k \in 1..Len(s) + Len(t) : (s \o t)[k] = IF k <= Len(s) THEN s[k] ELSE t[k - Len(s)]
      BY <2>3, <2>4, ConcatProperties, Zenon
    <3>2. Len(s) = 1 /\ Len(t) = size(i)
      BY <2>3, <2>4
    <3> HIDE DEF size
    <3> QED BY <3>1, <3>2, Zenon
  <2>6. (s \o t)[1] = mask(i) /\ \A k \in 2..1 + size(i) : (s \o t)[k] = text(i)
    <3>1. (s \o t)[1] = s[1]
      <4>1. 1 \in 1..1 + size(i) /\ 1 <= 1
        BY <2>1
      <4> QED BY <4>1, <2>5, Zenon
    <3>2. ASSUME NEW k \in 2..1 + size(i) PROVE (s \o t)[k] = text(i)
      <4>1. k \in 1..1 + size(i) /\ ~(k <= 1) /\ k - 1 \in 1..size(i)
        BY <2>1
      <4>2. (s \o t)[k] = t[k - 1]
        BY <4>1, <2>5
      <4> QED BY <4>1, <4>2, <2>4
    <3> QED BY <3>1, <3>2, <2>3
  <2>7. whole(i) = s \o t
    BY DEF s, t
  <2>8. 1 + size(i) \in Nat /\ 1 + size(i) >= 1
    BY <2>1
  <2> DEFINE u == s \o t
  <2>9. u \in Seq(OptionTok) /\ Len(u) = 1 + size(i) /\ u[1] = mask(i)
        /\ \A p \in 2..1 + size(i) : u[p] = text(i)
    BY <2>5, <2>6, Zenon
  <2>10. whole(i) = u
    BY <2>7
  <2> HIDE DEF u, whole
  <2>11. Good(u, i)
    BY <2>8, <2>9
  <2> QED BY <2>10, <2>11
<1>5. ASSUME NEW i \in 1..n, NEW ids, Good(ids, i) PROVE Good(cut(ids), i)
  <2> DEFINE m == Laya!AtMost(Len(ids), Laya!Share(n))
  <2>1. Len(ids) \in Nat /\ ids \in Seq(OptionTok) /\ Len(ids) >= 1
    BY <1>5, LenProperties
  <2>2. m \in 1..Len(ids)
    BY <2>1, <1>1, ShareFacts DEF Laya!AtMost
  <2>3. cut(ids) = SubSeq(ids, 1, m)
    OBVIOUS
  <2> HIDE DEF m
  <2>4. \A k \in 1..m : ids[k] \in OptionTok
    BY <2>1, <2>2
  <2>5. /\ SubSeq(ids, 1, m) \in Seq(OptionTok) /\ Len(SubSeq(ids, 1, m)) = m
        /\ \A k \in 1..m : SubSeq(ids, 1, m)[k] = ids[k]
    <3>1. /\ SubSeq(ids, 1, m) \in Seq(OptionTok)
          /\ Len(SubSeq(ids, 1, m)) = IF 1 <= m THEN m - 1 + 1 ELSE 0
          /\ \A k \in 1..m - 1 + 1 : SubSeq(ids, 1, m)[k] = ids[1 + k - 1]
      BY <2>2, <2>4, SubSeqProperties
    <3>2. m - 1 + 1 = m /\ 1 <= m /\ \A k \in 1..m : 1 + k - 1 = k
      BY <2>2
    <3> QED BY <3>1, <3>2
  <2> HIDE DEF cut
  <2> QED BY <2>2, <2>3, <2>5, <1>5
<1> DEFINE full == [i \in 1..n |-> whole(i)]
<1> DEFINE Fine(options) == options \in [1..n -> Seq(OptionTok)] /\ \A i \in 1..n : Good(options[i], i)
<1>6. Fine(full) /\ Len(full) = n
  <2> HIDE DEF whole
  <2>1. full \in [1..n -> Seq(OptionTok)]
    BY <1>4
  <2>2. \A i \in 1..n : full[i] = whole(i)
    OBVIOUS
  <2>3. Len(full) = n
    BY <2>1, <1>1
  <2> HIDE DEF full, Good
  <2> QED BY <1>4, <2>1, <2>2, <2>3
<1>7. Fine([i \in 1..n |-> cut(full[i])])
  <2> DEFINE shorter == [i \in 1..n |-> cut(full[i])]
  <2> HIDE DEF full
  <2>1. \A i \in 1..n : Good(cut(full[i]), i)
    <3> HIDE DEF cut, Good
    <3> QED BY <1>5, <1>6
  <2> HIDE DEF cut
  <2>2. shorter \in [1..n -> Seq(OptionTok)] /\ \A i \in 1..n : shorter[i] = cut(full[i])
    BY <2>1
  <2> HIDE DEF shorter, Good
  <2>3. Fine(shorter)
    BY <2>1, <2>2
  <2> QED BY <2>3 DEF shorter
<1>8. Laya!Options(q) = full \/ Laya!Options(q) = [i \in 1..n |-> cut(full[i])]
  <2>1. DOMAIN full = 1..n
    OBVIOUS
  <2> DEFINE small == Laya!SaturatingSub(config.headMax, Laya!TotalLength(full)) < 16
  <2>2. Laya!Options(q) = IF small THEN [i \in DOMAIN full |-> cut(full[i])] ELSE full
    BY <1>1, <1>6 DEF Laya!Options, mask, text
  <2> HIDE DEF full, cut, small
  <2> QED BY <2>1, <2>2
<1> HIDE DEF full, cut, Good
<1>9. Fine(Laya!Options(q))
  <2> HIDE DEF Fine
  <2> QED BY <1>6, <1>7, <1>8
<1>10. Laya!Options(q) \in Seq(Seq(OptionTok)) /\ Len(Laya!Options(q)) = n
  BY <1>9, <1>1
<1>11. ASSUME NEW i \in 1..n
       PROVE  LET ids == Laya!Options(q)[i]
              IN  /\ Len(ids) >= 1 /\ ids[1] = mask(i) /\ ids[1] \in Masks
                  /\ \A p \in 2..Len(ids) : ids[p] \notin Masks
  <2>1. Good(Laya!Options(q)[i], i)
    BY <1>9
  <2> QED BY <2>1, <1>1, <1>3 DEF Good
<1> QED BY <1>10, <1>11 DEF n, mask
-------------------------------------------------------------------------------
LEMMA JoinFacts ==
    ASSUME NEW S, NEW s \in Seq(S), NEW t \in Seq(S)
    PROVE  /\ s \o t \in Seq(S) /\ Len(s \o t) = Len(s) + Len(t)
           /\ \A p \in 1..Len(s) : (s \o t)[p] = s[p]
           /\ \A p \in Len(s) + 1..Len(s) + Len(t) : (s \o t)[p] = t[p - Len(s)]
<1>1. /\ s \o t \in Seq(S) /\ Len(s \o t) = Len(s) + Len(t)
      /\ \A p \in 1..Len(s) + Len(t) : (s \o t)[p] = IF p <= Len(s) THEN s[p] ELSE t[p - Len(s)]
  BY ConcatProperties, Zenon
<1>2. Len(s) \in Nat /\ Len(t) \in Nat
  BY LenProperties
<1>3. \A p \in 1..Len(s) : p \in 1..Len(s) + Len(t) /\ p <= Len(s)
  BY <1>2
<1>4. \A p \in Len(s) + 1..Len(s) + Len(t) : p \in 1..Len(s) + Len(t) /\ ~(p <= Len(s))
  BY <1>2
<1> QED BY <1>1, <1>3, <1>4, Zenon

\* cls, the head, sep, the options, sep, the state, sep.
LaidOut(ids, front, a, b, x, y, z) ==
    front = <<a>> \o x \o <<b>> /\ ids = (front \o y \o <<b>>) \o z \o <<b>>

Layout(ids, front, a, b, x, y, z, n, m, k) ==
    /\ Len(front) = n /\ Len(ids) = k
    /\ ids[1] = a /\ ids[n] = b /\ ids[m] = b /\ ids[k] = b
    /\ \A p \in 2..n - 1 : ids[p] = x[p - 1]
    /\ \A p \in n + 1..m - 1 : ids[p] = y[p - n]
    /\ \A p \in m + 1..k - 1 : ids[p] = z[p - m]

LEMMA LayoutFacts ==
    ASSUME NEW S, NEW a \in S, NEW b \in S, NEW x \in Seq(S), NEW y \in Seq(S), NEW z \in Seq(S),
           NEW n \in Nat, NEW m \in Nat, NEW k \in Nat, NEW front, NEW ids,
           n = Len(x) + 2, m = n + Len(y) + 1, k = m + Len(z) + 1,
           LaidOut(ids, front, a, b, x, y, z)
    PROVE  front \in Seq(S) /\ ids \in Seq(S) /\ Layout(ids, front, a, b, x, y, z, n, m, k)
<1>1. PICK lx \in Nat, ly \in Nat, lz \in Nat : Len(x) = lx /\ Len(y) = ly /\ Len(z) = lz
  BY LenProperties
<1>2. PICK i1, i3, i5 : i1 = 1 + lx /\ i3 = n + ly /\ i5 = m + lz
  OBVIOUS
<1>22. i1 \in Nat /\ i3 \in Nat /\ i5 \in Nat
  BY <1>2
<1>3. /\ <<a>> \in Seq(S) /\ Len(<<a>>) = 1 /\ <<a>>[1] = a
      /\ <<b>> \in Seq(S) /\ Len(<<b>>) = 1 /\ <<b>>[1] = b /\ 1 \in Nat
  OBVIOUS
<1>4. n = i1 + 1 /\ m = i3 + 1 /\ k = i5 + 1
  BY <1>1, <1>2
<1>23. PICK s1, s2, s3, s4, s5, s6 :
          /\ s1 = <<a>> \o x /\ s2 = s1 \o <<b>> /\ s3 = s2 \o y
          /\ s4 = s3 \o <<b>> /\ s5 = s4 \o z /\ s6 = s5 \o <<b>>
  OBVIOUS
<1>5. /\ s1 \in Seq(S) /\ Len(s1) = i1
      /\ \A p \in 1..1 : s1[p] = <<a>>[p]
      /\ \A p \in 1 + 1..i1 : s1[p] = x[p - 1]
  <2>1. /\ <<a>> \o x \in Seq(S) /\ Len(<<a>> \o x) = Len(<<a>>) + Len(x)
        /\ \A p \in 1..Len(<<a>>) : (<<a>> \o x)[p] = <<a>>[p]
        /\ \A p \in Len(<<a>>) + 1..Len(<<a>>) + Len(x) : (<<a>> \o x)[p] = x[p - Len(<<a>>)]
    BY <1>3, JoinFacts, Zenon
  <2>2. Len(<<a>>) = 1 /\ Len(x) = lx
    BY <1>3, <1>1
  <2> QED BY <2>1, <2>2, <1>2, <1>23, Zenon
<1>6. /\ s2 \in Seq(S) /\ Len(s2) = n
      /\ \A p \in 1..i1 : s2[p] = s1[p]
      /\ \A p \in i1 + 1..n : s2[p] = <<b>>[p - i1]
  <2>1. /\ s1 \o <<b>> \in Seq(S) /\ Len(s1 \o <<b>>) = Len(s1) + Len(<<b>>)
        /\ \A p \in 1..Len(s1) : (s1 \o <<b>>)[p] = s1[p]
        /\ \A p \in Len(s1) + 1..Len(s1) + Len(<<b>>) : (s1 \o <<b>>)[p] = <<b>>[p - Len(s1)]
    BY <1>3, <1>5, JoinFacts, Zenon
  <2>2. Len(s1) = i1 /\ Len(<<b>>) = 1
    BY <1>3, <1>5, <1>1
  <2> QED BY <2>1, <2>2, <1>4, <1>23, Zenon
<1>7. /\ s3 \in Seq(S) /\ Len(s3) = i3
      /\ \A p \in 1..n : s3[p] = s2[p]
      /\ \A p \in n + 1..i3 : s3[p] = y[p - n]
  <2>1. /\ s2 \o y \in Seq(S) /\ Len(s2 \o y) = Len(s2) + Len(y)
        /\ \A p \in 1..Len(s2) : (s2 \o y)[p] = s2[p]
        /\ \A p \in Len(s2) + 1..Len(s2) + Len(y) : (s2 \o y)[p] = y[p - Len(s2)]
    BY <1>6, JoinFacts, Zenon
  <2>2. Len(s2) = n /\ Len(y) = ly
    BY <1>6, <1>1
  <2> QED BY <2>1, <2>2, <1>2, <1>23, Zenon
<1>8. /\ s4 \in Seq(S) /\ Len(s4) = m
      /\ \A p \in 1..i3 : s4[p] = s3[p]
      /\ \A p \in i3 + 1..m : s4[p] = <<b>>[p - i3]
  <2>1. /\ s3 \o <<b>> \in Seq(S) /\ Len(s3 \o <<b>>) = Len(s3) + Len(<<b>>)
        /\ \A p \in 1..Len(s3) : (s3 \o <<b>>)[p] = s3[p]
        /\ \A p \in Len(s3) + 1..Len(s3) + Len(<<b>>) : (s3 \o <<b>>)[p] = <<b>>[p - Len(s3)]
    BY <1>3, <1>7, JoinFacts, Zenon
  <2>2. Len(s3) = i3 /\ Len(<<b>>) = 1
    BY <1>3, <1>7, <1>1
  <2> QED BY <2>1, <2>2, <1>4, <1>23, Zenon
<1>9. /\ s5 \in Seq(S) /\ Len(s5) = i5
      /\ \A p \in 1..m : s5[p] = s4[p]
      /\ \A p \in m + 1..i5 : s5[p] = z[p - m]
  <2>1. /\ s4 \o z \in Seq(S) /\ Len(s4 \o z) = Len(s4) + Len(z)
        /\ \A p \in 1..Len(s4) : (s4 \o z)[p] = s4[p]
        /\ \A p \in Len(s4) + 1..Len(s4) + Len(z) : (s4 \o z)[p] = z[p - Len(s4)]
    BY <1>8, JoinFacts, Zenon
  <2>2. Len(s4) = m /\ Len(z) = lz
    BY <1>8, <1>1
  <2> QED BY <2>1, <2>2, <1>2, <1>23, Zenon
<1>10. /\ s6 \in Seq(S) /\ Len(s6) = k
       /\ \A p \in 1..i5 : s6[p] = s5[p]
       /\ \A p \in i5 + 1..k : s6[p] = <<b>>[p - i5]
  <2>1. /\ s5 \o <<b>> \in Seq(S) /\ Len(s5 \o <<b>>) = Len(s5) + Len(<<b>>)
        /\ \A p \in 1..Len(s5) : (s5 \o <<b>>)[p] = s5[p]
        /\ \A p \in Len(s5) + 1..Len(s5) + Len(<<b>>) : (s5 \o <<b>>)[p] = <<b>>[p - Len(s5)]
    <3>1. s5 \in Seq(S) /\ <<b>> \in Seq(S)
      BY <1>3, <1>9
    <3> QED BY <3>1, JoinFacts, Zenon
  <2>2. Len(s5) = i5 /\ Len(<<b>>) = 1
    BY <1>3, <1>9, <1>1
  <2> QED BY <2>1, <2>2, <1>4, <1>23, Zenon
<1>11. \A p \in 1..i3 : s6[p] = s3[p]
  <2>1. \A p \in 1..i3 : p \in 1..m /\ p \in 1..i5
    BY <1>2, <1>4
  <2> QED BY <2>1, <1>8, <1>9, <1>10, Zenon
<1>12. \A p \in 1..n : s6[p] = s2[p]
  <2>1. \A p \in 1..n : p \in 1..i3
    BY <1>2
  <2> QED BY <2>1, <1>7, <1>11, Zenon
<1>13. \A p \in 1..i1 : s6[p] = s1[p]
  <2>1. \A p \in 1..i1 : p \in 1..n
    BY <1>4, <1>22
  <2> QED BY <2>1, <1>6, <1>12, Zenon
<1>14. s6[1] = a
  <2>1. 1 \in 1..1 /\ 1 \in 1..i1
    BY <1>2
  <2> QED BY <2>1, <1>3, <1>5, <1>13, Zenon
<1>15. s6[n] = b
  <2>1. n \in i1 + 1..n /\ n - i1 = 1 /\ n \in 1..n
    BY <1>4, <1>22
  <2>2. s2[n] = <<b>>[n - i1] /\ s6[n] = s2[n]
    BY <2>1, <1>6, <1>12, Zenon
  <2> QED BY <2>1, <2>2, <1>3, Zenon
<1>16. s6[m] = b
  <2>1. m \in i3 + 1..m /\ m - i3 = 1 /\ m \in 1..m /\ m \in 1..i5
    BY <1>2, <1>4
  <2>2. s4[m] = <<b>>[m - i3] /\ s6[m] = s4[m]
    BY <2>1, <1>8, <1>9, <1>10, Zenon
  <2> QED BY <2>1, <2>2, <1>3, Zenon
<1>17. s6[k] = b
  <2>1. k \in i5 + 1..k /\ k - i5 = 1
    BY <1>4, <1>22
  <2>2. s6[k] = <<b>>[k - i5]
    BY <2>1, <1>10, Zenon
  <2> QED BY <2>1, <2>2, <1>3, Zenon
<1>18. \A p \in 2..n - 1 : s6[p] = x[p - 1]
  <2>1. \A p \in 2..n - 1 : p \in 1 + 1..i1 /\ p \in 1..i1
    BY <1>4, <1>22
  <2> QED BY <2>1, <1>5, <1>13, Zenon
<1>19. \A p \in n + 1..m - 1 : s6[p] = y[p - n]
  <2>1. \A p \in n + 1..m - 1 : p \in n + 1..i3 /\ p \in 1..i3
    BY <1>2, <1>4
  <2> QED BY <2>1, <1>7, <1>11, Zenon
<1>20. \A p \in m + 1..k - 1 : s6[p] = z[p - m]
  <2>1. \A p \in m + 1..k - 1 : p \in m + 1..i5 /\ p \in 1..i5
    BY <1>2, <1>4
  <2> QED BY <2>1, <1>9, <1>10, Zenon
<1>21. s2 = front /\ s6 = ids
  BY <1>23, Zenon DEF LaidOut
<1> QED BY <1>6, <1>10, <1>14, <1>15, <1>16, <1>17, <1>18, <1>19, <1>20, <1>21, Zenon DEF Layout
LEMMA ThreeElements ==
    ASSUME NEW a \in Int, NEW b \in Int, NEW c \in Int, a < b, b < c
    PROVE  Cardinality({a, b, c}) = 3
<1>1. IsFiniteSet({a}) /\ Cardinality({a}) = 1
  BY FS_Singleton
<1>2. b \notin {a} /\ c \notin {a} \cup {b} /\ {a, b, c} = ({a} \cup {b}) \cup {c}
  OBVIOUS
<1>3. IsFiniteSet({a} \cup {b}) /\ Cardinality({a} \cup {b}) = 1 + 1
  BY <1>1, <1>2, FS_AddElement
<1>4. Cardinality(({a} \cup {b}) \cup {c}) = (1 + 1) + 1
  BY <1>2, <1>3, FS_AddElement
<1> QED BY <1>2, <1>4

\* A prompt has its separators at its three places and its masks where the
\* markers say, whatever the budgets have cut.
LEMMA PromptFacts ==
    ASSUME config \in LayaConfigs, NEW q \in LayaQuestion, NEW state \in Nat
    PROVE  LET ids == Laya!Ids(q, state)
               markers == Laya!Markers(q)
           IN  /\ ids \in Seq(Tok) /\ Len(ids) >= 1
               /\ ids[1].kind = "cls" /\ ids[Len(ids)].kind = "sep"
               /\ Cardinality({at \in 1..Len(ids) : ids[at].kind = "sep"}) = 3
               /\ markers \in Seq(Nat) /\ Len(markers) = Len(Laya!Rendered(q))
               /\ \A i \in 1..Len(markers) :
                     /\ markers[i] \in 0..Len(ids) - 1
                     /\ ids[markers[i] + 1] = Laya!Token("mask", q.name, i)
               /\ {at - 1 : at \in {p \in 1..Len(ids) : ids[p].kind = "mask"}}
                  = {markers[i] : i \in 1..Len(markers)}
<1> DEFINE cls == Laya!Special("cls")
<1> DEFINE sep == Laya!Special("sep")
<1> DEFINE x == Laya!Repeat(Laya!Token("head", q.name, 0), Laya!AtMost(q.head, Laya!HeadBudget(q)))
<1> DEFINE options == Laya!Options(q)
<1> DEFINE y == FlattenSeq(options)
<1> DEFINE front == <<cls>> \o x \o <<sep>>
<1> DEFINE header == front \o y \o <<sep>>
<1> DEFINE room == Laya!SaturatingSub(config.maxLen, Len(header) + 1)
<1> DEFINE z == Laya!Repeat(Laya!Special("state"), Laya!AtMost(state, room))
<1> DEFINE ids == Laya!Ids(q, state)
<1> DEFINE markers == Laya!Markers(q)
<1> DEFINE count == Len(Laya!Rendered(q))
<1> DEFINE begin(i) == Begin(options, i)
<1>1. ids = header \o z \o <<sep>> /\ Laya!QuestionHead(q) = front
  BY SameFlatten, Zenon DEF Laya!Ids, Laya!QuestionHead
<1>2. /\ cls \in Tok /\ cls.kind = "cls" /\ sep \in Tok /\ sep.kind = "sep"
      /\ Laya!Special("state") \in Tok /\ Laya!Special("state").kind = "state"
      /\ Laya!Token("head", q.name, 0) \in Tok /\ Laya!Token("head", q.name, 0).kind = "head"
  <2>1. q.name \in STRING \cup {""} /\ "" \in STRING \cup {""} /\ 0 \in Nat
    BY DEF LayaQuestion
  <2>2. /\ "cls" \in {"cls", "sep", "head", "mask", "option", "state"}
        /\ "sep" \in {"cls", "sep", "head", "mask", "option", "state"}
        /\ "head" \in {"cls", "sep", "head", "mask", "option", "state"}
        /\ "state" \in {"cls", "sep", "head", "mask", "option", "state"}
    OBVIOUS
  <2> QED BY <2>1, <2>2, TokenFacts, Zenon DEF Laya!Special
<1> HIDE DEF cls, sep
<1>3. /\ options \in Seq(Seq(OptionTok)) /\ Len(options) = count
      /\ \A i \in 1..count :
            /\ Len(options[i]) >= 1 /\ options[i][1] = Laya!Token("mask", q.name, i)
            /\ options[i][1] \in Masks
            /\ \A p \in 2..Len(options[i]) : options[i][p] \notin Masks
  BY OptionsFacts
<1>4. count \in Nat /\ DOMAIN Laya!Rendered(q) = 1..count
  BY RenderedType
<1> HIDE DEF options, count
<1>5. /\ y \in Seq(OptionTok)
      /\ \A i \in 1..count : /\ FlattenSeq(SubSeq(options, 1, i - 1)) \in Seq(OptionTok)
                              /\ begin(i) \in 1..Len(y) /\ y[begin(i)] = options[i][1]
      /\ {p \in 1..Len(y) : y[p] \in Masks} = {begin(i) : i \in 1..count}
  <2>1. Headed(options, OptionTok, Masks)
    BY <1>3, Zenon DEF Headed
  <2>2. HeadsPlaced(options, OptionTok, Masks)
    BY <2>1, FlattenHeads, Zenon
  <2> QED BY <1>3, <2>2, Zenon DEF HeadsPlaced
<1>6. ASSUME NEW s \in Seq(OptionTok) PROVE s \in Seq(Tok)
  BY DEF OptionTok
<1>7. x \in Seq(Tok) /\ \A p \in 1..Len(x) : x[p].kind = "head"
  <2>1. Laya!AtMost(q.head, Laya!HeadBudget(q)) \in Nat
    <3>1. q.head \in Nat
      BY DEF LayaQuestion
    <3>2. Laya!TotalLength(Laya!Options(q)) = Len(y)
      BY SameFlatten, Zenon DEF Laya!TotalLength, options
    <3>3. Len(y) \in Nat /\ config.headMax \in Nat
      BY <1>5, LenProperties, LayaAssumption DEF LayaConfig
    <3> HIDE DEF y
    <3>4. Laya!HeadBudget(q) \in Nat
      BY <3>2, <3>3 DEF Laya!HeadBudget, Laya!SaturatingSub, Laya!AtLeast
    <3> QED BY <3>1, <3>4 DEF Laya!AtMost
  <2>2. IsRepeat(x, Tok, Laya!Token("head", q.name, 0))
    BY <2>1, <1>2, RepeatIs, Zenon
  <2> HIDE DEF x
  <2> QED BY <2>2, <1>2, Zenon DEF IsRepeat
<1> HIDE DEF x, y
<1>8. z \in Seq(Tok) /\ \A p \in 1..Len(z) : z[p].kind = "state"
  <2>1. front \in Seq(Tok) /\ header \in Seq(Tok)
    BY <1>2, <1>5, <1>6, <1>7
  <2>2. Len(header) \in Nat /\ config.maxLen \in Nat
    BY <2>1, LenProperties, LayaAssumption DEF LayaConfig
  <2> HIDE DEF header
  <2>3. Laya!AtMost(state, room) \in Nat
    BY <2>2 DEF Laya!AtMost, Laya!SaturatingSub, Laya!AtLeast
  <2>4. IsRepeat(z, Tok, Laya!Special("state"))
    BY <2>3, <1>2, RepeatIs, Zenon
  <2> HIDE DEF z
  <2> QED BY <2>4, <1>2, Zenon DEF IsRepeat
<1> HIDE DEF z
<1>9. PICK lx \in Nat, ly \in Nat, lz \in Nat : Len(x) = lx /\ Len(y) = ly /\ Len(z) = lz
  BY <1>5, <1>7, <1>8, LenProperties
<1>10. PICK n, m, k : n = Len(x) + 2 /\ m = n + Len(y) + 1 /\ k = m + Len(z) + 1
  OBVIOUS
<1>11. n \in Nat /\ m \in Nat /\ k \in Nat /\ n = lx + 2 /\ m = n + ly + 1 /\ k = m + lz + 1
  BY <1>9, <1>10
<1>12. /\ front \in Seq(Tok) /\ Len(front) = n
       /\ ids \in Seq(Tok) /\ Len(ids) = k
       /\ ids[1] = cls /\ ids[n] = sep /\ ids[m] = sep /\ ids[k] = sep
       /\ \A p \in 2..n - 1 : ids[p] = x[p - 1]
       /\ \A p \in n + 1..m - 1 : ids[p] = y[p - n]
       /\ \A p \in m + 1..k - 1 : ids[p] = z[p - m]
  <2>1. y \in Seq(Tok)
    BY <1>5, <1>6
  <2>2. cls \in Tok /\ sep \in Tok /\ x \in Seq(Tok) /\ z \in Seq(Tok)
        /\ n \in Nat /\ m \in Nat /\ k \in Nat
    BY <1>2, <1>7, <1>8, <1>11
  <2>3. PICK u, v : u = front /\ v = header \o z \o <<sep>>
    OBVIOUS
  <2>4. u = <<cls>> \o x \o <<sep>> /\ v = (u \o y \o <<sep>>) \o z \o <<sep>> /\ ids = v
    BY <2>3, <1>1, Zenon
  <2>5. u \in Seq(Tok) /\ v \in Seq(Tok) /\ Layout(v, u, cls, sep, x, y, z, n, m, k)
    BY <2>1, <2>2, <2>4, <1>10, LayoutFacts DEF LaidOut
  <2> HIDE DEF front, ids
  <2> QED BY <2>3, <2>4, <2>5, Zenon DEF Layout
<1> HIDE DEF front, ids
<1>13. \A p \in 2..n - 1 : ids[p].kind = "head"
  <2>1. \A p \in 2..n - 1 : p - 1 \in 1..Len(x)
    BY <1>9, <1>11
  <2> QED BY <2>1, <1>7, <1>12
<1>14. \A p \in n + 1..m - 1 : p - n \in 1..Len(y) /\ ids[p] = y[p - n]
                               /\ ids[p].kind \in {"mask", "option"} /\ ids[p] \in Tok
  <2>1. \A p \in n + 1..m - 1 : p - n \in 1..Len(y)
    BY <1>9, <1>11
  <2>2. \A p \in 1..Len(y) : y[p] \in OptionTok
    BY <1>5
  <2> QED BY <2>1, <2>2, <1>12 DEF OptionTok
<1>15. \A p \in m + 1..k - 1 : ids[p].kind = "state"
  <2>1. \A p \in m + 1..k - 1 : p - m \in 1..Len(z)
    BY <1>9, <1>11
  <2> QED BY <2>1, <1>8, <1>12
<1>16. \A p \in 1..k : \/ p = 1 \/ p \in 2..n - 1 \/ p = n \/ p \in n + 1..m - 1 \/ p = m
                        \/ p \in m + 1..k - 1 \/ p = k
  BY <1>11
<1>17. {p \in 1..k : ids[p].kind = "sep"} = {n, m, k}
  <2>1. n \in 1..k /\ m \in 1..k /\ k \in 1..k
    BY <1>11
  <2>2. ASSUME NEW p \in 1..k, ids[p].kind = "sep" PROVE p \in {n, m, k}
    BY <2>2, <1>2, <1>12, <1>13, <1>14, <1>15, <1>16
  <2> QED BY <2>1, <2>2, <1>2, <1>12
<1>18. Cardinality({p \in 1..k : ids[p].kind = "sep"}) = 3
  BY <1>11, <1>17, ThreeElements
<1>19. {p \in 1..k : ids[p].kind = "mask"} = {n + begin(i) : i \in 1..count}
  <2>1. ASSUME NEW p \in 1..k PROVE ids[p].kind = "mask" <=> p - n \in 1..Len(y) /\ y[p - n] \in Masks
    <3>1. CASE p \in n + 1..m - 1
      <4>1. p - n \in 1..Len(y) /\ ids[p] = y[p - n] /\ ids[p] \in Tok
        BY <3>1, <1>14
      <4>2. y[p - n] \in Masks <=> y[p - n].kind = "mask"
        BY <4>1 DEF Masks
      <4> QED BY <4>1, <4>2, Zenon
    <3>2. CASE p \notin n + 1..m - 1
      <4>1. p - n \notin 1..Len(y)
        BY <3>2, <1>9, <1>11
      <4>2. ids[p].kind # "mask"
        BY <3>2, <1>2, <1>12, <1>13, <1>15, <1>16
      <4> QED BY <4>1, <4>2
    <3> QED BY <3>1, <3>2
  <2> DEFINE B == {p \in 1..Len(y) : y[p] \in Masks}
  <2>2. B = {begin(i) : i \in 1..count}
    BY <1>5
  <2>3. ASSUME NEW p PROVE p \in 1..k /\ ids[p].kind = "mask" <=> \E b \in B : p = n + b
    <3>1. ASSUME p \in 1..k, ids[p].kind = "mask" PROVE \E b \in B : p = n + b
      <4>1. p - n \in B /\ p = n + (p - n)
        BY <3>1, <2>1, <1>11
      <4> QED BY <4>1
    <3>2. ASSUME NEW b \in B, p = n + b PROVE p \in 1..k /\ ids[p].kind = "mask"
      <4>1. b \in 1..Len(y) /\ y[b] \in Masks /\ p - n = b /\ p \in 1..k
        BY <3>2, <1>9, <1>11
      <4> QED BY <4>1, <2>1
    <3> QED BY <3>1, <3>2
  <2> HIDE DEF B, begin
  <2> QED BY <2>2, <2>3
<1>20. \A i \in 1..count : markers[i] = n + begin(i) - 1
  <2> SUFFICES ASSUME NEW i \in 1..count PROVE markers[i] = n + begin(i) - 1
    OBVIOUS
  <2> DEFINE before == FlattenSeq(SubSeq(options, 1, i - 1))
  <2>1. markers[i] = Len(front \o before)
    BY <1>1, <1>4, SameFlatten, Zenon DEF Laya!Markers, options
  <2>2. before \in Seq(Tok) /\ front \in Seq(Tok)
    BY <1>5, <1>6, <1>12
  <2> HIDE DEF before
  <2>3. Len(front \o before) = Len(front) + Len(before) /\ Len(before) \in Nat
    BY <2>2, ConcatProperties, LenProperties
  <2>4. begin(i) = Len(before) + 1
    BY DEF before, Begin
  <2> HIDE DEF begin
  <2> QED BY <2>1, <2>3, <2>4, <1>11, <1>12
<1>21. DOMAIN markers = 1..count
  BY <1>4 DEF Laya!Markers
<1>22. ASSUME NEW i \in 1..count
       PROVE  markers[i] \in 0..k - 1 /\ ids[markers[i] + 1] = Laya!Token("mask", q.name, i)
              /\ markers[i] = (n + begin(i)) - 1 /\ n + begin(i) \in Nat
  <2>1. begin(i) \in 1..ly /\ y[begin(i)] = Laya!Token("mask", q.name, i)
    BY <1>3, <1>5, <1>9
  <2>2. markers[i] = n + begin(i) - 1
    BY <1>20
  <2> HIDE DEF begin, markers
  <2>3. markers[i] \in 0..k - 1 /\ markers[i] + 1 = n + begin(i) /\ n + begin(i) \in n + 1..m - 1
        /\ (n + begin(i)) - n = begin(i)
    BY <2>1, <2>2, <1>11
  <2>4. ids[n + begin(i)] = y[begin(i)]
    BY <2>3, <1>12, Zenon
  <2> QED BY <2>1, <2>2, <2>3, <2>4, <1>11
<1>23. markers \in Seq(Nat) /\ Len(markers) = count
  <2>1. markers = [i \in 1..count |-> markers[i]]
    BY <1>4 DEF Laya!Markers
  <2>2. \A i \in 1..count : markers[i] \in Nat
    BY <1>22
  <2> HIDE DEF markers
  <2>3. markers \in [1..count -> Nat]
    BY <2>1, <2>2
  <2> QED BY <2>3, <1>4
<1>24. {at - 1 : at \in {p \in 1..k : ids[p].kind = "mask"}} = {markers[i] : i \in 1..count}
  <2> HIDE DEF markers, begin
  <2>1. {at - 1 : at \in {n + begin(i) : i \in 1..count}} = {(n + begin(i)) - 1 : i \in 1..count}
    OBVIOUS
  <2> QED BY <2>1, <1>19, <1>22
<1> HIDE DEF markers
<1>25. /\ ids \in Seq(Tok) /\ Len(ids) >= 1
       /\ ids[1].kind = "cls" /\ ids[Len(ids)].kind = "sep"
       /\ Cardinality({at \in 1..Len(ids) : ids[at].kind = "sep"}) = 3
       /\ {at - 1 : at \in {p \in 1..Len(ids) : ids[p].kind = "mask"}}
          = {markers[i] : i \in 1..Len(markers)}
  <2>1. Len(ids) = k /\ k >= 1 /\ Len(markers) = count
    BY <1>11, <1>12, <1>23
  <2>2. ids[1].kind = "cls" /\ ids[k].kind = "sep"
    BY <1>2, <1>12
  <2> QED BY <2>1, <2>2, <1>12, <1>18, <1>24, Zenon
<1>26. \A i \in 1..Len(markers) : /\ markers[i] \in 0..Len(ids) - 1
                                  /\ ids[markers[i] + 1] = Laya!Token("mask", q.name, i)
  BY <1>12, <1>22, <1>23, Zenon
<1>27. markers \in Seq(Nat) /\ Len(markers) = Len(Laya!Rendered(q))
  BY <1>23 DEF count
<1> QED BY <1>25, <1>26, <1>27, Zenon DEF ids, markers
-------------------------------------------------------------------------------
LEMMA RowColumn ==
    ASSUME NEW row \in Nat, NEW width \in Nat \ {0}, NEW column \in 0..width - 1
    PROVE  /\ row * width + column \in Nat
           /\ (row * width + column) \div width = row
           /\ (row * width + column) % width = column
<1> DEFINE a == row * width + column
<1> DEFINE q == a \div width
<1>1. row * width \in Nat /\ a \in Nat
  OBVIOUS
<1>2. a % width = a - q * width /\ q \in Nat /\ q * width <= a /\ a < q * width + width
  <2> HIDE DEF a
  <2>1. a % width = a - (a \div width) * width
    BY <1>1, SMT
  <2> QED BY <1>1, <2>1, DivFacts
<1> HIDE DEF q
<1>3. q * width \in Nat
  BY <1>2
<1>4. q * width < row * width + width /\ row * width < q * width + width
  BY <1>1, <1>2, <1>3
<1>5. q = row
  <2>1. (row + 1) * width = row * width + width /\ (q + 1) * width = q * width + width
    BY <1>2
  <2>2. q < row + 1
    <3> SUFFICES ASSUME q >= row + 1 PROVE FALSE
      BY <1>2
    <3>1. q * width >= (row + 1) * width
      BY <1>2, SMT
    <3> QED BY <3>1, <2>1, <1>1, <1>3, <1>4
  <2>3. row < q + 1
    <3> SUFFICES ASSUME row >= q + 1 PROVE FALSE
      BY <1>2
    <3>1. row * width >= (q + 1) * width
      BY <1>2, SMT
    <3> QED BY <3>1, <2>1, <1>1, <1>3, <1>4
  <2> QED BY <2>2, <2>3, <1>2
<1>6. a % width = column
  BY <1>1, <1>2, <1>5
<1> QED BY <1>1, <1>5, <1>6 DEF q, a

LEMMA CellInside ==
    ASSUME NEW n \in Nat, NEW row \in 1..n, NEW width \in Nat \ {0}, NEW column \in 0..width - 1
    PROVE  (row - 1) * width + column \in 0..n * width - 1
<1>1. (row - 1) * width \in Nat /\ n * width \in Nat
  OBVIOUS
<1>2. (row - 1) * width + width = row * width
  BY SMT
<1>3. row * width <= n * width
  BY SMT
<1> QED BY <1>1, <1>2, <1>3

\* The least exported length that holds the tokens, or the next multiple of 16.
LEMMA PaddedFacts ==
    ASSUME config \in LayaConfigs, NEW actual \in 0..config.maxLen
    PROVE  LET length == Laya!PaddedLength(actual)
           IN  /\ length \in Nat /\ (length = 0 \/ length >= actual)
               /\ (config.lengths = <<>> /\ config.flexible => config.maxLen % 16 = 0)
                  => length <= config.maxLen
<1> DEFINE length == Laya!PaddedLength(actual)
<1> DEFINE holding == {n \in Laya!ToSet(config.lengths) : n >= actual}
<1>1. /\ config.maxLen \in Nat /\ config.minLength \in Nat /\ config.minLength <= config.maxLen
      /\ config.flexible \in BOOLEAN /\ actual \in Nat /\ actual <= config.maxLen
  BY LayaAssumption DEF LayaConfig
<1>2. Laya!ToSet(config.lengths) \in SUBSET Nat /\ \A n \in Laya!ToSet(config.lengths) : n <= config.maxLen
  <2>1. config.lengths \in Seq(Nat) /\ \A i \in DOMAIN config.lengths : config.lengths[i] <= config.maxLen
    BY LayaAssumption DEF LayaConfig
  <2> QED BY <2>1 DEF Laya!ToSet
<1>3. CASE config.lengths # <<>>
  <2>1. length = IF holding = {} THEN 0 ELSE Min(holding)
    BY <1>3, SameMin, Zenon DEF Laya!PaddedLength
  <2>2. CASE holding = {}
    <3>1. length = 0
      BY <2>1, <2>2, Zenon
    <3> HIDE DEF length
    <3>2. length \in Nat /\ length <= config.maxLen
      BY <3>1, <1>1
    <3> QED BY <3>1, <3>2 DEF length
  <2>3. CASE holding # {}
    <3>1. holding \in SUBSET Nat
      BY <1>2
    <3> HIDE DEF holding
    <3>2. \E m \in holding : \A k \in holding : m <= k
      BY <3>1, <2>3, LeastExists
    <3>3. Min(holding) \in holding
      BY <3>2 DEF Min
    <3>4. length \in holding
      BY <2>1, <2>3, <3>3
    <3> QED BY <3>4, <1>2 DEF holding
  <2> QED BY <2>2, <2>3
<1>4. CASE config.lengths = <<>> /\ config.flexible
  <2> DEFINE least == Laya!AtLeast(actual, config.minLength)
  <2> DEFINE steps == (least + 15) \div 16
  <2>1. length = steps * 16
    BY <1>4, Zenon DEF Laya!PaddedLength
  <2>2. least \in Nat /\ least >= actual /\ least <= config.maxLen
    BY <1>1 DEF Laya!AtLeast
  <2> HIDE DEF least
  <2>3. steps \in Nat /\ steps * 16 <= least + 15 /\ least + 15 < steps * 16 + 16
    BY <2>2
  <2> HIDE DEF steps, length
  <2>4. length \in Nat /\ length >= actual
    BY <2>1, <2>2, <2>3, <1>1
  <2>5. config.maxLen % 16 = 0 => length <= config.maxLen
    BY <2>1, <2>2, <2>3, <1>1
  <2> QED BY <2>4, <2>5, <1>4 DEF length
<1>5. CASE config.lengths = <<>> /\ ~config.flexible
  <2>1. length = config.maxLen
    BY <1>5, Zenon DEF Laya!PaddedLength
  <2> HIDE DEF length
  <2>2. length \in Nat /\ length >= actual /\ length <= config.maxLen
    BY <2>1, <1>1
  <2> QED BY <2>2 DEF length
<1> QED BY <1>1, <1>3, <1>4, <1>5
\* An item of a batch: its tokens, and its masks among them.
IsItem(item, length, width) ==
    /\ Len(item.ids) \in 1..length /\ Len(item.markers) \in 0..width
    /\ \A option \in 1..Len(item.markers) : item.markers[option] \in 0..Len(item.ids) - 1

\* What the network is given to answer an option of the item with.
Column(item, option) ==
    [seen |-> [column \in 0..Len(item.ids) - 1 |-> item.ids[column + 1]],
     scored |-> item.ids[item.markers[option] + 1]]

\* The row of an item in the tensors is its own, and so is its slice of the logits.
LEMMA SliceIsOwn ==
    ASSUME NEW items, NEW n \in Nat, Len(items) = n, NEW length \in Nat, NEW width \in Nat,
           \A i \in 1..n : IsItem(items[i], length, width),
           NEW row \in 1..n, NEW option \in 1..Len(items[row].markers)
    PROVE  Laya!Slice(Laya!Logits(items, length, width), row - 1, width,
                      Len(items[row].markers))[option] = Column(items[row], option)
<1> DEFINE item == items[row]
<1> DEFINE ids == Laya!InputIds(items, length)
<1> DEFINE attention == Laya!Attention(items, length)
<1> DEFINE positions == Laya!MarkerPositions(items, width)
<1> DEFINE at == (row - 1) * width + (option - 1)
<1> DEFINE first == (row - 1) * length
<1>1. /\ Len(item.ids) \in 1..length /\ Len(item.markers) \in 0..width
      /\ \A k \in 1..Len(item.markers) : item.markers[k] \in 0..Len(item.ids) - 1
  BY DEF IsItem
<1> DEFINE size == Len(item.ids)
<1> DEFINE count == Len(item.markers)
<1> DEFINE marker == item.markers[option]
<1>2. /\ size \in 1..length /\ count \in 0..width /\ option \in 1..count /\ marker \in 0..size - 1
      /\ width \in Nat \ {0} /\ length \in Nat \ {0} /\ option - 1 \in 0..width - 1 /\ row - 1 \in Nat
  BY <1>1
<1> HIDE DEF size, count, marker
<1>3. ASSUME NEW column \in 0..length - 1
      PROVE  /\ first + column \in 0..n * length - 1
             /\ (first + column) \div length = row - 1
             /\ (first + column) % length = column
  BY <1>2, RowColumn, CellInside
<1>4. /\ at \in 0..n * width - 1 /\ at \div width = row - 1 /\ at % width = option - 1
  BY <1>2, RowColumn, CellInside
<1>5. (row - 1) + 1 = row /\ (option - 1) + 1 = option
  OBVIOUS
<1> HIDE DEF at, first
<1>6. ASSUME NEW column \in 0..length - 1
      PROVE  attention[first + column] <=> column < size
  <2>1. attention[first + column]
        = ((first + column) % length < Len(items[(first + column) \div length + 1].ids))
    BY <1>3, Zenon DEF Laya!Attention
  <2> HIDE DEF attention
  <2> QED BY <2>1, <1>3, <1>5, Zenon DEF size
<1>7. ASSUME NEW column \in 0..size - 1
      PROVE  ids[first + column] = item.ids[column + 1]
  <2>1. column \in 0..length - 1 /\ column + 1 <= size
    BY <1>2
  <2> DEFINE cell == first + column
  <2>2. cell \in 0..n * length - 1 /\ cell \div length = row - 1 /\ cell % length = column
    BY <1>3, <2>1
  <2> HIDE DEF cell
  <2>3. ids[cell] = IF (cell % length) + 1 <= Len(items[cell \div length + 1].ids)
                    THEN items[cell \div length + 1].ids[(cell % length) + 1]
                    ELSE Laya!Special("pad")
    BY <2>2, Zenon DEF Laya!InputIds
  <2> HIDE DEF ids
  <2>4. ids[cell] = IF column + 1 <= size THEN item.ids[column + 1] ELSE Laya!Special("pad")
    BY <2>2, <2>3, <1>5, Zenon DEF size
  <2> QED BY <2>1, <2>4, Zenon DEF cell
<1>8. positions[at] = marker
  <2>1. positions[at] = IF (at % width) + 1 <= Len(items[at \div width + 1].markers)
                        THEN items[at \div width + 1].markers[(at % width) + 1] ELSE 0
    BY <1>4, Zenon DEF Laya!MarkerPositions
  <2>2. option <= count
    BY <1>2
  <2> HIDE DEF positions
  <2> QED BY <2>1, <2>2, <1>4, <1>5, Zenon DEF count, marker
<1> DEFINE attended == {column \in 0..length - 1 : attention[first + column]}
<1>9. Laya!Logits(items, length, width)[at]
      = [seen |-> [column \in attended |-> ids[first + column]], scored |-> ids[first + positions[at]]]
  <2>1. Laya!Logits(items, length, width)[at]
        = [seen |-> [column \in {c \in 0..length - 1 : attention[(at \div width) * length + c]}
                        |-> ids[(at \div width) * length + column]],
           scored |-> ids[(at \div width) * length + positions[at]]]
    BY <1>4, Zenon DEF Laya!Logits
  <2> HIDE DEF attention, ids, positions
  <2> QED BY <2>1, <1>4, Zenon DEF first
<1>10. attended = 0..size - 1
  <2> HIDE DEF attention
  <2>1. 0..size - 1 \subseteq 0..length - 1 /\ \A c \in 0..length - 1 : c < size <=> c \in 0..size - 1
    BY <1>2
  <2> QED BY <2>1, <1>6
<1>11. Laya!Slice(Laya!Logits(items, length, width), row - 1, width, count)[option]
       = Laya!Logits(items, length, width)[at]
  <2>1. (row - 1) * width \in Nat /\ (row - 1) * width + option - 1 = (row - 1) * width + (option - 1)
    BY <1>2
  <2> HIDE DEF ids, attention, positions
  <2>2. Laya!Slice(Laya!Logits(items, length, width), row - 1, width, count)[option]
        = Laya!Logits(items, length, width)[(row - 1) * width + option - 1]
    BY <1>2, Zenon DEF Laya!Slice
  <2> QED BY <2>1, <2>2, Zenon DEF at
<1>12. [column \in attended |-> ids[first + column]]
       = [column \in 0..size - 1 |-> item.ids[column + 1]]
  <2> HIDE DEF ids, attended
  <2> QED BY <1>7, <1>10
<1>13. ids[first + positions[at]] = item.ids[marker + 1]
  <2> HIDE DEF ids
  <2> QED BY <1>2, <1>7, <1>8, Zenon
<1> HIDE DEF ids, attended, positions, item
<1>14. Laya!Logits(items, length, width)[at]
       = [seen |-> [column \in 0..size - 1 |-> item.ids[column + 1]], scored |-> item.ids[marker + 1]]
  BY <1>9, <1>12, <1>13, Zenon
<1> QED BY <1>11, <1>14, Zenon DEF Column, item, size, count, marker
-------------------------------------------------------------------------------
IsSeq(s) == Len(s) \in Nat /\ DOMAIN s = 1..Len(s) /\ s = [i \in 1..Len(s) |-> s[i]]

LEMMA EmptyIsSeq == IsSeq(<<>>) /\ Len(<<>>) = 0
BY DEF IsSeq

LEMMA FunctionIsSeq ==
    ASSUME NEW n \in Nat, NEW g, g = [i \in 1..n |-> g[i]]
    PROVE  IsSeq(g) /\ Len(g) = n
<1>1. g \in Seq({g[i] : i \in 1..n}) /\ Len(g) = n
  OBVIOUS
<1> QED BY <1>1 DEF IsSeq

LEMMA AppendIs ==
    ASSUME NEW s, NEW e, IsSeq(s)
    PROVE  /\ IsSeq(Append(s, e)) /\ Len(Append(s, e)) = Len(s) + 1
           /\ \A i \in 1..Len(s) : Append(s, e)[i] = s[i]
           /\ Append(s, e)[Len(s) + 1] = e
<1> DEFINE S == {s[i] : i \in 1..Len(s)} \cup {e}
<1>1. Len(s) \in Nat /\ s = [i \in 1..Len(s) |-> s[i]]
  BY DEF IsSeq
<1>2. s \in [1..Len(s) -> S]
  BY <1>1
<1>3. e \in S
  OBVIOUS
<1> HIDE DEF S
<1>4. s \in Seq(S)
  BY <1>1, <1>2
<1>5. /\ Append(s, e) \in Seq(S) /\ Len(Append(s, e)) = Len(s) + 1
      /\ \A i \in 1..Len(s) : Append(s, e)[i] = s[i]
      /\ Append(s, e)[Len(s) + 1] = e
  BY <1>3, <1>4, AppendProperties
<1>6. IsSeq(Append(s, e))
  <2> DEFINE t == Append(s, e)
  <2>1. t \in Seq(S)
    BY <1>5
  <2> HIDE DEF t
  <2>2. IsSeq(t)
    BY <2>1 DEF IsSeq
  <2> QED BY <2>2 DEF t
<1> QED BY <1>5, <1>6

LEMMA LargestExists ==
    ASSUME NEW n \in Nat \ {0}, NEW f \in [1..n -> Nat]
    PROVE  LET largest == Laya!Max({f[i] : i \in 1..n})
           IN  largest \in Nat /\ \A i \in 1..n : f[i] <= largest
<1> DEFINE T == {k \in Nat : k + 1 <= n => \E m \in 1..k + 1 : \A i \in 1..k + 1 : f[i] <= f[m]}
<1>1. 0 \in T
  <2>1. 1 \in 1..0 + 1 /\ \A i \in 1..0 + 1 : i = 1 /\ f[1] \in Nat /\ f[1] <= f[1]
    OBVIOUS
  <2> QED BY <2>1
<1>2. ASSUME NEW k \in T PROVE k + 1 \in T
  <2> SUFFICES ASSUME (k + 1) + 1 <= n
               PROVE  \E m \in 1..(k + 1) + 1 : \A i \in 1..(k + 1) + 1 : f[i] <= f[m]
    OBVIOUS
  <2>1. k \in Nat /\ k + 1 <= n
    OBVIOUS
  <2>2. PICK m \in 1..k + 1 : \A i \in 1..k + 1 : f[i] <= f[m]
    BY <2>1
  <2> DEFINE last == (k + 1) + 1
  <2>3. /\ last \in 1..n /\ m \in 1..n /\ f[last] \in Nat /\ f[m] \in Nat
        /\ m \in 1..last /\ last \in 1..last
        /\ \A i \in 1..last : i = last \/ i \in 1..k + 1
        /\ \A i \in 1..last : f[i] \in Nat
    BY <2>1
  <2> HIDE DEF last, T
  <2>4. CASE f[last] <= f[m]
    <3>1. \A i \in 1..last : f[i] <= f[m]
      BY <2>2, <2>3, <2>4, Zenon
    <3> QED BY <2>3, <3>1, Zenon DEF last
  <2>5. CASE ~(f[last] <= f[m])
    <3>1. \A i \in 1..last : f[i] <= f[last]
      BY <2>2, <2>3, <2>5
    <3> QED BY <2>3, <3>1, Zenon DEF last
  <2> QED BY <2>4, <2>5
<1>3. T = Nat
  <2>1. T \in SUBSET Nat
    OBVIOUS
  <2> HIDE DEF T
  <2> QED BY <1>1, <1>2, <2>1, SetInduction
<1>4. \E m \in 1..n : \A i \in 1..n : f[i] <= f[m]
  <2>1. n - 1 \in T /\ (n - 1) + 1 = n /\ n <= n
    <3> HIDE DEF T
    <3> QED BY <1>3
  <2>2. (n - 1) + 1 <= n => \E m \in 1..(n - 1) + 1 : \A i \in 1..(n - 1) + 1 : f[i] <= f[m]
    BY <2>1, Zenon
  <2> HIDE DEF T
  <2> QED BY <2>1, <2>2, Zenon
<1> DEFINE S == {f[i] : i \in 1..n}
<1>5. \E x \in S : \A y \in S : x >= y
  BY <1>4
<1> HIDE DEF T
<1>6. S \in SUBSET Nat
  OBVIOUS
<1>7. \A i \in 1..n : f[i] \in S
  OBVIOUS
<1> HIDE DEF S
<1>8. Laya!Max(S) \in S /\ \A y \in S : Laya!Max(S) >= y
  BY <1>5, Zenon DEF Laya!Max
<1>9. Laya!Max(S) \in Nat /\ \A i \in 1..n : f[i] <= Laya!Max(S)
  BY <1>6, <1>7, <1>8
<1> QED BY <1>9 DEF S

-------------------------------------------------------------------------------
\* The invariant of a call of decide.
Decided(item, decision, question) ==
    /\ decision.question = question
    /\ \A option \in 1..Len(item.markers) : decision.columns[option] = Column(item, option)

LayaTypes ==
    /\ backend \in {"onnx", "coreml"} /\ config \in LayaConfigs /\ laya_request \in LayaRequests
    /\ IsSeq(prepared) /\ IsSeq(decisions) /\ status # "unused"

\* The questions are prepared in order, the accepted ones only.
PreparedInOrder ==
    /\ Len(prepared) <= Len(laya_request.questions)
    /\ \A i \in 1..Len(prepared) :
          LET question == laya_request.questions[i]
          IN  prepared[i] = Laya!Prepared(question, laya_request.state)
              /\ Laya!Accepted(question, laya_request.state)

\* Core ML prepares a question when the one before it is answered.
AnsweredInOrder ==
    /\ Len(decisions) <= Len(prepared)
    /\ status = "running" /\ backend = "coreml" => Len(prepared) <= Len(decisions) + 1
    /\ \A i \in 1..Len(decisions) : Decided(prepared[i], decisions[i], laya_request.questions[i])

LayaInv == LayaTypes /\ PreparedInOrder /\ AnsweredInOrder

LEMMA LayaBegins == Laya!Init => LayaInv
<1> SUFFICES ASSUME Laya!Init PROVE LayaInv
  OBVIOUS
<1>1. /\ backend \in {"onnx", "coreml"} /\ config \in LayaConfigs /\ laya_request \in LayaRequests
      /\ prepared = <<>> /\ decisions = <<>>
      /\ status = IF laya_request.questions = <<>> THEN "error" ELSE "running"
  BY Zenon DEF Laya!Init
<1>2. IsSeq(prepared) /\ Len(prepared) = 0 /\ IsSeq(decisions) /\ Len(decisions) = 0
  BY <1>1, EmptyIsSeq, Zenon
<1>3. Len(laya_request.questions) \in Nat
  <2>1. laya_request.questions \in Seq(LayaQuestion)
    BY <1>1, LayaAssumption, Zenon
  <2> QED BY <2>1, LenProperties
<1> QED BY <1>1, <1>2, <1>3 DEF LayaInv, LayaTypes, PreparedInOrder, AnsweredInOrder

\* What a prepared question is, when the request and the artifact are as loaded.
LEMMA PreparedFacts ==
    ASSUME LayaTypes, PreparedInOrder, NEW i \in 1..Len(prepared)
    PROVE  LET question == laya_request.questions[i]
               item == prepared[i]
           IN  /\ question \in LayaQuestion /\ item.question = question
               /\ item.ids = Laya!Ids(question, laya_request.state)
               /\ item.markers = Laya!Markers(question)
               /\ laya_request.state \in Nat
               /\ Len(item.ids) \in 1..config.maxLen /\ Len(item.markers) \in Nat
               /\ backend = "coreml" => Len(item.markers) <= config.maxOptions
               /\ \A option \in 1..Len(item.markers) :
                     /\ item.markers[option] \in 0..Len(item.ids) - 1
                     /\ item.ids[item.markers[option] + 1]
                        = Laya!Token("mask", question.name, option)
<1> DEFINE question == laya_request.questions[i]
<1> DEFINE item == prepared[i]
<1> DEFINE state == laya_request.state
<1>1. laya_request.questions \in Seq(LayaQuestion) /\ state \in Nat /\ config \in LayaConfigs
  BY LayaAssumption DEF LayaTypes
<1>2. question \in LayaQuestion
  <2>1. Len(prepared) \in Nat /\ Len(prepared) <= Len(laya_request.questions)
    BY DEF LayaTypes, IsSeq, PreparedInOrder
  <2> QED BY <1>1, <2>1
<1>3. item = Laya!Prepared(question, state) /\ Laya!Accepted(question, state)
  BY Zenon DEF PreparedInOrder
<1>4. /\ item.question = question /\ item.ids = Laya!Ids(question, state)
      /\ item.markers = Laya!Markers(question)
  BY <1>3 DEF Laya!Prepared
<1>5. /\ Len(Laya!Ids(question, state)) <= config.maxLen
      /\ backend = "coreml" => Len(Laya!Rendered(question)) <= config.maxOptions
  BY <1>3, Zenon DEF Laya!Accepted
<1>6. config.maxLen \in Nat
  BY <1>1, LayaAssumption DEF LayaConfig
<1> HIDE DEF question, item, state
<1> DEFINE ids == Laya!Ids(question, state)
<1> DEFINE markers == Laya!Markers(question)
<1>7. /\ ids \in Seq(Tok) /\ Len(ids) >= 1
      /\ markers \in Seq(Nat) /\ Len(markers) = Len(Laya!Rendered(question))
      /\ \A option \in 1..Len(markers) :
            /\ markers[option] \in 0..Len(ids) - 1
            /\ ids[markers[option] + 1] = Laya!Token("mask", question.name, option)
  BY <1>1, <1>2, PromptFacts, Zenon
<1> HIDE DEF ids, markers
<1>8. Len(ids) \in 1..config.maxLen /\ Len(markers) \in Nat
  BY <1>5, <1>6, <1>7, LenProperties DEF ids
<1> QED BY <1>1, <1>2, <1>4, <1>5, <1>7, <1>8, Zenon DEF ids, markers, question, item, state

\* A prompt is a function of its question and of the artifact, which never changes.
LEMMA LayaFrame ==
    ASSUME config' = config, backend' = backend
    PROVE  /\ \A q, s : Laya!Prepared(q, s)' = Laya!Prepared(q, s)
           /\ \A q, s : Laya!Accepted(q, s)' = Laya!Accepted(q, s)
<1>1. \A n : Laya!Share(n)' = Laya!Share(n)
  BY DEF Laya!Share
<1> DEFINE OptionsIn(c, q) ==
      LET full == [i \in DOMAIN Laya!Rendered(q) |->
                      <<Laya!Token("mask", q.name, i)>>
                      \o Laya!Repeat(Laya!Token("option", q.name, i),
                                     Laya!AtMost(Laya!Rendered(q)[i], 48))]
          Cut(ids) == SubSeq(ids, 1, Laya!AtMost(Len(ids),
                         Laya!AtLeast(Laya!SaturatingSub(c.headMax, 16)
                                      \div Laya!AtLeast(Len(full), 1), 4)))
      IN  IF Laya!SaturatingSub(c.headMax, Laya!TotalLength(full)) < 16
          THEN [i \in DOMAIN full |-> Cut(full[i])] ELSE full
<1>2. \A q : Laya!Options(q)' = Laya!Options(q)
  <2>1. \A q : Laya!Options(q) = OptionsIn(config, q)
    BY Zenon DEF Laya!Options, Laya!Share
  <2>2. \A q : Laya!Options(q)' = OptionsIn(config', q)
    BY Zenon DEF Laya!Options, Laya!Share
  <2> HIDE DEF OptionsIn
  <2> QED BY <2>1, <2>2, Zenon
<1>3. \A q : Laya!HeadBudget(q)' = Laya!HeadBudget(q)
  BY <1>2 DEF Laya!HeadBudget
<1>4. \A q : Laya!QuestionHead(q)' = Laya!QuestionHead(q)
  BY <1>3 DEF Laya!QuestionHead
<1>5. \A q, s : Laya!Ids(q, s)' = Laya!Ids(q, s)
  BY <1>2, <1>4 DEF Laya!Ids
<1>6. \A q : Laya!Markers(q)' = Laya!Markers(q)
  BY <1>2, <1>4 DEF Laya!Markers
<1>7. \A q, s : Laya!Prepared(q, s)' = Laya!Prepared(q, s)
  BY <1>5, <1>6 DEF Laya!Prepared
<1>8. \A q, s : Laya!Accepted(q, s)' = Laya!Accepted(q, s)
  BY <1>5, Zenon DEF Laya!Accepted
<1> QED BY <1>7, <1>8

\* The questions that are prepared stay as they are.
LEMMA KeptPrepared ==
    ASSUME PreparedInOrder, prepared' = prepared, config' = config, backend' = backend,
           laya_request' = laya_request
    PROVE  PreparedInOrder'
<1>1. \A i \in 1..Len(prepared) :
         /\ prepared'[i] = Laya!Prepared(laya_request.questions[i], laya_request.state)'
         /\ Laya!Accepted(laya_request.questions[i], laya_request.state)'
  BY LayaFrame DEF PreparedInOrder
<1> QED BY <1>1 DEF PreparedInOrder

LEMMA PrepareKeeps == LayaInv /\ Laya!PrepareNext => LayaInv'
<1> SUFFICES ASSUME LayaInv, Laya!PrepareNext PROVE LayaInv'
  OBVIOUS
<1> DEFINE question == laya_request.questions[Len(prepared) + 1]
<1> DEFINE state == laya_request.state
<1>1. /\ status = "running" /\ Len(prepared) < Len(laya_request.questions)
      /\ Len(prepared) = Len(decisions) \/ backend = "onnx"
      /\ backend' = backend /\ config' = config /\ laya_request' = laya_request
  BY Zenon DEF Laya!PrepareNext
<1>2. \/ /\ Laya!Accepted(question, state)
         /\ prepared' = Append(prepared, Laya!Prepared(question, state))
         /\ decisions' = decisions /\ status' = status
      \/ status' = "error" /\ decisions' = <<>> /\ prepared' = prepared
  BY Zenon DEF Laya!PrepareNext, Laya!Fail
<1>3. LayaTypes /\ PreparedInOrder /\ AnsweredInOrder
  BY DEF LayaInv
<1>4. Len(prepared) \in Nat /\ Len(decisions) \in Nat /\ Len(decisions) <= Len(prepared)
  BY <1>3 DEF LayaTypes, IsSeq, AnsweredInOrder
<1>5. Len(laya_request.questions) \in Nat
  <2>1. laya_request.questions \in Seq(LayaQuestion)
    BY <1>3, LayaAssumption, Zenon DEF LayaTypes
  <2> QED BY <2>1, LenProperties
<1>6. CASE Laya!Accepted(question, state) /\ prepared' = Append(prepared, Laya!Prepared(question, state))
           /\ decisions' = decisions /\ status' = status
  <2> DEFINE n == Len(prepared)
  <2>1. /\ IsSeq(prepared') /\ Len(prepared') = n + 1
        /\ \A i \in 1..n : prepared'[i] = prepared[i]
        /\ prepared'[n + 1] = Laya!Prepared(question, state)
    <3>1. IsSeq(prepared)
      BY <1>3 DEF LayaTypes
    <3> QED BY <3>1, <1>6, AppendIs, Zenon
  <2>2. LayaTypes'
    BY <1>1, <1>3, <1>6, <2>1 DEF LayaTypes
  <2>3. PreparedInOrder'
    <3>1. n + 1 <= Len(laya_request.questions)
      BY <1>1, <1>4, <1>5
    <3>2. ASSUME NEW i \in 1..n + 1
          PROVE  /\ prepared'[i] = Laya!Prepared(laya_request.questions[i], state)
                 /\ Laya!Accepted(laya_request.questions[i], state)
      <4>1. CASE i \in 1..n
        BY <4>1, <2>1, <1>3, Zenon DEF PreparedInOrder
      <4>2. CASE i = n + 1
        BY <4>2, <2>1, <1>6, Zenon
      <4>3. i \in 1..n \/ i = n + 1
        BY <1>4
      <4> QED BY <4>1, <4>2, <4>3
    <3> HIDE DEF n, state
    <3>3. \A i \in 1..n + 1 :
             /\ prepared'[i] = Laya!Prepared(laya_request.questions[i], laya_request.state)'
             /\ Laya!Accepted(laya_request.questions[i], laya_request.state)'
      BY <3>2, <1>1, LayaFrame DEF state
    <3> QED BY <3>1, <3>3, <2>1, <1>1 DEF PreparedInOrder
  <2>4. AnsweredInOrder'
    <3> HIDE DEF n, question, state
    <3>1. Len(decisions) <= n + 1 /\ Len(prepared') = n + 1
          /\ (backend = "coreml" => n + 1 <= Len(decisions) + 1)
      BY <1>1, <1>4, <2>1 DEF n
    <3>2. ASSUME NEW i \in 1..Len(decisions)
          PROVE  Decided(prepared'[i], decisions[i], laya_request.questions[i])
      <4>1. i \in 1..n
        BY <1>4 DEF n
      <4> QED BY <4>1, <2>1, <1>3, Zenon DEF AnsweredInOrder
    <3> QED BY <3>1, <3>2, <1>1, <1>6 DEF AnsweredInOrder, Decided
  <2> QED BY <2>2, <2>3, <2>4 DEF LayaInv
<1>7. CASE status' = "error" /\ decisions' = <<>> /\ prepared' = prepared
  <2>1. LayaTypes' /\ Len(decisions') = 0
    BY <1>1, <1>3, <1>7, EmptyIsSeq DEF LayaTypes
  <2>2. PreparedInOrder'
    BY <1>1, <1>3, <1>7, KeptPrepared
  <2>3. AnsweredInOrder'
    BY <1>4, <1>7, <2>1 DEF AnsweredInOrder
  <2> QED BY <2>1, <2>2, <2>3 DEF LayaInv
<1> QED BY <1>2, <1>6, <1>7

LEMMA InferBatchKeeps == LayaInv /\ Laya!InferBatch => LayaInv'
<1> SUFFICES ASSUME LayaInv, Laya!InferBatch PROVE LayaInv'
  OBVIOUS
<1>1. LayaTypes /\ PreparedInOrder /\ AnsweredInOrder
  BY DEF LayaInv
<1> DEFINE n == Len(prepared)
<1>2. /\ backend = "onnx" /\ prepared # <<>> /\ n = Len(laya_request.questions)
      /\ backend' = backend /\ config' = config /\ laya_request' = laya_request
      /\ prepared' = prepared
  BY Zenon DEF Laya!InferBatch
<1>3. n \in Nat \ {0} /\ DOMAIN prepared = 1..n
  <2>1. n \in Nat /\ DOMAIN prepared = 1..n /\ prepared = [i \in 1..n |-> prepared[i]]
    BY <1>1 DEF LayaTypes, IsSeq
  <2>2. n # 0
    <3> SUFFICES ASSUME n = 0 PROVE FALSE
      OBVIOUS
    <3> HIDE DEF n
    <3>1. prepared = [i \in 1..0 |-> prepared[i]]
      BY <2>1
    <3> QED BY <3>1, <1>2
  <2> QED BY <2>1, <2>2
<1> DEFINE length == Laya!Max({Len(prepared[i].ids) : i \in 1..n})
<1> DEFINE width == Laya!Max({Len(prepared[i].markers) : i \in 1..n})
<1> DEFINE logits == Laya!Logits(prepared, length, width)
<1>4. decisions' = [row \in 1..n |->
          Laya!Decode(prepared[row],
                      Laya!Slice(logits, row - 1, width, Len(prepared[row].markers)))]
  BY <1>3, Zenon DEF Laya!InferBatch
<1>5. \A i \in 1..n : /\ prepared[i].question = laya_request.questions[i]
                      /\ Len(prepared[i].ids) \in Nat /\ Len(prepared[i].ids) >= 1
                      /\ Len(prepared[i].markers) \in Nat
                      /\ \A option \in 1..Len(prepared[i].markers) :
                            prepared[i].markers[option] \in 0..Len(prepared[i].ids) - 1
  <2> SUFFICES ASSUME NEW i \in 1..Len(prepared)
               PROVE  /\ prepared[i].question = laya_request.questions[i]
                      /\ Len(prepared[i].ids) \in Nat /\ Len(prepared[i].ids) >= 1
                      /\ Len(prepared[i].markers) \in Nat
                      /\ \A option \in 1..Len(prepared[i].markers) :
                            prepared[i].markers[option] \in 0..Len(prepared[i].ids) - 1
    OBVIOUS
  <2>1. config.maxLen \in Nat
    BY <1>1, LayaAssumption DEF LayaTypes, LayaConfig
  <2>2. /\ prepared[i].question = laya_request.questions[i]
        /\ Len(prepared[i].ids) \in 1..config.maxLen /\ Len(prepared[i].markers) \in Nat
        /\ \A option \in 1..Len(prepared[i].markers) :
              prepared[i].markers[option] \in 0..Len(prepared[i].ids) - 1
    BY <1>1, PreparedFacts, Zenon
  <2> QED BY <2>1, <2>2
<1>6. length \in Nat /\ \A i \in 1..n : Len(prepared[i].ids) <= length
  <2> DEFINE f == [i \in 1..n |-> Len(prepared[i].ids)]
  <2>1. f \in [1..n -> Nat] /\ {f[i] : i \in 1..n} = {Len(prepared[i].ids) : i \in 1..n}
        /\ \A i \in 1..n : f[i] = Len(prepared[i].ids)
    BY <1>5
  <2> HIDE DEF f, n
  <2>2. Laya!Max({f[i] : i \in 1..n}) \in Nat
        /\ \A i \in 1..n : f[i] <= Laya!Max({f[j] : j \in 1..n})
    BY <1>3, <2>1, LargestExists, Zenon
  <2> QED BY <2>1, <2>2, Zenon
<1>7. width \in Nat /\ \A i \in 1..n : Len(prepared[i].markers) <= width
  <2> DEFINE f == [i \in 1..n |-> Len(prepared[i].markers)]
  <2>1. f \in [1..n -> Nat] /\ {f[i] : i \in 1..n} = {Len(prepared[i].markers) : i \in 1..n}
        /\ \A i \in 1..n : f[i] = Len(prepared[i].markers)
    BY <1>5
  <2> HIDE DEF f, n
  <2>2. Laya!Max({f[i] : i \in 1..n}) \in Nat
        /\ \A i \in 1..n : f[i] <= Laya!Max({f[j] : j \in 1..n})
    BY <1>3, <2>1, LargestExists, Zenon
  <2> QED BY <2>1, <2>2, Zenon
<1> HIDE DEF length, width
<1>8. \A i \in 1..n : IsItem(prepared[i], length, width)
  BY <1>5, <1>6, <1>7 DEF IsItem
<1>9. ASSUME NEW row \in 1..n
      PROVE  Decided(prepared[row], decisions'[row], laya_request.questions[row])
  <2> DEFINE slice == Laya!Slice(logits, row - 1, width, Len(prepared[row].markers))
  <2>1. decisions'[row] = Laya!Decode(prepared[row], slice)
    BY <1>4, Zenon
  <2>2. \A option \in 1..Len(prepared[row].markers) : slice[option] = Column(prepared[row], option)
    BY <1>3, <1>6, <1>7, <1>8, SliceIsOwn, Zenon
  <2> HIDE DEF slice
  <2>3. decisions'[row].question = prepared[row].question /\ decisions'[row].columns = slice
    BY <2>1 DEF Laya!Decode
  <2> QED BY <1>5, <2>2, <2>3, Zenon DEF Decided
<1>10. IsSeq(decisions') /\ Len(decisions') = n
  <2> DEFINE g == [row \in 1..n |->
          Laya!Decode(prepared[row],
                      Laya!Slice(logits, row - 1, width, Len(prepared[row].markers)))]
  <2>1. g = [i \in 1..n |-> g[i]]
    OBVIOUS
  <2> HIDE DEF g
  <2>2. IsSeq(g) /\ Len(g) = n
    BY <2>1, <1>3, FunctionIsSeq, Zenon
  <2> QED BY <2>2, <1>4 DEF g
<1>11. LayaTypes'
  <2>1. status' # "unused"
    BY DEF Laya!InferBatch, Laya!Finished
  <2> QED BY <2>1, <1>1, <1>2, <1>10 DEF LayaTypes
<1>12. PreparedInOrder'
  BY <1>1, <1>2, KeptPrepared
<1>13. AnsweredInOrder'
  <2>1. n <= n
    BY <1>3
  <2> HIDE DEF logits
  <2> QED BY <1>2, <1>9, <1>10, <2>1 DEF AnsweredInOrder, Decided
<1> QED BY <1>11, <1>12, <1>13 DEF LayaInv

LEMMA InferOneKeeps == LayaInv /\ Laya!InferOne => LayaInv'
<1> SUFFICES ASSUME LayaInv, Laya!InferOne PROVE LayaInv'
  OBVIOUS
<1>1. LayaTypes /\ PreparedInOrder /\ AnsweredInOrder
  BY DEF LayaInv
<1> DEFINE n == Len(prepared)
<1> DEFINE d == Len(decisions)
<1> DEFINE item == prepared[n]
<1> DEFINE length == Laya!PaddedLength(Len(item.ids))
<1> DEFINE slice == Laya!Slice(Laya!Logits(<<item>>, length, config.maxOptions), 0,
                               config.maxOptions, Len(item.markers))
<1>2. /\ status = "running" /\ backend = "coreml" /\ n > d
      /\ backend' = backend /\ config' = config /\ laya_request' = laya_request
      /\ prepared' = prepared
  BY Zenon DEF Laya!InferOne
<1>3. \/ decisions' = <<>> /\ status' = "error"
      \/ length # 0 /\ decisions' = Append(decisions, Laya!Decode(item, slice))
         /\ status' = IF Len(decisions') = Len(laya_request.questions) THEN "done" ELSE "running"
  BY Zenon DEF Laya!InferOne, Laya!Fail, Laya!Finished
<1>4. n \in Nat /\ d \in Nat /\ IsSeq(decisions)
  BY <1>1 DEF LayaTypes, IsSeq
<1>5. n = d + 1
  BY <1>1, <1>2, <1>4 DEF AnsweredInOrder
<1>6. PreparedInOrder'
  BY <1>1, <1>2, KeptPrepared
<1>7. CASE decisions' = <<>> /\ status' = "error"
  <2>1. LayaTypes' /\ Len(decisions') = 0
    BY <1>1, <1>2, <1>7, EmptyIsSeq DEF LayaTypes
  <2>2. AnsweredInOrder'
    BY <1>2, <1>4, <1>7, <2>1 DEF AnsweredInOrder
  <2> QED BY <2>1, <2>2, <1>6 DEF LayaInv
<1>8. CASE length # 0 /\ decisions' = Append(decisions, Laya!Decode(item, slice))
           /\ status' = IF Len(decisions') = Len(laya_request.questions) THEN "done" ELSE "running"
  <2>1. config.maxLen \in Nat /\ config.maxOptions \in Nat /\ config \in LayaConfigs
    BY <1>1, LayaAssumption DEF LayaTypes, LayaConfig
  <2>2. /\ item.question = laya_request.questions[n]
        /\ Len(item.ids) \in 1..config.maxLen /\ Len(item.markers) \in Nat
        /\ Len(item.markers) <= config.maxOptions
        /\ \A option \in 1..Len(item.markers) : item.markers[option] \in 0..Len(item.ids) - 1
    <3>1. n \in 1..Len(prepared)
      BY <1>4, <1>5
    <3> QED BY <3>1, <1>1, <1>2, PreparedFacts, Zenon
  <2>3. length \in Nat /\ length >= Len(item.ids)
    <3>1. Len(item.ids) \in 0..config.maxLen
      BY <2>1, <2>2
    <3> HIDE DEF item
    <3>2. length \in Nat /\ (length = 0 \/ length >= Len(item.ids))
      BY <2>1, <3>1, PaddedFacts, Zenon
    <3> QED BY <3>2, <1>8
  <2> HIDE DEF item, length
  <2>4. IsItem(item, length, config.maxOptions)
    BY <2>1, <2>2, <2>3 DEF IsItem
  <2>5. \A option \in 1..Len(item.markers) : slice[option] = Column(item, option)
    <3> DEFINE items == <<item>>
    <3>1. Len(items) = 1 /\ items[1] = item /\ 1 - 1 = 0 /\ 1 \in Nat /\ 1 \in 1..1
      OBVIOUS
    <3>2. \A i \in 1..1 : IsItem(items[i], length, config.maxOptions)
      BY <2>4, <3>1
    <3> HIDE DEF items
    <3>3. \A option \in 1..Len(items[1].markers) :
             Laya!Slice(Laya!Logits(items, length, config.maxOptions), 1 - 1, config.maxOptions,
                        Len(items[1].markers))[option] = Column(items[1], option)
      BY <2>1, <2>3, <3>1, <3>2, SliceIsOwn, Zenon
    <3> QED BY <3>1, <3>3, Zenon DEF items
  <2> HIDE DEF slice
  <2> DEFINE decision == Laya!Decode(item, slice)
  <2>6. decision.question = item.question /\ decision.columns = slice
    BY DEF Laya!Decode
  <2> HIDE DEF decision
  <2>7. /\ IsSeq(decisions') /\ Len(decisions') = d + 1
        /\ \A i \in 1..d : decisions'[i] = decisions[i]
        /\ decisions'[d + 1] = decision
    BY <1>4, <1>8, AppendIs, Zenon DEF decision
  <2>8. Decided(item, decision, laya_request.questions[n])
    BY <2>2, <2>5, <2>6, Zenon DEF Decided
  <2>9. ASSUME NEW i \in 1..d + 1
        PROVE  Decided(prepared[i], decisions'[i], laya_request.questions[i])
    <3>1. CASE i \in 1..d
      BY <3>1, <2>7, <1>1, Zenon DEF AnsweredInOrder
    <3>2. CASE i = d + 1
      BY <3>2, <2>7, <2>8, <1>5, Zenon DEF item
    <3>3. i \in 1..d \/ i = d + 1
      BY <1>4
    <3> QED BY <3>1, <3>2, <3>3
  <2>10. LayaTypes'
    <3>1. status' # "unused"
      BY <1>8
    <3> QED BY <3>1, <1>1, <1>2, <2>7 DEF LayaTypes
  <2>11. AnsweredInOrder'
    <3>1. d + 1 <= n /\ n <= (d + 1) + 1 /\ Len(prepared') = n
      BY <1>2, <1>4, <1>5
    <3> HIDE DEF d, n
    <3> QED BY <1>2, <2>7, <2>9, <3>1 DEF AnsweredInOrder, Decided
  <2> QED BY <2>10, <2>11, <1>6 DEF LayaInv
<1> QED BY <1>3, <1>7, <1>8

LEMMA InferFailsKeeps == LayaInv /\ Laya!InferFails => LayaInv'
<1> SUFFICES ASSUME LayaInv, Laya!InferFails PROVE LayaInv'
  OBVIOUS
<1>1. LayaTypes /\ PreparedInOrder /\ AnsweredInOrder
  BY DEF LayaInv
<1>2. /\ decisions' = <<>> /\ status' = "error" /\ prepared' = prepared
      /\ backend' = backend /\ config' = config /\ laya_request' = laya_request
  BY Zenon DEF Laya!InferFails, Laya!Fail
<1>3. Len(prepared) \in Nat
  BY <1>1 DEF LayaTypes, IsSeq
<1>4. LayaTypes' /\ Len(decisions') = 0
  BY <1>1, <1>2, EmptyIsSeq DEF LayaTypes
<1>5. PreparedInOrder'
  BY <1>1, <1>2, KeptPrepared
<1>6. AnsweredInOrder'
  BY <1>2, <1>3, <1>4 DEF AnsweredInOrder
<1> QED BY <1>4, <1>5, <1>6 DEF LayaInv

\* The graphs and the adapters take turns in behaviours, never in one.
EitherInv == GraphAlone \/ LayaInv

LEMMA EitherKeeps == EitherInv /\ [EitherNext]_<<vars, layaVars>> => EitherInv'
<1> SUFFICES ASSUME EitherInv, [EitherNext]_<<vars, layaVars>> PROVE EitherInv'
  OBVIOUS
<1>1. CASE UNCHANGED layaVars
  <2>1. /\ backend' = backend /\ config' = config /\ laya_request' = laya_request
        /\ prepared' = prepared /\ decisions' = decisions /\ status' = status
    BY <1>1 DEF layaVars
  <2>2. CASE GraphAlone
    BY <2>1, <2>2 DEF EitherInv, GraphAlone
  <2>3. CASE LayaInv
    <3>1. PreparedInOrder'
      BY <2>1, <2>3, KeptPrepared, Zenon DEF LayaInv
    <3>2. LayaTypes' /\ AnsweredInOrder'
      BY <2>1, <2>3 DEF LayaInv, LayaTypes, AnsweredInOrder, Decided
    <3> QED BY <3>1, <3>2 DEF EitherInv, LayaInv
  <2> QED BY <2>2, <2>3 DEF EitherInv
<1>2. CASE status # "unused" /\ Laya!Next
  <2>1. LayaInv
    BY <1>2 DEF EitherInv, GraphAlone
  <2>2. LayaInv'
    BY <1>2, <2>1, PrepareKeeps, InferBatchKeeps, InferOneKeeps, InferFailsKeeps, Zenon
       DEF Laya!Next
  <2> QED BY <2>2 DEF EitherInv
<1> QED BY <1>1, <1>2, Zenon DEF EitherNext

\* In every state of a call of decide the questions so far are laid out as their
\* prompts are, the accepted ones only and in order, each answer is the network's for the
\* item at its place, and Core ML is at most one question ahead of its answers.
THEOREM LayaInvariant == EitherSpec => []EitherInv
<1>1. EitherInit => EitherInv
  BY LayaBegins, Zenon DEF EitherInit, EitherInv
<1> QED BY <1>1, EitherKeeps, PTL DEF EitherSpec

\* A decision of the ONNX or the Core ML adapter is computed from its own question's tokens,
\* and each of its columns from the mask of its own option: for any questions in one batch,
\* of any lengths and widths, neither the padding nor the row arithmetic of the tensors, nor
\* the slices of the logits, lets one question see another.
THEOREM OwnPromptIsAnswered == EitherSpec => []AnswersOwnPrompt
<1>1. EitherInv => AnswersOwnPrompt
  <2>1. CASE GraphAlone
    BY <2>1 DEF GraphAlone, AnswersOwnPrompt, Laya!AnswersOwnPrompt
  <2>2. CASE LayaInv
    <3>1. LayaTypes /\ PreparedInOrder /\ AnsweredInOrder
      BY <2>2 DEF LayaInv
    <3>2. DOMAIN decisions = 1..Len(decisions) /\ 1..Len(decisions) \subseteq 1..Len(prepared)
      BY <3>1 DEF LayaTypes, IsSeq, AnsweredInOrder
    <3>3. SUFFICES ASSUME NEW i \in 1..Len(decisions)
                   PROVE  /\ decisions[i].question = laya_request.questions[i]
                          /\ \A option \in DOMAIN prepared[i].markers :
                                /\ decisions[i].columns[option].seen
                                   = [column \in 0..Len(prepared[i].ids) - 1 |->
                                         prepared[i].ids[column + 1]]
                                /\ decisions[i].columns[option].scored
                                   = Laya!Token("mask", prepared[i].question.name, option)
      BY <3>2, Zenon DEF AnswersOwnPrompt, Laya!AnswersOwnPrompt
    <3> DEFINE item == prepared[i]
    <3> DEFINE question == laya_request.questions[i]
    <3>4. /\ question \in LayaQuestion /\ item.question = question
          /\ item.markers = Laya!Markers(question)
          /\ \A option \in 1..Len(item.markers) :
                item.ids[item.markers[option] + 1] = Laya!Token("mask", question.name, option)
      BY <3>1, <3>2, PreparedFacts, Zenon
    <3>5. Decided(item, decisions[i], question)
      BY <3>1, Zenon DEF AnsweredInOrder
    <3>6. DOMAIN item.markers = 1..Len(item.markers)
      <4>1. config \in LayaConfigs /\ laya_request.state \in Nat
        BY <3>1, LayaAssumption DEF LayaTypes
      <4> HIDE DEF item, question
      <4>2. Laya!Markers(question) \in Seq(Nat)
        BY <3>4, <4>1, PromptFacts, Zenon
      <4> QED BY <3>4, <4>2
    <3> HIDE DEF item, question
    <3>7. ASSUME NEW option \in 1..Len(item.markers)
          PROVE  /\ decisions[i].columns[option].seen
                    = [column \in 0..Len(item.ids) - 1 |-> item.ids[column + 1]]
                 /\ decisions[i].columns[option].scored
                    = Laya!Token("mask", item.question.name, option)
      <4>1. decisions[i].columns[option] = Column(item, option)
        BY <3>5, Zenon DEF Decided
      <4>2. /\ Column(item, option).seen
               = [column \in 0..Len(item.ids) - 1 |-> item.ids[column + 1]]
            /\ Column(item, option).scored = item.ids[item.markers[option] + 1]
        BY Zenon DEF Column
      <4> QED BY <4>1, <4>2, <3>4, Zenon
    <3>8. decisions[i].question = question
      BY <3>5, Zenon DEF Decided
    <3> QED BY <3>6, <3>7, <3>8, Zenon DEF item, question
  <2> QED BY <2>1, <2>2 DEF EitherInv
<1> QED BY <1>1, LayaInvariant, PTL

\* padded_length of Core ML rounds up to a multiple of 16 on a flexible artifact, and
\* validate_shape does not require its max_length to be one.
RoundLengths == \A c \in LayaConfigs : c.lengths = <<>> /\ c.flexible => c.maxLen % 16 = 0

\* Whatever the budgets of an artifact and the lengths of the question, its options and the
\* state: a prompt that reaches the network has its three separators, a mask for each option
\* at the position its marker says and no other, ends in a separator and is no longer than
\* the artifact's sequence; nor is the length it is padded to, on the artifacts whose
\* flexible length is round.
THEOREM PromptsAreFitting == RoundLengths => (EitherSpec => []PromptsFit)
<1> SUFFICES ASSUME RoundLengths PROVE EitherSpec => []PromptsFit
  OBVIOUS
<1>1. EitherInv => PromptsFit
  <2> SUFFICES ASSUME EitherInv PROVE PromptsFit
    OBVIOUS
  <2>1. CASE GraphAlone
    BY <2>1 DEF GraphAlone, PromptsFit, Laya!PromptsFit
  <2>2. CASE LayaInv
    <3>1. LayaTypes /\ PreparedInOrder
      BY <2>2 DEF LayaInv
    <3>2. DOMAIN prepared = 1..Len(prepared) /\ config \in LayaConfigs
      BY <3>1 DEF LayaTypes, IsSeq
    <3>3. SUFFICES ASSUME NEW i \in 1..Len(prepared)
          PROVE  LET item == prepared[i]
                 IN  /\ Len(item.ids) <= config.maxLen
                     /\ item.ids[1].kind = "cls" /\ Laya!Last(item.ids).kind = "sep"
                     /\ Cardinality({at \in DOMAIN item.ids : item.ids[at].kind = "sep"}) = 3
                     /\ {at - 1 : at \in {n \in DOMAIN item.ids : item.ids[n].kind = "mask"}}
                        = Laya!ToSet(item.markers)
                     /\ backend = "coreml" =>
                           Laya!PaddedLength(Len(item.ids)) \in {0} \cup Len(item.ids)..config.maxLen
      BY <3>2, SameCardinality, Zenon DEF PromptsFit, Laya!PromptsFit
    <3> DEFINE question == laya_request.questions[i]
    <3> DEFINE state == laya_request.state
    <3> DEFINE ids == prepared[i].ids
    <3> DEFINE markers == prepared[i].markers
    <3>4. /\ question \in LayaQuestion /\ state \in Nat
          /\ ids = Laya!Ids(question, state) /\ markers = Laya!Markers(question)
          /\ Len(ids) \in 1..config.maxLen
      BY <3>1, PreparedFacts, Zenon
    <3> HIDE DEF question, state, ids, markers
    <3>5. /\ ids \in Seq(Tok) /\ ids[1].kind = "cls" /\ ids[Len(ids)].kind = "sep"
          /\ Cardinality({at \in 1..Len(ids) : ids[at].kind = "sep"}) = 3
          /\ markers \in Seq(Nat)
          /\ {at - 1 : at \in {p \in 1..Len(ids) : ids[p].kind = "mask"}}
             = {markers[k] : k \in 1..Len(markers)}
      <4> DEFINE theIds == Laya!Ids(question, state)
      <4> DEFINE theMarkers == Laya!Markers(question)
      <4>1. /\ theIds \in Seq(Tok) /\ theIds[1].kind = "cls" /\ theIds[Len(theIds)].kind = "sep"
            /\ Cardinality({at \in 1..Len(theIds) : theIds[at].kind = "sep"}) = 3
            /\ theMarkers \in Seq(Nat)
            /\ {at - 1 : at \in {p \in 1..Len(theIds) : theIds[p].kind = "mask"}}
               = {theMarkers[k] : k \in 1..Len(theMarkers)}
        BY <3>2, <3>4, PromptFacts, Zenon
      <4>2. ids = theIds /\ markers = theMarkers
        BY <3>4, Zenon
      <4> HIDE DEF theIds, theMarkers
      <4> QED BY <4>1, <4>2, Zenon
    <3>6. DOMAIN ids = 1..Len(ids) /\ DOMAIN markers = 1..Len(markers)
      BY <3>5
    <3>7. Laya!Last(ids) = ids[Len(ids)]
      BY Zenon DEF Laya!Last
    <3>8. Laya!ToSet(markers) = {markers[k] : k \in 1..Len(markers)}
      BY <3>6, Zenon DEF Laya!ToSet
    <3>9. Len(ids) <= config.maxLen
          /\ Laya!PaddedLength(Len(ids)) \in {0} \cup Len(ids)..config.maxLen
      <4>1. config.maxLen \in Nat
        BY <3>2, LayaAssumption DEF LayaConfig
      <4>2. config.lengths = <<>> /\ config.flexible => config.maxLen % 16 = 0
        BY <3>2, Zenon DEF RoundLengths
      <4>3. Len(ids) \in 0..config.maxLen /\ Len(ids) \in Nat /\ Len(ids) <= config.maxLen
        BY <3>4, <4>1
      <4> DEFINE length == Laya!PaddedLength(Len(ids))
      <4>4. length \in Nat /\ (length = 0 \/ length >= Len(ids)) /\ length <= config.maxLen
        BY <3>2, <4>2, <4>3, PaddedFacts, Zenon
      <4> HIDE DEF length
      <4>5. length \in {0} \cup Len(ids)..config.maxLen
        BY <4>1, <4>3, <4>4
      <4> QED BY <4>3, <4>5 DEF length
    <3> QED BY <3>5, <3>6, <3>7, <3>8, <3>9, Zenon DEF ids, markers
  <2> QED BY <2>1, <2>2 DEF EitherInv
<1> QED BY <1>1, LayaInvariant, PTL

===============================================================================
