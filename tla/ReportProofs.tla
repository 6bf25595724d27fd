---------------------------- MODULE ReportProofs ----------------------------
(***************************************************************************)
(* What is proved of the perfection analyses, for any fights, parties,     *)
(* rankings, logs and tables of skills: a player with the name is taken    *)
(* for the character before one with its job, each use of a skill and each *)
(* potion counts once, and a full score is earned.                         *)
(*                                                                         *)
(* The values are those of loops over players, buff events, rows of skills *)
(* and fights.  The first part says what such loops compute: a fold of the *)
(* community modules is a recursive function on the subsets of a set,      *)
(* FoldExists that there is one, the inductions what its values are.       *)
(***************************************************************************)
EXTENDS PerfectionReport, FiniteSetTheorems, TLAPS

-----------------------------------------------------------------------------
(* Induction over numbers and finite sets, for predicates given as sets. *)

\* A set of numbers has a least one: otherwise its lower bounds, which are finitely
\* many, would map into themselves by adding one, and miss zero.
LEMMA LeastNumber ==
    ASSUME NEW T \in SUBSET Nat, T # {}
    PROVE  \E x \in T : \A y \in T : x <= y
  <1> SUFFICES ASSUME \A x \in T : \E y \in T : y < x PROVE FALSE
    OBVIOUS
  <1>1. PICK k \in T : TRUE
    OBVIOUS
  <1> DEFINE Bounds == {m \in Nat : \A y \in T : m <= y}
             next == [m \in Bounds |-> m + 1]
  <1>2. 0 \in Bounds /\ Bounds \subseteq 0 .. k
    BY <1>1
  <1>3. IsFiniteSet(Bounds)
    <2>1. IsFiniteSet(0 .. k)
      BY <1>1, FS_Interval
    <2> QED
      BY <1>2, <2>1, FS_Subset
  <1>4. next \in Injection(Bounds, Bounds)
    <2>1. ASSUME NEW m \in Bounds PROVE m + 1 \in Bounds
      OBVIOUS
    <2> QED
      BY <2>1 DEF Injection, IsInjective
  <1>5. \E m \in Bounds : next[m] = 0
    <2>1. next \in Surjection(Bounds, Bounds)
      BY <1>3, <1>4, FS_Injection
    <2> QED
      BY <1>2, <2>1 DEF Surjection
  <1> QED
    BY <1>5

LEMMA NumberInduction ==
    ASSUME NEW P \in SUBSET Nat, 0 \in P, \A n \in P : n + 1 \in P
    PROVE  P = Nat
  <1> SUFFICES ASSUME Nat \ P # {} PROVE FALSE
    OBVIOUS
  <1>1. PICK n \in Nat \ P : \A m \in Nat \ P : n <= m
    BY LeastNumber
  <1>2. n - 1 \in Nat /\ n - 1 \in P
    BY <1>1
  <1> QED
    BY <1>1, <1>2

\* A property of finite sets that a set gets from those with an element less.
LEMMA SubsetInduction ==
    ASSUME NEW S, IsFiniteSet(S), NEW Q \in SUBSET SUBSET S,
           \A s \in SUBSET S : (\A x \in s : s \ {x} \in Q) => s \in Q
    PROVE  Q = SUBSET S
  <1> SUFFICES ASSUME NEW bad \in SUBSET S, bad \notin Q PROVE FALSE
    OBVIOUS
  <1> DEFINE Sizes == {n \in Nat : \E s \in SUBSET S : s \notin Q /\ Cardinality(s) = n}
  <1>1. \A s \in SUBSET S : IsFiniteSet(s) /\ Cardinality(s) \in Nat
    BY FS_Subset, FS_CardinalityType
  <1>2. PICK n \in Sizes : \A m \in Sizes : n <= m
    <2>1. Sizes # {}
      BY <1>1
    <2> QED
      BY <2>1, LeastNumber
  <1>3. PICK s \in SUBSET S : s \notin Q /\ Cardinality(s) = n
    OBVIOUS
  <1>4. PICK x \in s : s \ {x} \notin Q
    BY <1>3
  <1>5. s \ {x} \in SUBSET S /\ Cardinality(s \ {x}) = n - 1
    BY <1>1, <1>3, <1>4, FS_RemoveElement
  <1>6. Cardinality(s \ {x}) \in Sizes
    BY <1>1, <1>4, <1>5
  <1>7. n \in Nat
    BY <1>2
  <1> HIDE DEF Sizes
  <1> QED
    BY <1>2, <1>5, <1>6, <1>7

\* iter folds G over the subsets of S: it adds the elements that pick leaves for last
\* to what it makes of the others.
IsFold(iter, S, base, pick, G) ==
    iter = [s \in SUBSET S |->
              IF s = {} THEN base ELSE G[<<pick[s], iter[s \ {pick[s]}]>>]]

LEMMA FoldExists ==
    ASSUME NEW S, IsFiniteSet(S), NEW A, NEW base \in A, NEW G \in [S \X A -> A],
           NEW pick, \A s \in SUBSET S : s # {} => pick[s] \in s
    PROVE  \E iter \in [SUBSET S -> A] : IsFold(iter, S, base, pick, G)
  <1> DEFINE Small(n) == {s \in SUBSET S : Cardinality(s) <= n}
             Step(f, s) == IF s = {} THEN base ELSE G[<<pick[s], f[s \ {pick[s]}]>>]
             P == {n \in Nat : \E f \in [Small(n) -> A] : \A s \in Small(n) : f[s] = Step(f, s)}
  <1>1. \A s \in SUBSET S : IsFiniteSet(s) /\ Cardinality(s) \in Nat
    BY FS_Subset, FS_CardinalityType
  <1>2. \A s \in SUBSET S : s # {} =>
          /\ pick[s] \in S /\ s \ {pick[s]} \in SUBSET S
          /\ Cardinality(s \ {pick[s]}) = Cardinality(s) - 1
    BY <1>1, FS_RemoveElement
  <1>3. 0 \in P
    <2>1. \A s \in Small(0) : s = {}
      BY <1>1, FS_EmptySet
    <2>2. [s \in Small(0) |-> base] \in [Small(0) -> A]
      OBVIOUS
    <2> QED
      BY <2>1, <2>2
  <1>4. ASSUME NEW n \in P PROVE n + 1 \in P
    <2>1. PICK f \in [Small(n) -> A] : \A s \in Small(n) : f[s] = Step(f, s)
      OBVIOUS
    <2> DEFINE g == [s \in Small(n + 1) |-> Step(f, s)]
    <2>2. \A s \in Small(n + 1) : s # {} => s \ {pick[s]} \in Small(n)
      BY <1>1, <1>2
    <2>3. g \in [Small(n + 1) -> A]
      BY <1>2, <2>2
    <2>4. \A s \in Small(n) : s \in Small(n + 1) /\ g[s] = f[s]
      <3>1. \A s \in Small(n) : s \in Small(n + 1)
        BY <1>1
      <3> QED
        BY <2>1, <3>1
    <2>5. \A s \in Small(n + 1) : g[s] = Step(g, s)
      BY <2>2, <2>4
    <2>6. n + 1 \in Nat
      OBVIOUS
    <2> HIDE DEF g
    <2> QED
      BY <2>3, <2>5, <2>6
  <1>5. P = Nat
    <2> HIDE DEF P
    <2>1. P \in SUBSET Nat
      BY DEF P
    <2> QED
      BY <1>3, <1>4, <2>1, NumberInduction
  <1>6. Cardinality(S) \in P
    BY <1>5, FS_CardinalityType
  <1>7. PICK f \in [Small(Cardinality(S)) -> A] :
           \A s \in Small(Cardinality(S)) : f[s] = Step(f, s)
    BY <1>6
  <1>8. Small(Cardinality(S)) = SUBSET S
    BY <1>1, FS_Subset
  <1>9. f \in [SUBSET S -> A] /\ \A s \in SUBSET S : f[s] = Step(f, s)
    BY <1>7, <1>8
  <1>10. f = [s \in SUBSET S |-> Step(f, s)]
    <2> HIDE DEF Step
    <2> QED
      BY <1>9
  <1> QED
    BY <1>9, <1>10 DEF IsFold

-----------------------------------------------------------------------------
(* Folds over 1 .. n that take the elements in their order, as loops do. *)

LEMMA MaxIsLast ==
    ASSUME NEW n \in Nat, NEW s \in SUBSET (1 .. n), s # {}
    PROVE  Max(s) \in s /\ \A y \in s : Max(s) >= y
  <1> DEFINE T == {m \in Nat : n - m \in s}
  <1>1. PICK x \in s : TRUE
    OBVIOUS
  <1>2. n - x \in T
    BY <1>1
  <1>3. PICK m \in T : \A k \in T : m <= k
    BY <1>2, LeastNumber
  <1>4. \A y \in s : n - y \in T
    OBVIOUS
  <1>5. n - m \in s /\ \A y \in s : n - m >= y
    BY <1>3, <1>4
  <1> QED
    BY <1>5 DEF Max

LastIn(n) == [s \in SUBSET (1 .. n) |-> Max(s)]

LEMMA LoopExists ==
    ASSUME NEW n \in Nat, NEW A, NEW base \in A, NEW G \in [(1 .. n) \X A -> A]
    PROVE  \E iter \in [SUBSET (1 .. n) -> A] : IsFold(iter, 1 .. n, base, LastIn(n), G)
  <1>1. IsFiniteSet(1 .. n)
    BY FS_Interval
  <1>2. \A s \in SUBSET (1 .. n) : s # {} => LastIn(n)[s] \in s
    BY MaxIsLast DEF LastIn
  <1> QED
    BY <1>1, <1>2, FoldExists

\* The turns of a loop: the last element of 1 .. k is k, and 1 .. k - 1 comes before.
LEMMA Turns ==
    ASSUME NEW n \in Nat, NEW k \in 1 .. n
    PROVE  /\ 1 .. k \in SUBSET (1 .. n) /\ 1 .. k # {}
           /\ Max(1 .. k) = k /\ (1 .. k) \ {k} = 1 .. k - 1
  <1>1. 1 .. k \in SUBSET (1 .. n) /\ 1 .. k # {}
    <2>1. k \in 1 .. k
      OBVIOUS
    <2>2. \A m \in 1 .. k : m \in 1 .. n
      OBVIOUS
    <2> QED
      BY <2>1, <2>2
  <1>2. Max(1 .. k) \in 1 .. k /\ \A y \in 1 .. k : Max(1 .. k) >= y
    BY <1>1, MaxIsLast
  <1>3. (1 .. k) \ {k} = 1 .. k - 1
    OBVIOUS
  <1> QED
    BY <1>1, <1>2, <1>3

\* What holds before the first turn and is kept by each holds after the last.
LEMMA LoopInduction ==
    ASSUME NEW n \in Nat, NEW Q \in SUBSET Nat, 0 \in Q,
           \A k \in 1 .. n : k - 1 \in Q => k \in Q
    PROVE  n \in Q
  <1> DEFINE P == {k \in Nat : k <= n => k \in Q}
  <1>1. 0 \in P
    OBVIOUS
  <1>2. ASSUME NEW k \in P PROVE k + 1 \in P
    <2> SUFFICES ASSUME k + 1 <= n PROVE k + 1 \in Q
      OBVIOUS
    <2>1. k \in Q /\ k + 1 \in 1 .. n /\ (k + 1) - 1 = k
      OBVIOUS
    <2> QED
      BY <2>1
  <1>3. P = Nat
    <2> HIDE DEF P
    <2>1. P \in SUBSET Nat
      BY DEF P
    <2> QED
      BY <1>1, <1>2, <2>1, NumberInduction
  <1> QED
    BY <1>3

-----------------------------------------------------------------------------
(* Arithmetic and sums. *)

LEMMA Quotient ==
    ASSUME NEW a \in Nat, NEW c \in Nat \ {0}
    PROVE  (a \div c) \in Nat /\ c * (a \div c) <= a /\ a < c * (a \div c) + c
  OBVIOUS

LEMMA FullQuotient ==
    ASSUME NEW u \in Nat, NEW m \in Nat \ {0}
    PROVE  (100 * u) \div m \in Nat /\ ((100 * u) \div m >= 100 <=> u >= m)
  OBVIOUS

LEMMA IsTheQuotient ==
    ASSUME NEW a \in Nat, NEW c \in Nat \ {0}, NEW q \in Nat, c * q <= a, a < c * q + c
    PROVE  a \div c = q
  OBVIOUS

LEMMA NextMultiple ==
    ASSUME NEW c \in Nat, NEW i \in Nat, NEW j \in Nat, i < j
    PROVE  c * i + c <= c * j
  OBVIOUS

LEMMA MultipleOf == ASSUME NEW i \in Nat, NEW c \in Nat \ {0} PROVE (c * i) % c = 0 /\ c * i \in Nat
  OBVIOUS

LEMMA Division == ASSUME NEW a \in Nat, NEW c \in Nat \ {0}, a % c = 0 PROVE a = c * (a \div c)
  OBVIOUS

\* There are as many multiples of c below a as a divided by c, rounded up.
LEMMA MultiplesBelow ==
    ASSUME NEW a \in Nat, NEW c \in Nat \ {0}
    PROVE  Cardinality({t \in 0 .. a - 1 : t % c = 0}) = (a + c - 1) \div c
  <1> DEFINE n == (a + c - 1) \div c
             S == {t \in 0 .. a - 1 : t % c = 0}
             f == [i \in 1 .. n |-> c * (i - 1)]
  <1>1. n \in Nat /\ c * n <= a + c - 1 /\ a <= c * n
    BY Quotient
  <1> HIDE DEF n
  <1>2. ASSUME NEW i \in 1 .. n PROVE c * (i - 1) \in S
    <2>1. i - 1 \in Nat /\ c * (i - 1) + c <= c * n
      BY <1>1, NextMultiple
    <2>2. (c * (i - 1)) % c = 0 /\ c * (i - 1) \in Nat
      BY <2>1, MultipleOf
    <2> QED
      BY <1>1, <2>1, <2>2
  <1>3. ASSUME NEW i \in 1 .. n, NEW j \in 1 .. n, c * (i - 1) = c * (j - 1) PROVE i = j
    <2>1. \A k, l \in 1 .. n : k < l => c * (k - 1) + c <= c * (l - 1)
      <3> TAKE k, l \in 1 .. n
      <3>1. k - 1 \in Nat /\ l - 1 \in Nat
        BY <1>1
      <3> QED
        BY <3>1, NextMultiple
    <2>2. c * (i - 1) \in Nat /\ ~(i < j) /\ ~(j < i)
      BY <1>1, <1>3, <2>1
    <2> QED
      BY <1>1, <2>2
  <1>4. ASSUME NEW t \in S PROVE \E i \in 1 .. n : c * (i - 1) = t
    <2>1. t \in Nat /\ t <= a - 1 /\ t = c * (t \div c) /\ (t \div c) \in Nat
      BY Division, Quotient
    <2> DEFINE q == t \div c
    <2> HIDE DEF q
    <2>2. q < n
      <3> SUFFICES ASSUME n <= q PROVE FALSE
        BY <1>1, <2>1 DEF q
      <3>1. c * n <= c * q
        BY <1>1, <2>1 DEF q
      <3> QED
        BY <1>1, <2>1, <3>1 DEF q
    <2>3. q + 1 \in 1 .. n /\ (q + 1) - 1 = q
      BY <1>1, <2>1, <2>2 DEF q
    <2> QED
      BY <2>1, <2>3 DEF q
  <1>5. f \in Bijection(1 .. n, S)
    <2>1. f \in [1 .. n -> S]
      BY <1>2
    <2>2. \A i, j \in 1 .. n : f[i] = f[j] => i = j
      BY <1>3
    <2>3. \A t \in S : \E i \in 1 .. n : f[i] = t
      BY <1>4
    <2> HIDE DEF f, S
    <2> QED
      BY <2>1, <2>2, <2>3 DEF Bijection, Injection, Surjection, IsInjective
  <1>6. ExistsBijection(1 .. n, S)
    BY <1>5 DEF ExistsBijection
  <1> HIDE DEF f, S
  <1>7. Cardinality(S) = n
    BY <1>1, <1>6, FS_CountingElements
  <1> QED
    BY <1>7 DEF S, n

OneOf(s) == CHOOSE x \in s : TRUE
SumLoop(iter, S, fun) ==
    iter = [s \in SUBSET S |-> IF s = {} THEN 0 ELSE fun[OneOf(s)] + iter[s \ {OneOf(s)}]]

\* A sum is what a loop over the set in any order computes.
LEMMA SumIsLoop ==
    ASSUME NEW S, IsFiniteSet(S), NEW fun \in [S -> Nat]
    PROVE  \E iter : SumFunction(fun) = iter[S] /\ SumLoop(iter, S, fun)
  <1>1. \E f : SumLoop(f, S, fun)
    <2> DEFINE G == [x \in S \X Nat |-> fun[x[1]] + x[2]]
               pick == [s \in SUBSET S |-> OneOf(s)]
    <2>1. G \in [S \X Nat -> Nat] /\ \A s \in SUBSET S : s # {} => pick[s] \in s
      BY DEF OneOf
    <2>2. PICK f \in [SUBSET S -> Nat] : IsFold(f, S, 0, pick, G)
      BY <2>1, FoldExists
    <2>3. ASSUME NEW s \in SUBSET S, s # {}
          PROVE  G[<<pick[s], f[s \ {pick[s]}]>>] = fun[OneOf(s)] + f[s \ {OneOf(s)}]
      <3>1. OneOf(s) \in s
        BY <2>3 DEF OneOf
      <3>2. pick[s] = OneOf(s)
        OBVIOUS
      <3> HIDE DEF pick
      <3>3. OneOf(s) \in S /\ f[s \ {OneOf(s)}] \in Nat
        BY <2>2, <3>1
      <3> QED
        BY <3>2, <3>3
    <2> HIDE DEF G, pick
    <2>4. SumLoop(f, S, fun)
      BY <2>2, <2>3 DEF IsFold, SumLoop
    <2> QED
      BY <2>4
  <1>2. PICK iter : SumLoop(iter, S, fun) /\ SumFunction(fun) = iter[S]
    <2>1. DOMAIN fun = S
      OBVIOUS
    <2>2. SumFunction(fun) = LET iter[s \in SUBSET S] ==
                                   IF s = {} THEN 0 ELSE fun[OneOf(s)] + iter[s \ {OneOf(s)}]
                             IN  iter[S]
      BY <2>1 DEF SumFunction, SumFunctionOnSet, FoldFunctionOnSet, MapThenFoldSet, OneOf
    <2> QED
      BY <1>1, <2>2 DEF SumLoop
  <1> QED
    BY <1>2

\* The sum of naturals is one.
LEMMA SumIsNat ==
    ASSUME NEW S, IsFiniteSet(S), NEW fun \in [S -> Nat] PROVE SumFunction(fun) \in Nat
  <1>1. PICK iter : SumFunction(fun) = iter[S] /\ SumLoop(iter, S, fun)
    BY SumIsLoop
  <1> DEFINE Q == {s \in SUBSET S : iter[s] \in Nat}
  <1>2. ASSUME NEW s \in SUBSET S, \A x \in s : s \ {x} \in Q PROVE s \in Q
    <2>1. CASE s = {}
      BY <1>1, <2>1 DEF SumLoop
    <2>2. CASE s # {}
      <3>1. OneOf(s) \in s
        BY <2>2 DEF OneOf
      <3>2. iter[s] = fun[OneOf(s)] + iter[s \ {OneOf(s)}]
        BY <1>1, <2>2 DEF SumLoop
      <3> QED
        BY <1>2, <3>1, <3>2
    <2> QED
      BY <2>1, <2>2
  <1> HIDE DEF Q
  <1>3. Q \in SUBSET SUBSET S
    BY DEF Q
  <1>4. Q = SUBSET S
    BY <1>2, <1>3, SubsetInduction
  <1> QED
    BY <1>1, <1>4 DEF Q

\* A sum over one element.
LEMMA SumOfOne ==
    ASSUME NEW x, NEW fun \in [{x} -> Nat] PROVE SumFunction(fun) = fun[x]
  <1>1. IsFiniteSet({x})
    BY FS_Singleton
  <1>2. PICK iter : SumFunction(fun) = iter[{x}] /\ SumLoop(iter, {x}, fun)
    BY <1>1, SumIsLoop
  <1>3. OneOf({x}) = x
    BY DEF OneOf
  <1>4. iter[{x}] = fun[x] + iter[{x} \ {x}] /\ iter[{x} \ {x}] = 0
    BY <1>2, <1>3 DEF SumLoop
  <1> QED
    BY <1>2, <1>4

-----------------------------------------------------------------------------
(* The player of a fight: what the loops over the party find. *)

NameLoop(iter, players, name, n) ==
    /\ iter[1 .. 0] = 0
    /\ \A k \in 1 .. n :
         iter[1 .. k] = IF iter[1 .. k - 1] = 0 /\ players[k].name = name
                          THEN k ELSE iter[1 .. k - 1]

\* ByName is what a loop over the players computes.
LEMMA ByNameLoop ==
    ASSUME NEW players, NEW name, NEW n \in Nat, DOMAIN players = 1 .. n
    PROVE  \E iter :
             /\ ByName(players, name) = iter[1 .. n]
             /\ NameLoop(iter, players, name, n)
  <1> DEFINE G == [x \in (1 .. n) \X Nat |->
                     IF x[2] = 0 /\ players[x[1]].name = name THEN x[1] ELSE x[2]]
             Loop(iter) ==
               iter = [s \in SUBSET DOMAIN Ids(players) |->
                         IF s = {} THEN 0
                           ELSE IF /\ iter[s \ {Max(s)}] = 0
                                   /\ players[Ids(players)[Max(s)]].name = name
                                  THEN Ids(players)[Max(s)] ELSE iter[s \ {Max(s)}]]
  <1>1. DOMAIN Ids(players) = 1 .. n /\ \A i \in 1 .. n : Ids(players)[i] = i
    BY DEF Ids
  <1>2. \E f : Loop(f)
    <2>1. G \in [(1 .. n) \X Nat -> Nat]
      OBVIOUS
    <2>2. PICK f \in [SUBSET (1 .. n) -> Nat] : IsFold(f, 1 .. n, 0, LastIn(n), G)
      BY <2>1, LoopExists
    <2>3. ASSUME NEW s \in SUBSET (1 .. n), s # {}
          PROVE  G[<<LastIn(n)[s], f[s \ {LastIn(n)[s]}]>>] =
                   IF f[s \ {Max(s)}] = 0 /\ players[Ids(players)[Max(s)]].name = name
                     THEN Ids(players)[Max(s)] ELSE f[s \ {Max(s)}]
      <3>1. Max(s) \in 1 .. n /\ s \ {Max(s)} \in SUBSET (1 .. n)
        BY <2>3, MaxIsLast
      <3> QED
        BY <1>1, <3>1 DEF LastIn
    <2> HIDE DEF G
    <2>4. Loop(f)
      BY <1>1, <2>2, <2>3 DEF IsFold
    <2> QED
      BY <2>4
  <1>3. PICK iter : Loop(iter) /\ ByName(players, name) = iter[DOMAIN Ids(players)]
    BY <1>2 DEF ByName, FoldLeft, MapThenFoldSet
  <1>4. iter[1 .. 0] = 0
    <2>1. 1 .. 0 = {} /\ {} \in SUBSET DOMAIN Ids(players)
      OBVIOUS
    <2> QED
      BY <1>3, <2>1
  <1>5. ASSUME NEW k \in 1 .. n
        PROVE  iter[1 .. k] = IF iter[1 .. k - 1] = 0 /\ players[k].name = name
                                THEN k ELSE iter[1 .. k - 1]
    <2>1. 1 .. k \in SUBSET DOMAIN Ids(players) /\ 1 .. k # {}
      BY <1>1, Turns
    <2>2. Max(1 .. k) = k /\ (1 .. k) \ {k} = 1 .. k - 1 /\ Ids(players)[k] = k
      BY <1>1, Turns
    <2> DEFINE t == 1 .. k
    <2>3. iter[t] = IF iter[t \ {Max(t)}] = 0 /\ players[Ids(players)[Max(t)]].name = name
                     THEN Ids(players)[Max(t)] ELSE iter[t \ {Max(t)}]
      <3> HIDE DEF t
      <3> t \in SUBSET DOMAIN Ids(players) /\ t # {}
        BY <2>1 DEF t
      <3> QED
        BY <1>3
    <2> QED
      BY <2>2, <2>3
  <1> QED
    BY <1>1, <1>3, <1>4, <1>5 DEF NameLoop

JobLoop(iter, players, job, n) ==
    /\ iter[1 .. 0] = 0
    /\ \A k \in 1 .. n :
         iter[1 .. k] = IF players[k].job # job THEN iter[1 .. k - 1]
                          ELSE IF iter[1 .. k - 1] # 0 THEN 0 ELSE k

\* So is ByJob.
LEMMA ByJobLoop ==
    ASSUME NEW players, NEW job, NEW n \in Nat, DOMAIN players = 1 .. n
    PROVE  \E iter :
             /\ ByJob(players, job) = iter[1 .. n]
             /\ JobLoop(iter, players, job, n)
  <1> DEFINE G == [x \in (1 .. n) \X Nat |->
                     IF players[x[1]].job # job THEN x[2] ELSE IF x[2] # 0 THEN 0 ELSE x[1]]
             Loop(iter) ==
               iter = [s \in SUBSET DOMAIN Ids(players) |->
                         IF s = {} THEN 0
                           ELSE IF players[Ids(players)[Max(s)]].job # job THEN iter[s \ {Max(s)}]
                                  ELSE IF iter[s \ {Max(s)}] # 0 THEN 0 ELSE Ids(players)[Max(s)]]
  <1>1. DOMAIN Ids(players) = 1 .. n /\ \A i \in 1 .. n : Ids(players)[i] = i
    BY DEF Ids
  <1>2. \E f : Loop(f)
    <2>1. G \in [(1 .. n) \X Nat -> Nat]
      OBVIOUS
    <2>2. PICK f \in [SUBSET (1 .. n) -> Nat] : IsFold(f, 1 .. n, 0, LastIn(n), G)
      BY <2>1, LoopExists
    <2>3. ASSUME NEW s \in SUBSET (1 .. n), s # {}
          PROVE  G[<<LastIn(n)[s], f[s \ {LastIn(n)[s]}]>>] =
                   IF players[Ids(players)[Max(s)]].job # job THEN f[s \ {Max(s)}]
                     ELSE IF f[s \ {Max(s)}] # 0 THEN 0 ELSE Ids(players)[Max(s)]
      <3>1. Max(s) \in 1 .. n /\ s \ {Max(s)} \in SUBSET (1 .. n)
        BY <2>3, MaxIsLast
      <3> QED
        BY <1>1, <3>1 DEF LastIn
    <2> HIDE DEF G
    <2>4. Loop(f)
      BY <1>1, <2>2, <2>3 DEF IsFold
    <2> QED
      BY <2>4
  <1>3. PICK iter : Loop(iter) /\ ByJob(players, job) = iter[DOMAIN Ids(players)]
    BY <1>2 DEF ByJob, FoldLeft, MapThenFoldSet
  <1>4. iter[1 .. 0] = 0
    <2>1. 1 .. 0 = {} /\ {} \in SUBSET DOMAIN Ids(players)
      OBVIOUS
    <2> QED
      BY <1>3, <2>1
  <1>5. ASSUME NEW k \in 1 .. n
        PROVE  iter[1 .. k] = IF players[k].job # job THEN iter[1 .. k - 1]
                                ELSE IF iter[1 .. k - 1] # 0 THEN 0 ELSE k
    <2>1. 1 .. k \in SUBSET DOMAIN Ids(players) /\ 1 .. k # {}
      BY <1>1, Turns
    <2>2. Max(1 .. k) = k /\ (1 .. k) \ {k} = 1 .. k - 1 /\ Ids(players)[k] = k
      BY <1>1, Turns
    <2> DEFINE t == 1 .. k
    <2>3. iter[t] = IF players[Ids(players)[Max(t)]].job # job THEN iter[t \ {Max(t)}]
                     ELSE IF iter[t \ {Max(t)}] # 0 THEN 0 ELSE Ids(players)[Max(t)]
      <3> HIDE DEF t
      <3> t \in SUBSET DOMAIN Ids(players) /\ t # {}
        BY <2>1 DEF t
      <3> QED
        BY <1>3
    <2> QED
      BY <2>2, <2>3
  <1> QED
    BY <1>1, <1>3, <1>4, <1>5 DEF JobLoop

\* ByName finds a player with the name if there is one.
LEMMA ByNameFinds ==
    ASSUME NEW players, NEW name, NEW n \in Nat, DOMAIN players = 1 .. n
    PROVE  LET named == {i \in DOMAIN players : players[i].name = name}
           IN  \/ ByName(players, name) \in named
               \/ ByName(players, name) = 0 /\ named = {}
  <1>1. PICK iter :
           /\ ByName(players, name) = iter[1 .. n]
           /\ NameLoop(iter, players, name, n)
    BY ByNameLoop
  <1> DEFINE Q == {k \in 0 .. n :
                     \/ iter[1 .. k] \in 1 .. k /\ players[iter[1 .. k]].name = name
                     \/ iter[1 .. k] = 0 /\ \A i \in 1 .. k : players[i].name # name}
  <1>2. 0 \in Q
    BY <1>1 DEF NameLoop
  <1>3. ASSUME NEW k \in 1 .. n, k - 1 \in Q PROVE k \in Q
    <2>1. \A i \in 1 .. k : i = k \/ i \in 1 .. k - 1
      OBVIOUS
    <2>2. CASE iter[1 .. k - 1] = 0 /\ players[k].name = name
      BY <1>1, <2>2 DEF NameLoop
    <2>3. CASE ~(iter[1 .. k - 1] = 0 /\ players[k].name = name)
      BY <1>1, <1>3, <2>1, <2>3 DEF NameLoop
    <2> QED
      BY <2>2, <2>3
  <1>4. n \in Q
    <2> HIDE DEF Q
    <2>1. Q \in SUBSET Nat
      BY DEF Q
    <2> QED
      BY <1>2, <1>3, <2>1, LoopInduction
  <1> QED
    BY <1>1, <1>4

\* ByJob finds a player with the job if there is one, none if there are two, and, with
\* every second one taking the last back, perhaps one of more.
LEMMA ByJobFinds ==
    ASSUME NEW players, NEW job, NEW n \in Nat, DOMAIN players = 1 .. n
    PROVE  LET having == {i \in DOMAIN players : players[i].job = job}
           IN  \/ ByJob(players, job) \in having /\ Cardinality(having) # 2
               \/ ByJob(players, job) = 0 /\ Cardinality(having) # 1
  <1>1. PICK iter :
           /\ ByJob(players, job) = iter[1 .. n]
           /\ JobLoop(iter, players, job, n)
    BY ByJobLoop
  <1> DEFINE Having(k) == {i \in 1 .. k : players[i].job = job}
             Q == {k \in 0 .. n :
                     \/ iter[1 .. k] \in Having(k) /\ Cardinality(Having(k)) # 2
                     \/ iter[1 .. k] = 0 /\ Cardinality(Having(k)) # 1}
  <1>2. \A k \in Nat : IsFiniteSet(Having(k)) /\ Cardinality(Having(k)) \in Nat
    <2> TAKE k \in Nat
    <2>1. IsFiniteSet(1 .. k)
      BY FS_Interval
    <2> QED
      BY <2>1, FS_Subset, FS_CardinalityType
  <1>3. 0 \in Q
    <2>1. Having(0) = {}
      OBVIOUS
    <2> QED
      BY <1>1, <2>1, FS_EmptySet DEF JobLoop
  <1>4. ASSUME NEW k \in 1 .. n, k - 1 \in Q PROVE k \in Q
    <2> DEFINE id == iter[1 .. k - 1]
               size == Cardinality(Having(k - 1))
    <2>1. /\ k \in Nat /\ k - 1 \in Nat /\ k \notin Having(k - 1) /\ k \in 0 .. n
          /\ size \in Nat
      <3>1. k - 1 \in Nat
        OBVIOUS
      <3>2. size \in Nat
        BY <1>2, <3>1
      <3> QED
        BY <3>1, <3>2
    <2>2. \/ id \in Having(k - 1) /\ size # 2
          \/ id = 0 /\ size # 1
      BY <1>4
    <2>3. CASE players[k].job # job
      <3>1. Having(k) = Having(k - 1)
        BY <2>3
      <3>2. iter[1 .. k] = id
        BY <1>1, <2>3 DEF JobLoop
      <3> QED
        BY <2>1, <2>2, <3>1, <3>2
    <2>4. CASE players[k].job = job
      <3>1. Having(k) = Having(k - 1) \cup {k}
        BY <2>4
      <3>2. Cardinality(Having(k)) = size + 1
        BY <1>2, <2>1, <3>1, FS_AddElement
      <3>3. iter[1 .. k] = IF id # 0 THEN 0 ELSE k
        BY <1>1, <2>4 DEF JobLoop
      <3>4. size = 0 => Having(k - 1) = {}
        BY <1>2, <2>1, FS_EmptySet
      <3>5. k \in Having(k) /\ 0 \notin Having(k - 1) /\ k # 0
        BY <2>4
      <3> HIDE DEF id, size, Having
      <3> QED
        BY <2>1, <2>2, <3>2, <3>3, <3>4, <3>5
    <2> QED
      BY <2>3, <2>4
  <1>5. n \in Q
    <2> HIDE DEF Q
    <2>1. Q \in SUBSET Nat
      BY DEF Q
    <2> QED
      BY <1>3, <1>4, <2>1, LoopInduction
  <1> QED
    BY <1>1, <1>5

-----------------------------------------------------------------------------
(* The player that is chosen. *)

\* A player with the name comes first, then one with the job if there are not just two,
\* and nobody is chosen only if nobody has the name and not just one the job.
Fits(f, id) ==
    \/ id \in Named(f)
    \/ Named(f) = {} /\ id \in OfJob(f) /\ Cardinality(OfJob(f)) # 2
FitsNobody(f) == Named(f) = {} /\ Cardinality(OfJob(f)) # 1

LEMMA ResolvedFits ==
    ASSUME world \in Worlds, NEW f \in Fights
    PROVE  /\ Resolved(f) \in Nat
           /\ Resolved(f) # 0 => Fits(f, Resolved(f))
           /\ Resolved(f) = 0 => FitsNobody(f)
  <1> DEFINE players == world.party[f]
             n == Len(players)
  <1>1. n \in Nat /\ DOMAIN players = 1 .. n
    BY WorldAssumption
  <1> HIDE DEF n
  <1>2. \/ ByName(players, char) \in Named(f)
        \/ ByName(players, char) = 0 /\ Named(f) = {}
    BY <1>1, ByNameFinds DEF Named
  <1>3. \/ ByJob(players, Job(f)) \in OfJob(f) /\ Cardinality(OfJob(f)) # 2
        \/ ByJob(players, Job(f)) = 0 /\ Cardinality(OfJob(f)) # 1
    BY <1>1, ByJobFinds DEF OfJob
  <1>4. Named(f) \subseteq 1 .. n /\ OfJob(f) \subseteq 1 .. n
    BY <1>1 DEF Named, OfJob
  <1>5. Resolved(f) = IF ByName(players, char) # 0 THEN ByName(players, char)
                        ELSE ByJob(players, Job(f))
    BY DEF Resolved
  <1> HIDE DEF players
  <1>6. \A i \in 1 .. n : i \in Nat /\ i # 0
    BY <1>1
  <1> QED
    BY <1>2, <1>3, <1>4, <1>5, <1>6 DEF Fits, FitsNobody

-----------------------------------------------------------------------------
(* The inductive invariant. *)

ReportTypeOK ==
    /\ world \in Worlds /\ char \in Names
    /\ pc \in {"idle", "rankings", "replay", "fights", "events", "build", "done", "failed",
               "crashed"}
    /\ charState \in {"invalid", "notfound", "hidden", "nolog", "normal"}
    /\ \A c \in cache : c.has \subseteq DOMAIN c.key[2]
    /\ openReports \subseteq Reports
    /\ source \in [Fights -> Nat]
    /\ summary \subseteq {<<f, Listed(f)>> : f \in InFights} /\ openEvents \subseteq summary
    /\ fetched \in [Fights -> Nat] /\ finished \subseteq InFights
    /\ given \subseteq InFights

\* A fight has the player that its answer shows, and the last of its objects has the
\* summary then.
Sources ==
    /\ \A f \in Fights : source[f] \in {0, Resolved(f)}
    /\ \A o \in summary : source[o[1]] # 0
    /\ \A f \in given : Resolved(f) # 0 => <<f, Listed(f)>> \in summary

\* Events are added once: a fight has one object with the summary, which is not open
\* any more when it is finished.
FetchedOncePerFight ==
    /\ \A f \in Fights : fetched[f] = IF f \in finished THEN 1 ELSE 0
    /\ \A o \in openEvents : o[1] \notin finished
    /\ pc \in {"rankings", "replay", "fights"} => finished = {}

ReportInv == ReportTypeOK /\ Sources /\ FetchedOncePerFight

-----------------------------------------------------------------------------
(* It holds at first, and every action keeps it. *)

LEMMA ReportStart == RInit => ReportInv
  <1> SUFFICES ASSUME RInit PROVE ReportInv
    OBVIOUS
  <1>1. ReportTypeOK
    BY DEF RInit, ReportTypeOK
  <1>2. Sources /\ FetchedOncePerFight
    BY DEF RInit, Sources, FetchedOncePerFight
  <1> QED
    BY <1>1, <1>2 DEF ReportInv

LEMMA StartStep == ReportInv /\ Start => ReportInv'
  <1> SUFFICES ASSUME ReportInv, Start PROVE ReportInv'
    OBVIOUS
  <1>1. ReportTypeOK'
    BY DEF ReportInv, ReportTypeOK, Start
  <1>2. Sources' /\ FetchedOncePerFight'
    BY DEF Start, Sources, FetchedOncePerFight
  <1> QED
    BY <1>1, <1>2 DEF ReportInv

\* The same FFLogs, character and answers.
LEMMA SameAnswers ==
    ASSUME UNCHANGED <<world, char>>
    PROVE  /\ \A f \in Fights : Resolved(f)' = Resolved(f) /\ Listed(f)' = Listed(f)
           /\ InFights' = InFights
  BY DEF Resolved, Job, Listed, InFights

LEMMA ListedAreFights == InFights \subseteq Fights
  BY DEF InFights

\* What an answer makes of the fights.
LEMMA UseKeeps ==
    ASSUME ReportInv, UNCHANGED <<world, char>>, NEW has \in SUBSET InFights, Use(has)
    PROVE  /\ source' \in [Fights -> Nat] /\ given' \subseteq InFights
           /\ summary' \subseteq {<<f, Listed(f)>> : f \in InFights}
           /\ summary \subseteq summary'
           /\ Sources'
  <1> InFights \subseteq Fights
    BY ListedAreFights
  <1> USE DEF ReportInv, ReportTypeOK, Use, Known, ObjectOf
  <1>1. \A f \in Fights : Resolved(f) \in Nat
    BY ResolvedFits
  <1>2. source' \in [Fights -> Nat] /\ given' \subseteq InFights /\ summary \subseteq summary'
    BY <1>1
  <1>3. \A o \in summary' : o \in summary \/ \E f \in Known(has) : o = <<f, Listed(f)>>
    OBVIOUS
  <1>4. summary' \subseteq {<<f, Listed(f)>> : f \in InFights}
    BY <1>3
  <1>5. \A f \in Fights : source'[f] \in {0, Resolved(f)}
    BY DEF Sources
  <1>6. ASSUME NEW o \in summary' PROVE source'[o[1]] # 0
    <2>1. CASE o \in summary
      <3>1. o[1] \in Fights /\ source[o[1]] # 0
        BY <2>1 DEF Sources
      <3> QED
        BY <3>1
    <2>2. CASE o \notin summary
      <3>1. o[1] \in Known(has)
        BY <1>3, <2>2
      <3> QED
        BY <3>1
    <2> QED
      BY <2>1, <2>2
  <1>7. ASSUME NEW f \in given', Resolved(f) # 0 PROVE <<f, Listed(f)>> \in summary'
    <2>1. CASE f \in given
      BY <1>2, <1>7, <2>1 DEF Sources
    <2>2. CASE f \notin given
      BY <1>7, <2>2
    <2> QED
      BY <2>1, <2>2
  <1> HIDE DEF Use, Known, ObjectOf, ReportInv, ReportTypeOK
  <1> QED
    BY <1>2, <1>4, <1>5, <1>6, <1>7, SameAnswers DEF Sources

\* The fights that an answer has with their players.
LEMMA AnswerHas ==
    ASSUME NEW r, FightsAnswered(r)
    PROVE  \E has \in SUBSET {f \in InFights : ReportOf[f] = r} :
             /\ Use(has)
             /\ cache' \in {cache, {c \in cache : c.key # Key(r)}
                                      \cup {[key |-> Key(r), has |-> has]}}
  <1>1. PICK fights \in SUBSET {f \in InFights : ReportOf[f] = r}, actors \in BOOLEAN :
           LET has == IF actors THEN fights ELSE {}
           IN  /\ Use(has)
               /\ cache' \in {cache, {c \in cache : c.key # Key(r)}
                                        \cup {[key |-> Key(r), has |-> has]}}
    BY DEF FightsAnswered
  <1> DEFINE has == IF actors THEN fights ELSE {}
  <1>2. has \in SUBSET {f \in InFights : ReportOf[f] = r}
    OBVIOUS
  <1> HIDE DEF has
  <1> QED
    BY <1>1, <1>2 DEF has

\* Answers, from the cache and from FFLogs.
LEMMA AnswerStep ==
    ASSUME ReportInv, Replay \/ \E r \in Reports : FightsAnswered(r) PROVE ReportInv'
  <1>1. PICK has \in SUBSET InFights : Use(has)
    <2>1. CASE Replay
      <3>1. PICK found \in SUBSET {c \in cache : \E r \in openReports : c.key = Key(r)} :
              Use(UNION {c.has : c \in found})
        BY <2>1 DEF Replay
      <3>2. ASSUME NEW c \in found PROVE c.has \subseteq InFights
        <4>1. PICK r \in openReports : c.key = Key(r)
          OBVIOUS
        <4>2. DOMAIN c.key[2] \subseteq InFights
          BY <4>1 DEF Key
        <4> QED
          BY <4>2 DEF ReportInv, ReportTypeOK
      <3> QED
        BY <3>1, <3>2
    <2>2. ASSUME NEW r \in Reports, FightsAnswered(r) PROVE \E has \in SUBSET InFights : Use(has)
      BY <2>2, AnswerHas
    <2> QED
      BY <2>1, <2>2
  <1>2. /\ UNCHANGED <<world, char, charState, openEvents, fetched, finished, stat>>
        /\ pc \in {"replay", "fights"} /\ pc' = "fights" /\ openReports' \subseteq openReports
    BY DEF Replay, FightsAnswered
  <1>3. \A c \in cache' : c.has \subseteq DOMAIN c.key[2]
    <2>1. CASE Replay
      BY <2>1 DEF Replay, ReportInv, ReportTypeOK
    <2>2. ASSUME NEW r \in Reports, FightsAnswered(r)
          PROVE  \A c \in cache' : c.has \subseteq DOMAIN c.key[2]
      <3>1. PICK new \in SUBSET {f \in InFights : ReportOf[f] = r} :
              cache' \in {cache, {c \in cache : c.key # Key(r)}
                                    \cup {[key |-> Key(r), has |-> new]}}
        BY <2>2, AnswerHas
      <3>2. new \subseteq DOMAIN Key(r)[2]
        BY DEF Key
      <3> HIDE DEF FightsAnswered
      <3> QED
        BY <3>1, <3>2 DEF ReportInv, ReportTypeOK
    <2> QED
      BY <2>1, <2>2
  <1>4. /\ source' \in [Fights -> Nat] /\ given' \subseteq InFights
        /\ summary' \subseteq {<<f, Listed(f)>> : f \in InFights}
        /\ summary \subseteq summary' /\ Sources'
    BY <1>1, <1>2, UseKeeps
  <1>5. summary' \subseteq {<<f, Listed(f)>> : f \in InFights}'
    BY <1>2, <1>4 DEF Listed, InFights
  <1>6. ReportTypeOK'
    BY <1>2, <1>3, <1>4, <1>5, SameAnswers DEF ReportInv, ReportTypeOK
  <1>7. FetchedOncePerFight'
    BY <1>2 DEF ReportInv, FetchedOncePerFight
  <1> QED
    BY <1>4, <1>6, <1>7 DEF ReportInv

\* Steps that leave the fights alone.
LEMMA OtherStep ==
    ASSUME ReportInv,
           \/ RankingsFail \/ NoRankings \/ Rankings
           \/ (\E r \in Reports : FightsNull(r)) \/ FightsFail \/ FightsDone
           \/ EventsFail \/ EventsDone \/ Build \/ Crash
           \/ UNCHANGED rvars
    PROVE  ReportInv'
  <1> USE DEF RankingsFail, NoRankings, Rankings, FightsNull, FightsFail, FightsDone, EventsFail,
              EventsDone, Build, Crash, rvars, inst
  <1>1. /\ UNCHANGED <<world, char, cache, source, summary, fetched, finished, given>>
        /\ pc' \in {"build", "failed", "replay", "fights", "events", "done", "crashed"} \cup {pc}
    OBVIOUS
  <1>2. charState' \in {"invalid", "notfound", "hidden", "nolog", "normal"}
    BY DEF ReportInv, ReportTypeOK
  <1>3. openReports' \subseteq Reports
    <2>1. ReportOf \in [Fights -> Reports]
      BY ReportAssumption
    <2>2. Healed \subseteq Fights /\ InFights \subseteq Fights
      BY WorldAssumption DEF ReportInv, ReportTypeOK, InFights, Healed
    <2>3. openReports \subseteq Reports
      BY DEF ReportInv, ReportTypeOK
    <2> QED
      BY <2>1, <2>2, <2>3
  <1>4. openEvents' \in {openEvents, summary}
    OBVIOUS
  <1>5. pc' \in {"rankings", "replay", "fights"} => pc \in {"rankings", "replay", "fights"}
    OBVIOUS
  <1>6. openEvents' # openEvents => pc = "fights"
    OBVIOUS
  <1>7. ReportTypeOK'
    <2>1. {<<f, Listed(f)>> : f \in InFights}' = {<<f, Listed(f)>> : f \in InFights}
      BY <1>1 DEF Listed, InFights
    <2> HIDE DEF RankingsFail, NoRankings, Rankings, FightsNull, FightsFail, FightsDone,
                 EventsFail, EventsDone, Build, Crash, rvars, inst
    <2> QED
      BY <1>1, <1>2, <1>3, <1>4, <2>1, SameAnswers DEF ReportInv, ReportTypeOK
  <1> HIDE DEF RankingsFail, NoRankings, Rankings, FightsNull, FightsFail, FightsDone,
               EventsFail, EventsDone, Build, Crash, rvars, inst
  <1>8. Sources'
    BY <1>1, SameAnswers, ListedAreFights DEF ReportInv, ReportTypeOK, Sources
  <1>9. FetchedOncePerFight'
    <2>1. pc = "fights" => finished = {}
      BY DEF ReportInv, FetchedOncePerFight
    <2> QED
      BY <1>1, <1>4, <1>5, <1>6, <2>1 DEF ReportInv, FetchedOncePerFight
  <1> QED
    BY <1>7, <1>8, <1>9 DEF ReportInv

\* The events of a fight, or none.
LEMMA EventsStep ==
    ASSUME ReportInv, NEW o \in openEvents, Events(o) \/ EventsNull(o) PROVE ReportInv'
  <1> USE DEF Events, EventsNull
  <1>1. /\ UNCHANGED <<world, char, cache, pc, charState, openReports, source, summary, given>>
        /\ pc = "events" /\ openEvents' = openEvents \ {o}
    OBVIOUS
  <1>2. PICK g \in InFights : o = <<g, Listed(g)>>
    BY DEF ReportInv, ReportTypeOK
  <1>3. g \notin finished /\ fetched[g] = 0
    BY <1>2, ListedAreFights DEF ReportInv, FetchedOncePerFight
  <1>4. \/ fetched' = [fetched EXCEPT ![g] = 1] /\ finished' = finished \cup {g}
        \/ fetched' = fetched /\ finished' = finished
    BY <1>2, <1>3 DEF ReportInv, ReportTypeOK
  <1>5. \A p \in openEvents' : p[1] # g
    BY <1>1, <1>2 DEF ReportInv, ReportTypeOK
  <1> HIDE DEF Events, EventsNull
  <1>6. ReportTypeOK'
    <2>1. {<<f, Listed(f)>> : f \in InFights}' = {<<f, Listed(f)>> : f \in InFights}
      BY <1>1 DEF Listed, InFights
    <2>2. fetched' \in [Fights -> Nat] /\ finished' \subseteq InFights
      BY <1>4 DEF ReportInv, ReportTypeOK
    <2> QED
      BY <1>1, <2>1, <2>2, SameAnswers DEF ReportInv, ReportTypeOK
  <1>7. Sources'
    BY <1>1, SameAnswers, ListedAreFights DEF ReportInv, ReportTypeOK, Sources
  <1>8. FetchedOncePerFight'
    BY <1>1, <1>3, <1>4, <1>5 DEF ReportInv, ReportTypeOK, FetchedOncePerFight
  <1> QED
    BY <1>6, <1>7, <1>8 DEF ReportInv

LEMMA ReportStep == ReportInv /\ [RNext]_rvars => ReportInv'
  BY StartStep, AnswerStep, OtherStep, EventsStep DEF RNext

-----------------------------------------------------------------------------
(* What follows for the player of a fight. *)

\* The inductive invariant holds in every reachable state.
THEOREM ReportInvariance == RSpec => []ReportInv
  BY ReportStart, ReportStep, PTL DEF RSpec

\* A player with the name comes first, then one with the job, for any parties.
THEOREM ChosenByName == RSpec => []NamedPlayerFirst
  <1>1. ReportInv => NamedPlayerFirst
    <2> SUFFICES ASSUME ReportInv PROVE NamedPlayerFirst
      OBVIOUS
    <2>1. ASSUME NEW f \in Fights, source[f] # 0
          PROVE  IF Named(f) # {} THEN source[f] \in Named(f) ELSE source[f] \in OfJob(f)
      BY <2>1, ResolvedFits DEF ReportInv, ReportTypeOK, Sources, Fits
    <2>2. ASSUME NEW f \in given, Named(f) # {} \/ Cardinality(OfJob(f)) = 1
          PROVE  \E o \in summary : o[1] = f
      <3>1. Resolved(f) # 0
        BY <2>2, ResolvedFits, ListedAreFights DEF ReportInv, ReportTypeOK, FitsNobody
      <3> QED
        BY <2>2, <3>1 DEF ReportInv, Sources
    <2> QED
      BY <2>1, <2>2 DEF NamedPlayerFirst, ReportInv, Sources
  <1> QED
    BY <1>1, ReportInvariance, PTL

-----------------------------------------------------------------------------
(* How many potions a log has. *)

Counted(acc, buff) ==
    IF acc.next > 0 /\ DrunkAt(buff) < acc.next THEN acc
      ELSE [used |-> acc.used + 1, next |-> DrunkAt(buff) + Cooldown[Potion]]

BuffLoop(iter, buffs, n) ==
    /\ iter[1 .. 0] = [used |-> 0, next |-> 0]
    /\ \A k \in 1 .. n : iter[1 .. k] = Counted(iter[1 .. k - 1], buffs[k])

\* Potions is what a loop over the buff events computes.
LEMMA PotionsLoop ==
    ASSUME NEW n \in Nat, NEW buffs \in [1 .. n -> [at : Nat, removed : BOOLEAN]]
    PROVE  \E iter : Potions(buffs) = iter[1 .. n].used /\ BuffLoop(iter, buffs, n)
  <1> DEFINE A == [used : Nat, next : Int]
             G == [x \in (1 .. n) \X A |-> Counted(x[2], buffs[x[1]])]
             zero == [used |-> 0, next |-> 0]
             Loop(iter) ==
               iter = [s \in SUBSET DOMAIN buffs |->
                         IF s = {} THEN zero
                           ELSE IF iter[s \ {Max(s)}].next > 0
                                     /\ DrunkAt(buffs[Max(s)]) < iter[s \ {Max(s)}].next
                                  THEN iter[s \ {Max(s)}]
                                  ELSE [used |-> iter[s \ {Max(s)}].used + 1,
                                        next |-> DrunkAt(buffs[Max(s)]) + Cooldown[Potion]]]
  <1>1. DOMAIN buffs = 1 .. n
    OBVIOUS
  <1>2. \E f : Loop(f)
    <2>1. ASSUME NEW k \in 1 .. n, NEW a \in A PROVE Counted(a, buffs[k]) \in A
      <3>1. DrunkAt(buffs[k]) \in Int
        BY ReportAssumption DEF DrunkAt
      <3>2. Cooldown[Potion] \in Int
        BY ReportAssumption
      <3> QED
        BY <3>1, <3>2 DEF Counted
    <2>2. G \in [(1 .. n) \X A -> A] /\ zero \in A
      BY <2>1
    <2>3. PICK f \in [SUBSET (1 .. n) -> A] : IsFold(f, 1 .. n, zero, LastIn(n), G)
      BY <2>2, LoopExists
    <2>4. ASSUME NEW s \in SUBSET (1 .. n), s # {}
          PROVE  G[<<LastIn(n)[s], f[s \ {LastIn(n)[s]}]>>]
                   = Counted(f[s \ {Max(s)}], buffs[Max(s)])
      <3>1. Max(s) \in 1 .. n /\ s \ {Max(s)} \in SUBSET (1 .. n)
        BY <2>4, MaxIsLast
      <3> QED
        BY <3>1 DEF LastIn
    <2> HIDE DEF G, zero
    <2>5. Loop(f)
      BY <1>1, <2>3, <2>4 DEF IsFold, Counted
    <2> QED
      BY <2>5
  <1>3. PICK iter : Loop(iter) /\ Potions(buffs) = iter[DOMAIN buffs].used
    BY <1>2 DEF Potions, FoldLeft, MapThenFoldSet
  <1>4. iter[1 .. 0] = zero
    <2>1. 1 .. 0 = {} /\ {} \in SUBSET DOMAIN buffs
      OBVIOUS
    <2> QED
      BY <1>3, <2>1
  <1>5. ASSUME NEW k \in 1 .. n PROVE iter[1 .. k] = Counted(iter[1 .. k - 1], buffs[k])
    <2> DEFINE t == 1 .. k
    <2>1. t \in SUBSET DOMAIN buffs /\ t # {} /\ Max(t) = k /\ t \ {k} = 1 .. k - 1
      BY Turns
    <2> HIDE DEF t
    <2>2. iter[t] = Counted(iter[t \ {Max(t)}], buffs[Max(t)])
      BY <1>3, <2>1 DEF Counted
    <2> QED
      BY <2>1, <2>2 DEF t
  <1> QED
    BY <1>3, <1>4, <1>5 DEF BuffLoop

\* What an event says of the potion it belongs to, and what the loop knows after it.
Stands(buff, drunk) ==
    /\ drunk \in Int /\ DrunkAt(buff) \in Int
    /\ -PotionBuffTime <= DrunkAt(buff)
    /\ DrunkAt(buff) <= drunk /\ drunk - PotionBuffTime <= DrunkAt(buff)
After(acc, number, drunk) ==
    /\ acc.used = number /\ acc.next \in Int /\ acc.next > 0
    /\ acc.next <= drunk + Cooldown[Potion]
    /\ drunk - PotionBuffTime + Cooldown[Potion] <= acc.next

LEMMA Times ==
    /\ Cooldown[Potion] \in Nat /\ PotionBuffTime \in Nat
    /\ PotionBuffTime < Cooldown[Potion]
  BY ReportAssumption

LEMMA FirstEvent ==
    ASSUME NEW buff, NEW drunk, Stands(buff, drunk)
    PROVE  After(Counted([used |-> 0, next |-> 0], buff), 1, drunk)
  <1>1. Counted([used |-> 0, next |-> 0], buff)
          = [used |-> 1, next |-> DrunkAt(buff) + Cooldown[Potion]]
    BY DEF Counted
  <1> QED
    BY <1>1, Times DEF Stands, After

LEMMA SamePotion ==
    ASSUME NEW acc, NEW buff, NEW number, NEW drunk, After(acc, number, drunk), Stands(buff, drunk)
    PROVE  Counted(acc, buff) = acc
  BY Times DEF Stands, After, Counted

LEMMA NextPotion ==
    ASSUME NEW acc, NEW buff, NEW number \in Nat, NEW drunk, NEW again,
           After(acc, number, drunk), Stands(buff, again),
           drunk \in Int, drunk + Cooldown[Potion] <= again, DrunkAt(buff) = again
    PROVE  After(Counted(acc, buff), number + 1, again)
  <1>1. ~(DrunkAt(buff) < acc.next) /\ again > 0
    BY Times DEF Stands, After
  <1>2. Counted(acc, buff) = [used |-> number + 1, next |-> again + Cooldown[Potion]]
    BY <1>1 DEF Counted, After
  <1> QED
    BY <1>1, <1>2, Times DEF Stands, After

\* A map onto 1 .. m that never decreases takes one step at a time.
OneByOne(f, n, m) ==
    /\ n = 0 => m = 0
    /\ n > 0 => f[1] = 1 /\ f[n] = m
    /\ \A k \in 2 .. n : f[k] = f[k - 1] \/ f[k] = f[k - 1] + 1

LEMMA NoGaps ==
    ASSUME NEW n \in Nat, NEW m \in Nat, NEW f \in [1 .. n -> 1 .. m],
           \A d \in 1 .. m : \E i \in 1 .. n : f[i] = d,
           \A i, j \in 1 .. n : i <= j => f[i] <= f[j]
    PROVE  OneByOne(f, n, m)
  <1>1. ASSUME n = 0 PROVE m = 0
    <2> SUFFICES ASSUME m # 0 PROVE FALSE
      OBVIOUS
    <2>1. 1 \in 1 .. m
      OBVIOUS
    <2> QED
      BY <1>1, <2>1
  <1>2. ASSUME n > 0 PROVE f[1] = 1 /\ f[n] = m
    <2>1. 1 \in 1 .. n /\ n \in 1 .. n /\ f[1] \in 1 .. m /\ f[n] \in 1 .. m
      BY <1>2
    <2>2. PICK i \in 1 .. n : f[i] = 1
      BY <2>1
    <2>3. PICK j \in 1 .. n : f[j] = m
      BY <2>1
    <2>4. f[1] <= f[i] /\ f[j] <= f[n]
      BY <2>1
    <2> QED
      BY <2>1, <2>2, <2>3, <2>4
  <1>3. ASSUME NEW k \in 2 .. n, f[k] # f[k - 1], f[k] # f[k - 1] + 1 PROVE FALSE
    <2>1. k - 1 \in 1 .. n /\ k \in 1 .. n
      OBVIOUS
    <2>2. f[k - 1] <= f[k] /\ f[k] \in 1 .. m /\ f[k - 1] \in 1 .. m
      BY <2>1
    <2>3. f[k - 1] + 1 \in 1 .. m /\ f[k - 1] + 1 < f[k]
      BY <1>3, <2>2
    <2>4. PICK i \in 1 .. n : f[i] = f[k - 1] + 1
      BY <2>3
    <2>5. i <= k - 1 \/ k <= i
      OBVIOUS
    <2>6. f[i] <= f[k - 1] \/ f[k] <= f[i]
      BY <2>1, <2>5
    <2> QED
      BY <2>2, <2>3, <2>4, <2>6
  <1> QED
    BY <1>1, <1>2, <1>3 DEF OneByOne

\* A potion is counted by its first buff event and by no other.
LEMMA PotionsAreDrinks ==
    ASSUME NEW drinks \in Seq(Int), NEW buffs \in Seq([at : Nat, removed : BOOLEAN]),
           Spaced(drinks), Shows(drinks, buffs)
    PROVE  Potions(buffs) = Len(drinks)
  <1> DEFINE n == Len(buffs)
             m == Len(drinks)
  <1> n \in Nat /\ m \in Nat
    OBVIOUS
  <1>1. DOMAIN buffs = 1 .. n /\ buffs \in [1 .. n -> [at : Nat, removed : BOOLEAN]]
    <2> DEFINE S == [at : Nat, removed : BOOLEAN]
    <2>1. buffs \in Seq(S)
      OBVIOUS
    <2> HIDE DEF S
    <2>2. DOMAIN buffs = 1 .. n /\ buffs \in [1 .. n -> S]
      BY <2>1
    <2> QED
      BY <2>2 DEF S
  <1>2. DOMAIN drinks = 1 .. m /\ \A d \in 1 .. m : drinks[d] \in Int
    OBVIOUS
  <1> HIDE DEF n, m
  <1>3. PICK iter : Potions(buffs) = iter[1 .. n].used /\ BuffLoop(iter, buffs, n)
    BY <1>1, PotionsLoop
  <1>4. PICK drinkOf \in [DOMAIN buffs -> DOMAIN drinks] :
          /\ \A d \in DOMAIN drinks : \E i \in DOMAIN buffs : drinkOf[i] = d
          /\ \A i, j \in DOMAIN buffs : i <= j => drinkOf[i] <= drinkOf[j]
          /\ \A i \in DOMAIN buffs :
               LET drunk == drinks[drinkOf[i]]
               IN /\ drunk <= buffs[i].at /\ buffs[i].at <= drunk + PotionBuffTime
                  /\ ~buffs[i].removed => buffs[i].at = drunk
                  /\ drunk >= 0 /\ (i > 1 => drinkOf[i - 1] # drinkOf[i]) => ~buffs[i].removed
    BY DEF Shows
  <1>5. OneByOne(drinkOf, n, m)
    <2>1. drinkOf \in [1 .. n -> 1 .. m]
      BY <1>1, <1>2
    <2>2. \A d \in 1 .. m : \E i \in 1 .. n : drinkOf[i] = d
      BY <1>1, <1>2, <1>4
    <2>3. \A i, j \in 1 .. n : i <= j => drinkOf[i] <= drinkOf[j]
      BY <1>1, <1>4
    <2> QED
      BY <2>1, <2>2, <2>3, NoGaps
  <1> DEFINE drunk(i) == drinks[drinkOf[i]]
  \* The time that an event stands for is at most the buff's time before the potion.
  <1>6. ASSUME NEW i \in 1 .. n
        PROVE  /\ drinkOf[i] \in 1 .. m /\ Stands(buffs[i], drunk(i))
               /\ -PotionBuffTime <= drunk(i)
               /\ drunk(i) >= 0 /\ (i > 1 => drinkOf[i - 1] # drinkOf[i])
                    => DrunkAt(buffs[i]) = drunk(i)
    <2>1. drinkOf[i] \in 1 .. m /\ drunk(i) \in Int /\ buffs[i].at \in Nat
      BY <1>1, <1>2, <1>4
    <2>2. drunk(i) <= buffs[i].at /\ buffs[i].at <= drunk(i) + PotionBuffTime
      BY <1>1, <1>4
    <2>3. /\ ~buffs[i].removed => buffs[i].at = drunk(i)
          /\ drunk(i) >= 0 /\ (i > 1 => drinkOf[i - 1] # drinkOf[i]) => ~buffs[i].removed
      BY <1>1, <1>4
    <2> HIDE DEF drunk
    <2>4. CASE buffs[i].removed
      <3>1. DrunkAt(buffs[i]) = buffs[i].at - PotionBuffTime
        BY <2>4 DEF DrunkAt
      <3>2. /\ DrunkAt(buffs[i]) \in Int /\ -PotionBuffTime <= DrunkAt(buffs[i])
            /\ DrunkAt(buffs[i]) <= drunk(i) /\ drunk(i) - PotionBuffTime <= DrunkAt(buffs[i])
        <4>1. DrunkAt(buffs[i]) \in Int
          BY <2>1, <3>1, Times
        <4>2. -PotionBuffTime <= DrunkAt(buffs[i])
          BY <2>1, <3>1, Times
        <4>3. DrunkAt(buffs[i]) <= drunk(i)
          BY <2>1, <2>2, <3>1, Times
        <4>4. drunk(i) - PotionBuffTime <= DrunkAt(buffs[i])
          BY <2>1, <2>2, <3>1, Times
        <4> QED
          BY <4>1, <4>2, <4>3, <4>4
      <3> QED
        BY <2>1, <2>3, <2>4, <3>2, Times DEF Stands
    <2>5. CASE ~buffs[i].removed
      <3>1. DrunkAt(buffs[i]) = buffs[i].at /\ buffs[i].at = drunk(i)
        BY <2>3, <2>5 DEF DrunkAt
      <3>2. Stands(buffs[i], drunk(i)) /\ -PotionBuffTime <= drunk(i)
        BY <2>1, <3>1, Times DEF Stands
      <3> QED
        BY <2>1, <3>1, <3>2
    <2> QED
      BY <2>4, <2>5
  <1> DEFINE Q == {k \in 0 .. n : k > 0 => After(iter[1 .. k], drinkOf[k], drunk(k))}
  <1>7. ASSUME NEW k \in 1 .. n, k - 1 \in Q PROVE k \in Q
    <2>1. iter[1 .. k] = Counted(iter[1 .. k - 1], buffs[k])
      BY <1>3 DEF BuffLoop
    <2>2. CASE k = 1
      <3>1. iter[1 .. k - 1] = [used |-> 0, next |-> 0]
        BY <1>3, <2>2 DEF BuffLoop
      <3>2. drinkOf[k] = 1
        BY <1>5, <2>2 DEF OneByOne
      <3> HIDE DEF drunk
      <3> QED
        BY <1>6, <2>1, <3>1, <3>2, FirstEvent
    <2>3. CASE k > 1
      <3>1. k - 1 \in 1 .. n /\ After(iter[1 .. k - 1], drinkOf[k - 1], drunk(k - 1))
        BY <1>7, <2>3
      <3>2. CASE drinkOf[k] = drinkOf[k - 1]
        <4>1. drunk(k) = drunk(k - 1) /\ Stands(buffs[k], drunk(k))
          BY <1>6, <3>2
        <4> HIDE DEF drunk
        <4>2. iter[1 .. k] = iter[1 .. k - 1]
          BY <2>1, <3>1, <4>1, SamePotion
        <4> QED
          BY <3>1, <3>2, <4>1, <4>2
      <3>3. CASE drinkOf[k] = drinkOf[k - 1] + 1
        <4>1. drinkOf[k] \in 1 .. m /\ drinkOf[k - 1] \in 1 .. m
          BY <1>6, <3>1
        <4>2. /\ drinks[drinkOf[k]] >= drinks[drinkOf[k] - 1] + Cooldown[Potion]
              /\ drinkOf[k] - 1 = drinkOf[k - 1]
          <5>1. drinkOf[k] \in DOMAIN drinks /\ drinkOf[k] > 1 /\ drinkOf[k] - 1 = drinkOf[k - 1]
            BY <1>2, <3>3, <4>1
          <5> QED
            BY <5>1 DEF Spaced
        <4>3. /\ drunk(k - 1) + Cooldown[Potion] <= drunk(k)
              /\ drunk(k) \in Int /\ drunk(k - 1) \in Int
          BY <1>2, <4>1, <4>2, Times
        <4>4. drinkOf[k - 1] # drinkOf[k] /\ drinkOf[k - 1] \in Nat
          BY <3>3, <4>1
        <4> HIDE DEF drunk
        <4>5. -PotionBuffTime <= drunk(k - 1) /\ Stands(buffs[k], drunk(k))
          BY <1>6, <3>1
        <4>6. drunk(k) >= 0
          BY <4>3, <4>5, Times
        <4>7. DrunkAt(buffs[k]) = drunk(k)
          BY <1>6, <4>4, <4>6
        <4> QED
          BY <2>1, <3>1, <3>3, <4>3, <4>4, <4>5, <4>7, NextPotion
      <3>4. k \in 2 .. n
        BY <2>3
      <3> QED
        BY <1>5, <3>2, <3>3, <3>4 DEF OneByOne
    <2> QED
      BY <2>2, <2>3
  <1>8. n \in Q
    <2> HIDE DEF Q
    <2>1. Q \in SUBSET Nat /\ 0 \in Q
      BY <1>1 DEF Q
    <2> QED
      BY <1>1, <1>7, <2>1, LoopInduction
  <1>9. CASE n = 0
    BY <1>3, <1>5, <1>9 DEF BuffLoop, OneByOne, m
  <1>10. CASE n > 0
    BY <1>3, <1>5, <1>8, <1>10 DEF After, OneByOne, m
  <1> QED
    BY <1>1, <1>9, <1>10

LEMMA UsedIsTrue ==
    ASSUME ReportInv, NEW f \in finished, NEW s \in Skills
    PROVE  Used(f, s) = TrueUse(f, s) /\ TrueUse(f, s) \in Nat
  <1> DEFINE log == world.log[f]
  <1>1. f \in Fights /\ world \in Worlds /\ fetched[f] = 1
    BY ListedAreFights DEF ReportInv, ReportTypeOK, FetchedOncePerFight
  <1>2. log \in {w.log[g] : w \in Worlds, g \in Fights}
    BY <1>1
  <1> HIDE DEF log
  <1>3. log.casts \in [Skills -> Nat] /\ Potions(log.buffs) = Len(log.drinks)
    BY <1>2, LogAssumption, PotionsAreDrinks
  <1>4. Len(log.drinks) \in Nat
    BY <1>2, LogAssumption
  <1>5. TrueUse(f, s) = (IF s = Potion THEN Len(log.drinks) ELSE log.casts[s])
    BY DEF TrueUse, log
  <1>6. Used(f, s) = 1 * (IF s = Potion THEN Potions(log.buffs) ELSE log.casts[s])
    BY <1>1 DEF Used, log
  <1>7. TrueUse(f, s) \in Nat
    BY <1>3, <1>4, <1>5
  <1>8. Used(f, s) = 1 * TrueUse(f, s)
    BY <1>3, <1>5, <1>6
  <1> QED
    BY <1>7, <1>8

THEOREM UsesCountOnce == RSpec => []UsesAreTrue
  <1>1. ReportInv => UsesAreTrue
    BY UsedIsTrue DEF UsesAreTrue
  <1> QED
    BY <1>1, ReportInvariance, PTL

-----------------------------------------------------------------------------
(* What the scores measure. *)

\* The uses the code asks for, the cooldown that begins the fight counted with what
\* setDefaultCharge adds, and who has as many.
Asked(f, s) ==
    Charges[s] + Cardinality({t \in 0 .. world.log[f].length - 1 : t % Cooldown[s] = 0})
Meets(f, s) ==
    LET together == IF s \in SharedBy[Job(f)] THEN SharedBy[Job(f)] ELSE {s}
    IN SumFunction([t \in together |-> TrueUse(f, t)]) >= Asked(f, s)

LEMMA TypesOfFight ==
    ASSUME ReportInv, NEW f \in finished
    PROVE  /\ f \in Fights /\ f \in InFights /\ Job(f) \in Jobs /\ EncOf[f] \in Encounters
           /\ SkillRows[Job(f)] \in Seq(Skills) /\ SharedBy[Job(f)] \subseteq Skills
           /\ world.log[f].length \in Nat \ {0}
  <1>1. f \in Fights /\ f \in InFights /\ world \in Worlds /\ char \in Names
    BY ListedAreFights DEF ReportInv, ReportTypeOK
  <1>2. Job(f) \in Jobs
    BY <1>1, WorldAssumption DEF Job
  <1>3. world.log[f].length \in Nat \ {0}
    <2>1. world.log[f] \in {w.log[g] : w \in Worlds, g \in Fights}
      BY <1>1
    <2> QED
      BY <2>1, LogAssumption
  <1> QED
    BY <1>1, <1>2, <1>3, ReportAssumption

\* A skill has its full quota exactly when it was used as often as is asked for.
LEMMA QuotaMeasures ==
    ASSUME ReportInv, NEW f \in finished, NEW s \in Skills
    PROVE  Quota(f, s) \in 0 .. 100 /\ (Quota(f, s) = 100 <=> Meets(f, s))
  <1> DEFINE shared == SharedBy[Job(f)]
             together == IF s \in shared THEN shared ELSE {s}
             use == SumFunction([t \in together |-> TrueUse(f, t)])
             u == UsedForPercent(f, s)
             m == MaxForPercent(f, s)
  <1>1. shared \subseteq Skills /\ together \subseteq Skills
    BY TypesOfFight
  <1>2. \A t \in Skills : Used(f, t) = TrueUse(f, t) /\ TrueUse(f, t) \in Nat
    BY UsedIsTrue
  <1>3. use \in Nat
    <2>1. [t \in together |-> TrueUse(f, t)] \in [together -> Nat]
      BY <1>1, <1>2
    <2>2. IsFiniteSet(together)
      BY <1>1, ReportAssumption, FS_Subset
    <2> HIDE DEF together
    <2> QED
      BY <2>1, <2>2, SumIsNat
  <1>4. u = use
    <2>1. CASE s \in shared
      <3>1. [t \in shared |-> Used(f, t)] = [t \in shared |-> TrueUse(f, t)]
        BY <1>1, <1>2
      <3> QED
        BY <2>1, <3>1 DEF UsedForPercent
    <2>2. CASE s \notin shared
      <3>1. u = TrueUse(f, s)
        BY <1>2, <2>2 DEF UsedForPercent
      <3>2. SumFunction([t \in {s} |-> TrueUse(f, t)]) = TrueUse(f, s)
        BY <1>2, SumOfOne
      <3> QED
        BY <2>2, <3>1, <3>2
    <2> QED
      BY <2>1, <2>2
  <1>5. m \in Nat \ {0} /\ m = Asked(f, s)
    <2> DEFINE a == world.log[f].length
               c == Cooldown[s]
    <2>1. a \in Nat \ {0} /\ c \in Nat \ {0} /\ Charges[s] \in Nat
      BY TypesOfFight, ReportAssumption
    <2> HIDE DEF a, c
    <2>2. (a + c - 1) \div c \in Nat \ {0}
      <3>1. a + c - 1 \in Nat /\ a + c - 1 >= c
        BY <2>1
      <3> DEFINE q == (a + c - 1) \div c
      <3>2. q \in Nat /\ a + c - 1 < c * q + c
        BY <2>1, <3>1, Quotient
      <3> HIDE DEF q
      <3>3. q # 0
        <4> SUFFICES ASSUME q = 0 PROVE FALSE
          OBVIOUS
        <4>1. c * q = 0
          BY <2>1
        <4> QED
          BY <2>1, <3>1, <3>2, <4>1
      <3> QED
        BY <3>2, <3>3 DEF q
    <2>3. Cardinality({t \in 0 .. a - 1 : t % c = 0}) = (a + c - 1) \div c
      BY <2>1, MultiplesBelow
    <2>4. m = Charges[s] + ((a + c - 1) \div c)
      BY DEF MaxForPercent, a, c
    <2>5. Asked(f, s) = Charges[s] + Cardinality({t \in 0 .. a - 1 : t % c = 0})
      BY DEF Asked, a, c
    <2> DEFINE q == (a + c - 1) \div c
    <2> HIDE DEF q, m
    <2>6. q \in Nat \ {0} /\ m = Charges[s] + q /\ Asked(f, s) = Charges[s] + q
      BY <2>2, <2>3, <2>4, <2>5 DEF q
    <2> QED
      BY <2>1, <2>6
  <1>6. Meets(f, s) <=> use >= Asked(f, s)
    BY DEF Meets
  <1>7. Quota(f, s) = Min({100, (100 * u) \div m})
    BY DEF Quota
  <1> HIDE DEF use, u, m
  <1>8. (100 * u) \div m \in Nat /\ ((100 * u) \div m >= 100 <=> u >= m)
    BY <1>3, <1>4, <1>5, FullQuotient
  <1> DEFINE q == (100 * u) \div m
  <1> HIDE DEF q
  <1>9. q \in Nat /\ (q >= 100 <=> u >= m)
    BY <1>8 DEF q
  <1>10. Min({100, q}) = IF q >= 100 THEN 100 ELSE q
    <2>1. CASE q >= 100
      <3>1. \A x \in {100, q} : (\A y \in {100, q} : x <= y) <=> x = 100
        BY <1>9, <2>1
      <3> QED
        BY <2>1, <3>1 DEF Min
    <2>2. CASE q < 100
      <3>1. \A x \in {100, q} : (\A y \in {100, q} : x <= y) <=> x = q
        BY <1>9, <2>2
      <3> QED
        BY <1>9, <2>2, <3>1 DEF Min
    <2> QED
      BY <1>9, <2>1, <2>2
  <1>11. (Min({100, q}) = 100 <=> u >= m) /\ Min({100, q}) \in 0 .. 100
    BY <1>9, <1>10
  <1> QED
    BY <1>4, <1>5, <1>6, <1>7, <1>11 DEF q

\* That is as often as can be, or more by the charge that a skill is given too many.
LEMMA AskedIsEnough ==
    ASSUME ReportInv, NEW f \in finished, NEW s \in Skills
    PROVE  /\ Meets(f, s) => UsedToTheFull(f, s)
           /\ WellCounted(s) /\ UsedToTheFull(f, s) => Meets(f, s)
  <1> DEFINE a == world.log[f].length
             c == Cooldown[s]
             later == {t \in 1 .. a - 1 : t % c = 0}
             all == {t \in 0 .. a - 1 : t % c = 0}
             together == IF s \in SharedBy[Job(f)] THEN SharedBy[Job(f)] ELSE {s}
             use == SumFunction([t \in together |-> TrueUse(f, t)])
  <1>1. a \in Nat \ {0} /\ c \in Nat \ {0}
    BY TypesOfFight, ReportAssumption
  <1>2. all = later \cup {0} /\ 0 \notin later
    <2> HIDE DEF a, c
    <2>1. 0 % c = 0
      BY <1>1
    <2>2. 0 .. a - 1 = (1 .. a - 1) \cup {0}
      BY <1>1
    <2> QED
      BY <2>1, <2>2
  <1>3. IsFiniteSet(later) /\ Cardinality(later) \in Nat
    <2>1. IsFiniteSet(1 .. a - 1)
      BY <1>1, FS_Interval
    <2> QED
      BY <2>1, FS_Subset, FS_CardinalityType
  <1> HIDE DEF later, all
  <1>4. Cardinality(all) = Cardinality(later) + 1
    BY <1>2, <1>3, FS_AddElement
  <1>5. /\ Charges[s] \in Nat /\ ChargesOf[s] \in Nat /\ Charges[s] + 1 >= ChargesOf[s]
        /\ use \in Nat
    <2>1. IsFiniteSet(together) /\ together \subseteq Skills
      BY TypesOfFight, ReportAssumption, FS_Subset
    <2>2. [t \in together |-> TrueUse(f, t)] \in [together -> Nat]
      BY <2>1, UsedIsTrue
    <2> HIDE DEF together
    <2> QED
      BY <2>1, <2>2, SumIsNat, ReportAssumption
  <1> HIDE DEF use
  <1>6. Meets(f, s) <=> use >= Charges[s] + Cardinality(all)
    BY DEF Meets, Asked, use, all
  <1>7. UsedToTheFull(f, s) <=> use >= ChargesOf[s] + Cardinality(later)
    BY DEF UsedToTheFull, Permitted, use, later
  <1>8. WellCounted(s) <=> Charges[s] + 1 = ChargesOf[s]
    BY DEF WellCounted
  <1> QED
    BY <1>3, <1>4, <1>5, <1>6, <1>7, <1>8

Full(f) == \A s \in SkillsOf(f) : Meets(f, s)

ScoreLoop(iter, f, n) ==
    /\ iter[1 .. 0] = 0
    /\ \A k \in 1 .. n : iter[1 .. k] = iter[1 .. k - 1] + Quota(f, SkillRows[Job(f)][k])

LEMMA PercentIsNat == \A q \in 0 .. 100 : q \in Nat
  OBVIOUS

\* The score of a fight is what a loop over the rows computes.
LEMMA FightScoreLoop ==
    ASSUME NEW f, NEW n \in Nat, DOMAIN SkillRows[Job(f)] = 1 .. n,
           \A k \in 1 .. n : Quota(f, SkillRows[Job(f)][k]) \in 0 .. 100
    PROVE  \E iter : FightScore(f) = iter[1 .. n] /\ ScoreLoop(iter, f, n)
  <1> DEFINE rows == SkillRows[Job(f)]
             G == [x \in (1 .. n) \X Nat |-> x[2] + Quota(f, rows[x[1]])]
             Loop(iter) ==
               iter = [s \in SUBSET DOMAIN rows |->
                         IF s = {} THEN 0 ELSE iter[s \ {Max(s)}] + Quota(f, rows[Max(s)])]
  <1>1. DOMAIN rows = 1 .. n
    OBVIOUS
  <1>2. \E g : Loop(g)
    <2>1. ASSUME NEW k \in 1 .. n PROVE Quota(f, rows[k]) \in Nat
      <3>1. Quota(f, rows[k]) \in 0 .. 100
        OBVIOUS
      <3> QED
        BY <3>1, PercentIsNat
    <2>2. G \in [(1 .. n) \X Nat -> Nat]
      BY <2>1
    <2>3. PICK g \in [SUBSET (1 .. n) -> Nat] : IsFold(g, 1 .. n, 0, LastIn(n), G)
      BY <2>2, LoopExists
    <2>4. ASSUME NEW s \in SUBSET (1 .. n), s # {}
          PROVE  G[<<LastIn(n)[s], g[s \ {LastIn(n)[s]}]>>]
                   = g[s \ {Max(s)}] + Quota(f, rows[Max(s)])
      <3>1. Max(s) \in 1 .. n /\ s \ {Max(s)} \in SUBSET (1 .. n)
        BY <2>4, MaxIsLast
      <3> QED
        BY <3>1 DEF LastIn
    <2> HIDE DEF G, rows
    <2>5. Loop(g)
      BY <1>1, <2>3, <2>4 DEF IsFold
    <2> QED
      BY <2>5
  <1>3. PICK iter : Loop(iter) /\ FightScore(f) = iter[DOMAIN rows]
    BY <1>2 DEF FightScore, FoldLeft, MapThenFoldSet
  <1>4. iter[1 .. 0] = 0
    <2>1. 1 .. 0 = {} /\ {} \in SUBSET DOMAIN rows
      OBVIOUS
    <2> QED
      BY <1>3, <2>1
  <1>5. ASSUME NEW k \in 1 .. n PROVE iter[1 .. k] = iter[1 .. k - 1] + Quota(f, rows[k])
    <2> DEFINE t == 1 .. k
    <2>1. t \in SUBSET DOMAIN rows /\ t # {} /\ Max(t) = k /\ t \ {k} = 1 .. k - 1
      BY Turns
    <2> HIDE DEF t
    <2>2. iter[t] = iter[t \ {Max(t)}] + Quota(f, rows[Max(t)])
      BY <1>3, <2>1
    <2> QED
      BY <2>1, <2>2 DEF t
  <1> QED
    BY <1>1, <1>3, <1>4, <1>5 DEF ScoreLoop

\* A fight has the full score exactly when all its skills were used to the full.
LEMMA FightScoreMeasures ==
    ASSUME ReportInv, NEW f \in finished
    PROVE  LET count == Len(SkillRows[Job(f)])
           IN /\ count \in Nat /\ FightScore(f) \in Nat /\ FightScore(f) <= 100 * count
              /\ FightScore(f) = 100 * count <=> Full(f)
  <1> DEFINE rows == SkillRows[Job(f)]
             n == Len(rows)
             q(k) == Quota(f, rows[k])
  <1>1. n \in Nat /\ DOMAIN rows = 1 .. n /\ \A k \in 1 .. n : rows[k] \in Skills
    BY TypesOfFight
  <1>2. \A k \in 1 .. n : q(k) \in 0 .. 100 /\ (q(k) = 100 <=> Meets(f, rows[k]))
    BY <1>1, QuotaMeasures
  <1>3. PICK iter : FightScore(f) = iter[1 .. n] /\ ScoreLoop(iter, f, n)
    BY <1>1, <1>2, FightScoreLoop
  <1> DEFINE Q == {k \in Nat : k <= n =>
                     /\ iter[1 .. k] \in Nat /\ iter[1 .. k] <= 100 * k
                     /\ iter[1 .. k] = 100 * k <=> \A i \in 1 .. k : Meets(f, rows[i])}
  <1> HIDE DEF n
  <1>4. 0 \in Q
    BY <1>3 DEF ScoreLoop
  <1>5. ASSUME NEW k \in 1 .. n, k - 1 \in Q PROVE k \in Q
    <2>1. iter[1 .. k] = iter[1 .. k - 1] + q(k)
      BY <1>3 DEF ScoreLoop
    <2> DEFINE a == iter[1 .. k - 1]
               before == \A i \in 1 .. k - 1 : Meets(f, rows[i])
               now == Meets(f, rows[k])
    <2>2. /\ k - 1 \in Nat /\ k \in Nat /\ a \in Nat /\ a <= 100 * (k - 1)
          /\ a = 100 * (k - 1) <=> before
      BY <1>1, <1>5
    <2>3. q(k) \in 0 .. 100 /\ (q(k) = 100 <=> now)
      BY <1>2
    <2>4. (\A i \in 1 .. k : Meets(f, rows[i])) <=> before /\ now
      <3>1. 1 .. k = (1 .. k - 1) \cup {k}
        BY <1>1
      <3> QED
        BY <3>1
    <2> DEFINE b == q(k)
    <2> HIDE DEF a, b, before, now
    <2>5. a + b \in Nat /\ a + b <= 100 * k /\ (a + b = 100 * k <=> a = 100 * (k - 1) /\ b = 100)
      BY <2>2, <2>3 DEF b
    <2>6. iter[1 .. k] = a + b
      BY <2>1 DEF a, b
    <2> QED
      BY <2>2, <2>3, <2>4, <2>5, <2>6 DEF b
  <1>6. n \in Q
    <2> HIDE DEF Q
    <2>1. Q \in SUBSET Nat
      BY DEF Q
    <2> QED
      BY <1>1, <1>4, <1>5, <2>1, LoopInduction
  <1>7. (\A i \in 1 .. n : Meets(f, rows[i])) <=> Full(f)
    BY <1>1 DEF Full, SkillsOf, Range
  <1> QED
    BY <1>1, <1>3, <1>6, <1>7 DEF n

-----------------------------------------------------------------------------
(* The cells of the statistics. *)

Total == [kills : Nat, sum : Nat, count : Nat]
AllCells == {<<"job", All>>, <<"enc", All>>} \cup UNION {Cells(f) : f \in finished}
Tables == UNION {[D -> Total] : D \in SUBSET AllCells}

\* A table of the fights T: a score is at most 100 a row, and that only if each of its
\* fights has the full score.
Scored(c, T) == \A f \in T : c \in ScoreCells(f) => Full(f)
Sound(cell, full) ==
    /\ cell \in Total /\ cell.sum <= 100 * cell.count
    /\ cell.sum = 100 * cell.count <=> full
TableOf(st, T) ==
    /\ \A f \in T : Cells(f) \subseteq DOMAIN st
    /\ \A c \in DOMAIN st : Sound(st[c], Scored(c, T))

\* What a fight adds to a cell.
Adds(old, f) ==
    [kills |-> old.kills + 1, sum |-> old.sum + FightScore(f),
     count |-> old.count + Len(SkillRows[Job(f)])]

LEMMA TablesAre == \A st : st \in Tables <=> \E D \in SUBSET AllCells : st \in [D -> Total]
  BY DEF Tables

LEMMA TallyTable ==
    ASSUME ReportInv, NEW st \in Tables, NEW f \in finished PROVE Tally(st, f) \in Tables
  <1>1. PICK D \in SUBSET AllCells : st \in [D -> Total]
    BY TablesAre
  <1>2. /\ Len(SkillRows[Job(f)]) \in Nat /\ FightScore(f) \in Nat
    BY FightScoreMeasures
  <1>3. D \cup Cells(f) \in SUBSET AllCells
    BY DEF AllCells
  <1>4. Tally(st, f) \in [D \cup Cells(f) -> Total]
    BY <1>1, <1>2 DEF Tally, Total, Empty
  <1> QED
    BY <1>3, <1>4, TablesAre

LEMMA TallyIsSound ==
    ASSUME ReportInv, NEW st \in Tables, NEW f \in finished, NEW T \in SUBSET finished,
           TableOf(st, T)
    PROVE  TableOf(Tally(st, f), T \cup {f})
  <1> DEFINE new == Tally(st, f)
             rows == Len(SkillRows[Job(f)])
             score == FightScore(f)
  <1>1. PICK D \in SUBSET AllCells : st \in [D -> Total]
    BY TablesAre
  <1>2. /\ rows \in Nat /\ score \in Nat /\ score <= 100 * rows
        /\ score = 100 * rows <=> Full(f)
    BY FightScoreMeasures
  <1>3. DOMAIN new = D \cup Cells(f)
    BY <1>1 DEF Tally
  <1>4. \A g \in T \cup {f} : Cells(g) \subseteq DOMAIN new
    BY <1>1, <1>3 DEF TableOf
  <1>5. ASSUME NEW c \in DOMAIN new PROVE Sound(new[c], Scored(c, T \cup {f}))
    <2> DEFINE old == IF c \in D THEN st[c] ELSE Empty
    <2>1. Sound(old, Scored(c, T))
      <3>1. CASE c \in D
        BY <1>1, <3>1 DEF TableOf
      <3>2. CASE c \notin D
        <4>1. \A g \in T : c \notin ScoreCells(g)
          BY <1>1, <3>2 DEF TableOf, ScoreCells
        <4> QED
          BY <3>2, <4>1 DEF Sound, Scored, Empty, Total
      <3> QED
        BY <3>1, <3>2
    <2>2. Scored(c, T \cup {f}) <=> Scored(c, T) /\ (c \in ScoreCells(f) => Full(f))
      BY DEF Scored
    <2>3. CASE c \notin Cells(f)
      <3>1. new[c] = old /\ c \notin ScoreCells(f)
        BY <1>1, <1>3, <2>3 DEF Tally, ScoreCells
      <3> QED
        BY <2>1, <2>2, <3>1 DEF Sound
    <2>4. CASE c \in Cells(f) /\ c \notin ScoreCells(f)
      <3>1. new[c] = [kills |-> old.kills + 1, sum |-> old.sum + 0, count |-> old.count + 0]
        BY <1>1, <2>4 DEF Tally
      <3> HIDE DEF new, old
      <3> QED
        BY <2>1, <2>2, <2>4, <3>1 DEF Sound, Total
    <2>5. CASE c \in Cells(f) /\ c \in ScoreCells(f)
      <3>1. new[c] = [kills |-> old.kills + 1, sum |-> old.sum + score, count |-> old.count + rows]
        BY <1>1, <2>5 DEF Tally
      <3> HIDE DEF new, old, score, rows
      <3>2. /\ old.kills \in Nat /\ old.sum \in Nat /\ old.count \in Nat
            /\ old.sum <= 100 * old.count
            /\ old.sum = 100 * old.count <=> Scored(c, T)
        BY <2>1 DEF Sound, Total
      <3>3. /\ old.sum + score <= 100 * (old.count + rows)
            /\ old.sum + score = 100 * (old.count + rows)
                 <=> old.sum = 100 * old.count /\ score = 100 * rows
        BY <1>2, <3>2
      <3> QED
        BY <1>2, <2>2, <2>5, <3>1, <3>2, <3>3 DEF Sound, Total
    <2> QED
      BY <2>3, <2>4, <2>5
  <1> HIDE DEF new
  <1> QED
    BY <1>4, <1>5 DEF TableOf, new

\* The statistics are a sound table of the finished fights.
LEMMA PreparedIsSound ==
    ASSUME ReportInv PROVE Prepared \in Tables /\ TableOf(Prepared, finished)
  <1> DEFINE G == [x \in finished \X Tables |-> Tally(x[2], x[1])]
             pick == [s \in SUBSET finished |-> OneOf(s)]
             base == [c \in {<<"job", All>>, <<"enc", All>>} |-> Empty]
             Loop(iter) == iter = [s \in SUBSET finished |->
                                     IF s = {} THEN base ELSE Tally(iter[s \ {OneOf(s)}], OneOf(s))]
  <1>1. IsFiniteSet(finished) /\ InFights \cap finished = finished
    BY ReportAssumption, FS_Subset DEF ReportInv, ReportTypeOK, InFights
  <1>2. \A s \in SUBSET finished : s # {} => OneOf(s) \in s
    BY DEF OneOf
  <1>3. base \in Tables
    <2>1. base \in [{<<"job", All>>, <<"enc", All>>} -> Total]
      BY DEF Empty, Total
    <2>2. {<<"job", All>>, <<"enc", All>>} \in SUBSET AllCells
      BY DEF AllCells
    <2> QED
      BY <2>1, <2>2, TablesAre
  <1>4. \E g : Loop(g)
    <2>1. G \in [finished \X Tables -> Tables] /\ \A s \in SUBSET finished : s # {} => pick[s] \in s
      BY <1>2, TallyTable
    <2>2. PICK g \in [SUBSET finished -> Tables] : IsFold(g, finished, base, pick, G)
      BY <1>1, <1>3, <2>1, FoldExists
    <2>3. ASSUME NEW s \in SUBSET finished, s # {}
          PROVE  G[<<pick[s], g[s \ {pick[s]}]>>] = Tally(g[s \ {OneOf(s)}], OneOf(s))
      <3>1. pick[s] = OneOf(s) /\ OneOf(s) \in finished
        BY <1>2, <2>3
      <3> HIDE DEF pick, base
      <3>2. g[s \ {OneOf(s)}] \in Tables
        BY <2>2, <3>1
      <3> QED
        BY <3>1, <3>2
    <2> HIDE DEF G, pick, base
    <2>4. Loop(g)
      BY <2>2, <2>3 DEF IsFold
    <2> QED
      BY <2>4
  <1>5. PICK iter : Loop(iter) /\ Prepared = iter[finished]
    <2>1. Prepared = LET iter[s \in SUBSET finished] ==
                           IF s = {} THEN base ELSE Tally(iter[s \ {OneOf(s)}], OneOf(s))
                     IN  iter[finished]
      BY <1>1 DEF Prepared, FoldSet, MapThenFoldSet, OneOf
    <2> HIDE DEF base
    <2> QED
      BY <1>4, <2>1
  <1> DEFINE Q == {T \in SUBSET finished : iter[T] \in Tables /\ TableOf(iter[T], T)}
  <1>6. ASSUME NEW T \in SUBSET finished, \A x \in T : T \ {x} \in Q PROVE T \in Q
    <2>1. CASE T = {}
      <3>1. iter[T] = base
        BY <1>5, <2>1
      <3>2. \A c \in DOMAIN base : Sound(base[c], Scored(c, T))
        BY <2>1 DEF Sound, Scored, Empty, Total
      <3> HIDE DEF base
      <3>3. TableOf(base, T)
        BY <2>1, <3>2 DEF TableOf
      <3> QED
        BY <1>3, <3>1, <3>3
    <2>2. CASE T # {}
      <3> DEFINE f == OneOf(T)
                 R == T \ {OneOf(T)}
      <3>1. f \in T /\ f \in finished /\ T = R \cup {f} /\ R \in SUBSET finished
        BY <1>2, <2>2
      <3>2. iter[T] = Tally(iter[R], f)
        <4> HIDE DEF base
        <4> QED
          BY <1>5, <2>2
      <3>3. iter[R] \in Tables /\ TableOf(iter[R], R)
        BY <1>6, <3>1
      <3> HIDE DEF f, R
      <3> QED
        BY <3>1, <3>2, <3>3, TallyTable, TallyIsSound
    <2> QED
      BY <2>1, <2>2
  <1> HIDE DEF Q
  <1>7. Q \in SUBSET SUBSET finished
    BY DEF Q
  <1>8. Q = SUBSET finished
    <2>1. IsFiniteSet(finished)
      BY <1>1
    <2>2. \A s \in SUBSET finished : (\A x \in s : s \ {x} \in Q) => s \in Q
      BY <1>6
    <2> HIDE DEF Loop, base, G, pick
    <2> QED
      BY <1>7, <2>1, <2>2, SubsetInduction
  <1> QED
    BY <1>5, <1>8 DEF Q

\* The fights of a cell are those whose score it has.
LEMMA FightsOfCell ==
    ASSUME ReportInv, NEW c \in AllCells
    PROVE  Scored(c, finished) <=> \A f \in FightsIn(c) : Full(f)
  <1>1. All \notin Jobs /\ All \notin Encounters
    BY ReportAssumption
  <1>2. ASSUME NEW f \in finished PROVE f \in FightsIn(c) <=> c \in ScoreCells(f)
    <2>1. Job(f) # All /\ EncOf[f] # All
      BY <1>1, TypesOfFight
    <2>2. c[1] = "job" \/ c[1] = "enc" \/ c[1] = "encjob"
      BY DEF AllCells, Cells
    <2>3. CASE c[1] = "job"
      <3>1. c = <<"job", c[2]>>
        BY <2>3 DEF AllCells, Cells
      <3> QED
        BY <2>1, <2>3, <3>1 DEF FightsIn, ScoreCells, Cells
    <2>4. CASE c[1] = "enc"
      <3>1. c = <<"enc", c[2]>>
        BY <2>4 DEF AllCells, Cells
      <3> QED
        BY <2>1, <2>4, <3>1 DEF FightsIn, ScoreCells, Cells
    <2>5. CASE c[1] = "encjob"
      <3>1. c = <<"encjob", c[2]>>
        BY <2>5 DEF AllCells, Cells
      <3> QED
        BY <2>1, <2>5, <3>1 DEF FightsIn, ScoreCells, Cells
    <2> QED
      BY <2>2, <2>3, <2>4, <2>5
  <1>3. FightsIn(c) \subseteq finished
    BY DEF FightsIn
  <1> QED
    BY <1>2, <1>3 DEF Scored

LEMMA PreparedMeasures ==
    ASSUME ReportInv, NEW c \in DOMAIN Prepared, Prepared[c].count > 0
    PROVE  Prepared[c].sum \div Prepared[c].count = 100 <=> \A f \in FightsIn(c) : Full(f)
  <1> DEFINE sum == Prepared[c].sum
             count == Prepared[c].count
  <1>1. c \in AllCells /\ Sound(Prepared[c], Scored(c, finished))
    <2>1. PICK D \in SUBSET AllCells : Prepared \in [D -> Total]
      BY PreparedIsSound, TablesAre
    <2> QED
      BY <2>1, PreparedIsSound DEF TableOf
  <1>2. /\ sum \in Nat /\ count \in Nat \ {0} /\ sum <= 100 * count
        /\ sum = 100 * count <=> Scored(c, finished)
    BY <1>1 DEF Sound, Total
  <1> HIDE DEF sum, count
  <1>3. sum \div count = 100 <=> sum = 100 * count
    <2>1. (sum \div count) \in Nat /\ count * (sum \div count) <= sum
      BY <1>2, Quotient
    <2>2. sum = 100 * count => sum \div count = 100
      <3>1. 100 * count = count * 100 /\ count * 100 \in Nat
        BY <1>2
      <3>2. (count * 100) < count * 100 + count
        BY <1>2
      <3> QED
        BY <1>2, <3>1, <3>2, IsTheQuotient
    <2>3. sum \div count = 100 => sum = 100 * count
      <3> SUFFICES ASSUME sum \div count = 100 PROVE sum = 100 * count
        OBVIOUS
      <3>1. count * 100 <= sum
        BY <2>1
      <3> QED
        BY <1>2, <3>1
    <2> QED
      BY <2>2, <2>3
  <1>4. Scored(c, finished) <=> \A f \in FightsIn(c) : Full(f)
    BY <1>1, FightsOfCell
  <1> QED
    BY <1>2, <1>3, <1>4 DEF sum, count

\* The same FFLogs, character and finished fights.
LEMMA SameMeasure ==
    ASSUME UNCHANGED <<world, char, finished>>
    PROVE  \A c : FightsIn(c)' = FightsIn(c) /\ \A f : Full(f)' <=> Full(f)
  <1>1. \A f : Job(f)' = Job(f)
    BY DEF Job
  <1>2. \A f, s : Meets(f, s)' <=> Meets(f, s)
    BY SMT DEF Meets, TrueUse, Asked, Job, SumFunction, SumFunctionOnSet,
               FoldFunctionOnSet, MapThenFoldSet
  <1>3. \A f : Full(f)' <=> Full(f)
    BY <1>1, <1>2 DEF Full, SkillsOf
  <1>4. \A c : FightsIn(c)' = FightsIn(c)
    BY <1>1 DEF FightsIn
  <1> QED
    BY <1>3, <1>4

\* A score is full exactly when every fight of its cell has what is asked for.
FullAsAsked ==
    pc = "done" =>
        \A c \in DOMAIN stat : stat[c].count > 0 =>
            (stat[c].sum \div stat[c].count = 100 <=> \A f \in FightsIn(c) : Full(f))

LEMMA ScoreStart == RInit => FullAsAsked
  BY DEF RInit, FullAsAsked

LEMMA ScoreStep == ReportInv /\ FullAsAsked /\ [RNext]_rvars => FullAsAsked'
  <1> SUFFICES ASSUME ReportInv, FullAsAsked, [RNext]_rvars PROVE FullAsAsked'
    OBVIOUS
  <1>1. DOMAIN <<>> = {}
    OBVIOUS
  <1>2. CASE Start
    <2>1. stat' = <<>>
      BY <1>2 DEF Start
    <2> QED
      BY <1>1, <2>1 DEF FullAsAsked
  <1>3. CASE Build
    <2>1. UNCHANGED <<world, char, finished>> /\ stat' \in {Prepared, <<>>}
      BY <1>3 DEF Build
    <2>2. CASE stat' = <<>>
      BY <1>1, <2>2 DEF FullAsAsked
    <2>3. CASE stat' = Prepared
      <3>1. \A c \in DOMAIN stat' : stat'[c].count > 0 =>
              (stat'[c].sum \div stat'[c].count = 100 <=> \A f \in FightsIn(c) : Full(f))
        BY <2>3, PreparedMeasures
      <3>2. \A c \in DOMAIN stat' : stat'[c].count > 0 =>
              (stat'[c].sum \div stat'[c].count = 100 <=> \A f \in FightsIn(c)' : Full(f)')
        BY <2>1, <3>1, SameMeasure
      <3> QED
        BY <3>2 DEF FullAsAsked
    <2> QED
      BY <2>1, <2>2, <2>3
  <1>4. CASE UNCHANGED rvars
    <2>1. UNCHANGED <<world, char, finished, pc, stat>>
      BY <1>4 DEF rvars, inst
    <2>2. pc' = "done" =>
             \A c \in DOMAIN stat' : stat'[c].count > 0 =>
                (stat'[c].sum \div stat'[c].count = 100 <=> \A f \in FightsIn(c)' : Full(f)')
      BY <2>1, SameMeasure DEF FullAsAsked
    <2> QED
      BY <2>2 DEF FullAsAsked
  <1>5. CASE RNext /\ ~Start /\ ~Build
    <2>1. pc' # "done"
      BY <1>5 DEF RNext, RankingsFail, NoRankings, Rankings, Replay, FightsAnswered, FightsNull,
                  FightsFail, FightsDone, Events, EventsNull, EventsFail, EventsDone, Crash
    <2> QED
      BY <2>1 DEF FullAsAsked
  <1> QED
    BY <1>2, <1>3, <1>4, <1>5

\* What a score says of the uses.
LEMMA FullIsEarned == ReportInv /\ FullAsAsked => ScoreMeasuresUse
  <1> SUFFICES ASSUME ReportInv, FullAsAsked, pc = "done",
                      NEW c \in DOMAIN stat, stat[c].count > 0
               PROVE  LET full == \A f \in FightsIn(c) : \A s \in SkillsOf(f) : UsedToTheFull(f, s)
                      IN /\ Score(c) = 100 => full
                         /\ full /\ (\A f \in FightsIn(c) : \A s \in SkillsOf(f) : WellCounted(s))
                               => Score(c) = 100
    BY DEF ScoreMeasuresUse
  <1>1. Score(c) = 100 <=> \A f \in FightsIn(c) : \A s \in SkillsOf(f) : Meets(f, s)
    BY DEF FullAsAsked, Score, Full
  <1>2. ASSUME NEW f \in FightsIn(c), NEW s \in SkillsOf(f)
        PROVE  f \in finished /\ s \in Skills
    <2>1. f \in finished
      BY DEF FightsIn
    <2>2. SkillRows[Job(f)] \in Seq(Skills)
      BY <2>1, TypesOfFight
    <2> QED
      BY <2>1, <2>2 DEF SkillsOf, Range
  <1>3. \A f \in FightsIn(c) : \A s \in SkillsOf(f) :
          /\ Meets(f, s) => UsedToTheFull(f, s)
          /\ WellCounted(s) /\ UsedToTheFull(f, s) => Meets(f, s)
    BY <1>2, AskedIsEnough
  <1> QED
    BY <1>1, <1>3

\* A full score is earned, and, if no skill is counted with a charge too many, whatever
\* was used as often as can be has one; for any logs and any tables of the skills whose
\* maximum is not set otherwise.
THEOREM ScoresAreEarned == RSpec => []ScoreMeasuresUse
  <1>1. RInit => ReportInv /\ FullAsAsked
    BY ReportStart, ScoreStart
  <1>2. ReportInv /\ FullAsAsked /\ [RNext]_rvars => (ReportInv /\ FullAsAsked)'
    BY ReportStep, ScoreStep
  <1>3. ReportInv /\ FullAsAsked => ScoreMeasuresUse
    BY FullIsEarned
  <1> QED
    BY <1>1, <1>2, <1>3, PTL DEF RSpec
=============================================================================
