------------------------------ MODULE KqlProofs ------------------------------
(***************************************************************************)
(* Theorems about KqlDependencies: for any program, whatever is known of   *)
(* its functions, the walk finds what the program reads.                   *)
(***************************************************************************)
EXTENDS KqlDependencies, FiniteSetTheorems, WellFoundedInduction, TLAPS

-----------------------------------------------------------------------------
(* Recursion over numbers *)

Below == {s \in Nat \X Nat : s[1] < s[2]}

(* A set of numbers has a least: what a claim about all of them is proved by. *)
LEMMA Least ==
    ASSUME NEW T \in SUBSET Nat, T # {}
    PROVE  \E k \in T : \A j \in T : k <= j
<1>1. OpToRel(<, Nat) = Below
  BY DEF OpToRel, Below
<1>2. IsWellFoundedOn(Below, Nat)
  BY <1>1, NatLessThanWellFounded
<1>3. PICK k \in T : \A j \in T : <<j, k>> \notin Below
  BY <1>2, WFMin
<1>4. ASSUME NEW j \in T PROVE k <= j
  <2>1. j \in Nat /\ k \in Nat
    OBVIOUS
  <2>2. <<j, k>> \in Nat \X Nat /\ <<j, k>>[1] = j /\ <<j, k>>[2] = k
    BY <2>1
  <2>3. ~(j < k)
    BY <1>3, <2>2 DEF Below
  <2> QED
    BY <2>1, <2>3
<1> QED
  BY <1>4

(* What holds of 0 and of the successor of each that it holds of, up to n, holds up to n. *)
LEMMA UpTo ==
    ASSUME NEW n \in Nat, NEW T, 0 \in T, \A k \in 1..n : k - 1 \in T => k \in T
    PROVE  0..n \subseteq T
<1> DEFINE Bad == (0..n) \ T
<1> SUFFICES ASSUME Bad # {} PROVE FALSE
  OBVIOUS
<1>1. Bad \in SUBSET Nat
  OBVIOUS
<1>2. PICK k \in Bad : \A j \in Bad : k <= j
  <2> HIDE DEF Bad
  <2> QED
    BY <1>1, Least
<1>3. k \in 1..n /\ k - 1 \in 0..n /\ ~(k <= k - 1)
  BY <1>2
<1>4. k - 1 \in T
  BY <1>2, <1>3
<1> QED
  BY <1>2, <1>3, <1>4

(* What is defined by its predecessor exists. *)
LEMMA Iterates ==
    ASSUME NEW S, NEW start \in S, NEW next \in [S -> S], NEW n \in Nat
    PROVE  \E g \in [0..n -> S] :
              g = [k \in 0..n |-> IF k = 0 THEN start ELSE next[g[k - 1]]]
<1> DEFINE Is(g, m) == \A k \in 0..m : g[k] = IF k = 0 THEN start ELSE next[g[k - 1]]
<1> DEFINE Without == {m \in Nat : ~\E g \in [0..m -> S] : Is(g, m)}
<1>1. Without = {}
  <2> SUFFICES ASSUME Without # {} PROVE FALSE
    OBVIOUS
  <2>1. PICK m \in Without : \A j \in Without : m <= j
    BY Least
  <2>2. CASE m = 0
    <3> DEFINE g == [k \in 0..m |-> start]
    <3>1. g \in [0..m -> S] /\ Is(g, m)
      BY <2>2
    <3> QED
      BY <2>1, <3>1
  <2>3. CASE m # 0
    <3>1. m \in Nat /\ m - 1 \in Nat /\ m - 1 \notin Without
      <4>1. m \in Nat /\ m - 1 \in Nat /\ ~(m <= m - 1)
        BY <2>1, <2>3
      <4> HIDE DEF Without
      <4> QED
        BY <2>1, <4>1
    <3>2. PICK h \in [0..(m - 1) -> S] : Is(h, m - 1)
      BY <3>1
    <3> DEFINE g == [k \in 0..m |-> IF k = m THEN next[h[m - 1]] ELSE h[k]]
    <3>3. g \in [0..m -> S]
      BY <3>1
    <3>4. ASSUME NEW k \in 0..m PROVE g[k] = IF k = 0 THEN start ELSE next[g[k - 1]]
      <4>1. CASE k = m
        <5>1. g[k] = next[h[m - 1]] /\ g[m - 1] = h[m - 1]
          BY <3>1, <4>1
        <5> HIDE DEF g
        <5> QED
          BY <5>1, <4>1, <2>3
      <4>2. CASE k # m
        <5>1. k \in 0..(m - 1) /\ g[k] = h[k]
          BY <3>1, <4>2
        <5>2. k # 0 => g[k - 1] = h[k - 1]
          BY <3>1, <4>2
        <5>3. h[k] = IF k = 0 THEN start ELSE next[h[k - 1]]
          BY <3>2, <5>1
        <5> HIDE DEF g
        <5> QED
          BY <5>1, <5>2, <5>3
      <4> QED
        BY <4>1, <4>2
    <3>5. Is(g, m)
      BY <3>4
    <3> HIDE DEF g
    <3> QED
      BY <2>1, <3>3, <3>5
  <2> QED
    BY <2>2, <2>3
<1>2. PICK g \in [0..n -> S] : Is(g, n)
  BY <1>1
<1>3. g = [k \in 0..n |-> g[k]]
  OBVIOUS
<1>4. g = [k \in 0..n |-> IF k = 0 THEN start ELSE next[g[k - 1]]]
  BY <1>2, <1>3
<1> QED
  BY <1>4

(* Sets that grow by what follows from their members in a finite set have grown as far as *)
(* they can after as many steps as that set has members. *)
LEMMA Saturates ==
    ASSUME NEW S, NEW T, IsFiniteSet(T), NEW next \in [T -> SUBSET S],
           NEW g \in [0..Cardinality(T) -> SUBSET S],
           g[0] \cap T # {},
           \A k \in 1..Cardinality(T) :
              g[k] = g[k - 1] \cup UNION {next[x] : x \in g[k - 1] \cap T}
    PROVE  \A x \in g[Cardinality(T)] \cap T : next[x] \subseteq g[Cardinality(T)]
<1> DEFINE n == Cardinality(T)
<1> DEFINE Closed(X) == \A x \in X \cap T : next[x] \subseteq X
<1> DEFINE Large(k) == Cardinality(g[k] \cap T) >= k + 1
<1> DEFINE Bad == {k \in 0..n : ~Closed(g[k]) /\ ~Large(k)}
<1>1. n \in Nat
  BY FS_CardinalityType
<1>2. ASSUME NEW k \in 0..n
      PROVE  /\ IsFiniteSet(g[k] \cap T) /\ Cardinality(g[k] \cap T) \in Nat
             /\ Cardinality(g[k] \cap T) <= n
  BY FS_Subset, FS_CardinalityType
<1>3. Bad = {}
  <2> SUFFICES ASSUME Bad # {} PROVE FALSE
    OBVIOUS
  <2>1. PICK k \in Bad : \A j \in Bad : k <= j
    <3>1. Bad \in SUBSET Nat
      BY <1>1
    <3> HIDE DEF Bad
    <3> QED
      BY <3>1, Least
  <2>2. CASE k = 0
    <3>0. 0 \in 0..n
      BY <1>1
    <3> HIDE DEF n
    <3>1. Cardinality(g[0] \cap T) # 0
      BY <1>2, <3>0, FS_EmptySet
    <3>2. Cardinality(g[0] \cap T) \in Nat
      BY <1>2, <3>0
    <3>3. Large(0)
      BY <3>1, <3>2
    <3> QED
      BY <2>1, <2>2, <3>3
  <2>3. CASE k # 0
    <3>1. k \in 1..n /\ k - 1 \in 0..n /\ k \in 0..n
      BY <1>1, <2>1, <2>3
    <3>2. g[k] = g[k - 1] \cup UNION {next[x] : x \in g[k - 1] \cap T}
      BY <3>1
    <3>3. Closed(g[k - 1]) \/ Large(k - 1)
      BY <1>1, <2>1, <3>1
    <3>4. CASE Closed(g[k - 1])
      <4>1. g[k] = g[k - 1]
        BY <3>2, <3>4
      <4> QED
        BY <2>1, <3>4, <4>1
    <3>5. CASE Large(k - 1) /\ g[k] \cap T = g[k - 1] \cap T
      <4>1. Closed(g[k])
        BY <3>2, <3>5
      <4> QED
        BY <2>1, <4>1
    <3>6. CASE Large(k - 1) /\ g[k] \cap T # g[k - 1] \cap T
      <4>1. g[k - 1] \cap T \in SUBSET (g[k] \cap T)
        BY <3>2
      <4>2. /\ Cardinality(g[k - 1] \cap T) <= Cardinality(g[k] \cap T)
            /\ Cardinality(g[k] \cap T) # Cardinality(g[k - 1] \cap T)
        BY <1>2, <3>1, <3>6, <4>1, FS_Subset
      <4>3. Cardinality(g[k - 1] \cap T) \in Nat /\ Cardinality(g[k] \cap T) \in Nat
        BY <1>2, <3>1
      <4>4. Large(k)
        BY <3>1, <3>6, <4>2, <4>3
      <4> QED
        BY <2>1, <4>4
    <3> QED
      BY <3>3, <3>4, <3>5, <3>6
  <2> QED
    BY <2>2, <2>3
<1>4. ~Large(n)
  <2>1. n \in 0..n
    BY <1>1
  <2>2. Cardinality(g[n] \cap T) \in Nat /\ Cardinality(g[n] \cap T) <= n
    BY <1>2, <2>1
  <2> HIDE DEF n
  <2> QED
    BY <1>1, <2>2
<1>5. Closed(g[n])
  BY <1>1, <1>3, <1>4
<1> QED
  BY <1>5

-----------------------------------------------------------------------------
(* Bindings that name bindings *)

Follow(y) == IF Alias(y) THEN program[y].head ELSE y

(* Each binding, and each body of a function, is a text. *)
LEMMA TextTypes ==
    ASSUME program \in Programs, NEW x \in {Main} \cup Lets \cup Functions
    PROVE  program[x].head \in Names /\ program[x].op \in Ops /\ program[x].arg \in Names
<1>1. program \in [{Main} \cup Lets \cup Functions -> Text]
  BY KqlAssumption
<1>2. program[x] \in Text
  BY <1>1
<1> QED
  BY <1>2 DEF Text

(* Followed is what its definition says. *)
LEMMA FollowedIs ==
    ASSUME program \in Programs
    PROVE  /\ Followed \in [0..Cardinality(Lets) -> [Lets -> Lets]]
           /\ Followed[0] = [x \in Lets |-> x]
           /\ \A k \in 1..Cardinality(Lets) :
                 Followed[k] = [x \in Lets |-> Follow(Followed[k - 1][x])]
<1> DEFINE n == Cardinality(Lets)
<1> DEFINE S == [Lets -> Lets]
<1> DEFINE start == [x \in Lets |-> x]
<1> DEFINE next == [p \in S |-> [x \in Lets |-> Follow(p[x])]]
<1> DEFINE Body(g) == [k \in 0..n |->
                         IF k = 0 THEN start ELSE [x \in Lets |-> Follow(g[k - 1][x])]]
<1>1. n \in Nat
  BY KqlAssumption, FS_CardinalityType
<1>2. \A y \in Lets : Follow(y) \in Lets
  BY DEF Follow, Alias
<1>3. start \in S /\ next \in [S -> S]
  BY <1>2
<1>4. PICK g \in [0..n -> S] : g = [k \in 0..n |-> IF k = 0 THEN start ELSE next[g[k - 1]]]
  <2> HIDE DEF n, S, start, next
  <2> QED
    BY <1>1, <1>3, Iterates, SMTT(40)
<1>5. g = Body(g)
  <2>1. ASSUME NEW k \in 0..n, k # 0
        PROVE  next[g[k - 1]] = [x \in Lets |-> Follow(g[k - 1][x])]
    <3>1. k - 1 \in 0..n
      BY <1>1, <2>1
    <3> HIDE DEF n
    <3>2. g[k - 1] \in S
      BY <1>4, <3>1
    <3> HIDE DEF S
    <3> QED
      BY <3>2
  <2>2. \A k \in 0..n : (IF k = 0 THEN start ELSE next[g[k - 1]])
                           = IF k = 0 THEN start ELSE [x \in Lets |-> Follow(g[k - 1][x])]
    <3> HIDE DEF n, S, start, next
    <3> QED
      BY <2>1
  <2> HIDE DEF n, S, start, next
  <2> QED
    BY <1>4, <2>2
<1>6. Followed = Body(Followed)
  <2>1. Followed = CHOOSE h : h = Body(h)
    BY DEF Followed, Follow
  <2> HIDE DEF Body
  <2> QED
    BY <1>5, <2>1, Zenon
<1>7. /\ Followed[0] = start
      /\ \A k \in 1..n : Followed[k] = [x \in Lets |-> Follow(Followed[k - 1][x])]
  <2>1. \A k \in 0..n : Followed[k] = IF k = 0 THEN start
                                    ELSE [x \in Lets |-> Follow(Followed[k - 1][x])]
    <3> HIDE DEF n, start
    <3> QED
      BY <1>6
  <2>2. 0 \in 0..n /\ \A k \in 1..n : k \in 0..n /\ k # 0
    BY <1>1
  <2> HIDE DEF n, start
  <2> QED
    BY <2>1, <2>2
<1>8. Followed \in [0..n -> S]
  <2> DEFINE T == {k \in 0..n : Followed[k] \in S}
  <2>1. 0 \in T
    BY <1>1, <1>3, <1>7
  <2>2. ASSUME NEW k \in 1..n, k - 1 \in T PROVE k \in T
    <3>1. Followed[k - 1] \in S /\ k \in 0..n
      BY <1>1, <2>2
    <3>2. [x \in Lets |-> Follow(Followed[k - 1][x])] \in S
      BY <1>2, <3>1
    <3> HIDE DEF n, S
    <3> QED
      BY <1>7, <3>1, <3>2
  <2>3. 0..n \subseteq T
    <3> HIDE DEF n, T
    <3> QED
      BY <1>1, <2>1, <2>2, UpTo
  <2> HIDE DEF n, S, start
  <2>4. DOMAIN Followed = 0..n /\ Followed = [k \in DOMAIN Followed |-> Followed[k]]
    BY <1>6
  <2> QED
    BY <2>3, <2>4
<1> QED
  BY <1>7, <1>8

(* A binding that names no other, or itself, is the one it names. *)
LEMMA NamedSelf ==
    ASSUME program \in Programs, NEW x \in Lets, Follow(x) = x
    PROVE  Named(x) = x
<1> DEFINE n == Cardinality(Lets)
<1> DEFINE T == {k \in 0..n : Followed[k][x] = x}
<1>1. n \in Nat
  BY KqlAssumption, FS_CardinalityType
<1>2. 0 \in T
  BY <1>1, FollowedIs
<1>3. ASSUME NEW k \in 1..n, k - 1 \in T PROVE k \in T
  <2>1. Followed[k] = [y \in Lets |-> Follow(Followed[k - 1][y])]
    BY FollowedIs
  <2>2. Followed[k][x] = Follow(x)
    BY <1>3, <2>1
  <2> QED
    BY <1>1, <2>2
<1>4. n \in T
  <2> HIDE DEF n, T
  <2>1. 0..n \subseteq T
    BY <1>1, <1>2, <1>3, UpTo
  <2> QED
    BY <1>1, <2>1
<1> QED
  BY <1>4 DEF Named

(* What a binding names is what the binding it names does, or the next after it. *)
LEMMA NamedNext ==
    ASSUME program \in Programs, NEW x \in Lets, Alias(x)
    PROVE  program[x].head \in Lets /\ Named(program[x].head) = Follow(Named(x))
<1> DEFINE n == Cardinality(Lets)
<1> DEFINE y == program[x].head
<1> DEFINE T == {k \in 0..n : Followed[k][y] = Follow(Followed[k][x])}
<1>1. n \in Nat
  BY KqlAssumption, FS_CardinalityType
<1>2. y \in Lets /\ y = Follow(x)
  BY DEF Alias, Follow
<1>3. 0 \in T
  BY <1>1, <1>2, FollowedIs
<1>4. ASSUME NEW k \in 1..n, k - 1 \in T PROVE k \in T
  <2>1. Followed[k] = [z \in Lets |-> Follow(Followed[k - 1][z])]
    BY FollowedIs
  <2> HIDE DEF y
  <2>2. Followed[k][y] = Follow(Followed[k - 1][y]) /\ Followed[k][x] = Follow(Followed[k - 1][x])
    BY <1>2, <2>1
  <2>3. k \in 0..n /\ Followed[k - 1][y] = Follow(Followed[k - 1][x])
    BY <1>1, <1>4
  <2> QED
    BY <2>2, <2>3
<1>5. n \in T
  <2> HIDE DEF n, T
  <2>1. 0..n \subseteq T
    BY <1>1, <1>3, <1>4, UpTo
  <2> QED
    BY <1>1, <2>1
<1> QED
  BY <1>2, <1>5 DEF Named

(* Bindings that name nothing but each other. *)
Dead(x) == \E D \in SUBSET Lets : x \in D /\ \A y \in D : Alias(y) /\ program[y].head \in D

(* A binding that is an alias however far it is followed is one of those. *)
LEMMA NamedDead ==
    ASSUME program \in Programs, NEW x \in Lets, Alias(Named(x))
    PROVE  Dead(x)
<1> DEFINE n == Cardinality(Lets)
<1> DEFINE g == [k \in 0..n |-> {Followed[j][x] : j \in 0..k}]
<1> DEFINE next == [y \in Lets |-> {Follow(y)}]
<1>1. n \in Nat /\ 0 \in 0..n /\ n \in 0..n
  BY KqlAssumption, FS_CardinalityType
<1>2. \A k \in 0..n : Followed[k] \in [Lets -> Lets] /\ Followed[k][x] \in Lets
  BY FollowedIs
<1>3. \A k \in 1..n : Followed[k][x] = Follow(Followed[k - 1][x])
  <2>1. \A k \in 1..n : Followed[k] = [y \in Lets |-> Follow(Followed[k - 1][y])]
    BY FollowedIs
  <2> QED
    BY <2>1
<1>4. \A k \in 0..n : g[k] \subseteq Lets
  BY <1>1, <1>2
<1>5. \A y \in g[n] : Follow(y) \in g[n]
  <2>1. g \in [0..n -> SUBSET Lets]
    BY <1>4
  <2>2. next \in [Lets -> SUBSET Lets]
    BY DEF Follow, Alias
  <2>3. g[0] \cap Lets # {}
    <3>1. Followed[0][x] \in g[0]
      BY <1>1
    <3> HIDE DEF g
    <3> QED
      BY <1>1, <1>2, <3>1
  <2>4. ASSUME NEW k \in 1..n
        PROVE  g[k] = g[k - 1] \cup UNION {next[y] : y \in g[k - 1] \cap Lets}
    <3>1. k \in 0..n /\ k - 1 \in 0..n
      BY <1>1
    <3>2. g[k] = {Followed[j][x] : j \in 0..k} /\ g[k - 1] = {Followed[j][x] : j \in 0..(k - 1)}
      BY <3>1
    <3>3. \A y \in g[k - 1] : y \in Lets /\ next[y] = {Follow(y)}
      BY <1>4, <3>1
    <3> HIDE DEF g, next
    <3>4. g[k - 1] \cup UNION {next[y] : y \in g[k - 1] \cap Lets}
             = g[k - 1] \cup {Follow(y) : y \in g[k - 1]}
      BY <3>3
    <3>5. ASSUME NEW y \in g[k] PROVE y \in g[k - 1] \cup {Follow(z) : z \in g[k - 1]}
      <4>1. PICK j \in 0..k : y = Followed[j][x]
        BY <3>2
      <4>2. CASE j \in 0..(k - 1)
        BY <3>2, <4>1, <4>2
      <4>3. CASE j = k
        <5>1. y = Follow(Followed[k - 1][x]) /\ Followed[k - 1][x] \in g[k - 1]
          BY <1>3, <3>1, <3>2, <4>1, <4>3
        <5> QED
          BY <5>1
      <4> QED
        BY <3>1, <4>1, <4>2, <4>3
    <3>6. ASSUME NEW y \in g[k - 1] PROVE y \in g[k] /\ Follow(y) \in g[k]
      <4>1. PICK j \in 0..(k - 1) : y = Followed[j][x]
        BY <3>2
      <4>2. j \in 0..k /\ j + 1 \in 0..k /\ j + 1 \in 1..n /\ (j + 1) - 1 = j
        BY <1>1, <3>1, <4>1
      <4>3. Follow(y) = Followed[j + 1][x]
        BY <1>3, <4>1, <4>2
      <4> QED
        BY <3>2, <4>1, <4>2, <4>3
    <3> QED
      BY <3>4, <3>5, <3>6
  <2>5. \A y \in g[n] \cap Lets : next[y] \subseteq g[n]
    <3> HIDE DEF g, next
    <3>1. \A k \in 1..n : g[k] = g[k - 1] \cup UNION {next[y] : y \in g[k - 1] \cap Lets}
      BY <2>4
    <3> QED
      BY <2>1, <2>2, <2>3, <3>1, KqlAssumption, Saturates
  <2>6. \A y \in g[n] : y \in Lets /\ next[y] = {Follow(y)}
    BY <1>1, <1>4
  <2> HIDE DEF g, next
  <2> QED
    BY <2>5, <2>6
<1>6. \A y \in g[n] : Alias(y)
  <2> DEFINE T == {k \in 0..n : Alias(Followed[k][x]) => \A j \in 0..k : Alias(Followed[j][x])}
  <2>1. 0 \in T
    BY <1>1
  <2>2. ASSUME NEW k \in 1..n, k - 1 \in T PROVE k \in T
    <3>1. k \in 0..n /\ 0..k = (0..(k - 1)) \cup {k}
      BY <1>1
    <3>2. SUFFICES ASSUME Alias(Followed[k][x]) PROVE \A j \in 0..k : Alias(Followed[j][x])
      BY <3>1
    <3>3. Alias(Followed[k - 1][x])
      BY <1>3, <3>2 DEF Follow
    <3> QED
      BY <2>2, <3>1, <3>2, <3>3
  <2>3. n \in T
    <3> HIDE DEF n, T
    <3>1. 0..n \subseteq T
      BY <1>1, <2>1, <2>2, UpTo
    <3> QED
      BY <1>1, <3>1
  <2>4. \A j \in 0..n : Alias(Followed[j][x])
    BY <2>3 DEF Named
  <2>5. g[n] = {Followed[j][x] : j \in 0..n}
    BY <1>1
  <2> HIDE DEF n, g
  <2> QED
    BY <2>4, <2>5
<1>7. x \in g[n]
  <2>1. Followed[0][x] = x
    BY FollowedIs
  <2> QED
    BY <1>1, <2>1
<1>8. g[n] \in SUBSET Lets
  BY <1>1, <1>4
<1> HIDE DEF g, n
<1> QED
  BY <1>5, <1>6, <1>7, <1>8 DEF Dead, Follow

-----------------------------------------------------------------------------
(* Steps of the walk *)

(* Where the walk may be.  Bindings are seen outside of functions only. *)
KqlPlaces ==
    {c \in [at: {"query", "source", "scalar", "toscalar"}, name: Names \cup {Main},
            optional: BOOLEAN, resolving: SUBSET Lets, scalars: SUBSET Lets,
            calls: SUBSET Functions] :
        /\ c.at = "query" => \/ c.name \in {Main} \cup Lets /\ c.calls = {}
                             \/ c.name \in Functions /\ c.calls # {}
        /\ c.at = "scalar" => c.name \in Lets /\ c.calls = {}
        /\ c.at \in {"source", "toscalar"} => c.name \in Names}

(* A step to a place with the same surroundings. *)
LEMMA ToIs ==
    ASSUME NEW c \in KqlPlaces, NEW at, NEW x
    PROVE  To(c, at, x) = [at |-> at, name |-> x, optional |-> c.optional,
                           resolving |-> c.resolving, scalars |-> c.scalars, calls |-> c.calls]
<1>1. PICK d : d = [c EXCEPT !.at = at]
  OBVIOUS
<1>2. d = [at |-> at, name |-> c.name, optional |-> c.optional,
           resolving |-> c.resolving, scalars |-> c.scalars, calls |-> c.calls]
  BY <1>1 DEF KqlPlaces
<1>3. [d EXCEPT !.name = x] = [at |-> at, name |-> x, optional |-> c.optional,
                               resolving |-> c.resolving, scalars |-> c.scalars,
                               calls |-> c.calls]
  BY <1>2
<1>4. To(c, at, x) = [d EXCEPT !.name = x]
  BY <1>1 DEF To
<1> QED
  BY <1>3, <1>4

(* A step to a source or to a binding used as a scalar is one to a place. *)
LEMMA ToPlaces ==
    ASSUME NEW c \in KqlPlaces, NEW x \in Names
    PROVE  /\ To(c, "source", x) \in KqlPlaces
           /\ To(c, "toscalar", x) \in KqlPlaces
           /\ Bound(c, x) => To(c, "scalar", x) \in KqlPlaces
           /\ Bound(c, x) =>
                 [To(c, "query", x) EXCEPT !.resolving = @ \cup {x}]
                    = [at |-> "query", name |-> x, optional |-> c.optional,
                       resolving |-> c.resolving \cup {x}, scalars |-> c.scalars,
                       calls |-> c.calls]
           /\ Bound(c, x) => [To(c, "query", x) EXCEPT !.resolving = @ \cup {x}] \in KqlPlaces
           /\ Bound(c, x) => To(c, "query", x) \in KqlPlaces
<1>1. /\ c \in [at: {"query", "source", "scalar", "toscalar"}, name: Names \cup {Main},
                optional: BOOLEAN, resolving: SUBSET Lets, scalars: SUBSET Lets,
                calls: SUBSET Functions]
      /\ Lets \subseteq Names
  BY DEF KqlPlaces, Names
<1>2. To(c, "source", x) \in KqlPlaces /\ To(c, "toscalar", x) \in KqlPlaces
  BY <1>1, ToIs DEF KqlPlaces
<1>3. CASE Bound(c, x)
  <2>1. To(c, "scalar", x) \in KqlPlaces /\ To(c, "query", x) \in KqlPlaces
    BY <1>1, <1>3, ToIs DEF KqlPlaces, Bound
  <2>2. [To(c, "query", x) EXCEPT !.resolving = @ \cup {x}]
           = [at |-> "query", name |-> x, optional |-> c.optional,
              resolving |-> c.resolving \cup {x}, scalars |-> c.scalars, calls |-> c.calls]
    <3>1. PICK d : d = To(c, "query", x)
      OBVIOUS
    <3>2. d = [at |-> "query", name |-> x, optional |-> c.optional,
               resolving |-> c.resolving, scalars |-> c.scalars, calls |-> c.calls]
      BY <3>1, ToIs
    <3>3. [d EXCEPT !.resolving = @ \cup {x}]
             = [at |-> "query", name |-> x, optional |-> c.optional,
                resolving |-> c.resolving \cup {x}, scalars |-> c.scalars, calls |-> c.calls]
      BY <3>2
    <3> QED
      BY <3>1, <3>3
  <2>3. [To(c, "query", x) EXCEPT !.resolving = @ \cup {x}] \in KqlPlaces
    BY <1>1, <1>3, <2>2 DEF KqlPlaces, Bound
  <2> QED
    BY <1>2, <2>1, <2>2, <2>3
<1> QED
  BY <1>2, <1>3

(* What a step keeps, and what it goes to: the head of a text, or its argument where *)
(* that is part of the text. *)
Along(c, d) ==
    LET n == program[c.name]
    IN  /\ d \in KqlPlaces
        /\ d.calls = c.calls
        /\ c.optional => d.optional
        /\ d.at = "query" => d.name \in Lets
        /\ \/ d.name = n.head /\ n.op \notin {"value", "search"}
           \/ /\ d.name = n.arg /\ n.op \notin {"alone", "pipe"}
              /\ n.op = "uses" => n.arg \in Lets /\ c.calls = {}
              /\ n.op = "fuzzy" => d.optional \/ (c.at = "scalar" /\ n.arg \in Lets)

(* The steps that are made of a source or a mentioned binding. *)
LEMMA SimpleSteps ==
    ASSUME program \in Programs, NEW c \in KqlPlaces, c.at \in {"query", "scalar"},
           NEW x, NEW d \in Source(c, x) \cup Scalars(c, x),
           LET n == program[c.name]
           IN  \/ x = n.head /\ n.op \notin {"value", "search"}
               \/ /\ x = n.arg /\ n.op \notin {"alone", "pipe"}
                  /\ n.op = "uses" => x \in Lets /\ c.calls = {}
                  /\ n.op = "fuzzy" => c.at = "scalar" /\ n.arg \in Lets
    PROVE  Along(c, d)
<1>1. c.name \in {Main} \cup Lets \cup Functions
  BY DEF KqlPlaces
<1>2. x \in Names
  BY <1>1, TextTypes
<1>3. CASE d = To(c, "source", x)
  <2>1. d \in KqlPlaces
    BY <1>2, <1>3, ToPlaces
  <2> QED
    BY <1>3, <2>1, ToIs DEF Along
<1>4. CASE Bound(c, x) /\ d = To(c, "scalar", x)
  <2>1. d \in KqlPlaces
    BY <1>2, <1>4, ToPlaces
  <2> QED
    BY <1>4, <2>1, ToIs DEF Along
<1> QED
  BY <1>3, <1>4 DEF Source, Scalars

LEMMA QuerySteps ==
    ASSUME program \in Programs, NEW c \in KqlPlaces, c.at = "query", NEW d \in Query(c)
    PROVE  Along(c, d)
<1> DEFINE n == program[c.name]
<1>1. c.name \in {Main} \cup Lets \cup Functions
  BY DEF KqlPlaces
<1>2. n.head \in Names /\ n.op \in Ops /\ n.arg \in Names
  BY <1>1, TextTypes
<1>3. CASE n.op \notin {"value", "search"} /\ d \in Source(c, n.head) \cup Scalars(c, n.head)
  BY <1>3, SimpleSteps
<1>4. CASE n.op \in {"value", "join", "search", "inQuery"} /\ d \in Source(c, n.arg) \cup Scalars(c, n.arg)
  BY <1>4, SimpleSteps
<1>5. CASE d \in United(c, n)
  <2>1. CASE n.op \in {"union", "unclear"} /\ d \in Source(c, n.arg)
    BY <2>1, SimpleSteps
  <2>2. CASE n.op = "fuzzy" /\ d = [To(c, "source", n.arg) EXCEPT !.optional = TRUE]
    <3>1. To(c, "source", n.arg) \in KqlPlaces
      BY <1>2, ToPlaces
    <3>2. d = [at |-> "source", name |-> n.arg, optional |-> TRUE,
               resolving |-> c.resolving, scalars |-> c.scalars, calls |-> c.calls]
      <4>1. PICK e : e = To(c, "source", n.arg)
        OBVIOUS
      <4>2. e = [at |-> "source", name |-> n.arg, optional |-> c.optional,
                 resolving |-> c.resolving, scalars |-> c.scalars, calls |-> c.calls]
        BY <4>1, ToIs
      <4>3. d = [e EXCEPT !.optional = TRUE]
        BY <2>2, <4>1
      <4> QED
        BY <4>2, <4>3
    <3>3. d \in KqlPlaces
      BY <1>2, <3>2 DEF KqlPlaces
    <3>4. d.calls = c.calls /\ d.optional = TRUE /\ d.at = "source" /\ d.name = n.arg
      BY <3>2
    <3> QED
      BY <2>2, <3>3, <3>4 DEF Along
  <2> QED
    BY <1>5, <2>1, <2>2 DEF United, Source
<1>6. CASE d \in Members(c, n)
  <2>1. CASE n.op = "in" /\ Bound(c, n.arg) /\ d \in Scalars(c, n.arg)
    BY <2>1, SimpleSteps
  <2>2. CASE /\ n.op = "in" /\ Bound(c, n.arg)
             /\ d = [To(c, "query", n.arg) EXCEPT !.resolving = @ \cup {n.arg}]
    <3>1. d \in KqlPlaces
      BY <1>2, <2>2, ToPlaces
    <3>2. d = [at |-> "query", name |-> n.arg, optional |-> c.optional,
               resolving |-> c.resolving \cup {n.arg}, scalars |-> c.scalars, calls |-> c.calls]
      BY <1>2, <2>2, ToPlaces
    <3> QED
      BY <2>2, <3>1, <3>2 DEF Along, Bound
  <2>3. CASE n.op \in {"in", "inQuery"} /\ d \in Source(c, n.arg) \cup Scalars(c, n.arg)
    BY <2>3, SimpleSteps
  <2> QED
    BY <1>6, <2>1, <2>2, <2>3 DEF Members
<1>7. CASE d \in Mentioned(c, n)
  <2>1. CASE n.op = "scalar" /\ d = To(c, "toscalar", n.arg)
    <3>1. d \in KqlPlaces
      BY <1>2, <2>1, ToPlaces
    <3> QED
      BY <2>1, <3>1, ToIs DEF Along
  <2>2. CASE n.op \in {"scalar", "uses", "hasAny"} /\ d \in Scalars(c, n.arg)
    <3>1. n.arg \in Lets /\ c.calls = {}
      BY <2>2 DEF Scalars, Bound
    <3> QED
      BY <2>2, <3>1, SimpleSteps
  <2> QED
    BY <1>7, <2>1, <2>2 DEF Mentioned
<1> QED
  BY <1>3, <1>4, <1>5, <1>6, <1>7 DEF Query, Joined, Searched

LEMMA ScalarSteps ==
    ASSUME program \in Programs, NEW c \in KqlPlaces, c.at = "scalar", NEW d \in ScalarBinding(c)
    PROVE  Along(c, d)
<1> DEFINE n == program[c.name]
<1> DEFINE e == [c EXCEPT !.scalars = @ \cup {c.name}]
<1>1. c.name \in Lets /\ c.calls = {}
  BY DEF KqlPlaces
<1>2. n.head \in Names /\ n.op \in Ops /\ n.arg \in Names
  BY <1>1, TextTypes
<1>3. /\ e \in KqlPlaces /\ e.at = "scalar" /\ e.calls = c.calls
      /\ e.optional = c.optional /\ e.name = c.name
  BY <1>1 DEF KqlPlaces
<1>4. ASSUME Along(e, d) PROVE Along(c, d)
  <2> HIDE DEF e
  <2> QED
    BY <1>3, <1>4 DEF Along
<1>5. CASE n.op = "value" /\ d \in Source(e, n.arg) \cup Scalars(e, n.arg)
  <2> HIDE DEF e
  <2>1. Along(e, d)
    BY <1>3, <1>5, SimpleSteps
  <2> QED
    BY <1>4, <2>1
<1>6. CASE n.op = "scalar" /\ d = To(e, "toscalar", n.arg)
  <2> HIDE DEF e
  <2>1. d \in KqlPlaces
    BY <1>2, <1>3, <1>6, ToPlaces
  <2>2. Along(e, d)
    BY <1>3, <1>6, <2>1, ToIs DEF Along
  <2> QED
    BY <1>4, <2>2
<1>7. CASE n.op \notin {"alone", "pipe"} /\ n.arg \in Lets /\ d \in Scalars(e, n.arg)
  <2> HIDE DEF e
  <2>1. Along(e, d)
    BY <1>1, <1>3, <1>7, SimpleSteps
  <2> QED
    BY <1>4, <2>1
<1>8. CASE n.op \notin {"value", "search"} /\ d \in Scalars(e, n.head)
  <2> HIDE DEF e
  <2>1. Along(e, d)
    BY <1>3, <1>8, SimpleSteps
  <2> QED
    BY <1>4, <2>1
<1> QED
  BY <1>5, <1>6, <1>7, <1>8 DEF ScalarBinding

(* From a source to its text: that of a binding, or of a function. *)
LEMMA SourceSteps ==
    ASSUME known \subseteq Functions, NEW c \in KqlPlaces, c.at = "source", NEW d \in OneSource(c)
    PROVE  /\ d \in KqlPlaces
           /\ d.at = "query" /\ d.name = c.name /\ d.optional = c.optional
           /\ (c.name \in Lets /\ d.calls = c.calls) \/ c.name \in Functions
<1>1. c.name \in Names
  BY DEF KqlPlaces
<1>2. CASE Bound(c, c.name) /\ d = [To(c, "query", c.name) EXCEPT !.resolving = @ \cup {c.name}]
  <2>1. d \in KqlPlaces
    BY <1>1, <1>2, ToPlaces
  <2>2. d = [at |-> "query", name |-> c.name, optional |-> c.optional,
             resolving |-> c.resolving \cup {c.name}, scalars |-> c.scalars, calls |-> c.calls]
    BY <1>1, <1>2, ToPlaces
  <2> QED
    BY <1>2, <2>1, <2>2 DEF Bound
<1>3. CASE c.name \in Functions /\ d \in Expanded(c, c.name)
  <2>1. d = [at |-> "query", name |-> c.name, optional |-> c.optional, resolving |-> {},
             scalars |-> {}, calls |-> c.calls \cup {c.name}]
    <3>1. PICK d0 : d0 = To(c, "query", c.name)
      OBVIOUS
    <3>2. d0 = [at |-> "query", name |-> c.name, optional |-> c.optional,
                resolving |-> c.resolving, scalars |-> c.scalars, calls |-> c.calls]
      BY <3>1, ToIs
    <3>3. PICK d1 : d1 = [d0 EXCEPT !.resolving = {}]
      OBVIOUS
    <3>4. PICK d2 : d2 = [d1 EXCEPT !.scalars = {}]
      OBVIOUS
    <3>5. d1 = [at |-> "query", name |-> c.name, optional |-> c.optional,
                resolving |-> {}, scalars |-> c.scalars, calls |-> c.calls]
      BY <3>2, <3>3
    <3>6. d2 = [at |-> "query", name |-> c.name, optional |-> c.optional,
                resolving |-> {}, scalars |-> {}, calls |-> c.calls]
      BY <3>4, <3>5
    <3>7. d = [d2 EXCEPT !.calls = @ \cup {c.name}]
      BY <1>3, <3>1, <3>3, <3>4, <3>5, <3>6 DEF Expanded
    <3> QED
      BY <3>6, <3>7
  <2>2. d \in KqlPlaces
    BY <1>3, <2>1 DEF KqlPlaces
  <2> QED
    BY <1>3, <2>1, <2>2
<1> QED
  BY <1>2, <1>3 DEF OneSource

(* From an argument of toscalar to the text of a binding, or to a source. *)
LEMMA ToscalarSteps ==
    ASSUME NEW c \in KqlPlaces, c.at = "toscalar", NEW d \in Toscalar(c)
    PROVE  /\ d \in KqlPlaces
           /\ d.name = c.name /\ d.calls = c.calls /\ d.optional = c.optional
           /\ d.at = "query" => c.name \in Lets
<1>1. c.name \in Names
  BY DEF KqlPlaces
<1>2. CASE Bound(c, c.name) /\ d = To(c, "query", c.name)
  <2>1. d \in KqlPlaces
    BY <1>1, <1>2, ToPlaces
  <2> QED
    BY <1>2, <2>1, ToIs DEF Bound
<1>3. CASE d = To(c, "source", c.name)
  <2>1. d \in KqlPlaces
    BY <1>1, <1>3, ToPlaces
  <2> QED
    BY <1>3, <2>1, ToIs
<1> QED
  BY <1>2, <1>3 DEF Toscalar, Source

(* The walk stays where it may be. *)
LEMMA StepTypes ==
    ASSUME program \in Programs, known \subseteq Functions, NEW c \in KqlPlaces
    PROVE  Steps(c) \subseteq KqlPlaces
<1>1. c.at \in {"query", "source", "scalar", "toscalar"}
  BY DEF KqlPlaces
<1>2. CASE c.at = "query"
  BY <1>2, QuerySteps DEF Steps, Along
<1>3. CASE c.at = "source"
  BY <1>3, SourceSteps DEF Steps
<1>4. CASE c.at = "scalar"
  BY <1>4, ScalarSteps DEF Steps, Along
<1>5. CASE c.at = "toscalar"
  BY <1>5, ToscalarSteps DEF Steps
<1> QED
  BY <1>1, <1>2, <1>3, <1>4, <1>5

-----------------------------------------------------------------------------
(* The walk *)

QueryStart == Place("query", Main)

LEMMA QueryStartType == QueryStart \in KqlPlaces
  BY DEF QueryStart, Place, KqlPlaces

After(w) == [at |-> UNION {Steps(c) : c \in w.at}, been |-> w.been \cup w.at]

(* Walked is what its definition says. *)
LEMMA WalkedIs ==
    ASSUME program \in Programs, known \subseteq Functions
    PROVE  /\ Walked \in [0..MaxWalk -> [at: SUBSET KqlPlaces, been: SUBSET KqlPlaces]]
           /\ Walked[0] = [at |-> {QueryStart}, been |-> {}]
           /\ \A k \in 1..MaxWalk : Walked[k] = After(Walked[k - 1])
<1> DEFINE n == MaxWalk
<1> DEFINE S == [at: SUBSET KqlPlaces, been: SUBSET KqlPlaces]
<1> DEFINE start == [at |-> {QueryStart}, been |-> {}]
<1> DEFINE next == [w \in S |-> After(w)]
<1> DEFINE Body(g) == [k \in 0..n |-> IF k = 0 THEN start ELSE After(g[k - 1])]
<1>1. n \in Nat
  BY KqlAssumption
<1>2. \A w \in S : After(w) \in S
  <2> SUFFICES ASSUME NEW w \in S PROVE After(w) \in S
    OBVIOUS
  <2>1. UNION {Steps(c) : c \in w.at} \subseteq KqlPlaces
    BY StepTypes
  <2> QED
    BY <2>1 DEF After
<1>3. start \in S /\ next \in [S -> S]
  BY <1>2, QueryStartType
<1>4. PICK g \in [0..n -> S] : g = [k \in 0..n |-> IF k = 0 THEN start ELSE next[g[k - 1]]]
  <2> HIDE DEF n, S, start, next
  <2> QED
    BY <1>1, <1>3, Iterates, SMTT(40)
<1>5. g = Body(g)
  <2>1. ASSUME NEW k \in 0..n, k # 0
        PROVE  next[g[k - 1]] = After(g[k - 1])
    <3>1. k - 1 \in 0..n
      BY <1>1, <2>1
    <3> HIDE DEF n
    <3>2. g[k - 1] \in S
      BY <1>4, <3>1
    <3> HIDE DEF S
    <3> QED
      BY <3>2
  <2>2. \A k \in 0..n : (IF k = 0 THEN start ELSE next[g[k - 1]])
                           = IF k = 0 THEN start ELSE After(g[k - 1])
    <3> HIDE DEF n, S, start, next
    <3> QED
      BY <2>1
  <2> HIDE DEF n, S, start, next
  <2> QED
    BY <1>4, <2>2
<1>6. Walked = Body(Walked)
  <2>1. Walked = CHOOSE h : h = Body(h)
    BY DEF Walked, After, QueryStart
  <2> HIDE DEF Body
  <2> QED
    BY <1>5, <2>1, Zenon
<1>7. Walked[0] = start /\ \A k \in 1..n : Walked[k] = After(Walked[k - 1])
  <2>1. \A k \in 0..n : Walked[k] = IF k = 0 THEN start ELSE After(Walked[k - 1])
    <3> HIDE DEF n, start
    <3> QED
      BY <1>6
  <2>2. 0 \in 0..n /\ \A k \in 1..n : k \in 0..n /\ k # 0
    BY <1>1
  <2> HIDE DEF n, start
  <2> QED
    BY <2>1, <2>2
<1>8. Walked \in [0..n -> S]
  <2> DEFINE T == {k \in 0..n : Walked[k] \in S}
  <2>1. 0 \in T
    BY <1>1, <1>3, <1>7
  <2>2. ASSUME NEW k \in 1..n, k - 1 \in T PROVE k \in T
    <3>1. Walked[k - 1] \in S /\ k \in 0..n
      BY <1>1, <2>2
    <3> HIDE DEF n, S
    <3> QED
      BY <1>2, <1>7, <3>1
  <2>3. 0..n \subseteq T
    <3> HIDE DEF n, T
    <3> QED
      BY <1>1, <2>1, <2>2, UpTo
  <2> HIDE DEF n, S, start
  <2>4. DOMAIN Walked = 0..n /\ Walked = [k \in DOMAIN Walked |-> Walked[k]]
    BY <1>6
  <2> QED
    BY <2>3, <2>4
<1> QED
  BY <1>7, <1>8

(* Where a walk that has ended has been: from the start, with every step. *)
LEMMA WalkClosed ==
    ASSUME program \in Programs, known \subseteq Functions, Walked[MaxWalk].at = {}
    PROVE  /\ Walked[MaxWalk].been \subseteq KqlPlaces
           /\ QueryStart \in Walked[MaxWalk].been
           /\ \A c \in Walked[MaxWalk].been : Steps(c) \subseteq Walked[MaxWalk].been
<1> DEFINE All(w) == w.been \cup w.at
<1> DEFINE P(w) == QueryStart \in All(w) /\ \A c \in w.been : Steps(c) \subseteq All(w)
<1> DEFINE T == {k \in 0..MaxWalk : P(Walked[k])}
<1>1. MaxWalk \in Nat
  BY KqlAssumption
<1>2. 0 \in T
  BY <1>1, WalkedIs
<1>3. ASSUME NEW k \in 1..MaxWalk, k - 1 \in T PROVE k \in T
  <2>1. PICK w : w = Walked[k - 1]
    OBVIOUS
  <2>2. PICK v : v = After(w)
    OBVIOUS
  <2>3. Walked[k] = v
    BY <2>1, <2>2, WalkedIs
  <2>4. v.at = UNION {Steps(c) : c \in w.at} /\ v.been = w.been \cup w.at
    BY <2>2 DEF After
  <2>5. P(w)
    BY <1>3, <2>1
  <2>6. P(v)
    BY <2>4, <2>5
  <2> QED
    BY <1>1, <2>3, <2>6
<1>4. MaxWalk \in T
  <2> HIDE DEF T
  <2>1. 0..MaxWalk \subseteq T
    BY <1>1, <1>2, <1>3, UpTo
  <2> QED
    BY <1>1, <2>1
<1>5. Walked[MaxWalk].been \subseteq KqlPlaces
  BY <1>1, WalkedIs
<1> QED
  BY <1>4, <1>5

(* What holds of the start and is kept by every step holds of all that. *)
LEMMA WalkLeast ==
    ASSUME program \in Programs, known \subseteq Functions, NEW C,
           QueryStart \in C, \A c \in C \cap KqlPlaces : Steps(c) \subseteq C
    PROVE  Walked[MaxWalk].been \subseteq C
<1> DEFINE T == {k \in 0..MaxWalk : Walked[k].at \subseteq C /\ Walked[k].been \subseteq C}
<1>1. MaxWalk \in Nat
  BY KqlAssumption
<1>2. 0 \in T
  BY <1>1, WalkedIs
<1>3. ASSUME NEW k \in 1..MaxWalk, k - 1 \in T PROVE k \in T
  <2>1. PICK w \in [at: SUBSET KqlPlaces, been: SUBSET KqlPlaces] : w = Walked[k - 1]
    BY <1>1, WalkedIs
  <2>2. PICK v : v = After(w)
    OBVIOUS
  <2>3. Walked[k] = v
    BY <2>1, <2>2, WalkedIs
  <2>4. v.at = UNION {Steps(c) : c \in w.at} /\ v.been = w.been \cup w.at
    BY <2>2 DEF After
  <2>5. w.at \subseteq C \cap KqlPlaces /\ w.been \subseteq C
    BY <1>3, <2>1
  <2>6. v.at \subseteq C /\ v.been \subseteq C
    BY <2>4, <2>5
  <2> QED
    BY <1>1, <2>3, <2>6
<1>4. MaxWalk \in T
  <2> HIDE DEF T
  <2>1. 0..MaxWalk \subseteq T
    BY <1>1, <1>2, <1>3, UpTo
  <2> QED
    BY <1>1, <2>1
<1> QED
  BY <1>4

-----------------------------------------------------------------------------
(* What is read *)

Root == [within |-> FALSE, name |-> Main]

(* A text mentions names. *)
LEMMA MentionsTypes ==
    ASSUME program \in Programs, NEW x \in Texts, NEW requiredOnly
    PROVE  Mentions(x, requiredOnly) \subseteq Node
<1>1. x.name \in {Main} \cup Lets \cup Functions /\ Inside(x) \in BOOLEAN
  BY DEF Texts, HasText, Inside, Node
<1>2. program[x.name].head \in Names /\ program[x.name].arg \in Names
  BY <1>1, TextTypes
<1> QED
  BY <1>1, <1>2 DEF Mentions, Node

(* There are as many texts as there are bindings and functions, in or outside of functions. *)
LEMMA TextsFinite == IsFiniteSet(Texts)
<1> DEFINE S == BOOLEAN \X ({Main} \cup Lets \cup Functions)
<1>1. IsFiniteSet({Main} \cup Lets \cup Functions)
  BY KqlAssumption, FS_Singleton, FS_Union
<1>2. IsFiniteSet(BOOLEAN)
  <2>1. IsFiniteSet({TRUE} \cup {FALSE})
    BY FS_Singleton, FS_Union
  <2>2. BOOLEAN = {TRUE} \cup {FALSE}
    OBVIOUS
  <2> QED
    BY <2>1, <2>2
<1>3. IsFiniteSet(S)
  BY <1>1, <1>2, FS_Product
<1> DEFINE T == [within: BOOLEAN, name: {Main} \cup Lets \cup Functions]
<1> DEFINE f == [s \in S |-> [within |-> s[1], name |-> s[2]]]
<1>4. f \in Surjection(S, T)
  <2>1. f \in [S -> T]
    OBVIOUS
  <2>2. ASSUME NEW x \in T PROVE \E s \in S : f[s] = x
    <3>1. <<x.within, x.name>> \in S
      OBVIOUS
    <3>2. f[<<x.within, x.name>>] = [within |-> x.within, name |-> x.name]
      BY <3>1
    <3>3. x = [within |-> x.within, name |-> x.name]
      OBVIOUS
    <3> HIDE DEF f, S, T
    <3> QED
      BY <3>1, <3>2, <3>3
  <2> HIDE DEF f, S, T
  <2> QED
    BY <2>1, <2>2 DEF Surjection
<1>5. IsFiniteSet(T)
  <2> HIDE DEF f, S, T
  <2> QED
    BY <1>3, <1>4, FS_Surjection DEF ExistsSurjection
<1>6. Texts \in SUBSET T
  BY DEF Texts, Node, HasText
<1> QED
  BY <1>5, <1>6, FS_Subset

Further(old, requiredOnly) == old \cup UNION {Mentions(x, requiredOnly) : x \in old \cap Texts}

(* Reached is what its definition says. *)
LEMMA ReachedIs ==
    ASSUME program \in Programs
    PROVE  /\ Reached \in [0..Cardinality(Texts) -> [BOOLEAN -> SUBSET Node]]
           /\ Reached[0] = [requiredOnly \in BOOLEAN |-> {Root}]
           /\ \A k \in 1..Cardinality(Texts) :
                 Reached[k] = [requiredOnly \in BOOLEAN |->
                                 Further(Reached[k - 1][requiredOnly], requiredOnly)]
<1> DEFINE n == Cardinality(Texts)
<1> DEFINE S == [BOOLEAN -> SUBSET Node]
<1> DEFINE start == [requiredOnly \in BOOLEAN |-> {Root}]
<1> DEFINE On(p) == [requiredOnly \in BOOLEAN |-> Further(p[requiredOnly], requiredOnly)]
<1> DEFINE next == [p \in S |-> On(p)]
<1> DEFINE Body(g) == [k \in 0..n |-> IF k = 0 THEN start ELSE On(g[k - 1])]
<1>1. n \in Nat
  BY TextsFinite, FS_CardinalityType
<1>2. \A p \in S : On(p) \in S
  <2> SUFFICES ASSUME NEW p \in S, NEW requiredOnly \in BOOLEAN
               PROVE  Further(p[requiredOnly], requiredOnly) \subseteq Node
    OBVIOUS
  <2>1. p[requiredOnly] \subseteq Node
    OBVIOUS
  <2>2. \A x \in p[requiredOnly] \cap Texts : Mentions(x, requiredOnly) \subseteq Node
    BY MentionsTypes
  <2> QED
    BY <2>1, <2>2 DEF Further
<1>3. start \in S /\ next \in [S -> S]
  <2>1. Root \in Node
    BY DEF Root, Node
  <2>2. start \in S
    BY <2>1
  <2> HIDE DEF S, On
  <2> QED
    BY <1>2, <2>2
<1>4. PICK g \in [0..n -> S] : g = [k \in 0..n |-> IF k = 0 THEN start ELSE next[g[k - 1]]]
  <2> HIDE DEF n, S, start, next
  <2> QED
    BY <1>1, <1>3, Iterates, SMTT(40)
<1>5. g = Body(g)
  <2>1. ASSUME NEW k \in 0..n, k # 0
        PROVE  next[g[k - 1]] = On(g[k - 1])
    <3>1. k - 1 \in 0..n
      BY <1>1, <2>1
    <3> HIDE DEF n
    <3>2. g[k - 1] \in S
      BY <1>4, <3>1
    <3> HIDE DEF S, On
    <3> QED
      BY <3>2
  <2>2. \A k \in 0..n : (IF k = 0 THEN start ELSE next[g[k - 1]])
                           = IF k = 0 THEN start ELSE On(g[k - 1])
    <3> HIDE DEF n, S, start, next, On
    <3> QED
      BY <2>1
  <2> HIDE DEF n, S, start, next, On
  <2> QED
    BY <1>4, <2>2
<1>6. Reached = Body(Reached)
  <2>1. Reached = CHOOSE h : h = Body(h)
    BY DEF Reached, Further, Root
  <2> HIDE DEF Body
  <2> QED
    BY <1>5, <2>1, Zenon
<1>7. Reached[0] = start /\ \A k \in 1..n : Reached[k] = On(Reached[k - 1])
  <2> HIDE DEF On
  <2>1. \A k \in 0..n : Reached[k] = IF k = 0 THEN start ELSE On(Reached[k - 1])
    <3> HIDE DEF n, start
    <3> QED
      BY <1>6
  <2>2. 0 \in 0..n /\ \A k \in 1..n : k \in 0..n /\ k # 0
    BY <1>1
  <2> HIDE DEF n, start
  <2> QED
    BY <2>1, <2>2
<1>8. Reached \in [0..n -> S]
  <2> DEFINE T == {k \in 0..n : Reached[k] \in S}
  <2>1. 0 \in T
    BY <1>1, <1>3, <1>7
  <2>2. ASSUME NEW k \in 1..n, k - 1 \in T PROVE k \in T
    <3>1. Reached[k - 1] \in S /\ k \in 0..n
      BY <1>1, <2>2
    <3> HIDE DEF n, S, On
    <3> QED
      BY <1>2, <1>7, <3>1
  <2>3. 0..n \subseteq T
    <3> HIDE DEF n, T
    <3> QED
      BY <1>1, <2>1, <2>2, UpTo
  <2> HIDE DEF n, S, start, On
  <2>4. DOMAIN Reached = 0..n /\ Reached = [k \in DOMAIN Reached |-> Reached[k]]
    BY <1>6
  <2> QED
    BY <2>3, <2>4
<1> QED
  BY <1>7, <1>8

(* What is visited: from the root, with all that its texts mention. *)
LEMMA VisitedClosed ==
    ASSUME program \in Programs, NEW ro \in BOOLEAN
    PROVE  /\ Visited(ro) \subseteq Node
           /\ Root \in Visited(ro)
           /\ \A x \in Visited(ro) \cap Texts : Mentions(x, ro) \subseteq Visited(ro)
<1> DEFINE n == Cardinality(Texts)
<1> DEFINE next == [x \in Texts |-> Mentions(x, ro)]
<1> DEFINE g == [k \in 0..n |-> Reached[k][ro]]
<1>1. n \in Nat /\ 0 \in 0..n /\ n \in 0..n /\ \A k \in 1..n : k \in 0..n /\ k - 1 \in 0..n
  BY TextsFinite, FS_CardinalityType
<1>2. \A k \in 0..n : g[k] \in SUBSET Node
  BY ReachedIs
<1>3. g[0] = {Root}
  BY <1>1, ReachedIs
<1>4. \A k \in 1..n : g[k] = Further(g[k - 1], ro)
  <2> SUFFICES ASSUME NEW k \in 1..n PROVE g[k] = Further(g[k - 1], ro)
    OBVIOUS
  <2>1. g[k] = Reached[k][ro] /\ g[k - 1] = Reached[k - 1][ro]
    BY <1>1
  <2>2. Reached[k][ro] = Further(Reached[k - 1][ro], ro)
    BY ReachedIs
  <2> QED
    BY <2>1, <2>2
<1>5. Root \in Texts
  BY DEF Root, Texts, HasText, Node
<1>6. \A x \in g[n] \cap Texts : Mentions(x, ro) \subseteq g[n]
  <2>1. next \in [Texts -> SUBSET Node]
    BY MentionsTypes
  <2>2. g \in [0..n -> SUBSET Node]
    BY <1>2
  <2>3. g[0] \cap Texts # {}
    BY <1>3, <1>5
  <2>4. ASSUME NEW k \in 1..n
        PROVE  g[k] = g[k - 1] \cup UNION {next[x] : x \in g[k - 1] \cap Texts}
    <3>1. g[k] = g[k - 1] \cup UNION {Mentions(x, ro) : x \in g[k - 1] \cap Texts}
      BY <1>4 DEF Further
    <3>2. \A x \in Texts : next[x] = Mentions(x, ro)
      OBVIOUS
    <3> HIDE DEF g, next
    <3> QED
      BY <3>1, <3>2
  <2>5. \A x \in g[n] \cap Texts : next[x] \subseteq g[n]
    <3> HIDE DEF g, next
    <3>1. \A k \in 1..n : g[k] = g[k - 1] \cup UNION {next[x] : x \in g[k - 1] \cap Texts}
      BY <2>4
    <3> QED
      BY <2>1, <2>2, <2>3, <3>1, TextsFinite, Saturates
  <2>6. \A x \in Texts : next[x] = Mentions(x, ro)
    OBVIOUS
  <2> HIDE DEF g, next
  <2> QED
    BY <2>5, <2>6
<1>7. Root \in g[n]
  <2> DEFINE T == {k \in 0..n : Root \in g[k]}
  <2> HIDE DEF g
  <2>1. 0 \in T
    BY <1>1, <1>3
  <2>2. ASSUME NEW k \in 1..n, k - 1 \in T PROVE k \in T
    BY <1>1, <1>4, <2>2 DEF Further
  <2>3. n \in T
    <3> HIDE DEF n, T
    <3>1. 0..n \subseteq T
      BY <1>1, <2>1, <2>2, UpTo
    <3> QED
      BY <1>1, <3>1
  <2> QED
    BY <2>3
<1>8. Visited(ro) = g[n]
  BY <1>1 DEF Visited
<1> HIDE DEF g
<1> QED
  BY <1>1, <1>2, <1>6, <1>7, <1>8

(* What holds of the root, and of what a text mentions if it holds of the text, holds of *)
(* all that. *)
LEMMA VisitedLeast ==
    ASSUME program \in Programs, NEW ro \in BOOLEAN, NEW C,
           Root \in C, \A x \in C \cap Texts : Mentions(x, ro) \subseteq C
    PROVE  Visited(ro) \subseteq C
<1> DEFINE n == Cardinality(Texts)
<1> DEFINE T == {k \in 0..n : Reached[k][ro] \subseteq C}
<1>1. n \in Nat
  BY TextsFinite, FS_CardinalityType
<1>2. 0 \in T
  BY <1>1, ReachedIs
<1>3. ASSUME NEW k \in 1..n, k - 1 \in T PROVE k \in T
  <2>1. Reached[k][ro] = Further(Reached[k - 1][ro], ro)
    BY ReachedIs
  <2>2. Reached[k - 1][ro] \subseteq C /\ k \in 0..n
    BY <1>1, <1>3
  <2>3. Further(Reached[k - 1][ro], ro) \subseteq C
    BY <2>2 DEF Further
  <2> QED
    BY <2>1, <2>2, <2>3
<1>4. n \in T
  <2> HIDE DEF n, T
  <2>1. 0..n \subseteq T
    BY <1>1, <1>2, <1>3, UpTo
  <2> QED
    BY <1>1, <2>1
<1> QED
  BY <1>4 DEF Visited

(* What every run reads is among what is read. *)
LEMMA RequiredIsVisited ==
    ASSUME program \in Programs
    PROVE  Visited(TRUE) \subseteq Visited(FALSE)
<1>1. \A x : Mentions(x, TRUE) \subseteq Mentions(x, FALSE)
  BY DEF Mentions
<1>2. \A x \in Visited(FALSE) \cap Texts : Mentions(x, TRUE) \subseteq Visited(FALSE)
  BY <1>1, VisitedClosed
<1> QED
  BY <1>2, VisitedClosed, VisitedLeast

-----------------------------------------------------------------------------
(* The walk goes only where the program reads *)

Been == Walked[MaxWalk].been

(* A place counts when only what every run reads does, and when everything does. *)
Counts(ro, c) == ro => ~c.optional

(* A place is at what is read there. *)
Stands(c, x) ==
    /\ x.name = c.name
    /\ \/ x.within <=> c.calls # {}
       \/ c.at = "query" /\ c.name \in Functions

(* The kinds of names are different. *)
LEMMA Kinds == /\ Main \notin Lets \cup Functions
               /\ \A x \in Functions : x \notin Lets
  BY KqlAssumption DEF Names

(* Along a step in a text, what is read goes along. *)
LEMMA SoundAlong ==
    ASSUME program \in Programs, NEW ro \in BOOLEAN,
           \A x \in Visited(FALSE) \cap Texts : ~Misread(x),
           ro => \A x \in Visited(FALSE) \cap Texts : ~HiddenLeg(x),
           NEW c \in KqlPlaces, c.at \in {"query", "scalar"}, NEW d, Along(c, d), Counts(ro, d),
           NEW x \in Visited(ro), Stands(c, x)
    PROVE  \E y \in Visited(ro) : Stands(d, y)
<1> DEFINE n == program[c.name]
<1>1. x \in Node /\ x \in Visited(FALSE)
  BY VisitedClosed, RequiredIsVisited
<1>2. x \in Texts /\ (Inside(x) <=> c.calls # {}) /\ (c.name \in Lets => ~x.within)
  BY <1>1, Kinds DEF KqlPlaces, Stands, Texts, HasText, Inside
<1>3. ~Misread(x) /\ (ro => ~HiddenLeg(x)) /\ x.name = c.name
  BY <1>1, <1>2 DEF Stands
<1>4. d.name \in {y.name : y \in Mentions(x, ro)}
  <2> DEFINE y == [within |-> Inside(x), name |-> d.name]
  <2>1. CASE d.name = n.head /\ n.op \notin {"value", "search"}
    <3>1. y \in Mentions(x, ro)
      BY <1>3, <2>1 DEF Mentions
    <3> QED
      BY <3>1
  <2>2. CASE /\ d.name = n.arg /\ n.op \notin {"alone", "pipe"}
             /\ n.op = "uses" => n.arg \in Lets /\ c.calls = {}
             /\ n.op = "fuzzy" => d.optional \/ (c.at = "scalar" /\ n.arg \in Lets)
    <3>1. ~(n.op = "uses" /\ Column(x, n.arg))
      BY <1>2, <1>3, <2>2 DEF Misread
    <3>2. ~(n.op = "fuzzy" /\ ro)
      <4> SUFFICES ASSUME n.op = "fuzzy", ro PROVE FALSE
        OBVIOUS
      <4>1. ~d.optional /\ c.at = "scalar" /\ n.arg \in Lets
        BY <2>2 DEF Counts
      <4>2. c.name \in Lets
        BY <4>1 DEF KqlPlaces
      <4> QED
        BY <1>2, <1>3, <4>1, <4>2 DEF HiddenLeg
    <3>3. y \in Mentions(x, ro)
      BY <1>3, <2>2, <3>1, <3>2 DEF Mentions
    <3> QED
      BY <3>3
  <2> QED
    BY <2>1, <2>2 DEF Along
<1>5. PICK y \in Mentions(x, ro) : y.name = d.name
  BY <1>4
<1>6. y.within = Inside(x) /\ y \in Visited(ro)
  BY <1>2, <1>5, VisitedClosed DEF Mentions
<1>7. d.calls = c.calls
  BY DEF Along
<1> QED
  BY <1>2, <1>5, <1>6, <1>7 DEF Stands

(* Wherever the walk has been, something is read. *)
LEMMA Sound ==
    ASSUME program \in Programs, known \subseteq Functions, NEW ro \in BOOLEAN,
           \A x \in Visited(FALSE) \cap Texts : ~Misread(x),
           ro => \A x \in Visited(FALSE) \cap Texts : ~HiddenLeg(x),
           NEW c \in Been, Counts(ro, c)
    PROVE  c \in KqlPlaces /\ \E x \in Visited(ro) : Stands(c, x)
<1> DEFINE C == {b \in KqlPlaces : Counts(ro, b) => \E x \in Visited(ro) : Stands(b, x)}
<1>1. QueryStart \in C
  <2>1. Root \in Visited(ro) /\ Stands(QueryStart, Root)
    BY VisitedClosed DEF Stands, QueryStart, Root, Place
  <2> QED
    BY <2>1, QueryStartType
<1>2. ASSUME NEW b \in C, NEW d \in Steps(b) PROVE d \in C
  <2>1. b \in KqlPlaces /\ d \in KqlPlaces
    BY <1>2, StepTypes
  <2>2. SUFFICES ASSUME Counts(ro, d) PROVE \E x \in Visited(ro) : Stands(d, x)
    BY <2>1
  <2>3. CASE b.at \in {"query", "scalar"}
    <3>1. Along(b, d)
      BY <1>2, <2>1, <2>3, QuerySteps, ScalarSteps DEF Steps
    <3>2. Counts(ro, b)
      BY <2>2, <3>1 DEF Counts, Along
    <3>3. PICK x \in Visited(ro) : Stands(b, x)
      BY <1>2, <3>2
    <3> QED
      BY <2>1, <2>2, <2>3, <3>1, <3>3, SoundAlong
  <2>4. CASE b.at = "source"
    <3>1. /\ d.at = "query" /\ d.name = b.name /\ d.optional = b.optional
          /\ (b.name \in Lets /\ d.calls = b.calls) \/ b.name \in Functions
      BY <1>2, <2>1, <2>4, SourceSteps DEF Steps
    <3>2. PICK x \in Visited(ro) : Stands(b, x)
      BY <1>2, <2>2, <3>1 DEF Counts
    <3>3. Stands(d, x)
      BY <2>4, <3>1, <3>2 DEF Stands
    <3> QED
      BY <3>3
  <2>5. CASE b.at = "toscalar"
    <3>1. d.name = b.name /\ d.calls = b.calls /\ d.optional = b.optional
      BY <1>2, <2>1, <2>5, ToscalarSteps DEF Steps
    <3>2. PICK x \in Visited(ro) : Stands(b, x)
      BY <1>2, <2>2, <3>1 DEF Counts
    <3>3. Stands(d, x)
      BY <2>5, <3>1, <3>2 DEF Stands
    <3> QED
      BY <3>3
  <2> QED
    BY <2>1, <2>3, <2>4, <2>5 DEF KqlPlaces
<1>3. \A b \in C \cap KqlPlaces : Steps(b) \subseteq C
  BY <1>2
<1>4. Been \subseteq C
  <2> HIDE DEF C
  <2> QED
    BY <1>1, <1>3, WalkLeast DEF Been
<1> QED
  BY <1>4

-----------------------------------------------------------------------------
(* The walk goes everywhere the program reads *)

Certain(ro, at, x) == {c \in Been : c.at = at /\ c.name = x /\ Counts(ro, c)}

(* The walk has been where a name is read: at the query, at the text of a binding, which may *)
(* also be known as a scalar or name no text, or at a source. *)
Covered(ro, x) ==
    \/ x.name = Main /\ ~x.within /\ Certain(ro, "query", Main) # {}
    \/ /\ x.name \in Lets /\ ~x.within
       /\ \/ Certain(ro, "query", x.name) # {}
          \/ program[Named(x.name)].op = "value" /\ Certain(ro, "scalar", x.name) # {}
          \/ Dead(x.name)
    \/ /\ x.name # Main /\ (x.name \in Lets => x.within)
       /\ \E c \in Certain(ro, "source", x.name) : x.within <=> c.calls # {}

(* The walk has ended, found nothing in the way and misread nothing. *)
Clear ==
    /\ program \in Programs /\ known \subseteq Functions
    /\ Walked[MaxWalk].at = {}
    /\ \A c \in Been : ~Ambiguous(c) /\ ~Unsupported(c)
    /\ \A x \in Visited(FALSE) \cap Texts : ~Misread(x)

(* A step of the walk has been made. *)
LEMMA Made ==
    ASSUME Clear, NEW c \in Been, NEW d \in Steps(c)
    PROVE  d \in Been /\ c \in KqlPlaces /\ d \in KqlPlaces
<1>1. Been \subseteq KqlPlaces /\ Steps(c) \subseteq Been
  BY WalkClosed DEF Been, Clear
<1> QED
  BY <1>1

(* A source covers its name. *)
LEMMA SourceCovers ==
    ASSUME Clear, NEW ro \in BOOLEAN, NEW c \in Been, c.at = "source", Counts(ro, c),
           NEW x, x.name = c.name, x.within <=> c.calls # {}
    PROVE  Covered(ro, x)
<1>1. c \in KqlPlaces /\ c.name \in Names /\ c.name # Main
  <2>1. Been \subseteq KqlPlaces
    BY WalkClosed DEF Been, Clear
  <2> QED
    BY <2>1, KqlAssumption DEF KqlPlaces
<1>2. CASE Bound(c, c.name)
  <2>1. c.name \in Lets /\ ~x.within
    BY <1>2 DEF Bound
  <2>2. c.name \notin c.resolving
    BY <1>2 DEF Clear, Ambiguous
  <2>3. PICK d : d = [To(c, "query", c.name) EXCEPT !.resolving = @ \cup {c.name}]
    OBVIOUS
  <2>4. d \in Steps(c)
    BY <1>2, <2>2, <2>3 DEF Steps, OneSource
  <2>5. d.at = "query" /\ d.name = c.name /\ d.optional = c.optional
    <3>1. d = [at |-> "query", name |-> c.name, optional |-> c.optional,
               resolving |-> c.resolving \cup {c.name}, scalars |-> c.scalars, calls |-> c.calls]
      BY <1>1, <1>2, <2>3, ToPlaces
    <3> QED
      BY <3>1
  <2>6. d \in Certain(ro, "query", c.name)
    BY <2>4, <2>5, Made DEF Certain, Counts
  <2> QED
    BY <2>1, <2>6 DEF Covered
<1>3. CASE ~Bound(c, c.name)
  <2>1. c \in Certain(ro, "source", x.name)
    BY DEF Certain
  <2>2. x.name \in Lets => x.within
    BY <1>3 DEF Bound
  <2> QED
    BY <1>1, <2>1, <2>2 DEF Covered
<1> QED
  BY <1>2, <1>3

(* A step to a source covers its name. *)
LEMMA ToSourceCovers ==
    ASSUME Clear, NEW ro \in BOOLEAN, NEW c \in KqlPlaces, Counts(ro, c),
           NEW x, To(c, "source", x.name) \in Been, x.within <=> c.calls # {}
    PROVE  Covered(ro, x)
<1>1. PICK d : d = To(c, "source", x.name)
  OBVIOUS
<1>2. d = [at |-> "source", name |-> x.name, optional |-> c.optional,
           resolving |-> c.resolving, scalars |-> c.scalars, calls |-> c.calls]
  BY <1>1, ToIs
<1>3. d.at = "source" /\ d.name = x.name /\ d.optional = c.optional /\ d.calls = c.calls
  BY <1>2
<1> QED
  BY <1>1, <1>3, SourceCovers DEF Counts

(* Where the text of a binding is looked at, its name is covered. *)
LEMMA ToQueryCovers ==
    ASSUME Clear, NEW ro \in BOOLEAN, NEW d \in Been, d.at = "query", Counts(ro, d),
           NEW x, x.name = d.name, x.name \in Lets, ~x.within
    PROVE  Covered(ro, x)
  BY DEF Covered, Certain

(* What toscalar reads is covered, for its argument is looked at or is a scalar itself. *)
LEMMA ToscalarCovers ==
    ASSUME Clear, known = Functions, NEW ro \in BOOLEAN, NEW c \in KqlPlaces, Counts(ro, c),
           NEW x, x.name \in Names, To(c, "toscalar", x.name) \in Been,
           Scalars(c, x.name) \subseteq Been, x.within <=> c.calls # {}
    PROVE  Covered(ro, x)
<1>1. PICK d : d = To(c, "toscalar", x.name)
  OBVIOUS
<1>2. d = [at |-> "toscalar", name |-> x.name, optional |-> c.optional,
           resolving |-> c.resolving, scalars |-> c.scalars, calls |-> c.calls]
  BY <1>1, ToIs
<1>3. d \in Been /\ d.at = "toscalar" /\ d.name = x.name /\ d.optional = c.optional
         /\ d.calls = c.calls
  BY <1>1, <1>2
<1>4. Counts(ro, d) /\ d \in KqlPlaces /\ Steps(d) = Toscalar(d)
  <2>1. Been \subseteq KqlPlaces
    BY WalkClosed DEF Been, Clear
  <2> QED
    BY <1>3, <2>1 DEF Counts, Steps
<1>5. CASE Bound(d, x.name)
  <2>1. x.name \in Lets /\ ~x.within /\ Bound(c, x.name)
    BY <1>3, <1>5 DEF Bound
  <2>2. CASE HasTabularInput(x.name)
    <3>1. To(d, "query", x.name) \in Steps(d)
      BY <1>3, <1>4, <1>5, <2>2 DEF Toscalar
    <3>2. PICK e : e = To(d, "query", x.name)
      OBVIOUS
    <3>3. e.at = "query" /\ e.name = x.name /\ e.optional = d.optional
      BY <1>4, <3>2, ToIs
    <3>4. e \in Been
      BY <1>3, <3>1, <3>2, Made
    <3> QED
      BY <1>4, <2>1, <3>3, <3>4, ToQueryCovers DEF Counts
  <2>3. CASE program[Named(x.name)].op = "value"
    <3>1. PICK e : e = To(c, "scalar", x.name)
      OBVIOUS
    <3>2. e.at = "scalar" /\ e.name = x.name /\ e.optional = c.optional
      BY <3>1, ToIs
    <3>3. e \in Been
      BY <2>1, <3>1 DEF Scalars
    <3>4. e \in Certain(ro, "scalar", x.name)
      BY <3>2, <3>3 DEF Certain, Counts
    <3> QED
      BY <2>1, <2>3, <3>4 DEF Covered
  <2>4. CASE Alias(Named(x.name))
    <3>1. Dead(x.name)
      BY <2>1, <2>4, NamedDead DEF Clear
    <3> QED
      BY <2>1, <3>1 DEF Covered
  <2> QED
    BY <2>2, <2>3, <2>4 DEF HasTabularInput, Alias
<1>6. CASE ~Bound(d, x.name)
  <2>1. To(d, "source", x.name) \in Steps(d)
    BY <1>3, <1>4, <1>6 DEF Toscalar, Source
  <2>2. To(d, "source", x.name) \in Been
    BY <1>3, <2>1, Made
  <2> QED
    BY <1>3, <1>4, <2>2, ToSourceCovers
<1> QED
  BY <1>5, <1>6

(* What a text mentions is covered if the text is looked at. *)
LEMMA QueryCovers ==
    ASSUME Clear, NEW ro \in BOOLEAN, NEW c \in Been, c.at = "query", Counts(ro, c),
           NEW x \in Visited(FALSE) \cap Texts, x.name = c.name, Inside(x) <=> c.calls # {},
           NEW y \in Mentions(x, ro)
    PROVE  Covered(ro, y)
<1> DEFINE n == program[c.name]
<1>1. c \in KqlPlaces /\ Steps(c) = Query(c) /\ Query(c) \subseteq Been
  <2>1. Been \subseteq KqlPlaces /\ Steps(c) \subseteq Been
    BY WalkClosed DEF Been, Clear
  <2> QED
    BY <2>1 DEF Steps
<1>2. c.name \in {Main} \cup Lets \cup Functions
  BY <1>1 DEF KqlPlaces
<1>3. n.head \in Names /\ n.op \in Ops /\ n.arg \in Names
  BY <1>2, TextTypes DEF Clear
<1>4. y.within <=> c.calls # {}
  BY DEF Mentions
<1>5. ~Misread(x) /\ ~Ambiguous(c) /\ ~Unsupported(c)
  BY DEF Clear
<1>6. CASE y.name = n.head /\ n.op \notin {"value", "search"}
  <2>1. To(c, "source", y.name) \in Query(c)
    BY <1>6 DEF Query, Source
  <2> QED
    BY <1>1, <1>4, <2>1, ToSourceCovers
<1>7. CASE /\ y.name = n.arg /\ n.op \notin {"alone", "pipe"}
           /\ ~(n.op = "uses" /\ Column(x, n.arg))
           /\ ~(n.op = "fuzzy" /\ ro)
  <2>1. CASE n.op \in {"join", "union", "unclear", "search", "inQuery"}
    <3>1. To(c, "source", y.name) \in Query(c)
      BY <1>7, <2>1 DEF Query, Joined, United, Searched, Members, Source
    <3> QED
      BY <1>1, <1>4, <3>1, ToSourceCovers
  <2>2. CASE n.op = "fuzzy"
    <3>1. PICK d : d = [To(c, "source", y.name) EXCEPT !.optional = TRUE]
      OBVIOUS
    <3>2. d \in Been
      BY <1>1, <1>7, <2>2, <3>1 DEF Query, United, Source
    <3>3. PICK e : e = To(c, "source", y.name)
      OBVIOUS
    <3>4. e = [at |-> "source", name |-> y.name, optional |-> c.optional,
               resolving |-> c.resolving, scalars |-> c.scalars, calls |-> c.calls]
      BY <1>1, <3>3, ToIs
    <3>5. d = [e EXCEPT !.optional = TRUE]
      BY <3>1, <3>3
    <3>6. d.at = "source" /\ d.name = y.name /\ d.calls = c.calls
      BY <3>4, <3>5
    <3> QED
      BY <1>4, <1>7, <2>2, <3>2, <3>6, SourceCovers DEF Counts
  <2>3. CASE n.op = "in" /\ Bound(c, n.arg)
    <3>1. n.arg \notin c.resolving
      BY <1>5, <2>3 DEF Ambiguous
    <3>2. PICK d : d = [To(c, "query", n.arg) EXCEPT !.resolving = @ \cup {n.arg}]
      OBVIOUS
    <3>3. d \in Been
      BY <1>1, <2>3, <3>1, <3>2 DEF Query, Members
    <3>4. d.at = "query" /\ d.name = n.arg /\ d.optional = c.optional
      <4>1. d = [at |-> "query", name |-> n.arg, optional |-> c.optional,
                 resolving |-> c.resolving \cup {n.arg}, scalars |-> c.scalars,
                 calls |-> c.calls]
        BY <1>1, <1>3, <2>3, <3>2, ToPlaces
      <4> QED
        BY <4>1
    <3>5. y.name \in Lets /\ ~y.within
      BY <1>4, <1>7, <2>3 DEF Bound
    <3> QED
      BY <1>7, <3>3, <3>4, <3>5, ToQueryCovers DEF Counts
  <2>4. CASE n.op = "in" /\ ~Bound(c, n.arg)
    <3>1. Called(n.arg)
      BY <1>5, <2>4 DEF Ambiguous
    <3>2. To(c, "source", y.name) \in Query(c)
      BY <1>7, <2>4, <3>1 DEF Query, Members, Source
    <3> QED
      BY <1>1, <1>4, <3>2, ToSourceCovers
  <2>5. CASE n.op = "uses"
    <3>1. y.name \in Lets /\ ~y.within /\ program[Named(y.name)].op = "value"
      BY <1>4, <1>7, <2>5 DEF Column, Mentions
    <3>2. Bound(c, y.name)
      BY <1>4, <3>1 DEF Bound
    <3>3. PICK d : d = To(c, "scalar", y.name)
      OBVIOUS
    <3>4. d \in Been
      BY <1>1, <1>7, <2>5, <3>2, <3>3 DEF Query, Mentioned, Scalars
    <3>5. d.at = "scalar" /\ d.name = y.name /\ d.optional = c.optional
      BY <1>1, <3>3, ToIs
    <3>6. d \in Certain(ro, "scalar", y.name)
      BY <3>4, <3>5 DEF Certain, Counts
    <3> QED
      BY <3>1, <3>6 DEF Covered
  <2>6. CASE n.op = "scalar"
    <3>1. known = Functions
      BY <1>5, <2>6 DEF Misread
    <3>2. To(c, "toscalar", y.name) \in Been /\ Scalars(c, y.name) \subseteq Been
      BY <1>1, <1>7, <2>6 DEF Query, Mentioned
    <3> QED
      BY <1>1, <1>3, <1>4, <1>7, <3>1, <3>2, ToscalarCovers
  <2>7. CASE n.op \in {"hasAny", "value"}
    BY <1>5, <2>7 DEF Misread, Unsupported
  <2> QED
    BY <1>3, <1>7, <2>1, <2>2, <2>3, <2>4, <2>5, <2>6, <2>7 DEF Ops
<1> QED
  BY <1>6, <1>7 DEF Mentions

(* What the text of a scalar binding mentions is covered. *)
LEMMA ScalarCovers ==
    ASSUME Clear, NEW ro \in BOOLEAN, NEW c \in Been, c.at = "scalar", Counts(ro, c),
           NEW x \in Texts, x.name = c.name, ~x.within, x.name \in Lets,
           program[Named(x.name)].op = "value",
           NEW y \in Mentions(x, ro)
    PROVE  Covered(ro, y)
<1> DEFINE n == program[c.name]
<1>1. c \in KqlPlaces /\ ScalarBinding(c) \subseteq Been /\ c.calls = {}
  <2>1. Been \subseteq KqlPlaces /\ Steps(c) \subseteq Been
    BY WalkClosed DEF Been, Clear
  <2> QED
    BY <2>1 DEF Steps, KqlPlaces
<1>2. ~Inside(x) /\ ~y.within
  <2>1. ~Inside(x)
    BY Kinds DEF Inside
  <2> QED
    BY <2>1 DEF Mentions
<1>3. c.name \notin c.scalars
  BY DEF Clear, Ambiguous
<1>4. PICK e : e = [c EXCEPT !.scalars = @ \cup {c.name}]
  OBVIOUS
<1>5. e \in KqlPlaces /\ e.calls = {} /\ e.optional = c.optional /\ Counts(ro, e)
  BY <1>1, <1>4 DEF KqlPlaces, Counts
<1>6. CASE Alias(x.name)
  <2>1. /\ n.head \in Lets /\ Named(n.head) = Named(x.name)
    <3>1. ~Alias(Named(x.name))
      BY DEF Alias
    <3> QED
      BY <1>6, <3>1, NamedNext DEF Clear, Follow
  <2>2. n.head # c.name
    <3> SUFFICES ASSUME n.head = c.name PROVE FALSE
      OBVIOUS
    <3>1. Named(x.name) = x.name
      BY <1>6, NamedSelf DEF Follow, Clear
    <3> QED
      BY <1>6, <3>1 DEF Alias
  <2>3. y.name = n.head
    BY <1>6 DEF Mentions, Alias
  <2>4. Bound(e, n.head)
    BY <1>5, <2>1 DEF Bound
  <2>5. PICK d : d = To(e, "scalar", n.head)
    OBVIOUS
  <2>6. d \in ScalarBinding(c)
    <3>1. d \in Scalars(e, n.head) /\ n.head \in Lets \ {c.name} /\ n.op \notin {"value", "search"}
      BY <1>6, <2>1, <2>2, <2>4, <2>5 DEF Scalars, Alias
    <3> QED
      BY <1>3, <1>4, <3>1 DEF ScalarBinding
  <2>7. d.at = "scalar" /\ d.name = n.head /\ d.optional = e.optional
    BY <1>5, <2>5, ToIs
  <2>8. d \in Certain(ro, "scalar", y.name)
    BY <1>1, <1>5, <2>3, <2>6, <2>7 DEF Certain, Counts
  <2> QED
    BY <1>2, <2>1, <2>3, <2>8 DEF Covered
<1>7. CASE ~Alias(x.name)
  <2>1. n.op = "value"
    BY <1>7, NamedSelf DEF Follow, Clear
  <2>2. y.name = n.arg
    BY <2>1 DEF Mentions
  <2>3. To(e, "source", y.name) \in ScalarBinding(c)
    BY <1>3, <1>4, <2>1, <2>2 DEF ScalarBinding, Source
  <2> QED
    BY <1>1, <1>2, <1>5, <2>3, ToSourceCovers
<1> QED
  BY <1>6, <1>7

(* What a function reads is covered, for it has been expanded. *)
LEMMA FunctionCovers ==
    ASSUME Clear, NEW ro \in BOOLEAN, NEW c \in Been, c.at = "source", Counts(ro, c),
           NEW x \in Visited(FALSE) \cap Texts, x.name = c.name, x.name \in Functions,
           NEW y \in Mentions(x, ro)
    PROVE  Covered(ro, y)
<1>1. c \in KqlPlaces /\ OneSource(c) \subseteq Been
  <2>1. Been \subseteq KqlPlaces /\ Steps(c) \subseteq Been
    BY WalkClosed DEF Been, Clear
  <2> QED
    BY <2>1 DEF Steps
<1>2. c.name \notin Lets /\ c.name \in known /\ ~Refused(c, c.name)
  BY Kinds DEF Clear, Ambiguous, Unsupported
<1>3. PICK d \in OneSource(c) : TRUE
  BY <1>2 DEF OneSource, Bound, Expanded
<1>4. /\ d \in KqlPlaces /\ d \in Been
      /\ d.at = "query" /\ d.name = c.name /\ d.optional = c.optional
  BY <1>1, <1>3, SourceSteps DEF Clear
<1>5. d.calls # {}
  BY <1>2, <1>4, Kinds DEF KqlPlaces
<1>6. Inside(x)
  BY DEF Inside
<1> QED
  BY <1>4, <1>5, <1>6, QueryCovers DEF Counts

(* What is read has been walked to. *)
LEMMA Complete ==
    ASSUME Clear, NEW ro \in BOOLEAN, NEW x \in Visited(ro)
    PROVE  Covered(ro, x)
<1> DEFINE C == {y \in Visited(ro) : Covered(ro, y)}
<1>0. program \in Programs
  BY DEF Clear
<1>1. Root \in C
  <2>1. QueryStart \in Been
    BY WalkClosed DEF Been, Clear
  <2>2. QueryStart \in Certain(ro, "query", Main)
    BY <2>1 DEF Certain, Counts, QueryStart, Place
  <2> QED
    BY <1>0, <2>2, VisitedClosed DEF Covered, Root
<1>2. ASSUME NEW y \in C \cap Texts, NEW z \in Mentions(y, ro) PROVE z \in C
  <2>1. z \in Visited(ro) /\ y \in Visited(FALSE) \cap Texts
    BY <1>0, <1>2, VisitedClosed, RequiredIsVisited
  <2>2. Been \subseteq KqlPlaces
    BY WalkClosed DEF Been, Clear
  <2>3. CASE y.name = Main
    <3>1. PICK c \in Been : c.at = "query" /\ c.name = Main /\ Counts(ro, c)
      BY <1>2, <2>3, Kinds DEF Covered, Certain
    <3>2. c.calls = {}
      BY <2>2, <3>1, Kinds DEF KqlPlaces
    <3>3. ~Inside(y)
      BY <1>2, <2>3, Kinds DEF Inside, Covered
    <3> QED
      BY <2>1, <2>3, <3>1, <3>2, <3>3, QueryCovers
  <2>4. CASE y.name \in Lets
    <3>1. ~y.within /\ ~Inside(y) /\ y.name # Main
      BY <2>1, <2>4, Kinds DEF Texts, HasText, Inside
    <3>2. CASE Certain(ro, "query", y.name) # {}
      <4>1. PICK c \in Been : c.at = "query" /\ c.name = y.name /\ Counts(ro, c)
        BY <3>2 DEF Certain
      <4>2. c.calls = {}
        BY <2>2, <2>4, <4>1, Kinds DEF KqlPlaces
      <4> QED
        BY <2>1, <3>1, <4>1, <4>2, QueryCovers
    <3>3. CASE program[Named(y.name)].op = "value" /\ Certain(ro, "scalar", y.name) # {}
      <4>1. PICK c \in Been : c.at = "scalar" /\ c.name = y.name /\ Counts(ro, c)
        BY <3>3 DEF Certain
      <4> QED
        BY <2>1, <2>4, <3>1, <3>3, <4>1, ScalarCovers
    <3>4. CASE Dead(y.name)
      <4>1. PICK D \in SUBSET Lets : /\ y.name \in D
                                     /\ \A d \in D : Alias(d) /\ program[d].head \in D
        BY <3>4 DEF Dead
      <4>2. z.name = program[y.name].head /\ ~z.within
        BY <3>1, <4>1 DEF Alias, Mentions
      <4>3. Dead(z.name) /\ z.name \in Lets
        BY <4>1, <4>2 DEF Dead
      <4> QED
        BY <2>1, <4>2, <4>3 DEF Covered
    <3> QED
      BY <1>2, <2>4, <3>1, <3>2, <3>3, <3>4 DEF Covered
  <2>5. CASE y.name \in Functions
    <3>1. PICK c \in Been : c.at = "source" /\ c.name = y.name /\ Counts(ro, c)
      BY <1>2, <2>5, Kinds DEF Covered, Certain
    <3> QED
      BY <2>1, <2>5, <3>1, FunctionCovers
  <2> QED
    BY <2>1, <2>3, <2>4, <2>5 DEF Texts, HasText
<1>3. Visited(ro) \subseteq C
  <2>1. \A y \in C \cap Texts : Mentions(y, ro) \subseteq C
    BY <1>2
  <2> HIDE DEF C
  <2> QED
    BY <1>0, <1>1, <2>1, VisitedLeast
<1> QED
  BY <1>3

-----------------------------------------------------------------------------
(* Properties *)

(* A rule is left open only if nothing is in the way. *)
LEMMA OpenIsClear ==
    ASSUME NEW found, NEW blocking \in {"none", "ambiguous", "unsupported"},
           InputStatus(Status(blocking, found), blocking, found) = "open"
    PROVE  blocking = "none"
  BY DEF InputStatus, Status

(* When the walk has ended and nothing was in the way, what it found is what is read. *)
LEMMA FoundIsRead ==
    ASSUME Clear, NEW ro \in BOOLEAN
    PROVE  Read(ro) \subseteq {c.name : c \in {b \in Been : Found(b) /\ Counts(ro, b)}}
<1> SUFFICES ASSUME NEW x \in Visited(ro), x.name # Main, x.within \/ x.name \notin Lets
             PROVE  x.name \in {c.name : c \in {b \in Been : Found(b) /\ Counts(ro, b)}}
  BY DEF Read
<1>1. PICK c \in Been : /\ c.at = "source" /\ c.name = x.name /\ Counts(ro, c)
                        /\ x.within <=> c.calls # {}
  BY Complete DEF Covered, Certain
<1>2. Found(c)
  BY <1>1 DEF Found, Bound, Clear, Unsupported
<1> QED
  BY <1>1, <1>2

LEMMA ReadIsFound ==
    ASSUME Clear, NEW ro \in BOOLEAN,
           ro => \A x \in Visited(FALSE) \cap Texts : ~HiddenLeg(x)
    PROVE  {c.name : c \in {b \in Been : Found(b) /\ Counts(ro, b)}} \subseteq Read(ro)
<1> SUFFICES ASSUME NEW c \in Been, Found(c), Counts(ro, c) PROVE c.name \in Read(ro)
  OBVIOUS
<1>1. c \in KqlPlaces /\ \E x \in Visited(ro) : Stands(c, x)
  BY Sound DEF Clear
<1>2. PICK x \in Visited(ro) : Stands(c, x)
  BY <1>1
<1>3. x.name = c.name /\ (x.within <=> c.calls # {})
  BY <1>2 DEF Stands, Found
<1>4. c.name # Main
  BY <1>1, KqlAssumption DEF Found, KqlPlaces
<1>5. x.within \/ x.name \notin Lets
  BY <1>3 DEF Found, Bound
<1> QED
  BY <1>2, <1>3, <1>4, <1>5 DEF Read

(* What an analysis makes of a rule that it leaves open is true. *)
LEMMA AnalysisIsTrue ==
    ASSUME program \in Programs, known \subseteq Functions, Analyse,
           resolution'.input = "open", \A x \in Visited(FALSE) \cap Texts : ~Misread(x)
    PROVE  /\ resolution'.required \cup resolution'.optional = Read(FALSE)
           /\ Read(TRUE) \subseteq resolution'.required
           /\ (\A x \in Visited(FALSE) \cap Texts : ~HiddenLeg(x)) =>
                 resolution'.required = Read(TRUE)
<1> DEFINE required == RequiredFound(Been)
<1> DEFINE others == OptionalFound(Been)
<1> DEFINE blocking == BlockingStatus(Been)
<1>1. /\ Walked[MaxWalk].at = {}
      /\ InputStatus(Status(blocking, required \cup others), blocking, required \cup others)
            = "open"
      /\ resolution'.required = required /\ resolution'.optional = others
  BY DEF Analyse, Been
<1>2. blocking = "none"
  <2>1. blocking \in {"none", "ambiguous", "unsupported"}
    BY DEF BlockingStatus
  <2> HIDE DEF blocking, required, others
  <2> QED
    BY <1>1, <2>1, OpenIsClear
<1>3. Clear
  BY <1>1, <1>2 DEF Clear, BlockingStatus
<1>4. required = {c.name : c \in {b \in Been : Found(b) /\ Counts(TRUE, b)}}
  BY DEF RequiredFound, Counts
<1>5. required \cup others = {c.name : c \in {b \in Been : Found(b) /\ Counts(FALSE, b)}}
  BY DEF RequiredFound, OptionalFound, Counts
<1> HIDE DEF required, others
<1>6. required \cup others = Read(FALSE)
  BY <1>3, <1>5, FoundIsRead, ReadIsFound
<1>7. Read(TRUE) \subseteq required
  BY <1>3, <1>4, FoundIsRead
<1>8. ASSUME \A x \in Visited(FALSE) \cap Texts : ~HiddenLeg(x)
      PROVE  required = Read(TRUE)
  BY <1>3, <1>4, <1>7, <1>8, ReadIsFound
<1> QED
  BY <1>1, <1>6, <1>7, <1>8

(* What is read is a matter of the program. *)
LEMMA ReadIsConstant ==
    ASSUME program' = program, known' = known
    PROVE  /\ \A ro \in BOOLEAN : Visited(ro)' = Visited(ro) /\ Read(ro)' = Read(ro)
           /\ \A x : (Misread(x)' <=> Misread(x)) /\ (HiddenLeg(x)' <=> HiddenLeg(x))
<1>1. Followed' = Followed
  BY DEF Followed, Alias
<1>2. Reached' = Reached
  BY DEF Reached, Mentions, Column, Inside, Named, Followed, Alias, Texts, HasText, Node, Names,
         Leaves
<1>3. ASSUME NEW ro \in BOOLEAN PROVE Visited(ro)' = Visited(ro)
  BY <1>2 DEF Visited, Texts, HasText, Node
<1>4. ASSUME NEW ro \in BOOLEAN PROVE Read(ro)' = Read(ro)
  BY <1>3 DEF Read
<1>5. ASSUME NEW x PROVE Misread(x)' <=> Misread(x)
  BY <1>1 DEF Misread, Column, Inside, Named
<1>6. ASSUME NEW x PROVE HiddenLeg(x)' <=> HiddenLeg(x)
  BY DEF HiddenLeg
<1> QED
  BY <1>3, <1>4, <1>5, <1>6

KqlInv ==
    /\ program \in Programs /\ known \subseteq Functions
    /\ DependenciesAreTrue

(* The analysis keeps what is true of its result. *)
LEMMA KqlStep ==
    ASSUME KqlInv, [KqlNext]_kqlVars
    PROVE  KqlInv'
<1>1. program' = program /\ known' = known
  BY DEF KqlNext, Analyse, kqlVars
<1>2. CASE resolution' = resolution
  <2>1. DependenciesAreTrue' <=> DependenciesAreTrue
    BY <1>1, <1>2, ReadIsConstant DEF DependenciesAreTrue, Conclusive, Texts, HasText, Node
  <2> QED
    BY <1>1, <2>1 DEF KqlInv
<1>3. CASE Analyse
  <2>1. SUFFICES ASSUME Conclusive', ~\E x \in Visited(FALSE)' \cap Texts' : Misread(x)'
                 PROVE  /\ resolution'.required \cup resolution'.optional = Read(FALSE)'
                        /\ Read(TRUE)' \subseteq resolution'.required
                        /\ (~\E x \in Visited(FALSE)' \cap Texts' : HiddenLeg(x)') =>
                              resolution'.required = Read(TRUE)'
    BY <1>1 DEF KqlInv, DependenciesAreTrue
  <2>2. Texts' = Texts
    BY DEF Texts, HasText, Node
  <2>3. \A x \in Visited(FALSE) \cap Texts : ~Misread(x)
    BY <1>1, <2>1, <2>2, ReadIsConstant
  <2>4. /\ resolution'.required \cup resolution'.optional = Read(FALSE)
        /\ Read(TRUE) \subseteq resolution'.required
        /\ (\A x \in Visited(FALSE) \cap Texts : ~HiddenLeg(x)) =>
              resolution'.required = Read(TRUE)
    BY <1>3, <2>1, <2>3, AnalysisIsTrue DEF Conclusive, KqlInv
  <2> QED
    BY <1>1, <2>2, <2>4, ReadIsConstant
<1> QED
  BY <1>2, <1>3 DEF KqlNext, kqlVars

(* A rule is left open only with the inputs its query reads (kql.go 293-1264): for every  *)
(* query, through any bindings, stored functions, subqueries and scalar values, nested as *)
(* they may be, all that is read is found and nothing else, and what every run reads is   *)
(* required.                                                                              *)
THEOREM InputsAreRead == KqlSpec => []DependenciesAreTrue
<1>1. ProgramInit => KqlInv
  BY KqlAssumption DEF ProgramInit, KqlInv, DependenciesAreTrue, Conclusive, Unanalysed
<1>2. KqlInv /\ [KqlNext]_kqlVars => KqlInv'
  BY KqlStep
<1>3. KqlInv => DependenciesAreTrue
  BY DEF KqlInv
<1> QED
  BY <1>1, <1>2, <1>3, PTL DEF KqlSpec
=============================================================================
