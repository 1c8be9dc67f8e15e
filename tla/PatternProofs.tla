---------------------------- MODULE PatternProofs ---------------------------
(* Proofs about Patterns and what WorkflowAudit makes of it, for any         *)
(* alphabet and any lengths: each algorithm says what its definition means.  *)
(* The algorithms are recursive functions; what they compute is proved by    *)
(* induction over sets instead of operators, from the least counterexample.  *)
EXTENDS WorkflowAudit, SequenceTheorems, WellFoundedInduction, TLAPS

-----------------------------------------------------------------------------
(* Induction, by the least number for which something fails.                 *)

(* A set of numbers has a least one.                                         *)
LEMMA LeastNumber ==
  ASSUME NEW T \in SUBSET Nat, T # {}
  PROVE  \E x \in T : \A y \in T : x <= y
<1>1. IsWellFoundedOn(OpToRel(<, Nat), Nat)
  BY NatLessThanWellFounded
<1>2. PICK x \in T : \A y \in T : ~ (<<y, x>> \in OpToRel(<, Nat))
  BY <1>1, WFMin
<1>3. \A y \in T : <<y, x>> \in OpToRel(<, Nat) <=> y < x
  BY DEF OpToRel
<1>4. \A y \in T : ~(y < x) /\ y \in Nat /\ x \in Nat
  BY <1>2, <1>3
<1>5. \A y \in T : x <= y
  BY <1>4
<1> QED BY <1>5

(* A set of numbers that holds 0 and every successor is all of them.         *)
LEMMA Induction ==
  ASSUME NEW H \in SUBSET Nat, 0 \in H, \A n \in H : n + 1 \in H
  PROVE  \A n \in Nat : n \in H
<1> SUFFICES ASSUME Nat \ H # {} PROVE FALSE
  OBVIOUS
<1>1. PICK x \in Nat \ H : \A y \in Nat \ H : x <= y
  BY LeastNumber
<1>2. x # 0 /\ x - 1 \in Nat /\ ~(x <= x - 1) /\ (x - 1) + 1 = x
  BY <1>1
<1>3. x - 1 \in H
  BY <1>1, <1>2
<1> QED BY <1>1, <1>2, <1>3

(* The same, from below: what holds of n if it holds of everything less.     *)
LEMMA StrongInduction ==
  ASSUME NEW H \in SUBSET Nat, \A n \in Nat : (\A k \in Nat : k < n => k \in H) => n \in H
  PROVE  \A n \in Nat : n \in H
<1> SUFFICES ASSUME Nat \ H # {} PROVE FALSE
  OBVIOUS
<1>1. PICK x \in Nat \ H : \A y \in Nat \ H : x <= y
  BY LeastNumber
<1>2. \A k \in Nat : k < x => k \in H
  BY <1>1
<1> QED BY <1>1, <1>2

(* The least and the greatest of a set of numbers.                           *)
LEMMA MinIs ==
  ASSUME NEW T \in SUBSET Nat, T # {}
  PROVE  Min(T) \in T /\ \A y \in T : Min(T) <= y
<1>1. \E x \in T : \A y \in T : x <= y
  BY LeastNumber
<1> QED BY <1>1 DEF Min

(* A set of numbers below a bound has a greatest one.                        *)
LEMMA MaxIs ==
  ASSUME NEW b \in Nat, NEW T \in SUBSET (0 .. b), T # {}
  PROVE  Max(T) \in T /\ \A y \in T : y <= Max(T)
<1>1. PICK D : D = {b - y : y \in T}
  OBVIOUS
<1>2. D \in SUBSET Nat /\ D # {}
  <2>1. \A y \in T : b - y \in Nat
    OBVIOUS
  <2> QED BY <1>1, <2>1
<1>3. PICK d \in D : \A e \in D : d <= e
  BY <1>2, LeastNumber
<1>4. PICK x \in T : d = b - x
  BY <1>1, <1>3
<1>5. \A y \in T : y <= x
  <2> SUFFICES ASSUME NEW y \in T PROVE y <= x
    OBVIOUS
  <2>1. b - x <= b - y
    BY <1>1, <1>3, <1>4
  <2>2. x \in Nat /\ y \in Nat
    OBVIOUS
  <2> QED BY <2>1, <2>2
<1>6. \E m \in T : \A y \in T : y <= m
  BY <1>5
<1>7. Max(T) = CHOOSE m \in T : \A y \in T : m >= y
  BY DEF Max
<1>8. \E m \in T : \A y \in T : m >= y
  <2>1. \A y \in T : x >= y
    BY <1>5
  <2> QED BY <2>1
<1>9. Max(T) \in T /\ \A y \in T : Max(T) >= y
  BY <1>7, <1>8
<1>10. \A y \in T : y <= Max(T)
  BY <1>9
<1> QED BY <1>9, <1>10

-----------------------------------------------------------------------------
(* A recursive definition has a solution if what it says of x depends on the *)
(* function only where a measure is less than that of x.  G is the body of   *)
(* the definition, as a function of the function that is defined.            *)
(* (Named, for the provers to find them in the lemma.)                       *)
Local(G, D, V, mu) ==
  \A f, g \in [D -> V] : \A x \in D :
    (\A y \in D : mu[y] < mu[x] => f[y] = g[y]) => G[f][x] = G[g][x]
Solves(f, G) == f = G[f]

(* If G is local, something solves it.                                       *)
LEMMA Recursion ==
  ASSUME NEW D, NEW V, NEW v \in V, NEW mu \in [D -> Nat], NEW G \in [[D -> V] -> [D -> V]],
         Local(G, D, V, mu)
  PROVE  \E f \in [D -> V] : Solves(f, G)
<1> DEFINE UpTo(f, n) == \A x \in D : mu[x] < n => f[x] = G[f][x]
           Same(f, g, n) == \A x \in D : mu[x] < n => f[x] = g[x]
<1>1. \A f \in [D -> V] : G[f] \in [D -> V]
  OBVIOUS
<1>2. \A n \in Nat : \E f \in [D -> V] : UpTo(f, n)
  <2> DEFINE H == {n \in Nat : \E f \in [D -> V] : UpTo(f, n)}
  <2>1. 0 \in H
    <3>1. [x \in D |-> v] \in [D -> V]
      OBVIOUS
    <3>2. UpTo([x \in D |-> v], 0)
      <4>1. \A x \in D : ~(mu[x] < 0)
        OBVIOUS
      <4> QED BY <4>1
    <3> QED BY <3>1, <3>2
  <2>2. ASSUME NEW n \in H PROVE n + 1 \in H
    <3>1. PICK f \in [D -> V] : UpTo(f, n)
      BY <2>2
    <3>2. G[f] \in [D -> V]
      BY <1>1
    <3>3. UpTo(G[f], n + 1)
      <4> SUFFICES ASSUME NEW x \in D, mu[x] < n + 1 PROVE G[f][x] = G[G[f]][x]
        OBVIOUS
      <4>1. \A y \in D : mu[y] < mu[x] => f[y] = G[f][y]
        <5>1. mu[x] \in Nat /\ n \in Nat /\ \A y \in D : mu[y] \in Nat
          OBVIOUS
        <5>2. \A y \in D : mu[y] < mu[x] => mu[y] < n
          BY <5>1
        <5> QED BY <3>1, <5>2
      <4> QED BY <3>2, <4>1 DEF Local
    <3> QED BY <3>2, <3>3
  <2>3. H \in SUBSET Nat
    OBVIOUS
  <2>4. \A n \in Nat : n \in H
    <3> HIDE DEF H
    <3> QED BY <2>1, <2>2, <2>3, Induction
  <2> QED BY <2>4
<1>3. ASSUME NEW f \in [D -> V], NEW g \in [D -> V], NEW n \in Nat, UpTo(f, n), UpTo(g, n)
      PROVE  Same(f, g, n)
  <2> DEFINE H == {k \in Nat : \A x \in D : mu[x] = k /\ k < n => f[x] = g[x]}
  <2>1. ASSUME NEW k \in Nat, \A m \in Nat : m < k => m \in H PROVE k \in H
    <3> SUFFICES ASSUME NEW x \in D, mu[x] = k, k < n PROVE f[x] = g[x]
      OBVIOUS
    <3>1. \A y \in D : mu[y] < mu[x] => f[y] = g[y]
      <4> SUFFICES ASSUME NEW y \in D, mu[y] < mu[x] PROVE f[y] = g[y]
        OBVIOUS
      <4>1. mu[y] \in Nat /\ mu[y] < k /\ mu[y] < n
        OBVIOUS
      <4> QED BY <2>1, <4>1
    <3>2. G[f][x] = G[g][x]
      BY <3>1 DEF Local
    <3> QED BY <1>3, <3>2
  <2>2. H \in SUBSET Nat
    OBVIOUS
  <2>3. \A k \in Nat : k \in H
    <3> HIDE DEF H
    <3> QED BY <2>1, <2>2, StrongInduction
  <2> QED BY <2>3
<1> DEFINE At(n) == CHOOSE f \in [D -> V] : UpTo(f, n)
           F == [x \in D |-> At(mu[x] + 1)[x]]
<1>4. \A n \in Nat : At(n) \in [D -> V] /\ UpTo(At(n), n)
  <2> HIDE DEF UpTo
  <2> QED BY <1>2
<1>5. F \in [D -> V]
  <2>1. \A x \in D : mu[x] + 1 \in Nat
    OBVIOUS
  <2> HIDE DEF At, UpTo
  <2> QED BY <1>4, <2>1
<1>6. ASSUME NEW x \in D PROVE F[x] = G[F][x]
  <2> DEFINE n == mu[x] + 1
  <2>1. n \in Nat /\ mu[x] < n /\ At(n) \in [D -> V] /\ UpTo(At(n), n)
    <3>1. n \in Nat /\ mu[x] < n
      OBVIOUS
    <3> HIDE DEF n, At, UpTo
    <3> QED BY <1>4, <3>1
  <2>2. \A y \in D : mu[y] < mu[x] => F[y] = At(n)[y]
    <3> SUFFICES ASSUME NEW y \in D, mu[y] < mu[x] PROVE F[y] = At(n)[y]
      OBVIOUS
    <3>1. mu[y] + 1 \in Nat /\ mu[y] < mu[y] + 1 /\ \A z \in D : mu[z] < mu[y] + 1 => mu[z] < n
      OBVIOUS
    <3>2. At(mu[y] + 1) \in [D -> V] /\ UpTo(At(mu[y] + 1), mu[y] + 1)
      <4> HIDE DEF At, UpTo
      <4> QED BY <1>4, <3>1
    <3>3. UpTo(At(n), mu[y] + 1)
      <4> HIDE DEF At, n
      <4> QED BY <2>1, <3>1
    <3>4. Same(At(mu[y] + 1), At(n), mu[y] + 1)
      <4> HIDE DEF At, n, UpTo, Same
      <4> QED BY <1>3, <2>1, <3>1, <3>2, <3>3
    <3>5. At(mu[y] + 1)[y] = At(n)[y]
      <4> HIDE DEF At, n
      <4> QED BY <3>1, <3>4
    <3> HIDE DEF At, n
    <3> QED BY <3>5
  <2>3. F[x] = At(n)[x]
    <3> HIDE DEF At
    <3> QED OBVIOUS
  <2>4. G[F][x] = G[At(n)][x]
    <3> HIDE DEF F, At, n
    <3> QED BY <1>5, <2>1, <2>2 DEF Local
  <2>5. At(n)[x] = G[At(n)][x]
    <3> HIDE DEF At, n
    <3> QED BY <2>1
  <2> QED BY <2>3, <2>4, <2>5
<1>7. F = G[F]
  <2> HIDE DEF F
  <2>1. G[F] \in [D -> V]
    BY <1>1, <1>5
  <2> QED BY <1>5, <1>6, <2>1
<1> QED BY <1>5, <1>7 DEF Solves

(* What holds of x if it holds of everything of less measure holds of all.   *)
LEMMA ByMeasure ==
  ASSUME NEW D, NEW mu \in [D -> Nat], NEW H,
         \A x \in D : (\A y \in D : mu[y] < mu[x] => y \in H) => x \in H
  PROVE  \A x \in D : x \in H
<1> DEFINE N == {k \in Nat : \A x \in D : mu[x] = k => x \in H}
<1>1. ASSUME NEW k \in Nat, \A m \in Nat : m < k => m \in N PROVE k \in N
  <2> SUFFICES ASSUME NEW x \in D, mu[x] = k PROVE x \in H
    OBVIOUS
  <2>1. \A y \in D : mu[y] < mu[x] => y \in H
    <3> SUFFICES ASSUME NEW y \in D, mu[y] < mu[x] PROVE y \in H
      OBVIOUS
    <3>1. mu[y] \in Nat /\ mu[y] < k
      OBVIOUS
    <3> QED BY <1>1, <3>1
  <2> QED BY <2>1
<1>2. N \in SUBSET Nat
  OBVIOUS
<1>3. \A k \in Nat : k \in N
  <2> HIDE DEF N
  <2> QED BY <1>1, <1>2, StrongInduction
<1>4. \A x \in D : mu[x] \in N
  <2> HIDE DEF N
  <2> QED BY <1>3
<1> QED BY <1>4
-----------------------------------------------------------------------------
(* Globs.                                                                    *)

Spots(p, n) == (1 .. Len(p) + 1) \X (1 .. Len(n) + 1)

(* From a spot on there are fewer letters left.                              *)
LEMMA SpotsAhead ==
  ASSUME NEW S, NEW p \in Seq(S), NEW T, NEW n \in Seq(T)
  PROVE  LET mu == [c \in Spots(p, n) |-> (Len(p) + 1 - c[1]) + (Len(n) + 1 - c[2])]
         IN /\ mu \in [Spots(p, n) -> Nat]
            /\ \A i \in 1 .. Len(p) + 1, j \in 1 .. Len(n) + 1 :
                 /\ <<i, j>> \in Spots(p, n) /\ i \in Int /\ j \in Int
                 /\ i <= Len(p) \/ i > Len(p)
                 /\ j <= Len(n) \/ j > Len(n)
                 /\ i <= Len(p) => /\ <<i + 1, j>> \in Spots(p, n)
                                   /\ mu[<<i + 1, j>>] < mu[<<i, j>>]
                 /\ j <= Len(n) => /\ <<i, j + 1>> \in Spots(p, n)
                                   /\ mu[<<i, j + 1>>] < mu[<<i, j>>]
                 /\ i <= Len(p) /\ j <= Len(n) =>
                      /\ <<i + 1, j + 1>> \in Spots(p, n)
                      /\ mu[<<i + 1, j + 1>>] < mu[<<i, j>>]
                 /\ i <= Len(p) => \A k \in j .. Len(n) + 1 :
                      /\ <<i + 1, k>> \in Spots(p, n)
                      /\ mu[<<i + 1, k>>] < mu[<<i, j>>]
<1> DEFINE D == Spots(p, n)
           mu == [c \in D |-> (Len(p) + 1 - c[1]) + (Len(n) + 1 - c[2])]
<1>1. Len(p) \in Nat /\ Len(n) \in Nat
  OBVIOUS
<1>2. mu \in [D -> Nat]
  BY <1>1 DEF Spots
<1>3. \A i \in 1 .. Len(p) + 1, j \in 1 .. Len(n) + 1 :
        <<i, j>> \in D /\ mu[<<i, j>>] = (Len(p) + 1 - i) + (Len(n) + 1 - j)
  BY DEF Spots
<1>4. ASSUME NEW i \in 1 .. Len(p) + 1, NEW j \in 1 .. Len(n) + 1,
             NEW k \in 1 .. Len(p) + 1, NEW l \in 1 .. Len(n) + 1, i <= k, j <= l, i < k \/ j < l
      PROVE  <<k, l>> \in D /\ mu[<<k, l>>] < mu[<<i, j>>]
  <2>1. <<k, l>> \in D /\ mu[<<k, l>>] = (Len(p) + 1 - k) + (Len(n) + 1 - l)
    BY <1>3
  <2>2. mu[<<i, j>>] = (Len(p) + 1 - i) + (Len(n) + 1 - j)
    BY <1>3
  <2>3. (Len(p) + 1 - k) + (Len(n) + 1 - l) < (Len(p) + 1 - i) + (Len(n) + 1 - j)
    BY <1>1, <1>4
  <2> HIDE DEF mu, D
  <2> QED BY <2>1, <2>2, <2>3
<1>5. ASSUME NEW i \in 1 .. Len(p) + 1, NEW j \in 1 .. Len(n) + 1
      PROVE  /\ i \in Int /\ j \in Int
             /\ i <= Len(p) \/ i > Len(p)
             /\ j <= Len(n) \/ j > Len(n)
             /\ i <= Len(p) => i + 1 \in 1 .. Len(p) + 1 /\ i <= i + 1 /\ i < i + 1
             /\ j <= Len(n) => j + 1 \in 1 .. Len(n) + 1 /\ j <= j + 1 /\ j < j + 1
             /\ i <= i /\ j <= j
             /\ \A k \in j .. Len(n) + 1 : k \in 1 .. Len(n) + 1 /\ j <= k
  BY <1>1, <1>5
<1> HIDE DEF mu, D
<1>6. \A i \in 1 .. Len(p) + 1, j \in 1 .. Len(n) + 1 :
        /\ <<i, j>> \in D /\ i \in Int /\ j \in Int
        /\ i <= Len(p) \/ i > Len(p)
        /\ j <= Len(n) \/ j > Len(n)
        /\ i <= Len(p) => <<i + 1, j>> \in D /\ mu[<<i + 1, j>>] < mu[<<i, j>>]
        /\ j <= Len(n) => <<i, j + 1>> \in D /\ mu[<<i, j + 1>>] < mu[<<i, j>>]
        /\ i <= Len(p) /\ j <= Len(n) =>
             <<i + 1, j + 1>> \in D /\ mu[<<i + 1, j + 1>>] < mu[<<i, j>>]
        /\ i <= Len(p) => \A k \in j .. Len(n) + 1 :
             <<i + 1, k>> \in D /\ mu[<<i + 1, k>>] < mu[<<i, j>>]
  <2> TAKE i \in 1 .. Len(p) + 1, j \in 1 .. Len(n) + 1
  <2>1. <<i, j>> \in D
    BY <1>3
  <2>2. i <= Len(p) => <<i + 1, j>> \in D /\ mu[<<i + 1, j>>] < mu[<<i, j>>]
    BY <1>4, <1>5
  <2>3. j <= Len(n) => <<i, j + 1>> \in D /\ mu[<<i, j + 1>>] < mu[<<i, j>>]
    BY <1>4, <1>5
  <2>4. i <= Len(p) /\ j <= Len(n) => <<i + 1, j + 1>> \in D /\ mu[<<i + 1, j + 1>>] < mu[<<i, j>>]
    BY <1>4, <1>5
  <2>5. i <= Len(p) => \A k \in j .. Len(n) + 1 :
          <<i + 1, k>> \in D /\ mu[<<i + 1, k>>] < mu[<<i, j>>]
    BY <1>4, <1>5
  <2> QED BY <1>5, <2>1, <2>2, <2>3, <2>4, <2>5
<1> QED BY <1>2, <1>6 DEF mu, D

(* What a glob means, spot by spot.                                          *)
LEMMA MeansIs ==
  ASSUME NEW S, NEW p \in Seq(S), NEW T, NEW n \in Seq(T)
  PROVE  /\ Means(p, n) \in [Spots(p, n) -> BOOLEAN]
         /\ \A i \in 1 .. Len(p) + 1, j \in 1 .. Len(n) + 1 :
              Means(p, n)[<<i, j>>] =
                IF i > Len(p) THEN j > Len(n)
                ELSE IF p[i] = "*" THEN Means(p, n)[<<i + 1, j>>] \/ (j <= Len(n) /\ Means(p, n)[<<i, j + 1>>])
                ELSE j <= Len(n) /\ p[i] = n[j] /\ Means(p, n)[<<i + 1, j + 1>>]
<1> DEFINE D == Spots(p, n)
           V == BOOLEAN
           Body(f, c) ==
             LET i == c[1]
                 j == c[2]
             IN IF i > Len(p) THEN j > Len(n)
                ELSE IF p[i] = "*" THEN f[<<i + 1, j>>] \/ (j <= Len(n) /\ f[<<i, j + 1>>])
                ELSE j <= Len(n) /\ p[i] = n[j] /\ f[<<i + 1, j + 1>>]
           mu == [c \in D |-> (Len(p) + 1 - c[1]) + (Len(n) + 1 - c[2])]
           G == [f \in [D -> V] |-> [c \in D |-> Body(f, c)]]
<1>1. Len(p) \in Nat /\ Len(n) \in Nat
  OBVIOUS
<1>2. ASSUME NEW f, NEW c \in D PROVE Body(f, c) \in V
  <2>1. PICK i \in 1 .. Len(p) + 1, j \in 1 .. Len(n) + 1 : c = <<i, j>>
    BY DEF Spots
  <2>2. c[1] = i /\ c[2] = j
    BY <2>1
  <2>3. (j > Len(n)) \in BOOLEAN
    BY <1>1
  <2> QED BY <2>2, <2>3, Zenon
<1>3. G \in [[D -> V] -> [D -> V]]
  <2> HIDE DEF Body
  <2> QED BY <1>2
<1>4. Local(G, D, V, mu)
  <2> SUFFICES ASSUME NEW f \in [D -> V], NEW g \in [D -> V], NEW x \in D,
                      \A y \in D : mu[y] < mu[x] => f[y] = g[y]
               PROVE  Body(f, x) = Body(g, x)
    BY DEF Local
  <2>1. PICK i \in 1 .. Len(p) + 1, j \in 1 .. Len(n) + 1 : x = <<i, j>>
    BY DEF Spots
  <2>2. x[1] = i /\ x[2] = j
    BY <2>1
  <2>3. /\ i <= Len(p) => f[<<i + 1, j>>] = g[<<i + 1, j>>]
        /\ j <= Len(n) => f[<<i, j + 1>>] = g[<<i, j + 1>>]
        /\ i <= Len(p) /\ j <= Len(n) => f[<<i + 1, j + 1>>] = g[<<i + 1, j + 1>>]
    BY <2>1, SpotsAhead, Zenon
  <2>4. i > Len(p) \/ i <= Len(p)
    BY <1>1
  <2> QED BY <2>2, <2>3, <2>4
<1>5. \E f \in [D -> V] : Solves(f, G)
  <2>1. TRUE \in V /\ mu \in [D -> Nat]
    BY SpotsAhead, Zenon
  <2> HIDE DEF D, V, mu, G
  <2> QED BY <1>3, <1>4, <2>1, Recursion, Zenon
<1>6. \E f \in [D -> V] : f = [c \in D |-> Body(f, c)]
  <2> HIDE DEF Body
  <2> QED BY <1>5 DEF Solves
<1>7. Means(p, n) = CHOOSE m : m = [c \in D |-> Body(m, c)]
  BY Zenon DEF Means, Spots
<1>8. Means(p, n) = [c \in D |-> Body(Means(p, n), c)]
  <2> HIDE DEF Body
  <2> QED BY <1>6, <1>7
<1>9. Means(p, n) \in [D -> V]
  <2> HIDE DEF Body
  <2>1. \A c \in D : Body(Means(p, n), c) \in V
    BY <1>2
  <2> QED BY <1>8, <2>1
<1>10. ASSUME NEW i \in 1 .. Len(p) + 1, NEW j \in 1 .. Len(n) + 1
       PROVE  Means(p, n)[<<i, j>>] = Body(Means(p, n), <<i, j>>)
  <2>1. <<i, j>> \in D
    BY DEF Spots
  <2> HIDE DEF Body
  <2> QED BY <1>8, <2>1
<1> QED BY <1>9, <1>10

(* A star stands for any number of letters.                                  *)
LEMMA StarMeans ==
  ASSUME NEW S, NEW p \in Seq(S), NEW T, NEW n \in Seq(T),
         NEW i \in 1 .. Len(p), p[i] = "*"
  PROVE  \A j \in 1 .. Len(n) + 1 :
           Means(p, n)[<<i, j>>] <=> \E k \in j .. Len(n) + 1 : Means(p, n)[<<i + 1, k>>]
<1> DEFINE m == Means(p, n)
           D == 1 .. Len(n) + 1
           mu == [j \in D |-> Len(n) + 1 - j]
           H == {j \in D : m[<<i, j>>] <=> \E k \in j .. Len(n) + 1 : m[<<i + 1, k>>]}
<1>1. Len(n) \in Nat /\ i \in 1 .. Len(p) + 1 /\ ~(i > Len(p))
  OBVIOUS
<1>2. mu \in [D -> Nat]
  BY <1>1
<1>3. ASSUME NEW j \in D, \A l \in D : mu[l] < mu[j] => l \in H PROVE j \in H
  <2>1. m[<<i, j>>] = (m[<<i + 1, j>>] \/ (j <= Len(n) /\ m[<<i, j + 1>>]))
    BY <1>1, MeansIs
  <2>2. CASE j <= Len(n)
    <3>1. j + 1 \in D /\ mu[j + 1] < mu[j]
      BY <1>1, <2>2
    <3>2. m[<<i, j + 1>>] <=> \E k \in j + 1 .. Len(n) + 1 : m[<<i + 1, k>>]
      BY <1>3, <3>1
    <3>3. j .. Len(n) + 1 = {j} \cup (j + 1 .. Len(n) + 1)
      BY <1>1, <2>2
    <3> QED BY <2>1, <2>2, <3>2, <3>3
  <2>3. CASE ~(j <= Len(n))
    <3>1. j .. Len(n) + 1 = {j}
      BY <1>1, <2>3
    <3> QED BY <2>1, <2>3, <3>1
  <2> QED BY <2>2, <2>3
<1>4. \A j \in D : j \in H
  <2> HIDE DEF D, mu, H
  <2> QED BY <1>2, <1>3, ByMeasure, Zenon
<1> QED BY <1>4

(* Where the letters of p from i to before e occur in n, after k letters.    *)
Occurs(p, i, e, n, k) ==
  k + (e - i) <= Len(n) /\ \A l \in 0 .. (e - i) - 1 : p[i + l] = n[k + 1 + l]

(* Letters stand for themselves.                                             *)
LEMMA LettersMean ==
  ASSUME NEW S, NEW p \in Seq(S), NEW T, NEW n \in Seq(T), NEW e \in 1 .. Len(p) + 1
  PROVE  \A i \in 1 .. e, j \in 1 .. Len(n) + 1 :
           (\A l \in i .. e - 1 : p[l] # "*") =>
             (Means(p, n)[<<i, j>>] <=>
                Occurs(p, i, e, n, j - 1) /\ Means(p, n)[<<e, j + (e - i)>>])
<1> DEFINE m == Means(p, n)
           D == 1 .. e
           mu == [i \in D |-> e - i]
           H == {i \in D : \A j \in 1 .. Len(n) + 1 :
                   (\A l \in i .. e - 1 : p[l] # "*") =>
                     (m[<<i, j>>] <=> Occurs(p, i, e, n, j - 1) /\ m[<<e, j + (e - i)>>])}
<1>1. Len(n) \in Nat /\ Len(p) \in Nat
  OBVIOUS
<1>2. mu \in [D -> Nat]
  BY <1>1
<1>3. ASSUME NEW i \in D, \A l \in D : mu[l] < mu[i] => l \in H PROVE i \in H
  <2> SUFFICES ASSUME NEW j \in 1 .. Len(n) + 1, \A l \in i .. e - 1 : p[l] # "*"
               PROVE  m[<<i, j>>] <=> Occurs(p, i, e, n, j - 1) /\ m[<<e, j + (e - i)>>]
    OBVIOUS
  <2>1. CASE i = e
    <3>1. Occurs(p, i, e, n, j - 1)
      BY <1>1, <2>1 DEF Occurs
    <3>2. j + (e - i) = j
      BY <2>1
    <3> QED BY <2>1, <3>1, <3>2
  <2>2. CASE i < e
    <3>1. i + 1 \in D /\ mu[i + 1] < mu[i] /\ i \in i .. e - 1 /\ i \in 1 .. Len(p) + 1 /\ ~(i > Len(p))
      BY <1>1, <2>2
    <3>2. p[i] # "*" /\ \A l \in i + 1 .. e - 1 : p[l] # "*"
      BY <2>2, <3>1
    <3>3. m[<<i, j>>] <=> j <= Len(n) /\ p[i] = n[j] /\ m[<<i + 1, j + 1>>]
      BY <3>1, <3>2, MeansIs
    <3>4. CASE ~(j <= Len(n))
      <4>1. ~Occurs(p, i, e, n, j - 1)
        BY <1>1, <2>2, <3>4 DEF Occurs
      <4> QED BY <3>3, <3>4, <4>1
    <3>5. CASE j <= Len(n)
      <4>1. j + 1 \in 1 .. Len(n) + 1 /\ (j + 1) - 1 = j /\ (j + 1) + (e - (i + 1)) = j + (e - i)
        BY <1>1, <2>2, <3>5
      <4>2. m[<<i + 1, j + 1>>] <=> Occurs(p, i + 1, e, n, (j + 1) - 1) /\ m[<<e, (j + 1) + (e - (i + 1))>>]
        <5>1. i + 1 \in H
          BY <1>3, <3>1
        <5> QED BY <3>2, <4>1, <5>1
      <4>3. Occurs(p, i, e, n, j - 1) <=> p[i] = n[j] /\ Occurs(p, i + 1, e, n, j)
        <5>1. j + (e - (i + 1)) <= Len(n) <=> (j - 1) + (e - i) <= Len(n)
          BY <1>1, <2>2
        <5>2. ASSUME Occurs(p, i, e, n, j - 1) PROVE p[i] = n[j] /\ Occurs(p, i + 1, e, n, j)
          <6>1. \A l \in 0 .. (e - i) - 1 : p[i + l] = n[(j - 1) + 1 + l]
            BY <5>2 DEF Occurs
          <6>2. 0 \in 0 .. (e - i) - 1 /\ i + 0 = i /\ (j - 1) + 1 + 0 = j
            BY <2>2
          <6>3. p[i] = n[j]
            <7>1. p[i + 0] = n[(j - 1) + 1 + 0]
              BY <6>1, <6>2
            <7> QED BY <6>2, <7>1
          <6>4. ASSUME NEW l \in 0 .. (e - (i + 1)) - 1 PROVE p[(i + 1) + l] = n[j + 1 + l]
            <7>1. l + 1 \in 0 .. (e - i) - 1 /\ i + (l + 1) = (i + 1) + l /\ (j - 1) + 1 + (l + 1) = j + 1 + l
              BY <1>1, <2>2
            <7>2. p[i + (l + 1)] = n[(j - 1) + 1 + (l + 1)]
              BY <6>1, <7>1
            <7> QED BY <7>1, <7>2
          <6> QED BY <5>1, <5>2, <6>3, <6>4 DEF Occurs
        <5>3. ASSUME p[i] = n[j], Occurs(p, i + 1, e, n, j) PROVE Occurs(p, i, e, n, j - 1)
          <6>1. \A l \in 0 .. (e - (i + 1)) - 1 : p[(i + 1) + l] = n[j + 1 + l]
            BY <5>3 DEF Occurs
          <6>2. ASSUME NEW l \in 0 .. (e - i) - 1 PROVE p[i + l] = n[(j - 1) + 1 + l]
            <7>1. CASE l = 0
              <8>1. i + l = i /\ (j - 1) + 1 + l = j
                BY <7>1
              <8> QED BY <5>3, <8>1
            <7>2. CASE l # 0
              <8>1. /\ l - 1 \in 0 .. (e - (i + 1)) - 1 /\ (i + 1) + (l - 1) = i + l
                    /\ j + 1 + (l - 1) = (j - 1) + 1 + l
                BY <1>1, <2>2, <7>2
              <8>2. p[(i + 1) + (l - 1)] = n[j + 1 + (l - 1)]
                BY <6>1, <8>1
              <8> QED BY <8>1, <8>2
            <7> QED BY <7>1, <7>2
          <6> QED BY <5>1, <5>3, <6>2 DEF Occurs
        <5> QED BY <5>2, <5>3
      <4> QED BY <3>3, <3>5, <4>1, <4>2, <4>3
    <3> QED BY <3>4, <3>5
  <2>3. i = e \/ i < e
    BY <1>1
  <2> QED BY <2>1, <2>2, <2>3
<1>4. \A i \in D : i \in H
  <2> HIDE DEF D, mu, H
  <2> QED BY <1>2, <1>3, ByMeasure, Zenon
<1> QED BY <1>4

(* Where a part ends.                                                        *)
LEMMA PartEndIs ==
  ASSUME NEW S, NEW p \in Seq(S), NEW i \in 1 .. Len(p) + 1
  PROVE  /\ PartEnd(p, i) \in i .. Len(p) + 1
         /\ \A l \in i .. PartEnd(p, i) - 1 : p[l] # "*"
         /\ PartEnd(p, i) <= Len(p) => p[PartEnd(p, i)] = "*"
<1> DEFINE E == {e \in i .. Len(p) : p[e] = "*"} \cup {Len(p) + 1}
<1>1. Len(p) \in Nat
  OBVIOUS
<1>2. E \in SUBSET Nat /\ E # {}
  BY <1>1
<1>3. PartEnd(p, i) \in E /\ \A e \in E : PartEnd(p, i) <= e
  <2>1. PartEnd(p, i) = Min(E)
    BY DEF PartEnd
  <2> HIDE DEF E
  <2> QED BY <1>2, <2>1, MinIs
<1> DEFINE end == PartEnd(p, i)
<1> HIDE DEF end
<1>4. end \in i .. Len(p) + 1 /\ (end <= Len(p) => p[end] = "*")
  <2>1. end \in E
    BY <1>3 DEF end
  <2> QED BY <1>1, <2>1
<1>5. ASSUME NEW l \in i .. end - 1 PROVE p[l] # "*"
  <2>1. l \in i .. Len(p) /\ ~(end <= l)
    BY <1>1, <1>4
  <2>2. l \notin E
    BY <1>3, <2>1 DEF end
  <2> QED BY <2>1, <2>2
<1> QED BY <1>4, <1>5 DEF end

(* Where it occurs from a cursor on.                                         *)
LEMMA OccurrencesAre ==
  ASSUME NEW S, NEW p \in Seq(S), NEW T, NEW n \in Seq(T),
         NEW i \in 1 .. Len(p) + 1, NEW e \in i .. Len(p) + 1, NEW cursor \in Nat
  PROVE  LET at == Occurrences(SubSeq(p, i, e - 1), n, cursor)
         IN /\ at \in SUBSET Nat
            /\ \A k \in Int : k \in at <=> cursor <= k /\ Occurs(p, i, e, n, k)
<1> DEFINE part == SubSeq(p, i, e - 1)
           at == Occurrences(part, n, cursor)
<1>1. Len(n) \in Nat /\ Len(p) \in Nat /\ i \in Int /\ e \in Int
  OBVIOUS
<1>2. part \in Seq(S) /\ Len(part) = e - i /\ \A l \in 1 .. e - i : part[l] = p[i + l - 1]
  <2>1. i \in 1 .. Len(p) + 1 /\ e - 1 \in i - 1 .. Len(p)
    BY <1>1
  <2>2. e - 1 - i + 1 = e - i
    BY <1>1
  <2>3. Len(part) = IF i <= e - 1 THEN e - 1 - i + 1 ELSE 0
    BY <1>1, <2>1
  <2>4. Len(part) = e - i
    BY <1>1, <2>2, <2>3
  <2>5. \A l \in 1 .. e - i : part[l] = p[i + l - 1]
    BY <1>1, <2>1, <2>4
  <2>6. part \in Seq(S)
    BY <1>1, <2>1
  <2> QED BY <2>4, <2>5, <2>6
<1>3. ASSUME NEW k \in Int PROVE k \in at <=> cursor <= k /\ Occurs(p, i, e, n, k)
  <2> HIDE DEF part
  <2>1. k \in at <=> k \in cursor .. Len(n) - Len(part) /\ SubSeq(n, k + 1, k + Len(part)) = part
    BY DEF Occurrences
  <2>2. CASE k \in cursor .. Len(n) - Len(part)
    <3> DEFINE sub == SubSeq(n, k + 1, k + Len(part))
    <3>1. /\ sub \in Seq(T) /\ Len(sub) = e - i
          /\ \A l \in 1 .. e - i : sub[l] = n[k + l]
      <4>1. /\ k + 1 \in 1 .. Len(n) + 1 /\ k + Len(part) \in k .. Len(n)
            /\ k + Len(part) - (k + 1) + 1 = Len(part)
        BY <1>1, <1>2, <2>2
      <4>2. sub \in Seq(T) /\ Len(sub) = Len(part)
        BY <1>1, <1>2, <2>2, <4>1
      <4>3. \A l \in 1 .. e - i : sub[l] = n[k + 1 + l - 1] /\ k + 1 + l - 1 = k + l
        BY <1>1, <1>2, <2>2, <4>1, <4>2
      <4> QED BY <1>2, <4>2, <4>3
    <3> HIDE DEF sub
    <3>2. sub = part <=> \A l \in 1 .. e - i : n[k + l] = p[i + l - 1]
      <4>1. sub = part => \A l \in 1 .. e - i : n[k + l] = p[i + l - 1]
        BY <1>2, <3>1
      <4>2. ASSUME \A l \in 1 .. e - i : n[k + l] = p[i + l - 1] PROVE sub = part
        <5>1. \A l \in 1 .. e - i : sub[l] = part[l]
          BY <1>2, <3>1, <4>2
        <5>2. sub \in Seq(S \cup T) /\ part \in Seq(S \cup T)
          BY <1>2, <3>1
        <5> QED BY <1>2, <3>1, <5>1, <5>2, SeqEqual
      <4> QED BY <4>1, <4>2
    <3>3. (\A l \in 1 .. e - i : n[k + l] = p[i + l - 1])
            <=> \A l \in 0 .. (e - i) - 1 : p[i + l] = n[k + 1 + l]
      <4>1. ASSUME \A l \in 1 .. e - i : n[k + l] = p[i + l - 1], NEW l \in 0 .. (e - i) - 1
            PROVE  p[i + l] = n[k + 1 + l]
        <5>1. l + 1 \in 1 .. e - i /\ k + (l + 1) = k + 1 + l /\ i + (l + 1) - 1 = i + l
          BY <1>1
        <5>2. n[k + (l + 1)] = p[i + (l + 1) - 1]
          BY <4>1, <5>1
        <5> QED BY <5>1, <5>2
      <4>2. ASSUME \A l \in 0 .. (e - i) - 1 : p[i + l] = n[k + 1 + l], NEW l \in 1 .. e - i
            PROVE  n[k + l] = p[i + l - 1]
        <5>1. l - 1 \in 0 .. (e - i) - 1 /\ i + (l - 1) = i + l - 1 /\ k + 1 + (l - 1) = k + l
          BY <1>1
        <5>2. p[i + (l - 1)] = n[k + 1 + (l - 1)]
          BY <4>2, <5>1
        <5> QED BY <5>1, <5>2
      <4> QED BY <4>1, <4>2
    <3>4. cursor <= k /\ k + (e - i) <= Len(n)
      BY <1>1, <1>2, <2>2
    <3> QED BY <2>1, <2>2, <3>2, <3>3, <3>4 DEF Occurs, sub
  <2>3. CASE k \notin cursor .. Len(n) - Len(part)
    <3>1. ~(cursor <= k /\ k + (e - i) <= Len(n))
      BY <1>1, <1>2, <2>3
    <3> QED BY <2>1, <2>3, <3>1 DEF Occurs
  <2> QED BY <2>2, <2>3
<1>4. at \in SUBSET Nat
  <2> HIDE DEF part
  <2>1. at \in SUBSET (cursor .. Len(n) - Len(part))
    BY DEF Occurrences
  <2>2. cursor .. Len(n) - Len(part) \in SUBSET Nat
    BY <1>1, <1>2
  <2> QED BY <2>1, <2>2
<1> QED BY <1>3, <1>4

(* Whether the parts fit, part by part.                                      *)
FitsBy(p, n, i, j, end, at) ==
  /\ end > Len(p) => PartsFit(p, n)[<<i, j>>] = (Len(n) - (end - i) \in at)
  /\ end <= Len(p) /\ i = 1 =>
       PartsFit(p, n)[<<i, j>>] = (0 \in at /\ PartsFit(p, n)[<<end + 1, end - i>>])
  /\ end <= Len(p) /\ i # 1 =>
       PartsFit(p, n)[<<i, j>>] = (at # {} /\ PartsFit(p, n)[<<end + 1, Min(at) + (end - i)>>])

(* The function PartsFit says of every place and part what FitsBy says.      *)
LEMMA PartsFitIs ==
  ASSUME NEW S, NEW p \in Seq(S), NEW T, NEW n \in Seq(T)
  PROVE  \A i \in 1 .. Len(p) + 1, j \in 0 .. Len(n) :
           FitsBy(p, n, i, j, PartEnd(p, i), Occurrences(SubSeq(p, i, PartEnd(p, i) - 1), n, j))
<1> DEFINE D == (1 .. Len(p) + 1) \X (0 .. Len(n))
           V == BOOLEAN
           At(i, j) == Occurrences(SubSeq(p, i, PartEnd(p, i) - 1), n, j)
           Body(f, c) ==
             LET i == c[1]
                 end == PartEnd(p, i)
                 len == end - i
                 at == At(i, c[2])
             IN IF end > Len(p) THEN Len(n) - len \in at
                ELSE IF i = 1 THEN 0 \in at /\ f[<<end + 1, len>>]
                ELSE at # {} /\ f[<<end + 1, Min(at) + len>>]
           mu == [c \in D |-> Len(p) + 1 - c[1]]
           G == [f \in [D -> V] |-> [c \in D |-> Body(f, c)]]
<1>1. Len(p) \in Nat /\ Len(n) \in Nat
  OBVIOUS
<1>2. ASSUME NEW f, NEW c \in D PROVE Body(f, c) \in V
  <2> HIDE DEF At
  <2>1. CASE PartEnd(p, c[1]) > Len(p)
    <3>1. (Len(n) - (PartEnd(p, c[1]) - c[1]) \in At(c[1], c[2])) \in BOOLEAN
      BY SMT
    <3> QED BY <2>1, <3>1, Zenon
  <2>2. CASE ~(PartEnd(p, c[1]) > Len(p)) /\ c[1] = 1
    BY <2>2, Zenon
  <2>3. CASE ~(PartEnd(p, c[1]) > Len(p)) /\ c[1] # 1
    BY <2>3, Zenon
  <2> QED BY <2>1, <2>2, <2>3, Zenon
<1>3. G \in [[D -> V] -> [D -> V]]
  <2> HIDE DEF Body
  <2> QED BY <1>2
<1>m. mu \in [D -> Nat] /\ \A i \in 1 .. Len(p) + 1, j \in 0 .. Len(n) : mu[<<i, j>>] = Len(p) + 1 - i
  BY <1>1
<1>4. ASSUME NEW i \in 1 .. Len(p) + 1, NEW j \in 0 .. Len(n), PartEnd(p, i) <= Len(p)
      PROVE  LET end == PartEnd(p, i)
                 len == end - i
             IN /\ 0 \in At(i, j) => /\ <<end + 1, len>> \in D
                                     /\ mu[<<end + 1, len>>] < mu[<<i, j>>]
                /\ At(i, j) # {} => /\ <<end + 1, Min(At(i, j)) + len>> \in D
                                    /\ mu[<<end + 1, Min(At(i, j)) + len>>] < mu[<<i, j>>]
  <2> DEFINE end == PartEnd(p, i)
             len == end - i
  <2>1. end \in i .. Len(p) + 1 /\ end <= Len(p)
    BY <1>4, PartEndIs
  <2>2. At(i, j) \in SUBSET Nat /\ \A k \in Int : k \in At(i, j) => k + len <= Len(n)
    <3> HIDE DEF end
    <3>1. At(i, j) = Occurrences(SubSeq(p, i, end - 1), n, j)
      BY DEF end
    <3>2. j \in Nat /\ end \in i .. Len(p) + 1
      BY <2>1
    <3> HIDE DEF At
    <3>3. At(i, j) \in SUBSET Nat /\ \A k \in Int : k \in At(i, j) <=> j <= k /\ Occurs(p, i, end, n, k)
      BY <3>1, <3>2, OccurrencesAre
    <3> QED BY <3>3 DEF Occurs
  <2>3. ASSUME NEW k \in At(i, j) PROVE <<end + 1, k + len>> \in D /\ mu[<<end + 1, k + len>>] < mu[<<i, j>>]
    <3> HIDE DEF end, At
    <3>1. end + 1 \in 1 .. Len(p) + 1 /\ k + len \in 0 .. Len(n) /\ Len(p) + 1 - (end + 1) < Len(p) + 1 - i
      BY <1>1, <2>1, <2>2, <2>3
    <3> HIDE DEF mu
    <3> QED BY <1>m, <3>1
  <2>4. 0 + len = len
    BY <2>1
  <2>5. At(i, j) # {} => Min(At(i, j)) \in At(i, j)
    <3> HIDE DEF At
    <3> QED BY <2>2, MinIs
  <2> HIDE DEF end, At, D, mu
  <2>6. 0 \in At(i, j) => <<end + 1, len>> \in D /\ mu[<<end + 1, len>>] < mu[<<i, j>>]
    BY <2>3, <2>4
  <2>7. At(i, j) # {} => /\ <<end + 1, Min(At(i, j)) + len>> \in D
                         /\ mu[<<end + 1, Min(At(i, j)) + len>>] < mu[<<i, j>>]
    BY <2>3, <2>5
  <2> QED BY <2>6, <2>7 DEF end
<1>5. Local(G, D, V, mu)
  <2>1. ASSUME NEW f \in [D -> V], NEW g \in [D -> V], NEW x \in D,
               \A y \in D : mu[y] < mu[x] => f[y] = g[y]
        PROVE  Body(f, x) = Body(g, x)
    <3>1. PICK i \in 1 .. Len(p) + 1, j \in 0 .. Len(n) : x = <<i, j>>
      OBVIOUS
    <3>2. x[1] = i /\ x[2] = j
      BY <3>1
    <3>3. PartEnd(p, i) \in Int
      BY PartEndIs
    <3>4. CASE PartEnd(p, i) > Len(p)
      <4> HIDE DEF At, D, mu
      <4> QED BY <3>2, <3>4
    <3>5. CASE PartEnd(p, i) <= Len(p)
      <4>1. /\ 0 \in At(i, j) => f[<<PartEnd(p, i) + 1, PartEnd(p, i) - i>>] = g[<<PartEnd(p, i) + 1, PartEnd(p, i) - i>>]
            /\ At(i, j) # {} => f[<<PartEnd(p, i) + 1, Min(At(i, j)) + (PartEnd(p, i) - i)>>]
                                  = g[<<PartEnd(p, i) + 1, Min(At(i, j)) + (PartEnd(p, i) - i)>>]
        <5> HIDE DEF D, mu, At
        <5> QED BY <1>4, <2>1, <3>1, <3>5
      <4> HIDE DEF At, D, mu
      <4> QED BY <3>2, <4>1
    <3> QED BY <1>1, <3>3, <3>4, <3>5
  <2>2. \A f \in [D -> V] : \A x \in D : G[f][x] = Body(f, x)
    <3> HIDE DEF Body
    <3> QED OBVIOUS
  <2> HIDE DEF G, D, V, mu, Body
  <2>3. ASSUME NEW f \in [D -> V], NEW g \in [D -> V], NEW x \in D,
               \A y \in D : mu[y] < mu[x] => f[y] = g[y]
        PROVE  G[f][x] = G[g][x]
    BY <2>1, <2>2, <2>3
  <2> QED BY <2>3 DEF Local
<1>6. \E f \in [D -> V] : Solves(f, G)
  <2>1. TRUE \in V
    OBVIOUS
  <2> HIDE DEF D, V, mu, G
  <2> QED BY <1>3, <1>m, <1>5, <2>1, Recursion, Zenon
<1>7. \E f \in [D -> V] : f = [c \in D |-> Body(f, c)]
  <2> HIDE DEF Body
  <2> QED BY <1>6 DEF Solves
<1>8. PartsFit(p, n) = CHOOSE m : m = [c \in D |-> Body(m, c)]
  BY Zenon DEF PartsFit
<1>9. PartsFit(p, n) = [c \in D |-> Body(PartsFit(p, n), c)]
  <2> HIDE DEF Body
  <2> QED BY <1>7, <1>8
<1>10. ASSUME NEW i \in 1 .. Len(p) + 1, NEW j \in 0 .. Len(n)
       PROVE  PartsFit(p, n)[<<i, j>>] = Body(PartsFit(p, n), <<i, j>>)
  <2>1. <<i, j>> \in D
    OBVIOUS
  <2> HIDE DEF Body
  <2> QED BY <1>9, <2>1
<1> HIDE DEF D, At
<1>11. ASSUME NEW i \in 1 .. Len(p) + 1, NEW j \in 0 .. Len(n)
       PROVE  FitsBy(p, n, i, j, PartEnd(p, i), At(i, j))
  <2>1. <<i, j>>[1] = i /\ <<i, j>>[2] = j
    OBVIOUS
  <2>2. PartsFit(p, n)[<<i, j>>] = Body(PartsFit(p, n), <<i, j>>)
    <3> HIDE DEF Body
    <3> QED BY <1>10
  <2>3. PartEnd(p, i) \in Int
    BY PartEndIs
  <2>4. PartEnd(p, i) <= Len(p) => ~(PartEnd(p, i) > Len(p))
    BY <1>1, <2>3
  <2> QED BY <2>1, <2>2, <2>4, Zenon DEF FitsBy
<1> QED BY <1>11, Zenon DEF At

(* What fits behind a star is what the star and the rest mean: to take each  *)
(* part at the first place loses nothing, as the next star makes it up.      *)
LEMMA FitIsMeant ==
  ASSUME NEW S, NEW p \in Seq(S), NEW T, NEW n \in Seq(T)
  PROVE  \A i \in 2 .. Len(p) + 1 : p[i - 1] = "*" =>
           \A j \in 0 .. Len(n) : PartsFit(p, n)[<<i, j>>] <=> Means(p, n)[<<i - 1, j + 1>>]
<1> DEFINE m == Means(p, n)
           fit == PartsFit(p, n)
           D == 2 .. Len(p) + 1
           mu == [i \in D |-> Len(p) + 1 - i]
           H == {i \in D : p[i - 1] = "*" => \A j \in 0 .. Len(n) : fit[<<i, j>>] <=> m[<<i - 1, j + 1>>]}
<1>1. Len(n) \in Nat /\ Len(p) \in Nat
  OBVIOUS
<1>2. mu \in [D -> Nat]
  BY <1>1
<1>5. \A i \in 1 .. Len(p) + 1, j \in 1 .. Len(n) + 1 :
        i > Len(p) => (Means(p, n)[<<i, j>>] <=> j > Len(n))
  <2> TAKE i \in 1 .. Len(p) + 1, j \in 1 .. Len(n) + 1
  <2> HAVE i > Len(p)
  <2> QED BY MeansIs
<1>3. ASSUME NEW i \in D, \A l \in D : mu[l] < mu[i] => l \in H PROVE i \in H
  <2> SUFFICES ASSUME p[i - 1] = "*", NEW j \in 0 .. Len(n)
               PROVE  fit[<<i, j>>] <=> m[<<i - 1, j + 1>>]
    OBVIOUS
  <2> DEFINE end == PartEnd(p, i)
             len == end - i
             at == Occurrences(SubSeq(p, i, end - 1), n, j)
  <2>1. /\ i \in 1 .. Len(p) + 1 /\ i # 1 /\ i - 1 \in 1 .. Len(p) /\ (i - 1) + 1 = i
        /\ j + 1 \in 1 .. Len(n) + 1 /\ j \in Nat
    BY <1>1
  <2>2. /\ end \in i .. Len(p) + 1 /\ \A l \in i .. end - 1 : p[l] # "*"
        /\ end <= Len(p) => p[end] = "*"
    BY <2>1, PartEndIs
  <2>3. fit[<<i, j>>] = IF end > Len(p) THEN Len(n) - len \in at
                        ELSE at # {} /\ fit[<<end + 1, Min(at) + len>>]
    <3>1. /\ end > Len(p) => fit[<<i, j>>] = (Len(n) - len \in at)
          /\ end <= Len(p) => fit[<<i, j>>] = (at # {} /\ fit[<<end + 1, Min(at) + len>>])
      <4>1. FitsBy(p, n, i, j, PartEnd(p, i), Occurrences(SubSeq(p, i, PartEnd(p, i) - 1), n, j))
        BY <2>1, PartsFitIs
      <4> QED BY <2>1, <4>1 DEF FitsBy
    <3>2. end > Len(p) \/ (end <= Len(p) /\ ~(end > Len(p)))
      BY <1>1, <2>2
    <3> HIDE DEF fit, at, end
    <3> QED BY <2>1, <3>1, <3>2
  <2> HIDE DEF end
  <2>4. at \in SUBSET Nat /\ \A k \in Int : k \in at <=> j <= k /\ Occurs(p, i, end, n, k)
    BY <2>1, <2>2, OccurrencesAre
  <2>5. m[<<i - 1, j + 1>>] <=> \E k \in j + 1 .. Len(n) + 1 : m[<<i, k>>]
    <3>1. \A k \in 1 .. Len(n) + 1 :
            Means(p, n)[<<i - 1, k>>] <=> \E l \in k .. Len(n) + 1 : Means(p, n)[<<(i - 1) + 1, l>>]
      BY <2>1, StarMeans
    <3> QED BY <2>1, <3>1
  <2>6. \A k \in 1 .. Len(n) + 1 : m[<<i, k>>] <=> Occurs(p, i, end, n, k - 1) /\ m[<<end, k + len>>]
    <3>1. end \in 1 .. Len(p) + 1 /\ i \in 1 .. end
      BY <1>1, <2>2
    <3> QED BY <2>2, <3>1, LettersMean
  <2> HIDE DEF at, fit, m
  <2>7. \A k \in Int : Occurs(p, i, end, n, k) => k + len <= Len(n)
    BY DEF Occurs
  <2>8. m[<<i - 1, j + 1>>] <=> \E k \in at : m[<<end, k + 1 + len>>]
    <3>1. ASSUME NEW k \in j + 1 .. Len(n) + 1, m[<<i, k>>] PROVE \E l \in at : m[<<end, l + 1 + len>>]
      <4>1. k \in 1 .. Len(n) + 1 /\ k - 1 \in Int /\ j <= k - 1 /\ (k - 1) + 1 + len = k + len
        BY <1>1, <2>2
      <4>2. k - 1 \in at /\ m[<<end, (k - 1) + 1 + len>>]
        BY <2>4, <2>6, <3>1, <4>1
      <4> QED BY <4>2
    <3>2. ASSUME NEW l \in at, m[<<end, l + 1 + len>>] PROVE \E k \in j + 1 .. Len(n) + 1 : m[<<i, k>>]
      <4>1. l \in Int /\ j <= l /\ Occurs(p, i, end, n, l)
        BY <2>4
      <4>2. l + len <= Len(n)
        BY <2>7, <4>1
      <4>3. l + 1 \in j + 1 .. Len(n) + 1 /\ l + 1 \in 1 .. Len(n) + 1 /\ (l + 1) - 1 = l
        BY <1>1, <2>2, <4>1, <4>2
      <4>4. m[<<i, l + 1>>]
        BY <2>6, <3>2, <4>1, <4>3
      <4> QED BY <4>3, <4>4
    <3> QED BY <2>5, <3>1, <3>2
  <2>9. CASE end > Len(p)
    <3>1. end = Len(p) + 1 /\ end \in 1 .. Len(p) + 1
      BY <1>1, <2>2, <2>9
    <3>2. \A k \in 1 .. Len(n) + 1 : m[<<end, k>>] <=> k > Len(n)
      <4> SUFFICES ASSUME NEW k \in 1 .. Len(n) + 1 PROVE Means(p, n)[<<end, k>>] <=> k > Len(n)
        BY DEF m
      <4> QED BY <1>5, <2>9, <3>1
    <3>3. \A k \in at : k \in Int /\ k + 1 + len \in 1 .. Len(n) + 1
      BY <1>1, <2>2, <2>4, <2>7
    <3>4. \A k \in at : m[<<end, k + 1 + len>>] <=> k = Len(n) - len
      <4> SUFFICES ASSUME NEW k \in at PROVE m[<<end, k + 1 + len>>] <=> k = Len(n) - len
        OBVIOUS
      <4>1. m[<<end, k + 1 + len>>] <=> k + 1 + len > Len(n)
        BY <3>2, <3>3
      <4>2. k + 1 + len > Len(n) <=> k = Len(n) - len
        BY <1>1, <2>2, <3>3
      <4> QED BY <4>1, <4>2
    <3> QED BY <2>3, <2>8, <2>9, <3>4
  <2>10. CASE ~(end > Len(p))
    <3>1. end \in 1 .. Len(p) /\ p[end] = "*" /\ end + 1 \in D /\ (end + 1) - 1 = end /\ mu[end + 1] < mu[i]
      BY <1>1, <2>2, <2>10
    <3>2. \A k \in 0 .. Len(n) : fit[<<end + 1, k>>] <=> m[<<end, k + 1>>]
      <4>1. end + 1 \in H
        BY <1>3, <3>1
      <4> QED BY <3>1, <4>1
    <3>3. ASSUME NEW k \in at, NEW l \in at, k <= l, m[<<end, l + 1 + len>>]
          PROVE  m[<<end, k + 1 + len>>]
      <4>1. \A x \in 1 .. Len(n) + 1 : m[<<end, x>>] <=> \E y \in x .. Len(n) + 1 : m[<<end + 1, y>>]
        BY <3>1, StarMeans DEF m
      <4>2. k + 1 + len \in 1 .. Len(n) + 1 /\ l + 1 + len \in 1 .. Len(n) + 1
        BY <1>1, <2>2, <2>4, <2>7
      <4>3. PICK y \in l + 1 + len .. Len(n) + 1 : m[<<end + 1, y>>]
        BY <3>3, <4>1, <4>2
      <4>4. y \in k + 1 + len .. Len(n) + 1
        <5>1. k \in Int /\ l \in Int /\ len \in Int /\ k <= l
          BY <2>2, <2>4, <3>3
        <5>2. y \in Int /\ y <= Len(n) + 1 /\ l + 1 + len <= y
          BY <1>1, <4>2, <5>1
        <5> HIDE DEF len
        <5> QED BY <1>1, <5>1, <5>2
      <4> QED BY <4>1, <4>2, <4>3, <4>4
    <3>4. CASE at = {}
      BY <2>3, <2>8, <2>10, <3>4
    <3>5. CASE at # {}
      <4>1. PICK k \in at : k = Min(at) /\ \A l \in at : k <= l
        BY <2>4, <3>5, MinIs
      <4>2. (\E l \in at : m[<<end, l + 1 + len>>]) <=> m[<<end, k + 1 + len>>]
        BY <3>3, <4>1
      <4>3. k + len \in 0 .. Len(n) /\ (k + len) + 1 = k + 1 + len
        BY <1>1, <2>2, <2>4, <2>7
      <4>4. fit[<<end + 1, k + len>>] <=> m[<<end, k + 1 + len>>]
        <5>1. fit[<<end + 1, k + len>>] <=> m[<<end, (k + len) + 1>>]
          BY <3>2, <4>3
        <5> QED BY <4>3, <5>1
      <4> QED BY <2>3, <2>8, <2>10, <3>5, <4>1, <4>2, <4>4
    <3> QED BY <3>4, <3>5
  <2> QED BY <2>9, <2>10
<1>4. \A i \in D : i \in H
  <2> HIDE DEF D, mu, H
  <2> QED BY <1>2, <1>3, ByMeasure, Zenon
<1> QED BY <1>4

(* glob_match (policy.rs) computes what a glob means, for any glob and name: *)
(* to take the leftmost place of each part loses no match.                   *)
THEOREM GlobMatchIsMeant ==
  ASSUME NEW S, NEW p \in Seq(S), NEW T, NEW n \in Seq(T)
  PROVE  GlobMatch(p, n) = GlobMeans(p, n)
<1> DEFINE m == Means(p, n)
           end == PartEnd(p, 1)
           at == Occurrences(SubSeq(p, 1, end - 1), n, 0)
<1>1. /\ Len(n) \in Nat /\ Len(p) \in Nat /\ 1 \in 1 .. Len(p) + 1 /\ 1 \in 1 .. Len(n) + 1
      /\ 0 \in 0 .. Len(n) /\ 0 \in Nat
  OBVIOUS
<1>2. /\ end \in 1 .. Len(p) + 1 /\ \A l \in 1 .. end - 1 : p[l] # "*"
      /\ end <= Len(p) => p[end] = "*"
  BY <1>1, PartEndIs
<1>3. at \in SUBSET Nat /\ \A k \in Int : k \in at <=> 0 <= k /\ Occurs(p, 1, end, n, k)
  <2> HIDE DEF end
  <2> QED BY <1>1, <1>2, OccurrencesAre
<1>4. PartsFit(p, n)[<<1, 0>>] = IF end > Len(p) THEN Len(n) - (end - 1) \in at
                                 ELSE 0 \in at /\ PartsFit(p, n)[<<end + 1, end - 1>>]
  <2>1. /\ end > Len(p) => PartsFit(p, n)[<<1, 0>>] = (Len(n) - (end - 1) \in at)
        /\ end <= Len(p) => PartsFit(p, n)[<<1, 0>>] = (0 \in at /\ PartsFit(p, n)[<<end + 1, end - 1>>])
    <3>1. FitsBy(p, n, 1, 0, PartEnd(p, 1), Occurrences(SubSeq(p, 1, PartEnd(p, 1) - 1), n, 0))
      BY <1>1, PartsFitIs
    <3> QED BY <3>1 DEF FitsBy
  <2>2. end > Len(p) \/ (end <= Len(p) /\ ~(end > Len(p)))
    BY <1>1, <1>2
  <2> HIDE DEF at, end
  <2> QED BY <2>1, <2>2
<1> HIDE DEF end
<1>5. m[<<1, 1>>] <=> Occurs(p, 1, end, n, 0) /\ m[<<end, 1 + (end - 1)>>]
  <2>1. Means(p, n)[<<1, 1>>] <=> Occurs(p, 1, end, n, 1 - 1) /\ Means(p, n)[<<end, 1 + (end - 1)>>]
    <3>1. 1 \in 1 .. end
      BY <1>2
    <3> QED BY <1>1, <1>2, <3>1, LettersMean
  <2> QED BY <2>1
<1>6. 1 + (end - 1) = end
  BY <1>2
<1>9. m[<<1, 1>>] \in BOOLEAN
  <2>1. <<1, 1>> \in Spots(p, n)
    BY <1>1 DEF Spots
  <2> QED BY <2>1, MeansIs
<1> HIDE DEF at, m
<1>7. CASE end = Len(p) + 1
  <2>1. "*" \notin ToSet(p)
    <3>1. ToSet(p) = {p[l] : l \in 1 .. Len(p)}
      BY DEF ToSet
    <3>2. \A l \in 1 .. Len(p) : l \in 1 .. end - 1
      BY <1>1, <1>7
    <3> QED BY <1>2, <3>1, <3>2
  <2>2. (Occurs(p, 1, end, n, 0) /\ m[<<end, end>>]) <=> p = n
    <3>1. Occurs(p, 1, end, n, 0) <=> Len(p) <= Len(n) /\ \A l \in 0 .. Len(p) - 1 : p[1 + l] = n[0 + 1 + l]
      <4>1. 0 + (end - 1) = Len(p) /\ (end - 1) - 1 = Len(p) - 1
        BY <1>1, <1>7
      <4> QED BY <4>1 DEF Occurs
    <3>2. Len(p) <= Len(n) => (m[<<end, end>>] <=> Len(p) + 1 > Len(n))
      <4>1. end \in 1 .. Len(p) + 1 /\ end > Len(p) /\ (Len(p) <= Len(n) => end \in 1 .. Len(n) + 1)
        BY <1>1, <1>7
      <4>2. Len(p) <= Len(n) => (m[<<end, end>>] <=> end > Len(n))
        BY <4>1, MeansIs DEF m
      <4> QED BY <1>7, <4>2
    <3>3. ASSUME Occurs(p, 1, end, n, 0), m[<<end, end>>] PROVE p = n
      <4>1. Len(p) = Len(n)
        BY <1>1, <3>1, <3>2, <3>3
      <4>2. ASSUME NEW k \in 1 .. Len(p) PROVE p[k] = n[k]
        <5>1. k - 1 \in 0 .. Len(p) - 1 /\ 1 + (k - 1) = k /\ 0 + 1 + (k - 1) = k
          OBVIOUS
        <5>2. p[1 + (k - 1)] = n[0 + 1 + (k - 1)]
          BY <3>1, <3>3, <5>1
        <5> QED BY <5>1, <5>2
      <4>3. p \in Seq(S \cup T) /\ n \in Seq(S \cup T)
        OBVIOUS
      <4> QED BY <4>1, <4>2, <4>3, SeqEqual
    <3>4. ASSUME p = n PROVE Occurs(p, 1, end, n, 0) /\ m[<<end, end>>]
      <4>1. Len(p) <= Len(n) /\ Len(p) + 1 > Len(n)
        BY <1>1, <3>4
      <4>2. \A l \in 0 .. Len(p) - 1 : p[1 + l] = n[0 + 1 + l]
        BY <3>4
      <4> QED BY <3>1, <3>2, <4>1, <4>2
    <3> QED BY <3>3, <3>4
  <2>3. m[<<1, 1>>] = (p = n)
    BY <1>5, <1>6, <1>9, <2>2
  <2> QED BY <2>1, <2>3, Zenon DEF GlobMatch, GlobMeans, m
<1>8. CASE end # Len(p) + 1
  <2>1. end \in 1 .. Len(p) /\ p[end] = "*" /\ ~(end > Len(p)) /\ end + 1 \in 2 .. Len(p) + 1 /\ (end + 1) - 1 = end
    BY <1>1, <1>2, <1>8
  <2>2. "*" \in ToSet(p)
    BY <2>1 DEF ToSet
  <2>3. 0 \in at <=> Occurs(p, 1, end, n, 0)
    BY <1>3
  <2>4. Occurs(p, 1, end, n, 0) => (PartsFit(p, n)[<<end + 1, end - 1>>] <=> m[<<end, end>>])
    <3>1. Occurs(p, 1, end, n, 0) => end - 1 \in 0 .. Len(n)
      BY <1>1, <1>2 DEF Occurs
    <3>2. end - 1 \in 0 .. Len(n) =>
            (PartsFit(p, n)[<<end + 1, end - 1>>] <=> Means(p, n)[<<(end + 1) - 1, (end - 1) + 1>>])
      BY <2>1, FitIsMeant
    <3>3. (end - 1) + 1 = end
      BY <1>2
    <3> QED BY <2>1, <3>1, <3>2, <3>3 DEF m
  <2>5. PartsFit(p, n)[<<1, 0>>] = (0 \in at /\ PartsFit(p, n)[<<end + 1, end - 1>>])
    BY <1>4, <2>1
  <2>6. m[<<1, 1>>] = (0 \in at /\ PartsFit(p, n)[<<end + 1, end - 1>>])
    BY <1>5, <1>6, <1>9, <2>3, <2>4
  <2> QED BY <2>2, <2>5, <2>6, Zenon DEF GlobMatch, GlobMeans, m
<1> QED BY <1>7, <1>8
-----------------------------------------------------------------------------
(* Patterns of CODEOWNERS.                                                   *)

(* How many segments match_prefix takes, spot by spot.                       *)
Behind(t, i, j, last) == {k \in j .. last : t[<<i + 1, k>>] # NoMatch}

TakenBy(t, pat, path, i, j) ==
  LET rest == Behind(t, i, j, Len(path) + 1)
  IN /\ i > Len(pat) => t[<<i, j>>] = 0
     /\ i <= Len(pat) /\ pat[i] = Stars =>
          /\ rest = {} => t[<<i, j>>] = NoMatch
          /\ rest # {} => t[<<i, j>>] = Max(rest) - j + t[<<i + 1, Max(rest)>>]
     /\ i <= Len(pat) /\ pat[i] # Stars =>
          /\ j > Len(path) \/ ~SegmentMatches(pat[i], path[j]) => t[<<i, j>>] = NoMatch
          /\ j <= Len(path) /\ SegmentMatches(pat[i], path[j]) =>
               t[<<i, j>>] = IF t[<<i + 1, j + 1>>] = NoMatch THEN NoMatch ELSE 1 + t[<<i + 1, j + 1>>]

(* What is left of a path when the first k segments are taken.               *)
LEMMA BehindIs ==
  ASSUME NEW S, NEW pat \in Seq(S), NEW T, NEW path \in Seq(T), NEW t,
         NEW i \in 1 .. Len(pat) + 1, NEW j \in 1 .. Len(path) + 1,
         Behind(t, i, j, Len(path) + 1) # {}
  PROVE  /\ Max(Behind(t, i, j, Len(path) + 1)) \in Behind(t, i, j, Len(path) + 1)
         /\ \A k \in Behind(t, i, j, Len(path) + 1) : k <= Max(Behind(t, i, j, Len(path) + 1))
<1> DEFINE B == Behind(t, i, j, Len(path) + 1)
<1>1. Len(path) + 1 \in Nat /\ B \in SUBSET (0 .. Len(path) + 1)
  BY DEF Behind
<1>2. B # {}
  OBVIOUS
<1> HIDE DEF B
<1>3. Max(B) \in B /\ \A k \in B : k <= Max(B)
  BY <1>1, <1>2, MaxIs
<1> QED BY <1>3 DEF B

(* The function Taken says of every place what TakenBy says.                 *)
LEMMA TakenIs ==
  ASSUME NEW S, NEW pat \in Seq(S), NEW T, NEW path \in Seq(T)
  PROVE  /\ Taken(pat, path) \in [Spots(pat, path) -> Nat \cup {NoMatch}]
         /\ \A i \in 1 .. Len(pat) + 1, j \in 1 .. Len(path) + 1 :
              TakenBy(Taken(pat, path), pat, path, i, j)
<1> DEFINE D == Spots(pat, path)
           V == Nat \cup {NoMatch}
           B(f, i, j) == Behind(f, i, j, Len(path) + 1)
           Body(f, c) ==
             LET i == c[1]
                 j == c[2]
                 rest == B(f, i, j)
             IN IF i > Len(pat) THEN 0
                ELSE IF pat[i] = Stars THEN
                  IF rest = {} THEN NoMatch ELSE Max(rest) - j + f[<<i + 1, Max(rest)>>]
                ELSE IF j > Len(path) \/ ~SegmentMatches(pat[i], path[j]) THEN NoMatch
                ELSE IF f[<<i + 1, j + 1>>] = NoMatch THEN NoMatch
                ELSE 1 + f[<<i + 1, j + 1>>]
           mu == [c \in D |-> (Len(pat) + 1 - c[1]) + (Len(path) + 1 - c[2])]
           G == [f \in [D -> V] |-> [c \in D |-> Body(f, c)]]
<1>1. Len(pat) \in Nat /\ Len(path) \in Nat
  OBVIOUS
<1>2. /\ mu \in [D -> Nat]
      /\ \A i \in 1 .. Len(pat) + 1, j \in 1 .. Len(path) + 1 :
           /\ <<i, j>> \in D /\ i \in Int /\ j \in Int
           /\ i <= Len(pat) \/ i > Len(pat)
           /\ j <= Len(path) \/ j > Len(path)
           /\ i <= Len(pat) /\ j <= Len(path) =>
                <<i + 1, j + 1>> \in D /\ mu[<<i + 1, j + 1>>] < mu[<<i, j>>]
           /\ i <= Len(pat) => \A k \in j .. Len(path) + 1 :
                <<i + 1, k>> \in D /\ mu[<<i + 1, k>>] < mu[<<i, j>>]
  BY SpotsAhead, Zenon
<1>3. ASSUME NEW c \in D PROVE \E i \in 1 .. Len(pat) + 1, j \in 1 .. Len(path) + 1 : c = <<i, j>> /\ c[1] = i /\ c[2] = j
  BY DEF Spots
<1>4. ASSUME NEW f, NEW i \in 1 .. Len(pat) + 1, NEW j \in 1 .. Len(path) + 1, B(f, i, j) # {}
      PROVE  Max(B(f, i, j)) \in j .. Len(path) + 1 /\ f[<<i + 1, Max(B(f, i, j))>>] # NoMatch
  <2>1. Max(B(f, i, j)) \in B(f, i, j)
    BY <1>4, BehindIs
  <2> QED BY <2>1 DEF Behind
<1> HIDE DEF D, mu, B
<1>5. ASSUME NEW f, NEW c \in D, \A y \in D : mu[y] < mu[c] => f[y] \in V PROVE Body(f, c) \in V
  <2>1. PICK i \in 1 .. Len(pat) + 1, j \in 1 .. Len(path) + 1 : c = <<i, j>> /\ c[1] = i /\ c[2] = j
    BY <1>3
  <2>2. i > Len(pat) => Body(f, c) = 0
    BY <2>1
  <2>3. ASSUME i <= Len(pat), pat[i] = Stars PROVE Body(f, c) \in V
    <3>1. CASE B(f, i, j) = {}
      BY <1>1, <2>1, <2>3, <3>1
    <3>2. CASE B(f, i, j) # {}
      <4>1. PICK m : m = Max(B(f, i, j))
        OBVIOUS
      <4>2. m \in j .. Len(path) + 1 /\ f[<<i + 1, m>>] # NoMatch /\ f[<<i + 1, m>>] \in V
        BY <1>2, <1>4, <1>5, <2>1, <2>3, <3>2, <4>1
      <4>3. f[<<i + 1, m>>] \in Nat
        BY <4>2
      <4>4. Body(f, c) = m - j + f[<<i + 1, m>>]
        BY <1>1, <2>1, <2>3, <3>2, <4>1
      <4> QED BY <4>2, <4>3, <4>4
    <3> QED BY <3>1, <3>2
  <2>4. ASSUME i <= Len(pat), pat[i] # Stars PROVE Body(f, c) \in V
    <3>1. j <= Len(path) => f[<<i + 1, j + 1>>] \in V
      BY <1>2, <1>5, <2>1, <2>4
    <3>2. NoMatch \in V /\ \A x \in V : x # NoMatch => 1 + x \in V
      BY DEF NoMatch
    <3> QED BY <1>1, <1>2, <2>1, <2>4, <3>1, <3>2
  <2> QED BY <1>2, <2>1, <2>2, <2>3, <2>4
<1>12. G \in [[D -> V] -> [D -> V]]
  <2> HIDE DEF Body
  <2>1. ASSUME NEW f \in [D -> V], NEW c \in D PROVE Body(f, c) \in V
    <3>1. \A y \in D : f[y] \in V
      OBVIOUS
    <3> QED BY <1>5, <3>1
  <2> QED BY <2>1
<1>6. Local(G, D, V, mu)
  <2>1. ASSUME NEW f \in [D -> V], NEW g \in [D -> V], NEW x \in D,
               \A y \in D : mu[y] < mu[x] => f[y] = g[y]
        PROVE  Body(f, x) = Body(g, x)
    <3>1. PICK i \in 1 .. Len(pat) + 1, j \in 1 .. Len(path) + 1 : x = <<i, j>> /\ x[1] = i /\ x[2] = j
      BY <1>3
    <3>2. i > Len(pat) => Body(f, x) = Body(g, x)
      BY <3>1
    <3>3. ASSUME i <= Len(pat), pat[i] = Stars PROVE Body(f, x) = Body(g, x)
      <4>1. \A k \in j .. Len(path) + 1 : f[<<i + 1, k>>] = g[<<i + 1, k>>]
        BY <1>2, <2>1, <3>1, <3>3
      <4>2. B(f, i, j) = B(g, i, j)
        BY <4>1 DEF B, Behind
      <4>3. CASE B(f, i, j) = {}
        BY <1>1, <3>1, <3>3, <4>2, <4>3
      <4>4. CASE B(f, i, j) # {}
        <5>1. PICK m : m = Max(B(f, i, j)) /\ m = Max(B(g, i, j))
          BY <4>2
        <5>2. f[<<i + 1, m>>] = g[<<i + 1, m>>]
          BY <1>4, <4>1, <4>4, <5>1
        <5>3. /\ Body(f, x) = m - j + f[<<i + 1, m>>]
              /\ Body(g, x) = m - j + g[<<i + 1, m>>]
          BY <1>1, <3>1, <3>3, <4>2, <4>4, <5>1
        <5> QED BY <5>2, <5>3
      <4> QED BY <4>3, <4>4
    <3>4. ASSUME i <= Len(pat), pat[i] # Stars PROVE Body(f, x) = Body(g, x)
      <4>1. j <= Len(path) => f[<<i + 1, j + 1>>] = g[<<i + 1, j + 1>>]
        BY <1>2, <2>1, <3>1, <3>4
      <4> QED BY <1>2, <3>1, <3>4, <4>1
    <3> QED BY <1>2, <3>2, <3>3, <3>4
  <2>2. \A f \in [D -> V] : \A x \in D : G[f][x] = Body(f, x)
    <3> HIDE DEF Body
    <3> QED OBVIOUS
  <2> HIDE DEF G, V, Body
  <2>3. ASSUME NEW f \in [D -> V], NEW g \in [D -> V], NEW x \in D,
               \A y \in D : mu[y] < mu[x] => f[y] = g[y]
        PROVE  G[f][x] = G[g][x]
    BY <2>1, <2>2, <2>3
  <2> QED BY <2>3 DEF Local
<1>7. \E f \in [D -> V] : Solves(f, G)
  <2>1. NoMatch \in V
    OBVIOUS
  <2> HIDE DEF V, G
  <2> QED BY <1>2, <1>12, <1>6, <2>1, Recursion, Zenon
<1>8. \E f \in [D -> V] : f = [c \in D |-> Body(f, c)]
  <2> HIDE DEF Body
  <2> QED BY <1>7 DEF Solves
<1>9. Taken(pat, path) = CHOOSE t : t = [c \in D |-> Body(t, c)]
  BY Zenon DEF Taken, Spots, D, B, Behind
<1> DEFINE t == Taken(pat, path)
<1>10. t = [c \in D |-> Body(t, c)]
  <2> HIDE DEF Body, V
  <2> QED BY <1>8, <1>9
<1>13. t \in [D -> V]
  <2> HIDE DEF Body, V, t
  <2> DEFINE H == {c \in D : t[c] \in V}
  <2>1. ASSUME NEW c \in D, \A y \in D : mu[y] < mu[c] => y \in H PROVE c \in H
    <3>1. \A y \in D : mu[y] < mu[c] => t[y] \in V
      BY <2>1
    <3>2. Body(t, c) \in V
      BY <1>5, <3>1
    <3>3. t[c] = Body(t, c)
      BY <1>10
    <3> QED BY <3>2, <3>3
  <2>2. \A c \in D : c \in H
    <3> HIDE DEF H
    <3> QED BY <1>2, <2>1, ByMeasure, Zenon
  <2>3. \A c \in D : Body(t, c) \in V
    <3> SUFFICES ASSUME NEW c \in D PROVE Body(t, c) \in V
      OBVIOUS
    <3>1. t[c] = Body(t, c)
      BY <1>10
    <3> QED BY <2>2, <3>1
  <2> QED BY <1>10, <2>3
<1>11. ASSUME NEW i \in 1 .. Len(pat) + 1, NEW j \in 1 .. Len(path) + 1
       PROVE  TakenBy(t, pat, path, i, j)
  <2>1. <<i, j>> \in D /\ <<i, j>>[1] = i /\ <<i, j>>[2] = j
    BY DEF Spots, D
  <2>2. t[<<i, j>>] = Body(t, <<i, j>>)
    <3> HIDE DEF Body, V, t
    <3> QED BY <1>10, <2>1
  <2>3. i \in Int /\ j \in Int
    OBVIOUS
  <2> HIDE DEF t
  <2> QED BY <1>1, <2>1, <2>2, <2>3 DEF TakenBy, B
<1> QED BY <1>13, <1>11 DEF D

(* Up to where a pattern can take the path, spot by spot.                    *)
EndsBy(e, pat, path, i, j) ==
  /\ i > Len(pat) => e[<<i, j>>] = {j - 1}
  /\ i <= Len(pat) /\ pat[i] = Stars =>
       e[<<i, j>>] = UNION {e[<<i + 1, k>>] : k \in j .. Len(path) + 1}
  /\ i <= Len(pat) /\ pat[i] # Stars =>
       /\ j > Len(path) \/ ~GlobMeans(pat[i], path[j]) => e[<<i, j>>] = {}
       /\ j <= Len(path) /\ GlobMeans(pat[i], path[j]) => e[<<i, j>>] = e[<<i + 1, j + 1>>]

(* The function PatternEnds says of every place what EndsBy says.            *)
LEMMA EndsAre ==
  ASSUME NEW S, NEW pat \in Seq(S), NEW T, NEW path \in Seq(T)
  PROVE  /\ PatternEnds(pat, path) \in [Spots(pat, path) -> SUBSET (0 .. Len(path))]
         /\ \A i \in 1 .. Len(pat) + 1, j \in 1 .. Len(path) + 1 :
              EndsBy(PatternEnds(pat, path), pat, path, i, j)
<1> DEFINE D == Spots(pat, path)
           V == SUBSET (0 .. Len(path))
           U(f, i, j) == UNION {f[<<i + 1, k>>] : k \in j .. Len(path) + 1}
           Body(f, c) ==
             LET i == c[1]
                 j == c[2]
             IN IF i > Len(pat) THEN {j - 1}
                ELSE IF pat[i] = Stars THEN U(f, i, j)
                ELSE IF j > Len(path) \/ ~GlobMeans(pat[i], path[j]) THEN {}
                ELSE f[<<i + 1, j + 1>>]
           mu == [c \in D |-> (Len(pat) + 1 - c[1]) + (Len(path) + 1 - c[2])]
           G == [f \in [D -> V] |-> [c \in D |-> Body(f, c)]]
<1>1. Len(pat) \in Nat /\ Len(path) \in Nat
  OBVIOUS
<1>2. /\ mu \in [D -> Nat]
      /\ \A i \in 1 .. Len(pat) + 1, j \in 1 .. Len(path) + 1 :
           /\ <<i, j>> \in D /\ i \in Int /\ j \in Int
           /\ i <= Len(pat) \/ i > Len(pat)
           /\ j <= Len(path) \/ j > Len(path)
           /\ i <= Len(pat) /\ j <= Len(path) =>
                <<i + 1, j + 1>> \in D /\ mu[<<i + 1, j + 1>>] < mu[<<i, j>>]
           /\ i <= Len(pat) => \A k \in j .. Len(path) + 1 :
                <<i + 1, k>> \in D /\ mu[<<i + 1, k>>] < mu[<<i, j>>]
  BY SpotsAhead, Zenon
<1>3. ASSUME NEW c \in D PROVE \E i \in 1 .. Len(pat) + 1, j \in 1 .. Len(path) + 1 : c = <<i, j>> /\ c[1] = i /\ c[2] = j
  BY DEF Spots
<1> HIDE DEF D, mu
<1>5. ASSUME NEW f, NEW c \in D, \A y \in D : mu[y] < mu[c] => f[y] \in V PROVE Body(f, c) \in V
  <2>1. PICK i \in 1 .. Len(pat) + 1, j \in 1 .. Len(path) + 1 : c = <<i, j>> /\ c[1] = i /\ c[2] = j
    BY <1>3
  <2>2. {j - 1} \in V
    BY <1>1
  <2>3. i <= Len(pat) => \A k \in j .. Len(path) + 1 : f[<<i + 1, k>>] \in V
    BY <1>2, <1>5, <2>1
  <2>4. i <= Len(pat) /\ j <= Len(path) => f[<<i + 1, j + 1>>] \in V
    BY <1>2, <1>5, <2>1
  <2>5. i <= Len(pat) => U(f, i, j) \in V
    BY <2>3
  <2>6. {} \in V
    OBVIOUS
  <2> HIDE DEF V
  <2> QED BY <1>2, <2>1, <2>2, <2>4, <2>5, <2>6
<1>12. G \in [[D -> V] -> [D -> V]]
  <2> HIDE DEF Body
  <2>1. ASSUME NEW f \in [D -> V], NEW c \in D PROVE Body(f, c) \in V
    <3>1. \A y \in D : f[y] \in V
      OBVIOUS
    <3> QED BY <1>5, <3>1
  <2> QED BY <2>1
<1>6. Local(G, D, V, mu)
  <2>1. ASSUME NEW f \in [D -> V], NEW g \in [D -> V], NEW x \in D,
               \A y \in D : mu[y] < mu[x] => f[y] = g[y]
        PROVE  Body(f, x) = Body(g, x)
    <3>1. PICK i \in 1 .. Len(pat) + 1, j \in 1 .. Len(path) + 1 : x = <<i, j>> /\ x[1] = i /\ x[2] = j
      BY <1>3
    <3>2. i <= Len(pat) => \A k \in j .. Len(path) + 1 : f[<<i + 1, k>>] = g[<<i + 1, k>>]
      BY <1>2, <2>1, <3>1
    <3>3. i <= Len(pat) /\ j <= Len(path) => f[<<i + 1, j + 1>>] = g[<<i + 1, j + 1>>]
      BY <1>2, <2>1, <3>1
    <3>4. i <= Len(pat) => U(f, i, j) = U(g, i, j)
      BY <3>2
    <3> HIDE DEF V, U
    <3> QED BY <1>2, <3>1, <3>3, <3>4
  <2>2. \A f \in [D -> V] : \A x \in D : G[f][x] = Body(f, x)
    <3> HIDE DEF Body
    <3> QED OBVIOUS
  <2> HIDE DEF G, V, Body
  <2>3. ASSUME NEW f \in [D -> V], NEW g \in [D -> V], NEW x \in D,
               \A y \in D : mu[y] < mu[x] => f[y] = g[y]
        PROVE  G[f][x] = G[g][x]
    BY <2>1, <2>2, <2>3
  <2> QED BY <2>3 DEF Local
<1>7. \E f \in [D -> V] : Solves(f, G)
  <2>1. {} \in V
    OBVIOUS
  <2> HIDE DEF V, G
  <2> QED BY <1>2, <1>12, <1>6, <2>1, Recursion, Zenon
<1>8. \E f \in [D -> V] : f = [c \in D |-> Body(f, c)]
  <2> HIDE DEF Body
  <2> QED BY <1>7 DEF Solves
<1>9. PatternEnds(pat, path) = CHOOSE e : e = [c \in D |-> Body(e, c)]
  BY Zenon DEF PatternEnds, Spots, D
<1> DEFINE e == PatternEnds(pat, path)
<1>10. e = [c \in D |-> Body(e, c)]
  <2> HIDE DEF Body, V
  <2> QED BY <1>8, <1>9
<1>13. e \in [D -> V]
  <2> HIDE DEF Body, V, e
  <2> DEFINE H == {c \in D : e[c] \in V}
  <2>1. ASSUME NEW c \in D, \A y \in D : mu[y] < mu[c] => y \in H PROVE c \in H
    <3>1. \A y \in D : mu[y] < mu[c] => e[y] \in V
      BY <2>1
    <3>2. Body(e, c) \in V
      BY <1>5, <3>1
    <3>3. e[c] = Body(e, c)
      BY <1>10
    <3> QED BY <3>2, <3>3
  <2>2. \A c \in D : c \in H
    <3> HIDE DEF H
    <3> QED BY <1>2, <2>1, ByMeasure, Zenon
  <2>3. \A c \in D : Body(e, c) \in V
    <3> SUFFICES ASSUME NEW c \in D PROVE Body(e, c) \in V
      OBVIOUS
    <3>1. e[c] = Body(e, c)
      BY <1>10
    <3> QED BY <2>2, <3>1
  <2> QED BY <1>10, <2>3
<1>11. ASSUME NEW i \in 1 .. Len(pat) + 1, NEW j \in 1 .. Len(path) + 1
       PROVE  EndsBy(e, pat, path, i, j)
  <2>1. <<i, j>> \in D /\ <<i, j>>[1] = i /\ <<i, j>>[2] = j
    BY DEF Spots, D
  <2>2. e[<<i, j>>] = Body(e, <<i, j>>)
    <3> HIDE DEF Body, V, e
    <3> QED BY <1>10, <2>1
  <2>3. i \in Int /\ j \in Int
    OBVIOUS
  <2> HIDE DEF e, U
  <2>4. /\ i > Len(pat) => e[<<i, j>>] = {j - 1}
        /\ i <= Len(pat) /\ pat[i] = Stars => e[<<i, j>>] = U(e, i, j)
        /\ i <= Len(pat) /\ pat[i] # Stars =>
             /\ j > Len(path) \/ ~GlobMeans(pat[i], path[j]) => e[<<i, j>>] = {}
             /\ j <= Len(path) /\ GlobMeans(pat[i], path[j]) => e[<<i, j>>] = e[<<i + 1, j + 1>>]
    BY <1>1, <2>1, <2>2, <2>3
  <2> QED BY <2>4, Zenon DEF EndsBy, U
<1> QED BY <1>13, <1>11 DEF D

(* The code's word on one segment is what the segment means.                 *)
LEMMA SegmentIsMeant ==
  ASSUME NEW S, NEW pat \in Seq(Seq(S)), NEW T, NEW path \in Seq(Seq(T)),
         NEW i \in 1 .. Len(pat), NEW j \in 1 .. Len(path)
  PROVE  SegmentMatches(pat[i], path[j]) = GlobMeans(pat[i], path[j])
<1>1. pat[i] \in Seq(S) /\ path[j] \in Seq(T)
  OBVIOUS
<1>2. PICK p \in Seq(S) : p = pat[i]
  BY <1>1
<1>3. PICK n \in Seq(T) : n = path[j]
  BY <1>1
<1>4. GlobMatch(p, n) = GlobMeans(p, n)
  BY GlobMatchIsMeant
<1> QED BY <1>2, <1>3, <1>4 DEF SegmentMatches

(* The pattern from its i-th segment on, against the path from its j-th on:  *)
(* what match_prefix takes is one of the ends the pattern can take, ...      *)
LEMMA TakenIsAnEnd ==
  ASSUME NEW S, NEW pat \in Seq(Seq(S)), NEW T, NEW path \in Seq(Seq(T))
  PROVE  \A i \in 1 .. Len(pat) + 1 : \A j \in 1 .. Len(path) + 1 :
           Taken(pat, path)[<<i, j>>] # NoMatch =>
             /\ Taken(pat, path)[<<i, j>>] \in Nat
             /\ Taken(pat, path)[<<i, j>>] + j - 1 \in PatternEnds(pat, path)[<<i, j>>]
<1> DEFINE t == Taken(pat, path)
           e == PatternEnds(pat, path)
           D == 1 .. Len(pat) + 1
           P == 1 .. Len(path) + 1
           mu == [i \in D |-> Len(pat) + 1 - i]
           Good(i, j) == t[<<i, j>>] # NoMatch => t[<<i, j>>] \in Nat /\ t[<<i, j>>] + j - 1 \in e[<<i, j>>]
           H == {i \in D : \A j \in P : Good(i, j)}
<1>1. Len(pat) \in Nat /\ Len(path) \in Nat
  OBVIOUS
<1>2. mu \in [D -> Nat] /\ \A i \in D : i <= Len(pat) => i + 1 \in D /\ mu[i + 1] < mu[i]
  BY <1>1
<1>3. \A i \in D, j \in P : TakenBy(t, pat, path, i, j) /\ EndsBy(e, pat, path, i, j)
  BY TakenIs, EndsAre
<1>4. \A i \in D, j \in P : t[<<i, j>>] \in Nat \cup {NoMatch}
  BY TakenIs DEF Spots
<1> HIDE DEF t, e
<1>5. ASSUME NEW i \in D, \A l \in D : mu[l] < mu[i] => l \in H PROVE i \in H
  <2> SUFFICES ASSUME NEW j \in P, t[<<i, j>>] # NoMatch
               PROVE  t[<<i, j>>] \in Nat /\ t[<<i, j>>] + j - 1 \in e[<<i, j>>]
    OBVIOUS
  <2>1. t[<<i, j>>] \in Nat
    BY <1>4
  <2>2. i <= Len(pat) => \A k \in P : Good(i + 1, k)
    BY <1>2, <1>5
  <2>3. TakenBy(t, pat, path, i, j) /\ EndsBy(e, pat, path, i, j)
    BY <1>3
  <2>4. CASE i > Len(pat)
    <3>1. t[<<i, j>>] = 0 /\ e[<<i, j>>] = {j - 1}
      BY <2>3, <2>4 DEF TakenBy, EndsBy
    <3> QED BY <3>1
  <2>5. CASE i <= Len(pat) /\ pat[i] = Stars
    <3> DEFINE rest == Behind(t, i, j, Len(path) + 1)
    <3>1. rest # {} /\ t[<<i, j>>] = Max(rest) - j + t[<<i + 1, Max(rest)>>]
      BY <2>3, <2>5 DEF TakenBy
    <3>2. Max(rest) \in rest
      BY <3>1, BehindIs
    <3>3. PICK m : m = Max(rest)
      OBVIOUS
    <3>4. m \in j .. Len(path) + 1 /\ t[<<i + 1, m>>] # NoMatch /\ t[<<i, j>>] = m - j + t[<<i + 1, m>>]
      BY <3>1, <3>2, <3>3 DEF Behind
    <3>5. m \in P /\ t[<<i + 1, m>>] \in Nat /\ t[<<i + 1, m>>] + m - 1 \in e[<<i + 1, m>>]
      <4>1. m \in P
        BY <1>1, <3>4
      <4> QED BY <2>2, <2>5, <3>4, <4>1
    <3>6. t[<<i, j>>] + j - 1 = t[<<i + 1, m>>] + m - 1
      BY <3>4, <3>5
    <3>7. e[<<i, j>>] = UNION {e[<<i + 1, k>>] : k \in j .. Len(path) + 1}
      BY <2>3, <2>5 DEF EndsBy
    <3> QED BY <2>1, <3>4, <3>5, <3>6, <3>7
  <2>6. CASE i <= Len(pat) /\ pat[i] # Stars
    <3>1. j <= Len(path) /\ SegmentMatches(pat[i], path[j])
      <4>1. ~(j <= Len(path)) => j > Len(path)
        BY <1>1
      <4> QED BY <2>3, <2>6, <4>1 DEF TakenBy
    <3>11. SegmentMatches(pat[i], path[j]) = GlobMeans(pat[i], path[j])
      <4>1. i \in 1 .. Len(pat) /\ j \in 1 .. Len(path)
        BY <1>1, <2>6, <3>1
      <4> QED BY <4>1, SegmentIsMeant
    <3>12. GlobMeans(pat[i], path[j])
      BY <3>1, <3>11
    <3>2. /\ t[<<i, j>>] = IF t[<<i + 1, j + 1>>] = NoMatch THEN NoMatch ELSE 1 + t[<<i + 1, j + 1>>]
          /\ e[<<i, j>>] = e[<<i + 1, j + 1>>]
      BY <2>3, <2>6, <3>1, <3>12 DEF TakenBy, EndsBy
    <3>3. j + 1 \in P /\ t[<<i + 1, j + 1>>] # NoMatch
      BY <1>1, <3>1, <3>2
    <3>4. t[<<i + 1, j + 1>>] \in Nat /\ t[<<i + 1, j + 1>>] + (j + 1) - 1 \in e[<<i + 1, j + 1>>]
      BY <2>2, <2>6, <3>3
    <3>5. t[<<i, j>>] + j - 1 = t[<<i + 1, j + 1>>] + (j + 1) - 1
      <4>1. PICK x \in Nat : x = t[<<i + 1, j + 1>>]
        BY <3>4
      <4>2. t[<<i, j>>] = 1 + x
        BY <3>2, <3>3, <4>1
      <4>3. (1 + x) + j - 1 = x + (j + 1) - 1
        OBVIOUS
      <4> QED BY <4>1, <4>2, <4>3
    <3> QED BY <2>1, <3>2, <3>4, <3>5
  <2>7. i > Len(pat) \/ i <= Len(pat)
    BY <1>1
  <2> QED BY <2>4, <2>5, <2>6, <2>7
<1>6. \A i \in D : i \in H
  <2> HIDE DEF D, mu, H
  <2> QED BY <1>2, <1>5, ByMeasure, Zenon
<1> QED BY <1>6 DEF t, e

(* ... from further on in the path it does not end earlier, ...              *)
LEMMA TakenFromLater ==
  ASSUME NEW S, NEW pat \in Seq(S), NEW T, NEW path \in Seq(T)
  PROVE  \A i \in 1 .. Len(pat) + 1 : \A j, k \in 1 .. Len(path) + 1 :
           j <= k /\ Taken(pat, path)[<<i, j>>] # NoMatch /\ Taken(pat, path)[<<i, k>>] # NoMatch =>
             Taken(pat, path)[<<i, j>>] + j <= Taken(pat, path)[<<i, k>>] + k
<1> DEFINE t == Taken(pat, path)
           D == 1 .. Len(pat) + 1
           P == 1 .. Len(path) + 1
           mu == [i \in D |-> Len(pat) + 1 - i]
           Good(i, j, k) == j <= k /\ t[<<i, j>>] # NoMatch /\ t[<<i, k>>] # NoMatch =>
                              t[<<i, j>>] + j <= t[<<i, k>>] + k
           H == {i \in D : \A j, k \in P : Good(i, j, k)}
<1>1. Len(pat) \in Nat /\ Len(path) \in Nat
  OBVIOUS
<1>2. mu \in [D -> Nat] /\ \A i \in D : i <= Len(pat) => i + 1 \in D /\ mu[i + 1] < mu[i]
  BY <1>1
<1>3. \A i \in D, j \in P : TakenBy(t, pat, path, i, j)
  BY TakenIs
<1>4. \A i \in D, j \in P : t[<<i, j>>] \in Nat \cup {NoMatch}
  BY TakenIs DEF Spots
<1> HIDE DEF t
<1>5. ASSUME NEW i \in D, \A l \in D : mu[l] < mu[i] => l \in H PROVE i \in H
  <2> SUFFICES ASSUME NEW j \in P, NEW k \in P, j <= k, t[<<i, j>>] # NoMatch, t[<<i, k>>] # NoMatch
               PROVE  t[<<i, j>>] + j <= t[<<i, k>>] + k
    OBVIOUS
  <2>2. i <= Len(pat) => \A x, y \in P : Good(i + 1, x, y)
    BY <1>2, <1>5
  <2>3. TakenBy(t, pat, path, i, j) /\ TakenBy(t, pat, path, i, k)
    BY <1>3
  <2>4. CASE i > Len(pat)
    <3>1. t[<<i, j>>] = 0 /\ t[<<i, k>>] = 0
      BY <2>3, <2>4 DEF TakenBy
    <3> QED BY <3>1
  <2>5. CASE i <= Len(pat) /\ pat[i] = Stars
    <3> DEFINE L == Len(path) + 1
    <3>1. /\ Behind(t, i, j, L) # {}
          /\ t[<<i, j>>] = Max(Behind(t, i, j, L)) - j + t[<<i + 1, Max(Behind(t, i, j, L))>>]
          /\ Behind(t, i, k, L) # {}
          /\ t[<<i, k>>] = Max(Behind(t, i, k, L)) - k + t[<<i + 1, Max(Behind(t, i, k, L))>>]
      BY <2>3, <2>5 DEF TakenBy
    <3>2. PICK m : m = Max(Behind(t, i, j, L)) /\ m \in Behind(t, i, j, L) /\ \A x \in Behind(t, i, j, L) : x <= m
      BY <3>1, BehindIs
    <3>3. PICK w : w = Max(Behind(t, i, k, L)) /\ w \in Behind(t, i, k, L) /\ \A x \in Behind(t, i, k, L) : x <= w
      BY <3>1, BehindIs
    <3>4. m \in j .. L /\ w \in k .. L
      BY <3>2, <3>3 DEF Behind
    <3>5. w \in Behind(t, i, j, L)
      <4>1. w \in j .. L
        BY <1>1, <3>4
      <4> QED BY <3>3, <4>1 DEF Behind
    <3>6. m \in Behind(t, i, k, L)
      <4>1. w <= m
        BY <3>2, <3>5
      <4>2. m \in k .. L
        BY <1>1, <3>4, <4>1
      <4> QED BY <3>2, <4>2 DEF Behind
    <3>7. m = w
      BY <1>1, <3>2, <3>3, <3>4, <3>5, <3>6
    <3>8. t[<<i, j>>] = m - j + t[<<i + 1, m>>] /\ t[<<i, k>>] = m - k + t[<<i + 1, m>>]
      BY <3>1, <3>2, <3>3, <3>7
    <3>9. t[<<i + 1, m>>] \in Nat \cup {NoMatch}
      <4>1. m \in P /\ i + 1 \in D
        BY <1>1, <1>2, <2>5, <3>4
      <4> QED BY <1>4, <4>1
    <3>10. t[<<i + 1, m>>] \in Int /\ m \in Int /\ j \in Int /\ k \in Int
      BY <3>4, <3>9 DEF NoMatch
    <3> HIDE DEF L
    <3> QED BY <3>8, <3>10
  <2>6. CASE i <= Len(pat) /\ pat[i] # Stars
    <3>1. /\ j <= Len(path) /\ SegmentMatches(pat[i], path[j])
          /\ k <= Len(path) /\ SegmentMatches(pat[i], path[k])
      <4>1. (~(j <= Len(path)) => j > Len(path)) /\ (~(k <= Len(path)) => k > Len(path))
        BY <1>1
      <4> QED BY <2>3, <2>6, <4>1 DEF TakenBy
    <3>2. /\ t[<<i, j>>] = IF t[<<i + 1, j + 1>>] = NoMatch THEN NoMatch ELSE 1 + t[<<i + 1, j + 1>>]
          /\ t[<<i, k>>] = IF t[<<i + 1, k + 1>>] = NoMatch THEN NoMatch ELSE 1 + t[<<i + 1, k + 1>>]
      BY <2>3, <2>6, <3>1 DEF TakenBy
    <3>3. /\ j + 1 \in P /\ t[<<i + 1, j + 1>>] # NoMatch
          /\ k + 1 \in P /\ t[<<i + 1, k + 1>>] # NoMatch /\ j + 1 <= k + 1
      BY <1>1, <3>1, <3>2
    <3>4. t[<<i + 1, j + 1>>] + (j + 1) <= t[<<i + 1, k + 1>>] + (k + 1)
      BY <2>2, <2>6, <3>3
    <3>5. t[<<i + 1, j + 1>>] \in Nat /\ t[<<i + 1, k + 1>>] \in Nat
      BY <1>2, <1>4, <2>6, <3>3
    <3>6. t[<<i, j>>] = 1 + t[<<i + 1, j + 1>>] /\ t[<<i, k>>] = 1 + t[<<i + 1, k + 1>>]
      BY <3>2, <3>3
    <3>7. PICK x \in Nat, y \in Nat : x = t[<<i + 1, j + 1>>] /\ y = t[<<i + 1, k + 1>>]
      BY <3>5
    <3>8. x + (j + 1) <= y + (k + 1)
      BY <3>4, <3>7
    <3>9. (1 + x) + j <= (1 + y) + k
      BY <3>8
    <3> QED BY <3>6, <3>7, <3>9
  <2>7. i > Len(pat) \/ i <= Len(pat)
    BY <1>1
  <2> QED BY <2>4, <2>5, <2>6, <2>7
<1>6. \A i \in D : i \in H
  <2> HIDE DEF D, mu, H
  <2> QED BY <1>2, <1>5, ByMeasure, Zenon
<1> QED BY <1>6 DEF t

(* ... it is the last of the ends, and without a `**` the only one.          *)
LEMMA TakenIsLast ==
  ASSUME NEW S, NEW pat \in Seq(Seq(S)), NEW T, NEW path \in Seq(Seq(T))
  PROVE  \A i \in 1 .. Len(pat) + 1 : \A j \in 1 .. Len(path) + 1 :
           \A k \in PatternEnds(pat, path)[<<i, j>>] :
             /\ Taken(pat, path)[<<i, j>>] # NoMatch
             /\ k <= Taken(pat, path)[<<i, j>>] + j - 1
             /\ (\A l \in i .. Len(pat) : pat[l] # Stars) => k = Taken(pat, path)[<<i, j>>] + j - 1
<1> DEFINE t == Taken(pat, path)
           e == PatternEnds(pat, path)
           D == 1 .. Len(pat) + 1
           P == 1 .. Len(path) + 1
           mu == [i \in D |-> Len(pat) + 1 - i]
           Good(i, j, k) == /\ t[<<i, j>>] # NoMatch /\ k <= t[<<i, j>>] + j - 1
                            /\ (\A l \in i .. Len(pat) : pat[l] # Stars) => k = t[<<i, j>>] + j - 1
           H == {i \in D : \A j \in P : \A k \in e[<<i, j>>] : Good(i, j, k)}
<1>1. Len(pat) \in Nat /\ Len(path) \in Nat
  OBVIOUS
<1>2. mu \in [D -> Nat] /\ \A i \in D : i <= Len(pat) => i + 1 \in D /\ mu[i + 1] < mu[i]
  BY <1>1
<1>3. \A i \in D, j \in P : TakenBy(t, pat, path, i, j) /\ EndsBy(e, pat, path, i, j)
  BY TakenIs, EndsAre
<1>4. \A i \in D, j \in P : t[<<i, j>>] \in Nat \cup {NoMatch} /\ e[<<i, j>>] \in SUBSET (0 .. Len(path))
  <2>1. \A i \in D, j \in P : <<i, j>> \in Spots(pat, path)
    BY DEF Spots
  <2>2. t \in [Spots(pat, path) -> Nat \cup {NoMatch}] /\ e \in [Spots(pat, path) -> SUBSET (0 .. Len(path))]
    BY TakenIs, EndsAre
  <2> HIDE DEF t, e
  <2> QED BY <2>1, <2>2
<1>7. \A i \in D : \A j, k \in P :
        j <= k /\ t[<<i, j>>] # NoMatch /\ t[<<i, k>>] # NoMatch => t[<<i, j>>] + j <= t[<<i, k>>] + k
  BY TakenFromLater
<1> HIDE DEF t, e
<1>5. ASSUME NEW i \in D, \A l \in D : mu[l] < mu[i] => l \in H PROVE i \in H
  <2> SUFFICES ASSUME NEW j \in P, NEW k \in e[<<i, j>>] PROVE Good(i, j, k)
    OBVIOUS
  <2>1. k \in Int
    <3>1. e[<<i, j>>] \in SUBSET (0 .. Len(path))
      BY <1>4
    <3>2. k \in 0 .. Len(path)
      BY <3>1
    <3> QED BY <3>2
  <2>2. i <= Len(pat) => \A x \in P : \A y \in e[<<i + 1, x>>] : Good(i + 1, x, y)
    BY <1>2, <1>5
  <2>3. TakenBy(t, pat, path, i, j) /\ EndsBy(e, pat, path, i, j)
    BY <1>3
  <2>4. CASE i > Len(pat)
    <3>1. t[<<i, j>>] = 0 /\ e[<<i, j>>] = {j - 1}
      BY <2>3, <2>4 DEF TakenBy, EndsBy
    <3>2. k = j - 1 /\ 0 # NoMatch
      BY <3>1 DEF NoMatch
    <3> QED BY <3>1, <3>2
  <2>5. CASE i <= Len(pat) /\ pat[i] = Stars
    <3> DEFINE L == Len(path) + 1
    <3>1. PICK x \in j .. L : k \in e[<<i + 1, x>>]
      <4>1. e[<<i, j>>] = UNION {e[<<i + 1, x>>] : x \in j .. L}
        BY <2>3, <2>5 DEF EndsBy
      <4> QED BY <4>1
    <3>2. x \in P /\ t[<<i + 1, x>>] # NoMatch /\ k <= t[<<i + 1, x>>] + x - 1
      <4>1. x \in P
        BY <1>1
      <4> QED BY <2>2, <2>5, <3>1, <4>1
    <3>3. x \in Behind(t, i, j, L)
      BY <3>2 DEF Behind
    <3>4. t[<<i, j>>] = Max(Behind(t, i, j, L)) - j + t[<<i + 1, Max(Behind(t, i, j, L))>>]
      BY <2>3, <2>5, <3>3 DEF TakenBy
    <3>5. PICK m : m = Max(Behind(t, i, j, L)) /\ m \in Behind(t, i, j, L) /\ \A y \in Behind(t, i, j, L) : y <= m
      BY <3>3, BehindIs
    <3>6. m \in P /\ x <= m /\ t[<<i + 1, m>>] # NoMatch /\ j <= m
      <4>1. m \in j .. L /\ t[<<i + 1, m>>] # NoMatch
        BY <3>5 DEF Behind
      <4> QED BY <1>1, <3>3, <3>5, <4>1
    <3>7. i + 1 \in D
      BY <1>2, <2>5
    <3>8. t[<<i + 1, x>>] + x <= t[<<i + 1, m>>] + m
      BY <1>7, <3>2, <3>6, <3>7
    <3>9. t[<<i + 1, x>>] \in Nat /\ t[<<i + 1, m>>] \in Nat
      BY <1>4, <3>2, <3>6, <3>7
    <3>10. t[<<i, j>>] = m - j + t[<<i + 1, m>>]
      BY <3>4, <3>5
    <3>11. t[<<i, j>>] # NoMatch /\ k <= t[<<i, j>>] + j - 1
      <4>1. j \in Int /\ m \in Int /\ x \in Int
        BY <3>6
      <4>2. t[<<i, j>>] \in Nat /\ t[<<i, j>>] + j - 1 = t[<<i + 1, m>>] + m - 1
        BY <3>6, <3>9, <3>10, <4>1
      <4>3. k <= t[<<i + 1, m>>] + m - 1
        <5>1. PICK a \in Nat, b \in Nat : a = t[<<i + 1, x>>] /\ b = t[<<i + 1, m>>]
          BY <3>9
        <5>2. k <= a + x - 1 /\ a + x <= b + m
          BY <3>2, <3>8, <5>1
        <5>3. k <= b + m - 1
          BY <2>1, <4>1, <5>2
        <5> QED BY <5>1, <5>3
      <4>4. t[<<i, j>>] # NoMatch
        BY <4>2 DEF NoMatch
      <4> QED BY <4>2, <4>3, <4>4
    <3>12. i \in i .. Len(pat)
      BY <1>1, <2>5
    <3> QED BY <2>5, <3>11, <3>12
  <2>6. CASE i <= Len(pat) /\ pat[i] # Stars
    <3>1. j <= Len(path) /\ GlobMeans(pat[i], path[j])
      <4>1. ~(j <= Len(path)) => j > Len(path)
        BY <1>1
      <4> QED BY <2>3, <2>6, <4>1 DEF EndsBy
    <3>11. SegmentMatches(pat[i], path[j]) = GlobMeans(pat[i], path[j])
      <4>1. i \in 1 .. Len(pat) /\ j \in 1 .. Len(path)
        BY <1>1, <2>6, <3>1
      <4> QED BY <4>1, SegmentIsMeant
    <3>12. SegmentMatches(pat[i], path[j])
      BY <3>1, <3>11
    <3>2. /\ t[<<i, j>>] = IF t[<<i + 1, j + 1>>] = NoMatch THEN NoMatch ELSE 1 + t[<<i + 1, j + 1>>]
          /\ e[<<i, j>>] = e[<<i + 1, j + 1>>]
      BY <2>3, <2>6, <3>1, <3>12 DEF TakenBy, EndsBy
    <3>3. j + 1 \in P
      BY <1>1, <3>1
    <3>4. /\ t[<<i + 1, j + 1>>] # NoMatch /\ k <= t[<<i + 1, j + 1>>] + (j + 1) - 1
          /\ (\A l \in i + 1 .. Len(pat) : pat[l] # Stars) => k = t[<<i + 1, j + 1>>] + (j + 1) - 1
      BY <2>2, <2>6, <3>2, <3>3
    <3>5. t[<<i + 1, j + 1>>] \in Nat
      BY <1>2, <1>4, <2>6, <3>3, <3>4
    <3>6. t[<<i, j>>] = 1 + t[<<i + 1, j + 1>>] /\ t[<<i, j>>] + j - 1 = t[<<i + 1, j + 1>>] + (j + 1) - 1
      BY <3>2, <3>4, <3>5
    <3>7. t[<<i, j>>] # NoMatch
      BY <3>5, <3>6 DEF NoMatch
    <3>8. (\A l \in i .. Len(pat) : pat[l] # Stars) => \A l \in i + 1 .. Len(pat) : pat[l] # Stars
      BY <1>1
    <3> QED BY <3>4, <3>6, <3>7, <3>8
  <2>7. i > Len(pat) \/ i <= Len(pat)
    BY <1>1
  <2> QED BY <2>4, <2>5, <2>6, <2>7
<1>6. \A i \in D : i \in H
  <2> HIDE DEF D, mu, H
  <2> QED BY <1>2, <1>5, ByMeasure, Zenon
<1> QED BY <1>6 DEF t, e

(* A pattern that is a `**` alone takes the path to its end.                 *)
LEMMA StarsTakeAll ==
  ASSUME NEW T, NEW path \in Seq(Seq(T)), NEW S, NEW pat \in Seq(Seq(S)), Len(pat) = 1, pat[1] = Stars
  PROVE  Len(path) \in Takes(pat, path)
<1> DEFINE e == PatternEnds(pat, path)
<1>1. Len(path) \in Nat
  OBVIOUS
<1>2. EndsBy(e, pat, path, 1, 1) /\ EndsBy(e, pat, path, 2, Len(path) + 1)
  <2>1. 1 \in 1 .. Len(pat) + 1 /\ 2 \in 1 .. Len(pat) + 1
        /\ 1 \in 1 .. Len(path) + 1 /\ Len(path) + 1 \in 1 .. Len(path) + 1
    BY <1>1
  <2> QED BY <2>1, EndsAre
<1> HIDE DEF e
<1>3. e[<<2, Len(path) + 1>>] = {Len(path) + 1 - 1}
  BY <1>2 DEF EndsBy
<1>4. e[<<1, 1>>] = UNION {e[<<1 + 1, k>>] : k \in 1 .. Len(path) + 1}
  <2>1. 1 <= Len(pat)
    OBVIOUS
  <2> QED BY <1>2, <2>1 DEF EndsBy
<1>5. Len(path) + 1 \in 1 .. Len(path) + 1 /\ Len(path) + 1 - 1 = Len(path) /\ 1 + 1 = 2
  BY <1>1
<1>6. Len(path) \in e[<<1, 1>>]
  BY <1>3, <1>4, <1>5
<1> QED BY <1>6 DEF Takes, e

(* What pattern_matches (codeowners.rs) says is owned is what the pattern    *)
(* owns, for any pattern, with stars in its segments or not, and any path;   *)
(* and what it misses is below a directory that is given without a slash     *)
(* behind it, or with a `**`.                                                *)
THEOREM PathMatchesIsMeant ==
  ASSUME NEW S, NEW p, p.segs \in Seq(Seq(S)), Len(p.segs) > 0, NEW T, NEW path \in Seq(Seq(T))
  PROVE  /\ PathMatches(p, path) => PatternMeans(p, path)
         /\ PatternMeans(p, path) => PathMatches(p, path) \/ MayMiss(p, path)
<1> DEFINE Wild == p = [lead |-> FALSE, segs |-> <<Star>>, dir |-> FALSE]
           n(rest) == MatchPrefix(p.segs, rest)
           E(rest) == Takes(p.segs, rest)
<1>1. ASSUME NEW rest \in Rests(p, path) PROVE rest \in Seq(Seq(T))
  <2>1. PICK start \in Nat : rest = SubSeq(path, start + 1, Len(path))
    <3>1. PICK start \in IF Anchored(p) THEN {0} ELSE 0 .. Len(path) - 1 : rest = SubSeq(path, start + 1, Len(path))
      BY DEF Rests
    <3>2. start \in Nat
      BY <3>1
    <3> QED BY <3>1, <3>2
  <2> QED BY <2>1
<1>2. ASSUME NEW rest \in Seq(Seq(T))
      PROVE  /\ n(rest) # NoMatch => n(rest) \in E(rest) /\ n(rest) \in 0 .. Len(rest)
             /\ \A k \in E(rest) :
                  /\ n(rest) # NoMatch /\ k \in 0 .. Len(rest) /\ k <= n(rest)
                  /\ Stars \notin ToSet(p.segs) => k = n(rest)
  <2> DEFINE t == Taken(p.segs, rest)[<<1, 1>>]
             e == PatternEnds(p.segs, rest)[<<1, 1>>]
  <2>1. 1 \in 1 .. Len(p.segs) + 1 /\ 1 \in 1 .. Len(rest) + 1 /\ Len(rest) \in Nat
    OBVIOUS
  <2>2. t # NoMatch => t \in Nat /\ t + 1 - 1 \in e
    BY <2>1, TakenIsAnEnd
  <2>3. \A k \in e : /\ t # NoMatch /\ k <= t + 1 - 1
                     /\ (\A l \in 1 .. Len(p.segs) : p.segs[l] # Stars) => k = t + 1 - 1
    BY <2>1, TakenIsLast
  <2>4. e \in SUBSET (0 .. Len(rest))
    <3>1. <<1, 1>> \in Spots(p.segs, rest)
      BY <2>1 DEF Spots
    <3> QED BY <3>1, EndsAre
  <2>5. n(rest) = t /\ E(rest) = e
    BY DEF MatchPrefix, Takes
  <2> HIDE DEF t, e, n, E
  <2>6. t # NoMatch => t + 1 - 1 = t
    BY <2>2
  <2>7. Stars \notin ToSet(p.segs) => \A l \in 1 .. Len(p.segs) : p.segs[l] # Stars
    BY DEF ToSet
  <2> QED BY <2>2, <2>3, <2>4, <2>5, <2>6, <2>7
<1>3. PathMatches(p, path) <=> Wild \/ \E rest \in Rests(p, path) : n(rest) # NoMatch /\ Reaches(p, n(rest), rest)
  BY DEF PathMatches
<1>4. Last(p.segs) = Stars => Stars \in ToSet(p.segs) /\ Stars # Star
  <2>1. p.segs[Len(p.segs)] \in ToSet(p.segs)
    BY DEF ToSet
  <2>2. Len(Stars) # Len(Star)
    BY DEF Stars, Star
  <2> QED BY <2>1, <2>2 DEF Last
<1>5. ASSUME NEW rest \in Rests(p, path), Last(p.segs) = Stars, Len(p.segs) = 1
      PROVE  Len(rest) \in E(rest)
  <2>1. p.segs[1] = Stars
    BY <1>5 DEF Last
  <2> QED BY <1>1, <1>5, <2>1, StarsTakeAll
<1> HIDE DEF Wild, n, E
<1>6. ASSUME PathMatches(p, path) PROVE PatternMeans(p, path)
  <2>1. CASE Wild
    BY <2>1 DEF PatternMeans, Wild
  <2>2. CASE ~Wild
    <3>1. PICK rest \in Rests(p, path) : n(rest) # NoMatch /\ Reaches(p, n(rest), rest)
      BY <1>3, <1>6, <2>2
    <3>2. n(rest) \in E(rest) /\ n(rest) \in 0 .. Len(rest)
      BY <1>1, <1>2, <3>1
    <3>3. n(rest) = Len(rest) => NamesIt(p, path)
      BY <3>2 DEF NamesIt, E
    <3>4. n(rest) < Len(rest) => NamesAbove(p, path)
      BY <3>2 DEF NamesAbove, E
    <3>5. n(rest) = Len(rest) \/ n(rest) < Len(rest)
      BY <3>2
    <3> QED BY <1>4, <3>1, <3>3, <3>4, <3>5 DEF Reaches, PatternMeans
  <2> QED BY <2>1, <2>2
<1>7. ASSUME NEW rest \in Rests(p, path), NEW k \in E(rest), ~MayMiss(p, path),
             IF p.dir THEN k < Len(rest) ELSE k = Len(rest) \/ Last(p.segs) # Star
      PROVE  PathMatches(p, path)
  <2>1. /\ n(rest) # NoMatch /\ n(rest) \in E(rest) /\ n(rest) \in 0 .. Len(rest)
        /\ k \in 0 .. Len(rest) /\ k <= n(rest) /\ Len(rest) \in Nat
    BY <1>1, <1>2
  <2>2. Stars \notin ToSet(p.segs) => k = n(rest)
    BY <1>1, <1>2
  <2>3. k < Len(rest) => NamesAbove(p, path)
    BY DEF NamesAbove, E
  <2>4. CASE p.dir
    <3>1. k = n(rest) /\ k < Len(rest)
      BY <1>7, <2>2, <2>3, <2>4 DEF MayMiss
    <3> QED BY <1>3, <2>1, <2>4, <3>1 DEF Reaches
  <2>5. CASE ~p.dir /\ n(rest) = Len(rest)
    BY <1>3, <2>1, <2>5 DEF Reaches
  <2>6. CASE ~p.dir /\ n(rest) # Len(rest)
    <3>1. k < Len(rest)
      BY <2>1, <2>6
    <3>2. Last(p.segs) = Stars
      BY <1>7, <2>3, <2>6, <3>1 DEF MayMiss
    <3>3. Len(p.segs) # 1
      <4> SUFFICES ASSUME Len(p.segs) = 1 PROVE FALSE
        OBVIOUS
      <4>1. Len(rest) \in E(rest)
        BY <1>5, <3>2
      <4>2. Len(rest) <= n(rest)
        BY <1>1, <1>2, <4>1
      <4> QED BY <2>1, <2>6, <4>2
    <3>4. Len(p.segs) > 1
      <4> DEFINE m == Len(p.segs)
      <4>1. m \in Nat /\ m > 0
        OBVIOUS
      <4>2. m # 1
        BY <3>3
      <4> HIDE DEF m
      <4>3. m > 1
        BY <4>1, <4>2
      <4> QED BY <4>3 DEF m
    <3> QED BY <1>3, <2>1, <2>6, <3>2, <3>4 DEF Reaches
  <2> QED BY <2>4, <2>5, <2>6
<1>8. ASSUME PatternMeans(p, path), ~MayMiss(p, path) PROVE PathMatches(p, path)
  <2>1. CASE Wild
    BY <1>3, <2>1
  <2>2. CASE ~p.dir /\ NamesIt(p, path)
    <3>1. PICK rest \in Rests(p, path) : Len(rest) \in E(rest)
      BY <2>2 DEF NamesIt, E
    <3> QED BY <1>7, <1>8, <2>2, <3>1
  <2>3. CASE (p.dir \/ Last(p.segs) # Star) /\ NamesAbove(p, path)
    <3>1. PICK rest \in Rests(p, path) : \E k \in E(rest) : k < Len(rest)
      BY <2>3 DEF NamesAbove, E
    <3>2. PICK k \in E(rest) : k < Len(rest)
      BY <3>1
    <3> QED BY <1>7, <1>8, <2>3, <3>2
  <2> QED BY <1>8, <2>1, <2>2, <2>3 DEF PatternMeans, Wild
<1> QED BY <1>6, <1>8
-----------------------------------------------------------------------------
(* What the algorithms are given.                                            *)

LEMMA UptoIs ==
  ASSUME NEW S, NEW n, NEW s \in Upto(S, n)
  PROVE  s \in Seq(S)
<1>1. PICK k \in 0 .. n : s \in [1 .. k -> S]
  BY DEF Upto
<1>2. k \in Nat
  BY <1>1
<1> QED BY <1>1, <1>2

InputOK ==
  /\ input.what = "glob" => input.glob \in Seq(Letters \cup {"*"})
  /\ input.what = "env" => /\ input.default \in {"pass", "clear"}
                           /\ input.allow \subseteq Seq(Letters \cup {"*"})
                           /\ input.deny \subseteq Seq(Letters \cup {"*"})
  /\ input.what = "owners" => /\ input.pattern.segs \in Seq(Seq(Letters \cup {"*"}))
                              /\ Len(input.pattern.segs) > 0
  /\ input.what = "distance" => input.word \in Upto(Letters, MaxName)

(* What is tried is a sequence over the alphabet of its kind.                *)
LEMMA InputIsOK == PatternsSpec => []InputOK
<1>1. PatternsInit => InputOK
  BY DEF PatternsInit, InputOK
<1>2. InputOK /\ [PatternsNext]_input => InputOK'
  <2> SUFFICES ASSUME InputOK, [PatternsNext]_input PROVE InputOK'
    OBVIOUS
  <2>1. CASE TryGlob
    <3>1. PICK p \in Upto(Letters \cup {"*"}, MaxGlob) : input' = [what |-> "glob", glob |-> p]
      BY <2>1 DEF TryGlob
    <3>2. p \in Seq(Letters \cup {"*"})
      BY UptoIs
    <3> QED BY <3>1, <3>2 DEF InputOK
  <2>2. CASE TryEnv
    <3>1. PICK default \in {"pass", "clear"},
               allow \in {{}} \cup {{g} : g \in Upto(Letters \cup {"*"}, MaxRuleGlob)},
               deny \in {{}} \cup {{g} : g \in Upto(Letters \cup {"*"}, MaxRuleGlob)} :
            input' = [what |-> "env", default |-> default, allow |-> allow, deny |-> deny]
      BY <2>2 DEF TryEnv
    <3>2. \A g \in Upto(Letters \cup {"*"}, MaxRuleGlob) : g \in Seq(Letters \cup {"*"})
      BY UptoIs
    <3>3. allow \subseteq Seq(Letters \cup {"*"}) /\ deny \subseteq Seq(Letters \cup {"*"})
      <4>1. ASSUME NEW G \in {{}} \cup {{g} : g \in Upto(Letters \cup {"*"}, MaxRuleGlob)}
            PROVE  G \subseteq Seq(Letters \cup {"*"})
        <5>1. CASE G = {}
          BY <5>1
        <5>2. CASE G # {}
          <6>1. PICK g \in Upto(Letters \cup {"*"}, MaxRuleGlob) : G = {g}
            BY <5>2
          <6> QED BY <3>2, <6>1
        <5> QED BY <5>1, <5>2
      <4> QED BY <4>1
    <3> QED BY <3>1, <3>3 DEF InputOK
  <2>3. CASE TryPattern
    <3>1. PICK p \in Pattern : input' = [what |-> "owners", pattern |-> p]
      BY <2>3 DEF TryPattern
    <3> DEFINE Segs == Segments \cup SegmentGlobs \cup {Star, Stars}
    <3>2. p.segs \in Upto(Segs, MaxPattern) /\ p.segs # <<>>
      BY DEF Pattern
    <3>3. Segs \subseteq Seq(Letters \cup {"*"})
      <4>1. Star \in Seq(Letters \cup {"*"}) /\ Stars \in Seq(Letters \cup {"*"})
        BY DEF Star, Stars
      <4>2. Segments \subseteq Seq(Letters \cup {"*"})
        <5>1. Segments \subseteq Seq(Letters)
          BY PatternAssumption
        <5> QED BY <5>1
      <4> QED BY <4>1, <4>2, PatternAssumption
    <3> HIDE DEF Segs
    <3>4. p.segs \in Seq(Segs)
      BY <3>2, UptoIs
    <3>5. p.segs \in Seq(Seq(Letters \cup {"*"})) /\ Len(p.segs) > 0
      BY <3>2, <3>3, <3>4
    <3> QED BY <3>1, <3>5 DEF InputOK
  <2>4. CASE TryDistance
    <3>1. PICK w \in Upto(Letters, MaxName) : input' = [what |-> "distance", word |-> w]
      BY <2>4 DEF TryDistance
    <3> QED BY <3>1 DEF InputOK
  <2>5. CASE UNCHANGED input
    BY <2>5 DEF InputOK
  <2> QED BY <2>1, <2>2, <2>3, <2>4, <2>5 DEF PatternsNext
<1> QED BY <1>1, <1>2, PTL DEF PatternsSpec

RepoOK == repo \in Repositories \cup {Nil}

(* The patterns an audit looks at are sequences of segments.                 *)
LEMMA RepoIsOK == AuditSpec => []RepoOK
<1>1. AuditInit => RepoOK
  BY DEF AuditInit, RepoOK
<1>2. RepoOK /\ [AuditNext]_auditVars => RepoOK'
  <2> SUFFICES ASSUME RepoOK, [AuditNext]_auditVars PROVE repo' \in Repositories \cup {Nil}
    BY DEF RepoOK
  <2>1. CASE CheckOutRepo
    BY <2>1 DEF CheckOutRepo
  <2>2. repo' = repo \/ CheckOutRepo
    BY DEF AuditNext, auditVars, BeginAudit, BeginAuditRepo, Begin, Lookup, FinishAudit, FinishAuditRepo,
           Finish, MoveTag
  <2> QED BY <2>1, <2>2 DEF RepoOK
<1> QED BY <1>1, <1>2, PTL DEF AuditSpec

-----------------------------------------------------------------------------
(* An env rule strips exactly what its glob means.                           *)
LEMMA GlobsHold == InputOK => GlobIsAnyRun
<1> SUFFICES ASSUME InputOK, input.what = "glob", NEW n \in Upto(Letters, MaxName)
             PROVE  GlobMatch(input.glob, n) = GlobMeans(input.glob, n)
  BY DEF GlobIsAnyRun
<1>1. input.glob \in Seq(Letters \cup {"*"})
  BY DEF InputOK
<1>2. n \in Seq(Letters)
  BY UptoIs
<1> QED BY <1>1, <1>2, GlobMatchIsMeant

(* The environment of the command is what the rules mean.                    *)
LEMMA EnvHolds == InputOK => EnvIsScrubbed
<1> SUFFICES ASSUME InputOK, input.what = "env", NEW n \in Upto(Letters, MaxName)
             PROVE  n \in ChildEnv(input, Upto(Letters, MaxName)) <=>
                      /\ \A g \in input.deny : ~GlobMeans(g, n)
                      /\ input.default = "clear" => \E g \in input.allow : GlobMeans(g, n)
  BY DEF EnvIsScrubbed
<1>1. /\ input.default \in {"pass", "clear"}
      /\ \A g \in input.deny \cup input.allow : g \in Seq(Letters \cup {"*"})
  BY DEF InputOK
<1>2. n \in Seq(Letters)
  BY UptoIs
<1>3. \A g \in input.deny \cup input.allow : GlobMatch(g, n) = GlobMeans(g, n)
  BY <1>1, <1>2, GlobMatchIsMeant
<1>4. CASE EnvActive(input)
  <2>1. n \in ChildEnv(input, Upto(Letters, MaxName)) <=> EnvKept(input, n)
    BY <1>4 DEF ChildEnv
  <2>2. EnvKept(input, n) <=>
          /\ ~\E g \in input.deny : GlobMeans(g, n)
          /\ input.default = "pass" \/ \E g \in input.allow : GlobMeans(g, n)
    BY <1>3, Zenon DEF EnvKept
  <2> QED BY <1>1, <2>1, <2>2
<1>5. CASE ~EnvActive(input)
  <2>1. input.default = "pass" /\ input.deny = {} /\ input.allow = {}
    BY <1>5 DEF EnvActive
  <2>2. ChildEnv(input, Upto(Letters, MaxName)) = Upto(Letters, MaxName)
    BY <1>5 DEF ChildEnv
  <2> QED BY <2>1, <2>2
<1> QED BY <1>4, <1>5

(* A pattern owns what it says, and misses only as it is said to.            *)
LEMMA OwnersHold == InputOK => OwnersAsMeant
<1> SUFFICES ASSUME InputOK, input.what = "owners", NEW path \in Upto(Segments, MaxPath)
             PROVE  /\ PathMatches(input.pattern, path) => PatternMeans(input.pattern, path)
                    /\ PatternMeans(input.pattern, path) =>
                         PathMatches(input.pattern, path) \/ MayMiss(input.pattern, path)
  BY DEF OwnersAsMeant
<1>1. input.pattern.segs \in Seq(Seq(Letters \cup {"*"})) /\ Len(input.pattern.segs) > 0
  BY DEF InputOK
<1>2. path \in Seq(Seq(Letters))
  <2>1. path \in Seq(Segments)
    BY UptoIs
  <2> QED BY <2>1, PatternAssumption
<1>3. PICK p : p = input.pattern
  OBVIOUS
<1> QED BY <1>1, <1>2, <1>3, PathMatchesIsMeant

(* A workflow that the audit calls uncovered has no owner by any line.       *)
LEMMA UncoveredHolds == RepoOK => UncoveredIsUnowned
<1> DEFINE rules == OwnersFile(repo)
           matching == {i \in DOMAIN rules : PatternMeans(rules[i].pattern, Example)}
<1> SUFFICES ASSUME RepoOK, repo # Nil, ~Owns(rules, Example), matching # {}
             PROVE  ~rules[Max(matching)].owned \/ MayMiss(rules[Max(matching)].pattern, Example)
  BY DEF UncoveredIsUnowned
<1>1. rules \in Seq(Rule)
  <2>1. repo.owners \in [1 .. 3 -> {Nil} \cup Seq(Rule)]
    BY RepositoriesAssumption DEF RepoOK, Repository
  <2> DEFINE there == {k \in 1 .. 3 : repo.owners[k] # Nil}
  <2>2. CASE there = {}
    BY <2>2 DEF OwnersFile
  <2>3. CASE there # {}
    <3>1. there \in SUBSET Nat
      OBVIOUS
    <3>2. Min(there) \in there
      <4> HIDE DEF there
      <4> QED BY <2>3, <3>1, MinIs
    <3>3. rules = repo.owners[Min(there)]
      BY <2>3 DEF OwnersFile
    <3>4. PICK k \in 1 .. 3 : k = Min(there) /\ repo.owners[k] # Nil
      BY <3>2
    <3> QED BY <2>1, <3>3, <3>4
  <2> QED BY <2>2, <2>3
<1> HIDE DEF rules
<1>2. Len(rules) \in Nat /\ matching \in SUBSET (0 .. Len(rules))
  BY <1>1
<1>3. PICK m : m = Max(matching)
  OBVIOUS
<1>4. m \in matching
  <2> HIDE DEF matching
  <2> QED BY <1>2, <1>3, MaxIs
<1>5. m \in DOMAIN rules /\ PatternMeans(rules[m].pattern, Example)
  BY <1>4
<1>6. rules[m].pattern.segs \in Seq(Seq(STRING)) /\ Len(rules[m].pattern.segs) > 0
  <2>1. rules[m] \in Rule
    BY <1>1, <1>5
  <2>2. rules[m].pattern.segs \in Seq(Seq(STRING)) \ {<<>>}
    BY <2>1 DEF Rule
  <2> QED BY <2>2
<1>7. \E T : Example \in Seq(Seq(T))
  <2>1. ASSUME NEW T, NEW a \in Seq(T), NEW b \in Seq(T), NEW c \in Seq(T) PROVE <<a, b, c>> \in Seq(Seq(T))
    OBVIOUS
  <2> DEFINE T == {".github", "workflows", "example", ".yml"}
  <2>2. ASSUME NEW U, NEW x \in U, NEW y \in U, NEW z \in U, NEW w \in U
        PROVE  <<x>> \in Seq(U) /\ <<y>> \in Seq(U) /\ <<z, w>> \in Seq(U)
    OBVIOUS
  <2>3. <<".github">> \in Seq(T) /\ <<"workflows">> \in Seq(T) /\ <<"example", ".yml">> \in Seq(T)
    BY <2>2
  <2>4. Example \in Seq(Seq(T))
    <3> HIDE DEF T
    <3> QED BY <2>1, <2>3 DEF Example
  <2> QED BY <2>4
<1>8. ~MayMiss(rules[m].pattern, Example) => PathMatches(rules[m].pattern, Example)
  <2>1. PICK p : p = rules[m].pattern
    OBVIOUS
  <2>2. p.segs \in Seq(Seq(STRING)) /\ Len(p.segs) > 0 /\ PatternMeans(p, Example)
    BY <1>5, <1>6, <2>1
  <2>3. PathMatches(p, Example) \/ MayMiss(p, Example)
    BY <1>7, <2>2, PathMatchesIsMeant
  <2> QED BY <2>1, <2>3
<1> QED BY <1>3, <1>5, <1>8 DEF Owns
-----------------------------------------------------------------------------
(* Edits, letter by letter.                                                  *)

Removes(u, w, i) ==
  /\ i \in 1 .. Len(u) /\ Len(w) + 1 = Len(u)
  /\ \A l \in 1 .. Len(w) : (l < i => w[l] = u[l]) /\ (~(l < i) => w[l] = u[l + 1])
Replaces(u, w, i) ==
  /\ i \in 1 .. Len(u) /\ Len(w) = Len(u)
  /\ \A l \in 1 .. Len(u) : l # i => w[l] = u[l]
Swaps(u, w, i) ==
  /\ i \in 1 .. Len(u) - 1 /\ Len(w) = Len(u)
  /\ w[i] = u[i + 1] /\ w[i + 1] = u[i]
  /\ \A l \in 1 .. Len(u) : l # i /\ l # i + 1 => w[l] = u[l]

(* Two words with the same letters are the same word.                        *)
LEMMA SameWord ==
  ASSUME NEW S, NEW u \in Seq(S), NEW w \in Seq(S), Len(u) = Len(w),
         \A l \in 1 .. Len(u) : u[l] = w[l]
  PROVE  u = w
BY SeqEqual

(* RemoveAt takes one letter out, ...                                        *)
LEMMA RemoveIs ==
  ASSUME NEW S, NEW u \in Seq(S), NEW i \in 1 .. Len(u)
  PROVE  RemoveAt(u, i) \in Seq(S) /\ Removes(u, RemoveAt(u, i), i)
<1> DEFINE x == SubSeq(u, 1, i - 1)
           y == SubSeq(u, i + 1, Len(u))
           w == x \o y
<1>1. Len(u) \in Nat /\ i \in Int
  OBVIOUS
<1>2. x \in Seq(S) /\ Len(x) = i - 1 /\ \A l \in 1 .. i - 1 : x[l] = u[l]
  <2>1. 1 \in 1 .. Len(u) + 1 /\ i - 1 \in 1 - 1 .. Len(u)
    BY <1>1
  <2>2. x \in Seq(S) /\ Len(x) = i - 1 - 1 + 1 /\ \A l \in 1 .. i - 1 - 1 + 1 : x[l] = u[1 + l - 1]
    BY <1>1, <2>1, SubSeqProperties
  <2>3. i - 1 - 1 + 1 = i - 1 /\ \A l \in 1 .. i - 1 : 1 + l - 1 = l
    BY <1>1
  <2> QED BY <2>2, <2>3
<1>3. y \in Seq(S) /\ Len(y) = Len(u) - i /\ \A l \in 1 .. Len(u) - i : y[l] = u[i + l]
  <2>1. i + 1 \in 1 .. Len(u) + 1 /\ Len(u) \in (i + 1) - 1 .. Len(u)
    BY <1>1
  <2>2. y \in Seq(S) /\ Len(y) = Len(u) - (i + 1) + 1 /\ \A l \in 1 .. Len(u) - (i + 1) + 1 : y[l] = u[i + 1 + l - 1]
    BY <1>1, <2>1, SubSeqProperties
  <2>3. Len(u) - (i + 1) + 1 = Len(u) - i /\ \A l \in 1 .. Len(u) - i : i + 1 + l - 1 = i + l
    BY <1>1
  <2> QED BY <2>2, <2>3
<1> HIDE DEF x, y
<1>4. w \in Seq(S) /\ Len(w) = Len(x) + Len(y)
      /\ \A l \in 1 .. Len(x) + Len(y) : w[l] = IF l <= Len(x) THEN x[l] ELSE y[l - Len(x)]
  BY <1>2, <1>3, ConcatProperties
<1>5. RemoveAt(u, i) = w
  BY DEF RemoveAt, x, y
<1> HIDE DEF w
<1>6. Len(w) + 1 = Len(u)
  BY <1>1, <1>2, <1>3, <1>4
<1>7. ASSUME NEW l \in 1 .. Len(w) PROVE (l < i => w[l] = u[l]) /\ (~(l < i) => w[l] = u[l + 1])
  <2>1. w[l] = IF l <= Len(x) THEN x[l] ELSE y[l - Len(x)]
    BY <1>4
  <2>2. CASE l < i
    <3>1. l <= Len(x) /\ l \in 1 .. i - 1
      BY <1>1, <1>2, <2>2
    <3> QED BY <1>2, <2>1, <2>2, <3>1
  <2>3. CASE ~(l < i)
    <3>1. ~(l <= Len(x)) /\ l - Len(x) \in 1 .. Len(u) - i /\ i + (l - Len(x)) = l + 1
      BY <1>1, <1>2, <1>6, <2>3
    <3> QED BY <1>3, <2>1, <2>3, <3>1
  <2> QED BY <2>2, <2>3
<1> QED BY <1>4, <1>5, <1>6, <1>7 DEF Removes

(* ... and InsertAt is undone by it.                                         *)
LEMMA InsertIs ==
  ASSUME NEW S, NEW u \in Seq(S), NEW i \in 1 .. Len(u) + 1, NEW c \in S
  PROVE  LET w == InsertAt(u, i, c)
         IN w \in Seq(S) /\ Removes(w, u, i) /\ w[i] = c
<1> DEFINE x == SubSeq(u, 1, i - 1)
           y == SubSeq(u, i, Len(u))
           z == x \o <<c>>
           w == z \o y
<1>1. Len(u) \in Nat /\ i \in Int
  OBVIOUS
<1>2. x \in Seq(S) /\ Len(x) = i - 1 /\ \A l \in 1 .. i - 1 : x[l] = u[l]
  <2>1. 1 \in 1 .. Len(u) + 1 /\ i - 1 \in 1 - 1 .. Len(u)
    BY <1>1
  <2>2. x \in Seq(S) /\ Len(x) = i - 1 - 1 + 1 /\ \A l \in 1 .. i - 1 - 1 + 1 : x[l] = u[1 + l - 1]
    BY <1>1, <2>1, SubSeqProperties
  <2>3. i - 1 - 1 + 1 = i - 1 /\ \A l \in 1 .. i - 1 : 1 + l - 1 = l
    BY <1>1
  <2> QED BY <2>2, <2>3
<1>3. y \in Seq(S) /\ Len(y) = Len(u) - i + 1 /\ \A l \in 1 .. Len(u) - i + 1 : y[l] = u[i + l - 1]
  <2>1. i \in 1 .. Len(u) + 1 /\ Len(u) \in i - 1 .. Len(u)
    BY <1>1
  <2> QED BY <1>1, <2>1, SubSeqProperties
<1> HIDE DEF x, y
<1>4. z \in Seq(S) /\ Len(z) = i /\ z[i] = c /\ \A l \in 1 .. i - 1 : z[l] = u[l]
  <2>1. <<c>> \in Seq(S) /\ Len(<<c>>) = 1 /\ <<c>>[1] = c
    OBVIOUS
  <2>2. z \in Seq(S) /\ Len(z) = Len(x) + 1
        /\ \A l \in 1 .. Len(x) + 1 : z[l] = IF l <= Len(x) THEN x[l] ELSE <<c>>[l - Len(x)]
    BY <1>2, <2>1, ConcatProperties
  <2>3. Len(x) + 1 = i /\ i \in 1 .. Len(x) + 1 /\ ~(i <= Len(x)) /\ i - Len(x) = 1
    BY <1>1, <1>2
  <2>4. \A l \in 1 .. i - 1 : l \in 1 .. Len(x) + 1 /\ l <= Len(x)
    BY <1>1, <1>2
  <2> QED BY <1>2, <2>1, <2>2, <2>3, <2>4
<1> HIDE DEF z
<1>5. w \in Seq(S) /\ Len(w) = Len(z) + Len(y)
      /\ \A l \in 1 .. Len(z) + Len(y) : w[l] = IF l <= Len(z) THEN z[l] ELSE y[l - Len(z)]
  BY <1>3, <1>4, ConcatProperties
<1>6. InsertAt(u, i, c) = w
  BY DEF InsertAt, x, y, z
<1> HIDE DEF w
<1>7. Len(u) + 1 = Len(w) /\ i \in 1 .. Len(w)
  BY <1>1, <1>3, <1>4, <1>5
<1>8. w[i] = c
  BY <1>1, <1>4, <1>5, <1>7
<1>9. ASSUME NEW l \in 1 .. Len(u) PROVE (l < i => u[l] = w[l]) /\ (~(l < i) => u[l] = w[l + 1])
  <2>1. CASE l < i
    <3>1. l <= Len(z) /\ l \in 1 .. i - 1 /\ l \in 1 .. Len(z) + Len(y)
      BY <1>1, <1>3, <1>4, <2>1
    <3> QED BY <1>4, <1>5, <2>1, <3>1
  <2>2. CASE ~(l < i)
    <3>1. /\ ~(l + 1 <= Len(z)) /\ l + 1 - Len(z) \in 1 .. Len(u) - i + 1 /\ i + (l + 1 - Len(z)) - 1 = l
          /\ l + 1 \in 1 .. Len(z) + Len(y)
      BY <1>1, <1>3, <1>4, <2>2
    <3> QED BY <1>3, <1>5, <2>2, <3>1
  <2> QED BY <2>1, <2>2
<1> QED BY <1>5, <1>6, <1>7, <1>8, <1>9 DEF Removes

OneEdit(u, w) == \E i \in Nat : Removes(u, w, i) \/ Removes(w, u, i) \/ Replaces(u, w, i) \/ Swaps(u, w, i)

(* The edits of a word: a letter removed, or added, replaced, or two swapped.*)
LEMMA EditsAre ==
  ASSUME NEW u \in Seq(Letters)
  PROVE  /\ Edits(u) \subseteq Seq(Letters)
         /\ \A w \in Seq(Letters) : w \in Edits(u) <=> OneEdit(u, w)
<1>1. Len(u) \in Nat /\ DOMAIN u = 1 .. Len(u) /\ \A i \in 1 .. Len(u) : u[i] \in Letters
  OBVIOUS
<1>2. ASSUME NEW i \in 1 .. Len(u), NEW c \in Letters
      PROVE  [u EXCEPT ![i] = c] \in Seq(Letters) /\ Replaces(u, [u EXCEPT ![i] = c], i)
  BY <1>1 DEF Replaces
<1>3. ASSUME NEW i \in 1 .. Len(u) - 1
      PROVE  LET w == [u EXCEPT ![i] = u[i + 1], ![i + 1] = u[i]]
             IN w \in Seq(Letters) /\ Swaps(u, w, i)
  <2>1. i \in 1 .. Len(u) /\ i + 1 \in 1 .. Len(u) /\ i # i + 1
    BY <1>1
  <2>2. PICK a \in Letters, b \in Letters : a = u[i] /\ b = u[i + 1]
    BY <1>1, <2>1
  <2>3. [u EXCEPT ![i] = b, ![i + 1] = a] \in Seq(Letters)
    BY <1>1, <2>1
  <2> QED BY <1>1, <2>1, <2>2, <2>3 DEF Swaps
<1>4. ASSUME NEW w \in Edits(u) PROVE w \in Seq(Letters) /\ OneEdit(u, w)
  <2>1. CASE w \in {RemoveAt(u, i) : i \in DOMAIN u}
    <3>1. PICK i \in 1 .. Len(u) : w = RemoveAt(u, i)
      BY <1>1, <2>1
    <3>2. w \in Seq(Letters) /\ Removes(u, w, i)
      BY <3>1, RemoveIs
    <3> QED BY <3>2 DEF OneEdit
  <2>2. CASE w \in {InsertAt(u, i, c) : i \in 1 .. Len(u) + 1, c \in Letters}
    <3>1. PICK i \in 1 .. Len(u) + 1, c \in Letters : w = InsertAt(u, i, c)
      BY <2>2
    <3>2. w \in Seq(Letters) /\ Removes(w, u, i)
      BY <3>1, InsertIs
    <3> QED BY <3>2 DEF OneEdit
  <2>3. CASE w \in {[u EXCEPT ![i] = c] : i \in DOMAIN u, c \in Letters}
    <3>1. PICK i \in 1 .. Len(u), c \in Letters : w = [u EXCEPT ![i] = c]
      BY <1>1, <2>3
    <3>2. w \in Seq(Letters) /\ Replaces(u, w, i)
      BY <1>2, <3>1
    <3> QED BY <3>2 DEF OneEdit
  <2>4. CASE w \in {[u EXCEPT ![i] = u[i + 1], ![i + 1] = u[i]] : i \in 1 .. Len(u) - 1}
    <3>1. PICK i \in 1 .. Len(u) - 1 : w = [u EXCEPT ![i] = u[i + 1], ![i + 1] = u[i]]
      BY <2>4
    <3>2. w \in Seq(Letters) /\ Swaps(u, w, i)
      BY <1>3, <3>1
    <3> QED BY <3>2 DEF OneEdit
  <2> QED BY <2>1, <2>2, <2>3, <2>4 DEF Edits
<1>5. ASSUME NEW w \in Seq(Letters), NEW i \in Nat PROVE
        /\ Removes(u, w, i) => w \in Edits(u)
        /\ Removes(w, u, i) => w \in Edits(u)
        /\ Replaces(u, w, i) => w \in Edits(u)
        /\ Swaps(u, w, i) => w \in Edits(u)
  <2>1. ASSUME Removes(u, w, i) PROVE w \in Edits(u)
    <3>1. i \in 1 .. Len(u)
      BY <2>1 DEF Removes
    <3>2. PICK x \in Seq(Letters) : x = RemoveAt(u, i) /\ Removes(u, x, i)
      BY <3>1, RemoveIs
    <3>3. Len(x) = Len(w) /\ \A l \in 1 .. Len(w) : x[l] = w[l]
      BY <2>1, <3>2 DEF Removes
    <3>4. x = w
      BY <3>3, SameWord
    <3>5. w \in {RemoveAt(u, l) : l \in DOMAIN u}
      BY <1>1, <3>1, <3>2, <3>4
    <3> QED BY <3>5 DEF Edits
  <2>2. ASSUME Removes(w, u, i) PROVE w \in Edits(u)
    <3>1. i \in 1 .. Len(w) /\ Len(u) + 1 = Len(w) /\ i \in 1 .. Len(u) + 1 /\ w[i] \in Letters
      BY <2>2 DEF Removes
    <3>2. PICK x \in Seq(Letters) : x = InsertAt(u, i, w[i]) /\ Removes(x, u, i) /\ x[i] = w[i]
      BY <3>1, InsertIs
    <3>3. Len(x) = Len(w)
      BY <2>2, <3>2 DEF Removes
    <3>4. ASSUME NEW l \in 1 .. Len(w) PROVE x[l] = w[l]
      <4>1. CASE l < i
        <5>1. l \in 1 .. Len(u)
          BY <3>1, <4>1
        <5>2. u[l] = w[l] /\ u[l] = x[l]
          BY <2>2, <3>2, <4>1, <5>1 DEF Removes
        <5> QED BY <5>2
      <4>2. CASE l = i
        BY <3>2, <4>2
      <4>3. CASE l > i
        <5>1. l - 1 \in 1 .. Len(u) /\ ~(l - 1 < i) /\ (l - 1) + 1 = l
          BY <1>1, <3>1, <4>3
        <5>2. u[l - 1] = w[(l - 1) + 1] /\ u[l - 1] = x[(l - 1) + 1]
          BY <2>2, <3>2, <5>1 DEF Removes
        <5> QED BY <5>1, <5>2
      <4> QED BY <3>1, <4>1, <4>2, <4>3
    <3>5. x = w
      BY <3>3, <3>4, SameWord
    <3>6. w \in {InsertAt(u, l, c) : l \in 1 .. Len(u) + 1, c \in Letters}
      <4>1. PICK d \in Letters : w = InsertAt(u, i, d)
        BY <3>1, <3>2, <3>5
      <4>2. \E l \in 1 .. Len(u) + 1, c \in Letters : w = InsertAt(u, l, c)
        BY <3>1, <4>1
      <4> QED BY <4>2
    <3> QED BY <3>6 DEF Edits
  <2>3. ASSUME Replaces(u, w, i) PROVE w \in Edits(u)
    <3>1. i \in 1 .. Len(u) /\ w[i] \in Letters /\ Len(w) = Len(u)
      BY <2>3 DEF Replaces
    <3>2. PICK x \in Seq(Letters) : x = [u EXCEPT ![i] = w[i]]
      BY <1>2, <3>1
    <3>3. Len(x) = Len(w) /\ \A l \in 1 .. Len(w) : x[l] = w[l]
      BY <1>1, <2>3, <3>1, <3>2 DEF Replaces
    <3>4. x = w
      BY <3>3, SameWord
    <3> QED BY <1>1, <3>1, <3>2, <3>4 DEF Edits
  <2>4. ASSUME Swaps(u, w, i) PROVE w \in Edits(u)
    <3>1. i \in 1 .. Len(u) - 1 /\ Len(w) = Len(u)
      BY <2>4 DEF Swaps
    <3>2. PICK x \in Seq(Letters) : x = [u EXCEPT ![i] = u[i + 1], ![i + 1] = u[i]] /\ Swaps(u, x, i)
      BY <1>3, <3>1
    <3>3. Len(x) = Len(w) /\ \A l \in 1 .. Len(w) : x[l] = w[l]
      BY <1>1, <2>4, <3>1, <3>2 DEF Swaps
    <3>4. x = w
      BY <3>3, SameWord
    <3> QED BY <3>1, <3>2, <3>4 DEF Edits
  <2> QED BY <2>1, <2>2, <2>3, <2>4
<1>6. \A w \in Seq(Letters) : OneEdit(u, w) => w \in Edits(u)
  BY <1>5 DEF OneEdit
<1> QED BY <1>4, <1>6

(* A word is k edits away: none, one, or two.                                *)
Away(k, u, w) ==
  \/ k = 0 /\ w = u
  \/ k = 1 /\ w \in Edits(u)
  \/ k = 2 /\ \E v \in Edits(u) : w \in Edits(v)

(* Append adds a last letter and keeps the others.                           *)
LEMMA AppendIs ==
  ASSUME NEW S, NEW u \in Seq(S), NEW c \in S
  PROVE  /\ Append(u, c) \in Seq(S) /\ Len(Append(u, c)) = Len(u) + 1
         /\ Append(u, c)[Len(u) + 1] = c
         /\ \A l \in 1 .. Len(u) : Append(u, c)[l] = u[l]
OBVIOUS

(* Edits at the end of a word, and edits that leave the last letter alone.   *)
LEMMA LastEdits ==
  ASSUME NEW u \in Seq(Letters), NEW c \in Letters, NEW b \in Letters
  PROVE  /\ Append(u, c) \in Edits(u)
         /\ u \in Edits(Append(u, c))
         /\ Append(u, b) \in Edits(Append(u, c))
         /\ Append(Append(u, b), c) \in Edits(Append(Append(u, c), b))
<1> DEFINE x == Append(u, c)
           y == Append(u, b)
           xb == Append(x, b)
           yc == Append(y, c)
<1>1. Len(u) \in Nat
  OBVIOUS
<1>2. x \in Seq(Letters) /\ Len(x) = Len(u) + 1 /\ x[Len(u) + 1] = c /\ \A l \in 1 .. Len(u) : x[l] = u[l]
  BY AppendIs
<1>3. y \in Seq(Letters) /\ Len(y) = Len(u) + 1 /\ y[Len(u) + 1] = b /\ \A l \in 1 .. Len(u) : y[l] = u[l]
  BY AppendIs
<1> HIDE DEF x, y
<1>4. /\ xb \in Seq(Letters) /\ Len(xb) = Len(u) + 2 /\ xb[Len(u) + 2] = b
      /\ \A l \in 1 .. Len(u) + 1 : xb[l] = x[l]
  <2>1. /\ xb \in Seq(Letters) /\ Len(xb) = Len(x) + 1 /\ xb[Len(x) + 1] = b
        /\ \A l \in 1 .. Len(x) : xb[l] = x[l]
    BY <1>2, AppendIs
  <2>2. (Len(u) + 1) + 1 = Len(u) + 2
    BY <1>1
  <2> QED BY <1>2, <2>1, <2>2
<1>5. /\ yc \in Seq(Letters) /\ Len(yc) = Len(u) + 2 /\ yc[Len(u) + 2] = c
      /\ \A l \in 1 .. Len(u) + 1 : yc[l] = y[l]
  <2>1. /\ yc \in Seq(Letters) /\ Len(yc) = Len(y) + 1 /\ yc[Len(y) + 1] = c
        /\ \A l \in 1 .. Len(y) : yc[l] = y[l]
    BY <1>3, AppendIs
  <2>2. (Len(u) + 1) + 1 = Len(u) + 2
    BY <1>1
  <2> QED BY <1>3, <2>1, <2>2
<1> HIDE DEF xb, yc
<1>6. Removes(x, u, Len(u) + 1)
  BY <1>1, <1>2 DEF Removes
<1>7. Replaces(x, y, Len(u) + 1)
  <2>1. \A l \in 1 .. Len(x) : l # Len(u) + 1 => l \in 1 .. Len(u)
    BY <1>1, <1>2
  <2> QED BY <1>1, <1>2, <1>3, <2>1 DEF Replaces
<1>8. Swaps(xb, yc, Len(u) + 1)
  <2>1. Len(u) + 1 \in 1 .. Len(xb) - 1 /\ Len(xb) = Len(yc) /\ (Len(u) + 1) + 1 = Len(u) + 2
        /\ Len(u) + 1 \in 1 .. Len(u) + 1
    BY <1>1, <1>4, <1>5
  <2>2. yc[Len(u) + 1] = b /\ xb[Len(u) + 1] = c
    BY <1>2, <1>3, <1>4, <1>5, <2>1
  <2>3. ASSUME NEW l \in 1 .. Len(xb), l # Len(u) + 1, l # Len(u) + 2 PROVE xb[l] = yc[l]
    <3>1. l \in 1 .. Len(u) /\ l \in 1 .. Len(u) + 1
      BY <1>1, <1>4, <2>3
    <3> QED BY <1>2, <1>3, <1>4, <1>5, <3>1
  <2> QED BY <1>4, <1>5, <2>1, <2>2, <2>3 DEF Swaps
<1>9. Len(u) + 1 \in Nat
  BY <1>1
<1>10. OneEdit(u, x) /\ OneEdit(x, u) /\ OneEdit(x, y) /\ OneEdit(xb, yc)
  BY <1>6, <1>7, <1>8, <1>9 DEF OneEdit
<1>11. x \in Edits(u) /\ u \in Edits(x) /\ y \in Edits(x) /\ yc \in Edits(xb)
  BY <1>2, <1>3, <1>4, <1>5, <1>10, EditsAre
<1> QED BY <1>11 DEF x, y, xb, yc

(* An edit of a word is one of the word with a letter behind it.             *)
LEMMA AppendEdit ==
  ASSUME NEW u \in Seq(Letters), NEW w \in Edits(u), NEW c \in Letters
  PROVE  Append(w, c) \in Edits(Append(u, c))
<1> DEFINE x == Append(u, c)
           y == Append(w, c)
<1>1. w \in Seq(Letters) /\ OneEdit(u, w)
  BY EditsAre
<1>2. Len(u) \in Nat /\ Len(w) \in Nat
  BY <1>1
<1>3. x \in Seq(Letters) /\ Len(x) = Len(u) + 1 /\ x[Len(u) + 1] = c /\ \A l \in 1 .. Len(u) : x[l] = u[l]
  BY AppendIs
<1>4. y \in Seq(Letters) /\ Len(y) = Len(w) + 1 /\ y[Len(w) + 1] = c /\ \A l \in 1 .. Len(w) : y[l] = w[l]
  BY <1>1, AppendIs
<1> HIDE DEF x, y
<1>5. PICK i \in Nat : Removes(u, w, i) \/ Removes(w, u, i) \/ Replaces(u, w, i) \/ Swaps(u, w, i)
  BY <1>1 DEF OneEdit
<1>6. ASSUME NEW p \in Seq(Letters), NEW q \in Seq(Letters), NEW r, NEW s, Removes(p, q, i),
             Len(r) = Len(p) + 1, r[Len(p) + 1] = c, \A l \in 1 .. Len(p) : r[l] = p[l],
             Len(s) = Len(q) + 1, s[Len(q) + 1] = c, \A l \in 1 .. Len(q) : s[l] = q[l]
      PROVE  Removes(r, s, i)
  <2>1. Len(p) \in Nat /\ Len(q) \in Nat /\ i \in 1 .. Len(p) /\ Len(q) + 1 = Len(p)
    BY <1>6 DEF Removes
  <2>2. ASSUME NEW l \in 1 .. Len(s) PROVE (l < i => s[l] = r[l]) /\ (~(l < i) => s[l] = r[l + 1])
    <3>1. CASE l = Len(q) + 1
      <4>1. ~(l < i) /\ l + 1 = Len(p) + 1
        BY <2>1, <3>1
      <4> QED BY <1>6, <3>1, <4>1
    <3>2. CASE l # Len(q) + 1
      <4>1. l \in 1 .. Len(q) /\ l \in 1 .. Len(p) /\ l + 1 \in 1 .. Len(p)
        BY <1>6, <2>1, <3>2
      <4>2. s[l] = q[l] /\ r[l] = p[l] /\ r[l + 1] = p[l + 1]
        BY <1>6, <4>1
      <4>3. (l < i => q[l] = p[l]) /\ (~(l < i) => q[l] = p[l + 1])
        BY <1>6, <4>1 DEF Removes
      <4> QED BY <4>2, <4>3
    <3> QED BY <3>1, <3>2
  <2>3. i \in 1 .. Len(r) /\ Len(s) + 1 = Len(r)
    BY <1>6, <2>1
  <2> QED BY <2>2, <2>3 DEF Removes
<1>7. Removes(u, w, i) => Removes(x, y, i)
  BY <1>1, <1>3, <1>4, <1>6
<1>8. Removes(w, u, i) => Removes(y, x, i)
  BY <1>1, <1>3, <1>4, <1>6
<1>9. ASSUME Replaces(u, w, i) PROVE Replaces(x, y, i)
  <2>1. i \in 1 .. Len(u) /\ Len(w) = Len(u)
    BY <1>9 DEF Replaces
  <2>2. ASSUME NEW l \in 1 .. Len(x), l # i PROVE y[l] = x[l]
    <3>1. CASE l = Len(u) + 1
      BY <1>3, <1>4, <2>1, <3>1
    <3>2. CASE l # Len(u) + 1
      <4>1. l \in 1 .. Len(u)
        BY <1>2, <1>3, <3>2
      <4> QED BY <1>3, <1>4, <1>9, <2>1, <2>2, <4>1 DEF Replaces
    <3> QED BY <3>1, <3>2
  <2> QED BY <1>2, <1>3, <1>4, <2>1, <2>2 DEF Replaces
<1>10. ASSUME Swaps(u, w, i) PROVE Swaps(x, y, i)
  <2>1. i \in 1 .. Len(u) - 1 /\ Len(w) = Len(u) /\ w[i] = u[i + 1] /\ w[i + 1] = u[i]
    BY <1>10 DEF Swaps
  <2>2. i \in 1 .. Len(u) /\ i + 1 \in 1 .. Len(u) /\ i \in 1 .. Len(x) - 1 /\ Len(x) = Len(y)
    BY <1>2, <1>3, <1>4, <2>1
  <2>3. y[i] = x[i + 1] /\ y[i + 1] = x[i]
    BY <1>3, <1>4, <2>1, <2>2
  <2>4. ASSUME NEW l \in 1 .. Len(x), l # i, l # i + 1 PROVE y[l] = x[l]
    <3>1. CASE l = Len(u) + 1
      BY <1>3, <1>4, <2>1, <3>1
    <3>2. CASE l # Len(u) + 1
      <4>1. l \in 1 .. Len(u)
        BY <1>2, <1>3, <3>2
      <4> QED BY <1>3, <1>4, <1>10, <2>1, <2>4, <4>1 DEF Swaps
    <3> QED BY <3>1, <3>2
  <2> QED BY <2>2, <2>3, <2>4 DEF Swaps
<1>11. OneEdit(x, y)
  BY <1>5, <1>7, <1>8, <1>9, <1>10 DEF OneEdit
<1>12. y \in Edits(x)
  BY <1>3, <1>4, <1>11, EditsAre
<1> QED BY <1>12 DEF x, y

(* A letter behind both words changes nothing, and one edit more is one more.*)
LEMMA AwaySteps ==
  ASSUME NEW u \in Seq(Letters), NEW w \in Seq(Letters), NEW k \in {0, 1, 2}, Away(k, u, w)
  PROVE  /\ \A c \in Letters : Away(k, Append(u, c), Append(w, c))
         /\ k # 2 => \A x \in Edits(w) : Away(k + 1, u, x)
         /\ k # 2 => \A x \in Seq(Letters) : u \in Edits(x) => Away(k + 1, x, w)
<1>1. CASE k = 0
  BY <1>1 DEF Away
<1>2. CASE k = 1
  <2>1. w \in Edits(u)
    BY <1>2 DEF Away
  <2>2. \A c \in Letters : Append(w, c) \in Edits(Append(u, c))
    BY <2>1, AppendEdit
  <2> QED BY <1>2, <2>1, <2>2 DEF Away
<1>3. CASE k = 2
  <2>1. PICK v \in Edits(u) : w \in Edits(v)
    BY <1>3 DEF Away
  <2>2. v \in Seq(Letters)
    BY EditsAre
  <2>3. \A c \in Letters : Append(v, c) \in Edits(Append(u, c)) /\ Append(w, c) \in Edits(Append(v, c))
    BY <2>1, <2>2, AppendEdit
  <2> QED BY <1>3, <2>3 DEF Away
<1> QED BY <1>1, <1>2, <1>3

(* No edit at all, and one edit, are also two.                               *)
LEMMA FewerIsAway ==
  ASSUME NEW u \in Seq(Letters), NEW w \in Seq(Letters), NEW k \in {0, 1, 2}, Away(k, u, w)
  PROVE  w \in UNION {Edits(v) : v \in Edits(u)}
<1>0. PICK c \in Letters : TRUE
  BY PatternAssumption
<1>1. ASSUME NEW v \in Seq(Letters), v # <<>> PROVE v \in Edits(v)
  <2>1. Replaces(v, v, 1)
    BY <1>1 DEF Replaces
  <2>2. OneEdit(v, v)
    BY <2>1 DEF OneEdit
  <2> QED BY <2>2, EditsAre
<1>2. CASE k = 0
  <2>1. w = u
    BY <1>2 DEF Away
  <2>2. Append(u, c) \in Edits(u) /\ u \in Edits(Append(u, c))
    BY LastEdits
  <2> QED BY <2>1, <2>2
<1>3. CASE k = 1
  <2>1. w \in Edits(u)
    BY <1>3 DEF Away
  <2>2. CASE u # <<>>
    BY <1>1, <2>1, <2>2
  <2>3. CASE w # <<>>
    BY <1>1, <2>1, <2>3
  <2>4. CASE u = <<>> /\ w = <<>>
    <3>1. Append(u, c) \in Edits(u) /\ u \in Edits(Append(u, c))
      BY LastEdits
    <3> QED BY <2>4, <3>1
  <2> QED BY <2>2, <2>3, <2>4
<1>4. CASE k = 2
  BY <1>4 DEF Away
<1> QED BY <1>2, <1>3, <1>4
-----------------------------------------------------------------------------
(* The table of the edit distance.                                           *)

Cells(a, b) == (0 .. Len(b)) \X (0 .. Len(a))

Swapped(a, b, j, i) == i >= 2 /\ j >= 2 /\ a[i] = b[j - 1] /\ a[i - 1] = b[j]

(* What a cell is computed from.                                             *)
Candidates(d, a, b, j, i) ==
  {d[<<j - 1, i>>] + 1, d[<<j, i - 1>>] + 1, d[<<j - 1, i - 1>>] + (IF a[i] = b[j] THEN 0 ELSE 1)}
    \cup (IF Swapped(a, b, j, i) THEN {d[<<j - 2, i - 2>>] + 1} ELSE {})

TableBy(d, a, b, j, i) ==
  /\ j = 0 => d[<<j, i>>] = i
  /\ j # 0 /\ i = 0 => d[<<j, i>>] = j
  /\ j # 0 /\ i # 0 => d[<<j, i>>] = Min(Candidates(d, a, b, j, i))

(* The options of a cell are numbers, and there is one.                      *)
LEMMA CandidatesAre ==
  ASSUME NEW d, NEW a, NEW b, NEW j, NEW i,
         d[<<j - 1, i>>] \in Nat, d[<<j, i - 1>>] \in Nat, d[<<j - 1, i - 1>>] \in Nat,
         Swapped(a, b, j, i) => d[<<j - 2, i - 2>>] \in Nat
  PROVE  Candidates(d, a, b, j, i) \in SUBSET Nat /\ Candidates(d, a, b, j, i) # {}
<1> DEFINE x == d[<<j - 1, i>>] + 1
           y == d[<<j, i - 1>>] + 1
           z == d[<<j - 1, i - 1>>] + (IF a[i] = b[j] THEN 0 ELSE 1)
           w == d[<<j - 2, i - 2>>] + 1
<1>1. x \in Nat /\ y \in Nat /\ z \in Nat /\ (Swapped(a, b, j, i) => w \in Nat)
  OBVIOUS
<1>2. Candidates(d, a, b, j, i) = {x, y, z} \cup (IF Swapped(a, b, j, i) THEN {w} ELSE {})
  BY DEF Candidates
<1> HIDE DEF x, y, z, w
<1>3. CASE Swapped(a, b, j, i)
  BY <1>1, <1>2, <1>3
<1>4. CASE ~Swapped(a, b, j, i)
  BY <1>1, <1>2, <1>4
<1> QED BY <1>3, <1>4

(* The function Table says of every cell what TableBy says.                  *)
LEMMA TableIs ==
  ASSUME NEW S, NEW a \in Seq(S), NEW T, NEW b \in Seq(T)
  PROVE  /\ Table(a, b) \in [Cells(a, b) -> Nat]
         /\ \A j \in 0 .. Len(b), i \in 0 .. Len(a) : TableBy(Table(a, b), a, b, j, i)
<1> DEFINE D == Cells(a, b)
           V == Nat
           C(f, j, i) == Candidates(f, a, b, j, i)
           Body(f, c) ==
             LET j == c[1]
                 i == c[2]
             IN IF j = 0 THEN i ELSE IF i = 0 THEN j ELSE Min(C(f, j, i))
           mu == [c \in D |-> c[1] + c[2]]
           G == [f \in [D -> V] |-> [c \in D |-> Body(f, c)]]
<1>1. Len(a) \in Nat /\ Len(b) \in Nat
  OBVIOUS
<1>2. /\ mu \in [D -> Nat]
      /\ \A j \in 0 .. Len(b), i \in 0 .. Len(a) :
           /\ <<j, i>> \in D /\ i \in Nat /\ j \in Nat
           /\ j # 0 => <<j - 1, i>> \in D /\ mu[<<j - 1, i>>] < mu[<<j, i>>]
           /\ i # 0 => <<j, i - 1>> \in D /\ mu[<<j, i - 1>>] < mu[<<j, i>>]
           /\ j # 0 /\ i # 0 => <<j - 1, i - 1>> \in D /\ mu[<<j - 1, i - 1>>] < mu[<<j, i>>]
           /\ j >= 2 /\ i >= 2 => <<j - 2, i - 2>> \in D /\ mu[<<j - 2, i - 2>>] < mu[<<j, i>>]
  <2>1. mu \in [D -> Nat]
    BY DEF Cells
  <2>2. \A j \in 0 .. Len(b), i \in 0 .. Len(a) : <<j, i>> \in D /\ mu[<<j, i>>] = j + i
    BY DEF Cells
  <2>3. ASSUME NEW j \in 0 .. Len(b), NEW i \in 0 .. Len(a),
               NEW k \in 0 .. Len(b), NEW l \in 0 .. Len(a), k <= j, l <= i, k < j \/ l < i
        PROVE  <<k, l>> \in D /\ mu[<<k, l>>] < mu[<<j, i>>]
    <3>1. k + l < j + i
      BY <2>3
    <3>2. mu[<<k, l>>] = k + l /\ mu[<<j, i>>] = j + i /\ <<k, l>> \in D
      BY <2>2
    <3> HIDE DEF mu, D
    <3> QED BY <3>1, <3>2
  <2>4. ASSUME NEW j \in 0 .. Len(b), NEW i \in 0 .. Len(a)
        PROVE  /\ j \in Nat /\ i \in Nat /\ j <= j /\ i <= i
               /\ j # 0 => j - 1 \in 0 .. Len(b) /\ j - 1 <= j /\ j - 1 < j
               /\ i # 0 => i - 1 \in 0 .. Len(a) /\ i - 1 <= i /\ i - 1 < i
               /\ j >= 2 => j - 2 \in 0 .. Len(b) /\ j - 2 <= j /\ j - 2 < j
               /\ i >= 2 => i - 2 \in 0 .. Len(a) /\ i - 2 <= i /\ i - 2 < i
    BY <1>1, <2>4
  <2> HIDE DEF mu, D
  <2>5. ASSUME NEW j \in 0 .. Len(b), NEW i \in 0 .. Len(a)
        PROVE  /\ j # 0 => <<j - 1, i>> \in D /\ mu[<<j - 1, i>>] < mu[<<j, i>>]
               /\ i # 0 => <<j, i - 1>> \in D /\ mu[<<j, i - 1>>] < mu[<<j, i>>]
               /\ j # 0 /\ i # 0 => <<j - 1, i - 1>> \in D /\ mu[<<j - 1, i - 1>>] < mu[<<j, i>>]
               /\ j >= 2 /\ i >= 2 => <<j - 2, i - 2>> \in D /\ mu[<<j - 2, i - 2>>] < mu[<<j, i>>]
    <3>1. j # 0 => <<j - 1, i>> \in D /\ mu[<<j - 1, i>>] < mu[<<j, i>>]
      BY <2>3, <2>4
    <3>2. i # 0 => <<j, i - 1>> \in D /\ mu[<<j, i - 1>>] < mu[<<j, i>>]
      BY <2>3, <2>4
    <3>3. j # 0 /\ i # 0 => <<j - 1, i - 1>> \in D /\ mu[<<j - 1, i - 1>>] < mu[<<j, i>>]
      BY <2>3, <2>4
    <3>4. j >= 2 /\ i >= 2 => <<j - 2, i - 2>> \in D /\ mu[<<j - 2, i - 2>>] < mu[<<j, i>>]
      BY <2>3, <2>4
    <3> QED BY <3>1, <3>2, <3>3, <3>4
  <2> QED BY <2>1, <2>2, <2>4, <2>5
<1>3. ASSUME NEW c \in D PROVE \E j \in 0 .. Len(b), i \in 0 .. Len(a) : c = <<j, i>> /\ c[1] = j /\ c[2] = i
  BY DEF Cells
<1> HIDE DEF D, mu, C
<1>5. ASSUME NEW f, NEW c \in D, \A y \in D : mu[y] < mu[c] => f[y] \in V PROVE Body(f, c) \in V
  <2>1. PICK j \in 0 .. Len(b), i \in 0 .. Len(a) : c = <<j, i>> /\ c[1] = j /\ c[2] = i
    BY <1>3
  <2>2. CASE j = 0 \/ i = 0
    BY <2>1, <2>2
  <2>3. CASE j # 0 /\ i # 0
    <3>1. /\ f[<<j - 1, i>>] \in Nat /\ f[<<j, i - 1>>] \in Nat /\ f[<<j - 1, i - 1>>] \in Nat
          /\ j >= 2 /\ i >= 2 => f[<<j - 2, i - 2>>] \in Nat
      BY <1>2, <1>5, <2>1, <2>3
    <3>2. C(f, j, i) \in SUBSET Nat /\ C(f, j, i) # {}
      <4>1. Swapped(a, b, j, i) => f[<<j - 2, i - 2>>] \in Nat
        BY <3>1 DEF Swapped
      <4> QED BY <3>1, <4>1, CandidatesAre DEF C
    <3>3. Min(C(f, j, i)) \in Nat
      BY <3>2, MinIs
    <3> QED BY <2>1, <2>3, <3>3
  <2> QED BY <2>2, <2>3
<1>12. G \in [[D -> V] -> [D -> V]]
  <2> HIDE DEF Body
  <2>1. ASSUME NEW f \in [D -> V], NEW c \in D PROVE Body(f, c) \in V
    <3>1. \A y \in D : f[y] \in V
      OBVIOUS
    <3> QED BY <1>5, <3>1
  <2> QED BY <2>1
<1>6. Local(G, D, V, mu)
  <2>1. ASSUME NEW f \in [D -> V], NEW g \in [D -> V], NEW x \in D,
               \A y \in D : mu[y] < mu[x] => f[y] = g[y]
        PROVE  Body(f, x) = Body(g, x)
    <3>1. PICK j \in 0 .. Len(b), i \in 0 .. Len(a) : x = <<j, i>> /\ x[1] = j /\ x[2] = i
      BY <1>3
    <3>2. CASE j = 0 \/ i = 0
      BY <3>1, <3>2
    <3>3. CASE j # 0 /\ i # 0
      <4>1. /\ f[<<j - 1, i>>] = g[<<j - 1, i>>] /\ f[<<j, i - 1>>] = g[<<j, i - 1>>]
            /\ f[<<j - 1, i - 1>>] = g[<<j - 1, i - 1>>]
            /\ j >= 2 /\ i >= 2 => f[<<j - 2, i - 2>>] = g[<<j - 2, i - 2>>]
        BY <1>2, <2>1, <3>1, <3>3
      <4>2. Candidates(f, a, b, j, i) = Candidates(g, a, b, j, i)
        <5>1. CASE Swapped(a, b, j, i)
          <6>1. f[<<j - 2, i - 2>>] = g[<<j - 2, i - 2>>]
            BY <4>1, <5>1 DEF Swapped
          <6> QED BY <4>1, <5>1, <6>1 DEF Candidates
        <5>2. CASE ~Swapped(a, b, j, i)
          BY <4>1, <5>2 DEF Candidates
        <5> QED BY <5>1, <5>2
      <4> QED BY <3>1, <3>3, <4>2 DEF C
    <3> QED BY <3>2, <3>3
  <2>2. \A f \in [D -> V] : \A x \in D : G[f][x] = Body(f, x)
    <3> HIDE DEF Body
    <3> QED OBVIOUS
  <2> HIDE DEF G, V, Body
  <2>3. ASSUME NEW f \in [D -> V], NEW g \in [D -> V], NEW x \in D,
               \A y \in D : mu[y] < mu[x] => f[y] = g[y]
        PROVE  G[f][x] = G[g][x]
    BY <2>1, <2>2, <2>3
  <2> QED BY <2>3 DEF Local
<1>7. \E f \in [D -> V] : Solves(f, G)
  <2>1. 0 \in V
    OBVIOUS
  <2> HIDE DEF V, G
  <2> QED BY <1>2, <1>12, <1>6, <2>1, Recursion, Zenon
<1>8. \E f \in [D -> V] : f = [c \in D |-> Body(f, c)]
  <2> HIDE DEF Body
  <2> QED BY <1>7 DEF Solves
<1>9. Table(a, b) = CHOOSE d : d = [c \in D |-> Body(d, c)]
  BY Zenon DEF Table, Cells, D, C, Candidates, Swapped
<1> DEFINE d == Table(a, b)
<1>10. d = [c \in D |-> Body(d, c)]
  <2> HIDE DEF Body, V
  <2> QED BY <1>8, <1>9
<1>13. d \in [D -> V]
  <2> HIDE DEF Body, V, d
  <2> DEFINE H == {c \in D : d[c] \in V}
  <2>1. ASSUME NEW c \in D, \A y \in D : mu[y] < mu[c] => y \in H PROVE c \in H
    <3>1. \A y \in D : mu[y] < mu[c] => d[y] \in V
      BY <2>1
    <3>2. Body(d, c) \in V
      BY <1>5, <3>1
    <3>3. d[c] = Body(d, c)
      BY <1>10
    <3> QED BY <3>2, <3>3
  <2>2. \A c \in D : c \in H
    <3> HIDE DEF H
    <3> QED BY <1>2, <2>1, ByMeasure, Zenon
  <2>3. \A c \in D : Body(d, c) \in V
    <3> SUFFICES ASSUME NEW c \in D PROVE Body(d, c) \in V
      OBVIOUS
    <3>1. d[c] = Body(d, c)
      BY <1>10
    <3> QED BY <2>2, <3>1
  <2> QED BY <1>10, <2>3
<1>11. ASSUME NEW j \in 0 .. Len(b), NEW i \in 0 .. Len(a)
       PROVE  TableBy(d, a, b, j, i)
  <2>1. <<j, i>> \in D /\ <<j, i>>[1] = j /\ <<j, i>>[2] = i
    BY DEF Cells, D
  <2>2. d[<<j, i>>] = Body(d, <<j, i>>)
    <3> HIDE DEF Body, V, d
    <3> QED BY <1>10, <2>1
  <2> HIDE DEF d
  <2> QED BY <2>1, <2>2 DEF TableBy, C
<1> QED BY <1>13, <1>11 DEF D

(* A cell is what one step more makes of the cells before it: ...            *)
Costs(d, a, b, j, i) == d[<<j - 1, i - 1>>] + (IF a[i] = b[j] THEN 0 ELSE 1)

ComesFrom(d, a, b, j, i) ==
  \/ d[<<j, i>>] = d[<<j - 1, i>>] + 1
  \/ d[<<j, i>>] = d[<<j, i - 1>>] + 1
  \/ d[<<j, i>>] = Costs(d, a, b, j, i)
  \/ Swapped(a, b, j, i) /\ d[<<j, i>>] = d[<<j - 2, i - 2>>] + 1

IsNear(d, j, i) ==
  \/ d[<<j, i>>] = d[<<j - 1, i>>] + 1
  \/ d[<<j, i>>] = d[<<j, i - 1>>] + 1
  \/ d[<<j, i>>] = d[<<j - 1, i - 1>>]
  \/ d[<<j, i>>] = d[<<j - 1, i - 1>>] + 1
  \/ i >= 2 /\ j >= 2 /\ d[<<j, i>>] = d[<<j - 2, i - 2>>] + 1

(* The first row and the first column count.                                 *)
LEMMA CellsAre ==
  ASSUME NEW S, NEW a \in Seq(S), NEW T, NEW b \in Seq(T)
  PROVE  /\ \A j \in 0 .. Len(b), i \in 0 .. Len(a) : Table(a, b)[<<j, i>>] \in Nat
         /\ \A i \in 0 .. Len(a) : Table(a, b)[<<0, i>>] = i
         /\ \A j \in 0 .. Len(b) : Table(a, b)[<<j, 0>>] = j
<1>1. \A j \in 0 .. Len(b), i \in 0 .. Len(a) : <<j, i>> \in Cells(a, b)
  BY DEF Cells
<1>2. 0 \in 0 .. Len(b) /\ 0 \in 0 .. Len(a)
  OBVIOUS
<1>3. \A i \in 0 .. Len(a) : Table(a, b)[<<0, i>>] = i
  BY <1>2, TableIs DEF TableBy
<1>4. \A j \in 0 .. Len(b) : Table(a, b)[<<j, 0>>] = j
  <2>1. \A j \in 0 .. Len(b) : TableBy(Table(a, b), a, b, j, 0)
    BY <1>2, TableIs
  <2> QED BY <2>1 DEF TableBy
<1>5. Table(a, b) \in [Cells(a, b) -> Nat]
  BY TableIs
<1> QED BY <1>1, <1>3, <1>4, <1>5

(* It is at most each option and equal to one of them; ...                   *)
LEMMA CellSteps ==
  ASSUME NEW S, NEW a \in Seq(S), NEW T, NEW b \in Seq(T),
         NEW j \in 1 .. Len(b), NEW i \in 1 .. Len(a), NEW d, d = Table(a, b)
  PROVE  /\ d[<<j, i>>] <= d[<<j - 1, i>>] + 1
         /\ d[<<j, i>>] <= d[<<j, i - 1>>] + 1
         /\ d[<<j, i>>] <= Costs(d, a, b, j, i)
         /\ Swapped(a, b, j, i) => d[<<j, i>>] <= d[<<j - 2, i - 2>>] + 1
         /\ ComesFrom(d, a, b, j, i)
<1> DEFINE K == Candidates(d, a, b, j, i)
<1>1. /\ j \in 0 .. Len(b) /\ j # 0 /\ i \in 0 .. Len(a) /\ i # 0
      /\ j - 1 \in 0 .. Len(b) /\ i - 1 \in 0 .. Len(a)
      /\ j >= 2 => j - 2 \in 0 .. Len(b)
      /\ i >= 2 => i - 2 \in 0 .. Len(a)
  OBVIOUS
<1>2. d[<<j, i>>] = Min(K)
  BY <1>1, TableIs DEF TableBy
<1>3. \A k \in 0 .. Len(b), l \in 0 .. Len(a) : d[<<k, l>>] \in Nat
  BY CellsAre
<1>4. K \in SUBSET Nat /\ K # {}
  <2>1. /\ d[<<j - 1, i>>] \in Nat /\ d[<<j, i - 1>>] \in Nat /\ d[<<j - 1, i - 1>>] \in Nat
        /\ Swapped(a, b, j, i) => d[<<j - 2, i - 2>>] \in Nat
    BY <1>1, <1>3 DEF Swapped
  <2> QED BY <2>1, CandidatesAre
<1>5. Min(K) \in K /\ \A x \in K : Min(K) <= x
  <2> HIDE DEF K
  <2> QED BY <1>4, MinIs
<1>6. PICK m : m = Min(K)
  OBVIOUS
<1>7. m \in K /\ (\A x \in K : m <= x) /\ d[<<j, i>>] = m
  BY <1>2, <1>5, <1>6
<1>8. \/ m = d[<<j - 1, i>>] + 1
      \/ m = d[<<j, i - 1>>] + 1
      \/ m = Costs(d, a, b, j, i)
      \/ Swapped(a, b, j, i) /\ m = d[<<j - 2, i - 2>>] + 1
  BY <1>7 DEF Candidates, Costs
<1>9. /\ d[<<j - 1, i>>] + 1 \in K /\ d[<<j, i - 1>>] + 1 \in K /\ Costs(d, a, b, j, i) \in K
      /\ Swapped(a, b, j, i) => d[<<j - 2, i - 2>>] + 1 \in K
  BY DEF Candidates, Costs
<1> HIDE DEF K
<1> QED BY <1>7, <1>8, <1>9 DEF ComesFrom

(* ... on the diagonal it grows by one at most, ...                          *)
LEMMA CellFrom ==
  ASSUME NEW S, NEW a \in Seq(S), NEW T, NEW b \in Seq(T),
         NEW j \in 1 .. Len(b), NEW i \in 1 .. Len(a), NEW d, d = Table(a, b)
  PROVE  /\ d[<<j, i>>] <= d[<<j - 1, i - 1>>] + 1
         /\ IsNear(d, j, i)
<1>1. j - 1 \in 0 .. Len(b) /\ i - 1 \in 0 .. Len(a) /\ j \in 0 .. Len(b) /\ i \in 0 .. Len(a)
  OBVIOUS
<1>2. PICK z \in Nat, m \in Nat : z = d[<<j - 1, i - 1>>] /\ m = d[<<j, i>>]
  BY <1>1, CellsAre
<1>3. Costs(d, a, b, j, i) = z \/ Costs(d, a, b, j, i) = z + 1
  BY <1>2 DEF Costs
<1>4. m <= Costs(d, a, b, j, i)
  BY <1>2, CellSteps
<1>5. ComesFrom(d, a, b, j, i)
  BY CellSteps
<1>6. m <= z + 1
  BY <1>2, <1>3, <1>4
<1> QED BY <1>2, <1>3, <1>5, <1>6 DEF Swapped, ComesFrom, IsNear

(* What holds of a cell if it holds of those before it holds of all.         *)
LEMMA ByCells ==
  ASSUME NEW m \in Nat, NEW n \in Nat, NEW H,
         \A j \in 0 .. m, i \in 0 .. n :
           (\A k \in 0 .. m, l \in 0 .. n : k + l < j + i => <<k, l>> \in H) => <<j, i>> \in H
  PROVE  \A j \in 0 .. m, i \in 0 .. n : <<j, i>> \in H
<1> DEFINE D == (0 .. m) \X (0 .. n)
           mu == [c \in D |-> c[1] + c[2]]
<1>1. mu \in [D -> Nat]
  OBVIOUS
<1>2. \A j \in 0 .. m, i \in 0 .. n : <<j, i>> \in D /\ mu[<<j, i>>] = j + i
  OBVIOUS
<1>3. ASSUME NEW c \in D, \A y \in D : mu[y] < mu[c] => y \in H PROVE c \in H
  <2>1. PICK j \in 0 .. m, i \in 0 .. n : c = <<j, i>>
    OBVIOUS
  <2> HIDE DEF mu, D
  <2>2. \A k \in 0 .. m, l \in 0 .. n : k + l < j + i => <<k, l>> \in H
    BY <1>2, <1>3, <2>1
  <2> QED BY <2>1, <2>2
<1>4. \A c \in D : c \in H
  <2> HIDE DEF mu, D
  <2> QED BY <1>1, <1>3, ByMeasure, Zenon
<1> QED BY <1>2, <1>4

(* ... at least the difference of the lengths, at most the longer one, ...   *)
LEMMA CellBounds ==
  ASSUME NEW S, NEW a \in Seq(S), NEW T, NEW b \in Seq(T)
  PROVE  \A j \in 0 .. Len(b), i \in 0 .. Len(a) :
           /\ j - i <= Table(a, b)[<<j, i>>] /\ i - j <= Table(a, b)[<<j, i>>]
           /\ Table(a, b)[<<j, i>>] <= j \/ Table(a, b)[<<j, i>>] <= i
<1> DEFINE Good(x, j, i) == j - i <= x /\ i - j <= x /\ (x <= j \/ x <= i)
<1>0. PICK d : d = Table(a, b)
  OBVIOUS
<1> DEFINE H == {c \in (0 .. Len(b)) \X (0 .. Len(a)) : Good(d[c], c[1], c[2])}
<1>1. Len(a) \in Nat /\ Len(b) \in Nat
  OBVIOUS
<1>2. /\ \A j \in 0 .. Len(b), i \in 0 .. Len(a) : d[<<j, i>>] \in Nat
      /\ \A i \in 0 .. Len(a) : d[<<0, i>>] = i
      /\ \A j \in 0 .. Len(b) : d[<<j, 0>>] = j
  BY <1>0, CellsAre
<1>3. \A j \in 0 .. Len(b), i \in 0 .. Len(a) : <<j, i>> \in H <=> Good(d[<<j, i>>], j, i)
  OBVIOUS
<1> HIDE DEF H
<1>4. ASSUME NEW j \in 0 .. Len(b), NEW i \in 0 .. Len(a),
             \A k \in 0 .. Len(b), l \in 0 .. Len(a) : k + l < j + i => <<k, l>> \in H
      PROVE  <<j, i>> \in H
  <2> SUFFICES Good(d[<<j, i>>], j, i)
    BY <1>3
  <2>1. CASE j = 0 \/ i = 0
    BY <1>1, <1>2, <2>1
  <2>2. CASE j # 0 /\ i # 0
    <3>1. /\ j \in 1 .. Len(b) /\ i \in 1 .. Len(a)
          /\ j - 1 \in 0 .. Len(b) /\ i - 1 \in 0 .. Len(a)
          /\ (j - 1) + i < j + i /\ j + (i - 1) < j + i /\ (j - 1) + (i - 1) < j + i
          /\ (i >= 2 /\ j >= 2) => j - 2 \in 0 .. Len(b) /\ i - 2 \in 0 .. Len(a) /\ (j - 2) + (i - 2) < j + i
      BY <2>2
    <3>2. PICK x \in Nat, y \in Nat, z \in Nat, m \in Nat :
            x = d[<<j - 1, i>>] /\ y = d[<<j, i - 1>>] /\ z = d[<<j - 1, i - 1>>] /\ m = d[<<j, i>>]
      BY <1>2, <3>1
    <3>3. Good(x, j - 1, i) /\ Good(y, j, i - 1) /\ Good(z, j - 1, i - 1)
      <4>1. <<j - 1, i>> \in H /\ <<j, i - 1>> \in H /\ <<j - 1, i - 1>> \in H
        BY <1>4, <3>1
      <4> HIDE DEF Good
      <4> QED BY <1>3, <3>1, <3>2, <4>1
    <3>4. PICK w : /\ m = x + 1 \/ m = y + 1 \/ m = z \/ m = z + 1 \/ (i >= 2 /\ j >= 2 /\ m = w + 1)
                   /\ w = d[<<j - 2, i - 2>>]
      <4>1. IsNear(d, j, i)
        BY <1>0, <3>1, CellFrom
      <4> QED BY <3>2, <4>1 DEF IsNear
    <3>5. i >= 2 /\ j >= 2 => w \in Nat /\ Good(w, j - 2, i - 2)
      <4>1. i >= 2 /\ j >= 2 => <<j - 2, i - 2>> \in H
        BY <1>4, <3>1
      <4> HIDE DEF Good
      <4> QED BY <1>2, <1>3, <3>1, <3>4, <4>1
    <3>6. m <= z + 1
      BY <1>0, <3>1, <3>2, CellFrom
    <3>7. Good(m, j, i)
      <4>1. CASE m = x + 1
        BY <3>1, <3>3, <3>6, <4>1
      <4>2. CASE m = y + 1
        BY <3>1, <3>3, <3>6, <4>2
      <4>3. CASE m = z \/ m = z + 1
        BY <3>1, <3>3, <4>3
      <4>4. CASE i >= 2 /\ j >= 2 /\ m = w + 1
        BY <3>1, <3>3, <3>5, <3>6, <4>4
      <4> QED BY <3>4, <4>1, <4>2, <4>3, <4>4
    <3> QED BY <3>2, <3>7
  <2> QED BY <2>1, <2>2
<1>5. \A j \in 0 .. Len(b), i \in 0 .. Len(a) : <<j, i>> \in H
  <2> HIDE DEF Good
  <2> QED BY <1>1, <1>4, ByCells
<1> QED BY <1>0, <1>3, <1>5

(* ... and one step costs at most one more.                                  *)
LEMMA CellNext ==
  ASSUME NEW S, NEW a \in Seq(S), NEW T, NEW b \in Seq(T)
  PROVE  /\ \A j \in 1 .. Len(b), i \in 0 .. Len(a) : Table(a, b)[<<j, i>>] <= Table(a, b)[<<j - 1, i>>] + 1
         /\ \A j \in 0 .. Len(b), i \in 1 .. Len(a) : Table(a, b)[<<j, i>>] <= Table(a, b)[<<j, i - 1>>] + 1
<1>1. Len(a) \in Nat /\ Len(b) \in Nat
  OBVIOUS
<1>2. PICK d : d = Table(a, b)
  OBVIOUS
<1>3. /\ \A i \in 0 .. Len(a) : d[<<0, i>>] = i
      /\ \A j \in 0 .. Len(b) : d[<<j, 0>>] = j
  BY <1>2, CellsAre
<1>4. ASSUME NEW j \in 1 .. Len(b), NEW i \in 0 .. Len(a) PROVE d[<<j, i>>] <= d[<<j - 1, i>>] + 1
  <2>1. CASE i = 0
    <3>1. j \in 0 .. Len(b) /\ j - 1 \in 0 .. Len(b)
      OBVIOUS
    <3>2. d[<<j, i>>] = j /\ d[<<j - 1, i>>] = j - 1
      BY <1>3, <2>1, <3>1
    <3>3. j <= (j - 1) + 1
      OBVIOUS
    <3> QED BY <3>2, <3>3
  <2>2. CASE i # 0
    <3>1. i \in 1 .. Len(a)
      BY <2>2
    <3> QED BY <1>2, <3>1, CellSteps
  <2> QED BY <2>1, <2>2
<1>5. ASSUME NEW j \in 0 .. Len(b), NEW i \in 1 .. Len(a) PROVE d[<<j, i>>] <= d[<<j, i - 1>>] + 1
  <2>1. CASE j = 0
    <3>1. i \in 0 .. Len(a) /\ i - 1 \in 0 .. Len(a)
      OBVIOUS
    <3>2. d[<<j, i>>] = i /\ d[<<j, i - 1>>] = i - 1
      BY <1>3, <2>1, <3>1
    <3>3. i <= (i - 1) + 1
      OBVIOUS
    <3> QED BY <3>2, <3>3
  <2>2. CASE j # 0
    <3>1. j \in 1 .. Len(b)
      BY <2>2
    <3> QED BY <1>2, <3>1, CellSteps
  <2> QED BY <2>1, <2>2
<1> QED BY <1>2, <1>4, <1>5

(* To stop at a row that is beyond the bound loses nothing: no row below it  *)
(* is better, although a swap looks two rows back.                           *)
LEMMA RowsGrow ==
  ASSUME NEW S, NEW a \in Seq(S), NEW T, NEW b \in Seq(T), NEW r \in 0 .. Len(b)
  PROVE  \A j \in 0 .. Len(b), i \in 0 .. Len(a) :
           r <= j => \E l \in 0 .. Len(a) : Table(a, b)[<<r, l>>] <= Table(a, b)[<<j, i>>]
<1>0. PICK d : d = Table(a, b)
  OBVIOUS
<1> DEFINE Good(x) == \E l \in 0 .. Len(a) : d[<<r, l>>] <= x
           H == {c \in (0 .. Len(b)) \X (0 .. Len(a)) : r <= c[1] => Good(d[c])}
<1>1. Len(a) \in Nat /\ Len(b) \in Nat
  OBVIOUS
<1>2. /\ \A j \in 0 .. Len(b), i \in 0 .. Len(a) : d[<<j, i>>] \in Nat
      /\ \A j \in 0 .. Len(b) : d[<<j, 0>>] = j
  BY <1>0, CellsAre
<1>3. \A j \in 0 .. Len(b), i \in 0 .. Len(a) : <<j, i>> \in H <=> (r <= j => Good(d[<<j, i>>]))
  OBVIOUS
<1>6. ASSUME NEW x \in Nat, NEW y \in Nat, x <= y, Good(x) PROVE Good(y)
  <2>1. PICK l \in 0 .. Len(a) : d[<<r, l>>] <= x
    BY <1>6
  <2>2. d[<<r, l>>] \in Nat
    BY <1>2
  <2>3. d[<<r, l>>] <= y
    BY <1>6, <2>1, <2>2
  <2> QED BY <2>3
<1> HIDE DEF H
<1>4. ASSUME NEW j \in 0 .. Len(b), NEW i \in 0 .. Len(a),
             \A k \in 0 .. Len(b), l \in 0 .. Len(a) : k + l < j + i => <<k, l>> \in H
      PROVE  <<j, i>> \in H
  <2> SUFFICES ASSUME r <= j PROVE Good(d[<<j, i>>])
    BY <1>3
  <2>1. CASE j = r
    <3>1. d[<<j, i>>] \in Nat /\ d[<<r, i>>] = d[<<j, i>>]
      BY <1>2, <2>1
    <3>2. d[<<r, i>>] <= d[<<j, i>>]
      BY <3>1
    <3> QED BY <3>2
  <2>2. CASE j # r /\ i = 0
    <3>1. d[<<j, i>>] = j /\ d[<<r, 0>>] = r /\ 0 \in 0 .. Len(a)
      BY <1>1, <1>2, <2>2
    <3>2. d[<<r, 0>>] <= d[<<j, i>>]
      BY <3>1
    <3> QED BY <3>1, <3>2
  <2>3. CASE j # r /\ i # 0
    <3>1. /\ j \in 1 .. Len(b) /\ i \in 1 .. Len(a)
          /\ j - 1 \in 0 .. Len(b) /\ i - 1 \in 0 .. Len(a) /\ r <= j - 1
          /\ (j - 1) + i < j + i /\ j + (i - 1) < j + i /\ (j - 1) + (i - 1) < j + i
          /\ (i >= 2 /\ j >= 2) => j - 2 \in 0 .. Len(b) /\ i - 2 \in 0 .. Len(a) /\ (j - 2) + (i - 2) < j + i
      BY <2>3
    <3>2. PICK x \in Nat, y \in Nat, z \in Nat, m \in Nat :
            x = d[<<j - 1, i>>] /\ y = d[<<j, i - 1>>] /\ z = d[<<j - 1, i - 1>>] /\ m = d[<<j, i>>]
      BY <1>2, <3>1
    <3>3. Good(x) /\ Good(y) /\ Good(z)
      <4>1. <<j - 1, i>> \in H /\ <<j, i - 1>> \in H /\ <<j - 1, i - 1>> \in H
        BY <1>4, <3>1
      <4> HIDE DEF Good
      <4> QED BY <1>3, <3>1, <3>2, <4>1
    <3>4. PICK w : /\ m = x + 1 \/ m = y + 1 \/ m = z \/ m = z + 1 \/ (i >= 2 /\ j >= 2 /\ m = w + 1)
                   /\ w = d[<<j - 2, i - 2>>]
      <4>1. IsNear(d, j, i)
        BY <1>0, <3>1, CellFrom
      <4> QED BY <3>2, <4>1 DEF IsNear
    <3>5. ASSUME i >= 2, j >= 2 PROVE w \in Nat /\ Good(w + 1)
      <4>1. w \in Nat
        BY <1>2, <3>1, <3>4, <3>5
      <4>2. CASE r <= j - 2
        <5>1. <<j - 2, i - 2>> \in H
          BY <1>4, <3>1, <3>5
        <5>2. Good(w)
          <6> HIDE DEF Good
          <6> QED BY <1>3, <3>1, <3>4, <3>5, <4>2, <5>1
        <5>3. w <= w + 1 /\ w + 1 \in Nat
          BY <4>1
        <5> QED BY <1>6, <4>1, <5>2, <5>3
      <4>3. CASE ~(r <= j - 2)
        <5>1. r = j - 1 /\ r - 1 = j - 2 /\ r \in 1 .. Len(b) /\ i - 2 \in 0 .. Len(a)
          BY <3>1, <3>5, <4>3
        <5>2. d[<<r, i - 2>>] <= d[<<r - 1, i - 2>>] + 1
          BY <1>0, <5>1, CellNext
        <5> QED BY <3>4, <4>1, <5>1, <5>2
      <4> QED BY <4>1, <4>2, <4>3
    <3>6. Good(m)
      <4> HIDE DEF Good
      <4>1. CASE i >= 2 /\ j >= 2 /\ m = w + 1
        BY <3>5, <4>1
      <4>2. CASE m = x + 1 \/ m = y + 1 \/ m = z \/ m = z + 1
        BY <1>6, <3>3, <4>2
      <4> QED BY <3>4, <4>1, <4>2
    <3> QED BY <3>2, <3>6
  <2> QED BY <2>1, <2>2, <2>3
<1>5. \A j \in 0 .. Len(b), i \in 0 .. Len(a) : <<j, i>> \in H
  <2> HIDE DEF Good
  <2> QED BY <1>1, <1>4, ByCells
<1> QED BY <1>0, <1>3, <1>5

(* The distance of two words does not depend on which is which.              *)
LEMMA TableTurned ==
  ASSUME NEW S, NEW a \in Seq(S), NEW T, NEW b \in Seq(T)
  PROVE  \A j \in 0 .. Len(b), i \in 0 .. Len(a) : Table(a, b)[<<j, i>>] = Table(b, a)[<<i, j>>]
<1>0. PICK d, e : d = Table(a, b) /\ e = Table(b, a)
  OBVIOUS
<1> DEFINE H == {c \in (0 .. Len(b)) \X (0 .. Len(a)) : d[c] = e[<<c[2], c[1]>>]}
<1>1. Len(a) \in Nat /\ Len(b) \in Nat
  OBVIOUS
<1>2. /\ \A j \in 0 .. Len(b), i \in 0 .. Len(a) : TableBy(d, a, b, j, i)
      /\ \A j \in 0 .. Len(b), i \in 0 .. Len(a) : TableBy(e, b, a, i, j)
  BY <1>0, TableIs
<1>3. \A j \in 0 .. Len(b), i \in 0 .. Len(a) : <<j, i>> \in H <=> d[<<j, i>>] = e[<<i, j>>]
  OBVIOUS
<1> HIDE DEF H
<1>4. ASSUME NEW j \in 0 .. Len(b), NEW i \in 0 .. Len(a),
             \A k \in 0 .. Len(b), l \in 0 .. Len(a) : k + l < j + i => <<k, l>> \in H
      PROVE  <<j, i>> \in H
  <2>0. TableBy(d, a, b, j, i) /\ TableBy(e, b, a, i, j)
    BY <1>2
  <2>1. CASE j = 0 \/ i = 0
    <3>1. d[<<j, i>>] = e[<<i, j>>]
      BY <2>0, <2>1 DEF TableBy
    <3> QED BY <1>3, <3>1
  <2>2. CASE j # 0 /\ i # 0
    <3>1. /\ j - 1 \in 0 .. Len(b) /\ i - 1 \in 0 .. Len(a)
          /\ (j - 1) + i < j + i /\ j + (i - 1) < j + i /\ (j - 1) + (i - 1) < j + i
          /\ (i >= 2 /\ j >= 2) => j - 2 \in 0 .. Len(b) /\ i - 2 \in 0 .. Len(a) /\ (j - 2) + (i - 2) < j + i
      BY <2>2
    <3>2. /\ d[<<j - 1, i>>] = e[<<i, j - 1>>] /\ d[<<j, i - 1>>] = e[<<i - 1, j>>]
          /\ d[<<j - 1, i - 1>>] = e[<<i - 1, j - 1>>]
      <4>1. <<j - 1, i>> \in H /\ <<j, i - 1>> \in H /\ <<j - 1, i - 1>> \in H
        BY <1>4, <3>1
      <4> QED BY <1>3, <3>1, <4>1
    <3>3. i >= 2 /\ j >= 2 => d[<<j - 2, i - 2>>] = e[<<i - 2, j - 2>>]
      <4>1. i >= 2 /\ j >= 2 => <<j - 2, i - 2>> \in H
        BY <1>4, <3>1
      <4> QED BY <1>3, <3>1, <4>1
    <3>4. Swapped(a, b, j, i) <=> Swapped(b, a, i, j)
      BY DEF Swapped
    <3>5. Candidates(d, a, b, j, i) = Candidates(e, b, a, i, j)
      <4>1. CASE Swapped(a, b, j, i)
        <5>1. d[<<j - 2, i - 2>>] = e[<<i - 2, j - 2>>]
          BY <3>3, <4>1 DEF Swapped
        <5>2. Swapped(b, a, i, j)
          BY <3>4, <4>1
        <5> QED BY <3>2, <4>1, <5>1, <5>2 DEF Candidates
      <4>2. CASE ~Swapped(a, b, j, i)
        <5>1. ~Swapped(b, a, i, j)
          BY <3>4, <4>2
        <5> QED BY <3>2, <4>2, <5>1 DEF Candidates
      <4> QED BY <4>1, <4>2
    <3>6. d[<<j, i>>] = e[<<i, j>>]
      BY <2>0, <2>2, <3>5 DEF TableBy
    <3> QED BY <1>3, <3>6
  <2> QED BY <2>1, <2>2
<1>5. \A j \in 0 .. Len(b), i \in 0 .. Len(a) : <<j, i>> \in H
  BY <1>1, <1>4, ByCells
<1> QED BY <1>0, <1>3, <1>5

(* Along equal letters the distance does not grow.                           *)
LEMMA SameLetters ==
  ASSUME NEW S, NEW a \in Seq(S), NEW T, NEW b \in Seq(T),
         NEW j \in 0 .. Len(b), NEW i \in 0 .. Len(a), NEW m \in Nat,
         j + m \in 0 .. Len(b), i + m \in 0 .. Len(a),
         \A l \in 1 .. m : a[i + l] = b[j + l]
  PROVE  Table(a, b)[<<j + m, i + m>>] <= Table(a, b)[<<j, i>>]
<1>0. PICK d : d = Table(a, b)
  OBVIOUS
<1>1. Len(a) \in Nat /\ Len(b) \in Nat
  OBVIOUS
<1>2. \A k \in 0 .. Len(b), l \in 0 .. Len(a) : d[<<k, l>>] \in Nat
  BY <1>0, CellsAre
<1> DEFINE H == {n \in Nat : n <= m => d[<<j + n, i + n>>] <= d[<<j, i>>]}
<1>3. 0 \in H
  <2>1. j + 0 = j /\ i + 0 = i
    OBVIOUS
  <2>2. d[<<j, i>>] <= d[<<j, i>>]
    BY <1>2
  <2> QED BY <2>1, <2>2
<1>4. ASSUME NEW n \in Nat, n \in H PROVE n + 1 \in H
  <2> SUFFICES ASSUME n + 1 <= m PROVE d[<<j + (n + 1), i + (n + 1)>>] <= d[<<j, i>>]
    OBVIOUS
  <2>1. d[<<j + n, i + n>>] <= d[<<j, i>>]
    BY <1>4
  <2>2. PICK k \in 1 .. Len(b), l \in 1 .. Len(a) :
          k = j + (n + 1) /\ l = i + (n + 1) /\ k - 1 = j + n /\ l - 1 = i + n
    <3>1. j + (n + 1) \in 1 .. Len(b) /\ i + (n + 1) \in 1 .. Len(a)
          /\ j + (n + 1) - 1 = j + n /\ i + (n + 1) - 1 = i + n
      BY <1>1
    <3> QED BY <3>1
  <2>3. a[l] = b[k]
    <3>1. n + 1 \in 1 .. m
      OBVIOUS
    <3> QED BY <2>2, <3>1
  <2>4. k - 1 \in 0 .. Len(b) /\ l - 1 \in 0 .. Len(a) /\ k \in 0 .. Len(b) /\ l \in 0 .. Len(a)
    BY <1>1
  <2>5. PICK x \in Nat, y \in Nat, z \in Nat : x = d[<<k, l>>] /\ y = d[<<k - 1, l - 1>>] /\ z = d[<<j, i>>]
    BY <1>2, <2>4
  <2>6. x <= Costs(d, a, b, k, l)
    BY <1>0, <2>5, CellSteps
  <2>7. Costs(d, a, b, k, l) = y
    BY <2>3, <2>5 DEF Costs
  <2>8. y <= z
    BY <2>1, <2>2, <2>5
  <2>9. x <= y
    BY <2>6, <2>7
  <2>10. x <= z
    BY <2>8, <2>9
  <2> QED BY <2>2, <2>5, <2>10
<1>5. \A n \in Nat : n \in H
  <2>1. H \in SUBSET Nat /\ \A n \in H : n \in Nat
    OBVIOUS
  <2> HIDE DEF H
  <2>2. \A n \in H : n + 1 \in H
    BY <1>4, <2>1
  <2> QED BY <1>3, <2>1, <2>2, Induction, Zenon
<1>6. d[<<j + m, i + m>>] <= d[<<j, i>>]
  <2>1. m <= m
    OBVIOUS
  <2>2. m \in H
    BY <1>5
  <2> QED BY <2>1, <2>2
<1> QED BY <1>0, <1>6

Prefix(x, i) == SubSeq(x, 1, i)

(* A prefix grows by a letter at a time.                                     *)
LEMMA PrefixIs ==
  ASSUME NEW S, NEW x \in Seq(S)
  PROVE  /\ Prefix(x, 0) = <<>> /\ Prefix(x, Len(x)) = x
         /\ \A i \in 0 .. Len(x) : Prefix(x, i) \in Seq(S)
         /\ \A i \in 1 .. Len(x) : Prefix(x, i) = Append(Prefix(x, i - 1), x[i])
<1>1. Len(x) \in Nat
  OBVIOUS
<1>2. ASSUME NEW i \in 0 .. Len(x)
      PROVE  Prefix(x, i) \in Seq(S) /\ Len(Prefix(x, i)) = i /\ \A l \in 1 .. i : Prefix(x, i)[l] = x[l]
  <2>1. 1 \in 1 .. Len(x) + 1 /\ i \in 1 - 1 .. Len(x)
    BY <1>1
  <2>2. /\ Prefix(x, i) \in Seq(S) /\ Len(Prefix(x, i)) = i - 1 + 1
        /\ \A l \in 1 .. i - 1 + 1 : Prefix(x, i)[l] = x[1 + l - 1]
    BY <2>1, SubSeqProperties DEF Prefix
  <2>3. i - 1 + 1 = i /\ \A l \in 1 .. i : 1 + l - 1 = l
    OBVIOUS
  <2> QED BY <2>2, <2>3
<1>3. Prefix(x, 0) = <<>>
  <2>1. 0 \in 0 .. Len(x)
    BY <1>1
  <2>2. Prefix(x, 0) \in Seq(S) /\ Len(Prefix(x, 0)) = 0
    BY <1>2, <2>1
  <2> QED BY <2>2
<1>4. Prefix(x, Len(x)) = x
  <2>1. Len(x) \in 0 .. Len(x)
    BY <1>1
  <2>2. /\ Prefix(x, Len(x)) \in Seq(S) /\ Len(Prefix(x, Len(x))) = Len(x)
        /\ \A l \in 1 .. Len(x) : Prefix(x, Len(x))[l] = x[l]
    BY <1>2, <2>1
  <2> QED BY <2>2, SameWord
<1>5. ASSUME NEW i \in 1 .. Len(x) PROVE Prefix(x, i) = Append(Prefix(x, i - 1), x[i])
  <2>1. i \in 0 .. Len(x) /\ i - 1 \in 0 .. Len(x) /\ x[i] \in S /\ (i - 1) + 1 = i
    OBVIOUS
  <2>2. PICK u \in Seq(S) : u = Prefix(x, i - 1) /\ Len(u) = i - 1 /\ \A l \in 1 .. i - 1 : u[l] = x[l]
    BY <1>2, <2>1
  <2>3. PICK w \in Seq(S) : w = Append(u, x[i]) /\ Len(w) = Len(u) + 1 /\ w[Len(u) + 1] = x[i]
                            /\ \A l \in 1 .. Len(u) : w[l] = u[l]
    <3>1. PICK c \in S : c = x[i]
      BY <2>1
    <3>2. /\ Append(u, c) \in Seq(S) /\ Len(Append(u, c)) = Len(u) + 1 /\ Append(u, c)[Len(u) + 1] = c
          /\ \A l \in 1 .. Len(u) : Append(u, c)[l] = u[l]
      BY AppendIs
    <3> QED BY <3>1, <3>2
  <2>4. PICK v \in Seq(S) : v = Prefix(x, i) /\ Len(v) = i /\ \A l \in 1 .. i : v[l] = x[l]
    BY <1>2, <2>1
  <2>5. Len(w) = i /\ w[i] = x[i] /\ \A l \in 1 .. i - 1 : w[l] = x[l]
    BY <2>1, <2>2, <2>3
  <2>6. \A l \in 1 .. i : l = i \/ l \in 1 .. i - 1
    OBVIOUS
  <2>7. \A l \in 1 .. i : w[l] = v[l]
    BY <2>4, <2>5, <2>6
  <2>8. w = v
    BY <2>4, <2>5, <2>7, SameWord
  <2> QED BY <2>2, <2>3, <2>4, <2>8
<1> QED BY <1>2, <1>3, <1>4, <1>5

(* A cell of at most two is reached by as many edits of the prefix: it comes *)
(* from a cell before it by an edit at the end of a word.                    *)
LEMMA CellIsAway ==
  ASSUME NEW x \in Seq(Letters), NEW y \in Seq(Letters)
  PROVE  \A j \in 0 .. Len(y), i \in 0 .. Len(x) :
           Table(x, y)[<<j, i>>] <= 2 => Away(Table(x, y)[<<j, i>>], Prefix(x, i), Prefix(y, j))
<1>0. PICK d : d = Table(x, y)
  OBVIOUS
<1> DEFINE Good(j, i) == d[<<j, i>>] <= 2 => Away(d[<<j, i>>], Prefix(x, i), Prefix(y, j))
           H == {c \in (0 .. Len(y)) \X (0 .. Len(x)) : Good(c[1], c[2])}
<1>1. Len(x) \in Nat /\ Len(y) \in Nat
  OBVIOUS
<1>2. /\ \A j \in 0 .. Len(y), i \in 0 .. Len(x) : d[<<j, i>>] \in Nat
      /\ \A i \in 0 .. Len(x) : d[<<0, i>>] = i
      /\ \A j \in 0 .. Len(y) : d[<<j, 0>>] = j
  BY <1>0, CellsAre
<1>3. \A j \in 0 .. Len(y), i \in 0 .. Len(x) : <<j, i>> \in H <=> Good(j, i)
  <2>1. \A j \in 0 .. Len(y), i \in 0 .. Len(x) : <<j, i>>[1] = j /\ <<j, i>>[2] = i
    OBVIOUS
  <2> HIDE DEF Good
  <2> QED BY <2>1
<1>4. /\ \A i \in 0 .. Len(x) : Prefix(x, i) \in Seq(Letters)
      /\ \A i \in 1 .. Len(x) : x[i] \in Letters /\ Prefix(x, i) = Append(Prefix(x, i - 1), x[i])
      /\ \A j \in 0 .. Len(y) : Prefix(y, j) \in Seq(Letters)
      /\ \A j \in 1 .. Len(y) : y[j] \in Letters /\ Prefix(y, j) = Append(Prefix(y, j - 1), y[j])
      /\ Prefix(x, 0) = <<>> /\ Prefix(y, 0) = <<>>
  BY PrefixIs
<1>5. ASSUME NEW j \in 1 .. Len(y), NEW i \in 0 .. Len(x), Good(j - 1, i), d[<<j, i>>] = d[<<j - 1, i>>] + 1
      PROVE  Good(j, i)
  <2>1. j - 1 \in 0 .. Len(y) /\ j \in 0 .. Len(y)
    OBVIOUS
  <2>2. PICK z \in Nat : z = d[<<j - 1, i>>] /\ d[<<j, i>>] = z + 1
    BY <1>2, <1>5, <2>1
  <2>3. ASSUME z + 1 <= 2 PROVE Away(z + 1, Prefix(x, i), Prefix(y, j))
    <3>1. z \in {0, 1, 2} /\ z # 2 /\ z <= 2
      BY <2>3
    <3>2. Away(z, Prefix(x, i), Prefix(y, j - 1))
      BY <1>5, <2>2, <3>1
    <3>3. Prefix(y, j) \in Edits(Prefix(y, j - 1))
      BY <1>4, <2>1, LastEdits
    <3> QED BY <1>4, <2>1, <3>1, <3>2, <3>3, AwaySteps
  <2> QED BY <2>2, <2>3
<1>6. ASSUME NEW j \in 0 .. Len(y), NEW i \in 1 .. Len(x), Good(j, i - 1), d[<<j, i>>] = d[<<j, i - 1>>] + 1
      PROVE  Good(j, i)
  <2>1. i - 1 \in 0 .. Len(x) /\ i \in 0 .. Len(x)
    OBVIOUS
  <2>2. PICK z \in Nat : z = d[<<j, i - 1>>] /\ d[<<j, i>>] = z + 1
    BY <1>2, <1>6, <2>1
  <2>3. ASSUME z + 1 <= 2 PROVE Away(z + 1, Prefix(x, i), Prefix(y, j))
    <3>1. z \in {0, 1, 2} /\ z # 2 /\ z <= 2
      BY <2>3
    <3>2. Away(z, Prefix(x, i - 1), Prefix(y, j))
      BY <1>6, <2>2, <3>1
    <3>3. Prefix(x, i - 1) \in Edits(Prefix(x, i))
      BY <1>4, <2>1, LastEdits
    <3> QED BY <1>4, <2>1, <3>1, <3>2, <3>3, AwaySteps
  <2> QED BY <2>2, <2>3
<1>7. ASSUME NEW j \in 1 .. Len(y), NEW i \in 1 .. Len(x), Good(j - 1, i - 1), d[<<j, i>>] = Costs(d, x, y, j, i)
      PROVE  Good(j, i)
  <2>1. i - 1 \in 0 .. Len(x) /\ i \in 0 .. Len(x) /\ j - 1 \in 0 .. Len(y) /\ j \in 0 .. Len(y)
    OBVIOUS
  <2>2. PICK z \in Nat : z = d[<<j - 1, i - 1>>]
    BY <1>2, <2>1
  <2>3. PICK c \in Letters, e \in Letters, u \in Seq(Letters), w \in Seq(Letters) :
          /\ c = x[i] /\ e = y[j] /\ u = Prefix(x, i - 1) /\ w = Prefix(y, j - 1)
          /\ Prefix(x, i) = Append(u, c) /\ Prefix(y, j) = Append(w, e)
    BY <1>4, <2>1
  <2>4. z <= 2 => Away(z, u, w)
    BY <1>7, <2>2, <2>3
  <2>5. CASE c = e
    <3>1. d[<<j, i>>] = z
      BY <1>7, <2>2, <2>3, <2>5 DEF Costs
    <3>2. ASSUME z <= 2 PROVE Away(z, Append(u, c), Append(w, c))
      <4>1. z \in {0, 1, 2}
        BY <3>2
      <4> QED BY <2>4, <3>2, <4>1, AwaySteps
    <3> QED BY <2>3, <2>5, <3>1, <3>2
  <2>6. CASE c # e
    <3>1. d[<<j, i>>] = z + 1
      BY <1>7, <2>2, <2>3, <2>6 DEF Costs
    <3>2. ASSUME z + 1 <= 2 PROVE Away(z + 1, Append(u, c), Append(w, e))
      <4>1. z \in {0, 1, 2} /\ z # 2 /\ z <= 2
        BY <3>2
      <4>2. Away(z, u, w)
        BY <2>4, <4>1
      <4>3. Away(z, Append(u, c), Append(w, c))
        BY <4>1, <4>2, AwaySteps
      <4>4. Append(w, e) \in Edits(Append(w, c))
        BY LastEdits
      <4>5. Append(u, c) \in Seq(Letters) /\ Append(w, c) \in Seq(Letters)
        OBVIOUS
      <4> QED BY <4>1, <4>3, <4>4, <4>5, AwaySteps
    <3> QED BY <2>3, <3>1, <3>2
  <2> QED BY <2>5, <2>6
<1>8. ASSUME NEW j \in 1 .. Len(y), NEW i \in 1 .. Len(x), Swapped(x, y, j, i), Good(j - 2, i - 2),
             d[<<j, i>>] = d[<<j - 2, i - 2>>] + 1
      PROVE  Good(j, i)
  <2>1. /\ i - 2 \in 0 .. Len(x) /\ i - 1 \in 1 .. Len(x) /\ (i - 1) - 1 = i - 2
        /\ j - 2 \in 0 .. Len(y) /\ j - 1 \in 1 .. Len(y) /\ (j - 1) - 1 = j - 2
    BY <1>8 DEF Swapped
  <2>2. PICK z \in Nat : z = d[<<j - 2, i - 2>>] /\ d[<<j, i>>] = z + 1
    BY <1>2, <1>8, <2>1
  <2>3. PICK c \in Letters, e \in Letters, u \in Seq(Letters), w \in Seq(Letters) :
          /\ c = x[i - 1] /\ e = x[i] /\ u = Prefix(x, i - 2) /\ w = Prefix(y, j - 2)
    BY <1>4, <2>1
  <2>4. y[j - 1] = e /\ y[j] = c
    BY <1>8, <2>3 DEF Swapped
  <2>5. Prefix(x, i) = Append(Append(u, c), e) /\ Prefix(y, j) = Append(Append(w, e), c)
    <3>1. Prefix(x, i - 1) = Append(u, c) /\ Prefix(y, j - 1) = Append(w, e)
      BY <1>4, <2>1, <2>3, <2>4
    <3> QED BY <1>4, <2>3, <2>4, <3>1
  <2>6. ASSUME z + 1 <= 2 PROVE Away(z + 1, Append(Append(u, c), e), Append(Append(w, e), c))
    <3>1. z \in {0, 1, 2} /\ z # 2 /\ z <= 2
      BY <2>6
    <3>2. Away(z, u, w)
      BY <1>8, <2>2, <2>3, <3>1
    <3>3. PICK uc \in Seq(Letters), wc \in Seq(Letters) : uc = Append(u, c) /\ wc = Append(w, c)
      <4>1. Append(u, c) \in Seq(Letters) /\ Append(w, c) \in Seq(Letters)
        BY AppendIs
      <4> QED BY <4>1
    <3>4. Away(z, uc, wc)
      BY <3>1, <3>2, <3>3, AwaySteps
    <3>5. Away(z, Append(uc, e), Append(wc, e))
      BY <3>1, <3>4, AwaySteps
    <3>6. Append(Append(w, e), c) \in Edits(Append(wc, e))
      BY <3>3, LastEdits
    <3>7. Append(uc, e) \in Seq(Letters) /\ Append(wc, e) \in Seq(Letters)
      BY AppendIs
    <3>8. Away(z + 1, Append(uc, e), Append(Append(w, e), c))
      BY <3>1, <3>5, <3>6, <3>7, AwaySteps
    <3> QED BY <3>3, <3>8
  <2> QED BY <2>2, <2>5, <2>6
<1> HIDE DEF H
<1>9. ASSUME NEW j \in 0 .. Len(y), NEW i \in 0 .. Len(x),
             \A k \in 0 .. Len(y), l \in 0 .. Len(x) : k + l < j + i => <<k, l>> \in H
      PROVE  <<j, i>> \in H
  <2> SUFFICES Good(j, i)
    BY <1>3
  <2> HIDE DEF Good
  <2>1. j # 0 => j \in 1 .. Len(y) /\ j - 1 \in 0 .. Len(y) /\ Good(j - 1, i)
    <3>1. j # 0 => j \in 1 .. Len(y) /\ j - 1 \in 0 .. Len(y) /\ (j - 1) + i < j + i
      OBVIOUS
    <3> QED BY <1>3, <1>9, <3>1
  <2>2. i # 0 => i \in 1 .. Len(x) /\ i - 1 \in 0 .. Len(x) /\ Good(j, i - 1)
    <3>1. i # 0 => i \in 1 .. Len(x) /\ i - 1 \in 0 .. Len(x) /\ j + (i - 1) < j + i
      OBVIOUS
    <3> QED BY <1>3, <1>9, <3>1
  <2>3. j # 0 /\ i # 0 => Good(j - 1, i - 1)
    <3>1. j # 0 /\ i # 0 => i - 1 \in 0 .. Len(x) /\ j - 1 \in 0 .. Len(y) /\ (j - 1) + (i - 1) < j + i
      OBVIOUS
    <3> QED BY <1>3, <1>9, <3>1
  <2>4. j >= 2 /\ i >= 2 => Good(j - 2, i - 2)
    <3>1. j >= 2 /\ i >= 2 => i - 2 \in 0 .. Len(x) /\ j - 2 \in 0 .. Len(y) /\ (j - 2) + (i - 2) < j + i
      OBVIOUS
    <3> QED BY <1>3, <1>9, <3>1
  <2>5. CASE j = 0 /\ i = 0
    <3>1. d[<<j, i>>] = 0 /\ Prefix(x, i) = Prefix(y, j)
      BY <1>2, <1>4, <2>5
    <3> QED BY <3>1 DEF Good, Away
  <2>6. CASE j # 0 /\ i = 0
    <3>1. d[<<j, i>>] = d[<<j - 1, i>>] + 1
      <4>1. d[<<j, 0>>] = j /\ d[<<j - 1, 0>>] = j - 1
        BY <1>2, <2>1, <2>6
      <4>2. j = (j - 1) + 1
        OBVIOUS
      <4> QED BY <2>6, <4>1, <4>2
    <3> QED BY <1>5, <2>1, <2>6, <3>1
  <2>7. CASE j = 0 /\ i # 0
    <3>1. d[<<j, i>>] = d[<<j, i - 1>>] + 1
      <4>1. d[<<0, i>>] = i /\ d[<<0, i - 1>>] = i - 1
        BY <1>2, <2>2, <2>7
      <4>2. i = (i - 1) + 1
        OBVIOUS
      <4> QED BY <2>7, <4>1, <4>2
    <3> QED BY <1>6, <2>2, <2>7, <3>1
  <2>8. CASE j # 0 /\ i # 0
    <3>1. ComesFrom(d, x, y, j, i)
      BY <1>0, <2>1, <2>2, <2>8, CellSteps
    <3>2. CASE d[<<j, i>>] = d[<<j - 1, i>>] + 1
      BY <1>5, <2>1, <2>8, <3>2
    <3>3. CASE d[<<j, i>>] = d[<<j, i - 1>>] + 1
      BY <1>6, <2>2, <2>8, <3>3
    <3>4. CASE d[<<j, i>>] = Costs(d, x, y, j, i)
      BY <1>7, <2>1, <2>2, <2>3, <2>8, <3>4
    <3>5. CASE Swapped(x, y, j, i) /\ d[<<j, i>>] = d[<<j - 2, i - 2>>] + 1
      <4>1. Good(j - 2, i - 2)
        BY <2>4, <3>5 DEF Swapped
      <4> QED BY <1>8, <2>1, <2>2, <2>8, <3>5, <4>1
    <3> QED BY <3>1, <3>2, <3>3, <3>4, <3>5 DEF ComesFrom
  <2> QED BY <2>5, <2>6, <2>7, <2>8
<1>10. \A j \in 0 .. Len(y), i \in 0 .. Len(x) : <<j, i>> \in H
  <2> HIDE DEF Good
  <2> QED BY <1>1, <1>9, ByCells
<1> QED BY <1>0, <1>3, <1>10

(* Common beginnings cost nothing, common endings nothing more.              *)
LEMMA SameStart ==
  ASSUME NEW S, NEW p \in Seq(S), NEW T, NEW q \in Seq(T),
         NEW i \in 0 .. Len(p), i \in 0 .. Len(q), \A l \in 1 .. i : p[l] = q[l]
  PROVE  Table(p, q)[<<i, i>>] <= 0
<1>1. 0 \in 0 .. Len(p) /\ 0 \in 0 .. Len(q) /\ i \in Nat /\ 0 + i = i /\ \A l \in 1 .. i : 0 + l = l
  OBVIOUS
<1>2. \A l \in 1 .. i : p[0 + l] = q[0 + l]
  BY <1>1
<1>3. Table(p, q)[<<0 + i, 0 + i>>] <= Table(p, q)[<<0, 0>>]
  <2>1. 0 + i \in 0 .. Len(p) /\ 0 + i \in 0 .. Len(q)
    BY <1>1
  <2> QED BY <1>1, <1>2, <2>1, SameLetters
<1>4. Table(p, q)[<<0, 0>>] = 0
  BY <1>1, CellsAre
<1> QED BY <1>1, <1>3, <1>4

(* Equal endings keep a distance of at most one.                             *)
LEMMA SameEnd ==
  ASSUME NEW S, NEW p \in Seq(S), NEW T, NEW q \in Seq(T),
         NEW j \in 0 .. Len(q), NEW i \in 0 .. Len(p), Len(q) - j = Len(p) - i,
         \A l \in 1 .. Len(p) - i : p[i + l] = q[j + l],
         Table(p, q)[<<j, i>>] <= 1
  PROVE  Table(p, q)[<<Len(q), Len(p)>>] <= 1
<1>1. PICK m \in Nat : m = Len(p) - i
  OBVIOUS
<1>2. j + m = Len(q) /\ i + m = Len(p) /\ j + m \in 0 .. Len(q) /\ i + m \in 0 .. Len(p)
  BY <1>1
<1>3. \A l \in 1 .. m : p[i + l] = q[j + l]
  BY <1>1
<1>4. Table(p, q)[<<j + m, i + m>>] <= Table(p, q)[<<j, i>>]
  BY <1>2, <1>3, SameLetters
<1>5. PICK x \in Nat, z \in Nat : x = Table(p, q)[<<j, i>>] /\ z = Table(p, q)[<<j + m, i + m>>]
  BY <1>2, CellsAre
<1>6. z <= x /\ x <= 1
  BY <1>4, <1>5
<1>7. z <= 1
  BY <1>6
<1> QED BY <1>2, <1>5, <1>7

(* A word without one of its letters is at a distance of one at most, ...    *)
LEMMA RemovedIsNear ==
  ASSUME NEW S, NEW p \in Seq(S), NEW q \in Seq(S), NEW i, Removes(p, q, i)
  PROVE  Table(p, q)[<<Len(q), Len(p)>>] <= 1
<1>1. /\ i \in 1 .. Len(p) /\ Len(q) + 1 = Len(p) /\ Len(q) \in Nat /\ Len(p) \in Nat
      /\ \A l \in 1 .. Len(q) : (l < i => q[l] = p[l]) /\ (~(l < i) => q[l] = p[l + 1])
  BY DEF Removes
<1>2. i - 1 \in 0 .. Len(p) /\ i - 1 \in 0 .. Len(q) /\ i \in 0 .. Len(p) /\ Len(q) - (i - 1) = Len(p) - i
  BY <1>1
<1>3. \A l \in 1 .. i - 1 : p[l] = q[l]
  <2>1. \A l \in 1 .. i - 1 : l \in 1 .. Len(q) /\ l < i
    BY <1>1
  <2> QED BY <1>1, <2>1
<1>4. Table(p, q)[<<i - 1, i - 1>>] <= 0
  BY <1>2, <1>3, SameStart
<1>5. Table(p, q)[<<i - 1, i>>] <= Table(p, q)[<<i - 1, i - 1>>] + 1
  BY <1>1, <1>2, CellNext
<1>6. Table(p, q)[<<i - 1, i>>] <= 1
  <2>1. PICK x \in Nat, z \in Nat : x = Table(p, q)[<<i - 1, i - 1>>] /\ z = Table(p, q)[<<i - 1, i>>]
    BY <1>2, CellsAre
  <2>2. x <= 0 /\ z <= x + 1
    BY <1>4, <1>5, <2>1
  <2>3. z <= 1
    BY <2>2
  <2> QED BY <2>1, <2>3
<1>7. \A l \in 1 .. Len(p) - i : p[i + l] = q[(i - 1) + l]
  <2>1. \A l \in 1 .. Len(p) - i : (i - 1) + l \in 1 .. Len(q) /\ ~((i - 1) + l < i) /\ ((i - 1) + l) + 1 = i + l
    BY <1>1
  <2> QED BY <1>1, <2>1
<1> QED BY <1>2, <1>6, <1>7, SameEnd

(* ... so is one with another letter in its place, ...                       *)
LEMMA ReplacedIsNear ==
  ASSUME NEW S, NEW p \in Seq(S), NEW q \in Seq(S), NEW i, Replaces(p, q, i)
  PROVE  Table(p, q)[<<Len(q), Len(p)>>] <= 1
<1>1. /\ i \in 1 .. Len(p) /\ Len(q) = Len(p) /\ Len(p) \in Nat
      /\ \A l \in 1 .. Len(p) : l # i => q[l] = p[l]
  BY DEF Replaces
<1>2. /\ i - 1 \in 0 .. Len(p) /\ i - 1 \in 0 .. Len(q) /\ i \in 0 .. Len(p) /\ i \in 0 .. Len(q)
      /\ i \in 1 .. Len(q) /\ Len(q) - i = Len(p) - i
  BY <1>1
<1>3. \A l \in 1 .. i - 1 : p[l] = q[l]
  <2>1. \A l \in 1 .. i - 1 : l \in 1 .. Len(p) /\ l # i
    BY <1>1
  <2> QED BY <1>1, <2>1
<1>4. Table(p, q)[<<i - 1, i - 1>>] <= 0
  BY <1>2, <1>3, SameStart
<1>5. Table(p, q)[<<i, i>>] <= Table(p, q)[<<i - 1, i - 1>>] + 1
  BY <1>1, <1>2, CellFrom
<1>6. Table(p, q)[<<i, i>>] <= 1
  <2>1. PICK x \in Nat, z \in Nat : x = Table(p, q)[<<i - 1, i - 1>>] /\ z = Table(p, q)[<<i, i>>]
    BY <1>2, CellsAre
  <2>2. x <= 0 /\ z <= x + 1
    BY <1>4, <1>5, <2>1
  <2>3. z <= 1
    BY <2>2
  <2> QED BY <2>1, <2>3
<1>7. \A l \in 1 .. Len(p) - i : p[i + l] = q[i + l]
  <2>1. \A l \in 1 .. Len(p) - i : i + l \in 1 .. Len(p) /\ i + l # i
    BY <1>1
  <2> QED BY <1>1, <2>1
<1> QED BY <1>2, <1>6, <1>7, SameEnd

(* ... and so is one with two neighbours swapped.                            *)
LEMMA SwappedIsNear ==
  ASSUME NEW S, NEW p \in Seq(S), NEW q \in Seq(S), NEW i, Swaps(p, q, i)
  PROVE  Table(p, q)[<<Len(q), Len(p)>>] <= 1
<1>1. /\ i \in 1 .. Len(p) - 1 /\ Len(q) = Len(p) /\ Len(p) \in Nat
      /\ q[i] = p[i + 1] /\ q[i + 1] = p[i]
      /\ \A l \in 1 .. Len(p) : l # i /\ l # i + 1 => q[l] = p[l]
  BY DEF Swaps
<1>2. PICK n \in 1 .. Len(p) : n = i + 1 /\ n - 1 = i /\ n - 2 = i - 1 /\ n >= 2
  <2>1. i + 1 \in 1 .. Len(p) /\ (i + 1) - 1 = i /\ (i + 1) - 2 = i - 1 /\ i + 1 >= 2
    BY <1>1
  <2> QED BY <2>1
<1>3. /\ n - 2 \in 0 .. Len(p) /\ n - 2 \in 0 .. Len(q) /\ n \in 0 .. Len(p) /\ n \in 0 .. Len(q)
      /\ n \in 1 .. Len(q) /\ Len(q) - n = Len(p) - n
  BY <1>1, <1>2
<1>4. \A l \in 1 .. n - 2 : p[l] = q[l]
  <2>1. \A l \in 1 .. n - 2 : l \in 1 .. Len(p) /\ l # i /\ l # i + 1
    BY <1>1, <1>2
  <2> QED BY <1>1, <2>1
<1>5. Table(p, q)[<<n - 2, n - 2>>] <= 0
  BY <1>3, <1>4, SameStart
<1>6. Swapped(p, q, n, n)
  BY <1>1, <1>2 DEF Swapped
<1>7. Table(p, q)[<<n, n>>] <= Table(p, q)[<<n - 2, n - 2>>] + 1
  BY <1>3, <1>6, CellSteps
<1>8. Table(p, q)[<<n, n>>] <= 1
  <2>1. PICK x \in Nat, z \in Nat : x = Table(p, q)[<<n - 2, n - 2>>] /\ z = Table(p, q)[<<n, n>>]
    BY <1>3, CellsAre
  <2>2. x <= 0 /\ z <= x + 1
    BY <1>5, <1>7, <2>1
  <2>3. z <= 1
    BY <2>2
  <2> QED BY <2>1, <2>3
<1>9. \A l \in 1 .. Len(p) - n : p[n + l] = q[n + l]
  <2>1. \A l \in 1 .. Len(p) - n : n + l \in 1 .. Len(p) /\ n + l # i /\ n + l # i + 1
    BY <1>1, <1>2
  <2> QED BY <1>1, <2>1
<1> QED BY <1>3, <1>8, <1>9, SameEnd

-----------------------------------------------------------------------------
(* The distance of two words.                                                *)

Distance(x, y) == Table(x, y)[<<Len(y), Len(x)>>]

(* What edit_distance_bounded (typosquat.rs) computes without a bound is the *)
(* number of edits as long as that is at most one, two edits are enough      *)
(* where it is two, and it is never more than the longer word.               *)
THEOREM DistanceIs ==
  ASSUME NEW x \in Seq(Letters), NEW y \in Seq(Letters)
  PROVE  /\ Distance(x, y) \in Nat
         /\ Distance(x, y) = Distance(y, x)
         /\ Distance(x, y) = 0 <=> y = x
         /\ Distance(x, y) = 1 <=> y # x /\ y \in Edits(x)
         /\ Distance(x, y) <= 2 => y \in UNION {Edits(v) : v \in Edits(x)}
         /\ Distance(x, y) <= Len(x) \/ Distance(x, y) <= Len(y)
<1>1. /\ Len(x) \in Nat /\ Len(y) \in Nat /\ Len(x) \in 0 .. Len(x) /\ Len(y) \in 0 .. Len(y)
  OBVIOUS
<1>2. PICK n \in Nat : n = Distance(x, y)
  BY <1>1, CellsAre DEF Distance
<1>3. Distance(x, y) = Distance(y, x)
  BY <1>1, TableTurned DEF Distance
<1>4. n <= Len(x) \/ n <= Len(y)
  BY <1>1, <1>2, CellBounds DEF Distance
<1>5. n <= 2 => Away(n, x, y)
  <2>1. Prefix(x, Len(x)) = x /\ Prefix(y, Len(y)) = y
    BY PrefixIs
  <2>2. Distance(x, y) <= 2 => Away(Distance(x, y), Prefix(x, Len(x)), Prefix(y, Len(y)))
    BY <1>1, CellIsAway DEF Distance
  <2> QED BY <1>2, <2>1, <2>2
<1>6. y = x => n = 0
  <2>1. ASSUME y = x PROVE n <= 0
    <3>1. Table(x, y)[<<Len(x), Len(x)>>] <= 0
      BY <1>1, <2>1, SameStart
    <3> QED BY <1>2, <2>1, <3>1 DEF Distance
  <2> QED BY <2>1
<1>7. y \in Edits(x) => n <= 1
  <2>1. ASSUME y \in Edits(x) PROVE Distance(x, y) <= 1
    <3>1. PICK i : Removes(x, y, i) \/ Removes(y, x, i) \/ Replaces(x, y, i) \/ Swaps(x, y, i)
      BY <2>1, EditsAre DEF OneEdit
    <3>2. CASE Removes(x, y, i)
      BY <3>2, RemovedIsNear DEF Distance
    <3>3. CASE Removes(y, x, i)
      <4>1. Distance(y, x) <= 1
        BY <3>3, RemovedIsNear DEF Distance
      <4> QED BY <1>3, <4>1
    <3>4. CASE Replaces(x, y, i)
      BY <3>4, ReplacedIsNear DEF Distance
    <3>5. CASE Swaps(x, y, i)
      BY <3>5, SwappedIsNear DEF Distance
    <3> QED BY <3>1, <3>2, <3>3, <3>4, <3>5
  <2> QED BY <1>2, <2>1
<1>8. n = 0 <=> y = x
  BY <1>5, <1>6 DEF Away
<1>9. n = 1 <=> y # x /\ y \in Edits(x)
  <2>1. n = 1 => y \in Edits(x)
    BY <1>5 DEF Away
  <2> QED BY <1>7, <1>8, <2>1
<1>10. n <= 2 => y \in UNION {Edits(v) : v \in Edits(x)}
  <2>1. n <= 2 => n \in {0, 1, 2}
    OBVIOUS
  <2> QED BY <1>5, <2>1, FewerIsAway
<1> QED BY <1>2, <1>3, <1>4, <1>8, <1>9, <1>10

(* To bound the search, to end it early and to put the shorter word first    *)
(* changes no distance within the bound.                                     *)
LEMMA DistanceUpToIs ==
  ASSUME NEW x \in Seq(Letters), NEW y \in Seq(Letters), NEW max \in Nat
  PROVE  DistanceUpTo(x, y, max) = IF Distance(x, y) <= max THEN Distance(x, y) ELSE NoMatch
<1>1. Len(x) \in Nat /\ Len(y) \in Nat
  OBVIOUS
<1>2. ASSUME NEW a \in Seq(Letters), NEW b \in Seq(Letters), Len(b) >= Len(a)
      PROVE  (\/ Len(b) - Len(a) > max
              \/ ExitEarly(Table(a, b), a, b, max)
              \/ Table(a, b)[<<Len(b), Len(a)>>] > max) <=> ~(Distance(a, b) <= max)
  <2>1. Len(a) \in Nat /\ Len(b) \in Nat /\ Len(a) \in 0 .. Len(a) /\ Len(b) \in 0 .. Len(b)
    OBVIOUS
  <2>2. PICK n \in Nat : n = Table(a, b)[<<Len(b), Len(a)>>] /\ n = Distance(a, b)
    BY <2>1, CellsAre DEF Distance
  <2>3. Len(b) - Len(a) <= n
    BY <2>1, <2>2, CellBounds
  <2>4. ASSUME ExitEarly(Table(a, b), a, b, max) PROVE n > max
    <3>1. PICK r \in 1 .. Len(b) : \A i \in 0 .. Len(a) : Table(a, b)[<<r, i>>] > max
      BY <2>4 DEF ExitEarly
    <3>2. r \in 0 .. Len(b) /\ r <= Len(b)
      BY <2>1
    <3>3. PICK l \in 0 .. Len(a) : Table(a, b)[<<r, l>>] <= Table(a, b)[<<Len(b), Len(a)>>]
      BY <2>1, <3>2, RowsGrow
    <3>4. PICK z \in Nat : z = Table(a, b)[<<r, l>>]
      BY <3>2, CellsAre
    <3>5. z > max /\ z <= n
      BY <2>2, <3>1, <3>3, <3>4
    <3> QED BY <3>5
  <2>5. n > max <=> ~(n <= max)
    OBVIOUS
  <2>6. Len(b) - Len(a) > max => n > max
    BY <2>1, <2>3
  <2> QED BY <2>2, <2>4, <2>5, <2>6
<1>3. Distance(x, y) = Distance(y, x)
  BY DistanceIs
<1>4. CASE Len(x) > Len(y)
  <2>1. Len(x) >= Len(y)
    BY <1>1, <1>4
  <2>2. DistanceUpTo(x, y, max) =
          IF \/ Len(x) - Len(y) > max
             \/ ExitEarly(Table(y, x), y, x, max)
             \/ Table(y, x)[<<Len(x), Len(y)>>] > max
          THEN NoMatch ELSE Table(y, x)[<<Len(x), Len(y)>>]
    BY <1>4 DEF DistanceUpTo
  <2>3. Table(y, x)[<<Len(x), Len(y)>>] = Distance(y, x)
    BY DEF Distance
  <2>4. (\/ Len(x) - Len(y) > max
         \/ ExitEarly(Table(y, x), y, x, max)
         \/ Table(y, x)[<<Len(x), Len(y)>>] > max) <=> ~(Distance(y, x) <= max)
    BY <1>2, <2>1
  <2>5. DistanceUpTo(x, y, max) = IF ~(Distance(y, x) <= max) THEN NoMatch ELSE Distance(y, x)
    BY <2>2, <2>3, <2>4, Zenon
  <2> QED BY <1>3, <2>5
<1>5. CASE ~(Len(x) > Len(y))
  <2>1. Len(y) >= Len(x)
    BY <1>1, <1>5
  <2>2. DistanceUpTo(x, y, max) =
          IF \/ Len(y) - Len(x) > max
             \/ ExitEarly(Table(x, y), x, y, max)
             \/ Table(x, y)[<<Len(y), Len(x)>>] > max
          THEN NoMatch ELSE Table(x, y)[<<Len(y), Len(x)>>]
    BY <1>5 DEF DistanceUpTo
  <2>3. Table(x, y)[<<Len(y), Len(x)>>] = Distance(x, y)
    BY DEF Distance
  <2>4. (\/ Len(y) - Len(x) > max
         \/ ExitEarly(Table(x, y), x, y, max)
         \/ Table(x, y)[<<Len(y), Len(x)>>] > max) <=> ~(Distance(x, y) <= max)
    BY <1>2, <2>1
  <2>5. DistanceUpTo(x, y, max) = IF ~(Distance(x, y) <= max) THEN NoMatch ELSE Distance(x, y)
    BY <2>2, <2>3, <2>4, Zenon
  <2> QED BY <2>5
<1> QED BY <1>4, <1>5

(* A word of Upto is not longer than the bound.                              *)
LEMMA LengthIs ==
  ASSUME NEW S, NEW n \in Nat, NEW s \in Upto(S, n)
  PROVE  Len(s) <= n
<1>1. PICK k \in 0 .. n : s \in [1 .. k -> S]
  BY DEF Upto
<1>2. k \in Nat /\ k <= n
  BY <1>1
<1>3. Len(s) = k
  BY <1>1, <1>2
<1> QED BY <1>2, <1>3

(* The distance of two names counts the edits between them.                  *)
LEMMA DistanceHolds == InputOK => DistanceCountsEdits
<1> SUFFICES ASSUME InputOK, input.what = "distance", NEW w \in Upto(Letters, MaxName)
    PROVE  LET d1 == DistanceUpTo(input.word, w, 1)
               d2 == DistanceUpTo(input.word, w, 2)
           IN /\ d1 = 0 <=> w = input.word
              /\ d1 = 1 <=> w # input.word /\ w \in Edits(input.word)
              /\ d2 # NoMatch => w \in UNION {Edits(v) : v \in Edits(input.word)}
              /\ d1 # NoMatch => d2 = d1
              /\ d2 = DistanceUpTo(w, input.word, 2)
              /\ d2 # NoMatch <=> DistanceUpTo(input.word, w, MaxName) <= 2
  BY DEF DistanceCountsEdits
<1>1. MaxName \in Nat
  BY PatternAssumption
<1>2. PICK u \in Upto(Letters, MaxName) : u = input.word
  BY DEF InputOK
<1>3. u \in Seq(Letters) /\ w \in Seq(Letters)
  BY UptoIs
<1>4. Len(u) \in Nat /\ Len(w) \in Nat /\ Len(u) <= MaxName /\ Len(w) <= MaxName
  BY <1>1, <1>3, LengthIs
<1>5. /\ Distance(u, w) \in Nat
      /\ Distance(u, w) = Distance(w, u)
      /\ Distance(u, w) = 0 <=> w = u
      /\ Distance(u, w) = 1 <=> w # u /\ w \in Edits(u)
      /\ Distance(u, w) <= 2 => w \in UNION {Edits(v) : v \in Edits(u)}
      /\ Distance(u, w) <= Len(u) \/ Distance(u, w) <= Len(w)
  BY <1>3, DistanceIs
<1>6. PICK n \in Nat : n = Distance(u, w)
  BY <1>5
<1>7. n <= MaxName
  BY <1>1, <1>4, <1>5, <1>6
<1>8. 1 \in Nat /\ 2 \in Nat
  OBVIOUS
<1>9. DistanceUpTo(u, w, 1) = IF n <= 1 THEN n ELSE NoMatch
  BY <1>3, <1>6, <1>8, DistanceUpToIs
<1>10. DistanceUpTo(u, w, 2) = IF n <= 2 THEN n ELSE NoMatch
  BY <1>3, <1>6, <1>8, DistanceUpToIs
<1>11. DistanceUpTo(w, u, 2) = IF n <= 2 THEN n ELSE NoMatch
  BY <1>3, <1>5, <1>6, <1>8, DistanceUpToIs
<1>12. DistanceUpTo(u, w, MaxName) = n
  <2>1. DistanceUpTo(u, w, MaxName) = IF n <= MaxName THEN n ELSE NoMatch
    BY <1>1, <1>3, <1>6, DistanceUpToIs
  <2> QED BY <1>7, <2>1
<1>13. NoMatch = -1
  BY DEF NoMatch
<1>14. PICK d1 \in Int, d2 \in Int : d1 = DistanceUpTo(u, w, 1) /\ d2 = DistanceUpTo(u, w, 2)
  BY <1>9, <1>10, <1>13
<1>15. d1 = (IF n <= 1 THEN n ELSE -1) /\ d2 = (IF n <= 2 THEN n ELSE -1)
  BY <1>9, <1>10, <1>13, <1>14
<1>16. /\ d1 = 0 <=> n = 0
       /\ d1 = 1 <=> n = 1
       /\ d2 # -1 <=> n <= 2
       /\ d1 # -1 => d2 = d1
  BY <1>15
<1>17. /\ d1 = 0 <=> w = u
       /\ d1 = 1 <=> w # u /\ w \in Edits(u)
       /\ d2 # NoMatch => w \in UNION {Edits(v) : v \in Edits(u)}
       /\ d1 # NoMatch => d2 = d1
       /\ d2 = DistanceUpTo(w, u, 2)
       /\ d2 # NoMatch <=> DistanceUpTo(u, w, MaxName) <= 2
  BY <1>5, <1>6, <1>10, <1>11, <1>12, <1>13, <1>14, <1>16
<1> QED BY <1>2, <1>14, <1>17

-----------------------------------------------------------------------------
(* The leftmost place for each part of a glob (glob_match of policy.rs), the *)
(* first match of a `**` (match_prefix of codeowners.rs), the early end of a *)
(* distance (edit_distance_bounded of typosquat.rs), the environment of the  *)
(* command and the audit's uncovered workflows: what each algorithm says is  *)
(* what its definition means, for words of any length.                       *)
THEOREM PatternsMean == PatternsSpec /\ AuditSpec => []PatternsAsMeant
<1>1. InputOK /\ RepoOK => PatternsAsMeant
  BY GlobsHold, EnvHolds, OwnersHold, UncoveredHolds, DistanceHolds DEF PatternsAsMeant
<1> QED BY <1>1, InputIsOK, RepoIsOK, PTL
=============================================================================
