----------------------------- MODULE Induction -----------------------------
(***************************************************************************)
(* Arguments along the naturals that the other proofs share: a least       *)
(* member, a fact handed on from place to place, and the existence of a    *)
(* function whose values are each made from the one before.                *)
(***************************************************************************)
EXTENDS Integers, WellFoundedInduction, TLAPS

\* The order of the naturals as a well-founded relation.
LEMMA NatOrder ==
  \E R : /\ IsWellFoundedOn(R, Nat)
         /\ \A x, y \in Nat : x < y => <<x, y>> \in R
PROOF
<1>1. IsWellFoundedOn(OpToRel(<, Nat), Nat)
  BY NatLessThanWellFounded, Zenon
<1>2. \A x, y \in Nat : x < y => <<x, y>> \in OpToRel(<, Nat)
  BY Zenon DEF OpToRel
<1> QED BY <1>1, <1>2, Zenon

\* A non-empty set of naturals has a least member.
LEMMA LeastNat ==
  ASSUME NEW T, T \subseteq Nat, T # {}
  PROVE  \E m \in T : \A j \in T : m <= j
PROOF
<1>1. PICK R : /\ IsWellFoundedOn(R, Nat)
               /\ \A x, y \in Nat : x < y => <<x, y>> \in R
  BY NatOrder
<1>2. IsWellFoundedOn(R, Nat)
  BY <1>1
<1>3. \E m \in T : \A j \in T : ~(<<j, m>> \in R)
  BY <1>2, WFMin, Zenon
<1>4. PICK m \in T : \A j \in T : ~(<<j, m>> \in R)
  BY <1>3
<1>5. ASSUME NEW j \in T PROVE m <= j
  <2>1. ~(j < m)
    BY <1>1, <1>4, Zenon
  <2>2. j \in Nat /\ m \in Nat
    OBVIOUS
  <2> QED BY <2>1, <2>2
<1> QED BY <1>5

\* What holds at the first place and is handed on holds at every place.
LEMMA EveryPlace ==
  ASSUME NEW lo \in Nat, NEW hi \in Nat, NEW T, lo \in T,
         \A k \in lo..hi-1 : k \in T => k + 1 \in T
  PROVE  \A k \in lo..hi : k \in T
PROOF
<1> DEFINE U == {k \in lo..hi : k \notin T}
<1>1. SUFFICES ASSUME U # {} PROVE FALSE
  OBVIOUS
<1>2. U \subseteq Nat
  OBVIOUS
<1>3. \E m \in U : \A j \in U : m <= j
  <2> HIDE DEF U
  <2> QED BY <1>1, <1>2, LeastNat
<1>4. PICK m \in U : \A j \in U : m <= j
  BY <1>3
<1>5. m \in lo..hi /\ m \notin T /\ m # lo
  BY <1>4
<1>6. m - 1 \in lo..hi-1 /\ m - 1 \in lo..hi /\ ~(m - 1 \in U) /\ (m - 1) + 1 = m
  BY <1>4, <1>5
<1> QED BY <1>5, <1>6

\* The function f starts with x and makes each value from the one before.
Recurs(f, N, S, x, g) ==
  /\ f \in [0..N -> S] /\ f[0] = x
  /\ \A k \in 1..N : f[k] = g[<<k, f[k - 1]>>]

LEMMA RecursExists ==
  ASSUME NEW S, NEW x \in S, NEW N \in Nat, NEW g \in [Nat \X S -> S]
  PROVE  \E f : Recurs(f, N, S, x, g)
PROOF
<1> DEFINE T == {n \in 0..N : \E f : Recurs(f, n, S, x, g)}
<1>1. 0 \in T
  <2> DEFINE f == [k \in 0..0 |-> x]
  <2>1. f \in [0..0 -> S] /\ f[0] = x
    OBVIOUS
  <2> HIDE DEF f
  <2>2. Recurs(f, 0, S, x, g)
    BY <2>1 DEF Recurs
  <2> QED BY <2>2
<1>2. ASSUME NEW n \in 0..N-1, n \in T PROVE n + 1 \in T
  <2>1. PICK f : Recurs(f, n, S, x, g)
    BY <1>2
  <2>2. n \in Nat /\ n \in 0..n /\ n + 1 \in Nat
    OBVIOUS
  <2>3. f[n] \in S
    BY <2>1, <2>2 DEF Recurs
  <2>e. PICK e \in S : e = g[<<n + 1, f[n]>>]
    BY <2>2, <2>3
  <2> DEFINE h == [k \in 0..n+1 |-> IF k = n + 1 THEN e ELSE f[k]]
  <2>4. h \in [0..n+1 -> S]
    BY <2>1, <2>2 DEF Recurs
  <2>5. h[n + 1] = e /\ \A k \in 0..n : h[k] = f[k]
    BY <2>2
  <2> HIDE DEF h
  <2>6. h[0] = x
    BY <2>1, <2>2, <2>5 DEF Recurs
  <2>7. ASSUME NEW k \in 1..n+1 PROVE h[k] = g[<<k, h[k - 1]>>]
    <3>1. CASE k = n + 1
      <4>1. k - 1 = n /\ h[k - 1] = f[n]
        BY <2>2, <2>5, <3>1
      <4> QED BY <2>5, <2>e, <3>1, <4>1
    <3>2. CASE k \in 1..n
      <4>1. h[k] = f[k] /\ h[k - 1] = f[k - 1]
        BY <2>2, <2>5, <3>2
      <4> QED BY <2>1, <3>2, <4>1 DEF Recurs
    <3>3. k = n + 1 \/ k \in 1..n
      BY <2>2
    <3> QED BY <3>1, <3>2, <3>3
  <2>8. Recurs(h, n + 1, S, x, g)
    BY <2>4, <2>6, <2>7 DEF Recurs
  <2> QED BY <2>2, <2>8
<1>3. \A n \in 0..N : n \in T
  <2> HIDE DEF T
  <2> QED BY <1>1, <1>2, EveryPlace
<1> QED BY <1>3

\* Two such functions agree where both are defined.
LEMMA RecursSame ==
  ASSUME NEW S, NEW x, NEW g, NEW N \in Nat, NEW f, Recurs(f, N, S, x, g),
         NEW L \in Nat, NEW h, Recurs(h, L, S, x, g), NEW m \in 0..N, m <= L
  PROVE  f[m] = h[m]
PROOF
<1> DEFINE T == {k \in 0..m : f[k] = h[k]}
<1>1. 0 \in T
  BY DEF Recurs
<1>2. ASSUME NEW k \in 0..m-1, k \in T PROVE k + 1 \in T
  <2>1. k + 1 \in 1..N /\ k + 1 \in 1..L /\ k + 1 \in 0..m /\ (k + 1) - 1 = k
    OBVIOUS
  <2>2. f[k + 1] = g[<<k + 1, f[k]>>] /\ h[k + 1] = g[<<k + 1, h[k]>>]
    BY <2>1 DEF Recurs
  <2> QED BY <1>2, <2>1, <2>2
<1>3. \A k \in 0..m : k \in T
  <2> HIDE DEF T
  <2> QED BY <1>1, <1>2, EveryPlace
<1> QED BY <1>3

\* The same on all of the naturals.
RecursOn(f, S, x, g) ==
  /\ f \in [Nat -> S] /\ f[0] = x
  /\ \A k \in Nat : f[k + 1] = g[<<k + 1, f[k]>>]

LEMMA RecursNat ==
  ASSUME NEW S, NEW x \in S, NEW g \in [Nat \X S -> S]
  PROVE  \E f : RecursOn(f, S, x, g)
PROOF
<1> DEFINE u(n) == CHOOSE f : Recurs(f, n, S, x, g)
           F == [n \in Nat |-> u(n)[n]]
<1>1. ASSUME NEW n \in Nat PROVE Recurs(u(n), n, S, x, g)
  BY RecursExists
<1> HIDE DEF u
<1>2. F \in [Nat -> S]
  <2>1. ASSUME NEW n \in Nat PROVE u(n)[n] \in S
    BY <1>1 DEF Recurs
  <2> QED BY <2>1
<1>3. F[0] = x
  BY <1>1 DEF Recurs
<1>4. ASSUME NEW k \in Nat PROVE F[k + 1] = g[<<k + 1, F[k]>>]
  <2>1. k + 1 \in Nat /\ k + 1 \in 1..k+1 /\ (k + 1) - 1 = k /\ k \in 0..k+1 /\ k <= k /\ k \in 0..k
    OBVIOUS
  <2>2. Recurs(u(k), k, S, x, g) /\ Recurs(u(k + 1), k + 1, S, x, g)
    BY <1>1, <2>1
  <2>3. u(k + 1)[k + 1] = g[<<k + 1, u(k + 1)[k]>>]
    BY <2>1, <2>2 DEF Recurs
  <2>4. u(k + 1)[k] = u(k)[k]
    BY <2>1, <2>2, RecursSame
  <2> QED BY <2>1, <2>3, <2>4
<1> HIDE DEF F
<1>5. RecursOn(F, S, x, g)
  BY <1>2, <1>3, <1>4 DEF RecursOn
<1> QED BY <1>5

\* What holds of 0 and is handed on holds of every natural.
LEMMA EveryNat ==
  ASSUME NEW T, 0 \in T, \A k \in Nat : k \in T => k + 1 \in T
  PROVE  \A k \in Nat : k \in T
PROOF
<1> SUFFICES ASSUME NEW n \in Nat PROVE n \in T
  OBVIOUS
<1>1. \A k \in 0..n : k \in T
  <2>1. \A k \in 0..n-1 : k \in T => k + 1 \in T
    OBVIOUS
  <2> QED BY <2>1, EveryPlace
<1> QED BY <1>1

\* The powers of b.
Powers(b, p) ==
  /\ p \in [Nat -> Nat] /\ p[0] = 1
  /\ \A k \in Nat : p[k + 1] = b * p[k]

\* They are what the recursive definition defines.
LEMMA PowersDefined ==
  ASSUME NEW b \in Nat, NEW p,
         p = CHOOSE f : f = [e \in Nat |-> IF e = 0 THEN 1 ELSE b * f[e - 1]]
  PROVE  Powers(b, p)
PROOF
<1> DEFINE g == [z \in Nat \X Nat |-> b * z[2]]
<1>0. \A y \in Nat : b * y \in Nat
  OBVIOUS
<1>1. g \in [Nat \X Nat -> Nat] /\ \A k, y \in Nat : g[<<k, y>>] = b * y
  BY <1>0
<1> HIDE DEF g
<1>a. PICK f : RecursOn(f, Nat, 1, g)
  BY <1>1, RecursNat
<1>2. f \in [Nat -> Nat] /\ f[0] = 1 /\ \A k \in Nat : f[k + 1] = g[<<k + 1, f[k]>>]
  BY <1>a DEF RecursOn
<1>3. ASSUME NEW k \in Nat PROVE f[k + 1] = b * f[k]
  <2>1. k + 1 \in Nat /\ f[k] \in Nat
    BY <1>2
  <2> QED BY <1>1, <1>2, <2>1
<1> DEFINE Body(h, e) == IF e = 0 THEN 1 ELSE b * h[e - 1]
<1>4. ASSUME NEW e \in Nat PROVE f[e] = Body(f, e)
  <2>1. CASE e = 0
    BY <1>2, <2>1
  <2>2. CASE e # 0
    <3>1. e - 1 \in Nat /\ (e - 1) + 1 = e
      BY <2>2
    <3> QED BY <1>3, <2>2, <3>1
  <2> QED BY <2>1, <2>2
<1>5. f = [e \in Nat |-> Body(f, e)]
  <2> HIDE DEF Body
  <2> QED BY <1>2, <1>4
<1>6. p = CHOOSE h : h = [e \in Nat |-> Body(h, e)]
  OBVIOUS
<1>7. p = [e \in Nat |-> Body(p, e)]
  <2> HIDE DEF Body
  <2> QED BY <1>5, <1>6
<1>8. \A e \in Nat : p[e] = Body(p, e)
  <2> HIDE DEF Body
  <2> QED BY <1>7
<1>9. p[0] = 1 /\ \A k \in Nat : p[k + 1] = b * p[k]
  <2>1. p[0] = 1
    BY <1>8
  <2>2. ASSUME NEW k \in Nat PROVE p[k + 1] = b * p[k]
    <3>1. k + 1 \in Nat /\ k + 1 # 0 /\ (k + 1) - 1 = k
      OBVIOUS
    <3>2. p[k + 1] = Body(p, k + 1)
      BY <1>8, <3>1
    <3> QED BY <3>1, <3>2
  <2> QED BY <2>1, <2>2
<1> DEFINE T == {k \in Nat : p[k] \in Nat}
<1>10. 0 \in T
  BY <1>9
<1>11. ASSUME NEW k \in Nat, k \in T PROVE k + 1 \in T
  BY <1>0, <1>9, <1>11
<1>12. \A k \in Nat : k \in T
  <2> HIDE DEF T
  <2> QED BY <1>10, <1>11, EveryNat
<1>13. p \in [Nat -> Nat]
  <2>1. \A k \in Nat : p[k] \in Nat
    BY <1>12
  <2>2. p = [e \in Nat |-> p[e]]
    <3> HIDE DEF Body
    <3> QED BY <1>7
  <2> QED BY <2>1, <2>2
<1> QED BY <1>9, <1>13 DEF Powers
=============================================================================
