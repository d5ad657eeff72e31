--------------------------------- MODULE Loops ---------------------------------
(***************************************************************************)
(* A loop is the function from the number of passes to the state after so  *)
(* many of them.  What holds at the start and is kept by a pass holds      *)
(* after any number of passes.                                             *)
(***************************************************************************)
EXTENDS Integers, WellFoundedInduction, TLAPS

CONSTANTS
  Pass(_, _, _),   \* what pass k of a loop with some parameter makes of a state
  Holds(_, _, _)   \* what is said of the state after k passes

Passes(par, v) ==
  LET at[k \in Nat] == IF k = 0 THEN v ELSE Pass(par, at[k - 1], k) IN at

(* A set of numbers that holds 0 and with each number the next is all.      *)
LEMMA AllNumbers ==
  ASSUME NEW T, 0 \in T, \A k \in Nat : k \in T => k + 1 \in T
  PROVE  Nat \subseteq T
<1> DEFINE Less == {p \in Nat \X Nat : p[1] < p[2]}
<1>1. IsWellFoundedOn(Less, Nat)
  <2>1. OpToRel(<, Nat) = Less
    BY Zenon DEF OpToRel
  <2>2. QED
    BY <2>1, NatLessThanWellFounded, Zenon
<1>2. SUFFICES ASSUME Nat \ T # {} PROVE FALSE
  OBVIOUS
<1>3. PICK x \in Nat \ T : \A y \in Nat \ T : ~ (<<y, x>> \in Less)
  BY <1>1, <1>2, WFMin, Zenon
<1>4. x \in Nat /\ x # 0
  BY <1>3
<1>5. x - 1 \in Nat /\ <<x - 1, x>> \in Less
  BY <1>4
<1>6. x - 1 \in T
  BY <1>3, <1>5
<1>7. (x - 1) + 1 \in T
  BY <1>5, <1>6
<1>8. QED
  BY <1>3, <1>4, <1>7

(* The first n passes of a loop, and that there is one list of them.        *)
Starts(par, v, g, n) ==
  g = [k \in 0..n |-> IF k = 0 THEN v ELSE Pass(par, g[k - 1], k)]

LEMMA OneStart ==
  ASSUME NEW par, NEW v, NEW m \in Nat, NEW n \in Nat, NEW g, NEW h,
         Starts(par, v, g, m), Starts(par, v, h, n)
  PROVE  \A k \in Nat : k <= m /\ k <= n => g[k] = h[k]
<1> DEFINE T == {k \in Nat : k <= m /\ k <= n => g[k] = h[k]}
<1>1. g[0] = v /\ h[0] = v
  BY DEF Starts
<1>2. ASSUME NEW k \in Nat, k \in T PROVE k + 1 \in T
  <2>1. SUFFICES ASSUME k + 1 <= m, k + 1 <= n PROVE g[k + 1] = h[k + 1]
    OBVIOUS
  <2>2. g[k] = h[k]
    BY <1>2, <2>1
  <2>3. k + 1 \in 0..m /\ k + 1 \in 0..n /\ k + 1 # 0 /\ (k + 1) - 1 = k
    BY <2>1
  <2>4. g[k + 1] = Pass(par, g[k], k + 1) /\ h[k + 1] = Pass(par, h[k], k + 1)
    BY <2>3 DEF Starts
  <2>5. QED
    BY <2>2, <2>4
<1>3. 0 \in T
  BY <1>1
<1> HIDE DEF T
<1>4. Nat \subseteq T
  BY <1>2, <1>3, AllNumbers
<1>5. QED
  BY <1>4 DEF T

LEMMA SomeStart ==
  ASSUME NEW par, NEW v
  PROVE  \A n \in Nat : \E g : Starts(par, v, g, n)
<1> DEFINE T == {n \in Nat : \E g : Starts(par, v, g, n)}
<1>1. Starts(par, v, [k \in 0..0 |-> v], 0)
  BY DEF Starts
<1>2. ASSUME NEW n \in Nat, n \in T PROVE n + 1 \in T
  <2>1. PICK g : Starts(par, v, g, n)
    BY <1>2
  <2> DEFINE h == [k \in 0..(n + 1) |-> IF k = n + 1 THEN Pass(par, g[n], n + 1) ELSE g[k]]
  <2>2. \A k \in 0..n : g[k] = IF k = 0 THEN v ELSE Pass(par, g[k - 1], k)
    BY <2>1 DEF Starts
  <2>3. \A k \in 0..n : h[k] = g[k]
    OBVIOUS
  <2>4. h[n + 1] = Pass(par, g[n], n + 1)
    OBVIOUS
  <2>5. ASSUME NEW k \in 0..(n + 1)
        PROVE  h[k] = IF k = 0 THEN v ELSE Pass(par, h[k - 1], k)
    <3>1. CASE k = n + 1
      <4>1. h[k - 1] = g[n] /\ k # 0
        BY <2>3, <3>1
      <4>2. QED
        BY <2>4, <3>1, <4>1
    <3>2. CASE k # n + 1 /\ k # 0
      <4>1. k \in 0..n /\ k - 1 \in 0..n
        BY <3>2
      <4>2. h[k] = g[k] /\ h[k - 1] = g[k - 1]
        BY <2>3, <4>1
      <4>3. QED
        BY <2>2, <3>2, <4>1, <4>2
    <3>3. CASE k = 0
      <4>1. h[0] = g[0] /\ g[0] = v
        BY <2>2, <2>3
      <4>2. QED
        BY <3>3, <4>1
    <3>4. QED
      BY <3>1, <3>2, <3>3
  <2>6. h = [k \in 0..(n + 1) |-> h[k]]
    OBVIOUS
  <2> HIDE DEF h
  <2>7. Starts(par, v, h, n + 1)
    BY <2>5, <2>6 DEF Starts
  <2>8. QED
    BY <2>7
<1>3. 0 \in T
  BY <1>1
<1> HIDE DEF T
<1>4. Nat \subseteq T
  BY <1>2, <1>3, AllNumbers
<1>5. QED
  BY <1>4 DEF T

(* The state after no pass is the start, and each pass follows the last.    *)
LEMMA PassesFollow ==
  ASSUME NEW par, NEW v
  PROVE  /\ Passes(par, v)[0] = v
         /\ \A k \in Nat : Passes(par, v)[k + 1] = Pass(par, Passes(par, v)[k], k + 1)
<1> DEFINE One(n) == CHOOSE g : Starts(par, v, g, n)
           F == [n \in Nat |-> One(n)[n]]
           IsLoop(g) == g = [k \in Nat |-> IF k = 0 THEN v ELSE Pass(par, g[k - 1], k)]
<1>1. \A n \in Nat : Starts(par, v, One(n), n)
  BY SomeStart
<1> HIDE DEF One
<1>2. F[0] = v
  <2>1. One(0)[0] = v
    BY <1>1 DEF Starts
  <2>2. QED
    BY <2>1
<1>3. ASSUME NEW k \in Nat PROVE F[k + 1] = Pass(par, F[k], k + 1)
  <2>1. k + 1 \in Nat /\ k + 1 \in 0..(k + 1) /\ k + 1 # 0 /\ (k + 1) - 1 = k /\ k <= k + 1 /\ k <= k
    OBVIOUS
  <2>2. One(k + 1)[k + 1] = Pass(par, One(k + 1)[k], k + 1)
    BY <1>1, <2>1 DEF Starts
  <2>3. One(k + 1)[k] = One(k)[k]
    BY <1>1, <2>1, OneStart
  <2>4. QED
    BY <2>1, <2>2, <2>3
<1>4. IsLoop(F)
  <2>1. ASSUME NEW k \in Nat PROVE F[k] = IF k = 0 THEN v ELSE Pass(par, F[k - 1], k)
    <3>1. CASE k = 0
      BY <1>2, <3>1
    <3>2. CASE k # 0
      <4>1. k - 1 \in Nat /\ (k - 1) + 1 = k
        BY <3>2
      <4>2. F[(k - 1) + 1] = Pass(par, F[k - 1], (k - 1) + 1)
        BY <1>3, <4>1
      <4>3. QED
        BY <3>2, <4>1, <4>2
    <3>3. QED
      BY <3>1, <3>2
  <2>2. F = [k \in Nat |-> F[k]]
    OBVIOUS
  <2> HIDE DEF F
  <2>3. QED
    BY <2>1, <2>2
<1> HIDE DEF F
<1>5. Passes(par, v) = CHOOSE g : IsLoop(g)
  BY DEF Passes
<1>6. IsLoop(Passes(par, v))
  BY <1>4, <1>5
<1> DEFINE P == Passes(par, v)
<1>7. P = [k \in Nat |-> IF k = 0 THEN v ELSE Pass(par, P[k - 1], k)]
  BY <1>6
<1> HIDE DEF P, IsLoop
<1>8. P[0] = v
  BY <1>7
<1>9. ASSUME NEW k \in Nat PROVE P[k + 1] = Pass(par, P[k], k + 1)
  <2>1. k + 1 \in Nat /\ k + 1 # 0 /\ (k + 1) - 1 = k
    OBVIOUS
  <2>2. P[k + 1] = IF k + 1 = 0 THEN v ELSE Pass(par, P[(k + 1) - 1], k + 1)
    BY <1>7, <2>1
  <2>3. QED
    BY <2>1, <2>2
<1>10. QED
  BY <1>8, <1>9 DEF P

(* What a loop starts with and each pass keeps holds after any number of    *)
(* passes.                                                                  *)
LEMMA PassesKeep ==
  ASSUME NEW par, NEW v, Holds(par, v, 0),
         \A w : \A k \in Nat : Holds(par, w, k) => Holds(par, Pass(par, w, k + 1), k + 1)
  PROVE  \A n \in Nat : Holds(par, Passes(par, v)[n], n)
<1> DEFINE T == {k \in Nat : Holds(par, Passes(par, v)[k], k)}
<1>1. 0 \in T
  BY PassesFollow
<1>2. ASSUME NEW k \in Nat, k \in T PROVE k + 1 \in T
  <2>1. Holds(par, Pass(par, Passes(par, v)[k], k + 1), k + 1)
    BY <1>2
  <2>2. Passes(par, v)[k + 1] = Pass(par, Passes(par, v)[k], k + 1)
    BY PassesFollow
  <2>3. QED
    BY <2>1, <2>2
<1> HIDE DEF T
<1>3. Nat \subseteq T
  BY <1>1, <1>2, AllNumbers
<1>4. QED
  BY <1>3 DEF T
================================================================================
