-------------------------- MODULE SequenceInduction --------------------------
(***************************************************************************)
(* Induction along the positions of a sequence, from the principle of the  *)
(* least number, and that a value can be built along them: what the        *)
(* recursive functions on sequences rest on.                               *)
(***************************************************************************)
EXTENDS Integers, TLAPS, WellFoundedInduction

NatBefore == {p \in Nat \X Nat : p[1] < p[2]}

\* Every nonempty set of numbers has a least one.
LEMMA LeastNumber ==
    ASSUME NEW S \in SUBSET Nat, S # {}
    PROVE  \E m \in S : \A k \in S : m <= k
<1>1. IsWellFoundedOn(NatBefore, Nat)
  BY NatLessThanWellFounded DEF OpToRel, NatBefore
<1>2. PICK m \in S : \A k \in S : <<k, m>> \notin NatBefore
  BY <1>1, WFMin
<1>3. \A k \in S : <<k, m>> \in NatBefore <=> k < m
  BY DEF NatBefore
<1>4. \A k \in S : ~(k < m)
  BY <1>2, <1>3, Zenon
<1>5. QED
  BY <1>4

\* What holds at zero and from each number to the next holds up to any number.
LEMMA UpTo ==
    ASSUME NEW n \in Nat, NEW S, 0 \in S, \A i \in 1..n : i - 1 \in S => i \in S
    PROVE  0..n \subseteq S
<1> DEFINE Left == (0..n) \ S
<1> SUFFICES ASSUME Left # {} PROVE FALSE
  OBVIOUS
<1>1. Left \in SUBSET Nat
  OBVIOUS
<1>2. PICK m \in Left : \A k \in Left : m <= k
  <2> HIDE DEF Left
  <2> QED BY <1>1, LeastNumber
<1>3. m \in 1..n /\ m - 1 \in 0..n /\ m - 1 \notin Left
  BY <1>2
<1>4. QED
  BY <1>2, <1>3

\* The function that begins with base and makes each of its n values of the one
\* before it
Builds(f, n, V, base, step) ==
    /\ f \in [0..n -> V]
    /\ f[0] = base
    /\ \A i \in 1..n : f[i] = step[i][f[i - 1]]

\* There is one.
LEMMA PrefixRecursion ==
    ASSUME NEW n \in Nat, NEW V, NEW base \in V, NEW step \in [1..n -> [V -> V]]
    PROVE  \E f : Builds(f, n, V, base, step)
<1> DEFINE S == {m \in 0..n : \E f : Builds(f, m, V, base, step)}
<1>1. 0 \in S
  <2> DEFINE g == [i \in 0..0 |-> base]
  <2>1. Builds(g, 0, V, base, step)
    BY DEF Builds
  <2>2. 0 \in 0..n
    OBVIOUS
  <2> HIDE DEF g
  <2> QED BY <2>1, <2>2
<1>2. ASSUME NEW m \in 1..n, m - 1 \in S PROVE m \in S
  <2>1. PICK f : Builds(f, m - 1, V, base, step)
    BY <1>2
  <2> DEFINE last == step[m][f[m - 1]]
             g == [i \in 0..m |-> IF i = m THEN last ELSE f[i]]
  <2>2. f \in [0..(m - 1) -> V] /\ f[0] = base /\ m - 1 \in 0..(m - 1)
    BY <2>1 DEF Builds
  <2>3. last \in V
    BY <2>2
  <2>4. g \in [0..m -> V] /\ g[m] = last /\ \A i \in 0..(m - 1) : g[i] = f[i]
    <3> HIDE DEF last
    <3> QED BY <2>2, <2>3
  <2>5. g[m] = step[m][g[m - 1]]
    <3>1. g[m - 1] = f[m - 1]
      BY <2>2, <2>4
    <3> HIDE DEF g
    <3> QED BY <2>4, <3>1
  <2>6. ASSUME NEW i \in 1..m PROVE g[i] = step[i][g[i - 1]]
    <3>1. ASSUME i # m PROVE g[i] = f[i] /\ g[i - 1] = f[i - 1] /\ f[i] = step[i][f[i - 1]]
      <4>1. i \in 1..(m - 1) /\ i \in 0..(m - 1) /\ i - 1 \in 0..(m - 1)
        BY <3>1
      <4>2. f[i] = step[i][f[i - 1]]
        BY <2>1, <4>1 DEF Builds
      <4> HIDE DEF g
      <4> QED BY <2>4, <4>1, <4>2
    <3> HIDE DEF g
    <3> QED BY <2>5, <3>1
  <2>7. g[0] = base
    BY <2>2, <2>4
  <2>8. Builds(g, m, V, base, step)
    <3> HIDE DEF g
    <3> QED BY <2>4, <2>6, <2>7 DEF Builds
  <2> HIDE DEF g
  <2> QED BY <2>8
<1>3. n \in S
  <2> HIDE DEF S
  <2>1. \A i \in 1..n : i - 1 \in S => i \in S
    BY <1>2
  <2>2. 0..n \subseteq S
    BY <1>1, <2>1, UpTo
  <2> QED BY <2>2
<1>4. QED
  BY <1>3
=============================================================================
