---------------------------- MODULE ContentProofs ----------------------------
(***************************************************************************)
(* What is stored and shown of a post, for posts and pictures of any       *)
(* length: stripping a picture takes its metadata and nothing else, and    *)
(* a page marks whom a post told, for as long as they stay who they are.   *)
(*                                                                         *)
(* What a walk computes is shown by induction on its length, in the form   *)
(* "a set that holds 0 and with i also i + 1 holds every number".          *)
(***************************************************************************)
EXTENDS Pictures, Texts, TLAPS, SequenceTheorems, FiniteSetTheorems, WellFoundedInduction

-----------------------------------------------------------------------------
(* Induction and recursion.                                                *)

\* Otherwise the least number outside the set would follow one inside.
LEMMA NatInduct ==
  ASSUME NEW P, 0 \in P, \A i \in Nat : i \in P => i + 1 \in P
  PROVE  Nat \subseteq P
  <1> DEFINE Out == {n \in Nat : n \notin P}
  <1> SUFFICES ASSUME Out # {} PROVE FALSE
    OBVIOUS
  <1>1. PICK n \in Out : \A m \in Out : ~(<<m, n>> \in OpToRel(<, Nat))
    BY NatLessThanWellFounded, WFMin
  <1>2. \A m \in Out : ~(m < n)
    BY <1>1 DEF OpToRel
  <1> HIDE DEF Out
  <1>3. n \in Nat /\ n # 0
    BY DEF Out
  <1>4. n - 1 \in Nat /\ n - 1 \notin Out
    BY <1>2, <1>3
  <1>5. n - 1 \in P
    BY <1>4 DEF Out
  <1> QED BY <1>3, <1>4, <1>5 DEF Out

\* A set that holds the empty sequence and what it holds with one more element
\* holds every sequence.
LEMMA SeqInduct ==
  ASSUME NEW S, NEW P, <<>> \in P, \A s \in Seq(S), x \in S : s \in P => Append(s, x) \in P
  PROVE  Seq(S) \subseteq P
  <1> DEFINE Q == {n \in Nat : \A s \in Seq(S) : Len(s) = n => s \in P}
  <1>1. 0 \in Q
    OBVIOUS
  <1>2. ASSUME NEW n \in Nat, n \in Q PROVE n + 1 \in Q
    <2> SUFFICES ASSUME NEW s \in Seq(S), Len(s) = n + 1 PROVE s \in P
      OBVIOUS
    <2> DEFINE r == SubSeq(s, 1, n)
    <2>1. r \in Seq(S) /\ Len(r) = n /\ s[n + 1] \in S
      OBVIOUS
    <2>2. s = Append(r, s[n + 1])
      OBVIOUS
    <2>3. r \in P
      BY <1>2, <2>1
    <2> QED BY <2>1, <2>2, <2>3
  <1> HIDE DEF Q
  <1>3. Nat \subseteq Q
    BY <1>1, <1>2, NatInduct
  <1> QED BY <1>3 DEF Q

\* A walk that never leaves Acc.
Walk(f, n, base, step) == f = [i \in 0 .. n |-> IF i = 0 THEN base ELSE step[<<i, f[i - 1]>>]]

LEMMA WalkSteps ==
  ASSUME NEW n \in Nat, NEW base, NEW step, NEW f, Walk(f, n, base, step)
  PROVE  f[0] = base /\ \A i \in 1 .. n : f[i] = step[<<i, f[i - 1]>>]
  <1>1. 0 \in 0 .. n /\ \A i \in 1 .. n : i \in 0 .. n /\ i # 0
    OBVIOUS
  <1>2. \A i \in 0 .. n : f[i] = IF i = 0 THEN base ELSE step[<<i, f[i - 1]>>]
    BY Zenon DEF Walk
  <1> QED BY <1>1, <1>2, Zenon

LEMMA WalkStays ==
  ASSUME NEW n \in Nat, NEW Acc, NEW base \in Acc, NEW step,
         \A i \in 1 .. n, a \in Acc : step[<<i, a>>] \in Acc,
         NEW f, Walk(f, n, base, step)
  PROVE  \A i \in 0 .. n : f[i] \in Acc
  <1> DEFINE P == {i \in Nat : i <= n => f[i] \in Acc}
  <1>1. 0 \in P
    BY WalkSteps
  <1>2. ASSUME NEW i \in Nat, i \in P PROVE i + 1 \in P
    <2> SUFFICES ASSUME i + 1 <= n PROVE f[i + 1] \in Acc
      OBVIOUS
    <2>1. f[i] \in Acc /\ i + 1 \in 1 .. n /\ (i + 1) - 1 = i
      BY <1>2
    <2>2. f[i + 1] = step[<<i + 1, f[i]>>]
      BY <2>1, WalkSteps
    <2> QED BY <2>1, <2>2
  <1> HIDE DEF P
  <1>3. Nat \subseteq P
    BY <1>1, <1>2, NatInduct
  <1> QED BY <1>3 DEF P

\* There is one.
LEMMA WalkExists ==
  ASSUME NEW n \in Nat, NEW Acc, NEW base \in Acc, NEW step,
         \A i \in 1 .. n, a \in Acc : step[<<i, a>>] \in Acc
  PROVE  \E f : Walk(f, n, base, step)
  <1> DEFINE Upto(k, f) == f[0] = base /\ \A i \in 1 .. k : f[i] = step[<<i, f[i - 1]>>]
             P == {k \in Nat : k <= n => \E f \in [0 .. k -> Acc] : Upto(k, f)}
  <1>1. 0 \in P
    <2>1. [i \in 0 .. 0 |-> base] \in [0 .. 0 -> Acc]
      OBVIOUS
    <2>2. Upto(0, [i \in 0 .. 0 |-> base])
      OBVIOUS
    <2> QED BY <2>1, <2>2
  <1>2. ASSUME NEW k \in Nat, k \in P PROVE k + 1 \in P
    <2> SUFFICES ASSUME k + 1 <= n PROVE \E f \in [0 .. k + 1 -> Acc] : Upto(k + 1, f)
      OBVIOUS
    <2>1. PICK f \in [0 .. k -> Acc] : Upto(k, f)
      BY <1>2
    <2> DEFINE g == [i \in 0 .. k + 1 |-> IF i = k + 1 THEN step[<<k + 1, f[k]>>] ELSE f[i]]
    <2>3. step[<<k + 1, f[k]>>] \in Acc
      OBVIOUS
    <2>4. g \in [0 .. k + 1 -> Acc]
      BY <2>3
    <2>5. g[0] = base
      BY <2>1
    <2>6. ASSUME NEW i \in 1 .. k + 1 PROVE g[i] = step[<<i, g[i - 1]>>]
      <3>1. CASE i = k + 1
        <4>1. g[i] = step[<<k + 1, f[k]>>] /\ g[i - 1] = f[k]
          BY <3>1
        <4> QED BY <4>1, <3>1
      <3>2. CASE i # k + 1
        <4>1. i \in 1 .. k /\ i - 1 \in 0 .. k /\ i - 1 # k + 1 /\ i \in 0 .. k + 1
          BY <3>2
        <4>2. g[i] = f[i] /\ g[i - 1] = f[i - 1]
          BY <4>1, <3>2
        <4>3. f[i] = step[<<i, f[i - 1]>>]
          BY <2>1, <4>1
        <4> QED BY <4>2, <4>3
      <3> QED BY <3>1, <3>2
    <2> QED BY <2>4, <2>5, <2>6
  <1> HIDE DEF P
  <1>3. n \in P
    <2>1. Nat \subseteq P
      BY <1>1, <1>2, NatInduct
    <2> QED BY <2>1
  <1>4. PICK f \in [0 .. n -> Acc] : Upto(n, f)
    BY <1>3 DEF P
  <1>5. \A i \in 0 .. n : f[i] = IF i = 0 THEN base ELSE step[<<i, f[i - 1]>>]
    <2> SUFFICES ASSUME NEW i \in 0 .. n, i # 0 PROVE f[i] = step[<<i, f[i - 1]>>]
      BY <1>4, Zenon
    <2>1. i \in 1 .. n
      OBVIOUS
    <2> QED BY <2>1, <1>4
  <1>6. f = [i \in 0 .. n |-> f[i]]
    OBVIOUS
  <1>7. Walk(f, n, base, step)
    BY <1>5, <1>6, Zenon DEF Walk
  <1> QED BY <1>7

\* Two walks are the same as far as their steps are.
LEMMA WalksAgree ==
  ASSUME NEW n \in Nat, NEW f, NEW g, f[0] = g[0],
         \A i \in 1 .. n : f[i - 1] = g[i - 1] => f[i] = g[i]
  PROVE  f[n] = g[n]
  <1> DEFINE P == {i \in Nat : i <= n => f[i] = g[i]}
  <1>1. 0 \in P
    OBVIOUS
  <1>2. ASSUME NEW i \in Nat, i \in P PROVE i + 1 \in P
    <2> SUFFICES ASSUME i + 1 <= n PROVE f[i + 1] = g[i + 1]
      OBVIOUS
    <2>1. f[i] = g[i] /\ i + 1 \in 1 .. n /\ (i + 1) - 1 = i
      BY <1>2
    <2> QED BY <2>1
  <1> HIDE DEF P
  <1>3. Nat \subseteq P
    BY <1>1, <1>2, NatInduct
  <1> QED BY <1>3 DEF P

\* A set of places has a first and a last one.
LEMMA LeastIs ==
  ASSUME NEW n \in Nat, NEW I, I \subseteq 1 .. n, I # {}
  PROVE  /\ Min(I) \in I /\ \A i \in I : ~(i < Min(I))
         /\ \A k \in I : (\A i \in I : ~(i < k)) => Min(I) = k
  <1>1. \A i \in I : i \in Nat /\ i > 0
    OBVIOUS
  <1>2. PICK k \in I : \A m \in I : ~(<<m, k>> \in OpToRel(<, Nat))
    <2>1. I \subseteq Nat
      BY <1>1
    <2> QED BY <2>1, NatLessThanWellFounded, WFMin
  <1>3. ASSUME NEW m \in I PROVE k <= m
    <2>1. m \in Nat /\ k \in Nat
      BY <1>1
    <2>2. <<m, k>> \in OpToRel(<, Nat) <=> m < k
      BY <2>1 DEF OpToRel
    <2>3. ~(<<m, k>> \in OpToRel(<, Nat))
      BY <1>2
    <2>4. ~(m < k)
      BY <2>2, <2>3, Zenon
    <2> QED BY <2>1, <2>4
  <1>4. Min(I) \in I /\ \A m \in I : Min(I) <= m
    BY <1>3 DEF Min
  <1> DEFINE a == Min(I)
  <1> HIDE DEF a
  <1>5. a \in I /\ a \in Nat /\ a > 0 /\ \A m \in I : a <= m
    BY <1>1, <1>4 DEF a
  <1>6. ASSUME NEW l \in I, \A i \in I : ~(i < l) PROVE a = l
    <2>1. l \in Nat /\ l > 0 /\ a <= l /\ ~(a < l)
      BY <1>1, <1>5, <1>6
    <2> QED BY <2>1, <1>5
  <1>7. \A i \in I : ~(i < a)
    BY <1>1, <1>5
  <1> QED BY <1>5, <1>6, <1>7 DEF a

LEMMA GreatestIs ==
  ASSUME NEW n \in Nat, NEW I, I \subseteq 1 .. n, I # {}
  PROVE  /\ Max(I) \in I /\ \A i \in I : ~(i > Max(I))
         /\ \A k \in I : (\A i \in I : ~(i > k)) => Max(I) = k
  <1>1. \A i \in I : i \in 1 .. n
    OBVIOUS
  <1> DEFINE J == {j \in 1 .. n : (n + 1) - j \in I}
  <1>2. PICK some \in I : TRUE
    OBVIOUS
  <1>3. (n + 1) - some \in J
    BY <1>1
  <1>4. \A j \in J : j \in 1 .. n /\ (n + 1) - j \in I
    OBVIOUS
  <1>5. \A k \in I : (n + 1) - k \in J
    BY <1>1
  <1> HIDE DEF J
  <1>6. Min(J) \in J /\ \A j \in J : ~(j < Min(J))
    BY <1>3, <1>4, LeastIs
  <1> DEFINE g == (n + 1) - Min(J)
  <1>7. g \in I /\ g \in 1 .. n /\ Min(J) = (n + 1) - g
    BY <1>4, <1>6
  <1> HIDE DEF g
  <1>8. ASSUME NEW k \in I PROVE g >= k
    <2>1. k \in 1 .. n /\ (n + 1) - k \in J
      BY <1>1, <1>5
    <2>2. ~((n + 1) - k < (n + 1) - g)
      BY <2>1, <1>6, <1>7
    <2> QED BY <2>1, <2>2, <1>7
  <1>9. Max(I) \in I /\ \A k \in I : Max(I) >= k
    BY <1>7, <1>8 DEF Max
  <1> DEFINE a == Max(I)
  <1> HIDE DEF a
  <1>10. a \in I /\ a \in 1 .. n /\ \A m \in I : a >= m
    BY <1>1, <1>9 DEF a
  <1>11. \A i \in I : ~(i > a)
    BY <1>1, <1>10
  <1>12. ASSUME NEW l \in I, \A i \in I : ~(i > l) PROVE a = l
    <2>1. l \in 1 .. n /\ a >= l /\ ~(a > l)
      BY <1>1, <1>10, <1>12
    <2> QED BY <2>1, <1>10
  <1> QED BY <1>10, <1>11, <1>12 DEF a

\* Where a search from the front, and one from the back, stops.
LEMMA FirstPlace ==
  ASSUME NEW n \in Nat, NEW I, I \subseteq 1 .. n, NEW at, at = IF I # {} THEN Min(I) ELSE 0
  PROVE  /\ at \in 0 .. n /\ (at = 0 <=> I = {}) /\ (at # 0 => at \in I)
         /\ \A i \in I : ~(i < at)
         /\ \A k \in I : (\A i \in I : ~(i < k)) => at = k
  <1>1. CASE I = {}
    BY <1>1
  <1>2. CASE I # {}
    <2>1. at = Min(I)
      BY <1>2
    <2>2. /\ at \in I /\ \A i \in I : ~(i < at)
          /\ \A k \in I : (\A i \in I : ~(i < k)) => at = k
      <3>1. /\ Min(I) \in I /\ \A i \in I : ~(i < Min(I))
            /\ \A k \in I : (\A i \in I : ~(i < k)) => Min(I) = k
        BY <1>2, LeastIs, Zenon
      <3> QED BY <2>1, <3>1, Zenon
    <2>3. at \in 1 .. n
      BY <2>2
    <2> QED BY <2>2, <2>3, <1>2
  <1> QED BY <1>1, <1>2

LEMMA LastPlace ==
  ASSUME NEW n \in Nat, NEW I, I \subseteq 1 .. n, NEW at, at = IF I # {} THEN Max(I) ELSE 0
  PROVE  /\ at \in 0 .. n /\ (at = 0 <=> I = {}) /\ (at # 0 => at \in I)
         /\ \A i \in I : ~(i > at)
         /\ \A k \in I : (\A i \in I : ~(i > k)) => at = k
  <1>1. CASE I = {}
    BY <1>1
  <1>2. CASE I # {}
    <2>1. at = Max(I)
      BY <1>2
    <2>2. /\ at \in I /\ \A i \in I : ~(i > at)
          /\ \A k \in I : (\A i \in I : ~(i > k)) => at = k
      <3>1. /\ Max(I) \in I /\ \A i \in I : ~(i > Max(I))
            /\ \A k \in I : (\A i \in I : ~(i > k)) => Max(I) = k
        BY <1>2, GreatestIs, Zenon
      <3> QED BY <2>1, <3>1, Zenon
    <2>3. at \in 1 .. n
      BY <2>2
    <2> QED BY <2>2, <2>3, <1>2
  <1> QED BY <1>1, <1>2

-----------------------------------------------------------------------------
(* What is picked.                                                         *)

PickStep(S, s, K) ==
  [x \in (1 .. Len(s)) \X Seq(S) |-> IF s[x[1]] \in K THEN Append(x[2], s[x[1]]) ELSE x[2]]

LEMMA PickStepIs ==
  ASSUME NEW S, NEW s \in Seq(S), NEW K, NEW i \in 1 .. Len(s), NEW a \in Seq(S)
  PROVE  /\ PickStep(S, s, K)[<<i, a>>] = IF s[i] \in K THEN Append(a, s[i]) ELSE a
         /\ s[i] \in K => PickStep(S, s, K)[<<i, a>>] = Append(a, s[i])
         /\ s[i] \notin K => PickStep(S, s, K)[<<i, a>>] = a
         /\ PickStep(S, s, K)[<<i, a>>] \in Seq(S)
  <1>1. s[i] \in S
    OBVIOUS
  <1>2. Append(a, s[i]) \in Seq(S)
    BY <1>1
  <1>3. PickStep(S, s, K)[<<i, a>>] = IF s[i] \in K THEN Append(a, s[i]) ELSE a
    BY DEF PickStep
  <1> QED BY <1>2, <1>3

LEMMA PickedIs ==
  ASSUME NEW S, NEW s \in Seq(S), NEW K
  PROVE  \E f : Walk(f, Len(s), <<>>, PickStep(S, s, K)) /\ Picked(s, K) = f[Len(s)]
  <1> DEFINE step == PickStep(S, s, K)
             n == Len(s)
  <1>1. <<>> \in Seq(S) /\ n \in Nat
    OBVIOUS
  <1>2. \A i \in 1 .. n, a \in Seq(S) : step[<<i, a>>] \in Seq(S)
    BY PickStepIs
  <1>a. ASSUME NEW i \in 1 .. n, NEW a \in Seq(S)
        PROVE  step[<<i, a>>] = IF s[i] \in K THEN Append(a, s[i]) ELSE a
    <2>1. PickStep(S, s, K)[<<i, a>>] = IF s[i] \in K THEN Append(a, s[i]) ELSE a
      BY PickStepIs
    <2> QED BY <2>1, Zenon
  <1> HIDE DEF step
  <1> DEFINE IsWalk(f) == f = [i \in 0 .. n |-> IF i = 0 THEN <<>>
                             ELSE IF s[i] \in K THEN Append(f[i - 1], s[i]) ELSE f[i - 1]]
  <1>3. ASSUME NEW f, \A i \in 0 .. n : f[i] \in Seq(S)
        PROVE  Walk(f, n, <<>>, step) <=> IsWalk(f)
    <2>1. ASSUME NEW i \in 0 .. n
          PROVE  (IF i = 0 THEN <<>> ELSE step[<<i, f[i - 1]>>])
                   = IF i = 0 THEN <<>> ELSE IF s[i] \in K THEN Append(f[i - 1], s[i]) ELSE f[i - 1]
      <3> SUFFICES ASSUME i # 0
                   PROVE  step[<<i, f[i - 1]>>] = IF s[i] \in K THEN Append(f[i - 1], s[i]) ELSE f[i - 1]
        BY Zenon
      <3>1. i \in 1 .. n /\ i - 1 \in 0 .. n
        OBVIOUS
      <3>2. f[i - 1] \in Seq(S)
        BY <3>1, <1>3
      <3> QED BY <3>1, <3>2, <1>a, Zenon
    <2> QED BY <2>1, Zenon DEF Walk
  <1>4. PICK g : Walk(g, n, <<>>, step)
    BY <1>1, <1>2, WalkExists
  <1>5. \A i \in 0 .. n : g[i] \in Seq(S)
    BY <1>1, <1>2, <1>4, WalkStays
  <1>6. IsWalk(g)
    BY <1>3, <1>4, <1>5
  <1>7. PICK f : IsWalk(f) /\ Picked(s, K) = f[n]
    BY <1>6, Zenon DEF Picked
  <1>8. \A i \in 0 .. n : f[i] \in Seq(S)
    <2>1. \A i \in 0 .. n : f[i] = IF i = 0 THEN <<>>
                             ELSE IF s[i] \in K THEN Append(f[i - 1], s[i]) ELSE f[i - 1]
      BY <1>7, Zenon
    <2> HIDE DEF IsWalk
    <2> DEFINE P == {i \in Nat : i <= n => f[i] \in Seq(S)}
    <2>2. 0 \in P
      <3>1. 0 \in 0 .. n
        BY <1>1
      <3>2. f[0] = <<>>
        BY <2>1, <3>1, Zenon
      <3> QED BY <3>2, <1>1
    <2>3. ASSUME NEW i \in Nat, i \in P PROVE i + 1 \in P
      <3> SUFFICES ASSUME i + 1 <= n PROVE f[i + 1] \in Seq(S)
        OBVIOUS
      <3>1. f[i] \in Seq(S) /\ i + 1 \in 1 .. n /\ i + 1 \in 0 .. n /\ i + 1 # 0 /\ (i + 1) - 1 = i
        BY <2>3, <1>1
      <3>2. f[i + 1] = IF s[i + 1] \in K THEN Append(f[i], s[i + 1]) ELSE f[i]
        BY <2>1, <3>1
      <3>3. s[i + 1] \in S
        BY <3>1
      <3> QED BY <3>1, <3>2, <3>3
    <2> HIDE DEF P
    <2>4. Nat \subseteq P
      BY <2>2, <2>3, NatInduct
    <2> QED BY <2>4, <1>1 DEF P
  <1>9. Walk(f, n, <<>>, step)
    BY <1>3, <1>7, <1>8
  <1> QED BY <1>7, <1>9 DEF step

\* How Picked goes on.
LEMMA PickedEmpty == ASSUME NEW K PROVE Picked(<<>>, K) = <<>>
  <1>1. <<>> \in Seq({}) /\ Len(<<>>) = 0
    OBVIOUS
  <1>2. PICK f : Walk(f, 0, <<>>, PickStep({}, <<>>, K)) /\ Picked(<<>>, K) = f[0]
    BY <1>1, PickedIs
  <1>3. f[0] = <<>>
    BY <1>2, WalkSteps
  <1> QED BY <1>2, <1>3

LEMMA PickedAppend ==
  ASSUME NEW S, NEW s \in Seq(S), NEW x \in S, NEW K
  PROVE  /\ Picked(s, K) \in Seq(S)
         /\ x \in K => Picked(Append(s, x), K) = Append(Picked(s, K), x)
         /\ x \notin K => Picked(Append(s, x), K) = Picked(s, K)
  <1> DEFINE t == Append(s, x)
             n == Len(s)
             m == Len(t)
  <1>1. t \in Seq(S) /\ n \in Nat /\ m = n + 1 /\ t[m] = x /\ \A i \in 1 .. n : t[i] = s[i]
    OBVIOUS
  <1> HIDE DEF t
  <1>2. PICK f : Walk(f, n, <<>>, PickStep(S, s, K)) /\ Picked(s, K) = f[n]
    BY PickedIs
  <1>3. PICK g : Walk(g, m, <<>>, PickStep(S, t, K)) /\ Picked(t, K) = g[m]
    BY <1>1, PickedIs
  <1>4. <<>> \in Seq(S)
    OBVIOUS
  <1>5. ASSUME NEW i \in 1 .. n, NEW a \in Seq(S)
        PROVE  PickStep(S, s, K)[<<i, a>>] \in Seq(S) /\ PickStep(S, t, K)[<<i, a>>] = PickStep(S, s, K)[<<i, a>>]
    <2>1. i \in 1 .. m /\ t[i] = s[i]
      BY <1>1
    <2>2. /\ PickStep(S, s, K)[<<i, a>>] \in Seq(S)
          /\ s[i] \in K => PickStep(S, s, K)[<<i, a>>] = Append(a, s[i])
          /\ s[i] \notin K => PickStep(S, s, K)[<<i, a>>] = a
      BY PickStepIs
    <2>3. /\ t[i] \in K => PickStep(S, t, K)[<<i, a>>] = Append(a, t[i])
          /\ t[i] \notin K => PickStep(S, t, K)[<<i, a>>] = a
      <3>1. t \in Seq(S) /\ i \in 1 .. Len(t)
        BY <2>1, <1>1
      <3> HIDE DEF m, n
      <3> QED BY <3>1, PickStepIs
    <2> QED BY <2>1, <2>2, <2>3, Zenon
  <1>0. m \in Nat
    BY <1>1
  <1>6. \A i \in 0 .. n : f[i] \in Seq(S)
    <2>1. \A i \in 1 .. n, a \in Seq(S) : PickStep(S, s, K)[<<i, a>>] \in Seq(S)
      BY <1>5
    <2> QED BY <2>1, <1>1, <1>2, <1>4, WalkStays
  <1>7. f[n] = g[n]
    <2> HIDE DEF n, m
    <2>1. f[0] = g[0]
      BY <1>1, <1>2, <1>3, <1>0, WalkSteps
    <2>2. ASSUME NEW i \in 1 .. n, f[i - 1] = g[i - 1] PROVE f[i] = g[i]
      <3>1. i \in 1 .. m /\ i - 1 \in 0 .. n
        BY <1>1
      <3>2. f[i] = PickStep(S, s, K)[<<i, f[i - 1]>>]
        BY <1>1, <1>2, WalkSteps
      <3>3. g[i] = PickStep(S, t, K)[<<i, g[i - 1]>>]
        BY <3>1, <1>3, <1>0, WalkSteps
      <3>4. f[i - 1] \in Seq(S)
        BY <3>1, <1>6
      <3>5. PickStep(S, t, K)[<<i, f[i - 1]>>] = PickStep(S, s, K)[<<i, f[i - 1]>>]
        BY <3>4, <1>5
      <3> QED BY <2>2, <3>2, <3>3, <3>5, Zenon
    <2> QED BY <1>1, <2>1, <2>2, WalksAgree
  <1>8. g[m] = PickStep(S, t, K)[<<m, g[n]>>]
    <2>1. m \in 1 .. m /\ m - 1 = n /\ m \in Nat
      BY <1>1
    <2> QED BY <2>1, <1>3, WalkSteps
  <1>9. g[m] = IF x \in K THEN Append(f[n], x) ELSE f[n]
    <2>1. m \in 1 .. m
      BY <1>1
    <2>2. f[n] \in Seq(S)
      BY <1>1, <1>6
    <2>3. PickStep(S, t, K)[<<m, f[n]>>] = IF t[m] \in K THEN Append(f[n], t[m]) ELSE f[n]
      BY <2>1, <2>2, <1>1, PickStepIs
    <2>4. t[m] = x
      BY <1>1
    <2> QED BY <2>3, <2>4, <1>7, <1>8, Zenon
  <1> QED BY <1>2, <1>3, <1>6, <1>9 DEF t

\* What is picked is a subsequence: there are places in s, one behind the other,
\* where it stands, and nothing else of K stands in s.
Places(s, K, e) ==
  /\ e \in [1 .. Len(Picked(s, K)) -> 1 .. Len(s)]
  /\ \A i, j \in 1 .. Len(Picked(s, K)) : i < j => e[i] < e[j]
  /\ \A i \in 1 .. Len(Picked(s, K)) : Picked(s, K)[i] = s[e[i]] /\ s[e[i]] \in K
  /\ \A k \in 1 .. Len(s) : s[k] \in K => \E i \in 1 .. Len(Picked(s, K)) : e[i] = k

LEMMA PickedPlaces ==
  ASSUME NEW S, NEW K, NEW s \in Seq(S)
  PROVE  /\ Picked(s, K) \in Seq(S) /\ Len(Picked(s, K)) <= Len(s)
         /\ \E e : Places(s, K, e)
  <1> DEFINE P == {r \in Seq(S) : /\ Picked(r, K) \in Seq(S) /\ Len(Picked(r, K)) <= Len(r)
                                  /\ \E e : Places(r, K, e)}
  <1>1. <<>> \in P
    <2>1. Picked(<<>>, K) = <<>>
      BY PickedEmpty
    <2>2. Places(<<>>, K, [i \in {} |-> 0])
      BY <2>1 DEF Places
    <2>3. <<>> \in Seq(S) /\ Len(<<>>) <= Len(<<>>)
      OBVIOUS
    <2>4. \E e : Places(<<>>, K, e)
      BY <2>2
    <2>5. Picked(<<>>, K) \in Seq(S) /\ Len(Picked(<<>>, K)) <= Len(<<>>)
      BY <2>1, <2>3
    <2> QED BY <2>3, <2>4, <2>5, Zenon
  <1>2. ASSUME NEW r \in Seq(S), NEW x \in S, r \in P PROVE Append(r, x) \in P
    <2> DEFINE p == Picked(r, K)
               n == Len(r)
               q == Picked(Append(r, x), K)
               t == Append(r, x)
    <2>1. PICK e : Places(r, K, e)
      BY <1>2
    <2>2. p \in Seq(S) /\ Len(p) <= n /\ n \in Nat
      BY <1>2
    <2>3. t \in Seq(S) /\ Len(t) = n + 1 /\ t[n + 1] = x /\ \A i \in 1 .. n : t[i] = r[i]
      OBVIOUS
    <2>4. (x \in K => q = Append(p, x)) /\ (x \notin K => q = p)
      <3>1. x \in K => Picked(Append(r, x), K) = Append(Picked(r, K), x)
        BY PickedAppend
      <3>2. x \notin K => Picked(Append(r, x), K) = Picked(r, K)
        BY PickedAppend
      <3> QED BY <3>1, <3>2, Zenon
    <2>5. /\ e \in [1 .. Len(p) -> 1 .. n]
          /\ \A i, j \in 1 .. Len(p) : i < j => e[i] < e[j]
          /\ \A i \in 1 .. Len(p) : p[i] = r[e[i]] /\ r[e[i]] \in K
          /\ \A k \in 1 .. n : r[k] \in K => \E i \in 1 .. Len(p) : e[i] = k
      BY <2>1 DEF Places
    <2> HIDE DEF p, q, n, t
    <2>a. /\ Append(p, x) \in Seq(S) /\ Len(p) \in Nat /\ Len(Append(p, x)) = Len(p) + 1
          /\ Append(p, x)[Len(p) + 1] = x /\ \A i \in 1 .. Len(p) : Append(p, x)[i] = p[i]
      BY <2>2
    <2>6. q \in Seq(S) /\ Len(q) <= n + 1
      <3>1. CASE x \in K
        <4>1. q = Append(p, x)
          BY <3>1, <2>4, Zenon
        <4>2. q \in Seq(S) /\ Len(q) = Len(p) + 1
          BY <4>1, <2>a, Zenon
        <4> QED BY <4>2, <2>2, <2>a
      <3>2. CASE x \notin K
        <4>1. q = p
          BY <3>2, <2>4, Zenon
        <4> QED BY <4>1, <2>2
      <3> QED BY <3>1, <3>2
    <2>7. CASE x \in K
      <3> DEFINE m == Len(p)
                 d == [i \in 1 .. m + 1 |-> IF i = m + 1 THEN n + 1 ELSE e[i]]
      <3>1. m \in Nat /\ Len(q) = m + 1 /\ q[m + 1] = x /\ \A i \in 1 .. m : q[i] = p[i]
        <4>1. q = Append(p, x)
          BY <2>7, <2>4, Zenon
        <4> QED BY <4>1, <2>a, Zenon
      <3> HIDE DEF m
      <3>2. \A i \in 1 .. m : e[i] \in 1 .. n
        BY <2>5 DEF m
      <3>3. d \in [1 .. m + 1 -> 1 .. n + 1]
        BY <2>2, <3>1, <3>2
      <3>4. d[m + 1] = n + 1 /\ \A i \in 1 .. m : d[i] = e[i]
        BY <3>1
      <3> HIDE DEF d
      <3>5. \A i, j \in 1 .. m + 1 : i < j => d[i] < d[j]
        <4> SUFFICES ASSUME NEW i \in 1 .. m + 1, NEW j \in 1 .. m + 1, i < j PROVE d[i] < d[j]
          OBVIOUS
        <4>1. i \in 1 .. m /\ d[i] = e[i] /\ e[i] \in 1 .. n
          BY <3>1, <3>2, <3>4
        <4>2. CASE j = m + 1
          BY <4>1, <4>2, <3>4, <2>2
        <4>3. CASE j # m + 1
          <5>1. j \in 1 .. m /\ d[j] = e[j]
            BY <4>3, <3>1, <3>4
          <5> QED BY <5>1, <4>1, <2>5 DEF m
        <4> QED BY <4>2, <4>3
      <3>6. \A i \in 1 .. m + 1 : q[i] = t[d[i]] /\ t[d[i]] \in K
        <4> SUFFICES ASSUME NEW i \in 1 .. m + 1 PROVE q[i] = t[d[i]] /\ t[d[i]] \in K
          OBVIOUS
        <4>1. CASE i = m + 1
          BY <4>1, <3>1, <3>4, <2>3, <2>7
        <4>2. CASE i # m + 1
          <5>1. i \in 1 .. m /\ d[i] = e[i] /\ e[i] \in 1 .. n /\ q[i] = p[i]
            BY <4>2, <3>1, <3>2, <3>4
          <5>2. p[i] = r[e[i]] /\ r[e[i]] \in K
            BY <5>1, <2>5 DEF m
          <5>3. t[e[i]] = r[e[i]]
            BY <5>1, <2>3
          <5> QED BY <5>1, <5>2, <5>3
        <4> QED BY <4>1, <4>2
      <3>7. \A k \in 1 .. n + 1 : t[k] \in K => \E i \in 1 .. m + 1 : d[i] = k
        <4> SUFFICES ASSUME NEW k \in 1 .. n + 1, t[k] \in K PROVE \E i \in 1 .. m + 1 : d[i] = k
          OBVIOUS
        <4>1. CASE k = n + 1
          <5>1. m + 1 \in 1 .. m + 1 /\ d[m + 1] = k
            BY <4>1, <3>1, <3>4
          <5> QED BY <5>1
        <4>2. CASE k # n + 1
          <5>1. k \in 1 .. n /\ r[k] \in K
            BY <4>2, <2>2, <2>3
          <5>2. PICK i \in 1 .. m : e[i] = k
            BY <5>1, <2>5 DEF m
          <5>3. i \in 1 .. m + 1 /\ d[i] = k
            BY <5>2, <3>1, <3>4
          <5> QED BY <5>3
        <4> QED BY <4>1, <4>2
      <3>8. Places(t, K, d)
        BY <3>1, <3>3, <3>5, <3>6, <3>7, <2>3 DEF Places, q, t
      <3> QED BY <3>8, <2>3, <2>6 DEF q, t
    <2>8. CASE x \notin K
      <3>1. q = p
        BY <2>8, <2>4
      <3>2. \A i \in 1 .. Len(p) : e[i] \in 1 .. n
        BY <2>5
      <3>3. e \in [1 .. Len(p) -> 1 .. n + 1]
        BY <2>5, <2>2
      <3>4. \A i \in 1 .. Len(p) : p[i] = t[e[i]] /\ t[e[i]] \in K
        BY <2>3, <2>5, <3>2
      <3>5. \A k \in 1 .. n + 1 : t[k] \in K => \E i \in 1 .. Len(p) : e[i] = k
        <4> SUFFICES ASSUME NEW k \in 1 .. n + 1, t[k] \in K PROVE \E i \in 1 .. Len(p) : e[i] = k
          OBVIOUS
        <4>1. k \in 1 .. n /\ r[k] \in K
          BY <2>2, <2>3, <2>8
        <4> QED BY <4>1, <2>5
      <3>6. Places(t, K, e)
        BY <3>1, <3>3, <3>4, <3>5, <2>5, <2>3 DEF Places, q, t
      <3> QED BY <3>6, <2>3, <2>6 DEF q, t
    <2> QED BY <2>7, <2>8
  <1> HIDE DEF P
  <1>3. Seq(S) \subseteq P
    BY <1>1, <1>2, SeqInduct
  <1> QED BY <1>3 DEF P

\* Nothing to leave out, nothing left out.
LEMMA PickedAll ==
  ASSUME NEW S, NEW K, NEW s \in Seq(S), \A i \in 1 .. Len(s) : s[i] \in K
  PROVE  Picked(s, K) = s
  <1> DEFINE P == {r \in Seq(S) : (\A i \in 1 .. Len(r) : r[i] \in K) => Picked(r, K) = r}
  <1>1. <<>> \in P
    BY PickedEmpty
  <1>2. ASSUME NEW r \in Seq(S), NEW x \in S, r \in P PROVE Append(r, x) \in P
    <2> DEFINE t == Append(r, x)
    <2>1. t \in Seq(S) /\ Len(t) = Len(r) + 1 /\ t[Len(t)] = x /\ \A i \in 1 .. Len(r) : t[i] = r[i]
      OBVIOUS
    <2>2. SUFFICES ASSUME \A i \in 1 .. Len(t) : t[i] \in K PROVE Picked(t, K) = t
      BY <2>1
    <2>3. x \in K /\ \A i \in 1 .. Len(r) : r[i] \in K
      BY <2>1, <2>2
    <2>4. Picked(r, K) = r
      BY <2>3, <1>2
    <2>5. Picked(t, K) = Append(Picked(r, K), x)
      BY <2>3, PickedAppend
    <2> QED BY <2>4, <2>5
  <1> HIDE DEF P
  <1>3. Seq(S) \subseteq P
    BY <1>1, <1>2, SeqInduct
  <1> QED BY <1>3 DEF P

-----------------------------------------------------------------------------
(* Pictures.                                                               *)

Kinds == {"meta", "kept", "over", "pad", "alone", "scan", "short", "junk",
          "VP8X", "emptyVP8X", "damaged"}
Pieces == [is : Kinds, flags : SUBSET Flags]
Heads == {"JPEG", "PNG", "GIF", "WEBP", "other"}
Uploads == [head : Heads, declared : {"fits", "short", "long"},
            trailing : BOOLEAN, pieces : Seq(Pieces)]

LEMMA PiecesOfType ==
  ASSUME NEW head
  PROVE  /\ PiecesOf(head) \subseteq Pieces
         /\ head # "WEBP" => \A p \in PiecesOf(head) : p.flags = {}
         /\ \A p \in PiecesOf(head) : /\ p.is # "VP8X" => p.flags = {}
                                      /\ p.flags \in {{}, {"EXIF", "alpha"}, {"XMP"}}
  <1> DEFINE kinds == {"meta", "kept", "over", "pad", "alone", "scan", "short", "junk", "emptyVP8X"}
             more == {Piece("VP8X", f) : f \in {{}, {"EXIF", "alpha"}, {"XMP"}}}
  <1>1. ASSUME NEW p \in Plain(kinds) PROVE p \in Pieces /\ p.is # "VP8X" /\ p.flags = {}
    <2>1. PICK k \in kinds : p = [is |-> k, flags |-> {}]
      BY DEF Plain, Piece
    <2> QED BY <2>1 DEF Pieces, Kinds
  <1>2. ASSUME NEW p \in more
        PROVE  p \in Pieces /\ p.is = "VP8X" /\ p.flags \in {{}, {"EXIF", "alpha"}, {"XMP"}}
    <2>1. PICK f \in {{}, {"EXIF", "alpha"}, {"XMP"}} : p = [is |-> "VP8X", flags |-> f]
      BY DEF Piece
    <2>2. f \subseteq Flags
      BY DEF Flags
    <2> QED BY <2>1, <2>2 DEF Pieces, Kinds
  <1>3. PiecesOf(head) \subseteq Plain(kinds) \cup more
    BY DEF PiecesOf, Plain
  <1>4. head # "WEBP" => PiecesOf(head) \subseteq Plain(kinds)
    BY DEF PiecesOf, Plain
  <1> HIDE DEF kinds, more
  <1> QED BY <1>1, <1>2, <1>3, <1>4

LEMMA KeptIs ==
  ASSUME NEW S, NEW s \in Seq(S)
  PROVE  /\ Kept(s) \in Seq(S) /\ Len(Kept(s)) \in Nat /\ Len(Kept(s)) <= Len(s)
         /\ \A i \in 1 .. Len(Kept(s)) : Kept(s)[i].is # "meta"
         /\ (\A i \in 1 .. Len(s) : s[i].is # "meta") => Kept(s) = s
         /\ \E e \in [1 .. Len(Kept(s)) -> 1 .. Len(s)] :
               /\ \A i, j \in 1 .. Len(Kept(s)) : i < j => e[i] < e[j]
               /\ \A i \in 1 .. Len(Kept(s)) : Kept(s)[i] = s[e[i]]
  <1> DEFINE K == {p \in Range(s) : p.is # "meta"}
  <1>1. Kept(s) = Picked(s, K)
    BY DEF Kept
  <1>2. \A i \in 1 .. Len(s) : s[i].is # "meta" => s[i] \in K
    BY DEF Range
  <1>3. \A p \in K : p.is # "meta"
    OBVIOUS
  <1> HIDE DEF K
  <1>4. Picked(s, K) \in Seq(S) /\ Len(Picked(s, K)) <= Len(s)
    BY PickedPlaces
  <1>5. PICK e : Places(s, K, e)
    BY PickedPlaces
  <1>6. /\ e \in [1 .. Len(Picked(s, K)) -> 1 .. Len(s)]
        /\ \A i, j \in 1 .. Len(Picked(s, K)) : i < j => e[i] < e[j]
        /\ \A i \in 1 .. Len(Picked(s, K)) : Picked(s, K)[i] = s[e[i]] /\ s[e[i]] \in K
    BY <1>5 DEF Places
  <1>7. (\A i \in 1 .. Len(s) : s[i].is # "meta") => Picked(s, K) = s
    BY <1>2, PickedAll
  <1>8. Len(Picked(s, K)) \in Nat
    BY <1>4
  <1>9. \A i \in 1 .. Len(Picked(s, K)) : Picked(s, K)[i].is # "meta"
    BY <1>3, <1>6
  <1>10. \E d \in [1 .. Len(Picked(s, K)) -> 1 .. Len(s)] :
               /\ \A i, j \in 1 .. Len(Picked(s, K)) : i < j => d[i] < d[j]
               /\ \A i \in 1 .. Len(Picked(s, K)) : Picked(s, K)[i] = s[d[i]]
    BY <1>6
  <1> QED BY <1>1, <1>4, <1>7, <1>8, <1>9, <1>10, Zenon

\* Where the walk ends, where the first scan is, where the last VP8X.
LEMMA WalkEndIs ==
  ASSUME NEW s \in Seq(Pieces)
  PROVE  /\ WalkEnd(s) \in 0 .. Len(s)
         /\ WalkEnd(s) = 0 <=> \A i \in 1 .. Len(s) : ~(s[i].is \in {"scan", "short", "over", "junk"})
         /\ WalkEnd(s) # 0 => /\ s[WalkEnd(s)].is \in {"scan", "short", "over", "junk"}
                              /\ \A i \in 1 .. Len(s) : i < WalkEnd(s) => ~(s[i].is \in {"scan", "short", "over", "junk"})
         /\ \A at \in 1 .. Len(s) :
               s[at].is \in {"scan", "short", "over", "junk"} /\ (\A i \in 1 .. Len(s) : i < at => ~(s[i].is \in {"scan", "short", "over", "junk"})) => WalkEnd(s) = at
  <1> DEFINE I == {i \in 1 .. Len(s) : s[i].is \in {"scan", "short", "over", "junk"}}
             a == WalkEnd(s)
  <1>1. a = IF I # {} THEN Min(I) ELSE 0
    BY Zenon DEF WalkEnd, SelectInSeq
  <1>2. \A i : i \in I <=> i \in 1 .. Len(s) /\ s[i].is \in {"scan", "short", "over", "junk"}
    BY Zenon
  <1>3. Len(s) \in Nat
    OBVIOUS
  <1> HIDE DEF I, a
  <1>4. /\ a \in 0 .. Len(s) /\ (a = 0 <=> I = {}) /\ (a # 0 => a \in I)
        /\ \A i \in I : ~(i < a)
        /\ \A k \in I : (\A i \in I : ~(i < k)) => a = k
    <2>1. I \subseteq 1 .. Len(s)
      BY <1>2, Zenon DEF I
    <2> QED BY <2>1, <1>1, <1>3, FirstPlace
  <1>5. a = 0 <=> \A i \in 1 .. Len(s) : ~(s[i].is \in {"scan", "short", "over", "junk"})
    BY <1>2, <1>4
  <1>6. ASSUME a # 0
        PROVE  s[a].is \in {"scan", "short", "over", "junk"} /\ \A i \in 1 .. Len(s) : i < a => ~(s[i].is \in {"scan", "short", "over", "junk"})
    BY <1>2, <1>4, <1>6
  <1>7. ASSUME NEW at \in 1 .. Len(s), s[at].is \in {"scan", "short", "over", "junk"}, \A i \in 1 .. Len(s) : i < at => ~(s[i].is \in {"scan", "short", "over", "junk"})
        PROVE  a = at
    <2>1. at \in I /\ \A i \in I : ~(i < at)
      BY <1>2, <1>7
    <2> QED BY <2>1, <1>4
  <1> QED BY <1>4, <1>5, <1>6, <1>7 DEF a

LEMMA FirstScanIs ==
  ASSUME NEW s \in Seq(Pieces)
  PROVE  /\ FirstScan(s) \in 0 .. Len(s)
         /\ FirstScan(s) = 0 <=> \A i \in 1 .. Len(s) : ~(s[i].is = "scan")
         /\ FirstScan(s) # 0 => /\ s[FirstScan(s)].is = "scan"
                                /\ \A i \in 1 .. Len(s) : i < FirstScan(s) => ~(s[i].is = "scan")
         /\ \A at \in 1 .. Len(s) :
               s[at].is = "scan" /\ (\A i \in 1 .. Len(s) : i < at => ~(s[i].is = "scan")) => FirstScan(s) = at
  <1> DEFINE I == {i \in 1 .. Len(s) : s[i].is = "scan"}
             a == FirstScan(s)
  <1>1. a = IF I # {} THEN Min(I) ELSE 0
    BY Zenon DEF FirstScan, SelectInSeq
  <1>2. \A i : i \in I <=> i \in 1 .. Len(s) /\ s[i].is = "scan"
    BY Zenon
  <1>3. Len(s) \in Nat
    OBVIOUS
  <1> HIDE DEF I, a
  <1>4. /\ a \in 0 .. Len(s) /\ (a = 0 <=> I = {}) /\ (a # 0 => a \in I)
        /\ \A i \in I : ~(i < a)
        /\ \A k \in I : (\A i \in I : ~(i < k)) => a = k
    <2>1. I \subseteq 1 .. Len(s)
      BY <1>2, Zenon DEF I
    <2> QED BY <2>1, <1>1, <1>3, FirstPlace
  <1>5. a = 0 <=> \A i \in 1 .. Len(s) : ~(s[i].is = "scan")
    BY <1>2, <1>4
  <1>6. ASSUME a # 0
        PROVE  s[a].is = "scan" /\ \A i \in 1 .. Len(s) : i < a => ~(s[i].is = "scan")
    BY <1>2, <1>4, <1>6
  <1>7. ASSUME NEW at \in 1 .. Len(s), s[at].is = "scan", \A i \in 1 .. Len(s) : i < at => ~(s[i].is = "scan")
        PROVE  a = at
    <2>1. at \in I /\ \A i \in I : ~(i < at)
      BY <1>2, <1>7
    <2> QED BY <2>1, <1>4
  <1> QED BY <1>4, <1>5, <1>6, <1>7 DEF a

Announcing == {"VP8X", "emptyVP8X"}

LEMMA LastVP8XIs ==
  ASSUME NEW s \in Seq(Pieces)
  PROVE  /\ LastVP8X(s) \in 0 .. Len(s)
         /\ LastVP8X(s) = 0 <=> \A i \in 1 .. Len(s) : ~(s[i].is \in Announcing)
         /\ LastVP8X(s) # 0 => /\ s[LastVP8X(s)].is \in Announcing
                               /\ \A i \in 1 .. Len(s) : i > LastVP8X(s) => ~(s[i].is \in Announcing)
         /\ \A at \in 1 .. Len(s) :
               s[at].is \in Announcing /\ (\A i \in 1 .. Len(s) : i > at => ~(s[i].is \in Announcing)) => LastVP8X(s) = at
  <1> DEFINE I == {i \in 1 .. Len(s) : s[i].is \in Announcing}
             a == LastVP8X(s)
  <1>1. a = IF I # {} THEN Max(I) ELSE 0
    BY Zenon DEF LastVP8X, SelectLastInSeq, Announcing
  <1>2. \A i : i \in I <=> i \in 1 .. Len(s) /\ s[i].is \in Announcing
    BY Zenon
  <1>3. Len(s) \in Nat
    OBVIOUS
  <1> HIDE DEF I, a
  <1>4. /\ a \in 0 .. Len(s) /\ (a = 0 <=> I = {}) /\ (a # 0 => a \in I)
        /\ \A i \in I : ~(i > a)
        /\ \A k \in I : (\A i \in I : ~(i > k)) => a = k
    <2>1. I \subseteq 1 .. Len(s)
      BY <1>2, Zenon DEF I
    <2> DEFINE n == Len(s)
    <2> HIDE DEF n
    <2>2. n \in Nat /\ I \subseteq 1 .. n
      BY <2>1, <1>3 DEF n
    <2>3. a \in 0 .. n /\ (a = 0 <=> I = {}) /\ (a # 0 => a \in I)
      BY <2>2, <1>1, LastPlace
    <2>4. \A i \in I : ~(i > a)
      BY <2>2, <1>1, LastPlace
    <2>5. ASSUME NEW k \in I, \A i \in I : ~(i > k) PROVE a = k
      <3>1. a \in I /\ ~(a > k) /\ ~(k > a)
        BY <2>3, <2>4, <2>5
      <3>2. k \in 1 .. n /\ a \in 1 .. n
        BY <3>1, <2>2
      <3> QED BY <3>1, <3>2
    <2> QED BY <2>3, <2>4, <2>5 DEF n
  <1>5. a = 0 <=> \A i \in 1 .. Len(s) : ~(s[i].is \in Announcing)
    BY <1>2, <1>4
  <1>6. ASSUME a # 0
        PROVE  s[a].is \in Announcing /\ \A i \in 1 .. Len(s) : i > a => ~(s[i].is \in Announcing)
    BY <1>2, <1>4, <1>6
  <1>7. ASSUME NEW at \in 1 .. Len(s), s[at].is \in Announcing, \A i \in 1 .. Len(s) : i > at => ~(s[i].is \in Announcing)
        PROVE  a = at
    <2>1. at \in I /\ \A i \in I : ~(i > at)
      BY <1>2, <1>7
    <2> QED BY <2>1, <1>4
  <1> QED BY <1>4, <1>5, <1>6, <1>7 DEF a

-----------------------------------------------------------------------------
(* A picture that could be walked.                                         *)

Bare(s) == [i \in DOMAIN s |-> s[i].is]

LEMMA ConcatIs ==
  ASSUME NEW S, NEW s \in Seq(S), NEW r \in Seq(S)
  PROVE  /\ s \o r \in Seq(S) /\ Len(s) \in Nat /\ Len(r) \in Nat /\ Len(s \o r) = Len(s) + Len(r)
         /\ \A i \in 1 .. Len(s) : (s \o r)[i] = s[i]
         /\ \A i \in 1 .. Len(r) : (s \o r)[Len(s) + i] = r[i]
         /\ \A i \in 1 .. Len(s) + Len(r) : i \in 1 .. Len(s) \/ (i - Len(s) \in 1 .. Len(r) /\ Len(s) + (i - Len(s)) = i)
  OBVIOUS

\* A sequence cut in two, and put together.
LEMMA CutIs ==
  ASSUME NEW S, NEW s \in Seq(S), NEW r \in Seq(S)
  PROVE  SubSeq(s \o r, 1, Len(s)) = s /\ SubSeq(s \o r, Len(s) + 1, Len(s \o r)) = r
  OBVIOUS

LEMMA BareIs ==
  ASSUME NEW s \in Seq(Pieces)
  PROVE  Bare(s) \in Seq(Kinds) /\ Len(Bare(s)) = Len(s) /\ \A i \in 1 .. Len(s) : Bare(s)[i] = s[i].is
  <1>1. ASSUME NEW i \in 1 .. Len(s) PROVE s[i].is \in Kinds
    <2>1. s[i] \in Pieces
      OBVIOUS
    <2> QED BY <2>1 DEF Pieces
  <1>2. DOMAIN s = 1 .. Len(s) /\ Len(s) \in Nat
    OBVIOUS
  <1> QED BY <1>1, <1>2 DEF Bare

LEMMA BareConcat ==
  ASSUME NEW s \in Seq(Pieces), NEW r \in Seq(Pieces)
  PROVE  Bare(s) \o Bare(r) = Bare(s \o r)
  <1> DEFINE a == Bare(s)
             b == Bare(r)
             c == Bare(s \o r)
             n == Len(s)
             m == Len(r)
  <1>1. s \o r \in Seq(Pieces)
    BY ConcatIs
  <1>2. a \in Seq(Kinds) /\ Len(a) = n /\ \A i \in 1 .. n : a[i] = s[i].is
    BY BareIs
  <1>3. b \in Seq(Kinds) /\ Len(b) = m /\ \A i \in 1 .. m : b[i] = r[i].is
    BY BareIs
  <1>4. /\ n \in Nat /\ m \in Nat /\ Len(s \o r) = n + m
        /\ \A i \in 1 .. n : (s \o r)[i] = s[i]
        /\ \A i \in 1 .. m : (s \o r)[n + i] = r[i]
    BY ConcatIs
  <1>5. c \in Seq(Kinds) /\ Len(c) = n + m /\ \A i \in 1 .. n + m : c[i] = (s \o r)[i].is
    BY <1>1, <1>4, BareIs
  <1> HIDE DEF a, b, c, n, m
  <1>6. /\ a \o b \in Seq(Kinds) /\ Len(a \o b) = n + m
        /\ \A i \in 1 .. n : (a \o b)[i] = a[i]
        /\ \A i \in 1 .. m : (a \o b)[n + i] = b[i]
        /\ \A i \in 1 .. n + m : i \in 1 .. n \/ (i - n \in 1 .. m /\ n + (i - n) = i)
    <2>1. /\ a \o b \in Seq(Kinds) /\ Len(a \o b) = Len(a) + Len(b)
          /\ \A i \in 1 .. Len(a) : (a \o b)[i] = a[i]
          /\ \A i \in 1 .. Len(b) : (a \o b)[Len(a) + i] = b[i]
      <3>1. a \in Seq(Kinds) /\ b \in Seq(Kinds)
        BY <1>2, <1>3, Zenon
      <3> QED BY <3>1, ConcatIs
    <2>2. Len(a) = n /\ Len(b) = m /\ n \in Nat /\ m \in Nat
      BY <1>2, <1>3, <1>4, Zenon
    <2>3. \A i \in 1 .. n + m : i \in 1 .. n \/ (i - n \in 1 .. m /\ n + (i - n) = i)
      BY <2>2
    <2> QED BY <2>1, <2>2, <2>3, Zenon
  <1>7. ASSUME NEW i \in 1 .. n + m PROVE (a \o b)[i] = c[i]
    <2>1. CASE i \in 1 .. n
      <3>1. (a \o b)[i] = s[i].is
        BY <2>1, <1>2, <1>6
      <3>2. c[i] = s[i].is
        BY <1>4, <1>5, <2>1
      <3> QED BY <3>1, <3>2
    <2>2. CASE i - n \in 1 .. m /\ n + (i - n) = i
      <3> DEFINE j == i - n
      <3>1. j \in 1 .. m /\ i = n + j
        BY <2>2
      <3> HIDE DEF j
      <3>2. (a \o b)[n + j] = r[j].is
        BY <3>1, <1>3, <1>6
      <3>3. (s \o r)[n + j] = r[j] /\ c[i] = (s \o r)[i].is
        BY <3>1, <1>4, <1>5
      <3> QED BY <3>1, <3>2, <3>3
    <2> QED BY <2>1, <2>2, <1>6
  <1>8. a \o b = c
    BY <1>5, <1>6, <1>7
  <1> QED BY <1>8 DEF a, b, c

\* What is said of the stored picture.
Fine(in, out, kind) ==
  /\ Detect(out) = kind
  /\ \A i \in 1 .. Scan(out) - 1 : out.pieces[i].is # "meta"
  /\ StripMetadata(out, kind) = out
  /\ OneVP8X(in) =>
        /\ Bare(Kept(SubSeq(in.pieces, 1, Scan(in) - 1)))
           \o Bare(SubSeq(in.pieces, Scan(in), Len(in.pieces))) = Bare(out.pieces)
        /\ \A i \in DOMAIN out.pieces : out.pieces[i].flags \subseteq {"alpha"}
  /\ Len(out.pieces) <= Len(in.pieces)

\* Behind the kept pieces comes the scan, where the walk ends again.
LEMMA JpegFine ==
  ASSUME NEW data \in Uploads, data.head = "JPEG", \A i \in 1 .. Len(data.pieces) : data.pieces[i].flags = {},
         NEW out \in StripJpeg(data)
  PROVE  Fine(data, out, "JPEG")
  <1> DEFINE p == data.pieces
             at == WalkEnd(p)
             k == Kept(SubSeq(p, 1, at - 1))
             r == SubSeq(p, at, Len(p))
             q == k \o r
             n == Len(k)
             Ends == {"scan", "short", "over", "junk"}
  <1>0. p \in Seq(Pieces) /\ Len(p) \in Nat
    <2>1. p \in Seq(Pieces)
      BY DEF Uploads
    <2> QED BY <2>1
  <1>1. at # 0 /\ p[at].is = "scan" /\ out = [data EXCEPT !.pieces = q]
    BY DEF StripJpeg, None
  <1>2. at \in 1 .. Len(p) /\ \A i \in 1 .. Len(p) : i < at => ~(p[i].is \in Ends)
    BY <1>0, <1>1, WalkEndIs
  <1> HIDE DEF at
  <1> DEFINE h == SubSeq(p, 1, at - 1)
  <1>3. h \in Seq(Pieces) /\ Len(h) = at - 1 /\ \A i \in 1 .. at - 1 : h[i] = p[i]
    BY <1>0, <1>2
  <1>4. r \in Seq(Pieces) /\ Len(r) = Len(p) - at + 1 /\ r[1] = p[at] /\ \A i \in 1 .. Len(r) : r[i] = p[at + i - 1]
    BY <1>0, <1>2
  <1> HIDE DEF h, r
  <1>5. /\ k \in Seq(Pieces) /\ n \in Nat /\ n <= at - 1
        /\ \A i \in 1 .. n : k[i].is # "meta"
        /\ (\A i \in 1 .. n : k[i].is # "meta") => Kept(k) = k
        /\ \A i \in 1 .. n : \E j \in 1 .. at - 1 : k[i] = h[j]
    <2>1. k = Kept(h)
      BY DEF h
    <2> HIDE DEF k
    <2>2. Kept(h) \in Seq(Pieces) /\ Len(Kept(h)) \in Nat /\ Len(Kept(h)) <= Len(h)
      BY <1>3, KeptIs
    <2>3. \A i \in 1 .. Len(Kept(h)) : Kept(h)[i].is # "meta"
      BY <1>3, KeptIs
    <2>4. PICK e \in [1 .. Len(Kept(h)) -> 1 .. Len(h)] :
                 /\ \A i, j \in 1 .. Len(Kept(h)) : i < j => e[i] < e[j]
                 /\ \A i \in 1 .. Len(Kept(h)) : Kept(h)[i] = h[e[i]]
      <3>1. h \in Seq(Pieces)
        BY <1>3
      <3> QED BY <3>1, KeptIs, Zenon
    <2>5. \A i \in 1 .. n : e[i] \in 1 .. at - 1 /\ k[i] = h[e[i]]
      <3> DEFINE w == Kept(h)
      <3>1. n = Len(w) /\ k = w /\ Len(h) = at - 1
        BY <1>3, <2>1
      <3> HIDE DEF w
      <3>2. e \in [1 .. Len(w) -> 1 .. at - 1] /\ \A i \in 1 .. Len(w) : w[i] = h[e[i]]
        BY <2>4, <3>1 DEF w
      <3> HIDE DEF n
      <3> QED BY <3>1, <3>2
    <2>6. k \in Seq(Pieces) /\ ((\A i \in 1 .. Len(k) : k[i].is # "meta") => Kept(k) = k)
      BY <2>1, <2>2, KeptIs
    <2>7. \A i \in 1 .. n : \E j \in 1 .. at - 1 : k[i] = h[j]
      BY <2>5
    <2>8. n \in Nat /\ n <= at - 1
      BY <1>3, <2>1, <2>2
    <2>9. \A i \in 1 .. n : k[i].is # "meta"
      BY <2>1, <2>3
    <2> QED BY <2>6, <2>7, <2>8, <2>9
  <1> HIDE DEF k
  <1>6. Kept(k) = k
    BY <1>5
  <1>7. \A i \in 1 .. n : ~(k[i].is \in Ends) /\ k[i].flags = {}
    <2> SUFFICES ASSUME NEW i \in 1 .. n PROVE ~(k[i].is \in Ends) /\ k[i].flags = {}
      OBVIOUS
    <2>1. PICK j \in 1 .. at - 1 : k[i] = h[j]
      BY <1>5
    <2>2. h[j] = p[j] /\ j \in 1 .. Len(p) /\ j < at
      BY <1>2, <1>3
    <2> QED BY <2>1, <2>2, <1>2
  <1>8. /\ q \in Seq(Pieces) /\ Len(q) = n + Len(r) /\ n + 1 \in 1 .. Len(q) /\ Len(q) \in Nat
        /\ \A i \in 1 .. n : q[i] = k[i]
        /\ q[n + 1] = r[1]
        /\ \A i \in 1 .. Len(r) : q[n + i] = r[i]
        /\ \A i \in 1 .. Len(q) : i \in 1 .. n \/ (i - n \in 1 .. Len(r) /\ n + (i - n) = i)
    <2>1. k \in Seq(Pieces) /\ r \in Seq(Pieces)
      BY <1>4, <1>5
    <2>2. /\ q \in Seq(Pieces) /\ n \in Nat /\ Len(r) \in Nat /\ Len(q) = n + Len(r)
          /\ \A i \in 1 .. n : q[i] = k[i]
          /\ \A i \in 1 .. Len(r) : q[n + i] = r[i]
          /\ \A i \in 1 .. n + Len(r) : i \in 1 .. n \/ (i - n \in 1 .. Len(r) /\ n + (i - n) = i)
      BY <2>1, ConcatIs
    <2> HIDE DEF q, n
    <2>3. 1 \in 1 .. Len(r) /\ n + 1 \in 1 .. n + Len(r)
      BY <1>2, <1>4, <1>0, <2>2
    <2> QED BY <2>2, <2>3
  <1>9. SubSeq(q, 1, n) = k /\ SubSeq(q, n + 1, Len(q)) = r
    BY <1>4, <1>5, CutIs
  <1> HIDE DEF q, n
  <1>10. ASSUME NEW i \in 1 .. Len(q), i < n + 1
         PROVE  i \in 1 .. n /\ ~(q[i].is \in Ends) /\ q[i].is # "meta" /\ q[i].flags = {}
    <2>1. i \in 1 .. n
      BY <1>5, <1>8, <1>10
    <2> QED BY <2>1, <1>5, <1>7, <1>8
  <1>11. q[n + 1].is = "scan"
    BY <1>1, <1>4, <1>8
  <1>12. WalkEnd(q) = n + 1 /\ FirstScan(q) = n + 1
    <2>1. \A i \in 1 .. Len(q) : i < n + 1 => ~(q[i].is \in Ends) /\ ~(q[i].is = "scan")
      BY <1>10
    <2>2. q[n + 1].is \in Ends
      BY <1>11
    <2>3. WalkEnd(q) = n + 1
      BY <2>1, <2>2, <1>8, WalkEndIs
    <2> QED BY <2>1, <2>3, <1>8, <1>11, FirstScanIs
  <1>13. FirstScan(p) = at
    <2>1. \A i \in 1 .. Len(p) : i < at => ~(p[i].is = "scan")
      BY <1>2
    <2> QED BY <2>1, <1>0, <1>1, <1>2, FirstScanIs
  <1>14. out \in Uploads /\ out.pieces = q /\ out.head = "JPEG" /\ [out EXCEPT !.pieces = q] = out
    BY <1>1, <1>8 DEF Uploads
  <1>15. Scan(out) = n + 1 /\ Scan(data) = at
    BY <1>2, <1>5, <1>12, <1>13, <1>14 DEF Scan
  <1>16. Detect(out) = "JPEG"
    <2>1. q # <<>>
      BY <1>8
    <2>2. q[1].is # "junk"
      <3>1. CASE n = 0
        BY <3>1, <1>11
      <3>2. CASE n # 0
        BY <3>2, <1>5, <1>8, <1>10
      <3> QED BY <3>1, <3>2
    <2> QED BY <2>1, <2>2, <1>14 DEF Detect
  <1>17. StripMetadata(out, "JPEG") = out
    <2>1. WalkEnd(out.pieces) # 0 /\ out.pieces[WalkEnd(out.pieces)].is = "scan"
      BY <1>5, <1>11, <1>12, <1>14
    <2>2. Kept(SubSeq(out.pieces, 1, WalkEnd(out.pieces) - 1))
            \o SubSeq(out.pieces, WalkEnd(out.pieces), Len(out.pieces)) = q
      <3>1. (n + 1) - 1 = n
        BY <1>5
      <3> QED BY <3>1, <1>6, <1>9, <1>12, <1>14 DEF q
    <2>3. StripJpeg(out) = {out}
      BY <2>1, <2>2, <1>14, Zenon DEF StripJpeg
    <2> QED BY <2>3 DEF StripMetadata, Strip, None
  <1>18. Bare(Kept(SubSeq(p, 1, Scan(data) - 1))) \o Bare(SubSeq(p, Scan(data), Len(p))) = Bare(out.pieces)
    <2>1. Scan(data) = at /\ out.pieces = q
      BY <1>14, <1>15
    <2>2. Bare(k) \o Bare(r) = Bare(q)
      BY <1>4, <1>5, BareConcat DEF q
    <2> QED BY <2>1, <2>2, Zenon DEF k, r
  <1>19. \A i \in DOMAIN out.pieces : out.pieces[i].flags \subseteq {"alpha"}
    <2> SUFFICES ASSUME NEW i \in 1 .. Len(q) PROVE q[i].flags = {}
      BY <1>8, <1>14
    <2>1. CASE i < n + 1
      BY <2>1, <1>10
    <2>2. CASE ~(i < n + 1)
      <3> DEFINE j == i - n
      <3>1. j \in 1 .. Len(r) /\ n + j = i
        BY <2>2, <1>5, <1>8
      <3> HIDE DEF j
      <3>2. r[j] = p[at + j - 1] /\ q[i] = r[j]
        BY <3>1, <1>4, <1>8
      <3>3. at + j - 1 \in 1 .. Len(p)
        <4>1. Len(p) \in Nat /\ at \in 1 .. Len(p) /\ Len(r) = Len(p) - at + 1
          BY <1>0, <1>2, <1>4
        <4> HIDE DEF p
        <4> QED BY <4>1, <3>1
      <3> QED BY <3>2, <3>3
    <2> QED BY <2>1, <2>2
  <1>20. Len(out.pieces) <= Len(data.pieces)
    <2>1. Len(q) = n + Len(r) /\ Len(r) = Len(p) - at + 1 /\ n \in Nat /\ n <= at - 1
      BY <1>4, <1>5, <1>8
    <2>2. Len(p) \in Nat /\ at \in 1 .. Len(p) /\ out.pieces = q
      BY <1>0, <1>2, <1>14
    <2> HIDE DEF p
    <2>3. Len(q) <= Len(p)
      BY <2>1, <2>2
    <2> QED BY <2>2, <2>3 DEF p
  <1>21. \A i \in 1 .. Scan(out) - 1 : out.pieces[i].is # "meta"
    <2>1. Scan(out) - 1 = n /\ out.pieces = q
      BY <1>5, <1>14, <1>15
    <2>2. ASSUME NEW i \in 1 .. n PROVE q[i].is # "meta"
      BY <1>5, <1>8
    <2> QED BY <2>1, <2>2
  <1> QED BY <1>16, <1>17, <1>18, <1>19, <1>20, <1>21 DEF Fine

LEMMA WholeIs ==
  ASSUME NEW s \in Seq(Pieces)
  PROVE  /\ SubSeq(s, 1, (Len(s) + 1) - 1) = s
         /\ Bare(Kept(SubSeq(s, 1, (Len(s) + 1) - 1))) \o Bare(SubSeq(s, Len(s) + 1, Len(s))) = Bare(Kept(s))
  <1>1. SubSeq(s, 1, (Len(s) + 1) - 1) = s /\ SubSeq(s, Len(s) + 1, Len(s)) = <<>>
    OBVIOUS
  <1>2. Kept(s) \in Seq(Pieces) /\ <<>> \in Seq(Pieces) /\ Kept(s) \o <<>> = Kept(s)
    <2>1. Kept(s) \in Seq(Pieces)
      BY KeptIs
    <2> QED BY <2>1
  <1>3. Bare(Kept(s)) \o Bare(<<>>) = Bare(Kept(s) \o <<>>)
    BY <1>2, BareConcat
  <1> QED BY <1>1, <1>2, <1>3, Zenon

\* No chunk is too long, before and after.
LEMMA PngFine ==
  ASSUME NEW data \in Uploads, data.head = "PNG", \A i \in 1 .. Len(data.pieces) : data.pieces[i].flags = {},
         NEW out \in StripPng(data)
  PROVE  Fine(data, out, "PNG")
  <1> DEFINE p == data.pieces
             k == Kept(p)
  <1>1. p \in Seq(Pieces)
    BY DEF Uploads
  <1>2. out = [data EXCEPT !.pieces = k] /\ \A i \in DOMAIN p : p[i].is # "over"
    BY DEF StripPng, None
  <1> HIDE DEF p
  <1>3. k \in Seq(Pieces) /\ Len(k) <= Len(p)
    BY <1>1, KeptIs
  <1>4. \A i \in 1 .. Len(k) : k[i].is # "meta"
    BY <1>1, KeptIs
  <1>5. PICK e \in [1 .. Len(k) -> 1 .. Len(p)] :
               /\ \A i, j \in 1 .. Len(k) : i < j => e[i] < e[j]
               /\ \A i \in 1 .. Len(k) : k[i] = p[e[i]]
    BY <1>1, KeptIs
  <1> HIDE DEF k
  <1>6. ASSUME NEW i \in 1 .. Len(k) PROVE k[i].is # "over" /\ k[i].flags = {}
    <2>1. e[i] \in 1 .. Len(p) /\ k[i] = p[e[i]]
      BY <1>5
    <2>2. DOMAIN p = 1 .. Len(p)
      BY <1>1
    <2> QED BY <2>1, <2>2, <1>2 DEF p
  <1>7. Kept(k) = k
    BY <1>3, <1>4, KeptIs
  <1>8. out.pieces = k /\ out.head = "PNG" /\ [out EXCEPT !.pieces = k] = out
    BY <1>2, <1>3 DEF Uploads
  <1>9. DOMAIN k = 1 .. Len(k) /\ Len(k) \in Nat
    BY <1>3
  <1>10. StripPng(out) = {out}
    BY <1>6, <1>7, <1>8, <1>9 DEF StripPng
  <1>11. StripMetadata(out, "PNG") = out
    BY <1>10 DEF StripMetadata, Strip, None
  <1>12. Detect(out) = "PNG" /\ Scan(out) = Len(k) + 1 /\ Scan(data) = Len(p) + 1
    BY <1>8 DEF Detect, Scan, p
  <1>13. Bare(Kept(SubSeq(p, 1, Scan(data) - 1))) \o Bare(SubSeq(p, Scan(data), Len(p))) = Bare(out.pieces)
    BY <1>1, <1>8, <1>12, WholeIs DEF k
  <1>14. \A i \in 1 .. Scan(out) - 1 : out.pieces[i].is # "meta"
    BY <1>4, <1>8, <1>9, <1>12
  <1>15. \A i \in DOMAIN out.pieces : out.pieces[i].flags \subseteq {"alpha"}
    BY <1>6, <1>8, <1>9
  <1> QED BY <1>3, <1>8, <1>11, <1>12, <1>13, <1>14, <1>15 DEF Fine, p

LEMMA ClearFlagsCases ==
  ASSUME NEW s, NEW at, at = LastVP8X(s)
  PROVE  /\ at = 0 => ClearFlags(s) = s
         /\ at # 0 /\ s[at].is = "VP8X" => ClearFlags(s) = [s EXCEPT ![at].flags = @ \ {"EXIF", "XMP"}]
         /\ at # 0 /\ s[at].is # "VP8X" /\ at < Len(s) => ClearFlags(s) = [s EXCEPT ![at + 1].is = "damaged"]
         /\ at # 0 /\ s[at].is # "VP8X" /\ ~(at < Len(s)) => ClearFlags(s) = s
  <1>1. CASE at = 0
    BY <1>1 DEF ClearFlags
  <1>2. CASE at # 0 /\ s[at].is = "VP8X"
    BY <1>2 DEF ClearFlags
  <1>3. CASE at # 0 /\ s[at].is # "VP8X" /\ at < Len(s)
    BY <1>3 DEF ClearFlags
  <1>4. CASE at # 0 /\ s[at].is # "VP8X" /\ ~(at < Len(s))
    BY <1>4 DEF ClearFlags
  <1> QED BY <1>1, <1>2, <1>3, <1>4

LEMMA DamagedIsAKind == "damaged" \in Kinds
  BY DEF Kinds

\* A chunk, its place and what is left of it.
LEMMA PieceIs ==
  ASSUME NEW s \in Seq(Pieces), NEW i \in 1 .. Len(s)
  PROVE  /\ s[i] \in Pieces /\ s[i] = [is |-> s[i].is, flags |-> s[i].flags]
         /\ s[i].is \in Kinds /\ s[i].flags \in SUBSET Flags
  <1>1. s[i] \in Pieces
    OBVIOUS
  <1> QED BY <1>1 DEF Pieces

\* One piece of a sequence gets other flags, or is another one.
LEMMA PutFlags ==
  ASSUME NEW s \in Seq(Pieces), NEW at \in 1 .. Len(s), NEW f \in SUBSET Flags
  PROVE  /\ [s EXCEPT ![at].flags = f] \in Seq(Pieces)
         /\ Len([s EXCEPT ![at].flags = f]) = Len(s)
         /\ [s EXCEPT ![at].flags = f][at] = [is |-> s[at].is, flags |-> f]
         /\ \A i \in 1 .. Len(s) : i # at => [s EXCEPT ![at].flags = f][i] = s[i]
         /\ s[at].flags = f => [s EXCEPT ![at].flags = f] = s
  <1> DEFINE n == Len(s)
             x == [is |-> s[at].is, flags |-> f]
  <1>1. s = [i \in 1 .. n |-> s[i]] /\ DOMAIN s = 1 .. n /\ n \in Nat /\ at \in 1 .. n
    OBVIOUS
  <1>2. s[at] = [is |-> s[at].is, flags |-> s[at].flags] /\ s[at].is \in Kinds
    BY PieceIs
  <1>3. [s[at] EXCEPT !.flags = f] = x
    BY <1>2
  <1>4. x \in Pieces
    BY <1>2 DEF Pieces
  <1>5. s[at].flags = f => s[at] = x
    BY <1>2
  <1>6. \A i \in 1 .. n : s[i] \in Pieces
    BY PieceIs
  <1> HIDE DEF n, x
  <1>7. [s EXCEPT ![at].flags = f] = [i \in 1 .. n |-> IF i = at THEN x ELSE s[i]]
    BY <1>1, <1>3
  <1>8. [i \in 1 .. n |-> IF i = at THEN x ELSE s[i]] \in [1 .. n -> Pieces]
    BY <1>1, <1>4, <1>6
  <1>9. s[at].flags = f => [i \in 1 .. n |-> IF i = at THEN x ELSE s[i]] = s
    BY <1>1, <1>5
  <1>10. ASSUME NEW c, c = [i \in 1 .. n |-> IF i = at THEN x ELSE s[i]]
         PROVE  /\ c \in Seq(Pieces) /\ Len(c) = n /\ c[at] = x
                /\ \A i \in 1 .. n : i # at => c[i] = s[i]
    BY <1>1, <1>8, <1>10
  <1> QED BY <1>7, <1>9, <1>10 DEF n, x

LEMMA PutIs ==
  ASSUME NEW s \in Seq(Pieces), NEW at \in 1 .. Len(s), NEW k \in Kinds
  PROVE  /\ [s EXCEPT ![at].is = k] \in Seq(Pieces)
         /\ Len([s EXCEPT ![at].is = k]) = Len(s)
         /\ [s EXCEPT ![at].is = k][at] = [is |-> k, flags |-> s[at].flags]
         /\ \A i \in 1 .. Len(s) : i # at => [s EXCEPT ![at].is = k][i] = s[i]
         /\ s[at].is = k => [s EXCEPT ![at].is = k] = s
  <1> DEFINE n == Len(s)
             x == [is |-> k, flags |-> s[at].flags]
  <1>1. s = [i \in 1 .. n |-> s[i]] /\ DOMAIN s = 1 .. n /\ n \in Nat /\ at \in 1 .. n
    OBVIOUS
  <1>2. s[at] = [is |-> s[at].is, flags |-> s[at].flags] /\ s[at].flags \in SUBSET Flags
    BY PieceIs
  <1>3. [s[at] EXCEPT !.is = k] = x
    BY <1>2
  <1>4. x \in Pieces
    BY <1>2 DEF Pieces
  <1>5. s[at].is = k => s[at] = x
    BY <1>2
  <1>6. \A i \in 1 .. n : s[i] \in Pieces
    BY PieceIs
  <1> HIDE DEF n, x
  <1>7. [s EXCEPT ![at].is = k] = [i \in 1 .. n |-> IF i = at THEN x ELSE s[i]]
    BY <1>1, <1>3
  <1>8. [i \in 1 .. n |-> IF i = at THEN x ELSE s[i]] \in [1 .. n -> Pieces]
    BY <1>1, <1>4, <1>6
  <1>9. s[at].is = k => [i \in 1 .. n |-> IF i = at THEN x ELSE s[i]] = s
    BY <1>1, <1>5
  <1>10. ASSUME NEW c, c = [i \in 1 .. n |-> IF i = at THEN x ELSE s[i]]
         PROVE  /\ c \in Seq(Pieces) /\ Len(c) = n /\ c[at] = x
                /\ \A i \in 1 .. n : i # at => c[i] = s[i]
    BY <1>1, <1>8, <1>10
  <1> QED BY <1>7, <1>9, <1>10 DEF n, x

LEMMA DamagedOnce ==
  ASSUME NEW s \in Seq(Pieces), NEW at \in 1 .. Len(s), s[at].is = "damaged"
  PROVE  [s EXCEPT ![at].is = "damaged"] = s
  BY PutIs, DamagedIsAKind

\* The announcement is still the last one, and says what it says.
LEMMA ClearedVP8X ==
  ASSUME NEW s \in Seq(Pieces), NEW at \in 1 .. Len(s), s[at].is = "VP8X",
         \A i \in 1 .. Len(s) : i > at => ~(s[i].is \in Announcing),
         NEW c \in Seq(Pieces), Len(c) = Len(s),
         NEW f \in SUBSET Flags, f \subseteq {"alpha"},
         c[at] = [is |-> s[at].is, flags |-> f],
         \A i \in 1 .. Len(s) : i # at => c[i] = s[i]
  PROVE  ClearFlags(c) = c /\ LastVP8X(s) = at
  <1>1. LastVP8X(c) = at /\ LastVP8X(s) = at
    <2>1. at \in 1 .. Len(c) /\ c[at].is \in Announcing /\ s[at].is \in Announcing
      BY DEF Announcing
    <2>2. \A i \in 1 .. Len(c) : i > at => ~(c[i].is \in Announcing)
      OBVIOUS
    <2> QED BY <2>1, <2>2, LastVP8XIs
  <1>2. c[at].is = "VP8X" /\ c[at].flags = f /\ at # 0
    OBVIOUS
  <1>3. ClearFlags(c) = [c EXCEPT ![at].flags = c[at].flags \ {"EXIF", "XMP"}]
    BY <1>1, <1>2, ClearFlagsCases, Zenon
  <1>4. c[at].flags \ {"EXIF", "XMP"} = f
    BY <1>2
  <1>5. ClearFlags(c) = [c EXCEPT ![at].flags = f]
    BY <1>3, <1>4, Zenon
  <1>6. [c EXCEPT ![at].flags = f] = c
    BY <1>2, PutFlags
  <1> QED BY <1>1, <1>5, <1>6

LEMMA ClearedEmpty ==
  ASSUME NEW s \in Seq(Pieces), NEW at \in 1 .. Len(s), s[at].is = "emptyVP8X", at < Len(s),
         \A i \in 1 .. Len(s) : i > at => ~(s[i].is \in Announcing),
         NEW c \in Seq(Pieces), Len(c) = Len(s), NEW f,
         c[at + 1] = [is |-> "damaged", flags |-> f],
         \A i \in 1 .. Len(s) : i # at + 1 => c[i] = s[i]
  PROVE  ClearFlags(c) = c
  <1>0. at + 1 \in 1 .. Len(c) /\ at # at + 1 /\ at # 0 /\ at \in 1 .. Len(c) /\ at < Len(c)
    OBVIOUS
  <1>1. c[at].is = "emptyVP8X" /\ c[at + 1].is = "damaged"
    BY <1>0
  <1>2. LastVP8X(c) = at
    <2>1. \A i \in 1 .. Len(c) : i > at => ~(c[i].is \in Announcing)
      <3>1. c[at + 1].is \notin Announcing
        BY <1>1 DEF Announcing
      <3> QED BY <3>1
    <2>2. c[at].is \in Announcing
      BY <1>1 DEF Announcing
    <2> QED BY <2>1, <2>2, <1>0, LastVP8XIs
  <1>3. ClearFlags(c) = [c EXCEPT ![at + 1].is = "damaged"]
    <2>1. at # 0 /\ c[at].is # "VP8X" /\ at < Len(c) /\ at = LastVP8X(c)
      BY <1>0, <1>1, <1>2
    <2> QED BY <2>1, ClearFlagsCases
  <1>4. [c EXCEPT ![at + 1].is = "damaged"] = c
    <2> DEFINE b == at + 1
    <2>1. b \in 1 .. Len(c) /\ c[b].is = "damaged"
      BY <1>0, <1>1, Zenon
    <2> HIDE DEF b
    <2>2. [c EXCEPT ![b].is = "damaged"] = c
      BY <2>1, DamagedOnce, Zenon
    <2> QED BY <2>2 DEF b
  <1> QED BY <1>3, <1>4

\* Clearing the flags leaves every chunk in its place, and does it once.
Cleared(s, c) ==
  /\ c \in Seq(Pieces) /\ Len(c) = Len(s) /\ ClearFlags(c) = c
  /\ \A i \in 1 .. Len(s) : c[i].is \in {s[i].is, "damaged"}
  /\ (\A i \in 1 .. Len(s) : s[i].is # "emptyVP8X") =>
        \A i \in 1 .. Len(s) :
           /\ c[i].is = s[i].is
           /\ i # LastVP8X(s) => c[i].flags = s[i].flags
           /\ i = LastVP8X(s) => c[i].flags \subseteq {"alpha"}

LEMMA ClearFlagsIs ==
  ASSUME NEW s \in Seq(Pieces)
  PROVE  Cleared(s, ClearFlags(s))
  <1> DEFINE at == LastVP8X(s)
  <1>1. /\ at \in 0 .. Len(s) /\ Len(s) \in Nat
        /\ at # 0 => s[at].is \in Announcing /\ \A i \in 1 .. Len(s) : i > at => ~(s[i].is \in Announcing)
    BY LastVP8XIs
  <1> HIDE DEF at
  <1>2. CASE at # 0 /\ s[at].is = "VP8X"
    <2> DEFINE f == s[at].flags \ {"EXIF", "XMP"}
               c == [s EXCEPT ![at].flags = f]
    <2>1. ClearFlags(s) = c
      BY <1>2, ClearFlagsCases, Zenon DEF at
    <2>2. at \in 1 .. Len(s)
      BY <1>1, <1>2
    <2>3. f \in SUBSET Flags /\ f \subseteq {"alpha"}
      <3>1. s[at].flags \in SUBSET Flags
        BY <2>2, PieceIs
      <3> QED BY <3>1 DEF Flags
    <2> HIDE DEF f
    <2>4. /\ c \in Seq(Pieces) /\ Len(c) = Len(s)
          /\ c[at] = [is |-> s[at].is, flags |-> f]
          /\ \A i \in 1 .. Len(s) : i # at => c[i] = s[i]
      BY <2>2, <2>3, PutFlags
    <2> HIDE DEF c
    <2>5. ClearFlags(c) = c
      BY <1>1, <1>2, <2>2, <2>3, <2>4, ClearedVP8X
    <2>6. \A i \in 1 .. Len(s) : /\ c[i].is = s[i].is
                                 /\ i # at => c[i].flags = s[i].flags
                                 /\ i = at => c[i].flags \subseteq {"alpha"}
      <3>1. c[at].is = s[at].is /\ c[at].flags = f
        BY <2>4
      <3> QED BY <3>1, <2>2, <2>3, <2>4
    <2>7. \A i \in 1 .. Len(s) : c[i].is \in {s[i].is, "damaged"}
      BY <2>6
    <2> QED BY <2>1, <2>4, <2>5, <2>6, <2>7, Zenon DEF Cleared, at
  <1>3. CASE at # 0 /\ s[at].is # "VP8X" /\ at < Len(s)
    <2> DEFINE c == [s EXCEPT ![at + 1].is = "damaged"]
    <2>1. ClearFlags(s) = c
      BY <1>3, ClearFlagsCases, Zenon DEF at
    <2>2. at \in 1 .. Len(s) /\ at + 1 \in 1 .. Len(s) /\ s[at].is = "emptyVP8X"
      <3>1. s[at].is = "emptyVP8X"
        BY <1>1, <1>3 DEF Announcing
      <3> QED BY <3>1, <1>1, <1>3
    <2>3. /\ c \in Seq(Pieces) /\ Len(c) = Len(s)
          /\ c[at + 1] = [is |-> "damaged", flags |-> s[at + 1].flags]
          /\ \A i \in 1 .. Len(s) : i # at + 1 => c[i] = s[i]
      <3> DEFINE b == at + 1
      <3>1. b \in 1 .. Len(s) /\ "damaged" \in Kinds
        BY <2>2 DEF Kinds
      <3> HIDE DEF b
      <3>2. /\ [s EXCEPT ![b].is = "damaged"] \in Seq(Pieces) /\ Len([s EXCEPT ![b].is = "damaged"]) = Len(s)
            /\ [s EXCEPT ![b].is = "damaged"][b] = [is |-> "damaged", flags |-> s[b].flags]
            /\ \A i \in 1 .. Len(s) : i # b => [s EXCEPT ![b].is = "damaged"][i] = s[i]
        BY <3>1, PutIs
      <3> QED BY <3>2 DEF b
    <2> HIDE DEF c
    <2>4. ClearFlags(c) = c
      BY <1>1, <1>3, <2>2, <2>3, ClearedEmpty
    <2>5. \A i \in 1 .. Len(s) : c[i].is \in {s[i].is, "damaged"}
      BY <2>2, <2>3
    <2>6. \E i \in 1 .. Len(s) : s[i].is = "emptyVP8X"
      BY <2>2
    <2> QED BY <2>1, <2>3, <2>4, <2>5, <2>6, Zenon DEF Cleared
  <1>4. CASE at = 0
    <2>1. ClearFlags(s) = s
      BY <1>4, ClearFlagsCases, Zenon DEF at
    <2>2. \A i \in 1 .. Len(s) : i # at
      BY <1>1, <1>4
    <2>3. \A i \in 1 .. Len(s) : s[i].is \in {s[i].is, "damaged"}
      OBVIOUS
    <2> QED BY <2>1, <2>2, <2>3, Zenon DEF Cleared, at
  <1>5. CASE at # 0 /\ s[at].is # "VP8X" /\ ~(at < Len(s))
    <2>1. ClearFlags(s) = s
      BY <1>5, ClearFlagsCases, Zenon DEF at
    <2>2. at \in 1 .. Len(s) /\ s[at].is = "emptyVP8X"
      <3>1. s[at].is = "emptyVP8X"
        BY <1>1, <1>5 DEF Announcing
      <3> QED BY <3>1, <1>1, <1>5
    <2>3. \A i \in 1 .. Len(s) : s[i].is \in {s[i].is, "damaged"}
      OBVIOUS
    <2> QED BY <2>1, <2>2, <2>3, Zenon DEF Cleared
  <1> QED BY <1>2, <1>3, <1>4, <1>5

\* Two members of a set with at most one are the same.
LEMMA OnlyOne ==
  ASSUME NEW T, IsFiniteSet(T), Cardinality(T) <= 1, NEW x \in T, NEW y \in T
  PROVE  x = y
  <1> SUFFICES ASSUME x # y PROVE FALSE
    OBVIOUS
  <1>1. {x} \subseteq T /\ y \in T \ {x}
    OBVIOUS
  <1>2. Cardinality({x}) = 1
    BY FS_Singleton
  <1>3. Cardinality({x}) < Cardinality(T)
    <2>1. {x} # T
      BY <1>1
    <2>2. Cardinality({x}) <= Cardinality(T) /\ (Cardinality({x}) = Cardinality(T) => {x} = T)
      BY <1>1, FS_Subset
    <2>3. Cardinality({x}) \in Nat /\ Cardinality(T) \in Nat
      BY <1>2, FS_CardinalityType
    <2> QED BY <2>1, <2>2, <2>3
  <1>4. Cardinality(T) \in Nat
    BY FS_CardinalityType
  <1> QED BY <1>2, <1>3, <1>4

\* Of the chunks that are kept, the last VP8X is the only one with flags.
LEMMA OneWithFlags ==
  ASSUME NEW p \in Seq(Pieces), \A i \in 1 .. Len(p) : p[i].is # "VP8X" => p[i].flags = {},
         Cardinality({i \in 1 .. Len(p) : p[i].is = "VP8X"}) <= 1,
         \A i \in 1 .. Len(p) : p[i].is # "emptyVP8X"
  PROVE  /\ \A i \in 1 .. Len(Kept(p)) : Kept(p)[i].is # "emptyVP8X"
         /\ \A i \in 1 .. Len(Kept(p)) : i # LastVP8X(Kept(p)) => Kept(p)[i].flags = {}
  <1> DEFINE k == Kept(p)
             at == LastVP8X(k)
             T == {i \in 1 .. Len(p) : p[i].is = "VP8X"}
  <1>1. k \in Seq(Pieces) /\ Len(k) \in Nat
    BY KeptIs
  <1>2. PICK e \in [1 .. Len(k) -> 1 .. Len(p)] :
               /\ \A i, j \in 1 .. Len(k) : i < j => e[i] < e[j]
               /\ \A i \in 1 .. Len(k) : k[i] = p[e[i]]
    BY KeptIs
  <1> HIDE DEF k
  <1>3. ASSUME NEW i \in 1 .. Len(k) PROVE e[i] \in 1 .. Len(p) /\ k[i].is # "emptyVP8X"
    BY <1>2
  <1>4. /\ at \in 0 .. Len(k)
        /\ at = 0 => \A i \in 1 .. Len(k) : ~(k[i].is \in Announcing)
        /\ at # 0 => k[at].is \in Announcing
    BY <1>1, LastVP8XIs
  <1> HIDE DEF at
  <1>5. IsFiniteSet(T)
    <2>1. 1 \in Int /\ Len(p) \in Int /\ T \in SUBSET (1 .. Len(p))
      OBVIOUS
    <2>2. IsFiniteSet(1 .. Len(p))
      BY <2>1, FS_Interval
    <2> QED BY <2>1, <2>2, FS_Subset
  <1>6. ASSUME NEW i \in 1 .. Len(k), i # at PROVE k[i].flags = {}
    <2>1. CASE k[i].is # "VP8X"
      BY <2>1, <1>2
    <2>2. CASE k[i].is = "VP8X"
      <3>1. at \in 1 .. Len(k) /\ k[at].is = "VP8X"
        <4>1. k[i].is \in Announcing
          BY <2>2 DEF Announcing
        <4>2. at # 0 /\ at \in 1 .. Len(k) /\ k[at].is \in Announcing
          BY <4>1, <1>1, <1>4
        <4> QED BY <4>2, <1>3 DEF Announcing
      <3>2. e[i] \in T /\ e[at] \in T
        BY <3>1, <2>2, <1>2
      <3> HIDE DEF T
      <3>3. Cardinality(T) <= 1
        BY DEF T
      <3>4. e[i] = e[at]
        BY <3>2, <3>3, <1>5, OnlyOne
      <3>5. i < at \/ at < i
        BY <3>1, <1>6
      <3> QED BY <3>1, <3>4, <3>5, <1>2
    <2> QED BY <2>1, <2>2
  <1> QED BY <1>3, <1>6 DEF k, at

\* What is left can be walked, and is left as it is.
LEMMA WebpFine ==
  ASSUME NEW data \in Uploads, data.head = "WEBP",
         \A i \in 1 .. Len(data.pieces) : data.pieces[i].is # "VP8X" => data.pieces[i].flags = {},
         NEW out \in StripWebp(data)
  PROVE  Fine(data, out, "WEBP")
  <1> DEFINE p == data.pieces
             k == Kept(p)
             c == ClearFlags(k)
  <1>1. p \in Seq(Pieces) /\ Len(p) \in Nat /\ DOMAIN p = 1 .. Len(p)
    <2>1. p \in Seq(Pieces)
      BY DEF Uploads
    <2> HIDE DEF p
    <2> QED BY <2>1
  <1>2. /\ out = [data EXCEPT !.pieces = c, !.trailing = FALSE]
        /\ data.declared = "fits" /\ \A i \in DOMAIN p : p[i].is # "over"
    BY DEF StripWebp, None
  <1>3. out.pieces = c /\ out.head = "WEBP" /\ out.declared = "fits" /\ [out EXCEPT !.pieces = c, !.trailing = FALSE] = out
    <2>1. data = [head |-> data.head, declared |-> data.declared, trailing |-> data.trailing, pieces |-> data.pieces]
      BY DEF Uploads
    <2> HIDE DEF c
    <2> QED BY <1>2, <2>1
  <1> HIDE DEF p
  <1>4. k \in Seq(Pieces) /\ Len(k) \in Nat /\ Len(k) <= Len(p)
    BY <1>1, KeptIs
  <1>5. \A i \in 1 .. Len(k) : k[i].is # "meta"
    BY <1>1, KeptIs
  <1>6. PICK e \in [1 .. Len(k) -> 1 .. Len(p)] :
               /\ \A i, j \in 1 .. Len(k) : i < j => e[i] < e[j]
               /\ \A i \in 1 .. Len(k) : k[i] = p[e[i]]
    BY <1>1, KeptIs
  <1>7. Cleared(k, c)
    BY <1>4, ClearFlagsIs
  <1>8. /\ OneVP8X(data) => \A i \in 1 .. Len(k) : k[i].is # "emptyVP8X"
        /\ OneVP8X(data) => \A i \in 1 .. Len(k) : i # LastVP8X(k) => k[i].flags = {}
    <2>1. ASSUME OneVP8X(data)
          PROVE  /\ Cardinality({i \in 1 .. Len(p) : p[i].is = "VP8X"}) <= 1
                 /\ \A i \in 1 .. Len(p) : p[i].is # "emptyVP8X"
      BY <2>1, <1>1, Zenon DEF OneVP8X, p
    <2>2. \A i \in 1 .. Len(p) : p[i].is # "VP8X" => p[i].flags = {}
      BY Zenon DEF p
    <2> QED BY <2>1, <2>2, <1>1, OneWithFlags
  <1> HIDE DEF k, c
  <1>9. /\ c \in Seq(Pieces) /\ Len(c) = Len(k) /\ DOMAIN c = 1 .. Len(k) /\ ClearFlags(c) = c
        /\ \A i \in 1 .. Len(k) : c[i].is \in {k[i].is, "damaged"}
    <2>1. c \in Seq(Pieces) /\ Len(c) = Len(k) /\ ClearFlags(c) = c
      BY <1>7, Zenon DEF Cleared
    <2>2. \A i \in 1 .. Len(k) : c[i].is \in {k[i].is, "damaged"}
      BY <1>7, Zenon DEF Cleared
    <2>3. DOMAIN c = 1 .. Len(k)
      BY <2>1
    <2> QED BY <2>1, <2>2, <2>3
  <1>10. ASSUME NEW i \in 1 .. Len(k) PROVE c[i].is # "meta" /\ c[i].is # "over"
    <2>1. e[i] \in 1 .. Len(p) /\ k[i] = p[e[i]]
      BY <1>6
    <2>2. k[i].is # "over"
      BY <2>1, <1>1, <1>2
    <2> QED BY <2>2, <1>5, <1>9
  <1>11. Kept(c) = c
    BY <1>9, <1>10, KeptIs
  <1>12. StripWebp(out) = {out}
    <2>1. out.declared = "fits" /\ ~\E i \in DOMAIN out.pieces : out.pieces[i].is = "over"
      BY <1>3, <1>9, <1>10
    <2>2. StripWebp(out) = {[out EXCEPT !.pieces = ClearFlags(Kept(out.pieces)), !.trailing = FALSE]}
      BY <2>1, Zenon DEF StripWebp
    <2> QED BY <2>2, <1>3, <1>9, <1>11
  <1>13. StripMetadata(out, "WEBP") = out
    BY <1>12 DEF StripMetadata, Strip, None
  <1>14. Detect(out) = "WEBP" /\ Scan(out) = Len(c) + 1 /\ Scan(data) = Len(p) + 1
    BY <1>3 DEF Detect, Scan, p
  <1>15. \A i \in 1 .. Scan(out) - 1 : out.pieces[i].is # "meta"
    BY <1>3, <1>4, <1>9, <1>10, <1>14
  <1>16. ASSUME OneVP8X(data)
         PROVE  /\ \A i \in 1 .. Len(k) : c[i].is = k[i].is
                /\ \A i \in 1 .. Len(k) : c[i].flags \subseteq {"alpha"}
    <2>1. \A i \in 1 .. Len(k) : /\ c[i].is = k[i].is
                                 /\ i # LastVP8X(k) => c[i].flags = k[i].flags
                                 /\ i = LastVP8X(k) => c[i].flags \subseteq {"alpha"}
      BY <1>16, <1>7, <1>8, Zenon DEF Cleared
    <2> QED BY <2>1, <1>8, <1>16
  <1>17. ASSUME OneVP8X(data) PROVE Bare(k) = Bare(c)
    BY <1>4, <1>9, <1>16, <1>17 DEF Bare
  <1>18. OneVP8X(data) =>
            Bare(Kept(SubSeq(p, 1, Scan(data) - 1))) \o Bare(SubSeq(p, Scan(data), Len(p))) = Bare(out.pieces)
    <2>1. Bare(Kept(SubSeq(p, 1, Scan(data) - 1))) \o Bare(SubSeq(p, Scan(data), Len(p))) = Bare(k)
      BY <1>1, <1>14, WholeIs DEF k
    <2> QED BY <2>1, <1>3, <1>17
  <1>19. OneVP8X(data) => \A i \in DOMAIN out.pieces : out.pieces[i].flags \subseteq {"alpha"}
    BY <1>3, <1>9, <1>16
  <1>20. Len(out.pieces) <= Len(p)
    BY <1>3, <1>4, <1>9
  <1> QED BY <1>13, <1>14, <1>15, <1>18, <1>19, <1>20, Zenon DEF Fine, p

-----------------------------------------------------------------------------
(* What is stored is what the walk made of what came in, and what comes in *)
(* consists of the pieces its kind has.                                    *)

ComesInPieces ==
  /\ upload \in Uploads
  /\ \A i \in 1 .. Len(upload.pieces) : upload.pieces[i] \in PiecesOf(upload.head)

StoredAsStripped ==
  stored = <<>> \/ (Detect(upload) # "none" /\ stored = <<StripMetadata(upload, Detect(upload))>>)

PicturesInv == ComesInPieces /\ StoredAsStripped

LEMMA PicturesInvInit == PicturesInit => PicturesInv
  <1> SUFFICES ASSUME PicturesInit PROVE PicturesInv
    OBVIOUS
  <1>1. upload.pieces = <<>> /\ upload \in Uploads
    <2>1. /\ upload \in [head : Heads, declared : {"fits", "short", "long"}, trailing : BOOLEAN, pieces : {<<>>}]
          /\ <<>> \in Seq(Pieces)
      BY DEF PicturesInit, Heads
    <2> QED BY <2>1 DEF Uploads
  <1> QED BY <1>1 DEF PicturesInit, PicturesInv, ComesInPieces, StoredAsStripped

LEMMA PicturesInvNext == PicturesInv /\ [PicturesNext]_picturesVars => PicturesInv'
  <1> SUFFICES ASSUME PicturesInv, [PicturesNext]_picturesVars PROVE PicturesInv'
    OBVIOUS
  <1>1. ASSUME NEW piece \in PiecesOf(upload.head), Arrives(piece) PROVE PicturesInv'
    <2>1. piece \in Pieces
      BY PiecesOfType
    <2>2. /\ upload \in Uploads /\ upload.pieces \in Seq(Pieces)
          /\ \A i \in 1 .. Len(upload.pieces) : upload.pieces[i] \in PiecesOf(upload.head)
      BY DEF PicturesInv, ComesInPieces, Uploads
    <2> DEFINE q == Append(upload.pieces, piece)
    <2>3. q \in Seq(Pieces) /\ \A i \in 1 .. Len(q) : q[i] \in PiecesOf(upload.head)
      BY <2>1, <2>2
    <2>4. upload' = [upload EXCEPT !.pieces = q] /\ stored = <<>> /\ stored' = <<>>
      BY <1>1 DEF Arrives
    <2> HIDE DEF q
    <2>5. upload' \in Uploads /\ upload'.head = upload.head /\ upload'.pieces = q
      BY <2>2, <2>3, <2>4 DEF Uploads
    <2> QED BY <2>3, <2>4, <2>5 DEF PicturesInv, ComesInPieces, StoredAsStripped
  <1>2. CASE Store
    BY <1>2 DEF Store, PicturesInv, ComesInPieces, StoredAsStripped
  <1>3. CASE UNCHANGED picturesVars
    BY <1>3 DEF picturesVars, PicturesInv, ComesInPieces, StoredAsStripped
  <1> QED BY <1>1, <1>2, <1>3 DEF PicturesNext

\* What each walk answers is one picture, and all that is said holds of it.
LEMMA WalkedIsFine ==
  ASSUME NEW data \in Uploads, \A i \in 1 .. Len(data.pieces) : data.pieces[i] \in PiecesOf(data.head),
         Detect(data) # "none", Strip(data, Detect(data)) # None
  PROVE  Fine(data, StripMetadata(data, Detect(data)), Detect(data))
  <1> DEFINE kind == Detect(data)
             out == StripMetadata(data, kind)
  <1>1. kind = data.head
    BY DEF Detect
  <1>2. ASSUME NEW i \in 1 .. Len(data.pieces)
        PROVE  /\ data.head # "WEBP" => data.pieces[i].flags = {}
               /\ data.pieces[i].is # "VP8X" => data.pieces[i].flags = {}
    BY PiecesOfType
  <1>3. out \in Strip(data, kind)
    BY DEF StripMetadata, None
  <1> HIDE DEF out, kind
  <1>4. kind \in {"JPEG", "PNG", "WEBP"}
    BY DEF Strip, kind
  <1>5. CASE kind = "JPEG"
    <2>1. out \in StripJpeg(data)
      BY <1>3, <1>5 DEF Strip
    <2> QED BY <2>1, <1>1, <1>2, <1>5, JpegFine DEF out, kind
  <1>6. CASE kind = "PNG"
    <2>1. out \in StripPng(data)
      BY <1>3, <1>6 DEF Strip
    <2> QED BY <2>1, <1>1, <1>2, <1>6, PngFine DEF out, kind
  <1>7. CASE kind = "WEBP"
    <2>1. out \in StripWebp(data)
      BY <1>3, <1>7 DEF Strip
    <2> QED BY <2>1, <1>1, <1>2, <1>7, WebpFine DEF out, kind
  <1> QED BY <1>4, <1>5, <1>6, <1>7

LEMMA PicturesInvMeans == PicturesInv => PicturesLoseOnlyMetadata
  <1> SUFFICES ASSUME PicturesInv, stored # <<>> PROVE PicturesLoseOnlyMetadata
    BY DEF PicturesLoseOnlyMetadata
  <1> DEFINE kind == Detect(upload)
             out == StripMetadata(upload, kind)
  <1>1. kind # "none" /\ stored[1] = out
    BY DEF PicturesInv, StoredAsStripped
  <1>2. upload \in Uploads /\ Len(upload.pieces) \in Nat
    <2>1. upload \in Uploads /\ upload.pieces \in Seq(Pieces)
      BY DEF PicturesInv, ComesInPieces, Uploads
    <2> QED BY <2>1
  <1>3. CASE Walkable
    <2>1. Fine(upload, out, kind)
      BY <1>1, <1>2, <1>3, WalkedIsFine DEF PicturesInv, ComesInPieces, Walkable
    <2> HIDE DEF out, kind
    <2>2. /\ Detect(out) = kind
          /\ \A i \in 1 .. Scan(out) - 1 : out.pieces[i].is # "meta"
          /\ StripMetadata(out, kind) = out
          /\ OneVP8X(upload) =>
                /\ [i \in DOMAIN Kept(SubSeq(upload.pieces, 1, Scan(upload) - 1))
                       |-> Kept(SubSeq(upload.pieces, 1, Scan(upload) - 1))[i].is]
                   \o [i \in DOMAIN SubSeq(upload.pieces, Scan(upload), Len(upload.pieces))
                          |-> SubSeq(upload.pieces, Scan(upload), Len(upload.pieces))[i].is]
                   = [i \in DOMAIN out.pieces |-> out.pieces[i].is]
                /\ \A i \in DOMAIN out.pieces : out.pieces[i].flags \subseteq {"alpha"}
          /\ Len(out.pieces) <= Len(upload.pieces)
      BY <2>1, Zenon DEF Fine, Bare
    <2> QED BY <2>2, <1>1, <1>3, Zenon DEF PicturesLoseOnlyMetadata, kind
  <1>4. CASE ~Walkable
    <2>1. out = upload
      BY <1>4 DEF StripMetadata, Walkable
    <2>2. Len(out.pieces) <= Len(upload.pieces) /\ Detect(out) = kind
      BY <2>1, <1>2
    <2> HIDE DEF out
    <2> QED BY <2>1, <2>2, <1>1, <1>4, Zenon DEF PicturesLoseOnlyMetadata, kind
  <1> QED BY <1>3, <1>4

\* A stored picture has lost what is about its photographer before its pixels
\* begin and nothing else, however many pieces it is made of; one that cannot
\* be walked is what came in (media.rs, strip_metadata).
THEOREM PicturesLoseNothingElse == PicturesSpec => []PicturesLoseOnlyMetadata
  <1>1. PicturesInit => PicturesInv
    BY PicturesInvInit
  <1>2. PicturesInv /\ [PicturesNext]_picturesVars => PicturesInv'
    BY PicturesInvNext
  <1>3. PicturesInv => PicturesLoseOnlyMetadata
    BY PicturesInvMeans
  <1> QED BY <1>1, <1>2, <1>3, PTL DEF PicturesSpec

-----------------------------------------------------------------------------
(* What is put together.                                                   *)

LEMMA ConcatEmpty ==
  ASSUME NEW S, NEW s \in Seq(S)
  PROVE  <<>> \o s = s /\ s \o <<>> = s
  OBVIOUS

\* The sequences put together so far, one after the other.
Joins(ss, f) == f[0] = <<>> /\ \A i \in 1 .. Len(ss) : f[i] = f[i - 1] \o ss[i]

LEMMA JoinsExist ==
  ASSUME NEW S, NEW ss \in Seq(Seq(S))
  PROVE  \E f \in [0 .. Len(ss) -> Seq(S)] : Joins(ss, f)
  <1> DEFINE n == Len(ss)
             step == [x \in (1 .. n) \X Seq(S) |-> x[2] \o ss[x[1]]]
  <1>1. n \in Nat /\ <<>> \in Seq(S)
    OBVIOUS
  <1>2. ASSUME NEW i \in 1 .. n, NEW a \in Seq(S) PROVE step[<<i, a>>] = a \o ss[i] /\ step[<<i, a>>] \in Seq(S)
    <2>1. ss[i] \in Seq(S)
      OBVIOUS
    <2>2. a \o ss[i] \in Seq(S)
      BY <2>1
    <2> QED BY <2>2
  <1> HIDE DEF step
  <1>3. PICK f : Walk(f, n, <<>>, step)
    BY <1>1, <1>2, WalkExists
  <1>4. f[0] = <<>> /\ \A i \in 1 .. n : f[i] = step[<<i, f[i - 1]>>]
    BY <1>1, <1>3, WalkSteps
  <1>5. \A i \in 0 .. n : f[i] \in Seq(S)
    BY <1>1, <1>2, <1>3, WalkStays
  <1>6. \A i \in 1 .. n : f[i] = f[i - 1] \o ss[i]
    <2> SUFFICES ASSUME NEW i \in 1 .. n PROVE f[i] = f[i - 1] \o ss[i]
      OBVIOUS
    <2>1. i - 1 \in 0 .. n
      OBVIOUS
    <2>2. f[i - 1] \in Seq(S)
      BY <2>1, <1>5
    <2> QED BY <2>2, <1>2, <1>4
  <1>7. f \in [0 .. n -> Seq(S)]
    <2>1. f = [i \in 0 .. n |-> f[i]]
      <3>1. DOMAIN f = 0 .. n /\ f = [i \in DOMAIN f |-> f[i]]
        BY <1>3 DEF Walk
      <3> QED BY <3>1
    <2> QED BY <2>1, <1>5
  <1> QED BY <1>4, <1>6, <1>7, Zenon DEF Joins

LEMMA JoinsInSeq ==
  ASSUME NEW S, NEW ss \in Seq(Seq(S)), NEW f, Joins(ss, f)
  PROVE  \A i \in 0 .. Len(ss) : f[i] \in Seq(S)
  <1> DEFINE n == Len(ss)
             P == {i \in Nat : i <= n => f[i] \in Seq(S)}
  <1>1. 0 \in P
    <2>1. f[0] = <<>>
      BY DEF Joins
    <2>2. <<>> \in Seq(S)
      OBVIOUS
    <2>3. f[0] \in Seq(S)
      BY <2>1, <2>2, Zenon
    <2> QED BY <2>3
  <1>2. ASSUME NEW i \in Nat, i \in P PROVE i + 1 \in P
    <2> SUFFICES ASSUME i + 1 <= n PROVE f[i + 1] \in Seq(S)
      OBVIOUS
    <2>1. f[i] \in Seq(S) /\ i + 1 \in 1 .. n /\ (i + 1) - 1 = i
      BY <1>2
    <2>2. f[i + 1] = f[i] \o ss[i + 1]
      BY <2>1 DEF Joins
    <2>3. ss[i + 1] \in Seq(S)
      BY <2>1
    <2> QED BY <2>1, <2>2, <2>3
  <1> HIDE DEF P
  <1>3. Nat \subseteq P
    BY <1>1, <1>2, NatInduct
  <1> QED BY <1>3 DEF P

LEMMA FlatIs ==
  ASSUME NEW S, NEW ss \in Seq(Seq(S))
  PROVE  \E f : Joins(ss, f) /\ FlattenSeq(ss) = f[Len(ss)]
  <1> DEFINE n == Len(ss)
             IsFlat(g) == g = [i \in 1 .. n |-> IF i = 1 THEN ss[i] ELSE g[i - 1] \o ss[i]]
  <1>1. n \in Nat
    OBVIOUS
  <1>2. CASE n = 0
    <2>1. ss = <<>>
      BY <1>2
    <2>2. FlattenSeq(ss) = <<>>
      BY <1>2, <2>1 DEF FlattenSeq
    <2>3. Joins(ss, [i \in 0 .. 0 |-> <<>>])
      BY <1>2 DEF Joins
    <2> QED BY <1>2, <2>2, <2>3
  <1>3. CASE n # 0
    <2>1. PICK f \in [0 .. n -> Seq(S)] : Joins(ss, f)
      BY JoinsExist
    <2>2. f[0] = <<>> /\ \A i \in 1 .. n : f[i] = f[i - 1] \o ss[i]
      BY <2>1 DEF Joins
    <2> DEFINE h == [i \in 1 .. n |-> f[i]]
    <2>3. IsFlat(h)
      <3> SUFFICES ASSUME NEW i \in 1 .. n PROVE h[i] = IF i = 1 THEN ss[i] ELSE h[i - 1] \o ss[i]
        BY Zenon
      <3>1. CASE i = 1
        <4>1. ss[i] \in Seq(S) /\ i - 1 = 0
          BY <3>1
        <4>2. f[i] = f[0] \o ss[i]
          BY <4>1, <2>2
        <4>3. f[i] = ss[i]
          BY <4>1, <4>2, <2>2, ConcatEmpty
        <4> QED BY <3>1, <4>3
      <3>2. CASE i # 1
        <4>1. i - 1 \in 1 .. n
          BY <3>2
        <4> QED BY <4>1, <3>2, <2>2
      <3> QED BY <3>1, <3>2
    <2>4. PICK g : IsFlat(g) /\ FlattenSeq(ss) = g[n]
      BY <2>3, <1>3, Zenon DEF FlattenSeq
    <2>5. \A i \in 1 .. n : g[i] = IF i = 1 THEN ss[i] ELSE g[i - 1] \o ss[i]
      BY <2>4, Zenon
    <2> HIDE DEF IsFlat
    <2> DEFINE k == [i \in 0 .. n |-> IF i = 0 THEN <<>> ELSE g[i]]
    <2>6. ASSUME NEW i \in 1 .. n PROVE k[i] = k[i - 1] \o ss[i]
      <3>1. ss[i] \in Seq(S)
        OBVIOUS
      <3>2. CASE i = 1
        <4>1. k[i] = ss[i] /\ k[i - 1] = <<>>
          BY <3>2, <2>5, <1>3
        <4>2. <<>> \o ss[i] = ss[i]
          BY <3>1, ConcatEmpty
        <4> QED BY <4>1, <4>2, Zenon
      <3>3. CASE i # 1
        <4>1. i - 1 \in 1 .. n /\ i - 1 # 0 /\ i # 0
          BY <3>3
        <4>2. k[i] = g[i] /\ k[i - 1] = g[i - 1]
          BY <4>1
        <4> QED BY <4>2, <3>3, <2>5
      <3> QED BY <3>2, <3>3
    <2>7. Joins(ss, k)
      BY <2>6 DEF Joins
    <2>8. FlattenSeq(ss) = k[n]
      BY <2>4, <1>1, <1>3
    <2> QED BY <2>7, <2>8
  <1> QED BY <1>2, <1>3

LEMMA FlatEmpty == FlattenSeq(<<>>) = <<>>
  BY DEF FlattenSeq

LEMMA FlatAppend ==
  ASSUME NEW S, NEW ss \in Seq(Seq(S)), NEW s \in Seq(S)
  PROVE  /\ FlattenSeq(ss) \in Seq(S)
         /\ FlattenSeq(Append(ss, s)) = FlattenSeq(ss) \o s
  <1> DEFINE n == Len(ss)
             t == Append(ss, s)
  <1>1. /\ n \in Nat /\ t \in Seq(Seq(S)) /\ Len(t) = n + 1 /\ t[n + 1] = s
        /\ \A i \in 1 .. n : t[i] = ss[i]
    OBVIOUS
  <1> HIDE DEF t
  <1>2. PICK f : Joins(ss, f) /\ FlattenSeq(ss) = f[n]
    BY FlatIs
  <1>3. PICK g : Joins(t, g) /\ FlattenSeq(t) = g[n + 1]
    BY <1>1, FlatIs
  <1>4. f[n] \in Seq(S)
    <2>1. n \in 0 .. n
      BY <1>1
    <2> QED BY <2>1, <1>2, JoinsInSeq
  <1>5. f[n] = g[n]
    <2>1. f[0] = g[0]
      BY <1>2, <1>3 DEF Joins
    <2>2. ASSUME NEW i \in 1 .. n, f[i - 1] = g[i - 1] PROVE f[i] = g[i]
      <3>1. f[i] = f[i - 1] \o ss[i]
        BY <1>2 DEF Joins
      <3>2. i \in 1 .. n + 1
        BY <1>1
      <3>3. g[i] = g[i - 1] \o t[i]
        BY <3>2, <1>1, <1>3 DEF Joins
      <3> QED BY <3>1, <3>3, <2>2, <1>1
    <2> HIDE DEF n
    <2> QED BY <1>1, <2>1, <2>2, WalksAgree
  <1>6. g[n + 1] = g[n] \o t[n + 1]
    <2>1. n + 1 \in 1 .. Len(t) /\ (n + 1) - 1 = n
      BY <1>1
    <2> QED BY <2>1, <1>3 DEF Joins
  <1> QED BY <1>1, <1>2, <1>3, <1>4, <1>5, <1>6 DEF t

-----------------------------------------------------------------------------
(* Texts.                                                                  *)

Characters == TextChars \cup SrcChars
PostKinds == {"text", "quoted", "img"}
NodeKinds == PostKinds \cup {"mention"}
Nodes == [is : NodeKinds, chars : Seq(Characters)]

ShownOf(n) == IF n.is = "img" THEN <<>> ELSE n.chars

LEMMA NodeIs ==
  ASSUME NEW n \in Nodes
  PROVE  /\ n.is \in NodeKinds /\ n.chars \in Seq(Characters) /\ n = [is |-> n.is, chars |-> n.chars]
         /\ ShownOf(n) \in Seq(Characters)
  <1>1. n.is \in NodeKinds /\ n.chars \in Seq(Characters) /\ n = [is |-> n.is, chars |-> n.chars]
    BY DEF Nodes
  <1>2. <<>> \in Seq(Characters)
    OBVIOUS
  <1> QED BY <1>1, <1>2, Zenon DEF ShownOf

LEMMA NodeAt ==
  ASSUME NEW s \in Seq(Nodes), NEW i \in 1 .. Len(s)
  PROVE  s[i] \in Nodes
  OBVIOUS

\* What a node says, in its place.
Says(s) == [i \in 1 .. Len(s) |-> ShownOf(s[i])]

LEMMA SaysIs ==
  ASSUME NEW s \in Seq(Nodes)
  PROVE  Says(s) \in Seq(Seq(Characters)) /\ Len(Says(s)) = Len(s) /\ Shown(s) = FlattenSeq(Says(s))
  <1>1. \A i \in 1 .. Len(s) : ShownOf(s[i]) \in Seq(Characters)
    BY NodeAt, NodeIs
  <1>2. Len(s) \in Nat /\ DOMAIN s = 1 .. Len(s)
    OBVIOUS
  <1>3. Says(s) \in Seq(Seq(Characters)) /\ Len(Says(s)) = Len(s)
    BY <1>1, <1>2 DEF Says
  <1>4. Shown(s) = FlattenSeq(Says(s))
    BY <1>2, Zenon DEF Shown, Says, ShownOf
  <1> QED BY <1>3, <1>4

LEMMA ShownEmpty == Shown(<<>>) = <<>>
  <1>1. <<>> \in Seq(Nodes) /\ Len(<<>>) = 0
    OBVIOUS
  <1>2. Says(<<>>) = <<>> /\ Shown(<<>>) = FlattenSeq(Says(<<>>))
    <2>1. Says(<<>>) \in Seq(Seq(Characters)) /\ Len(Says(<<>>)) = 0 /\ Shown(<<>>) = FlattenSeq(Says(<<>>))
      BY <1>1, SaysIs
    <2> QED BY <2>1
  <1> QED BY <1>2, FlatEmpty

LEMMA ShownAppend ==
  ASSUME NEW s \in Seq(Nodes), NEW n \in Nodes
  PROVE  Shown(s) \in Seq(Characters) /\ Shown(Append(s, n)) = Shown(s) \o ShownOf(n)
  <1> DEFINE t == Append(s, n)
             m == Len(s)
  <1>1. t \in Seq(Nodes) /\ m \in Nat /\ Len(t) = m + 1 /\ t[m + 1] = n /\ \A i \in 1 .. m : t[i] = s[i]
    OBVIOUS
  <1> HIDE DEF t
  <1>2. Says(s) \in Seq(Seq(Characters)) /\ Len(Says(s)) = m /\ Shown(s) = FlattenSeq(Says(s))
    BY SaysIs
  <1>3. Says(t) \in Seq(Seq(Characters)) /\ Len(Says(t)) = m + 1 /\ Shown(t) = FlattenSeq(Says(t))
    BY <1>1, SaysIs
  <1>4. ShownOf(n) \in Seq(Characters)
    BY NodeIs
  <1>5. /\ \A i \in 1 .. m : Says(s)[i] = ShownOf(s[i])
        /\ \A i \in 1 .. m + 1 : Says(t)[i] = ShownOf(t[i])
    BY <1>1, Zenon DEF Says
  <1>6. Says(t) = Append(Says(s), ShownOf(n))
    <2> DEFINE a == Says(s)
               b == Says(t)
               x == ShownOf(n)
    <2>1. \A i \in 1 .. m : b[i] = a[i]
      BY <1>1, <1>5
    <2>2. b[m + 1] = x
      BY <1>1, <1>5
    <2> HIDE DEF a, b, x
    <2>3. b = Append(a, x)
      BY <2>1, <2>2, <1>1, <1>2, <1>3, <1>4 DEF a, b, x
    <2> QED BY <2>3 DEF a, b, x
  <1>7. FlattenSeq(Says(s)) \in Seq(Characters) /\ FlattenSeq(Append(Says(s), ShownOf(n))) = FlattenSeq(Says(s)) \o ShownOf(n)
    BY <1>2, <1>4, FlatAppend
  <1> QED BY <1>2, <1>3, <1>6, <1>7, Zenon DEF t

LEMMA ConcatAssoc ==
  ASSUME NEW S, NEW a \in Seq(S), NEW b \in Seq(S), NEW c \in Seq(S)
  PROVE  (a \o b) \o c = a \o (b \o c) /\ a \o b \in Seq(S)
  OBVIOUS

LEMMA ConcatAppend ==
  ASSUME NEW S, NEW a \in Seq(S), NEW b \in Seq(S), NEW x \in S
  PROVE  a \o Append(b, x) = Append(a \o b, x) /\ Append(b, x) \in Seq(S)
  OBVIOUS

LEMMA ShownConcat ==
  ASSUME NEW s \in Seq(Nodes), NEW r \in Seq(Nodes)
  PROVE  Shown(s \o r) = Shown(s) \o Shown(r)
  <1> DEFINE P == {q \in Seq(Nodes) : Shown(s \o q) = Shown(s) \o Shown(q)}
  <1>1. <<>> \in P
    <2>1. <<>> \in Seq(Nodes) /\ s \o <<>> = s
      OBVIOUS
    <2>2. Shown(s) \in Seq(Characters)
      <3>1. FlattenSeq(Says(s)) \in Seq(Characters)
        <4>1. Says(s) \in Seq(Seq(Characters)) /\ <<>> \in Seq(Characters)
          BY SaysIs
        <4> QED BY <4>1, FlatAppend
      <3> QED BY <3>1, SaysIs
    <2>3. Shown(s) \o <<>> = Shown(s)
      BY <2>2, ConcatEmpty
    <2> QED BY <2>1, <2>3, ShownEmpty
  <1>2. ASSUME NEW q \in Seq(Nodes), NEW n \in Nodes, q \in P PROVE Append(q, n) \in P
    <2>1. s \o Append(q, n) = Append(s \o q, n) /\ Append(q, n) \in Seq(Nodes)
      BY ConcatAppend
    <2>2. s \o q \in Seq(Nodes)
      BY ConcatAssoc
    <2>3. Shown(Append(s \o q, n)) = Shown(s \o q) \o ShownOf(n)
      BY <2>2, ShownAppend
    <2>4. Shown(Append(q, n)) = Shown(q) \o ShownOf(n) /\ Shown(q) \in Seq(Characters) /\ Shown(s) \in Seq(Characters)
      BY ShownAppend
    <2>5. ShownOf(n) \in Seq(Characters)
      BY NodeIs
    <2>6. Shown(s \o q) = Shown(s) \o Shown(q)
      BY <1>2
    <2>7. (Shown(s) \o Shown(q)) \o ShownOf(n) = Shown(s) \o (Shown(q) \o ShownOf(n))
      <3> DEFINE a == Shown(s)
                 b == Shown(q)
                 c == ShownOf(n)
      <3>1. a \in Seq(Characters) /\ b \in Seq(Characters) /\ c \in Seq(Characters)
        BY <2>4, <2>5
      <3> HIDE DEF a, b, c
      <3>2. (a \o b) \o c = a \o (b \o c)
        BY <3>1
      <3> QED BY <3>2 DEF a, b, c
    <2>8. Shown(s \o Append(q, n)) = Shown(s) \o Shown(Append(q, n))
      BY <2>1, <2>3, <2>4, <2>6, <2>7, Zenon
    <2> QED BY <2>1, <2>8
  <1> HIDE DEF P
  <1>3. Seq(Nodes) \subseteq P
    BY <1>1, <1>2, SeqInduct
  <1> QED BY <1>3 DEF P

\* A node put behind others: what they say, and that no prose follows prose.
Alternating(s) == \A i \in 1 .. Len(s) - 1 : ~(s[i].is = "text" /\ s[i + 1].is = "text")

LEMMA LastSplit ==
  ASSUME NEW S, NEW s \in Seq(S), s # <<>>
  PROVE  /\ Len(s) \in Nat /\ Len(s) > 0 /\ Len(s) \in 1 .. Len(s) /\ s[Len(s)] \in S
         /\ SubSeq(s, 1, Len(s) - 1) \in Seq(S) /\ Len(SubSeq(s, 1, Len(s) - 1)) = Len(s) - 1
         /\ \A i \in 1 .. Len(s) - 1 : SubSeq(s, 1, Len(s) - 1)[i] = s[i]
         /\ s = Append(SubSeq(s, 1, Len(s) - 1), s[Len(s)])
  <1> DEFINE n == Len(s) - 1
             r == SubSeq(s, 1, n)
  <1>1. n \in Nat /\ Len(s) = n + 1
    BY Len(s) # 0
  <1>2. r \in Seq(S) /\ Len(r) = n /\ s[n + 1] \in S /\ \A i \in 1 .. n : r[i] = s[i]
    BY <1>1
  <1>3. s = Append(r, s[n + 1])
    BY <1>1, <1>2
  <1>4. Len(s) \in Nat /\ Len(s) > 0 /\ Len(s) \in 1 .. Len(s)
    BY <1>1
  <1> HIDE DEF r
  <1>5. s[Len(s)] = s[n + 1]
    BY <1>1
  <1> HIDE DEF n
  <1> QED BY <1>1, <1>2, <1>3, <1>4, <1>5, Zenon DEF n, r

LEMMA ReplaceLast ==
  ASSUME NEW S, NEW f \in Seq(S), NEW x \in S, NEW y \in S
  PROVE  [Append(f, x) EXCEPT ![Len(f) + 1] = y] = Append(f, y)
  <1> DEFINE n == Len(f) + 1
             a == Append(f, x)
             c == Append(f, y)
  <1>0. a \in Seq(S) /\ c \in Seq(S) /\ Len(a) = n /\ Len(c) = n /\ n \in Nat
    OBVIOUS
  <1>1. /\ DOMAIN a = 1 .. n /\ DOMAIN c = 1 .. n
        /\ a = [i \in 1 .. n |-> a[i]] /\ c = [i \in 1 .. n |-> c[i]]
    <2> HIDE DEF a, c, n
    <2> QED BY <1>0
  <1>2. c[n] = y /\ \A i \in 1 .. n : i # n => c[i] = a[i]
    OBVIOUS
  <1> HIDE DEF a, c
  <1>3. [a EXCEPT ![n] = y] = [i \in 1 .. n |-> IF i = n THEN y ELSE a[i]]
    BY <1>1
  <1>4. [i \in 1 .. n |-> IF i = n THEN y ELSE a[i]] = [i \in 1 .. n |-> c[i]]
    BY <1>2
  <1> QED BY <1>1, <1>3, <1>4, Zenon DEF a, c, n

LEMMA PutChars ==
  ASSUME NEW k, NEW a, NEW b
  PROVE  [[is |-> k, chars |-> a] EXCEPT !.chars = b] = [is |-> k, chars |-> b]
  OBVIOUS

LEMMA WithNextIs ==
  ASSUME NEW s \in Seq(Nodes), NEW n \in Nodes
  PROVE  /\ WithNext(s, n) \in Seq(Nodes) /\ WithNext(s, n) # <<>>
         /\ Shown(WithNext(s, n)) = Shown(s) \o ShownOf(n)
         /\ Alternating(s) => Alternating(WithNext(s, n))
         /\ \A K : (\A i \in 1 .. Len(s) : s[i].is \in K) /\ n.is \in K =>
               \A i \in 1 .. Len(WithNext(s, n)) : WithNext(s, n)[i].is \in K
  <1>1. CASE s # <<>> /\ n.is = "text" /\ Last(s).is = "text"
    <2> DEFINE m == Len(s) - 1
               f == SubSeq(s, 1, m)
               x == s[Len(s)]
               y == [is |-> "text", chars |-> x.chars \o n.chars]
               r == Append(f, y)
    <2>1. /\ m \in Nat /\ Len(s) = m + 1 /\ x \in Nodes /\ f \in Seq(Nodes) /\ Len(f) = m
          /\ \A i \in 1 .. m : f[i] = s[i]
          /\ s = Append(f, x)
      BY <1>1, LastSplit
    <2>2. x.is = "text" /\ x.chars \in Seq(Characters) /\ n.chars \in Seq(Characters)
      BY <1>1, <2>1, NodeIs DEF Last
    <2>3. x.chars \o n.chars \in Seq(Characters)
      BY <2>2
    <2>4. y \in Nodes
      BY <2>3 DEF Nodes, NodeKinds, PostKinds
    <2>5. [x EXCEPT !.chars = x.chars \o n.chars] = y
      <3>1. x = [is |-> "text", chars |-> x.chars]
        <4>1. x = [is |-> x.is, chars |-> x.chars]
          BY <2>1, NodeIs, Zenon
        <4> QED BY <4>1, <2>2, Zenon
      <3> HIDE DEF x
      <3> DEFINE b == x.chars \o n.chars
                 a == x.chars
      <3>2. x = [is |-> "text", chars |-> a]
        BY <3>1
      <3> HIDE DEF a, b
      <3>3. [[is |-> "text", chars |-> a] EXCEPT !.chars = b] = [is |-> "text", chars |-> b]
        BY PutChars
      <3>4. [x EXCEPT !.chars = b] = [is |-> "text", chars |-> b]
        BY <3>2, <3>3, Zenon
      <3> QED BY <3>4 DEF b
    <2> HIDE DEF f, x, y, r, m
    <2>6. WithNext(s, n) = [s EXCEPT ![m + 1] = y]
      <3>1. WithNext(s, n) = [s EXCEPT ![Len(s)] = [s[Len(s)] EXCEPT !.chars = s[Len(s)].chars \o n.chars]]
        BY <1>1, Zenon DEF WithNext
      <3>2. s[Len(s)] = x /\ Len(s) = m + 1
        BY <2>1 DEF x
      <3>3. [s[Len(s)] EXCEPT !.chars = s[Len(s)].chars \o n.chars] = y
        BY <2>5, <3>2, Zenon
      <3> QED BY <3>1, <3>2, <3>3, Zenon
    <2>7. WithNext(s, n) = r
      <3>1. [Append(f, x) EXCEPT ![Len(f) + 1] = y] = r
        BY <2>1, <2>4, ReplaceLast DEF r
      <3> QED BY <2>1, <2>6, <3>1, Zenon
    <2>8. r \in Seq(Nodes) /\ Len(r) = m + 1 /\ r[m + 1] = y /\ \A i \in 1 .. m : r[i] = s[i]
      BY <2>1, <2>4 DEF r
    <2>9. r # <<>>
      BY <2>1, <2>8
    <2>10. Shown(r) = Shown(s) \o ShownOf(n)
      <3>1. Shown(r) = Shown(f) \o ShownOf(y) /\ Shown(s) = Shown(f) \o ShownOf(x) /\ Shown(f) \in Seq(Characters)
        BY <2>1, <2>4, ShownAppend DEF r
      <3>2. ShownOf(y) = x.chars \o n.chars
        BY DEF ShownOf, y
      <3>3. ShownOf(x) = x.chars /\ ShownOf(n) = n.chars
        BY <1>1, <2>2 DEF ShownOf
      <3>4. (Shown(f) \o x.chars) \o n.chars = Shown(f) \o (x.chars \o n.chars)
        <4> DEFINE a == Shown(f)
                   b == x.chars
                   c == n.chars
        <4>1. a \in Seq(Characters) /\ b \in Seq(Characters) /\ c \in Seq(Characters)
          BY <2>2, <3>1
        <4> HIDE DEF a, b, c
        <4>2. (a \o b) \o c = a \o (b \o c)
          BY <4>1
        <4> QED BY <4>2 DEF a, b, c
      <3> QED BY <3>1, <3>2, <3>3, <3>4, Zenon
    <2>11. s[m + 1].is = "text" /\ y.is = "text" /\ s[m + 1] = x
      <3>1. s[m + 1] = x
        BY <2>1 DEF x
      <3>2. y.is = "text"
        BY DEF y
      <3> QED BY <3>1, <3>2, <2>2
    <2>12. \A i \in 1 .. m + 1 : r[i].is = s[i].is
      <3> SUFFICES ASSUME NEW i \in 1 .. m + 1 PROVE r[i].is = s[i].is
        OBVIOUS
      <3>1. CASE i = m + 1
        BY <3>1, <2>8, <2>11
      <3>2. CASE i # m + 1
        <4>1. i \in 1 .. m
          BY <3>2, <2>1
        <4> QED BY <4>1, <2>8
      <3> QED BY <3>1, <3>2
    <2>13. Alternating(s) => Alternating(r)
      BY <2>1, <2>8, <2>12 DEF Alternating
    <2>14. ASSUME NEW K, \A i \in 1 .. Len(s) : s[i].is \in K PROVE \A i \in 1 .. Len(r) : r[i].is \in K
      BY <2>1, <2>8, <2>12, <2>14
    <2> QED BY <2>7, <2>8, <2>9, <2>10, <2>13, <2>14, Zenon
  <1>2. CASE ~(s # <<>> /\ n.is = "text" /\ Last(s).is = "text")
    <2> DEFINE r == Append(s, n)
               m == Len(s)
    <2>1. WithNext(s, n) = r
      BY <1>2, Zenon DEF WithNext
    <2>2. /\ r \in Seq(Nodes) /\ r # <<>> /\ m \in Nat /\ Len(r) = m + 1
          /\ r[m + 1] = n /\ \A i \in 1 .. m : r[i] = s[i]
      OBVIOUS
    <2>3. Shown(r) = Shown(s) \o ShownOf(n)
      BY ShownAppend
    <2>4. m # 0 => ~(s[m].is = "text" /\ n.is = "text")
      BY <1>2 DEF Last
    <2> HIDE DEF r
    <2>5. ASSUME Alternating(s) PROVE Alternating(r)
      <3> SUFFICES ASSUME NEW i \in 1 .. m PROVE ~(r[i].is = "text" /\ r[i + 1].is = "text")
        BY <2>2 DEF Alternating
      <3>1. CASE i = m
        BY <3>1, <2>2, <2>4
      <3>2. CASE i # m
        <4>1. i \in 1 .. m - 1 /\ i + 1 \in 1 .. m /\ i \in 1 .. m
          BY <3>2, <2>2
        <4>2. ~(s[i].is = "text" /\ s[i + 1].is = "text")
          BY <4>1, <2>5 DEF Alternating
        <4>3. r[i] = s[i] /\ r[i + 1] = s[i + 1]
          BY <4>1, <2>2
        <4> QED BY <4>2, <4>3
      <3> QED BY <3>1, <3>2
    <2>6. ASSUME NEW K, \A i \in 1 .. Len(s) : s[i].is \in K, n.is \in K PROVE \A i \in 1 .. Len(r) : r[i].is \in K
      <3> SUFFICES ASSUME NEW i \in 1 .. m + 1 PROVE r[i].is \in K
        BY <2>2
      <3>1. CASE i = m + 1
        BY <3>1, <2>2, <2>6
      <3>2. CASE i # m + 1
        <4>1. i \in 1 .. m
          BY <3>2, <2>2
        <4> QED BY <4>1, <2>2, <2>6
      <3> QED BY <3>1, <3>2
    <2> QED BY <2>1, <2>2, <2>3, <2>5, <2>6, Zenon
  <1> QED BY <1>1, <1>2

\* How Merged goes on.
Merges(s, f) == f = [i \in 0 .. Len(s) |-> IF i = 0 THEN <<>> ELSE WithNext(f[i - 1], s[i])]

LEMMA MergesIs ==
  ASSUME NEW s \in Seq(Nodes), NEW f, Merges(s, f)
  PROVE  /\ f[0] = <<>> /\ \A i \in 1 .. Len(s) : f[i] = WithNext(f[i - 1], s[i])
         /\ \A i \in 0 .. Len(s) : f[i] \in Seq(Nodes)
  <1> DEFINE n == Len(s)
  <1>1. \A i \in 0 .. n : f[i] = IF i = 0 THEN <<>> ELSE WithNext(f[i - 1], s[i])
    BY Zenon DEF Merges
  <1>2. n \in Nat /\ <<>> \in Seq(Nodes)
    OBVIOUS
  <1>3. f[0] = <<>>
    <2>1. 0 \in 0 .. n
      BY <1>2
    <2> QED BY <2>1, <1>1, Zenon
  <1>4. ASSUME NEW i \in 1 .. n PROVE f[i] = WithNext(f[i - 1], s[i])
    <2>1. i \in 0 .. n /\ i # 0
      OBVIOUS
    <2> QED BY <2>1, <1>1, Zenon
  <1> DEFINE P == {i \in Nat : i <= n => f[i] \in Seq(Nodes)}
  <1>5. 0 \in P
    BY <1>2, <1>3
  <1>6. ASSUME NEW i \in Nat, i \in P PROVE i + 1 \in P
    <2> SUFFICES ASSUME i + 1 <= n PROVE f[i + 1] \in Seq(Nodes)
      OBVIOUS
    <2>1. f[i] \in Seq(Nodes) /\ i + 1 \in 1 .. n /\ (i + 1) - 1 = i
      BY <1>6, <1>2
    <2>2. f[i + 1] = WithNext(f[i], s[i + 1])
      BY <2>1, <1>4
    <2>3. s[i + 1] \in Nodes
      BY <2>1
    <2> QED BY <2>1, <2>2, <2>3, WithNextIs
  <1> HIDE DEF P
  <1>7. Nat \subseteq P
    BY <1>5, <1>6, NatInduct
  <1>8. \A i \in 0 .. n : f[i] \in Seq(Nodes)
    BY <1>7, <1>2 DEF P
  <1> QED BY <1>3, <1>4, <1>8, Zenon

LEMMA MergedIs ==
  ASSUME NEW s \in Seq(Nodes)
  PROVE  \E f : Merges(s, f) /\ Merged(s) = f[Len(s)]
  <1> DEFINE n == Len(s)
             step == [x \in (1 .. n) \X Seq(Nodes) |-> WithNext(x[2], s[x[1]])]
  <1>1. n \in Nat /\ <<>> \in Seq(Nodes)
    OBVIOUS
  <1>2. ASSUME NEW i \in 1 .. n, NEW a \in Seq(Nodes)
        PROVE  step[<<i, a>>] = WithNext(a, s[i]) /\ step[<<i, a>>] \in Seq(Nodes)
    <2>1. s[i] \in Nodes
      OBVIOUS
    <2>2. WithNext(a, s[i]) \in Seq(Nodes)
      BY <2>1, WithNextIs
    <2>3. step[<<i, a>>] = WithNext(a, s[i])
      OBVIOUS
    <2> QED BY <2>2, <2>3
  <1> HIDE DEF step
  <1>3. PICK f : Walk(f, n, <<>>, step)
    BY <1>1, <1>2, WalkExists
  <1>4. \A i \in 0 .. n : f[i] \in Seq(Nodes)
    BY <1>1, <1>2, <1>3, WalkStays
  <1>5. Merges(s, f)
    <2>1. ASSUME NEW i \in 0 .. n
          PROVE  (IF i = 0 THEN <<>> ELSE step[<<i, f[i - 1]>>]) = IF i = 0 THEN <<>> ELSE WithNext(f[i - 1], s[i])
      <3> SUFFICES ASSUME i # 0 PROVE step[<<i, f[i - 1]>>] = WithNext(f[i - 1], s[i])
        BY Zenon
      <3>1. i \in 1 .. n /\ i - 1 \in 0 .. n
        OBVIOUS
      <3>2. f[i - 1] \in Seq(Nodes)
        BY <3>1, <1>4
      <3> QED BY <3>1, <3>2, <1>2, Zenon
    <2> QED BY <2>1, <1>3, Zenon DEF Walk, Merges
  <1> QED BY <1>5, Zenon DEF Merged, Merges

LEMMA MergedEmpty == Merged(<<>>) = <<>>
  <1>1. <<>> \in Seq(Nodes) /\ Len(<<>>) = 0
    OBVIOUS
  <1>2. PICK f : Merges(<<>>, f) /\ Merged(<<>>) = f[0]
    BY <1>1, MergedIs
  <1>3. f[0] = <<>>
    BY <1>1, <1>2, MergesIs
  <1> QED BY <1>2, <1>3

LEMMA MergedAppend ==
  ASSUME NEW s \in Seq(Nodes), NEW x \in Nodes
  PROVE  Merged(s) \in Seq(Nodes) /\ Merged(Append(s, x)) = WithNext(Merged(s), x)
  <1> DEFINE n == Len(s)
             t == Append(s, x)
  <1>1. /\ n \in Nat /\ t \in Seq(Nodes) /\ Len(t) = n + 1 /\ t[n + 1] = x
        /\ \A i \in 1 .. n : t[i] = s[i]
    OBVIOUS
  <1> HIDE DEF t
  <1>2. PICK f : Merges(s, f) /\ Merged(s) = f[n]
    BY MergedIs
  <1>3. PICK g : Merges(t, g) /\ Merged(t) = g[n + 1]
    BY <1>1, MergedIs
  <1>4. f[0] = <<>> /\ (\A i \in 1 .. n : f[i] = WithNext(f[i - 1], s[i])) /\ \A i \in 0 .. n : f[i] \in Seq(Nodes)
    BY <1>2, MergesIs
  <1>5. g[0] = <<>> /\ (\A i \in 1 .. n + 1 : g[i] = WithNext(g[i - 1], t[i]))
    <2>1. g[0] = <<>> /\ \A i \in 1 .. Len(t) : g[i] = WithNext(g[i - 1], t[i])
      BY <1>1, <1>3, MergesIs, Zenon
    <2> QED BY <2>1, <1>1, Zenon
  <1>6. f[n] = g[n]
    <2>1. ASSUME NEW i \in 1 .. n, f[i - 1] = g[i - 1] PROVE f[i] = g[i]
      <3>1. i \in 1 .. n + 1 /\ t[i] = s[i]
        BY <1>1
      <3> QED BY <3>1, <2>1, <1>4, <1>5
    <2>2. f[0] = g[0] /\ n \in Nat
      BY <1>1, <1>4, <1>5
    <2> HIDE DEF n
    <2> QED BY <2>1, <2>2, WalksAgree
  <1>7. g[n + 1] = WithNext(g[n], x)
    <2>1. n + 1 \in 1 .. n + 1 /\ (n + 1) - 1 = n
      BY <1>1
    <2>2. g[n + 1] = WithNext(g[(n + 1) - 1], t[n + 1])
      BY <2>1, <1>5
    <2> QED BY <2>1, <2>2, <1>1
  <1>8. n \in 0 .. n
    BY <1>1
  <1>9. f[n] \in Seq(Nodes)
    BY <1>8, <1>4
  <1> QED BY <1>2, <1>3, <1>6, <1>7, <1>9, Zenon DEF t

\* Merging says the same, and leaves no prose behind prose.
LEMMA MergedKeeps ==
  ASSUME NEW s \in Seq(Nodes)
  PROVE  /\ Merged(s) \in Seq(Nodes) /\ Shown(Merged(s)) = Shown(s) /\ Alternating(Merged(s))
         /\ \A K : (\A i \in 1 .. Len(s) : s[i].is \in K) => \A i \in 1 .. Len(Merged(s)) : Merged(s)[i].is \in K
  <1> DEFINE Kept2(r) ==
               /\ Merged(r) \in Seq(Nodes) /\ Shown(Merged(r)) = Shown(r) /\ Alternating(Merged(r))
               /\ \A K : (\A i \in 1 .. Len(r) : r[i].is \in K) => \A i \in 1 .. Len(Merged(r)) : Merged(r)[i].is \in K
             P == {r \in Seq(Nodes) : Kept2(r)}
  <1>1. <<>> \in P
    <2>1. <<>> \in Seq(Nodes) /\ Alternating(<<>>)
      BY DEF Alternating
    <2> QED BY <2>1, MergedEmpty
  <1>2. ASSUME NEW r \in Seq(Nodes), NEW x \in Nodes, r \in P PROVE Append(r, x) \in P
    <2> DEFINE t == Append(r, x)
               m == Merged(r)
               q == WithNext(m, x)
    <2>1. /\ t \in Seq(Nodes) /\ Len(t) = Len(r) + 1 /\ t[Len(t)] = x /\ \A i \in 1 .. Len(r) : t[i] = r[i]
          /\ Len(r) \in Nat
      OBVIOUS
    <2>2. Merged(t) = q /\ m \in Seq(Nodes)
      BY MergedAppend
    <2>3. Shown(t) = Shown(r) \o ShownOf(x)
      BY ShownAppend
    <2>4. Shown(m) = Shown(r) /\ Alternating(m)
      BY <1>2
    <2>5. \A K : (\A i \in 1 .. Len(r) : r[i].is \in K) => \A i \in 1 .. Len(m) : m[i].is \in K
      BY <1>2
    <2>6. /\ q \in Seq(Nodes) /\ Shown(q) = Shown(m) \o ShownOf(x) /\ Alternating(q)
          /\ \A K : (\A i \in 1 .. Len(m) : m[i].is \in K) /\ x.is \in K => \A i \in 1 .. Len(q) : q[i].is \in K
      <3> HIDE DEF m
      <3> QED BY <2>2, <2>4, WithNextIs
    <2> HIDE DEF t, m, q
    <2>7. ASSUME NEW K, \A i \in 1 .. Len(t) : t[i].is \in K PROVE \A i \in 1 .. Len(q) : q[i].is \in K
      <3>1. x.is \in K
        <4>1. Len(t) \in 1 .. Len(t)
          BY <2>1
        <4> QED BY <4>1, <2>1, <2>7
      <3>2. \A i \in 1 .. Len(r) : r[i].is \in K
        <4> SUFFICES ASSUME NEW i \in 1 .. Len(r) PROVE r[i].is \in K
          OBVIOUS
        <4>1. i \in 1 .. Len(t) /\ t[i] = r[i]
          BY <2>1
        <4> QED BY <4>1, <2>7
      <3> QED BY <3>1, <3>2, <2>5, <2>6, Zenon
    <2>8. Kept2(t)
      BY <2>2, <2>3, <2>4, <2>6, <2>7, Zenon
    <2> HIDE DEF Kept2
    <2> QED BY <2>1, <2>8 DEF t
  <1> HIDE DEF P
  <1>3. Seq(Nodes) \subseteq P
    BY <1>1, <1>2, SeqInduct
  <1> QED BY <1>3 DEF P

-----------------------------------------------------------------------------
(* Where a name begins and ends.                                           *)

LEMMA LettersAre ==
  /\ Letters \subseteq HandleBytes /\ HandleBytes \subseteq AddressChars /\ AddressChars \subseteq Characters
  /\ "@" \notin AddressChars /\ "@" \notin HandleBytes /\ "@" \notin Letters /\ "@" \in Characters
  BY DEF Letters, HandleBytes, AddressChars, Characters, TextChars

LEMMA NameEndIs ==
  ASSUME NEW text \in Seq(Characters), NEW at \in 1 .. Len(text)
  PROVE  LET end == NameEnd(text, at) IN
         /\ end \in at + 1 .. Len(text) + 1
         /\ end = Len(text) + 1 \/ text[end] \notin HandleBytes
         /\ \A k \in at + 1 .. end - 1 : text[k] \in HandleBytes
  <1> DEFINE n == Len(text) + 1
             I == {j \in at + 1 .. n : j = n \/ text[j] \notin HandleBytes}
  <1>1. n \in Nat /\ at \in Nat /\ at + 1 \in Nat /\ at + 1 <= n /\ I \subseteq 1 .. n /\ n \in I
    OBVIOUS
  <1>2. \A j : j \in I <=> j \in at + 1 .. n /\ (j = n \/ text[j] \notin HandleBytes)
    BY Zenon
  <1> HIDE DEF I
  <1>3. PICK m \in I : \A i \in I : ~(i < m)
    <2>1. I # {}
      BY <1>1
    <2> QED BY <2>1, <1>1, LeastIs
  <1>4. m \in at + 1 .. n /\ (m = n \/ text[m] \notin HandleBytes)
    BY <1>2, <1>3
  <1>5. ASSUME NEW k \in at + 1 .. m - 1 PROVE text[k] \in HandleBytes
    <2>1. k \in at + 1 .. n /\ k < m
      BY <1>1, <1>4
    <2>2. k \notin I
      BY <2>1, <1>3
    <2> QED BY <2>1, <2>2, <1>2
  <1> HIDE DEF n
  <1>6. \E j \in at + 1 .. n : (j = n \/ text[j] \notin HandleBytes) /\ \A k \in at + 1 .. j - 1 : text[k] \in HandleBytes
    BY <1>4, <1>5
  <1> QED BY <1>6, Zenon DEF NameEnd, n

LEMMA LastLetterIs ==
  ASSUME NEW text \in Seq(Characters), NEW at \in 1 .. Len(text)
  PROVE  LET end == NameEnd(text, at)
             to == LastLetter(text, at)
         IN  /\ to \in at .. end - 1
             /\ to = at \/ text[to] \in Letters
             /\ \A l \in to + 1 .. end - 1 : text[l] \notin Letters
  <1> DEFINE n == NameEnd(text, at) - 1
             I == {j \in at .. n : j = at \/ text[j] \in Letters}
  <1>0. NameEnd(text, at) \in at + 1 .. Len(text) + 1
    BY NameEndIs
  <1>1. n \in Nat /\ at \in Nat /\ at <= n /\ I \subseteq 1 .. n /\ at \in I
    BY <1>0
  <1>2. \A j : j \in I <=> j \in at .. n /\ (j = at \/ text[j] \in Letters)
    BY Zenon
  <1> HIDE DEF I, n
  <1>3. PICK m \in I : \A i \in I : ~(i > m)
    <2>1. I # {}
      BY <1>1
    <2> QED BY <2>1, <1>1, GreatestIs
  <1>4. m \in at .. n /\ (m = at \/ text[m] \in Letters)
    BY <1>2, <1>3
  <1>5. ASSUME NEW l \in m + 1 .. n PROVE text[l] \notin Letters
    <2>1. l \in at .. n /\ l > m
      BY <1>1, <1>4
    <2>2. l \notin I
      BY <2>1, <1>3
    <2> QED BY <2>1, <2>2, <1>2
  <1>6. \E k \in at .. n : (k = at \/ text[k] \in Letters) /\ \A l \in k + 1 .. n : text[l] \notin Letters
    BY <1>4, <1>5
  <1> QED BY <1>6, Zenon DEF LastLetter, n

\* What stands at the place of a mention.
Mention(text, s) ==
  /\ s.from \in 1 .. Len(text) /\ s.to \in s.from + 1 .. Len(text)
  /\ text[s.from] = "@" /\ (s.from = 1 \/ text[s.from - 1] \notin AddressChars)
  /\ \A k \in s.from + 1 .. s.to : text[k] \in HandleBytes
  /\ text[s.to] \in Letters
  /\ s.to = Len(text) \/ text[s.to + 1] \notin Letters \cup {"@"}
  /\ CheckedHandle(SubSeq(text, s.from + 1, s.to)) = {s.handle}

SpanAt(text, at) ==
  [from |-> at, to |-> LastLetter(text, at), handle |-> CHOOSE h \in Named(text, at) : TRUE]

LEMMA SpanIsMention ==
  ASSUME NEW text \in Seq(Characters), NEW at \in 1 .. Len(text), Counts(text, at)
  PROVE  Mention(text, SpanAt(text, at))
  <1> DEFINE end == NameEnd(text, at)
             to == LastLetter(text, at)
             h == CHOOSE x \in Named(text, at) : TRUE
             s == SpanAt(text, at)
  <1>1. s.from = at /\ s.to = to /\ s.handle = h
    BY DEF SpanAt
  <1>2. /\ end \in at + 1 .. Len(text) + 1
        /\ end = Len(text) + 1 \/ text[end] \notin HandleBytes
        /\ \A k \in at + 1 .. end - 1 : text[k] \in HandleBytes
    BY NameEndIs
  <1>3. /\ to \in at .. end - 1
        /\ to = at \/ text[to] \in Letters
        /\ \A l \in to + 1 .. end - 1 : text[l] \notin Letters
    BY LastLetterIs
  <1>4. /\ text[at] = "@" /\ (at = 1 \/ text[at - 1] \notin AddressChars)
        /\ end = Len(text) + 1 \/ text[end] # "@"
        /\ Named(text, at) # {}
    BY Zenon DEF Counts
  <1>5. to # at
    <2>1. SubSeq(text, at + 1, at) = <<>>
      OBVIOUS
    <2>2. CheckedHandle(<<>>) = {}
      BY DEF CheckedHandle
    <2>3. Named(text, at) = CheckedHandle(SubSeq(text, at + 1, to))
      BY Zenon DEF Named
    <2> HIDE DEF to
    <2> QED BY <2>1, <2>2, <2>3, <1>4
  <1>6. Named(text, at) = {h} /\ Named(text, at) = CheckedHandle(SubSeq(text, at + 1, to))
    <2>1. Named(text, at) = CheckedHandle(SubSeq(text, at + 1, to))
      BY Zenon DEF Named
    <2>2. \E x : CheckedHandle(SubSeq(text, at + 1, to)) \subseteq {x}
      BY Zenon DEF CheckedHandle
    <2> QED BY <2>1, <2>2, <1>4
  <1> HIDE DEF end, to, h, s
  <1>7. Len(text) \in Nat
    OBVIOUS
  <1>8. to \in at + 1 .. Len(text) /\ \A k \in at + 1 .. to : text[k] \in HandleBytes
    BY <1>2, <1>3, <1>5, <1>7
  <1>9. to = Len(text) \/ text[to + 1] \notin Letters \cup {"@"}
    <2>1. CASE to + 1 = end
      BY <2>1, <1>2, <1>4, <1>7, <1>8, LettersAre
    <2>2. CASE to + 1 # end
      <3>1. to + 1 \in to + 1 .. end - 1 /\ to + 1 \in at + 1 .. end - 1
        BY <2>2, <1>2, <1>3, <1>8
      <3>2. text[to + 1] \notin Letters /\ text[to + 1] \in HandleBytes
        BY <3>1, <1>2, <1>3
      <3> QED BY <3>2, LettersAre
    <2> QED BY <2>1, <2>2
  <1>10. CheckedHandle(SubSeq(text, at + 1, to)) = {h}
    BY <1>6, Zenon
  <1>11. text[to] \in Letters
    BY <1>3, <1>5
  <1> QED BY <1>1, <1>4, <1>8, <1>9, <1>10, <1>11, Zenon DEF Mention, s

LEMMA MentionsApart ==
  ASSUME NEW text \in Seq(Characters), NEW s, NEW r, Mention(text, s), Mention(text, r), s.from < r.from
  PROVE  s.to < r.from
  <1> SUFFICES ASSUME ~(s.to < r.from) PROVE FALSE
    OBVIOUS
  <1>1. s.from \in 1 .. Len(text) /\ s.to \in s.from + 1 .. Len(text) /\ r.from \in 1 .. Len(text) /\ Len(text) \in Nat
    BY DEF Mention
  <1>2. r.from \in s.from + 1 .. s.to
    BY <1>1
  <1>3. text[r.from] \in HandleBytes /\ text[r.from] = "@"
    BY <1>2 DEF Mention
  <1> QED BY <1>3, LettersAre

\* A row of mentions, one behind the other.
SpanSet(text) == {SpanAt(text, at) : at \in 1 .. Len(text)}

InARow(text, ss) ==
  /\ ss \in Seq(SpanSet(text))
  /\ \A i \in 1 .. Len(ss) : Mention(text, ss[i])
  /\ \A i, j \in 1 .. Len(ss) : i < j => ss[i].to < ss[j].from

LEMMA MentionSpansAre ==
  ASSUME NEW text \in Seq(Characters)
  PROVE  /\ InARow(text, MentionSpans(text))
         /\ \A at \in 1 .. Len(text) : Counts(text, at) =>
               \E i \in 1 .. Len(MentionSpans(text)) : MentionSpans(text)[i] = SpanAt(text, at)
  <1> DEFINE id == [i \in DOMAIN text |-> i]
             K == {i \in DOMAIN text : Counts(text, i)}
             places == Picked(id, K)
             ss == MentionSpans(text)
             n == Len(text)
  <1>1. n \in Nat /\ DOMAIN text = 1 .. n
    OBVIOUS
  <1>2. id \in Seq(Nat) /\ Len(id) = n /\ \A i \in 1 .. n : id[i] = i
    BY <1>1
  <1>3. \A i : i \in K <=> i \in 1 .. n /\ Counts(text, i)
    BY <1>1, Zenon
  <1>4. ss = [i \in DOMAIN places |-> SpanAt(text, places[i])]
    BY Zenon DEF MentionSpans, SpanAt
  <1> HIDE DEF id, K, ss
  <1>5. places \in Seq(Nat)
    BY <1>2, PickedPlaces
  <1>6. PICK e : Places(id, K, e)
    BY <1>2, PickedPlaces
  <1>7. /\ e \in [1 .. Len(places) -> 1 .. n]
        /\ \A i, j \in 1 .. Len(places) : i < j => e[i] < e[j]
        /\ \A i \in 1 .. Len(places) : places[i] = id[e[i]] /\ id[e[i]] \in K
        /\ \A k \in 1 .. n : id[k] \in K => \E i \in 1 .. Len(places) : e[i] = k
    BY <1>2, <1>6, Zenon DEF Places
  <1> HIDE DEF places
  <1>8. ASSUME NEW i \in 1 .. Len(places)
        PROVE  places[i] = e[i] /\ places[i] \in 1 .. n /\ Counts(text, places[i])
    <2>1. e[i] \in 1 .. n
      BY <1>7
    <2>2. places[i] = e[i] /\ places[i] \in K
      BY <2>1, <1>2, <1>7
    <2> QED BY <2>1, <2>2, <1>3
  <1>9. DOMAIN places = 1 .. Len(places) /\ Len(places) \in Nat
    BY <1>5
  <1>10. \A i \in 1 .. Len(places) : ss[i] = SpanAt(text, places[i])
    BY <1>4, <1>9
  <1>11. ss \in Seq(SpanSet(text)) /\ Len(ss) = Len(places)
    <2>1. \A i \in 1 .. Len(places) : SpanAt(text, places[i]) \in SpanSet(text)
      BY <1>8, Zenon DEF SpanSet, n
    <2> QED BY <2>1, <1>4, <1>9
  <1>12. \A i \in 1 .. Len(ss) : Mention(text, ss[i])
    BY <1>8, <1>10, <1>11, SpanIsMention
  <1>13. ASSUME NEW i \in 1 .. Len(ss), NEW j \in 1 .. Len(ss), i < j PROVE ss[i].to < ss[j].from
    <2>1. places[i] < places[j]
      BY <1>7, <1>8, <1>11, <1>13
    <2>2. ss[i].from = places[i] /\ ss[j].from = places[j]
      <3>1. ASSUME NEW at PROVE SpanAt(text, at).from = at
        BY DEF SpanAt
      <3>2. ss[i] = SpanAt(text, places[i]) /\ ss[j] = SpanAt(text, places[j])
        BY <1>10, <1>11
      <3> QED BY <3>1, <3>2, Zenon
    <2>3. ss[i].from < ss[j].from /\ Mention(text, ss[i]) /\ Mention(text, ss[j])
      BY <2>1, <2>2, <1>12
    <2> QED BY <2>3, MentionsApart
  <1>14. ASSUME NEW at \in 1 .. n, Counts(text, at) PROVE \E i \in 1 .. Len(ss) : ss[i] = SpanAt(text, at)
    <2>1. id[at] \in K
      BY <1>14, <1>2, <1>3
    <2>2. PICK i \in 1 .. Len(places) : e[i] = at
      BY <2>1, <1>7
    <2> QED BY <2>2, <1>8, <1>10, <1>11
  <1>15. InARow(text, ss)
    BY <1>11, <1>12, <1>13 DEF InARow
  <1> QED BY <1>14, <1>15 DEF ss, n

LEMMA SpansForAre ==
  ASSUME NEW text \in Seq(Characters), NEW M
  PROVE  /\ InARow(text, SpansFor(text, M))
         /\ \A i \in 1 .. Len(SpansFor(text, M)) : SpansFor(text, M)[i].handle \in M
         /\ \A s \in Range(MentionSpans(text)) : s.handle \in M =>
               \E i \in 1 .. Len(SpansFor(text, M)) : SpansFor(text, M)[i] = s
  <1> DEFINE ss == MentionSpans(text)
             K == {s \in Range(ss) : s.handle \in M}
             r == SpansFor(text, M)
  <1>1. r = Picked(ss, K)
    BY Zenon DEF SpansFor
  <1>2. InARow(text, ss)
    BY MentionSpansAre
  <1>3. \A s : s \in K <=> s \in Range(ss) /\ s.handle \in M
    BY Zenon
  <1> HIDE DEF ss, K, r
  <1>4. /\ ss \in Seq(SpanSet(text))
        /\ \A i \in 1 .. Len(ss) : Mention(text, ss[i])
        /\ \A i, j \in 1 .. Len(ss) : i < j => ss[i].to < ss[j].from
    BY <1>2, Zenon DEF InARow
  <1>5. Picked(ss, K) \in Seq(SpanSet(text))
    BY <1>4, PickedPlaces
  <1>6. PICK e : Places(ss, K, e)
    BY <1>4, PickedPlaces
  <1>7. /\ e \in [1 .. Len(r) -> 1 .. Len(ss)]
        /\ \A i, j \in 1 .. Len(r) : i < j => e[i] < e[j]
        /\ \A i \in 1 .. Len(r) : r[i] = ss[e[i]] /\ ss[e[i]] \in K
        /\ \A k \in 1 .. Len(ss) : ss[k] \in K => \E i \in 1 .. Len(r) : e[i] = k
    BY <1>1, <1>6, Zenon DEF Places
  <1>8. InARow(text, r)
    <2>1. r \in Seq(SpanSet(text))
      BY <1>1, <1>5
    <2>2. \A i \in 1 .. Len(r) : e[i] \in 1 .. Len(ss)
      BY <1>7
    <2>3. \A i \in 1 .. Len(r) : Mention(text, r[i])
      BY <2>2, <1>4, <1>7
    <2>4. \A i, j \in 1 .. Len(r) : i < j => r[i].to < r[j].from
      BY <2>2, <1>4, <1>7
    <2> QED BY <2>1, <2>3, <2>4, Zenon DEF InARow
  <1>9. \A i \in 1 .. Len(r) : r[i].handle \in M
    BY <1>3, <1>7
  <1>10. ASSUME NEW s \in Range(ss), s.handle \in M PROVE \E i \in 1 .. Len(r) : r[i] = s
    <2>1. PICK k \in 1 .. Len(ss) : ss[k] = s
      <3>1. DOMAIN ss = 1 .. Len(ss)
        BY <1>4
      <3> QED BY <3>1 DEF Range
    <2>2. ss[k] \in K
      BY <2>1, <1>3, <1>10
    <2>3. PICK i \in 1 .. Len(r) : e[i] = k
      BY <2>2, <1>7
    <2> QED BY <2>1, <2>3, <1>7
  <1> QED BY <1>8, <1>9, <1>10 DEF r, ss

-----------------------------------------------------------------------------
(* A text, split at its mentions.                                          *)

\* A mention as it is shown, and what may stand next to it.
NodeFine(n, M) ==
  n.is = "mention" =>
    /\ \E h \in M : CheckedHandle(Tail(n.chars)) = {h}
    /\ Head(n.chars) = "@" /\ Last(n.chars) \in Letters

Border(a, b) ==
  /\ a.is = "text" /\ b.is = "mention" => Last(a.chars) \notin AddressChars
  /\ a.is = "mention" /\ b.is = "text" => Head(b.chars) \notin Letters \cup {"@"}

PageFine(s, M) ==
  /\ \A i \in 1 .. Len(s) : NodeFine(s[i], M)
  /\ \A i \in 1 .. Len(s) - 1 : Border(s[i], s[i + 1])

\* One node more.
LEMMA PageAppend ==
  ASSUME NEW S, NEW s \in Seq(S), NEW n \in S, NEW M, PageFine(s, M), NodeFine(n, M),
         s # <<>> => Border(s[Len(s)], n)
  PROVE  PageFine(Append(s, n), M)
  <1> DEFINE t == Append(s, n)
             m == Len(s)
  <1>1. t \in Seq(S) /\ m \in Nat /\ Len(t) = m + 1 /\ t[m + 1] = n /\ (\A i \in 1 .. m : t[i] = s[i]) /\ (m # 0 => s # <<>>)
    OBVIOUS
  <1> HIDE DEF t
  <1>2. ASSUME NEW i \in 1 .. m + 1 PROVE NodeFine(t[i], M)
    <2>1. CASE i = m + 1
      BY <2>1, <1>1
    <2>2. CASE i # m + 1
      <3>1. i \in 1 .. m
        BY <2>2, <1>1
      <3> QED BY <3>1, <1>1 DEF PageFine
    <2> QED BY <2>1, <2>2
  <1>3. ASSUME NEW i \in 1 .. m PROVE Border(t[i], t[i + 1])
    <2>1. CASE i = m
      <3>1. t[i] = s[m] /\ t[i + 1] = n /\ s # <<>>
        BY <2>1, <1>1
      <3> QED BY <3>1
    <2>2. CASE i # m
      <3>1. i \in 1 .. m - 1 /\ t[i] = s[i] /\ t[i + 1] = s[i + 1]
        BY <2>2, <1>1
      <3>2. Border(s[i], s[i + 1])
        BY <3>1 DEF PageFine
      <3> QED BY <3>1, <3>2
    <2> QED BY <2>1, <2>2
  <1>4. PageFine(t, M)
    BY <1>1, <1>2, <1>3 DEF PageFine
  <1> QED BY <1>4 DEF t

\* Two pages, one behind the other.
LEMMA PageConcat ==
  ASSUME NEW S, NEW s \in Seq(S), NEW r \in Seq(S), NEW M, PageFine(s, M), PageFine(r, M),
         s # <<>> /\ r # <<>> => Border(s[Len(s)], r[1])
  PROVE  PageFine(s \o r, M)
  <1> DEFINE t == s \o r
             m == Len(s)
             k == Len(r)
  <1>1. /\ t \in Seq(S) /\ m \in Nat /\ k \in Nat /\ Len(t) = m + k
        /\ \A i \in 1 .. m : t[i] = s[i]
        /\ \A i \in 1 .. k : t[m + i] = r[i]
        /\ \A i \in 1 .. m + k : i \in 1 .. m \/ (i - m \in 1 .. k /\ m + (i - m) = i)
    BY ConcatIs
  <1>2. (m # 0 => s # <<>>) /\ (k # 0 => r # <<>>)
    OBVIOUS
  <1> HIDE DEF t, m, k
  <1>3. ASSUME NEW i \in 1 .. m + k PROVE NodeFine(t[i], M)
    <2>1. CASE i \in 1 .. m
      BY <2>1, <1>1 DEF PageFine, m
    <2>2. CASE i - m \in 1 .. k /\ m + (i - m) = i
      <3> DEFINE j == i - m
      <3>1. j \in 1 .. k /\ m + j = i
        BY <2>2
      <3> HIDE DEF j
      <3>2. t[i] = r[j]
        BY <3>1, <1>1
      <3>3. NodeFine(r[j], M)
        BY <3>1 DEF PageFine, k
      <3> QED BY <3>2, <3>3
    <2> QED BY <2>1, <2>2, <1>1
  <1>4. ASSUME NEW i \in 1 .. (m + k) - 1 PROVE Border(t[i], t[i + 1])
    <2>1. CASE i < m
      <3>1. i \in 1 .. m - 1 /\ i \in 1 .. m /\ i + 1 \in 1 .. m
        BY <2>1, <1>1
      <3>2. t[i] = s[i] /\ t[i + 1] = s[i + 1]
        BY <3>1, <1>1
      <3>3. Border(s[i], s[i + 1])
        BY <3>1 DEF PageFine, m
      <3> QED BY <3>2, <3>3
    <2>2. CASE i = m
      <3>1. i \in 1 .. m /\ 1 \in 1 .. k /\ m # 0 /\ k # 0
        BY <2>2, <1>1
      <3>2. t[i] = s[m] /\ t[i + 1] = r[1]
        BY <3>1, <2>2, <1>1
      <3>3. Border(s[m], r[1])
        BY <3>1, <1>2 DEF m
      <3> QED BY <3>2, <3>3
    <2>3. CASE i > m
      <3> DEFINE j == i - m
      <3>1. j \in 1 .. k - 1 /\ j \in 1 .. k /\ j + 1 \in 1 .. k /\ m + j = i /\ m + (j + 1) = i + 1
        BY <2>3, <1>1
      <3> HIDE DEF j
      <3>2. t[i] = r[j]
        BY <3>1, <1>1
      <3>3. t[i + 1] = r[j + 1]
        BY <3>1, <1>1
      <3>4. Border(r[j], r[j + 1])
        BY <3>1 DEF PageFine, k
      <3> QED BY <3>2, <3>3, <3>4
    <2> QED BY <2>1, <2>2, <2>3, <1>1
  <1>5. PageFine(t, M)
    BY <1>1, <1>3, <1>4 DEF PageFine
  <1> QED BY <1>5 DEF t

Has(s, x) == \E j \in 1 .. Len(s) : s[j] = x

LEMMA HasConcat ==
  ASSUME NEW S, NEW s \in Seq(S), NEW r \in Seq(S), NEW x
  PROVE  Has(s, x) \/ Has(r, x) => Has(s \o r, x)
  <1>1. /\ Len(s) \in Nat /\ Len(r) \in Nat /\ Len(s \o r) = Len(s) + Len(r)
        /\ \A i \in 1 .. Len(s) : (s \o r)[i] = s[i]
        /\ \A i \in 1 .. Len(r) : (s \o r)[Len(s) + i] = r[i]
    BY ConcatIs
  <1>2. ASSUME NEW j \in 1 .. Len(s), s[j] = x PROVE Has(s \o r, x)
    <2>1. j \in 1 .. Len(s \o r) /\ (s \o r)[j] = x
      BY <1>1, <1>2
    <2> QED BY <2>1 DEF Has
  <1>3. ASSUME NEW j \in 1 .. Len(r), r[j] = x PROVE Has(s \o r, x)
    <2>1. Len(s) + j \in 1 .. Len(s \o r) /\ (s \o r)[Len(s) + j] = x
      BY <1>1, <1>3
    <2> QED BY <2>1 DEF Has
  <1> QED BY <1>2, <1>3 DEF Has

LEMMA HasAppend ==
  ASSUME NEW S, NEW s \in Seq(S), NEW x \in S
  PROVE  Has(Append(s, x), x) /\ \A y : Has(s, y) => Has(Append(s, x), y)
  <1> DEFINE t == Append(s, x)
             m == Len(s)
  <1>1. m \in Nat /\ Len(t) = m + 1 /\ t[m + 1] = x /\ \A i \in 1 .. m : t[i] = s[i]
    OBVIOUS
  <1> HIDE DEF t
  <1>2. m + 1 \in 1 .. Len(t) /\ \A i \in 1 .. m : i \in 1 .. Len(t)
    BY <1>1
  <1>3. Has(t, x)
    BY <1>1, <1>2 DEF Has
  <1>4. \A y : Has(s, y) => Has(t, y)
    BY <1>1, <1>2 DEF Has
  <1> QED BY <1>3, <1>4 DEF t

\* A piece of a text.
LEMMA PieceOfText ==
  ASSUME NEW text \in Seq(Characters), NEW m \in Nat, NEW k \in Nat, m < k, k <= Len(text)
  PROVE  /\ SubSeq(text, m + 1, k) \in Seq(Characters) /\ SubSeq(text, m + 1, k) # <<>>
         /\ Head(SubSeq(text, m + 1, k)) = text[m + 1] /\ Last(SubSeq(text, m + 1, k)) = text[k]
         /\ SubSeq(text, 1, m) \o SubSeq(text, m + 1, k) = SubSeq(text, 1, k)
         /\ Tail(SubSeq(text, m + 1, k)) = SubSeq(text, m + 2, k)
  <1> DEFINE p == SubSeq(text, m + 1, k)
  <1>1. p \in Seq(Characters) /\ Len(p) = k - m /\ Len(p) > 0 /\ \A i \in 1 .. k - m : p[i] = text[m + i]
    OBVIOUS
  <1>2. SubSeq(text, 1, m) \o p = SubSeq(text, 1, k)
    <2> DEFINE a == SubSeq(text, 1, m)
               c == SubSeq(text, 1, k)
    <2>1. /\ a \in Seq(Characters) /\ Len(a) = m /\ \A i \in 1 .. m : a[i] = text[i]
          /\ c \in Seq(Characters) /\ Len(c) = k /\ \A i \in 1 .. k : c[i] = text[i]
      OBVIOUS
    <2> HIDE DEF a, c, p
    <2>2. /\ a \o p \in Seq(Characters) /\ Len(a \o p) = k
          /\ \A i \in 1 .. m : (a \o p)[i] = a[i]
          /\ \A i \in 1 .. k - m : (a \o p)[m + i] = p[i]
      <3>1. /\ a \o p \in Seq(Characters) /\ Len(a \o p) = Len(a) + Len(p)
            /\ \A i \in 1 .. Len(a) : (a \o p)[i] = a[i]
            /\ \A i \in 1 .. Len(p) : (a \o p)[Len(a) + i] = p[i]
        <4>1. a \in Seq(Characters) /\ p \in Seq(Characters)
          BY <1>1, <2>1, Zenon
        <4> QED BY <4>1, ConcatIs
      <3>2. Len(a) = m /\ Len(p) = k - m /\ m + (k - m) = k
        BY <1>1, <2>1
      <3> QED BY <3>1, <3>2
    <2>3. ASSUME NEW i \in 1 .. k PROVE (a \o p)[i] = c[i]
      <3>1. CASE i <= m
        BY <3>1, <2>1, <2>2
      <3>2. CASE i > m
        <4> DEFINE j == i - m
        <4>1. j \in 1 .. k - m /\ m + j = i
          BY <3>2
        <4> HIDE DEF j
        <4>2. (a \o p)[m + j] = text[m + j]
          BY <4>1, <1>1, <2>2
        <4> QED BY <4>1, <4>2, <2>1
      <3>3. i <= m \/ i > m
        OBVIOUS
      <3> QED BY <3>1, <3>2, <3>3, Zenon
    <2>4. a \o p = c
      BY <2>1, <2>2, <2>3
    <2> QED BY <2>4 DEF a, c
  <1>3. Tail(p) = SubSeq(text, m + 2, k)
    OBVIOUS
  <1>4. p # <<>> /\ Head(p) = text[m + 1]
    OBVIOUS
  <1>5. Last(p) = text[k]
    <2>1. Len(p) \in 1 .. k - m /\ m + Len(p) = k
      BY <1>1
    <2> QED BY <1>1, <2>1 DEF Last
  <1> QED BY <1>1, <1>2, <1>3, <1>4, <1>5

\* What the nodes so far say is the text up to m.
Fit(text, M, out, m) ==
  /\ m \in 0 .. Len(text) /\ out \in Seq(Nodes) /\ (m = 0 <=> out = <<>>)
  /\ Shown(out) = SubSeq(text, 1, m)
  /\ PageFine(out, M)
  /\ \A i \in 1 .. Len(out) : out[i].is \in {"text", "mention"}
  /\ out # <<>> => Last(out[Len(out)].chars) = text[m]
  /\ out # <<>> /\ out[Len(out)].is = "mention" => m = Len(text) \/ text[m + 1] \notin Letters \cup {"@"}

LEMMA FitBegins ==
  ASSUME NEW text \in Seq(Characters), NEW M
  PROVE  Fit(text, M, <<>>, 0)
  <1>1. /\ 0 \in 0 .. Len(text) /\ <<>> \in Seq(Nodes) /\ Len(<<>>) = 0
        /\ SubSeq(text, 1, 0) = <<>>
    OBVIOUS
  <1>2. Shown(<<>>) = <<>>
    BY ShownEmpty
  <1>3. PageFine(<<>>, M)
    BY DEF PageFine
  <1>4. \A i \in 1 .. Len(<<>>) : <<>>[i].is \in {"text", "mention"}
    OBVIOUS
  <1> QED BY <1>1, <1>2, <1>3, <1>4, Zenon DEF Fit

LEMMA FitAppend ==
  ASSUME NEW text \in Seq(Characters), NEW M, NEW out, NEW m, Fit(text, M, out, m),
         NEW k \in m + 1 .. Len(text), NEW y,
         y = [is |-> y.is, chars |-> SubSeq(text, m + 1, k)], y.is \in {"text", "mention"},
         NodeFine(y, M),
         y.is = "mention" => /\ m = 0 \/ text[m] \notin AddressChars
                             /\ k = Len(text) \/ text[k + 1] \notin Letters \cup {"@"}
  PROVE  Fit(text, M, Append(out, y), k)
  <1> DEFINE n == Len(out)
             t == Append(out, y)
  <1>1. /\ m \in 0 .. Len(text) /\ out \in Seq(Nodes) /\ (m = 0 <=> out = <<>>)
        /\ Shown(out) = SubSeq(text, 1, m) /\ PageFine(out, M)
        /\ \A i \in 1 .. n : out[i].is \in {"text", "mention"}
        /\ out # <<>> => Last(out[n].chars) = text[m]
        /\ out # <<>> /\ out[n].is = "mention" => m = Len(text) \/ text[m + 1] \notin Letters \cup {"@"}
    BY Zenon DEF Fit
  <1>2. m \in Nat /\ k \in Nat /\ m < k /\ k <= Len(text) /\ k # 0 /\ m # Len(text) /\ Len(text) \in Nat
    BY <1>1
  <1> DEFINE p == SubSeq(text, m + 1, k)
  <1>3. /\ p \in Seq(Characters) /\ p # <<>> /\ Head(p) = text[m + 1] /\ Last(p) = text[k]
        /\ SubSeq(text, 1, m) \o p = SubSeq(text, 1, k)
    BY <1>2, PieceOfText, Zenon
  <1> HIDE DEF p
  <1>4. y \in Nodes /\ y.chars = p
    <2>1. y = [is |-> y.is, chars |-> p]
      BY DEF p
    <2>2. y.is \in NodeKinds
      BY DEF NodeKinds, PostKinds
    <2> QED BY <2>1, <2>2, <1>3 DEF Nodes
  <1>5. /\ t \in Seq(Nodes) /\ n \in Nat /\ Len(t) = n + 1 /\ t[n + 1] = y
        /\ \A i \in 1 .. n : t[i] = out[i]
    BY <1>1, <1>4
  <1>6. Shown(t) = SubSeq(text, 1, k)
    <2>1. Shown(t) = Shown(out) \o ShownOf(y)
      BY <1>1, <1>4, ShownAppend
    <2>2. ShownOf(y) = p
      BY <1>4 DEF ShownOf
    <2> QED BY <2>1, <2>2, <1>1, <1>3, Zenon
  <1> HIDE DEF t
  <1>7. PageFine(t, M)
    <2>1. ASSUME out # <<>> PROVE Border(out[n], y)
      <3>1. Last(out[n].chars) = text[m] /\ m # 0
        BY <1>1, <2>1
      <3>2. y.is = "mention" => Last(out[n].chars) \notin AddressChars
        BY <3>1
      <3>3. out[n].is = "mention" => Head(y.chars) \notin Letters \cup {"@"}
        BY <2>1, <1>1, <1>2, <1>3, <1>4
      <3> QED BY <3>2, <3>3 DEF Border
    <2> QED BY <2>1, <1>1, <1>4, PageAppend DEF t
  <1>8. ASSUME NEW i \in 1 .. n + 1 PROVE t[i].is \in {"text", "mention"}
    <2>1. CASE i = n + 1
      BY <2>1, <1>5
    <2>2. CASE i # n + 1
      <3>1. i \in 1 .. n
        BY <2>2, <1>5
      <3> QED BY <3>1, <1>1, <1>5
    <2> QED BY <2>1, <2>2
  <1>9. t # <<>> /\ t[Len(t)] = y
    BY <1>5
  <1>10. k \in 0 .. Len(text)
    BY <1>2
  <1>11. \A i \in 1 .. Len(t) : t[i].is \in {"text", "mention"}
    BY <1>5, <1>8
  <1>12. Last(t[Len(t)].chars) = text[k]
    BY <1>3, <1>4, <1>9
  <1>13. t[Len(t)].is = "mention" => k = Len(text) \/ text[k + 1] \notin Letters \cup {"@"}
    BY <1>9
  <1>14. Fit(text, M, t, k)
    BY <1>2, <1>5, <1>6, <1>7, <1>9, <1>10, <1>11, <1>12, <1>13, Zenon DEF Fit
  <1> QED BY <1>14 DEF t

LEMMA ProseIs ==
  ASSUME NEW text \in Seq(Characters), NEW m \in Nat, NEW k \in Nat, k <= Len(text)
  PROVE  /\ m < k => Prose(text, m + 1, k) = <<[is |-> "text", chars |-> SubSeq(text, m + 1, k)]>>
         /\ ~(m < k) => Prose(text, m + 1, k) = <<>>
         /\ Prose(text, m + 1, k) \in Seq(Nodes)
  <1>1. CASE m < k
    <2>1. m + 1 <= k
      BY <1>1
    <2>2. Prose(text, m + 1, k) = <<[is |-> "text", chars |-> SubSeq(text, m + 1, k)]>>
      BY <2>1, Zenon DEF Prose
    <2>3. SubSeq(text, m + 1, k) \in Seq(Characters)
      BY <1>1, PieceOfText
    <2>4. [is |-> "text", chars |-> SubSeq(text, m + 1, k)] \in Nodes
      BY <2>3 DEF Nodes, NodeKinds, PostKinds
    <2>5. <<[is |-> "text", chars |-> SubSeq(text, m + 1, k)]>> \in Seq(Nodes)
      BY <2>4
    <2> QED BY <1>1, <2>2, <2>5
  <1>2. CASE ~(m < k)
    <2>1. ~(m + 1 <= k)
      BY <1>2
    <2>2. Prose(text, m + 1, k) = <<>>
      BY <2>1, Zenon DEF Prose
    <2>3. <<>> \in Seq(Nodes)
      OBVIOUS
    <2> QED BY <1>2, <2>2, <2>3, Zenon
  <1> QED BY <1>1, <1>2

LEMMA FitProse ==
  ASSUME NEW text \in Seq(Characters), NEW M, NEW out, NEW m, Fit(text, M, out, m), NEW k \in m .. Len(text)
  PROVE  Fit(text, M, out \o Prose(text, m + 1, k), k)
  <1>1. m \in 0 .. Len(text) /\ out \in Seq(Nodes) /\ Len(text) \in Nat
    BY DEF Fit
  <1>2. m \in Nat /\ k \in Nat /\ k <= Len(text)
    BY <1>1
  <1>3. CASE m < k
    <2> DEFINE y == [is |-> "text", chars |-> SubSeq(text, m + 1, k)]
    <2>1. Prose(text, m + 1, k) = <<y>>
      BY <1>2, <1>3, ProseIs
    <2>2. y = [is |-> y.is, chars |-> SubSeq(text, m + 1, k)] /\ y.is = "text"
      OBVIOUS
    <2>3. k \in m + 1 .. Len(text)
      BY <1>2, <1>3
    <2> HIDE DEF y
    <2>4. NodeFine(y, M)
      BY <2>2 DEF NodeFine
    <2>5. y.is \in {"text", "mention"} /\ y.is # "mention"
      BY <2>2
    <2>6. Fit(text, M, Append(out, y), k)
      BY <2>2, <2>3, <2>4, <2>5, FitAppend
    <2>7. Append(out, y) = out \o <<y>>
      BY <1>1
    <2> QED BY <2>1, <2>6, <2>7, Zenon
  <1>4. CASE ~(m < k)
    <2>1. Prose(text, m + 1, k) = <<>>
      BY <1>2, <1>4, ProseIs
    <2>2. m = k
      BY <1>2, <1>4
    <2>3. out \o <<>> = out
      BY <1>1, ConcatEmpty
    <2> QED BY <2>1, <2>2, <2>3, Zenon
  <1> QED BY <1>3, <1>4

LEMMA MarkedIs ==
  ASSUME NEW text \in Seq(Characters), NEW s, Mention(text, s)
  PROVE  /\ Marked(text, s) \in Nodes /\ Marked(text, s) = [is |-> "mention", chars |-> SubSeq(text, s.from, s.to)]
         /\ CheckedHandle(Tail(Marked(text, s).chars)) = {s.handle}
         /\ Head(Marked(text, s).chars) = "@" /\ Last(Marked(text, s).chars) \in Letters
  <1> DEFINE p == SubSeq(text, s.from, s.to)
             m == s.from - 1
  <1>1. /\ s.from \in 1 .. Len(text) /\ s.to \in s.from + 1 .. Len(text) /\ Len(text) \in Nat
        /\ text[s.from] = "@" /\ text[s.to] \in Letters
        /\ CheckedHandle(SubSeq(text, s.from + 1, s.to)) = {s.handle}
    BY DEF Mention
  <1>2. m \in Nat /\ s.to \in Nat /\ m < s.to /\ s.to <= Len(text) /\ m + 1 = s.from /\ m + 2 = s.from + 1
    BY <1>1
  <1> HIDE DEF m
  <1>3. /\ SubSeq(text, m + 1, s.to) \in Seq(Characters)
        /\ Head(SubSeq(text, m + 1, s.to)) = text[m + 1] /\ Last(SubSeq(text, m + 1, s.to)) = text[s.to]
        /\ Tail(SubSeq(text, m + 1, s.to)) = SubSeq(text, m + 2, s.to)
    BY <1>2, PieceOfText
  <1>4. p \in Seq(Characters) /\ Head(p) = "@" /\ Last(p) = text[s.to] /\ Tail(p) = SubSeq(text, s.from + 1, s.to)
    BY <1>1, <1>2, <1>3
  <1> HIDE DEF p
  <1>5. Marked(text, s) = [is |-> "mention", chars |-> p]
    BY DEF Marked, p
  <1>6. Marked(text, s).chars = p
    BY <1>5
  <1>7. Marked(text, s) \in Nodes
    BY <1>4, <1>5 DEF Nodes, NodeKinds, PostKinds
  <1> QED BY <1>1, <1>4, <1>5, <1>6, <1>7, Zenon DEF p

LEMMA FitMarked ==
  ASSUME NEW text \in Seq(Characters), NEW M, NEW s, Mention(text, s), s.handle \in M,
         NEW out, Fit(text, M, out, s.from - 1)
  PROVE  Fit(text, M, Append(out, Marked(text, s)), s.to)
  <1> DEFINE m == s.from - 1
             y == Marked(text, s)
  <1>1. /\ s.from \in 1 .. Len(text) /\ s.to \in s.from + 1 .. Len(text) /\ Len(text) \in Nat
        /\ s.from = 1 \/ text[s.from - 1] \notin AddressChars
        /\ s.to = Len(text) \/ text[s.to + 1] \notin Letters \cup {"@"}
    BY DEF Mention
  <1>2. /\ y = [is |-> "mention", chars |-> SubSeq(text, s.from, s.to)]
        /\ CheckedHandle(Tail(y.chars)) = {s.handle}
        /\ Head(y.chars) = "@" /\ Last(y.chars) \in Letters
    BY MarkedIs, Zenon
  <1>3. s.to \in m + 1 .. Len(text) /\ m + 1 = s.from /\ (m = 0 \/ text[m] \notin AddressChars)
    BY <1>1
  <1> HIDE DEF m, y
  <1>4. y.is = "mention" /\ y = [is |-> y.is, chars |-> SubSeq(text, m + 1, s.to)]
    BY <1>2, <1>3
  <1>5. NodeFine(y, M)
    BY <1>2, Zenon DEF NodeFine
  <1>6. y.is \in {"text", "mention"}
    BY <1>4
  <1>7. Fit(text, M, out, m)
    BY DEF m
  <1>8. Fit(text, M, Append(out, y), s.to)
    BY <1>1, <1>3, <1>4, <1>5, <1>6, <1>7, FitAppend
  <1> QED BY <1>8 DEF y

\* What Split puts together.
EndOf(ss, i) == IF i = 0 THEN 0 ELSE ss[i].to

Parts(text, ss) ==
  [i \in 1 .. Len(ss) |-> Append(Prose(text, EndOf(ss, i - 1) + 1, ss[i].from - 1), Marked(text, ss[i]))]

LEMMA SplitParts ==
  ASSUME NEW text \in Seq(Characters), NEW ss, InARow(text, ss)
  PROVE  Split(text, ss) = FlattenSeq(Parts(text, ss)) \o Prose(text, EndOf(ss, Len(ss)) + 1, Len(text))
  <1> DEFINE at(i) == IF i = 1 THEN 1 ELSE ss[i - 1].to + 1
  <1>1. DOMAIN ss = 1 .. Len(ss) /\ Len(ss) \in Nat
    <2>1. ss \in Seq(SpanSet(text))
      BY DEF InARow
    <2> QED BY <2>1
  <1>2. ASSUME NEW i \in 1 .. Len(ss) + 1 PROVE at(i) = EndOf(ss, i - 1) + 1
    <2>1. CASE i = 1
      BY <2>1 DEF EndOf
    <2>2. CASE i # 1
      <3>1. i - 1 # 0
        BY <2>2
      <3> QED BY <2>2, <3>1, Zenon DEF EndOf
    <2> QED BY <2>1, <2>2
  <1>3. Split(text, ss) = FlattenSeq([i \in DOMAIN ss |-> Append(Prose(text, at(i), ss[i].from - 1), Marked(text, ss[i]))])
                          \o Prose(text, at(Len(ss) + 1), Len(text))
    BY Zenon DEF Split
  <1> HIDE DEF at
  <1>4. at(Len(ss) + 1) = EndOf(ss, Len(ss)) + 1
    <2>1. Len(ss) + 1 \in 1 .. Len(ss) + 1 /\ (Len(ss) + 1) - 1 = Len(ss)
      BY <1>1
    <2> QED BY <2>1, <1>2
  <1>5. \A i \in 1 .. Len(ss) : at(i) = EndOf(ss, i - 1) + 1
    <2>1. \A i \in 1 .. Len(ss) : i \in 1 .. Len(ss) + 1
      BY <1>1
    <2> QED BY <2>1, <1>2
  <1>6. [i \in DOMAIN ss |-> Append(Prose(text, at(i), ss[i].from - 1), Marked(text, ss[i]))] = Parts(text, ss)
    BY <1>1, <1>5, Zenon DEF Parts
  <1> QED BY <1>3, <1>4, <1>6, Zenon

LEMMA EndsAre ==
  ASSUME NEW text \in Seq(Characters), NEW ss, InARow(text, ss), NEW i \in 1 .. Len(ss)
  PROVE  /\ EndOf(ss, i - 1) \in 0 .. ss[i].from - 1 /\ EndOf(ss, i) = ss[i].to
         /\ ss[i].from \in 1 .. Len(text) /\ ss[i].to \in 1 .. Len(text)
  <1>1. Mention(text, ss[i]) /\ Len(text) \in Nat
    BY DEF InARow
  <1>2. ss[i].from \in 1 .. Len(text) /\ ss[i].to \in ss[i].from + 1 .. Len(text)
    BY <1>1, Zenon DEF Mention
  <1>3. EndOf(ss, i) = ss[i].to
    <2>1. i # 0
      OBVIOUS
    <2> QED BY <2>1, Zenon DEF EndOf
  <1>4. CASE i = 1
    <2>1. EndOf(ss, i - 1) = 0
      BY <1>4 DEF EndOf
    <2> QED BY <2>1, <1>1, <1>2, <1>3
  <1>5. CASE i # 1
    <2> DEFINE j == i - 1
    <2>1. j \in 1 .. Len(ss) /\ j < i /\ j # 0
      BY <1>5
    <2> HIDE DEF j
    <2>2. EndOf(ss, j) = ss[j].to
      BY <2>1, Zenon DEF EndOf
    <2>3. ss[j].to < ss[i].from /\ Mention(text, ss[j])
      BY <2>1 DEF InARow
    <2>4. ss[j].from \in 1 .. Len(text) /\ ss[j].to \in ss[j].from + 1 .. Len(text)
      BY <2>3, Zenon DEF Mention
    <2>5. EndOf(ss, j) \in 0 .. ss[i].from - 1
      <3> DEFINE to == ss[j].to
                 from == ss[i].from
                 n == Len(text)
      <3>1. n \in Nat /\ from \in 1 .. n /\ to < from
        BY <1>1, <1>2, <2>3
      <3>2. to \in Nat
        BY <1>1, <2>4
      <3> HIDE DEF to, from, n
      <3>3. to \in 0 .. from - 1
        BY <3>1, <3>2
      <3> QED BY <3>3, <2>2 DEF to, from
    <2>6. ss[i].to \in 1 .. Len(text)
      BY <1>1, <1>2
    <2> QED BY <2>5, <2>6, <1>2, <1>3 DEF j
  <1> QED BY <1>4, <1>5

LEMMA FunctionIsSeq ==
  ASSUME NEW T, NEW n \in Nat, NEW g \in [1 .. n -> T]
  PROVE  g \in Seq(T) /\ Len(g) = n
  OBVIOUS

LEMMA SplitIs ==
  ASSUME NEW text \in Seq(Characters), NEW M, NEW ss, InARow(text, ss), \A i \in 1 .. Len(ss) : ss[i].handle \in M
  PROVE  /\ Split(text, ss) \in Seq(Nodes) /\ Shown(Split(text, ss)) = text
         /\ PageFine(Split(text, ss), M)
         /\ \A i \in 1 .. Len(Split(text, ss)) : Split(text, ss)[i].is \in {"text", "mention"}
         /\ \A i \in 1 .. Len(ss) : Has(Split(text, ss), Marked(text, ss[i]))
  <1> DEFINE n == Len(ss)
             parts == Parts(text, ss)
             pre(i) == Prose(text, EndOf(ss, i - 1) + 1, ss[i].from - 1)
  <1>1. n \in Nat /\ Len(text) \in Nat /\ \A i \in 1 .. n : Mention(text, ss[i])
    <2>1. ss \in Seq(SpanSet(text)) /\ \A i \in 1 .. n : Mention(text, ss[i])
      BY DEF InARow
    <2> QED BY <2>1
  <1>2. ASSUME NEW i \in 1 .. n
        PROVE  pre(i) \in Seq(Nodes) /\ Marked(text, ss[i]) \in Nodes
    <2> DEFINE m == EndOf(ss, i - 1)
               k == ss[i].from - 1
    <2>1. m \in Nat /\ k \in Nat /\ k <= Len(text)
      BY <1>1, EndsAre
    <2> HIDE DEF m, k
    <2>2. Prose(text, m + 1, k) \in Seq(Nodes)
      BY <2>1, ProseIs
    <2>3. Marked(text, ss[i]) \in Nodes
      BY <1>1, MarkedIs
    <2> QED BY <2>2, <2>3 DEF m, k
  <1> HIDE DEF pre
  <1>3. parts = [i \in 1 .. n |-> Append(pre(i), Marked(text, ss[i]))]
    BY Zenon DEF Parts, pre
  <1> HIDE DEF parts
  <1>4. \A i \in 1 .. n : Append(pre(i), Marked(text, ss[i])) \in Seq(Nodes)
    BY <1>2
  <1>5. parts \in Seq(Seq(Nodes)) /\ Len(parts) = n
    <2>1. parts \in [1 .. n -> Seq(Nodes)]
      BY <1>3, <1>4, Zenon
    <2> HIDE DEF n
    <2> QED BY <2>1, <1>1, FunctionIsSeq
  <1>6. PICK f : Joins(parts, f) /\ FlattenSeq(parts) = f[n]
    BY <1>5, FlatIs
  <1>7. f[0] = <<>> /\ \A i \in 1 .. n : f[i] = f[i - 1] \o Append(pre(i), Marked(text, ss[i]))
    <2>1. f[0] = <<>> /\ \A i \in 1 .. n : f[i] = f[i - 1] \o parts[i]
      BY <1>5, <1>6 DEF Joins
    <2>2. \A i \in 1 .. n : parts[i] = Append(pre(i), Marked(text, ss[i]))
      BY <1>3
    <2> QED BY <2>1, <2>2
  <1> DEFINE Good(i) == /\ Fit(text, M, f[i], EndOf(ss, i))
                        /\ \A k \in 1 .. i : Has(f[i], Marked(text, ss[k]))
             P == {i \in Nat : i <= n => Good(i)}
  <1>8. 0 \in P
    <2>1. EndOf(ss, 0) = 0 /\ 1 .. 0 = {}
      BY DEF EndOf
    <2>2. Fit(text, M, <<>>, 0)
      BY FitBegins
    <2> QED BY <2>1, <2>2, <1>7
  <1>9. ASSUME NEW i \in Nat, i \in P PROVE i + 1 \in P
    <2> SUFFICES ASSUME i + 1 <= n PROVE Good(i + 1)
      OBVIOUS
    <2>1. Good(i)
      BY <1>9, <1>1
    <2> DEFINE j == i + 1
               m == EndOf(ss, i)
               s == ss[j]
               q == f[i] \o pre(j)
    <2>2. j \in 1 .. n /\ j - 1 = i
      BY <1>1
    <2> HIDE DEF j
    <2>3. f[j] = f[i] \o Append(pre(j), Marked(text, s))
      BY <2>2, <1>7
    <2>4. Fit(text, M, f[i], m) /\ f[i] \in Seq(Nodes)
      BY <2>1 DEF Fit
    <2>5. /\ m \in 0 .. s.from - 1 /\ EndOf(ss, j) = s.to
          /\ s.from \in 1 .. Len(text) /\ s.to \in 1 .. Len(text)
      BY <2>2, EndsAre
    <2>6. pre(j) = Prose(text, m + 1, s.from - 1)
      BY <2>2 DEF pre
    <2>7. Mention(text, s) /\ s.handle \in M /\ pre(j) \in Seq(Nodes) /\ Marked(text, s) \in Nodes
      BY <2>2, <1>1, <1>2
    <2> HIDE DEF m, s
    <2>8. s.from - 1 \in m .. Len(text)
      BY <2>5, <1>1
    <2>9. Fit(text, M, q, s.from - 1)
      BY <2>4, <2>6, <2>8, FitProse
    <2>10. Fit(text, M, Append(q, Marked(text, s)), s.to)
      BY <2>7, <2>9, FitMarked
    <2>11. f[j] = Append(q, Marked(text, s)) /\ q \in Seq(Nodes)
      <3> DEFINE a == f[i]
                 b == pre(j)
                 c == Marked(text, s)
      <3>1. a \in Seq(Nodes) /\ b \in Seq(Nodes) /\ c \in Nodes
        BY <2>4, <2>7, Zenon
      <3> HIDE DEF a, b, c
      <3>2. a \o Append(b, c) = Append(a \o b, c)
        BY <3>1, ConcatAppend
      <3>3. a \o b \in Seq(Nodes)
        BY <3>1
      <3> QED BY <3>2, <3>3, <2>3, Zenon DEF a, b, c
    <2>12. \A k \in 1 .. i : Has(f[j], Marked(text, ss[k]))
      <3> SUFFICES ASSUME NEW k \in 1 .. i PROVE Has(f[j], Marked(text, ss[k]))
        OBVIOUS
      <3>1. Has(f[i], Marked(text, ss[k]))
        BY <2>1
      <3>2. Has(q, Marked(text, ss[k]))
        BY <3>1, <2>4, <2>7, HasConcat
      <3> HIDE DEF q
      <3>3. Has(Append(q, Marked(text, s)), Marked(text, ss[k]))
        BY <3>2, <2>7, <2>11, HasAppend
      <3> QED BY <3>3, <2>11, Zenon
    <2>13. Has(f[j], Marked(text, ss[j]))
      <3> HIDE DEF q
      <3>1. Has(Append(q, Marked(text, s)), Marked(text, s))
        BY <2>7, <2>11, HasAppend
      <3> QED BY <3>1, <2>11, Zenon DEF s
    <2>14. \A k \in 1 .. j : k \in 1 .. i \/ k = j
      BY <2>2
    <2>15. Good(j)
      BY <2>5, <2>10, <2>11, <2>12, <2>13, <2>14, Zenon
    <2> QED BY <2>15 DEF j
  <1> HIDE DEF P
  <1>10. Nat \subseteq P
    BY <1>8, <1>9, NatInduct
  <1>11. Good(n)
    BY <1>10, <1>1 DEF P
  <1> DEFINE e == EndOf(ss, n)
             rest == Prose(text, e + 1, Len(text))
             out == Split(text, ss)
  <1>12. out = f[n] \o rest
    BY <1>6, SplitParts, Zenon DEF parts
  <1>13. Fit(text, M, f[n], e) /\ f[n] \in Seq(Nodes) /\ e \in 0 .. Len(text)
    BY <1>11 DEF Fit
  <1> HIDE DEF e, rest, out
  <1>14. Fit(text, M, out, Len(text))
    <2>1. Len(text) \in e .. Len(text)
      BY <1>1, <1>13
    <2>2. Fit(text, M, f[n] \o rest, Len(text))
      BY <2>1, <1>13, FitProse DEF rest
    <2> QED BY <2>2, <1>12, Zenon
  <1>15. rest \in Seq(Nodes)
    <2>1. e \in Nat /\ Len(text) \in Nat /\ Len(text) <= Len(text)
      BY <1>1, <1>13
    <2> QED BY <2>1, ProseIs DEF rest
  <1>16. \A i \in 1 .. n : Has(out, Marked(text, ss[i]))
    <2> SUFFICES ASSUME NEW i \in 1 .. n PROVE Has(out, Marked(text, ss[i]))
      OBVIOUS
    <2>1. Has(f[n], Marked(text, ss[i]))
      BY <1>11
    <2>2. Has(f[n] \o rest, Marked(text, ss[i]))
      BY <2>1, <1>13, <1>15, HasConcat
    <2> QED BY <2>2, <1>12, Zenon
  <1>17. Shown(out) = text
    <2>1. Shown(out) = SubSeq(text, 1, Len(text))
      BY <1>14, Zenon DEF Fit
    <2>2. SubSeq(text, 1, Len(text)) = text
      OBVIOUS
    <2> QED BY <2>1, <2>2
  <1> QED BY <1>14, <1>16, <1>17, Zenon DEF Fit, out

-----------------------------------------------------------------------------
(* A page.                                                                 *)

LEMMA OneNode ==
  ASSUME NEW n \in Nodes, n.is \in PostKinds, NEW M
  PROVE  /\ <<n>> \in Seq(Nodes) /\ <<n>> # <<>> /\ Len(<<n>>) = 1 /\ <<n>>[1] = n
         /\ Shown(<<n>>) = ShownOf(n) /\ PageFine(<<n>>, M)
  <1>1. /\ <<n>> \in Seq(Nodes) /\ <<n>> # <<>> /\ Len(<<n>>) = 1 /\ <<n>>[1] = n
        /\ <<n>> = Append(<<>>, n) /\ <<>> \in Seq(Nodes)
    OBVIOUS
  <1>2. Shown(<<n>>) = ShownOf(n)
    <2>1. Shown(Append(<<>>, n)) = Shown(<<>>) \o ShownOf(n)
      BY <1>1, ShownAppend
    <2>2. ShownOf(n) \in Seq(Characters)
      BY NodeIs
    <2>3. <<>> \o ShownOf(n) = ShownOf(n)
      BY <2>2, ConcatEmpty
    <2> QED BY <2>1, <2>3, <1>1, ShownEmpty, Zenon
  <1>3. n.is # "mention"
    BY DEF PostKinds
  <1>4. PageFine(<<n>>, M)
    <2>1. PageFine(<<>>, M)
      BY DEF PageFine
    <2>2. NodeFine(n, M)
      BY <1>3 DEF NodeFine
    <2>3. PageFine(Append(<<>>, n), M)
      BY <1>1, <2>1, <2>2, PageAppend
    <2> QED BY <2>3, <1>1
  <1> QED BY <1>1, <1>2, <1>4, Zenon

LEMMA MarkedUpIs ==
  ASSUME NEW n \in Nodes, n.is \in PostKinds, NEW M
  PROVE  /\ MarkedUp(n, M) \in Seq(Nodes) /\ MarkedUp(n, M) # <<>>
         /\ Shown(MarkedUp(n, M)) = ShownOf(n) /\ PageFine(MarkedUp(n, M), M)
         /\ n.is # "text" => MarkedUp(n, M) = <<n>>
         /\ n.is = "text" => \A s \in Range(MentionSpans(n.chars)) : s.handle \in M =>
                                Has(MarkedUp(n, M), Marked(n.chars, s))
  <1> DEFINE text == n.chars
             ss == SpansFor(text, M)
             b == MarkedUp(n, M)
  <1>1. text \in Seq(Characters)
    BY NodeIs
  <1>2. /\ InARow(text, ss)
        /\ \A i \in 1 .. Len(ss) : ss[i].handle \in M
        /\ \A s \in Range(MentionSpans(text)) : s.handle \in M => \E i \in 1 .. Len(ss) : ss[i] = s
    BY <1>1, SpansForAre
  <1>3. CASE n.is = "text" /\ ss # <<>>
    <2>1. b = Split(text, ss)
      BY <1>3, Zenon DEF MarkedUp
    <2> HIDE DEF text, ss
    <2>2. /\ Split(text, ss) \in Seq(Nodes) /\ Shown(Split(text, ss)) = text
          /\ PageFine(Split(text, ss), M)
          /\ \A i \in 1 .. Len(ss) : Has(Split(text, ss), Marked(text, ss[i]))
      BY <1>1, <1>2, SplitIs
    <2>3. Split(text, ss) # <<>>
      <3>1. ss \in Seq(SpanSet(text))
        BY <1>2, Zenon DEF InARow
      <3>2. 1 \in 1 .. Len(ss)
        BY <3>1, <1>3
      <3>3. Has(Split(text, ss), Marked(text, ss[1]))
        BY <3>2, <2>2
      <3> QED BY <3>3 DEF Has
    <2>4. ShownOf(n) = text
      BY <1>3 DEF ShownOf, text
    <2>5. \A s \in Range(MentionSpans(text)) : s.handle \in M => Has(Split(text, ss), Marked(text, s))
      BY <1>2, <2>2
    <2> QED BY <2>1, <2>2, <2>3, <2>4, <2>5, <1>3, Zenon DEF text
  <1>4. CASE ~(n.is = "text" /\ ss # <<>>)
    <2>1. b = <<n>>
      BY <1>4, Zenon DEF MarkedUp
    <2>2. /\ <<n>> \in Seq(Nodes) /\ <<n>> # <<>>
          /\ Shown(<<n>>) = ShownOf(n) /\ PageFine(<<n>>, M)
      BY OneNode
    <2> HIDE DEF text, ss
    <2>3. ASSUME n.is = "text", NEW s \in Range(MentionSpans(text)), s.handle \in M PROVE FALSE
      <3>1. ss = <<>>
        BY <1>4, <2>3
      <3>2. \E i \in 1 .. Len(ss) : ss[i] = s
        BY <1>2, <2>3
      <3> QED BY <3>1, <3>2
    <2> QED BY <2>1, <2>2, <2>3, Zenon DEF text
  <1> QED BY <1>3, <1>4

\* Prose ends in a piece of prose or a name, and begins with one; nothing else does.
LEMMA EdgesOfProse ==
  ASSUME NEW n \in Nodes, n.is \in PostKinds, NEW M, NEW i \in 1 .. Len(MarkedUp(n, M)),
         MarkedUp(n, M)[i].is \in {"text", "mention"}
  PROVE  n.is = "text"
  <1> SUFFICES ASSUME n.is # "text" PROVE FALSE
    OBVIOUS
  <1>1. MarkedUp(n, M) = <<n>>
    BY MarkedUpIs
  <1>2. Len(<<n>>) = 1 /\ <<n>>[1] = n
    OBVIOUS
  <1>3. i = 1 /\ MarkedUp(n, M)[i] = n
    BY <1>1, <1>2
  <1> QED BY <1>3 DEF PostKinds

\* The nodes, marked up one by one.
MarkedParts(m, M) == [i \in 1 .. Len(m) |-> MarkedUp(m[i], M)]

LEMMA MarkedPartsAre ==
  ASSUME NEW m \in Seq(Nodes), \A i \in 1 .. Len(m) : m[i].is \in PostKinds, NEW M
  PROVE  /\ MarkedParts(m, M) \in Seq(Seq(Nodes)) /\ Len(MarkedParts(m, M)) = Len(m)
         /\ \A i \in 1 .. Len(m) : MarkedParts(m, M)[i] = MarkedUp(m[i], M)
  <1> DEFINE n == Len(m)
             p == MarkedParts(m, M)
  <1>1. \A i \in 1 .. n : MarkedUp(m[i], M) \in Seq(Nodes)
    BY NodeAt, MarkedUpIs
  <1>2. p \in [1 .. n -> Seq(Nodes)] /\ \A i \in 1 .. n : p[i] = MarkedUp(m[i], M)
    BY <1>1, Zenon DEF MarkedParts
  <1>3. n \in Nat
    OBVIOUS
  <1> HIDE DEF n, p
  <1>4. p \in Seq(Seq(Nodes)) /\ Len(p) = n
    BY <1>2, <1>3, FunctionIsSeq
  <1> QED BY <1>2, <1>4, Zenon DEF n, p

\* The marked up nodes, one behind the other.
PageOf(m, M) == FlattenSeq(MarkedParts(m, M))

PageGood(r, p, M) ==
  /\ p \in Seq(Nodes) /\ Shown(p) = Shown(r) /\ PageFine(p, M)
  /\ p # <<>> /\ p[Len(p)].is \in {"text", "mention"} => r # <<>> /\ r[Len(r)].is = "text"
  /\ \A i \in 1 .. Len(r) : r[i].is = "text" =>
        \A s \in Range(MentionSpans(r[i].chars)) : s.handle \in M => Has(p, Marked(r[i].chars, s))

LEMMA MarkedPartsAppend ==
  ASSUME NEW r \in Seq(Nodes), NEW x \in Nodes, NEW M,
         \A i \in 1 .. Len(r) : r[i].is \in PostKinds, x.is \in PostKinds
  PROVE  /\ PageOf(r, M) \in Seq(Nodes)
         /\ PageOf(Append(r, x), M) = PageOf(r, M) \o MarkedUp(x, M)
  <1> DEFINE t == Append(r, x)
             n == Len(r)
             a == MarkedParts(r, M)
             c == MarkedParts(t, M)
             b == MarkedUp(x, M)
  <1>1. t \in Seq(Nodes) /\ n \in Nat /\ Len(t) = n + 1 /\ t[n + 1] = x /\ \A i \in 1 .. n : t[i] = r[i]
    OBVIOUS
  <1> HIDE DEF t
  <1>2. \A i \in 1 .. n + 1 : t[i].is \in PostKinds
    <2> SUFFICES ASSUME NEW i \in 1 .. n + 1 PROVE t[i].is \in PostKinds
      OBVIOUS
    <2>1. CASE i = n + 1
      BY <2>1, <1>1
    <2>2. CASE i # n + 1
      <3>1. i \in 1 .. n
        BY <2>2, <1>1
      <3> QED BY <3>1, <1>1
    <2> QED BY <2>1, <2>2
  <1>3. a \in Seq(Seq(Nodes)) /\ Len(a) = n /\ \A i \in 1 .. n : a[i] = MarkedUp(r[i], M)
    BY MarkedPartsAre
  <1>4. c \in Seq(Seq(Nodes)) /\ Len(c) = n + 1 /\ \A i \in 1 .. n + 1 : c[i] = MarkedUp(t[i], M)
    BY <1>1, <1>2, MarkedPartsAre
  <1>5. b \in Seq(Nodes)
    BY MarkedUpIs
  <1>6. c = Append(a, b)
    <2>1. \A i \in 1 .. n : c[i] = a[i]
      BY <1>1, <1>3, <1>4
    <2>2. c[n + 1] = b
      BY <1>1, <1>4
    <2> HIDE DEF a, b, c
    <2>3. c = Append(a, b)
      BY <2>1, <2>2, <1>1, <1>3, <1>4, <1>5
    <2> QED BY <2>3
  <1>7. FlattenSeq(a) \in Seq(Nodes) /\ FlattenSeq(Append(a, b)) = FlattenSeq(a) \o b
    <2> HIDE DEF a, b
    <2> QED BY <1>3, <1>5, FlatAppend
  <1> QED BY <1>6, <1>7, Zenon DEF PageOf, t

\* A page says what its nodes say, and names who is named in them.
LEMMA PageIs ==
  ASSUME NEW m \in Seq(Nodes), NEW M, Alternating(m), \A i \in 1 .. Len(m) : m[i].is \in PostKinds
  PROVE  PageGood(m, PageOf(m, M), M)
  <1> DEFINE Unmarked(r) == Alternating(r) /\ \A i \in 1 .. Len(r) : r[i].is \in PostKinds
             P == {r \in Seq(Nodes) : Unmarked(r) => PageGood(r, PageOf(r, M), M)}
  <1>1. <<>> \in P
    <2>1. <<>> \in Seq(Nodes) /\ Len(<<>>) = 0
      OBVIOUS
    <2>2. PageOf(<<>>, M) = <<>>
      <3>1. MarkedParts(<<>>, M) = <<>>
        <4>1. MarkedParts(<<>>, M) \in Seq(Seq(Nodes)) /\ Len(MarkedParts(<<>>, M)) = 0
          <5>1. \A i \in 1 .. Len(<<>>) : <<>>[i].is \in PostKinds
            BY <2>1
          <5>2. \E e \in Seq(Nodes) : e = <<>> /\ \A i \in 1 .. Len(e) : e[i].is \in PostKinds
            BY <2>1, <5>1, Zenon
          <5> QED BY <5>2, MarkedPartsAre
        <4> QED BY <4>1
      <3> QED BY <3>1, FlatEmpty DEF PageOf
    <2>3. PageFine(<<>>, M)
      BY DEF PageFine
    <2>4. PageGood(<<>>, <<>>, M)
      BY <2>1, <2>3 DEF PageGood
    <2>5. PageGood(<<>>, PageOf(<<>>, M), M)
      BY <2>2, <2>4, Zenon
    <2> QED BY <2>1, <2>5, Zenon
  <1>2. ASSUME NEW r \in Seq(Nodes), NEW x \in Nodes, r \in P PROVE Append(r, x) \in P
    <2> DEFINE t == Append(r, x)
               n == Len(r)
               p == PageOf(r, M)
               b == MarkedUp(x, M)
               q == p \o b
    <2>1. t \in Seq(Nodes) /\ n \in Nat /\ Len(t) = n + 1 /\ t[n + 1] = x /\ \A i \in 1 .. n : t[i] = r[i]
      OBVIOUS
    <2>2. Shown(t) = Shown(r) \o ShownOf(x)
      BY ShownAppend
    <2> SUFFICES ASSUME Unmarked(t) PROVE PageGood(t, PageOf(t, M), M)
      BY <2>1
    <2>3. PageOf(t, M) = p \o b
      <3>1. (\A i \in 1 .. n : r[i].is \in PostKinds) /\ x.is \in PostKinds
        <4>1. n + 1 \in 1 .. Len(t) /\ \A i \in 1 .. n : i \in 1 .. Len(t)
          BY <2>1
        <4> HIDE DEF t
        <4> QED BY <4>1, <2>1
      <3> QED BY <3>1, MarkedPartsAppend
    <2> HIDE DEF t
    <2>4. n + 1 \in 1 .. Len(t) /\ \A i \in 1 .. n : i \in 1 .. Len(t)
      BY <2>1
    <2>5. (\A i \in 1 .. n : r[i].is \in PostKinds) /\ x.is \in PostKinds
      BY <2>1, <2>4
    <2>6. Alternating(r)
      <3> SUFFICES ASSUME NEW i \in 1 .. n - 1 PROVE ~(r[i].is = "text" /\ r[i + 1].is = "text")
        BY DEF Alternating
      <3>1. i \in 1 .. Len(t) - 1 /\ t[i] = r[i] /\ t[i + 1] = r[i + 1]
        BY <2>1
      <3>2. Alternating(t)
        OBVIOUS
      <3> QED BY <3>1, <3>2 DEF Alternating
    <2>7. PageGood(r, p, M)
      BY <1>2, <2>5, <2>6
    <2> HIDE DEF p
    <2>8. /\ p \in Seq(Nodes) /\ Shown(p) = Shown(r) /\ PageFine(p, M)
          /\ (p # <<>> /\ p[Len(p)].is \in {"text", "mention"} => r # <<>> /\ r[Len(r)].is = "text")
          /\ \A i \in 1 .. Len(r) : r[i].is = "text" =>
                \A s \in Range(MentionSpans(r[i].chars)) : s.handle \in M => Has(p, Marked(r[i].chars, s))
      BY <2>7, Zenon DEF PageGood
    <2>9. /\ b \in Seq(Nodes) /\ b # <<>> /\ Shown(b) = ShownOf(x) /\ PageFine(b, M)
          /\ x.is = "text" => \A s \in Range(MentionSpans(x.chars)) : s.handle \in M => Has(b, Marked(x.chars, s))
      BY <2>5, MarkedUpIs
    <2>10. \A i \in 1 .. Len(b) : b[i].is \in {"text", "mention"} => x.is = "text"
      BY <2>5, EdgesOfProse
    <2> HIDE DEF b
    <2>11. /\ q \in Seq(Nodes) /\ Len(p) \in Nat /\ Len(b) \in Nat /\ Len(q) = Len(p) + Len(b) /\ Len(b) # 0
           /\ \A i \in 1 .. Len(b) : q[Len(p) + i] = b[i]
      <3>1. Len(b) # 0
        BY <2>9
      <3>2. p \in Seq(Nodes) /\ b \in Seq(Nodes)
        BY <2>8, <2>9
      <3> QED BY <3>1, <3>2, ConcatIs
    <2>12. Shown(q) = Shown(t)
      <3>1. p \in Seq(Nodes) /\ b \in Seq(Nodes)
        BY <2>8, <2>9
      <3>2. Shown(p \o b) = Shown(p) \o Shown(b)
        BY <3>1, ShownConcat
      <3> QED BY <3>2, <2>2, <2>8, <2>9, Zenon DEF t
    <2>13. p # <<>> => Border(p[Len(p)], b[1])
      <3> SUFFICES ASSUME p # <<>>, ~Border(p[Len(p)], b[1]) PROVE FALSE
        OBVIOUS
      <3>1. p[Len(p)].is \in {"text", "mention"} /\ b[1].is \in {"text", "mention"}
        BY DEF Border
      <3>2. r # <<>> /\ r[n].is = "text"
        BY <3>1, <2>8
      <3>3. x.is = "text"
        <4>1. 1 \in 1 .. Len(b)
          BY <2>11
        <4> QED BY <4>1, <3>1, <2>10
      <3>4. n # 0
        BY <3>2
      <3>5. n \in 1 .. Len(t) - 1 /\ n \in 1 .. n
        BY <3>4, <2>1
      <3>6. t[n].is = "text" /\ t[n + 1].is = "text"
        BY <3>2, <3>3, <3>5, <2>1
      <3> QED BY <3>5, <3>6 DEF Alternating
    <2>14. PageFine(q, M)
      <3>1. p \in Seq(Nodes) /\ b \in Seq(Nodes)
        BY <2>8, <2>9
      <3>2. PageFine(p, M) /\ PageFine(b, M) /\ (p # <<>> /\ b # <<>> => Border(p[Len(p)], b[1]))
        BY <2>8, <2>9, <2>13
      <3> QED BY <3>1, <3>2, PageConcat
    <2>15. q[Len(q)].is \in {"text", "mention"} => t # <<>> /\ t[Len(t)].is = "text"
      <3>1. Len(b) \in 1 .. Len(b) /\ q[Len(q)] = b[Len(b)]
        BY <2>11
      <3>2. Len(t) # 0
        BY <2>1
      <3>3. t # <<>>
        BY <3>2
      <3> QED BY <3>1, <3>3, <2>1, <2>10
    <2>16. ASSUME NEW i \in 1 .. Len(t), t[i].is = "text",
                  NEW s \in Range(MentionSpans(t[i].chars)), s.handle \in M
           PROVE  Has(q, Marked(t[i].chars, s))
      <3>0. p \in Seq(Nodes) /\ b \in Seq(Nodes)
        BY <2>8, <2>9
      <3>1. CASE i = n + 1
        <4>1. t[i] = x
          BY <3>1, <2>1
        <4>2. Has(b, Marked(x.chars, s))
          BY <4>1, <2>9, <2>16
        <4>3. Has(p \o b, Marked(x.chars, s))
          BY <3>0, <4>2, HasConcat
        <4> QED BY <4>1, <4>3
      <3>2. CASE i # n + 1
        <4>1. i \in 1 .. n
          BY <3>2, <2>1
        <4>2. t[i] = r[i]
          BY <4>1, <2>1
        <4>3. Has(p, Marked(r[i].chars, s))
          BY <4>1, <4>2, <2>8, <2>16
        <4>4. Has(p \o b, Marked(r[i].chars, s))
          BY <3>0, <4>3, HasConcat
        <4> QED BY <4>2, <4>4
      <3> QED BY <3>1, <3>2
    <2> HIDE DEF q
    <2>17. PageGood(t, q, M)
      BY <2>11, <2>12, <2>14, <2>15, <2>16 DEF PageGood
    <2> QED BY <2>3, <2>17, Zenon DEF q
  <1> HIDE DEF P
  <1>3. Seq(Nodes) \subseteq P
    BY <1>1, <1>2, SeqInduct
  <1> QED BY <1>3 DEF P

-----------------------------------------------------------------------------
(* What the sanitizer leaves.                                              *)

LEMMA StaysHere ==
  /\ ~LeavesTheInstance(<<>>)
  /\ \A src : FromThisInstance(src) => ~LeavesTheInstance(src)
  <1> DEFINE K == SrcChars \ {"tab"}
  <1>1. Picked(<<>>, K) = <<>>
    BY PickedEmpty
  <1>2. ~LeavesTheInstance(<<>>)
    BY <1>1, Zenon DEF LeavesTheInstance
  <1>3. ASSUME NEW src, FromThisInstance(src) PROVE ~LeavesTheInstance(src)
    <2> DEFINE read == Picked(src, K)
    <2>1. read[1] = "/" /\ (Len(read) = 1 \/ read[2] \notin {"/", "\\"})
      BY <1>3, Zenon DEF FromThisInstance
    <2> HIDE DEF read
    <2>2. read[1] \in {"/", "\\"} /\ (Len(read) = 1 \/ ~(read[2] \in {"/", "\\"}))
      BY <2>1, Zenon
    <2> QED BY <2>2, Zenon DEF LeavesTheInstance, read
  <1> QED BY <1>2, <1>3, Zenon

SanitizedNode(n) ==
  IF n.is = "img" /\ ~FromThisInstance(n.chars) THEN [n EXCEPT !.chars = <<>>] ELSE n

LEMMA SanitizedNodeIs ==
  ASSUME NEW n \in Nodes
  PROVE  /\ SanitizedNode(n) \in Nodes /\ SanitizedNode(n).is = n.is
         /\ n.is # "img" => SanitizedNode(n) = n
         /\ n.is = "img" => ~LeavesTheInstance(SanitizedNode(n).chars)
         /\ ShownOf(SanitizedNode(n)) = ShownOf(n)
  <1>1. n.is \in NodeKinds /\ n = [is |-> n.is, chars |-> n.chars]
    BY NodeIs
  <1>2. CASE n.is = "img" /\ ~FromThisInstance(n.chars)
    <2>1. SanitizedNode(n) = [n EXCEPT !.chars = <<>>]
      BY <1>2, Zenon DEF SanitizedNode
    <2>2. [n EXCEPT !.chars = <<>>] = [is |-> n.is, chars |-> <<>>]
      <3>1. [[is |-> n.is, chars |-> n.chars] EXCEPT !.chars = <<>>] = [is |-> n.is, chars |-> <<>>]
        BY PutChars, Zenon
      <3> QED BY <3>1, <1>1, Zenon
    <2> DEFINE y == [is |-> n.is, chars |-> <<>>]
    <2>3. y.is = n.is /\ y.chars = <<>> /\ y \in Nodes
      <3>1. <<>> \in Seq(Characters)
        OBVIOUS
      <3> QED BY <3>1, <1>1 DEF Nodes
    <2> HIDE DEF y
    <2>4. SanitizedNode(n) = y
      BY <2>1, <2>2, Zenon DEF y
    <2>5. ShownOf(y) = ShownOf(n)
      BY <1>2, <2>3, Zenon DEF ShownOf
    <2>6. ~LeavesTheInstance(y.chars)
      BY <2>3, StaysHere, Zenon
    <2> QED BY <1>2, <2>3, <2>4, <2>5, <2>6, Zenon
  <1>3. CASE ~(n.is = "img" /\ ~FromThisInstance(n.chars))
    <2>1. SanitizedNode(n) = n
      BY <1>3, Zenon DEF SanitizedNode
    <2>2. n.is = "img" => ~LeavesTheInstance(n.chars)
      BY <1>3, StaysHere, Zenon
    <2> QED BY <2>1, <2>2, Zenon
  <1> QED BY <1>2, <1>3

LEMMA SanitizeIs ==
  ASSUME NEW q \in Seq(Nodes)
  PROVE  LET r == Sanitize(q) IN
         /\ r \in Seq(Nodes) /\ Len(r) = Len(q) /\ Shown(r) = Shown(q)
         /\ \A i \in 1 .. Len(q) : /\ r[i].is = q[i].is
                                   /\ q[i].is # "img" => r[i] = q[i]
                                   /\ q[i].is = "img" => ~LeavesTheInstance(r[i].chars)
         /\ \A M : PageFine(q, M) => PageFine(r, M)
         /\ \A x : x.is = "mention" /\ Has(q, x) => Has(r, x)
  <1> DEFINE r == Sanitize(q)
             n == Len(q)
  <1>1. n \in Nat /\ DOMAIN q = 1 .. n /\ \A i \in 1 .. n : q[i] \in Nodes
    OBVIOUS
  <1>2. r = [i \in 1 .. n |-> SanitizedNode(q[i])]
    BY <1>1, Zenon DEF Sanitize, SanitizedNode
  <1> HIDE DEF r
  <1>3. r \in [1 .. n -> Nodes] /\ \A i \in 1 .. n : r[i] = SanitizedNode(q[i])
    <2>1. \A i \in 1 .. n : SanitizedNode(q[i]) \in Nodes
      BY <1>1, SanitizedNodeIs
    <2> QED BY <2>1, <1>2, Zenon
  <1>4. r \in Seq(Nodes) /\ Len(r) = n
    <2> HIDE DEF n
    <2> QED BY <1>1, <1>3, FunctionIsSeq
  <1>5. \A i \in 1 .. n : /\ r[i].is = q[i].is
                          /\ q[i].is # "img" => r[i] = q[i]
                          /\ q[i].is = "img" => ~LeavesTheInstance(r[i].chars)
                          /\ ShownOf(r[i]) = ShownOf(q[i])
    BY <1>1, <1>3, SanitizedNodeIs
  <1>6. Shown(r) = Shown(q)
    <2>1. Says(r) = Says(q)
      BY <1>4, <1>5, Zenon DEF Says
    <2> QED BY <2>1, <1>4, SaysIs
  <1>7. ASSUME NEW M, PageFine(q, M) PROVE PageFine(r, M)
    <2>1. ASSUME NEW i \in 1 .. n PROVE NodeFine(r[i], M)
      <3>1. NodeFine(q[i], M)
        BY <1>7 DEF PageFine
      <3>2. r[i].is = "mention" => q[i].is = "mention" /\ r[i] = q[i]
        BY <1>5
      <3> QED BY <3>1, <3>2 DEF NodeFine
    <2>2. ASSUME NEW i \in 1 .. n - 1 PROVE Border(r[i], r[i + 1])
      <3>1. Border(q[i], q[i + 1]) /\ i \in 1 .. n /\ i + 1 \in 1 .. n
        BY <1>7, <1>1 DEF PageFine
      <3>2. /\ r[i].is \in {"text", "mention"} => q[i].is = r[i].is /\ r[i] = q[i]
            /\ r[i + 1].is \in {"text", "mention"} => q[i + 1].is = r[i + 1].is /\ r[i + 1] = q[i + 1]
        BY <3>1, <1>5
      <3> QED BY <3>1, <3>2 DEF Border
    <2> QED BY <2>1, <2>2, <1>4 DEF PageFine
  <1>8. ASSUME NEW x, x.is = "mention", Has(q, x) PROVE Has(r, x)
    <2>1. PICK i \in 1 .. n : q[i] = x
      BY <1>8 DEF Has
    <2>2. r[i] = x
      BY <2>1, <1>5, <1>8
    <2> QED BY <2>2, <1>4 DEF Has
  <1> QED BY <1>4, <1>5, <1>6, <1>7, <1>8 DEF r

\* The page of one run.
LEMMA RunIs ==
  ASSUME NEW m \in Seq(Nodes), NEW M, \A i \in 1 .. Len(m) : m[i].is \in PostKinds
  PROVE  LET r == RunWith(m, M) IN
         /\ r \in Seq(Nodes) /\ Shown(r) = Shown(m) /\ PageFine(r, M)
         /\ \A i \in 1 .. Len(r) : r[i].is = "img" => ~LeavesTheInstance(r[i].chars)
         /\ \A n \in TextNodes(m) : \A s \in Range(MentionSpans(n.chars)) :
               s.handle \in M => Has(r, Marked(n.chars, s))
  <1> DEFINE q == IF M = {} THEN m ELSE PageOf(Merged(m), M)
             d == Merged(m)
  <1>1. d \in Seq(Nodes) /\ Shown(d) = Shown(m) /\ Alternating(d) /\ \A i \in 1 .. Len(d) : d[i].is \in PostKinds
    BY MergedKeeps
  <1>2. DOMAIN d = 1 .. Len(d)
    BY <1>1
  <1>3. RunWith(m, M) = Sanitize(q)
    BY <1>2, Zenon DEF RunWith, PageOf, MarkedParts
  <1>4. \A n : n \in TextNodes(m) => n.is = "text" /\ n \in Nodes /\ \E i \in 1 .. Len(d) : d[i] = n
    <2>1. \A n \in TextNodes(m) : n.is = "text" /\ n \in Range(d)
      BY Zenon DEF TextNodes
    <2>2. \A n \in Range(d) : \E i \in 1 .. Len(d) : d[i] = n
      BY <1>2, Zenon DEF Range
    <2>3. \A i \in 1 .. Len(d) : d[i] \in Nodes
      BY <1>1, NodeAt
    <2> QED BY <2>1, <2>2, <2>3
  <1> HIDE DEF d
  <1>5. /\ q \in Seq(Nodes) /\ Shown(q) = Shown(m) /\ PageFine(q, M)
        /\ \A n \in TextNodes(m) : \A s \in Range(MentionSpans(n.chars)) :
              s.handle \in M => Has(q, Marked(n.chars, s))
    <2>1. CASE M = {}
      <3>1. q = m
        BY <2>1
      <3>2. \A i \in 1 .. Len(m) : m[i].is # "mention"
        BY DEF PostKinds
      <3>3. PageFine(m, M)
        <4>1. \A i \in 1 .. Len(m) - 1 : i \in 1 .. Len(m) /\ i + 1 \in 1 .. Len(m)
          OBVIOUS
        <4> QED BY <3>2, <4>1 DEF PageFine, NodeFine, Border
      <3> QED BY <2>1, <3>1, <3>3
    <2>2. CASE M # {}
      <3>1. q = PageOf(d, M)
        BY <2>2 DEF d
      <3>2. PageGood(d, PageOf(d, M), M)
        BY <1>1, PageIs
      <3> HIDE DEF q
      <3>3. /\ q \in Seq(Nodes) /\ Shown(q) = Shown(d) /\ PageFine(q, M)
            /\ \A i \in 1 .. Len(d) : d[i].is = "text" =>
                  \A s \in Range(MentionSpans(d[i].chars)) : s.handle \in M => Has(q, Marked(d[i].chars, s))
        BY <3>1, <3>2, Zenon DEF PageGood
      <3>4. ASSUME NEW n \in TextNodes(m), NEW s \in Range(MentionSpans(n.chars)), s.handle \in M
            PROVE  Has(q, Marked(n.chars, s))
        <4>1. PICK i \in 1 .. Len(d) : d[i] = n
          BY <1>4
        <4> QED BY <4>1, <3>3, <3>4, <1>4
      <3> QED BY <1>1, <3>3, <3>4
    <2> QED BY <2>1, <2>2
  <1> HIDE DEF q
  <1>6. ASSUME NEW n \in TextNodes(m), NEW s \in Range(MentionSpans(n.chars)), s.handle \in M
        PROVE  Has(Sanitize(q), Marked(n.chars, s))
    <2>1. Marked(n.chars, s).is = "mention"
      BY DEF Marked
    <2>2. Has(q, Marked(n.chars, s))
      BY <1>5, <1>6
    <2> QED BY <2>1, <2>2, <1>5, SanitizeIs
  <1>7. /\ Sanitize(q) \in Seq(Nodes) /\ Len(Sanitize(q)) = Len(q) /\ Shown(Sanitize(q)) = Shown(q)
        /\ PageFine(Sanitize(q), M)
        /\ \A i \in 1 .. Len(q) : /\ Sanitize(q)[i].is = q[i].is
                                  /\ q[i].is = "img" => ~LeavesTheInstance(Sanitize(q)[i].chars)
    BY <1>5, SanitizeIs
  <1> DEFINE r == RunWith(m, M)
  <1>8. /\ r \in Seq(Nodes) /\ Shown(r) = Shown(m) /\ PageFine(r, M)
        /\ \A i \in 1 .. Len(r) : r[i].is = "img" => ~LeavesTheInstance(r[i].chars)
    BY <1>3, <1>5, <1>7
  <1>9. \A n \in TextNodes(m) : \A s \in Range(MentionSpans(n.chars)) :
               s.handle \in M => Has(r, Marked(n.chars, s))
    BY <1>3, <1>6
  <1> QED BY <1>8, <1>9, Zenon

-----------------------------------------------------------------------------
(* Who is named, and who is told.                                          *)

\* The names that are shown are names in the post, each of an account that may read.
LEMMA HighlightedAre ==
  ASSUME NEW db \in AccountTables, NEW body
  PROVE  /\ Highlighted(db, body) \subseteq Mentions(body)
         /\ \A a \in db : a.handle \cap Highlighted(db, body) # {} <=> a \in ReadersAmong(db, Mentions(body))
  <1> DEFINE N == Mentions(body)
             R == ReadersAmong(db, N)
             H == Highlighted(db, body)
  <1>1. H = UNION {a.handle : a \in R}
    BY Zenon DEF Highlighted
  <1>2. \A a : a \in R <=> a \in db /\ a.handle \cap N # {} /\ MayRead(a)
    BY Zenon DEF ReadersAmong, ByHandles
  <1>3. /\ \A a \in db : \A h \in a.handle : a.handle = {h}
        /\ \A a, b \in db : a.handle \cap b.handle # {} => a = b
    BY AccountsAssumption
  <1> HIDE DEF N, R, H
  <1>4. ASSUME NEW a \in R, NEW h \in a.handle PROVE h \in N
    <2>1. PICK g \in a.handle : g \in N
      BY <1>2
    <2>2. a.handle = {h} /\ a.handle = {g}
      BY <1>2, <1>3
    <2> QED BY <2>1, <2>2
  <1>5. H \subseteq N
    BY <1>1, <1>4
  <1>6. ASSUME NEW a \in R PROVE a \in db /\ a.handle \cap H # {}
    <2>1. PICK h \in a.handle : h \in N
      BY <1>2
    <2>2. h \in H
      BY <1>1, <2>1
    <2> QED BY <2>1, <2>2, <1>2
  <1>7. ASSUME NEW x \in db, x.handle \cap H # {} PROVE x \in R
    <2>1. PICK h \in x.handle : h \in H
      BY <1>7
    <2>2. PICK a \in R : h \in a.handle
      BY <1>1, <2>1
    <2>3. a \in db /\ x.handle \cap a.handle # {}
      BY <2>1, <2>2, <1>2
    <2>4. x = a
      BY <2>3, <1>3
    <2> QED BY <2>4
  <1> QED BY <1>5, <1>6, <1>7 DEF H, N, R

\* Of an account that did not change, the page tells whether it was told.
LEMMA ToldAreHighlighted ==
  ASSUME NEW db \in AccountTables, NEW old \in AccountTables, NEW body, NEW a \in db \cap old
  PROVE  a.subject \in ToTell(old, Writer, body)
            <=> a.subject # Writer /\ a.handle \cap Highlighted(db, body) # {}
  <1> DEFINE N == Mentions(body)
             H == Highlighted(db, body)
  <1>1. a.handle \cap H # {} <=> a \in ReadersAmong(db, N)
    BY HighlightedAre
  <1>2. a \in ReadersAmong(db, N) <=> a.handle \cap N # {} /\ MayRead(a)
    BY Zenon DEF ReadersAmong, ByHandles
  <1>3. \A x : x \in ReadersAmong(old, N) <=> x \in old /\ x.handle \cap N # {} /\ MayRead(x)
    BY Zenon DEF ReadersAmong, ByHandles
  <1>4. \A x \in old : x.subject = a.subject => x = a
    BY AccountsAssumption
  <1>5. \A s : s \in ToTell(old, Writer, body)
               <=> s # Writer /\ \E x \in ReadersAmong(old, N) : s = x.subject
    BY Zenon DEF ToTell
  <1> HIDE DEF N, H
  <1>6. (\E x \in ReadersAmong(old, N) : a.subject = x.subject) <=> a.handle \cap N # {} /\ MayRead(a)
    <2>1. a \in old
      OBVIOUS
    <2> QED BY <2>1, <1>3, <1>4, Zenon
  <1>7. a.subject \in ToTell(old, Writer, body) <=> a.subject # Writer /\ a.handle \cap H # {}
    BY <1>1, <1>2, <1>5, <1>6, Zenon
  <1> QED BY <1>7 DEF H

\* A name that is shown stands in the prose.
LEMMA NamedInProse ==
  ASSUME NEW m \in Seq(Nodes), NEW h \in MentionsIn(m)
  PROVE  \E n \in TextNodes(m) : \E s \in Range(MentionSpans(n.chars)) :
            /\ s.handle = h
            /\ Marked(n.chars, s).is = "mention" /\ CheckedHandle(Tail(Marked(n.chars, s).chars)) = {h}
  <1>1. PICK n \in TextNodes(m) : \E s \in Range(MentionSpans(n.chars)) : s.handle = h
    BY Zenon DEF MentionsIn
  <1>2. PICK s \in Range(MentionSpans(n.chars)) : s.handle = h
    BY <1>1
  <1>3. n \in Nodes
    <2>1. n \in Range(Merged(m))
      BY Zenon DEF TextNodes
    <2>2. Merged(m) \in Seq(Nodes)
      BY MergedKeeps
    <2> QED BY <2>1, <2>2 DEF Range
  <1>4. n.chars \in Seq(Characters)
    BY <1>3, NodeIs
  <1>5. Mention(n.chars, s)
    <2>1. InARow(n.chars, MentionSpans(n.chars))
      BY <1>4, MentionSpansAre
    <2>2. /\ MentionSpans(n.chars) \in Seq(SpanSet(n.chars))
          /\ \A i \in 1 .. Len(MentionSpans(n.chars)) : Mention(n.chars, MentionSpans(n.chars)[i])
      BY <2>1, Zenon DEF InARow
    <2> QED BY <2>2 DEF Range
  <1>6. /\ Marked(n.chars, s) = [is |-> "mention", chars |-> SubSeq(n.chars, s.from, s.to)]
        /\ CheckedHandle(Tail(Marked(n.chars, s).chars)) = {s.handle}
    BY <1>4, <1>5, MarkedIs
  <1>7. Marked(n.chars, s).is = "mention"
    BY <1>6
  <1> QED BY <1>2, <1>6, <1>7, Zenon

\* Who is offered is told once the name is typed.
LEMMA OfferedAreTold ==
  ASSUME NEW db \in AccountTables, NEW a \in Offered(db, Writer), NEW h \in a.handle, Last(h) \in Letters
  PROVE  a.subject \in ToTell(db, Writer, <<<<[is |-> "text", chars |-> <<"@">> \o h]>>>>)
  <1> DEFINE t == <<"@">> \o h
             n == [is |-> "text", chars |-> t]
             end == NameEnd(t, 1)
             to == LastLetter(t, 1)
  <1>1. a \in db /\ a.subject # Writer /\ MayRead(a)
    BY Zenon DEF Offered
  <1>2. h \in Seq(HandleBytes) /\ CheckedHandle(h) = {h} /\ a.handle = {h}
    BY <1>1, AccountsAssumption
  <1>3. h # <<>>
    BY <1>2, Zenon DEF CheckedHandle
  <1>4. /\ t \in Seq(Characters) /\ Len(t) = Len(h) + 1 /\ Len(h) \in Nat /\ Len(h) > 0 /\ t[1] = "@"
        /\ \A k \in 2 .. Len(t) : t[k] \in HandleBytes
        /\ t[Len(t)] = h[Len(h)]
        /\ SubSeq(t, 2, Len(t)) = h
    <2>1. <<"@">> \in Seq(Characters) /\ Len(<<"@">>) = 1 /\ <<"@">>[1] = "@" /\ h \in Seq(Characters)
      BY <1>2, LettersAre
    <2>2. /\ t \in Seq(Characters) /\ Len(t) = 1 + Len(h)
          /\ \A i \in 1 .. 1 : t[i] = <<"@">>[i]
          /\ \A i \in 1 .. Len(h) : t[1 + i] = h[i]
      BY <2>1, ConcatIs
    <2>3. SubSeq(t, Len(<<"@">>) + 1, Len(t)) = h
      BY <2>1, CutIs
    <2>4. Len(h) \in Nat /\ Len(h) > 0
      BY <1>2, <1>3
    <2> HIDE DEF t
    <2>5. ASSUME NEW k \in 2 .. Len(t) PROVE t[k] \in HandleBytes
      <3> DEFINE i == k - 1
      <3>1. i \in 1 .. Len(h) /\ 1 + i = k
        BY <2>2, <2>4
      <3> HIDE DEF i
      <3>2. t[k] = h[i]
        BY <3>1, <2>2
      <3> QED BY <3>1, <3>2, <1>2
    <2>6. t[Len(t)] = h[Len(h)]
      BY <2>2, <2>4
    <2> QED BY <2>1, <2>2, <2>3, <2>4, <2>5, <2>6
  <1>5. t[Len(t)] \in Letters
    BY <1>4 DEF Last
  <1> HIDE DEF t, end, to
  <1>6. 1 \in 1 .. Len(t)
    BY <1>4
  <1>7. end = Len(t) + 1
    <2>1. /\ end \in 1 + 1 .. Len(t) + 1
          /\ end = Len(t) + 1 \/ t[end] \notin HandleBytes
      BY <1>4, <1>6, NameEndIs DEF end
    <2>2. ASSUME end # Len(t) + 1 PROVE FALSE
      <3>1. end \in 2 .. Len(t)
        BY <2>1, <2>2, <1>4
      <3> QED BY <3>1, <2>1, <2>2, <1>4
    <2> QED BY <2>2
  <1>8. to = Len(t)
    <2>1. to \in 1 .. end - 1 /\ \A l \in to + 1 .. end - 1 : t[l] \notin Letters
      BY <1>4, <1>6, LastLetterIs DEF end, to
    <2>2. ASSUME to # Len(t) PROVE FALSE
      <3>1. Len(t) \in to + 1 .. end - 1
        BY <2>1, <2>2, <1>7, <1>4
      <3> QED BY <3>1, <2>1, <1>5
    <2> QED BY <2>2
  <1>9. Named(t, 1) = {h}
    <2>1. Named(t, 1) = CheckedHandle(SubSeq(t, 1 + 1, to))
      BY Zenon DEF Named, to
    <2>2. SubSeq(t, 1 + 1, to) = h
      BY <1>4, <1>8
    <2> QED BY <2>1, <2>2, <1>2, Zenon
  <1>10. Counts(t, 1)
    <2>1. t[1] = "@" /\ Named(t, 1) # {} /\ NameEnd(t, 1) = Len(t) + 1
      BY <1>4, <1>7, <1>9 DEF end
    <2> QED BY <2>1, Zenon DEF Counts
  <1>11. PICK i \in 1 .. Len(MentionSpans(t)) : MentionSpans(t)[i] = SpanAt(t, 1)
    BY <1>4, <1>6, <1>10, MentionSpansAre
  <1>12. SpanAt(t, 1).handle = h
    <2>1. SpanAt(t, 1).handle = CHOOSE x \in Named(t, 1) : TRUE
      BY DEF SpanAt
    <2>2. (CHOOSE x \in Named(t, 1) : TRUE) \in Named(t, 1)
      BY <1>9
    <2> QED BY <2>1, <2>2, <1>9
  <1>13. SpanAt(t, 1) \in Range(MentionSpans(t))
    <2>1. InARow(t, MentionSpans(t))
      BY <1>4, MentionSpansAre
    <2>2. MentionSpans(t) \in Seq(SpanSet(t))
      BY <2>1, Zenon DEF InARow
    <2>3. i \in DOMAIN MentionSpans(t)
      BY <2>2
    <2> QED BY <2>3, <1>11, Zenon DEF Range
  <1>14. n \in Nodes /\ n.is = "text" /\ n.chars = t
    BY <1>4 DEF Nodes, NodeKinds, PostKinds
  <1> HIDE DEF n
  <1>15. Merged(<<n>>) = <<n>>
    <2>1. <<>> \in Seq(Nodes) /\ <<n>> = Append(<<>>, n)
      BY <1>14
    <2>2. Merged(Append(<<>>, n)) = WithNext(Merged(<<>>), n)
      BY <2>1, <1>14, MergedAppend
    <2>3. WithNext(<<>>, n) = Append(<<>>, n)
      BY Zenon DEF WithNext
    <2> QED BY <2>1, <2>2, <2>3, MergedEmpty, Zenon
  <1>16. n \in TextNodes(<<n>>)
    <2>1. n \in Range(<<n>>)
      <3>1. 1 \in DOMAIN <<n>> /\ <<n>>[1] = n
        OBVIOUS
      <3> QED BY <3>1, Zenon DEF Range
    <2> QED BY <2>1, <1>14, <1>15, Zenon DEF TextNodes
  <1>17. h \in Mentions(<<<<n>>>>)
    <2>1. h \in {s.handle : s \in Range(MentionSpans(n.chars))}
      BY <1>12, <1>13, <1>14
    <2>2. h \in MentionsIn(<<n>>)
      BY <2>1, <1>16, Zenon DEF MentionsIn
    <2>3. <<n>> \in Range(<<<<n>>>>)
      <3>1. 1 \in DOMAIN <<<<n>>>> /\ <<<<n>>>>[1] = <<n>>
        OBVIOUS
      <3> QED BY <3>1, Zenon DEF Range
    <2> QED BY <2>2, <2>3, Zenon DEF Mentions
  <1>18. a \in ReadersAmong(db, Mentions(<<<<n>>>>))
    BY <1>1, <1>17 DEF ReadersAmong, ByHandles
  <1>19. a.subject \in ToTell(db, Writer, <<<<n>>>>)
    BY <1>1, <1>18 DEF ToTell
  <1> QED BY <1>19 DEF n, t

-----------------------------------------------------------------------------
(* The post, as it is typed, written and read.                             *)

\* A run, of the kinds of nodes comrak makes.
Runs == {m \in Seq(Nodes) : m # <<>> /\ \A i \in 1 .. Len(m) : m[i].is \in PostKinds}

LEMMA RunAt ==
  ASSUME NEW m \in Runs
  PROVE  /\ m \in Seq(Nodes) /\ Len(m) \in Nat /\ Len(m) \in 1 .. Len(m)
         /\ \A i \in 1 .. Len(m) : m[i].is \in PostKinds /\ m[i] \in Nodes
  <1>1. m \in Seq(Nodes) /\ m # <<>> /\ \A i \in 1 .. Len(m) : m[i].is \in PostKinds
    BY DEF Runs
  <1>2. Len(m) \in 1 .. Len(m)
    BY <1>1
  <1> QED BY <1>1, <1>2, NodeAt

LEMMA RunOne ==
  ASSUME NEW y \in Nodes, y.is \in PostKinds
  PROVE  <<y>> \in Runs
  BY DEF Runs

LEMMA RunAppend ==
  ASSUME NEW m \in Runs, NEW y \in Nodes, y.is \in PostKinds
  PROVE  Append(m, y) \in Runs
  <1> DEFINE t == Append(m, y)
             n == Len(m)
  <1>1. m \in Seq(Nodes) /\ n \in Nat /\ \A i \in 1 .. n : m[i].is \in PostKinds
    BY RunAt
  <1>2. t \in Seq(Nodes) /\ Len(t) = n + 1 /\ t[n + 1] = y /\ \A i \in 1 .. n : t[i] = m[i]
    BY <1>1
  <1> HIDE DEF t
  <1>3. t # <<>>
    BY <1>1, <1>2
  <1>4. ASSUME NEW i \in 1 .. Len(t) PROVE t[i].is \in PostKinds
    <2>1. CASE i = n + 1
      BY <2>1, <1>2
    <2>2. CASE i # n + 1
      <3>1. i \in 1 .. n
        BY <2>2, <1>1, <1>2
      <3> QED BY <3>1, <1>1, <1>2
    <2> QED BY <2>1, <2>2
  <1>5. t \in Runs
    BY <1>2, <1>3, <1>4 DEF Runs
  <1> QED BY <1>5 DEF t

LEMMA RunPut ==
  ASSUME NEW m \in Runs, NEW y \in Nodes, y.is \in PostKinds
  PROVE  [m EXCEPT ![Len(m)] = y] \in Runs
  <1> DEFINE t == [m EXCEPT ![Len(m)] = y]
             n == Len(m)
  <1>1. m \in Seq(Nodes) /\ n \in Nat /\ n \in 1 .. n /\ \A i \in 1 .. n : m[i].is \in PostKinds
    BY RunAt
  <1>2. t \in Seq(Nodes) /\ Len(t) = n /\ \A i \in 1 .. n : t[i] = IF i = n THEN y ELSE m[i]
    BY <1>1
  <1> HIDE DEF t
  <1>3. t # <<>>
    BY <1>1, <1>2
  <1>4. \A i \in 1 .. Len(t) : t[i].is \in PostKinds
    BY <1>1, <1>2
  <1>5. t \in Runs
    BY <1>2, <1>3, <1>4 DEF Runs
  <1> QED BY <1>5 DEF t

\* A post is a sequence of runs; whom it told is whom its names told, by the
\* accounts of then.
Stored ==
  written.how = "post" =>
    /\ written.accounts \in AccountTables
    /\ written.told = ToTell(written.accounts, Writer, post)

TextsInv ==
  /\ post \in Seq(Runs)
  /\ accounts \in AccountTables
  /\ Stored

LEMMA TextsInvInit == TextsInit => TextsInv
  <1> SUFFICES ASSUME TextsInit PROVE TextsInv
    OBVIOUS
  <1>1. post = <<>> /\ accounts \in AccountTables /\ written.how = "draft"
    BY DEF TextsInit, Draft
  <1>2. <<>> \in Seq(Runs)
    OBVIOUS
  <1> QED BY <1>1, <1>2 DEF TextsInv, Stored

\* While the post is typed, nothing is stored.
LEMMA TypedKeeps ==
  ASSUME TextsInv, written = Draft, post' \in Seq(Runs), UNCHANGED <<accounts, written>>
  PROVE  TextsInv'
  <1>1. written'.how = "draft" /\ accounts' \in AccountTables
    BY DEF TextsInv, Draft
  <1> QED BY <1>1 DEF TextsInv, Stored

LEMMA OpenNodeKeeps ==
  ASSUME TextsInv, NEW is \in {"text", "quoted", "img"}, NEW apart \in BOOLEAN, OpenNode(is, apart)
  PROVE  TextsInv'
  <1> DEFINE y == [is |-> is, chars |-> <<>>]
             n == Len(post)
  <1>1. post \in Seq(Runs) /\ n \in Nat
    BY DEF TextsInv
  <1>2. y \in Nodes /\ y.is \in PostKinds
    <2>1. <<>> \in Seq(Characters) /\ is \in PostKinds
      BY DEF PostKinds
    <2> QED BY <2>1 DEF Nodes, NodeKinds
  <1>3. \/ post' = Append(post, <<y>>)
        \/ post # <<>> /\ post' = [post EXCEPT ![n] = Append(@, y)]
    BY Zenon DEF OpenNode
  <1> HIDE DEF y
  <1>4. post' \in Seq(Runs)
    <2>1. CASE post' = Append(post, <<y>>)
      <3>1. <<y>> \in Runs
        BY <1>2, RunOne
      <3> QED BY <3>1, <2>1, <1>1
    <2>2. CASE post # <<>> /\ post' = [post EXCEPT ![n] = Append(@, y)]
      <3>1. n \in 1 .. n /\ post[n] \in Runs
        BY <2>2, <1>1
      <3>2. Append(post[n], y) \in Runs
        BY <3>1, <1>2, RunAppend
      <3>3. post' = [post EXCEPT ![n] = Append(post[n], y)]
        BY <2>2
      <3> QED BY <3>1, <3>2, <3>3, <1>1
    <2> QED BY <2>1, <2>2, <1>3
  <1>5. written = Draft /\ UNCHANGED <<accounts, written>>
    BY Zenon DEF OpenNode
  <1> QED BY <1>4, <1>5, TypedKeeps

LEMMA TypeKeeps ==
  ASSUME TextsInv, NEW c \in TextChars \cup SrcChars, Type(c)
  PROVE  TextsInv'
  <1> DEFINE n == Len(post)
             run == Last(post)
             m == Len(run)
             x == run[m]
             y == [is |-> x.is, chars |-> Append(x.chars, c)]
  <1>1. post \in Seq(Runs) /\ n \in Nat
    BY DEF TextsInv
  <1>2. /\ post # <<>>
        /\ post' = [post EXCEPT ![n] = [run EXCEPT ![m].chars = Append(@, c)]]
    BY Zenon DEF Type
  <1>3. n \in 1 .. n /\ run \in Runs
    BY <1>1, <1>2 DEF Last
  <1> HIDE DEF run
  <1>4. m \in 1 .. m /\ x \in Nodes /\ x.is \in PostKinds /\ run \in Seq(Nodes)
    BY <1>3, RunAt
  <1>5. x = [is |-> x.is, chars |-> x.chars] /\ x.chars \in Seq(Characters) /\ x.is \in NodeKinds
    BY <1>4, NodeIs
  <1>6. Append(x.chars, c) \in Seq(Characters)
    <2>1. c \in Characters
      BY DEF Characters
    <2> QED BY <2>1, <1>5
  <1>7. y \in Nodes /\ y.is = x.is
    BY <1>5, <1>6 DEF Nodes
  <1>8. [x EXCEPT !.chars = Append(x.chars, c)] = y
    <2> DEFINE k == x.is
               b == x.chars
    <2>1. x = [is |-> k, chars |-> b]
      BY <1>5
    <2> HIDE DEF k, b
    <2>2. [[is |-> k, chars |-> b] EXCEPT !.chars = Append(b, c)] = [is |-> k, chars |-> Append(b, c)]
      BY PutChars, Zenon
    <2>3. [x EXCEPT !.chars = Append(b, c)] = [is |-> k, chars |-> Append(b, c)]
      BY <2>1, <2>2, Zenon
    <2> QED BY <2>3 DEF k, b
  <1>9. [run EXCEPT ![m].chars = Append(@, c)] = [run EXCEPT ![m] = y]
    <2>1. [run EXCEPT ![m].chars = Append(@, c)] = [run EXCEPT ![m] = [x EXCEPT !.chars = Append(x.chars, c)]]
      OBVIOUS
    <2> QED BY <2>1, <1>8, Zenon
  <1>10. [run EXCEPT ![m] = y] \in Runs
    <2> HIDE DEF y
    <2> QED BY <1>3, <1>4, <1>7, RunPut
  <1>11. post' = [post EXCEPT ![n] = [run EXCEPT ![m] = y]]
    BY <1>2, <1>9, Zenon
  <1> DEFINE put == [run EXCEPT ![m] = y]
  <1> HIDE DEF put
  <1>12. post' \in Seq(Runs)
    <2>1. put \in Runs /\ post' = [post EXCEPT ![n] = put]
      BY <1>10, <1>11 DEF put
    <2> QED BY <2>1, <1>1, <1>3
  <1>13. written = Draft /\ UNCHANGED <<accounts, written>>
    BY Zenon DEF Type
  <1> QED BY <1>12, <1>13, TypedKeeps

LEMMA TextsInvNext == TextsInv /\ [TextsNext]_textsVars => TextsInv'
  <1> SUFFICES ASSUME TextsInv, [TextsNext]_textsVars PROVE TextsInv'
    OBVIOUS
  <1>1. ASSUME NEW is \in {"text", "quoted", "img"}, NEW apart \in BOOLEAN, OpenNode(is, apart) PROVE TextsInv'
    BY <1>1, OpenNodeKeeps
  <1>2. ASSUME NEW c \in TextChars \cup SrcChars, Type(c) PROVE TextsInv'
    BY <1>2, TypeKeeps
  <1>3. CASE WritePost
    <2>1. /\ post' = post /\ accounts' = accounts
          /\ written' = [how |-> "post", told |-> ToTell(accounts, Writer, post), accounts |-> accounts]
      BY <1>3, Zenon DEF WritePost
    <2>2. written'.told = ToTell(accounts, Writer, post) /\ written'.accounts = accounts
      BY <2>1
    <2>3. post \in Seq(Runs) /\ accounts \in AccountTables
      BY DEF TextsInv
    <2>4. Stored'
      BY <2>1, <2>2, <2>3, Zenon DEF Stored
    <2> QED BY <2>1, <2>3, <2>4 DEF TextsInv
  <1>4. CASE AttachWith
    <2> DEFINE y == [is |-> "img", chars |-> <<"/", "x">>]
    <2>1. post' = Append(post, <<y>>) /\ accounts' = accounts
      BY <1>4, Zenon DEF AttachWith
    <2>2. written'.how = "caption"
      BY <1>4 DEF AttachWith
    <2>3. y \in Nodes /\ y.is \in PostKinds
      <3>1. <<"/", "x">> \in Seq(Characters) /\ "img" \in PostKinds
        BY DEF Characters, SrcChars, PostKinds
      <3> QED BY <3>1 DEF Nodes, NodeKinds
    <2> HIDE DEF y
    <2>4. <<y>> \in Runs
      BY <2>3, RunOne
    <2>5. post' \in Seq(Runs) /\ accounts' \in AccountTables
      BY <2>1, <2>4 DEF TextsInv
    <2> QED BY <2>2, <2>5 DEF TextsInv, Stored
  <1>5. CASE AccountsChange
    <2>1. accounts' \in AccountTables /\ post' = post /\ written' = written
      BY <1>5 DEF AccountsChange
    <2> QED BY <2>1 DEF TextsInv, Stored
  <1>6. CASE UNCHANGED textsVars
    BY <1>6 DEF TextsInv, Stored, textsVars
  <1> QED BY <1>1, <1>2, <1>3, <1>4, <1>5, <1>6, Zenon DEF TextsNext

\* What is seen of one run.
LEMMA RunMeans ==
  ASSUME NEW m \in Runs, NEW H
  PROVE  LET page == RunWith(m, H) IN
         /\ MarksOnly(page, m)
         /\ \A n \in MarkedIn(page) : CheckedHandle(Tail(n.chars)) \subseteq H
         /\ \A h \in MentionsIn(m) \cap H : \E n \in MarkedIn(page) : h \in CheckedHandle(Tail(n.chars))
         /\ \A n \in Range(page) : n.is = "img" => ~LeavesTheInstance(n.chars)
  <1> DEFINE page == RunWith(m, H)
  <1>1. m \in Seq(Nodes) /\ \A i \in 1 .. Len(m) : m[i].is \in PostKinds
    BY RunAt
  <1>2. /\ page \in Seq(Nodes) /\ Shown(page) = Shown(m) /\ PageFine(page, H)
        /\ \A i \in 1 .. Len(page) : page[i].is = "img" => ~LeavesTheInstance(page[i].chars)
        /\ \A n \in TextNodes(m) : \A s \in Range(MentionSpans(n.chars)) :
              s.handle \in H => Has(page, Marked(n.chars, s))
    BY <1>1, RunIs
  <1> HIDE DEF page
  <1>4. DOMAIN page = 1 .. Len(page) /\ Len(page) \in Nat
    BY <1>2
  <1>5. \A n \in Range(page) : \E i \in 1 .. Len(page) : page[i] = n
    BY <1>4, Zenon DEF Range
  <1>6. \A i \in 1 .. Len(page) : page[i].is = "mention" =>
           /\ \E h \in H : CheckedHandle(Tail(page[i].chars)) = {h}
           /\ Head(page[i].chars) = "@" /\ Last(page[i].chars) \in Letters
    BY <1>2, Zenon DEF PageFine, NodeFine
  <1>7. ASSUME NEW n \in MarkedIn(page) PROVE CheckedHandle(Tail(n.chars)) \subseteq H
    <2>1. n.is = "mention" /\ n \in Range(page)
      BY DEF MarkedIn
    <2>2. PICK i \in 1 .. Len(page) : page[i] = n
      BY <2>1, <1>5
    <2> QED BY <2>1, <2>2, <1>6
  <1>8. ASSUME NEW h \in MentionsIn(m) \cap H PROVE \E n \in MarkedIn(page) : h \in CheckedHandle(Tail(n.chars))
    <2>1. PICK n \in TextNodes(m) : \E s \in Range(MentionSpans(n.chars)) :
             /\ s.handle = h
             /\ Marked(n.chars, s).is = "mention" /\ CheckedHandle(Tail(Marked(n.chars, s).chars)) = {h}
      BY <1>1, NamedInProse
    <2>2. PICK s \in Range(MentionSpans(n.chars)) :
             /\ s.handle = h
             /\ Marked(n.chars, s).is = "mention" /\ CheckedHandle(Tail(Marked(n.chars, s).chars)) = {h}
      BY <2>1
    <2>3. Has(page, Marked(n.chars, s))
      BY <2>2, <1>2
    <2>4. Marked(n.chars, s) \in MarkedIn(page)
      BY <2>2, <2>3, <1>4, Zenon DEF Has, Range, MarkedIn
    <2> QED BY <2>2, <2>4
  <1>9. ASSUME NEW i \in DOMAIN page, page[i].is = "mention"
        PROVE  /\ Head(page[i].chars) = "@" /\ Last(page[i].chars) \in Letters
               /\ i > 1 /\ page[i - 1].is = "text" => Last(page[i - 1].chars) \notin AddressChars
               /\ i < Len(page) /\ page[i + 1].is = "text" =>
                     Head(page[i + 1].chars) \notin Letters \cup {"@"}
    <2>1. Head(page[i].chars) = "@" /\ Last(page[i].chars) \in Letters
      BY <1>4, <1>6, <1>9
    <2>2. \A k \in 1 .. Len(page) - 1 : Border(page[k], page[k + 1])
      BY <1>2, Zenon DEF PageFine
    <2>3. ASSUME i > 1, page[i - 1].is = "text" PROVE Last(page[i - 1].chars) \notin AddressChars
      <3> DEFINE k == i - 1
      <3>1. k \in 1 .. Len(page) - 1 /\ k + 1 = i
        BY <2>3, <1>4
      <3>2. Border(page[k], page[k + 1])
        BY <3>1, <2>2
      <3> QED BY <3>1, <3>2, <2>3, <1>9 DEF Border
    <2>4. ASSUME i < Len(page), page[i + 1].is = "text" PROVE Head(page[i + 1].chars) \notin Letters \cup {"@"}
      <3>1. i \in 1 .. Len(page) - 1
        BY <2>4, <1>4
      <3> QED BY <3>1, <2>2, <2>4, <1>9 DEF Border
    <2> QED BY <2>1, <2>3, <2>4
  <1>10. MarksOnly(page, m)
    BY <1>2, <1>9, Zenon DEF MarksOnly
  <1>11. \A n \in Range(page) : n.is = "img" => ~LeavesTheInstance(n.chars)
    BY <1>2, <1>5
  <1> QED BY <1>7, <1>8, <1>10, <1>11, Zenon DEF page

LEMMA TextsInvMeans == TextsInv => NamesAreToldAsShown
  <1> SUFFICES ASSUME TextsInv PROVE NamesAreToldAsShown
    OBVIOUS
  <1> DEFINE H == Highlighted(accounts, post)
             page == RenderWith(post, H)
             handles(run) == UNION {CheckedHandle(Tail(n.chars)) : n \in MarkedIn(run)}
  <1>1. post \in Seq(Runs) /\ accounts \in AccountTables /\ Stored
    BY DEF TextsInv
  <1>2. DOMAIN post = 1 .. Len(post) /\ \A r \in DOMAIN post : post[r] \in Runs
    BY <1>1
  <1>3. H \subseteq Mentions(post)
    BY <1>1, HighlightedAre
  <1>4. DOMAIN page = DOMAIN post /\ \A r \in DOMAIN post : page[r] = RunWith(post[r], H)
    BY DEF RenderWith
  <1> HIDE DEF H, page
  <1>5. \A r \in DOMAIN post :
           /\ MarksOnly(page[r], post[r])
           /\ \A n \in MarkedIn(page[r]) : CheckedHandle(Tail(n.chars)) \subseteq H
           /\ \A h \in MentionsIn(post[r]) \cap H : \E n \in MarkedIn(page[r]) : h \in CheckedHandle(Tail(n.chars))
           /\ \A n \in Range(page[r]) : n.is = "img" => ~LeavesTheInstance(n.chars)
    BY <1>2, <1>4, RunMeans
  <1>6. \A run \in Range(page) : \E r \in DOMAIN post : run = page[r]
    BY <1>4, Zenon DEF Range
  <1>7. \A r \in DOMAIN post : page[r] \in Range(page)
    BY <1>4, Zenon DEF Range
  <1>8. UNION {handles(run) : run \in Range(page)} = H
    <2>1. ASSUME NEW run \in Range(page) PROVE handles(run) \subseteq H
      <3>1. PICK r \in DOMAIN post : run = page[r]
        BY <1>6
      <3> QED BY <3>1, <1>5
    <2>2. ASSUME NEW h \in H PROVE \E run \in Range(page) : h \in handles(run)
      <3>1. PICK typed \in Range(post) : h \in MentionsIn(typed)
        BY <1>3, Zenon DEF Mentions
      <3>2. PICK r \in DOMAIN post : post[r] = typed
        BY <3>1, Zenon DEF Range
      <3>3. h \in MentionsIn(post[r]) \cap H
        BY <3>1, <3>2
      <3>4. PICK n \in MarkedIn(page[r]) : h \in CheckedHandle(Tail(n.chars))
        BY <3>3, <1>5
      <3>5. h \in handles(page[r])
        BY <3>4
      <3> QED BY <3>5, <1>7
    <2> QED BY <2>1, <2>2
  <1>9. written.how = "post" => ToldAs(accounts, H)
    <2> SUFFICES ASSUME written.how = "post" PROVE ToldAs(accounts, H)
      OBVIOUS
    <2>1. written.accounts \in AccountTables /\ written.told = ToTell(written.accounts, Writer, post)
      BY <1>1 DEF Stored
    <2>2. ASSUME NEW a \in accounts \cap written.accounts
          PROVE  a.subject \in ToTell(written.accounts, Writer, post)
                    <=> a.subject # Writer /\ a.handle \cap Highlighted(accounts, post) # {}
      BY <1>1, <2>1, <2>2, ToldAreHighlighted
    <2> QED BY <2>1, <2>2, Zenon DEF ToldAs, H
  <1>10. \A run \in Range(page) : \A n \in Range(run) : n.is = "img" => ~LeavesTheInstance(n.chars)
    BY <1>5, <1>6
  <1>11. \A a \in Offered(accounts, Writer) : \A h \in a.handle : Last(h) \in Letters =>
            a.subject \in ToTell(accounts, Writer, <<<<[is |-> "text", chars |-> <<"@">> \o h]>>>>)
    BY <1>1, OfferedAreTold
  <1>12. \A r \in DOMAIN page : MarksOnly(page[r], post[r])
    BY <1>4, <1>5, Zenon
  <1> QED BY <1>4, <1>8, <1>9, <1>10, <1>11, <1>12, Zenon DEF NamesAreToldAsShown, H, page

\* In every post, for every accounts then and now and every set of readers: the
\* page marks the names that the accounts of now let it, and of an account that
\* did not change since a topic, a reply or an edit was stored it marks the name
\* exactly if it was told then (mentions::to_tell, mentions::highlighted), the
\* writer's own apart.  An upload's caption, which tells nobody, is not meant,
\* nor an account that changed.  A marked name stands by itself in its run of
\* prose, what was typed is still there, who is offered while typing would be
\* told when named, and no picture is fetched from elsewhere.
THEOREM NamesToldAreNamesShown == TextsSpec => []NamesAreToldAsShown
  <1>1. TextsInit => TextsInv
    BY TextsInvInit
  <1>2. TextsInv /\ [TextsNext]_textsVars => TextsInv'
    BY TextsInvNext
  <1>3. TextsInv => NamesAreToldAsShown
    BY TextsInvMeans
  <1> QED BY <1>1, <1>2, <1>3, PTL DEF TextsSpec
=============================================================================
