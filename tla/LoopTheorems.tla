---------------------------- MODULE LoopTheorems ----------------------------
(***************************************************************************)
(* What Outside returns: a sequence of exactly the items of s outside S,   *)
(* without a repetition if s has none, and the same sequence for two lists *)
(* that skip the same positions.  What SumOver returns: the sum, in        *)
(* whatever order the elements are chosen.  What InOrder returns: the set, *)
(* each element once and after all those ahead of it.  The inductions,     *)
(* over the length of s and over the subsets of S, are on a set of         *)
(* naturals, whose least element the library provides.                     *)
(***************************************************************************)
EXTENDS Loops, SequenceTheorems, FiniteSetTheorems, WellFoundedInduction, TLAPS

\* A set of naturals has a least element: from the library, without an operator parameter.
LEMMA LeastNatural ==
    ASSUME NEW T, T \subseteq Nat, T # {}
    PROVE  \E n \in T : \A m \in T : n <= m
<1> DEFINE R == OpToRel(<, Nat)
<1>1. IsWellFoundedOn(R, Nat)
  BY NatLessThanWellFounded
<1>2. \E n \in T : \A m \in T : <<m, n>> \notin R
  <2> HIDE DEF R
  <2> QED
    BY <1>1, WFMin
<1>3. \A m, n \in Nat : <<m, n>> \in R <=> m < n
  BY DEF OpToRel
<1>4. PICK n \in T : \A m \in T : <<m, n>> \notin R
  BY <1>2
<1> HIDE DEF R
<1>5. \A m \in T : ~(m < n)
  BY <1>3, <1>4
<1> QED
  BY <1>5

\* Induction up to N, on a set.
LEMMA InductionUpTo ==
    ASSUME NEW N \in Nat, NEW T, 0 \in T,
           \A n \in 1 .. N : n - 1 \in T => n \in T
    PROVE  \A n \in 0 .. N : n \in T
<1> SUFFICES ASSUME (0 .. N) \ T # {} PROVE FALSE
  OBVIOUS
<1>1. PICK n \in (0 .. N) \ T : \A m \in (0 .. N) \ T : n <= m
  <2>1. (0 .. N) \ T \subseteq Nat
    OBVIOUS
  <2> QED
    BY <2>1, LeastNatural
<1>2. n \in 1 .. N /\ n - 1 \in 0 .. N /\ n - 1 \in T
  BY <1>1
<1> QED
  BY <1>1, <1>2

\* The prefixes of s as Outside walks over it: f[n] is what is left of n items.
WalksOver(f, s, S) ==
    /\ Outside(s, S) = f[Len(s)]
    /\ f[0] = << >>
    /\ \A n \in 1 .. Len(s) :
        f[n] = IF s[n] \in S THEN f[n - 1] ELSE Append(f[n - 1], s[n])

\* The recursive function exists and satisfies its equation.
LEMMA OutsideUnfolds ==
    ASSUME NEW X, NEW s \in Seq(X), NEW S
    PROVE  \E f \in [0 .. Len(s) -> Seq(X)] : WalksOver(f, s, S)
<1> DEFINE Body(f, n) == IF n = 0 THEN << >>
                         ELSE IF s[n] \in S THEN f[n - 1]
                         ELSE Append(f[n - 1], s[n])
           Solves(f, m) == \A n \in 0 .. m : f[n] = Body(f, n)
           T == {m \in 0 .. Len(s) : \E f \in [0 .. m -> Seq(X)] : Solves(f, m)}
<1>1. 0 \in T
  <2> DEFINE f == [i \in 0 .. 0 |-> << >>]
  <2>1. f \in [0 .. 0 -> Seq(X)]
    OBVIOUS
  <2>2. Solves(f, 0)
    OBVIOUS
  <2>3. 0 \in 0 .. Len(s)
    OBVIOUS
  <2> HIDE DEF f, Solves
  <2> QED
    BY <2>1, <2>2, <2>3
<1>2. ASSUME NEW m \in 1 .. Len(s), m - 1 \in T
      PROVE  m \in T
  <2>1. PICK g \in [0 .. m - 1 -> Seq(X)] : Solves(g, m - 1)
    BY <1>2
  <2> DEFINE h == [n \in 0 .. m |-> IF n = m THEN Body(g, m) ELSE g[n]]
  <2>2. Body(g, m) \in Seq(X)
    BY <2>1
  <2>3. h \in [0 .. m -> Seq(X)]
    BY <2>2, <2>1
  <2>4. ASSUME NEW n \in 0 .. m PROVE h[n] = Body(h, n)
    <3>1. CASE n = m
      BY <3>1
    <3>2. CASE n # m
      <4>1. n \in 0 .. m - 1
        BY <3>2
      <4>2. h[n] = g[n] /\ g[n] = Body(g, n)
        BY <4>1, <2>1
      <4>3. n # 0 => h[n - 1] = g[n - 1]
        BY <4>1
      <4> QED
        BY <4>2, <4>3
    <3> QED
      BY <3>1, <3>2
  <2>5. Solves(h, m)
    BY <2>4
  <2>6. m \in 0 .. Len(s)
    OBVIOUS
  <2> HIDE DEF h, Solves
  <2> QED
    BY <2>3, <2>5, <2>6
<1>3. Len(s) \in T
  <2>1. Len(s) \in Nat
    OBVIOUS
  <2> HIDE DEF T
  <2>2. \A n \in 1 .. Len(s) : n - 1 \in T => n \in T
    BY <1>2
  <2>3. \A n \in 0 .. Len(s) : n \in T
    BY <1>1, <2>1, <2>2, InductionUpTo
  <2> QED
    BY <2>1, <2>3
<1>4. PICK f \in [0 .. Len(s) -> Seq(X)] : Solves(f, Len(s))
  BY <1>3
<1> DEFINE Equation(g) == g = [n \in 0 .. Len(s) |-> Body(g, n)]
           chosen == CHOOSE g : Equation(g)
<1>5. Equation(f)
  BY <1>4
<1>6. Equation(chosen)
  BY <1>5
<1>7. Outside(s, S) = chosen[Len(s)]
  BY DEF Outside
<1>8. PICK c : Equation(c) /\ Outside(s, S) = c[Len(s)]
  <2> HIDE DEF chosen, Equation
  <2> QED
    BY <1>6, <1>7
<1>9. DOMAIN c = 0 .. Len(s) /\ \A n \in 0 .. Len(s) : c[n] = Body(c, n)
  BY <1>8
<1>10. 0 \in 0 .. Len(s)
  OBVIOUS
<1>11. c[0] = << >>
  <2>1. c[0] = Body(c, 0)
    BY <1>9, <1>10, Zenon
  <2> QED
    BY <2>1
<1>12. ASSUME NEW n \in 1 .. Len(s)
       PROVE  c[n] = IF s[n] \in S THEN c[n - 1] ELSE Append(c[n - 1], s[n])
  <2>1. n \in 0 .. Len(s) /\ n # 0
    OBVIOUS
  <2>2. c[n] = Body(c, n)
    BY <2>1, <1>9, Zenon
  <2> QED
    BY <2>1, <2>2, Zenon
<1>13. \A n \in 0 .. Len(s) : c[n] \in Seq(X)
  <2> DEFINE U == {n \in 0 .. Len(s) : c[n] \in Seq(X)}
  <2>1. 0 \in U
    <3>1. << >> \in Seq(X)
      OBVIOUS
    <3> QED
      BY <3>1, <1>10, <1>11, Zenon
  <2>2. ASSUME NEW n \in 1 .. Len(s), n - 1 \in U PROVE n \in U
    <3>1. s[n] \in X /\ n \in 0 .. Len(s)
      OBVIOUS
    <3>2. c[n - 1] \in Seq(X)
      BY <2>2, Zenon
    <3>3. Append(c[n - 1], s[n]) \in Seq(X)
      BY <3>1, <3>2, AppendProperties
    <3>4. c[n] \in Seq(X)
      BY <1>12, <3>2, <3>3, Zenon
    <3> QED
      BY <3>1, <3>4, Zenon
  <2>3. \A n \in 0 .. Len(s) : n \in U
    <3>1. Len(s) \in Nat
      OBVIOUS
    <3> HIDE DEF U
    <3>2. \A n \in 1 .. Len(s) : n - 1 \in U => n \in U
      BY <2>2
    <3> QED
      BY <2>1, <3>1, <3>2, InductionUpTo
  <2> QED
    BY <2>3, Zenon
<1>14. c \in [0 .. Len(s) -> Seq(X)]
  <2>1. c = [n \in 0 .. Len(s) |-> c[n]]
    BY <1>8, <1>9, Zenon
  <2> QED
    BY <2>1, <1>13, Zenon
<1>15. WalksOver(c, s, S)
  BY <1>8, <1>11, <1>12, Zenon DEF WalksOver
<1> QED
  BY <1>14, <1>15

\* The sequence holds no item of S, ...
LEMMA OutsideIsSeq ==
    ASSUME NEW X, NEW s \in Seq(X), NEW S
    PROVE  Outside(s, S) \in Seq(X \ S)
<1>0. PICK f \in [0 .. Len(s) -> Seq(X)] : WalksOver(f, s, S)
  BY OutsideUnfolds
<1>1. /\ Outside(s, S) = f[Len(s)]
      /\ f[0] = << >>
      /\ \A n \in 1 .. Len(s) :
            f[n] = IF s[n] \in S THEN f[n - 1] ELSE Append(f[n - 1], s[n])
  BY <1>0 DEF WalksOver
<1> DEFINE T == {n \in 0 .. Len(s) : f[n] \in Seq(X \ S)}
<1>2. Len(s) \in Nat
  OBVIOUS
<1>3. 0 \in T
  BY <1>1
<1>4. ASSUME NEW n \in 1 .. Len(s), n - 1 \in T PROVE n \in T
  <2>1. CASE s[n] \in S
    BY <1>1, <1>4, <2>1
  <2>2. CASE s[n] \notin S
    <3>1. s[n] \in X \ S /\ f[n - 1] \in Seq(X \ S)
      BY <1>4, <2>2
    <3>2. Append(f[n - 1], s[n]) \in Seq(X \ S)
      BY <3>1, AppendProperties
    <3>3. f[n] = Append(f[n - 1], s[n])
      BY <1>1, <2>2
    <3>4. f[n] \in Seq(X \ S)
      BY <3>2, <3>3, Zenon
    <3> QED
      BY <3>4
  <2> QED
    BY <2>1, <2>2
<1>5. \A n \in 0 .. Len(s) : n \in T
  <2> HIDE DEF T
  <2> QED
    BY <1>2, <1>3, <1>4, InductionUpTo
<1> QED
  BY <1>1, <1>2, <1>5

\* ... and it is no longer than s.
LEMMA OutsideIsShorter ==
    ASSUME NEW X, NEW s \in Seq(X), NEW S
    PROVE  Len(Outside(s, S)) \in Nat /\ Len(Outside(s, S)) <= Len(s)
<1>0. PICK f \in [0 .. Len(s) -> Seq(X)] : WalksOver(f, s, S)
  BY OutsideUnfolds
<1>1. /\ Outside(s, S) = f[Len(s)]
      /\ f[0] = << >>
      /\ \A n \in 1 .. Len(s) :
            f[n] = IF s[n] \in S THEN f[n - 1] ELSE Append(f[n - 1], s[n])
  BY <1>0 DEF WalksOver
<1> DEFINE T == {n \in 0 .. Len(s) : Len(f[n]) \in Nat /\ Len(f[n]) <= n}
<1>2. Len(s) \in Nat
  OBVIOUS
<1>3. 0 \in T
  BY <1>1
<1>4. ASSUME NEW n \in 1 .. Len(s), n - 1 \in T PROVE n \in T
  <2>1. CASE s[n] \in S
    BY <1>1, <1>4, <2>1
  <2>2. CASE s[n] \notin S
    <3>1. f[n - 1] \in Seq(X) /\ s[n] \in X
      OBVIOUS
    <3>2. Len(Append(f[n - 1], s[n])) = Len(f[n - 1]) + 1
      BY <3>1, AppendProperties
    <3>3. f[n] = Append(f[n - 1], s[n])
      BY <1>1, <2>2
    <3>4. Len(f[n]) = Len(f[n - 1]) + 1
      BY <3>2, <3>3, Zenon
    <3> QED
      BY <1>4, <3>4
  <2> QED
    BY <2>1, <2>2
<1>5. \A n \in 0 .. Len(s) : n \in T
  <2> HIDE DEF T
  <2> QED
    BY <1>2, <1>3, <1>4, InductionUpTo
<1> QED
  BY <1>1, <1>2, <1>5

\* ... and every item of s that is not in S.
LEMMA OutsideKeepsTheRest ==
    ASSUME NEW X, NEW s \in Seq(X), NEW S,
           NEW k \in 1 .. Len(s), s[k] \notin S
    PROVE  \E i \in 1 .. Len(Outside(s, S)) : Outside(s, S)[i] = s[k]
<1>0. PICK f \in [0 .. Len(s) -> Seq(X)] : WalksOver(f, s, S)
  BY OutsideUnfolds
<1>1. /\ Outside(s, S) = f[Len(s)]
      /\ f[0] = << >>
      /\ \A n \in 1 .. Len(s) :
            f[n] = IF s[n] \in S THEN f[n - 1] ELSE Append(f[n - 1], s[n])
  BY <1>0 DEF WalksOver
<1> DEFINE T == {n \in 0 .. Len(s) : n >= k => \E i \in 1 .. Len(f[n]) : f[n][i] = s[k]}
<1>2. Len(s) \in Nat
  OBVIOUS
<1>3. 0 \in T
  BY <1>1
<1>4. ASSUME NEW n \in 1 .. Len(s), n - 1 \in T PROVE n \in T
  <2>1. f[n - 1] \in Seq(X) /\ s[n] \in X
    BY <1>1
  <2>2. CASE n < k
    BY <2>2
  <2>3. CASE n = k
    <3>1. f[n] = Append(f[n - 1], s[k])
      BY <1>1, <2>3
    <3>2. Len(f[n]) \in 1 .. Len(f[n]) /\ f[n][Len(f[n])] = s[k]
      BY <2>1, <2>3, <3>1
    <3> QED
      BY <3>2
  <2>4. CASE n > k
    <3>1. PICK i \in 1 .. Len(f[n - 1]) : f[n - 1][i] = s[k]
      BY <1>4, <2>4
    <3>2. CASE s[n] \in S
      BY <1>1, <3>1, <3>2
    <3>3. CASE s[n] \notin S
      <4>1. f[n] = Append(f[n - 1], s[n])
        BY <1>1, <3>3
      <4>2. i \in 1 .. Len(f[n]) /\ f[n][i] = s[k]
        BY <2>1, <3>1, <4>1, AppendProperties
      <4> QED
        BY <4>2
    <3> QED
      BY <3>2, <3>3
  <2> QED
    BY <2>2, <2>3, <2>4
<1>5. \A n \in 0 .. Len(s) : n \in T
  <2> HIDE DEF T
  <2> QED
    BY <1>2, <1>3, <1>4, InductionUpTo
<1> QED
  BY <1>1, <1>2, <1>5

\* It invents nothing.
LEMMA OutsideComesFromTheList ==
    ASSUME NEW X, NEW s \in Seq(X), NEW S,
           NEW i \in 1 .. Len(Outside(s, S))
    PROVE  \E k \in 1 .. Len(s) : s[k] = Outside(s, S)[i]
<1> DEFINE Y == {s[k] : k \in 1 .. Len(s)}
<1>1. s \in Seq(Y)
  OBVIOUS
<1>2. Outside(s, S) \in Seq(Y \ S)
  <2> HIDE DEF Y
  <2> QED
    BY <1>1, OutsideIsSeq
<1>3. Outside(s, S)[i] \in Y
  <2> HIDE DEF Y
  <2> QED
    BY <1>2
<1> QED
  BY <1>3

\* It repeats nothing that s, outside S, does not repeat.
LEMMA OutsideIsInjective ==
    ASSUME NEW X, NEW s \in Seq(X), NEW S,
           \A a, b \in 1 .. Len(s) : s[a] = s[b] /\ s[a] \notin S => a = b,
           NEW i \in 1 .. Len(Outside(s, S)), NEW j \in 1 .. Len(Outside(s, S)),
           Outside(s, S)[i] = Outside(s, S)[j]
    PROVE  i = j
<1>0. PICK f \in [0 .. Len(s) -> Seq(X)] : WalksOver(f, s, S)
  BY OutsideUnfolds
<1>1. /\ Outside(s, S) = f[Len(s)]
      /\ f[0] = << >>
      /\ \A n \in 1 .. Len(s) :
            f[n] = IF s[n] \in S THEN f[n - 1] ELSE Append(f[n - 1], s[n])
  BY <1>0 DEF WalksOver
<1> DEFINE Among(n) == \A a \in 1 .. Len(f[n]) : \E k \in 1 .. n : f[n][a] = s[k]
           Apart(n) == \A a, b \in 1 .. Len(f[n]) : f[n][a] = f[n][b] => a = b
           T == {n \in 0 .. Len(s) : Among(n) /\ Apart(n)}
<1>2. Len(s) \in Nat
  OBVIOUS
<1>3. 0 \in T
  BY <1>1
<1>4. ASSUME NEW n \in 1 .. Len(s), n - 1 \in T PROVE n \in T
  <2>1. f[n - 1] \in Seq(X) /\ s[n] \in X /\ n - 1 \in 0 .. Len(s) /\ n \in 0 .. Len(s)
    BY <1>1
  <2>2. Among(n - 1) /\ Apart(n - 1)
    BY <1>4
  <2>3. CASE s[n] \in S
    <3>1. f[n] = f[n - 1]
      BY <1>1, <2>3
    <3>2. Among(n)
      <4> SUFFICES ASSUME NEW a \in 1 .. Len(f[n])
                   PROVE  \E k \in 1 .. n : f[n][a] = s[k]
        OBVIOUS
      <4>1. a \in 1 .. Len(f[n - 1])
        BY <3>1
      <4>2. PICK k \in 1 .. n - 1 : f[n - 1][a] = s[k]
        BY <2>2, <4>1
      <4> QED
        BY <3>1, <4>2
    <3>3. Apart(n)
      BY <2>2, <3>1
    <3> HIDE DEF Among, Apart
    <3> QED
      BY <2>1, <3>2, <3>3
  <2>4. CASE s[n] \notin S
    <3>1. f[n] = Append(f[n - 1], s[n])
      BY <1>1, <2>4
    <3>2. Len(f[n]) = Len(f[n - 1]) + 1 /\ Len(f[n - 1]) \in Nat
      BY <2>1, <3>1, AppendProperties
    <3>3. f[n][Len(f[n - 1]) + 1] = s[n]
      BY <2>1, <3>1, AppendProperties
    <3>4. \A a \in 1 .. Len(f[n - 1]) : f[n][a] = f[n - 1][a]
      BY <2>1, <3>1, AppendProperties
    <3>5. \A a \in 1 .. Len(f[n - 1]) : f[n][a] # s[n]
      <4> SUFFICES ASSUME NEW a \in 1 .. Len(f[n - 1]) PROVE f[n][a] # s[n]
        OBVIOUS
      <4>1. PICK k \in 1 .. n - 1 : f[n - 1][a] = s[k]
        BY <2>2
      <4>2. s[k] # s[n]
        BY <2>4, <4>1
      <4> QED
        BY <3>4, <4>1, <4>2
    <3>6. Among(n)
      <4> SUFFICES ASSUME NEW a \in 1 .. Len(f[n])
                   PROVE  \E k \in 1 .. n : f[n][a] = s[k]
        OBVIOUS
      <4>1. CASE a = Len(f[n])
        BY <3>2, <3>3, <4>1
      <4>2. CASE a # Len(f[n])
        <5>1. a \in 1 .. Len(f[n - 1])
          BY <3>2, <4>2
        <5>2. PICK k \in 1 .. n - 1 : f[n - 1][a] = s[k]
          BY <2>2, <5>1
        <5> QED
          BY <3>4, <5>1, <5>2
      <4> QED
        BY <4>1, <4>2
    <3>7. Apart(n)
      <4> SUFFICES ASSUME NEW a \in 1 .. Len(f[n]), NEW b \in 1 .. Len(f[n]),
                          f[n][a] = f[n][b]
                   PROVE  a = b
        OBVIOUS
      <4>1. CASE a = Len(f[n])
        <5>1. f[n][b] = s[n]
          BY <3>2, <3>3, <4>1
        <5>2. b \notin 1 .. Len(f[n - 1])
          BY <3>5, <5>1
        <5> QED
          BY <3>2, <4>1, <5>2
      <4>3. CASE b = Len(f[n])
        <5>1. f[n][a] = s[n]
          BY <3>2, <3>3, <4>3
        <5>2. a \notin 1 .. Len(f[n - 1])
          BY <3>5, <5>1
        <5> QED
          BY <3>2, <4>3, <5>2
      <4>2. CASE a # Len(f[n]) /\ b # Len(f[n])
        <5>1. a \in 1 .. Len(f[n - 1]) /\ b \in 1 .. Len(f[n - 1])
          BY <3>2, <4>2
        <5>2. f[n - 1][a] = f[n - 1][b]
          BY <3>4, <5>1
        <5> QED
          BY <2>2, <5>1, <5>2
      <4> QED
        BY <4>1, <4>2, <4>3
    <3> HIDE DEF Among, Apart
    <3> QED
      BY <2>1, <3>6, <3>7
  <2> QED
    BY <2>3, <2>4
<1>5. \A n \in 0 .. Len(s) : n \in T
  <2> HIDE DEF T
  <2> QED
    BY <1>2, <1>3, <1>4, InductionUpTo
<1>6. Apart(Len(s))
  <2> HIDE DEF Among, Apart
  <2> QED
    BY <1>2, <1>5
<1> QED
  BY <1>1, <1>6

\* Two lists that skip the same positions and agree on the others leave the same.
LEMMA OutsideAgrees ==
    ASSUME NEW X, NEW s \in Seq(X), NEW S,
           NEW Y, NEW t \in Seq(Y), NEW R,
           Len(s) = Len(t),
           \A k \in 1 .. Len(s) : s[k] \in S <=> t[k] \in R,
           \A k \in 1 .. Len(s) : s[k] \notin S => s[k] = t[k]
    PROVE  Outside(s, S) = Outside(t, R)
<1>0. PICK f \in [0 .. Len(s) -> Seq(X)] : WalksOver(f, s, S)
  BY OutsideUnfolds
<1>1. /\ Outside(s, S) = f[Len(s)]
      /\ f[0] = << >>
      /\ \A n \in 1 .. Len(s) :
            f[n] = IF s[n] \in S THEN f[n - 1] ELSE Append(f[n - 1], s[n])
  BY <1>0 DEF WalksOver
<1>2a. PICK g \in [0 .. Len(t) -> Seq(Y)] : WalksOver(g, t, R)
  BY OutsideUnfolds
<1>2. /\ Outside(t, R) = g[Len(t)]
      /\ g[0] = << >>
      /\ \A n \in 1 .. Len(t) :
            g[n] = IF t[n] \in R THEN g[n - 1] ELSE Append(g[n - 1], t[n])
  BY <1>2a DEF WalksOver
<1> DEFINE T == {n \in 0 .. Len(s) : f[n] = g[n]}
<1>3. Len(s) \in Nat
  OBVIOUS
<1>4. 0 \in T
  BY <1>1, <1>2
<1>5. ASSUME NEW n \in 1 .. Len(s), n - 1 \in T PROVE n \in T
  <2>1. f[n - 1] = g[n - 1] /\ n \in 0 .. Len(s)
    BY <1>5
  <2>2. n \in 1 .. Len(t)
    OBVIOUS
  <2>3. f[n] = IF s[n] \in S THEN f[n - 1] ELSE Append(f[n - 1], s[n])
    BY <1>1, Zenon
  <2>4. g[n] = IF t[n] \in R THEN g[n - 1] ELSE Append(g[n - 1], t[n])
    BY <1>2, <2>2, Zenon
  <2>5. f[n] = g[n]
    BY <2>1, <2>3, <2>4, Zenon
  <2> QED
    BY <2>1, <2>5
<1>6. \A n \in 0 .. Len(s) : n \in T
  <2> HIDE DEF T
  <2> QED
    BY <1>3, <1>4, <1>5, InductionUpTo
<1> QED
  BY <1>1, <1>2, <1>3, <1>6

---------------------------------------------------------------------------
(***************************************************************************)
(* Sums.                                                                   *)
(***************************************************************************)

\* Induction over the subsets of a finite set, on a set of sets.
LEMMA SubsetInduction ==
    ASSUME NEW S, IsFiniteSet(S), NEW K, {} \in K,
           \A T \in SUBSET S : T # {} /\ (\A x \in T : T \ {x} \in K) => T \in K
    PROVE  S \in K
<1> SUFFICES ASSUME S \notin K PROVE FALSE
  OBVIOUS
<1> DEFINE Bad == {T \in SUBSET S : T \notin K}
           Sizes == {Cardinality(T) : T \in Bad}
<1>1. \A T \in SUBSET S : IsFiniteSet(T) /\ Cardinality(T) \in Nat
  BY FS_Subset, FS_CardinalityType
<1>2. Sizes \subseteq Nat /\ Sizes # {}
  BY <1>1
<1>3. PICK n \in Sizes : \A m \in Sizes : n <= m
  <2> HIDE DEF Sizes
  <2> QED
    BY <1>2, LeastNatural
<1>4. PICK T \in Bad : Cardinality(T) = n
  BY <1>3
<1>5. ASSUME NEW x \in T PROVE T \ {x} \in K
  <2>1. Cardinality(T \ {x}) = n - 1 /\ n \in Nat
    BY <1>1, <1>4, FS_RemoveElement
  <2>2. T \ {x} \notin Bad
    BY <1>3, <2>1
  <2> QED
    BY <2>2
<1> QED
  BY <1>4, <1>5

Chosen(T) == CHOOSE x \in T : TRUE

\* The subsets of S as SumOver walks over them: sum[T] is the sum over T.
AddsUp(sum, S, f) ==
    \A T \in SUBSET S :
        sum[T] = IF T = {} THEN 0 ELSE f[Chosen(T)] + sum[T \ {Chosen(T)}]

\* The recursive function exists and satisfies its equation.
LEMMA SumUnfolds ==
    ASSUME NEW S, IsFiniteSet(S), NEW f
    PROVE  \E sum : AddsUp(sum, S, f) /\ SumOver(S, f) = sum[S]
<1> DEFINE Body(g, T) == IF T = {} THEN 0 ELSE f[Chosen(T)] + g[T \ {Chosen(T)}]
           Solves(g, n) == \A T \in SUBSET S : Cardinality(T) <= n => g[T] = Body(g, T)
           N == Cardinality(S)
           K == {n \in 0 .. N : \E g : Solves(g, n)}
<1>1. /\ N \in Nat
      /\ \A T \in SUBSET S : IsFiniteSet(T) /\ Cardinality(T) \in Nat /\ Cardinality(T) <= N
  BY FS_Subset, FS_CardinalityType
<1>2. \A T \in SUBSET S : T # {} =>
          /\ T \ {Chosen(T)} \in SUBSET S
          /\ Cardinality(T \ {Chosen(T)}) = Cardinality(T) - 1
  <2> SUFFICES ASSUME NEW T \in SUBSET S, T # {}
               PROVE  Cardinality(T \ {Chosen(T)}) = Cardinality(T) - 1
    OBVIOUS
  <2>1. Chosen(T) \in T
    BY DEF Chosen
  <2> QED
    BY <1>1, <2>1, FS_RemoveElement
<1>3. \A T \in SUBSET S : Cardinality(T) = 0 => T = {}
  BY <1>1, FS_EmptySet
<1>4. 0 \in K
  <2> DEFINE g == [T \in SUBSET S |-> 0]
  <2>1. Solves(g, 0)
    <3> SUFFICES ASSUME NEW T \in SUBSET S, Cardinality(T) <= 0 PROVE g[T] = Body(g, T)
      OBVIOUS
    <3>1. T = {}
      BY <1>1, <1>3
    <3> QED
      BY <3>1
  <2> HIDE DEF g, Solves
  <2> QED
    BY <1>1, <2>1
<1>5. ASSUME NEW n \in 1 .. N, n - 1 \in K PROVE n \in K
  <2>1. PICK g : Solves(g, n - 1)
    BY <1>5
  <2> DEFINE h == [T \in SUBSET S |-> IF Cardinality(T) <= n - 1 THEN g[T] ELSE Body(g, T)]
  <2>2. ASSUME NEW T \in SUBSET S, Cardinality(T) <= n PROVE h[T] = Body(h, T)
    <3>1. h[T] = Body(g, T)
      BY <2>1
    <3>2. CASE T = {}
      BY <3>1, <3>2
    <3>3. CASE T # {}
      <4>1. Cardinality(T \ {Chosen(T)}) <= n - 1 /\ T \ {Chosen(T)} \in SUBSET S
        BY <1>1, <1>2, <2>2, <3>3
      <4>2. h[T \ {Chosen(T)}] = g[T \ {Chosen(T)}]
        BY <4>1
      <4> QED
        BY <3>1, <3>3, <4>2
    <3> QED
      BY <3>2, <3>3
  <2>3. Solves(h, n)
    BY <2>2
  <2> HIDE DEF h, Solves
  <2> QED
    BY <2>3
<1>6. N \in K
  <2> HIDE DEF K
  <2>1. \A n \in 0 .. N : n \in K
    BY <1>1, <1>4, <1>5, InductionUpTo
  <2> QED
    BY <1>1, <2>1
<1>7. PICK g : Solves(g, N)
  BY <1>6
<1> DEFINE Equation(it) == it = [T \in SUBSET S |-> Body(it, T)]
           solution == CHOOSE it : Equation(it)
<1>8. Equation([T \in SUBSET S |-> g[T]])
  <2> DEFINE it == [T \in SUBSET S |-> g[T]]
  <2>1. ASSUME NEW T \in SUBSET S PROVE it[T] = Body(it, T)
    <3>1. g[T] = Body(g, T)
      BY <1>1, <1>7
    <3>2. T # {} => it[T \ {Chosen(T)}] = g[T \ {Chosen(T)}]
      BY <1>2
    <3> QED
      BY <3>1, <3>2
  <2> QED
    BY <2>1
<1>9. Equation(solution)
  <2> HIDE DEF Equation
  <2> QED
    BY <1>8
<1>10. SumOver(S, f) = solution[S]
  BY DEF SumOver, MapThenSumSet, MapThenFoldSet, Chosen
<1>11. AddsUp(solution, S, f)
  <2>1. PICK it : it = solution
    OBVIOUS
  <2> HIDE DEF solution
  <2>2. \A T \in SUBSET S : it[T] = Body(it, T)
    BY <1>9, <2>1
  <2> QED
    BY <2>1, <2>2 DEF AddsUp
<1> QED
  BY <1>10, <1>11

\* Two such functions agree where both are defined.
LEMMA SumIsUnique ==
    ASSUME NEW S, IsFiniteSet(S), NEW f, NEW R, NEW Q, S \subseteq R, S \subseteq Q,
           NEW sum, AddsUp(sum, R, f), NEW other, AddsUp(other, Q, f)
    PROVE  sum[S] = other[S]
<1> DEFINE K == {T \in SUBSET S : sum[T] = other[T]}
<1>1. {} \in K
  BY DEF AddsUp
<1>2. ASSUME NEW T \in SUBSET S, T # {}, \A x \in T : T \ {x} \in K PROVE T \in K
  <2>1. Chosen(T) \in T
    BY <1>2 DEF Chosen
  <2>2. sum[T \ {Chosen(T)}] = other[T \ {Chosen(T)}]
    BY <1>2, <2>1
  <2> QED
    BY <1>2, <2>2 DEF AddsUp
<1>3. S \in K
  <2> HIDE DEF K
  <2> QED
    BY <1>1, <1>2, SubsetInduction
<1> QED
  BY <1>3

\* The sum over no element.
LEMMA SumEmpty ==
    ASSUME NEW f
    PROVE  SumOver({}, f) = 0
<1>1. PICK sum : AddsUp(sum, {}, f) /\ SumOver({}, f) = sum[{}]
  BY SumUnfolds, FS_EmptySet
<1> QED
  BY <1>1 DEF AddsUp

\* The step of the loop.
LEMMA SumChosen ==
    ASSUME NEW S, IsFiniteSet(S), S # {}, NEW f
    PROVE  SumOver(S, f) = f[Chosen(S)] + SumOver(S \ {Chosen(S)}, f)
<1>1. PICK sum : AddsUp(sum, S, f) /\ SumOver(S, f) = sum[S]
  BY SumUnfolds
<1> DEFINE R == S \ {Chosen(S)}
<1>2. IsFiniteSet(R) /\ R \subseteq S
  BY FS_Subset
<1>3. PICK other : AddsUp(other, R, f) /\ SumOver(R, f) = other[R]
  <2> HIDE DEF R
  <2> QED
    BY <1>2, SumUnfolds
<1>4. sum[R] = SumOver(R, f)
  <2> HIDE DEF R
  <2> QED
    BY <1>1, <1>2, <1>3, SumIsUnique
<1> QED
  BY <1>1, <1>4 DEF AddsUp

\* A sum of integers is an integer.
LEMMA SumIsInt ==
    ASSUME NEW S, IsFiniteSet(S), NEW f, \A x \in S : f[x] \in Int
    PROVE  SumOver(S, f) \in Int
<1> DEFINE K == {T \in SUBSET S : SumOver(T, f) \in Int}
<1>1. {} \in K
  BY SumEmpty
<1>2. ASSUME NEW T \in SUBSET S, T # {}, \A x \in T : T \ {x} \in K PROVE T \in K
  <2>1. Chosen(T) \in T /\ IsFiniteSet(T)
    BY <1>2, FS_Subset DEF Chosen
  <2>2. SumOver(T, f) = f[Chosen(T)] + SumOver(T \ {Chosen(T)}, f)
    BY <1>2, <2>1, SumChosen
  <2>3. SumOver(T \ {Chosen(T)}, f) \in Int
    BY <1>2, <2>1
  <2> QED
    BY <2>1, <2>2, <2>3
<1>3. S \in K
  <2> HIDE DEF K
  <2> QED
    BY <1>1, <1>2, SubsetInduction
<1> QED
  BY <1>3

\* The order in which the elements are chosen does not matter.
LEMMA SumAtElement ==
    ASSUME NEW S, IsFiniteSet(S), NEW f, \A y \in S : f[y] \in Int, NEW x \in S
    PROVE  SumOver(S, f) = f[x] + SumOver(S \ {x}, f)
<1> DEFINE K == {T \in SUBSET S : \A y \in T : SumOver(T, f) = f[y] + SumOver(T \ {y}, f)}
<1>1. {} \in K
  OBVIOUS
<1>2. ASSUME NEW T \in SUBSET S, T # {}, \A y \in T : T \ {y} \in K PROVE T \in K
  <2> SUFFICES ASSUME NEW y \in T PROVE SumOver(T, f) = f[y] + SumOver(T \ {y}, f)
    OBVIOUS
  <2> DEFINE c == Chosen(T)
  <2>1. c \in T /\ IsFiniteSet(T)
    BY <1>2, FS_Subset DEF Chosen
  <2>2. SumOver(T, f) = f[c] + SumOver(T \ {c}, f)
    BY <1>2, <2>1, SumChosen
  <2>3. CASE y = c
    BY <2>2, <2>3
  <2>4. CASE y # c
    <3>1. SumOver(T \ {c}, f) = f[y] + SumOver((T \ {c}) \ {y}, f)
      <4>1. T \ {c} \in K /\ y \in T \ {c}
        BY <1>2, <2>1, <2>4
      <4> QED
        BY <4>1
    <3>2. SumOver(T \ {y}, f) = f[c] + SumOver((T \ {c}) \ {y}, f)
      <4>1. T \ {y} \in K /\ c \in T \ {y}
        BY <1>2, <2>1, <2>4
      <4>2. (T \ {c}) \ {y} = (T \ {y}) \ {c}
        OBVIOUS
      <4> QED
        BY <4>1, <4>2
    <3>3. SumOver((T \ {c}) \ {y}, f) \in Int
      <4>1. IsFiniteSet((T \ {c}) \ {y})
        BY <2>1, FS_Subset
      <4>2. \A z \in (T \ {c}) \ {y} : f[z] \in Int
        OBVIOUS
      <4> QED
        BY <4>1, <4>2, SumIsInt
    <3>4. f[c] \in Int /\ f[y] \in Int
      BY <2>1
    <3>5. \A p, q, r \in Int : p + (q + r) = q + (p + r)
      OBVIOUS
    <3> HIDE DEF c
    <3>6. f[c] + (f[y] + SumOver((T \ {c}) \ {y}, f)) = f[y] + (f[c] + SumOver((T \ {c}) \ {y}, f))
      BY <3>3, <3>4, <3>5
    <3> QED
      BY <2>2, <3>1, <3>2, <3>6
  <2> QED
    BY <2>3, <2>4
<1>3. S \in K
  <2> HIDE DEF K
  <2> QED
    BY <1>1, <1>2, SubsetInduction
<1> QED
  BY <1>3

\* Larger terms, larger sum.
LEMMA SumMonotone ==
    ASSUME NEW S, IsFiniteSet(S),
           NEW f, \A x \in S : f[x] \in Int,
           NEW g, \A x \in S : g[x] \in Int,
           \A x \in S : f[x] <= g[x]
    PROVE  SumOver(S, f) <= SumOver(S, g)
<1> DEFINE K == {T \in SUBSET S : SumOver(T, f) <= SumOver(T, g)}
<1>1. {} \in K
  BY SumEmpty
<1>2. ASSUME NEW T \in SUBSET S, T # {}, \A x \in T : T \ {x} \in K PROVE T \in K
  <2>1. PICK x \in T : TRUE
    BY <1>2
  <2> DEFINE R == T \ {x}
  <2>2. R \in K /\ IsFiniteSet(T) /\ IsFiniteSet(R) /\ x \in S
    BY <1>2, FS_Subset
  <2>3. SumOver(T, f) = f[x] + SumOver(R, f) /\ SumOver(R, f) \in Int
    BY <2>2, SumAtElement, SumIsInt
  <2>4. SumOver(T, g) = g[x] + SumOver(R, g) /\ SumOver(R, g) \in Int
    BY <2>2, SumAtElement, SumIsInt
  <2>5. SumOver(R, f) <= SumOver(R, g) /\ f[x] <= g[x] /\ f[x] \in Int /\ g[x] \in Int
    BY <2>2
  <2> HIDE DEF R
  <2> QED
    BY <2>3, <2>4, <2>5
<1>3. S \in K
  <2> HIDE DEF K
  <2> QED
    BY <1>1, <1>2, SubsetInduction
<1> QED
  BY <1>3

\* The sum of sums.
LEMMA SumPlus ==
    ASSUME NEW S, IsFiniteSet(S),
           NEW f, \A x \in S : f[x] \in Int,
           NEW g, \A x \in S : g[x] \in Int,
           NEW h, \A x \in S : h[x] = f[x] + g[x]
    PROVE  SumOver(S, h) = SumOver(S, f) + SumOver(S, g)
<1> DEFINE K == {T \in SUBSET S : SumOver(T, h) = SumOver(T, f) + SumOver(T, g)}
<1>1. {} \in K
  BY SumEmpty
<1>2. ASSUME NEW T \in SUBSET S, T # {}, \A x \in T : T \ {x} \in K PROVE T \in K
  <2>1. PICK x \in T : TRUE
    BY <1>2
  <2> DEFINE R == T \ {x}
  <2>2. R \in K /\ IsFiniteSet(T) /\ IsFiniteSet(R) /\ x \in S
    BY <1>2, FS_Subset
  <2>3. SumOver(T, f) = f[x] + SumOver(R, f) /\ SumOver(R, f) \in Int
    BY <2>2, SumAtElement, SumIsInt
  <2>4. SumOver(T, g) = g[x] + SumOver(R, g) /\ SumOver(R, g) \in Int
    BY <2>2, SumAtElement, SumIsInt
  <2>5. SumOver(T, h) = h[x] + SumOver(R, h) /\ SumOver(R, h) \in Int
    BY <2>2, SumAtElement, SumIsInt
  <2>6. /\ SumOver(R, h) = SumOver(R, f) + SumOver(R, g)
        /\ h[x] = f[x] + g[x] /\ f[x] \in Int /\ g[x] \in Int
    BY <2>2
  <2> HIDE DEF R
  <2> QED
    BY <2>3, <2>4, <2>5, <2>6
<1>3. S \in K
  <2> HIDE DEF K
  <2> QED
    BY <1>1, <1>2, SubsetInduction
<1> QED
  BY <1>3

\* A common factor.
LEMMA SumTimes ==
    ASSUME NEW S, IsFiniteSet(S),
           NEW f, \A x \in S : f[x] \in Int,
           NEW k \in Int, NEW h, \A x \in S : h[x] = k * f[x]
    PROVE  SumOver(S, h) = k * SumOver(S, f)
<1> DEFINE K == {T \in SUBSET S : SumOver(T, h) = k * SumOver(T, f)}
<1>1. {} \in K
  BY SumEmpty
<1>2. ASSUME NEW T \in SUBSET S, T # {}, \A x \in T : T \ {x} \in K PROVE T \in K
  <2>1. PICK x \in T : TRUE
    BY <1>2
  <2> DEFINE R == T \ {x}
  <2>2. R \in K /\ IsFiniteSet(T) /\ IsFiniteSet(R) /\ x \in S
    BY <1>2, FS_Subset
  <2>3. SumOver(T, f) = f[x] + SumOver(R, f) /\ SumOver(R, f) \in Int
    BY <2>2, SumAtElement, SumIsInt
  <2>4. SumOver(T, h) = h[x] + SumOver(R, h) /\ SumOver(R, h) \in Int
    BY <2>2, SumAtElement, SumIsInt
  <2>5. SumOver(R, h) = k * SumOver(R, f) /\ h[x] = k * f[x] /\ f[x] \in Int
    BY <2>2
  <2>6. \A p, q \in Int : k * (p + q) = k * p + k * q
    OBVIOUS
  <2> HIDE DEF R
  <2>7. k * (f[x] + SumOver(R, f)) = k * f[x] + k * SumOver(R, f)
    BY <2>3, <2>5, <2>6
  <2> QED
    BY <2>3, <2>4, <2>5, <2>7
<1>3. S \in K
  <2> HIDE DEF K
  <2> QED
    BY <1>1, <1>2, SubsetInduction
<1> QED
  BY <1>3

\* The same term for every element.
LEMMA SumOfConstant ==
    ASSUME NEW S, IsFiniteSet(S),
           NEW k \in Int, NEW f, \A x \in S : f[x] = k
    PROVE  SumOver(S, f) = k * Cardinality(S)
<1> DEFINE K == {T \in SUBSET S : SumOver(T, f) = k * Cardinality(T)}
<1>1. {} \in K
  BY SumEmpty, FS_EmptySet
<1>2. ASSUME NEW T \in SUBSET S, T # {}, \A x \in T : T \ {x} \in K PROVE T \in K
  <2>1. PICK x \in T : TRUE
    BY <1>2
  <2> DEFINE R == T \ {x}
  <2>2. R \in K /\ IsFiniteSet(T) /\ IsFiniteSet(R) /\ x \in S
    BY <1>2, FS_Subset
  <2>3. SumOver(T, f) = f[x] + SumOver(R, f) /\ SumOver(R, f) \in Int
    BY <2>2, SumAtElement, SumIsInt
  <2>4. SumOver(R, f) = k * Cardinality(R) /\ f[x] = k
    BY <2>2
  <2>5. Cardinality(R) = Cardinality(T) - 1 /\ Cardinality(T) \in Nat /\ Cardinality(R) \in Nat
    BY <2>2, FS_RemoveElement, FS_CardinalityType
  <2>6. \A p \in Int : k + k * p = k * (p + 1)
    OBVIOUS
  <2> HIDE DEF R
  <2>7. Cardinality(T) = Cardinality(R) + 1
    BY <2>5
  <2>8. k + k * Cardinality(R) = k * (Cardinality(R) + 1)
    BY <2>5, <2>6
  <2>9. SumOver(T, f) = k * Cardinality(T)
    BY <2>3, <2>4, <2>7, <2>8
  <2> QED
    BY <2>9
<1>3. S \in K
  <2> HIDE DEF K
  <2> QED
    BY <1>1, <1>2, SubsetInduction
<1> QED
  BY <1>3

\* Only the terms matter.
LEMMA SumCongruent ==
    ASSUME NEW S, IsFiniteSet(S),
           NEW f, NEW g, \A x \in S : f[x] \in Int /\ f[x] = g[x]
    PROVE  SumOver(S, f) = SumOver(S, g)
<1>1. SumOver(S, f) <= SumOver(S, g) /\ SumOver(S, g) <= SumOver(S, f)
  BY SumMonotone
<1>2. SumOver(S, f) \in Int /\ SumOver(S, g) \in Int
  BY SumIsInt
<1> QED
  BY <1>1, <1>2

\* Terms that are not negative.
LEMMA SumIsNat ==
    ASSUME NEW S, IsFiniteSet(S), NEW f, \A x \in S : f[x] \in Nat
    PROVE  SumOver(S, f) \in Nat /\ \A x \in S : f[x] <= SumOver(S, f)
<1> DEFINE K == {T \in SUBSET S : SumOver(T, f) \in Nat}
<1>1. {} \in K
  BY SumEmpty
<1>2. ASSUME NEW T \in SUBSET S, T # {}, \A x \in T : T \ {x} \in K PROVE T \in K
  <2>1. PICK x \in T : TRUE
    BY <1>2
  <2>2. IsFiniteSet(T) /\ \A y \in T : f[y] \in Int
    BY FS_Subset
  <2>3. SumOver(T, f) = f[x] + SumOver(T \ {x}, f)
    BY <2>2, SumAtElement
  <2> QED
    BY <1>2, <2>3
<1>3. \A T \in SUBSET S : SumOver(T, f) \in Nat
  <2> SUFFICES ASSUME NEW U \in SUBSET S PROVE SumOver(U, f) \in Nat
    OBVIOUS
  <2>1. IsFiniteSet(U) /\ \A T \in SUBSET U : T \in SUBSET S
    BY FS_Subset
  <2>2. U \in K
    <3> HIDE DEF K
    <3> QED
      BY <1>1, <1>2, <2>1, SubsetInduction
  <2> QED
    BY <2>2
<1>4. ASSUME NEW x \in S PROVE f[x] <= SumOver(S, f)
  <2>1. SumOver(S, f) = f[x] + SumOver(S \ {x}, f)
    BY SumAtElement
  <2>2. SumOver(S \ {x}, f) \in Nat
    BY <1>3
  <2> QED
    BY <2>1, <2>2
<1> QED
  BY <1>3, <1>4

\* The sum over two disjoint sets.
LEMMA SumSplits ==
    ASSUME NEW S, IsFiniteSet(S), NEW Q, IsFiniteSet(Q), S \cap Q = {},
           NEW f, \A x \in S \cup Q : f[x] \in Int
    PROVE  SumOver(S \cup Q, f) = SumOver(S, f) + SumOver(Q, f)
<1> DEFINE K == {T \in SUBSET S : SumOver(T \cup Q, f) = SumOver(T, f) + SumOver(Q, f)}
<1>1. {} \in K
  <2>1. {} \cup Q = Q /\ SumOver(Q, f) \in Int
    BY SumIsInt
  <2> QED
    BY <2>1, SumEmpty
<1>2. ASSUME NEW T \in SUBSET S, T # {}, \A x \in T : T \ {x} \in K PROVE T \in K
  <2>1. PICK x \in T : TRUE
    BY <1>2
  <2> DEFINE R == T \ {x}
  <2>2. R \in K /\ IsFiniteSet(T) /\ IsFiniteSet(R) /\ x \in S
    BY <1>2, FS_Subset
  <2>3. SumOver(T, f) = f[x] + SumOver(R, f) /\ SumOver(R, f) \in Int
    BY <2>2, SumAtElement, SumIsInt
  <2>4. SumOver(T \cup Q, f) = f[x] + SumOver(R \cup Q, f)
    <3>1. IsFiniteSet(T \cup Q)
      BY <2>2, FS_Union
    <3>2. SumOver(T \cup Q, f) = f[x] + SumOver((T \cup Q) \ {x}, f)
      BY <3>1, <2>1, SumAtElement
    <3>3. (T \cup Q) \ {x} = R \cup Q
      BY <2>1
    <3> QED
      BY <3>2, <3>3
  <2>5. SumOver(R \cup Q, f) = SumOver(R, f) + SumOver(Q, f) /\ f[x] \in Int
    BY <2>2
  <2>6. SumOver(Q, f) \in Int
    BY SumIsInt
  <2> HIDE DEF R
  <2> QED
    BY <2>3, <2>4, <2>5, <2>6
<1>3. S \in K
  <2> HIDE DEF K
  <2> QED
    BY <1>1, <1>2, SubsetInduction
<1> QED
  BY <1>3

\* Terms that are not negative add up to nothing only if each is nothing.
LEMMA SumIsZero ==
    ASSUME NEW S, IsFiniteSet(S), NEW f, \A x \in S : f[x] \in Nat
    PROVE  SumOver(S, f) = 0 <=> \A x \in S : f[x] = 0
<1>1. ASSUME SumOver(S, f) = 0 PROVE \A x \in S : f[x] = 0
  BY <1>1, SumIsNat
<1>2. ASSUME \A x \in S : f[x] = 0 PROVE SumOver(S, f) = 0
  <2>1. SumOver(S, f) = 0 * Cardinality(S)
    BY <1>2, SumOfConstant
  <2> QED
    BY <2>1, FS_CardinalityType
<1> QED
  BY <1>1, <1>2

---------------------------------------------------------------------------
(***************************************************************************)
(* Orders.                                                                 *)
(***************************************************************************)

\* The sets ahead of each element are those of a strict total order.
IsStrictOrder(ahead) ==
    /\ \A x \in DOMAIN ahead : ahead[x] \subseteq DOMAIN ahead /\ x \notin ahead[x]
    /\ \A x \in DOMAIN ahead : \A y \in ahead[x] : ahead[y] \subseteq ahead[x]
    /\ \A x, y \in DOMAIN ahead : x # y => x \in ahead[y] \/ y \in ahead[x]

\* Counting those ahead numbers the elements from 0 on: nobody shares a number, and the
\* numbers are all there are places for.
LEMMA PlacesAre ==
    ASSUME NEW ahead, IsFiniteSet(DOMAIN ahead), IsStrictOrder(ahead)
    PROVE  /\ Cardinality(DOMAIN ahead) \in Nat
           /\ \A x \in DOMAIN ahead : Cardinality(ahead[x]) \in 0 .. Cardinality(DOMAIN ahead) - 1
           /\ \A x \in DOMAIN ahead :
                 \A y \in ahead[x] : Cardinality(ahead[y]) < Cardinality(ahead[x])
           /\ \A i \in 0 .. Cardinality(DOMAIN ahead) - 1 :
                 \E x \in DOMAIN ahead : Cardinality(ahead[x]) = i
<1>0. PICK S : S = DOMAIN ahead
  OBVIOUS
<1>1. PICK n \in Nat : S = DOMAIN ahead /\ n = Cardinality(S)
  BY <1>0, FS_CardinalityType
<1>2. \A T \in SUBSET S : /\ IsFiniteSet(T) /\ Cardinality(T) \in Nat /\ Cardinality(T) <= n
                          /\ Cardinality(T) = n => T = S
  BY <1>1, FS_Subset, FS_CardinalityType
<1>3. /\ \A x \in S : ahead[x] \in SUBSET S /\ x \notin ahead[x]
      /\ \A x \in S : \A y \in ahead[x] : ahead[y] \subseteq ahead[x]
      /\ \A x, y \in S : x # y => x \in ahead[y] \/ y \in ahead[x]
  BY <1>1 DEF IsStrictOrder
<1>4. PICK c : c = [x \in S |-> Cardinality(ahead[x])]
  OBVIOUS
<1>5. \A x \in S : c[x] \in 0 .. n - 1
  <2> SUFFICES ASSUME NEW x \in S PROVE c[x] \in 0 .. n - 1
    OBVIOUS
  <2>1. Cardinality(ahead[x]) \in Nat /\ Cardinality(ahead[x]) <= n /\ Cardinality(ahead[x]) # n
    BY <1>2, <1>3
  <2> QED
    BY <1>4, <2>1
<1>6. \A x \in S : \A y \in ahead[x] : c[y] < c[x]
  <2> SUFFICES ASSUME NEW x \in S, NEW y \in ahead[x] PROVE c[y] < c[x]
    OBVIOUS
  <2>1. y \in S /\ ahead[y] \in SUBSET ahead[x] /\ ahead[y] # ahead[x]
    BY <1>3
  <2>2. IsFiniteSet(ahead[x]) /\ Cardinality(ahead[x]) \in Nat /\ Cardinality(ahead[y]) \in Nat
    BY <1>2, <1>3, <2>1
  <2>3. /\ Cardinality(ahead[y]) <= Cardinality(ahead[x])
        /\ Cardinality(ahead[y]) # Cardinality(ahead[x])
    BY <2>1, <2>2, FS_Subset
  <2> QED
    BY <1>4, <2>1, <2>2, <2>3
<1>7. c \in Injection(S, 0 .. n - 1)
  <2>1. c \in [S -> 0 .. n - 1]
    BY <1>4, <1>5
  <2>2. ASSUME NEW x \in S, NEW y \in S, c[x] = c[y] PROVE x = y
    <3>1. x \notin ahead[y] /\ y \notin ahead[x]
      BY <1>5, <1>6, <2>2
    <3> QED
      BY <1>3, <3>1
  <2> QED
    BY <2>1, <2>2 DEF Injection, IsInjective
<1>8. IsFiniteSet(0 .. n - 1) /\ Cardinality(0 .. n - 1) = n
  BY FS_Interval
<1>9. c \in Surjection(S, 0 .. n - 1)
  BY <1>1, <1>7, <1>8, FS_Injection
<1>10. \A i \in 0 .. n - 1 : \E x \in S : c[x] = i
  BY <1>9 DEF Surjection
<1> QED
  <2>1. \A x \in S : c[x] = Cardinality(ahead[x])
    BY <1>4
  <2> QED
    BY <1>1, <1>3, <1>5, <1>6, <1>10, <2>1

\* What InOrder returns: a list of the whole set, nobody before one that is ahead of him.
LEMMA InOrderIs ==
    ASSUME NEW ahead, IsFiniteSet(DOMAIN ahead), IsStrictOrder(ahead)
    PROVE  /\ Cardinality(DOMAIN ahead) \in Nat
           /\ InOrder(ahead) \in [1 .. Cardinality(DOMAIN ahead) -> DOMAIN ahead]
           /\ \A k \in 1 .. Cardinality(DOMAIN ahead) : Cardinality(ahead[InOrder(ahead)[k]]) = k - 1
           /\ \A k \in 1 .. Cardinality(DOMAIN ahead) : \A j \in 1 .. k - 1 :
                 InOrder(ahead)[j] \in ahead[InOrder(ahead)[k]]
           /\ {InOrder(ahead)[k] : k \in 1 .. Cardinality(DOMAIN ahead)} = DOMAIN ahead
<1>0. PICK S : S = DOMAIN ahead
  OBVIOUS
<1>1. PICK n \in Nat : S = DOMAIN ahead /\ n = Cardinality(S)
  BY <1>0, FS_CardinalityType
<1>2. PICK r : r = InOrder(ahead)
  OBVIOUS
<1>3. r = [k \in 1 .. n |-> CHOOSE x \in S : Cardinality(ahead[x]) = k - 1]
  BY <1>1, <1>2 DEF InOrder
<1>4. /\ \A x \in S : Cardinality(ahead[x]) \in 0 .. n - 1
      /\ \A x \in S : \A y \in ahead[x] : Cardinality(ahead[y]) < Cardinality(ahead[x])
      /\ \A i \in 0 .. n - 1 : \E x \in S : Cardinality(ahead[x]) = i
      /\ \A x, y \in S : x # y => x \in ahead[y] \/ y \in ahead[x]
  BY <1>1, PlacesAre DEF IsStrictOrder
<1>5. ASSUME NEW k \in 1 .. n PROVE r[k] \in S /\ Cardinality(ahead[r[k]]) = k - 1
  <2>1. k - 1 \in 0 .. n - 1
    OBVIOUS
  <2>2. \E x \in S : Cardinality(ahead[x]) = k - 1
    BY <1>4, <2>1
  <2> QED
    BY <1>3, <2>2
<1>6. ASSUME NEW k \in 1 .. n, NEW j \in 1 .. k - 1 PROVE r[j] \in ahead[r[k]]
  <2>1. j \in 1 .. n /\ j - 1 < k - 1
    OBVIOUS
  <2>2. PICK x \in S : x = r[k] /\ Cardinality(ahead[x]) = k - 1
    BY <1>5
  <2>3. PICK y \in S : y = r[j] /\ Cardinality(ahead[y]) = j - 1
    BY <1>5, <2>1
  <2>4. x # y /\ x \notin ahead[y]
    BY <1>4, <2>1, <2>2, <2>3
  <2> QED
    BY <1>4, <2>2, <2>3, <2>4
<1>7. ASSUME NEW x \in S PROVE \E k \in 1 .. n : r[k] = x
  <2>1. PICK k \in 1 .. n : k - 1 = Cardinality(ahead[x])
    <3>1. Cardinality(ahead[x]) + 1 \in 1 .. n /\ Cardinality(ahead[x]) \in Int
      BY <1>4
    <3> QED
      BY <3>1
  <2>2. r[k] \in S /\ Cardinality(ahead[r[k]]) = Cardinality(ahead[x])
    BY <1>5, <2>1
  <2>3. r[k] \notin ahead[x] /\ x \notin ahead[r[k]]
    <3>1. Cardinality(ahead[x]) \in Int
      BY <1>4
    <3> QED
      BY <1>4, <2>2, <3>1
  <2> QED
    BY <1>4, <2>2, <2>3
<1>8. r \in [1 .. n -> S]
  BY <1>3, <1>5
<1>9. {r[k] : k \in 1 .. n} = S
  BY <1>7, <1>8
<1> QED
  BY <1>1, <1>2, <1>5, <1>6, <1>8, <1>9

\* Where a key never rises along an order, its value at a place is at most that of any
\* other such order of the same set: the k elements up to that place would all have to be
\* ahead of the other's.
LEMMA NoHigherKey ==
    ASSUME NEW a, IsFiniteSet(DOMAIN a), IsStrictOrder(a),
           NEW b, IsStrictOrder(b), DOMAIN b = DOMAIN a,
           NEW key, \A x \in DOMAIN a : key[x] \in Int,
           \A x \in DOMAIN a : \A y \in a[x] : key[y] >= key[x],
           \A x \in DOMAIN a : \A y \in b[x] : key[y] >= key[x],
           NEW k \in 1 .. Cardinality(DOMAIN a)
    PROVE  key[InOrder(a)[k]] <= key[InOrder(b)[k]]
<1>0. PICK S : S = DOMAIN a
  OBVIOUS
<1>1. PICK n \in Nat : S = DOMAIN a /\ n = Cardinality(S)
  BY <1>0, FS_CardinalityType
<1>2. PICK x \in S : x = InOrder(a)[k] /\ Cardinality(a[x]) = k - 1
  BY <1>1, InOrderIs
<1>3. PICK y \in S : y = InOrder(b)[k] /\ Cardinality(b[y]) = k - 1
  BY <1>1, InOrderIs
<1> SUFFICES ASSUME key[x] > key[y] PROVE FALSE
  BY <1>1, <1>2, <1>3
<1>4. a[x] \cup {x} \subseteq b[y]
  <2> SUFFICES ASSUME NEW z \in a[x] \cup {x} PROVE z \in b[y]
    OBVIOUS
  <2>1. z \in S
    BY <1>1 DEF IsStrictOrder
  <2>2. key[z] >= key[x] /\ key[z] \in Int /\ key[x] \in Int /\ key[y] \in Int
    BY <1>1, <2>1
  <2>3. z # y /\ y \notin b[z]
    BY <1>1, <2>1, <2>2
  <2> QED
    BY <1>1, <2>1, <2>3 DEF IsStrictOrder
<1>5. IsFiniteSet(a[x]) /\ IsFiniteSet(b[y])
  BY <1>1, FS_Subset DEF IsStrictOrder
<1>6. x \notin a[x]
  BY <1>1 DEF IsStrictOrder
<1>7. Cardinality(a[x] \cup {x}) = Cardinality(a[x]) + 1
  BY <1>5, <1>6, FS_AddElement
<1>8. Cardinality(a[x] \cup {x}) <= Cardinality(b[y])
  BY <1>4, <1>5, FS_Subset
<1> QED
  BY <1>1, <1>2, <1>3, <1>7, <1>8

\* Two such orders show the same keys in the same places, however each breaks ties.
LEMMA SameKeys ==
    ASSUME NEW a, IsFiniteSet(DOMAIN a), IsStrictOrder(a),
           NEW b, IsStrictOrder(b), DOMAIN b = DOMAIN a,
           NEW key, \A x \in DOMAIN a : key[x] \in Int,
           \A x \in DOMAIN a : \A y \in a[x] : key[y] >= key[x],
           \A x \in DOMAIN a : \A y \in b[x] : key[y] >= key[x],
           NEW k \in 1 .. Cardinality(DOMAIN a)
    PROVE  key[InOrder(a)[k]] = key[InOrder(b)[k]]
<1>1. key[InOrder(a)[k]] <= key[InOrder(b)[k]]
  BY NoHigherKey
<1>2. key[InOrder(b)[k]] <= key[InOrder(a)[k]]
  BY NoHigherKey
<1>3. key[InOrder(a)[k]] \in Int /\ key[InOrder(b)[k]] \in Int
  BY InOrderIs
<1> QED
  BY <1>1, <1>2, <1>3

\* Ahead of x are those that come first by f, or by g, h and l if the ones before are equal.
IsLexicographic(ahead, f, g, h, l) ==
    LET S == DOMAIN ahead
    IN /\ \A x \in S : f[x] \in Int /\ g[x] \in Int /\ h[x] \in Int /\ l[x] \in Int
       /\ \A x, y \in S : f[x] = f[y] /\ g[x] = g[y] /\ h[x] = h[y] /\ l[x] = l[y] => x = y
       /\ \A x \in S : ahead[x] \subseteq S
       /\ \A x, y \in S : y \in ahead[x] <=>
             \/ f[y] < f[x]
             \/ f[y] = f[x] /\ g[y] < g[x]
             \/ f[y] = f[x] /\ g[y] = g[x] /\ h[y] < h[x]
             \/ f[y] = f[x] /\ g[y] = g[x] /\ h[y] = h[x] /\ l[y] < l[x]

\* Comparing four numbers, one after the other, orders a set whose elements differ in one.
LEMMA LexicographicIs ==
    ASSUME NEW ahead, NEW f, NEW g, NEW h, NEW l, IsLexicographic(ahead, f, g, h, l)
    PROVE  IsStrictOrder(ahead)
<1>0. PICK S : S = DOMAIN ahead
  OBVIOUS
<1>1. /\ \A x \in S : f[x] \in Int /\ g[x] \in Int /\ h[x] \in Int /\ l[x] \in Int
      /\ \A x, y \in S : f[x] = f[y] /\ g[x] = g[y] /\ h[x] = h[y] /\ l[x] = l[y] => x = y
      /\ \A x \in S : ahead[x] \subseteq S
      /\ \A x, y \in S : y \in ahead[x] <=>
             \/ f[y] < f[x]
             \/ f[y] = f[x] /\ g[y] < g[x]
             \/ f[y] = f[x] /\ g[y] = g[x] /\ h[y] < h[x]
             \/ f[y] = f[x] /\ g[y] = g[x] /\ h[y] = h[x] /\ l[y] < l[x]
  BY <1>0 DEF IsLexicographic
<1>2. \A x \in S : x \notin ahead[x]
  BY <1>1
<1>3. ASSUME NEW x \in S, NEW y \in ahead[x], NEW z \in ahead[y] PROVE z \in ahead[x]
  <2>1. y \in S /\ z \in S
    BY <1>1
  <2>2. CASE f[z] < f[y] \/ f[y] < f[x]
    BY <1>1, <2>1, <2>2
  <2>3. CASE f[z] = f[y] /\ f[y] = f[x] /\ (g[z] < g[y] \/ g[y] < g[x])
    BY <1>1, <2>1, <2>3
  <2>4. CASE f[z] = f[y] /\ f[y] = f[x] /\ g[z] = g[y] /\ g[y] = g[x]
    BY <1>1, <2>1, <2>4
  <2>5. /\ f[z] < f[y] \/ (f[z] = f[y] /\ (g[z] < g[y] \/ g[z] = g[y]))
        /\ f[y] < f[x] \/ (f[y] = f[x] /\ (g[y] < g[x] \/ g[y] = g[x]))
    BY <1>1, <2>1
  <2> QED
    BY <2>2, <2>3, <2>4, <2>5
<1>4. ASSUME NEW x \in S, NEW y \in S, x # y PROVE x \in ahead[y] \/ y \in ahead[x]
  BY <1>1, <1>4
<1> QED
  BY <1>0, <1>1, <1>2, <1>3, <1>4 DEF IsStrictOrder
=============================================================================
