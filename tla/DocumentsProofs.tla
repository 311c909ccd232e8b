---------------------------- MODULE DocumentsProofs ----------------------------
(***************************************************************************)
(* Proofs about Documents, for texts of any bytes and any length.          *)
(***************************************************************************)
EXTENDS Documents, WellFoundedInduction, SequenceTheorems, TLAPS

--------------------------------------------------------------------------------
(* Induction over the natural numbers: a set of them that is not empty has *)
(* a least element.                                                        *)
LEMMA Least ==
    ASSUME NEW T, T \subseteq Nat, T # {}
    PROVE  \E m \in T : \A n \in T : m <= n
  <1> DEFINE R == OpToRel(<, Nat)
  <1>1. IsWellFoundedOn(R, Nat)
    BY NatLessThanWellFounded
  <1>2. R = {p \in Nat \X Nat : p[1] < p[2]}
    BY DEF OpToRel
  <1> HIDE DEF R
  <1>3. PICK m \in T : \A n \in T : ~(<<n, m>> \in R)
    BY <1>1, WFMin
  <1>4. ASSUME NEW n \in T PROVE m <= n
    <2>1. n \in Nat /\ m \in Nat
      OBVIOUS
    <2>2. n < m => <<n, m>> \in R
      BY <1>2, <2>1
    <2> QED
      BY <1>3, <2>1, <2>2
  <1> QED
    BY <1>4

(* An equation for functions from X to A: F gives the value of such a      *)
(* function at an argument from its values at smaller ones, by the measure *)
(* mu.                                                                     *)
Recursive(X, A, mu, F) ==
    /\ A # {}
    /\ mu \in [X -> Nat]
    /\ F \in [X \X [X -> A] -> A]
    /\ \A x \in X, g, h \in [X -> A] :
          (\A y \in X : mu[y] < mu[x] => g[y] = h[y]) => F[<<x, g>>] = F[<<x, h>>]

Solution(X, A, F, g) == g \in [X -> A] /\ \A x \in X : g[x] = F[<<x, g>>]

(* Such an equation has a solution.                                        *)
LEMMA Recursion ==
    ASSUME NEW X, NEW A, NEW mu, NEW F, Recursive(X, A, mu, F)
    PROVE  \E g : Solution(X, A, F, g)
  <1> USE DEF Recursive
  <1> DEFINE Good(g, n) == g \in [X -> A] /\ \A x \in X : mu[x] < n => g[x] = F[<<x, g>>]
  <1>0. \A x \in X : mu[x] \in Nat
    OBVIOUS
  <1>1. ASSUME NEW n \in Nat, NEW g, NEW h, Good(g, n), Good(h, n), NEW z \in X, mu[z] < n
        PROVE  g[z] = h[z]
    <2> DEFINE T == {m \in Nat : \E x \in X : mu[x] = m /\ m < n /\ g[x] # h[x]}
    <2>1. CASE T # {}
      <3>1. PICK m \in T : \A i \in T : m <= i
        <4>1. T \subseteq Nat
          OBVIOUS
        <4> QED
          BY <2>1, <4>1, Least
      <3>2. PICK x \in X : mu[x] = m /\ m < n /\ g[x] # h[x]
        OBVIOUS
      <3>3. ASSUME NEW y \in X, mu[y] < mu[x] PROVE g[y] = h[y]
        <4>1. mu[y] \in Nat /\ mu[y] < m /\ m \in Nat
          BY <1>0, <3>2, <3>3
        <4>2. ~(mu[y] \in T)
          BY <3>1, <4>1
        <4> QED
          BY <3>2, <4>1, <4>2
      <3>4. F[<<x, g>>] = F[<<x, h>>]
        BY <1>1, <3>3
      <3> QED
        BY <1>1, <3>2, <3>4
    <2>2. CASE T = {}
      BY <1>0, <1>1, <2>2
    <2> QED
      BY <2>1, <2>2
  <1>2. ASSUME NEW n \in Nat PROVE \E g : Good(g, n)
    <2> DEFINE T == {m \in Nat : ~\E g : Good(g, m)}
    <2>1. CASE T # {}
      <3>1. PICK m \in T : \A i \in T : m <= i
        <4>1. T \subseteq Nat
          OBVIOUS
        <4> QED
          BY <2>1, <4>1, Least
      <3>2. CASE m = 0
        <4>1. PICK a \in A : TRUE
          OBVIOUS
        <4>2. Good([x \in X |-> a], 0)
          BY <1>0, <4>1
        <4> QED
          BY <3>2, <4>2
      <3>3. CASE m # 0
        <4>1. m - 1 \in Nat /\ m \in Nat /\ m - 1 < m
          BY <3>3
        <4>2. PICK g : Good(g, m - 1)
          <5>1. ~(m - 1 \in T)
            <6> HIDE DEF T
            <6> QED
              BY <3>1, <4>1
          <5> QED
            BY <4>1, <5>1
        <4> DEFINE h == [x \in X |-> IF mu[x] < m - 1 THEN g[x] ELSE F[<<x, g>>]]
        <4>3. g \in [X -> A]
          BY <4>2
        <4>4. h \in [X -> A] /\ \A x \in X : h[x] = (IF mu[x] < m - 1 THEN g[x] ELSE F[<<x, g>>])
          BY <4>3
        <4> HIDE DEF h
        <4>5. ASSUME NEW x \in X, mu[x] < m PROVE h[x] = F[<<x, h>>]
          <5>1. h[x] = F[<<x, g>>]
            BY <4>2, <4>4
          <5>2. \A y \in X : mu[y] < mu[x] => g[y] = h[y]
            <6> SUFFICES ASSUME NEW y \in X, mu[y] < mu[x] PROVE g[y] = h[y]
              OBVIOUS
            <6>1. mu[y] \in Nat /\ mu[x] \in Nat
              BY <1>0
            <6>2. mu[y] < m - 1
              BY <4>1, <4>5, <6>1
            <6> QED
              BY <4>4, <6>2
          <5>3. F[<<x, g>>] = F[<<x, h>>]
            BY <4>3, <4>4, <5>2
          <5> QED
            BY <5>1, <5>3
        <4>6. Good(h, m)
          BY <4>4, <4>5
        <4> QED
          BY <4>6
      <3> QED
        BY <3>2, <3>3
    <2>2. CASE T = {}
      BY <2>2
    <2> QED
      BY <2>1, <2>2
  <1> DEFINE S(x) == CHOOSE g : Good(g, mu[x] + 1)
             s == [x \in X |-> S(x)[x]]
  <1>3. ASSUME NEW x \in X PROVE Good(S(x), mu[x] + 1)
    <2>1. mu[x] + 1 \in Nat
      BY <1>0
    <2>2. \E g : Good(g, mu[x] + 1)
      BY <1>2, <2>1
    <2> HIDE DEF Good
    <2> QED
      BY <2>2
  <1> HIDE DEF S
  <1>4. s \in [X -> A] /\ \A x \in X : s[x] = S(x)[x]
    BY <1>3
  <1> HIDE DEF s
  <1>5. ASSUME NEW x \in X PROVE s[x] = F[<<x, s>>]
    <2>0. mu[x] \in Nat /\ mu[x] < mu[x] + 1
      BY <1>0
    <2>0a. S(x) \in [X -> A] /\ \A z \in X : mu[z] < mu[x] + 1 => S(x)[z] = F[<<z, S(x)>>]
      BY <1>3
    <2>1. S(x)[x] = F[<<x, S(x)>>] /\ S(x) \in [X -> A]
      BY <2>0, <2>0a
    <2>2. ASSUME NEW y \in X, mu[y] < mu[x] PROVE S(x)[y] = s[y]
      <3>1. mu[y] + 1 \in Nat /\ mu[y] < mu[y] + 1
        BY <1>0
      <3>2. Good(S(x), mu[y] + 1)
        <4>1. ASSUME NEW z \in X, mu[z] < mu[y] + 1 PROVE mu[z] < mu[x] + 1
          <5>1. mu[z] \in Nat /\ mu[y] \in Nat /\ mu[x] \in Nat
            BY <1>0
          <5> QED
            BY <2>2, <4>1, <5>1
        <4> QED
          BY <2>0a, <4>1
      <3>3. Good(S(y), mu[y] + 1)
        BY <1>3
      <3>4. S(x)[y] = S(y)[y]
        <4> HIDE DEF Good
        <4> QED
          BY <1>1, <3>1, <3>2, <3>3
      <3> QED
        BY <1>4, <3>4
    <2>3. F[<<x, S(x)>>] = F[<<x, s>>]
      BY <1>4, <2>1, <2>2
    <2> QED
      BY <1>4, <2>1, <2>3
  <1> QED
    BY <1>4, <1>5 DEF Solution

--------------------------------------------------------------------------------
(* Numbers of variable length.                                             *)

(* A byte of a number and what is left of it.                              *)
LEMMA DivBase ==
    ASSUME NEW n \in Nat
    PROVE  /\ Base \in Nat /\ Base > 1
           /\ n % Base \in Nat /\ n % Base < Base
           /\ n \div Base \in Nat
           /\ n >= Base => n \div Base < n /\ n \div Base > 0
  <1>1. Base \in Nat /\ Base > 1
    BY BaseAssumption
  <1>2. n % Base \in Nat /\ n % Base < Base /\ n \div Base \in Nat /\ n = Base * (n \div Base) + (n % Base)
    BY <1>1
  <1> DEFINE q == n \div Base
             r == n % Base
  <1> HIDE DEF q, r
  <1>3. r \in Nat /\ r < Base /\ q \in Nat /\ n = Base * q + r
    BY <1>2 DEF q, r
  <1>4. q = 0 => Base * q = 0
    BY <1>1
  <1>5. n >= Base => q > 0
    BY <1>1, <1>3, <1>4
  <1>6. q > 0 => Base * q > q
    BY <1>1, <1>3
  <1>7. n >= Base => q < n
    <2>1. Base * q \in Nat
      BY <1>1, <1>3
    <2> QED
      BY <1>3, <1>5, <1>6, <2>1
  <1> QED
    BY <1>1, <1>2, <1>5, <1>7 DEF q

(* The number is put together again.                                       *)
LEMMA DivBaseSum ==
    ASSUME NEW n \in Nat
    PROVE  n = Base * (n \div Base) + (n % Base)
  BY BaseAssumption

(* EncodeVarint does what its equation says.                               *)
LEMMA EncodeVarintIs ==
    ASSUME NEW n \in Nat
    PROVE  EncodeVarint(n) = IF n < Base THEN <<n>>
                             ELSE <<(n % Base) + Base>> \o EncodeVarint(n \div Base)
  <1> DEFINE Body(g, m) == IF m < Base THEN <<m>> ELSE <<(m % Base) + Base>> \o g[m \div Base]
             Enc(g) == g = [m \in Nat |-> Body(g, m)]
             A == Seq(Nat)
             mu == [m \in Nat |-> m]
             F == [q \in Nat \X [Nat -> A] |-> Body(q[2], q[1])]
  <1>1. ASSUME NEW g \in [Nat -> A], NEW m \in Nat PROVE Body(g, m) \in A
    <2>1. Base \in Nat /\ m % Base \in Nat /\ m \div Base \in Nat
      BY DivBase
    <2> HIDE DEF A
    <2>2. g[m \div Base] \in A /\ (m % Base) + Base \in Nat
      BY <2>1
    <2>3. <<m>> \in A /\ <<(m % Base) + Base>> \o g[m \div Base] \in A
      BY <2>2 DEF A
    <2> QED
      BY <2>3
  <1>2. F \in [Nat \X [Nat -> A] -> A]
    BY <1>1
  <1>3. ASSUME NEW m \in Nat, NEW g \in [Nat -> A], NEW h \in [Nat -> A],
               \A y \in Nat : mu[y] < mu[m] => g[y] = h[y]
        PROVE  F[<<m, g>>] = F[<<m, h>>]
    <2>1. F[<<m, g>>] = Body(g, m) /\ F[<<m, h>>] = Body(h, m)
      OBVIOUS
    <2>2. m >= Base => g[m \div Base] = h[m \div Base]
      BY <1>3, DivBase
    <2>3. Body(g, m) = Body(h, m)
      <3>1. m < Base \/ m >= Base
        BY DivBase
      <3> HIDE DEF A
      <3> QED
        BY <2>2, <3>1
    <2> HIDE DEF F, Body
    <2> QED
      BY <2>1, <2>3
  <1>4. mu \in [Nat -> Nat] /\ A # {}
    <2>1. <<>> \in A
      OBVIOUS
    <2> QED
      BY <2>1
  <1>5. \E g : Solution(Nat, A, F, g)
    <2> HIDE DEF mu, F, A
    <2>1. \A m \in Nat, g, h \in [Nat -> A] :
             (\A y \in Nat : mu[y] < mu[m] => g[y] = h[y]) => F[<<m, g>>] = F[<<m, h>>]
      BY <1>3
    <2>2. Recursive(Nat, A, mu, F)
      BY <1>2, <1>4, <2>1 DEF Recursive
    <2> QED
      BY <2>2, Recursion
  <1>6. PICK g : Solution(Nat, A, F, g)
    BY <1>5
  <1>6a. \A m \in Nat : g[m] = Body(g, m) /\ g = [x \in Nat |-> g[x]]
    <2> HIDE DEF Body, A
    <2> QED
      BY <1>6 DEF Solution
  <1>7. Enc(g)
    <2> HIDE DEF Body, A
    <2> QED
      BY <1>6a
  <1> HIDE DEF Body
  <1>8. \A m \in Nat : EncodeVarint(m) = (CHOOSE f : Enc(f))[m]
    BY DEF EncodeVarint, Enc, Body
  <1>9. Enc(CHOOSE f : Enc(f))
    <2> HIDE DEF Enc
    <2> QED
      BY <1>7
  <1>10. \A m \in Nat : EncodeVarint(m) = Body(CHOOSE f : Enc(f), m)
    BY <1>8, <1>9
  <1>11. n \div Base \in Nat
    BY DivBase
  <1>12. EncodeVarint(n \div Base) = (CHOOSE f : Enc(f))[n \div Base]
    BY <1>8, <1>11
  <1> HIDE DEF Enc
  <1> QED
    BY <1>10, <1>12 DEF Body

(* A varint is a string, and its bytes but the last have the top bit.      *)
LEMMA EncodeVarintType ==
    ASSUME NEW n \in Nat
    PROVE  EncodeVarint(n) \in Seq(Nat) /\ EncodeVarint(n) # <<>>
  <1> DEFINE T == {m \in Nat : ~(EncodeVarint(m) \in Seq(Nat) /\ EncodeVarint(m) # <<>>)}
  <1>1. CASE T # {}
    <2>1. PICK m \in T : \A i \in T : m <= i
      <3>1. T \subseteq Nat
        OBVIOUS
      <3> QED
        BY <1>1, <3>1, Least
    <2>2. m \in Nat /\ ~(EncodeVarint(m) \in Seq(Nat) /\ EncodeVarint(m) # <<>>)
      OBVIOUS
    <2>3. CASE m < Base
      <3>1. EncodeVarint(m) = <<m>>
        BY <2>2, <2>3, EncodeVarintIs
      <3>2. <<m>> \in Seq(Nat) /\ <<m>> # <<>>
        BY <2>2
      <3> QED
        BY <2>2, <3>1, <3>2
    <2>4. CASE m >= Base
      <3>0. m \div Base \in Nat /\ m \div Base < m /\ m % Base \in Nat /\ Base \in Nat
        BY <2>2, <2>4, DivBase
      <3>1. m \div Base \in Nat /\ m \div Base < m /\ (m % Base) + Base \in Nat /\ Base \in Nat
        BY <3>0
      <3>2. ~(m \div Base \in T)
        <4> HIDE DEF T
        <4> QED
          BY <2>1, <2>2, <3>1
      <3>3. EncodeVarint(m \div Base) \in Seq(Nat)
        BY <3>1, <3>2
      <3>4. EncodeVarint(m) = <<(m % Base) + Base>> \o EncodeVarint(m \div Base)
        <4>1. ~(m < Base)
          BY <2>2, <2>4, <3>1
        <4> QED
          BY <2>2, <4>1, EncodeVarintIs
      <3> DEFINE e == EncodeVarint(m \div Base)
                 b == (m % Base) + Base
      <3> HIDE DEF e, b
      <3>5. <<b>> \o e \in Seq(Nat) /\ <<b>> \o e # <<>>
        BY <3>1, <3>3 DEF e, b
      <3> QED
        BY <2>2, <3>4, <3>5 DEF e, b
    <2> QED
      BY <2>2, <2>3, <2>4, DivBase
  <1>2. CASE T = {}
    BY <1>2
  <1> QED
    BY <1>1, <1>2

(* Two numbers have the same varint only if they are the same.             *)
LEMMA EncodeVarintInjective ==
    ASSUME NEW n \in Nat, NEW m \in Nat, EncodeVarint(n) = EncodeVarint(m)
    PROVE  n = m
  <1> DEFINE T == {i \in Nat : \E j \in Nat : i # j /\ EncodeVarint(i) = EncodeVarint(j)}
  <1>1. CASE T # {}
    <2>1. PICK i \in T : \A x \in T : i <= x
      <3>1. T \subseteq Nat
        OBVIOUS
      <3> QED
        BY <1>1, <3>1, Least
    <2>2. PICK j \in Nat : i # j /\ EncodeVarint(i) = EncodeVarint(j)
      OBVIOUS
    <2>3. i \in Nat
      OBVIOUS
    <2>4. ASSUME NEW x \in Nat
          PROVE  /\ x < Base => EncodeVarint(x)[1] = x
                 /\ ~(x < Base) => /\ EncodeVarint(x)[1] = (x % Base) + Base
                                   /\ Tail(EncodeVarint(x)) = EncodeVarint(x \div Base)
      <3>1. CASE x < Base
        <4>1. EncodeVarint(x) = <<x>>
          BY <3>1, EncodeVarintIs
        <4> QED
          BY <3>1, <4>1
      <3>2. CASE ~(x < Base)
        <4> DEFINE e == EncodeVarint(x \div Base)
                   b == (x % Base) + Base
        <4>1. EncodeVarint(x) = <<b>> \o e
          BY <3>2, EncodeVarintIs
        <4>2. e \in Seq(Nat) /\ b \in Nat
          <5>1. x \div Base \in Nat /\ x % Base \in Nat /\ Base \in Nat
            BY DivBase
          <5>2. b \in Nat
            BY <5>1
          <5> QED
            BY <5>1, <5>2, EncodeVarintType
        <4> HIDE DEF e, b
        <4>3. (<<b>> \o e)[1] = b /\ Tail(<<b>> \o e) = e
          BY <4>2
        <4> QED
          BY <3>2, <4>1, <4>3 DEF e, b
      <3> QED
        BY <3>1, <3>2
    <2>5. /\ i % Base \in Nat /\ j % Base \in Nat /\ Base \in Nat
          /\ i \div Base \in Nat /\ j \div Base \in Nat
          /\ i = Base * (i \div Base) + (i % Base) /\ j = Base * (j \div Base) + (j % Base)
          /\ ~(i < Base) => i \div Base < i
      <3>1. i % Base \in Nat /\ Base \in Nat /\ i \div Base \in Nat /\ (i >= Base => i \div Base < i)
        BY <2>3, DivBase
      <3>2. j % Base \in Nat /\ j \div Base \in Nat
        BY DivBase
      <3>3. i = Base * (i \div Base) + (i % Base) /\ j = Base * (j \div Base) + (j % Base)
        BY <2>3, DivBaseSum
      <3>4. ~(i < Base) => i >= Base
        BY <2>3, <3>1
      <3> QED
        BY <3>1, <3>2, <3>3, <3>4
    <2>6. ~(i < Base) /\ ~(j < Base)
      BY <2>2, <2>3, <2>4, <2>5
    <2>7. i % Base = j % Base
      <3>1. (i % Base) + Base = (j % Base) + Base
        BY <2>2, <2>3, <2>4, <2>6
      <3> QED
        BY <2>5, <3>1
    <2>8. EncodeVarint(i \div Base) = EncodeVarint(j \div Base)
      BY <2>2, <2>3, <2>4, <2>6
    <2>9. i \div Base # j \div Base
      BY <2>2, <2>5, <2>7
    <2>10. i \div Base \in T
      BY <2>5, <2>8, <2>9
    <2> HIDE DEF T
    <2>11. i <= i \div Base
      BY <2>1, <2>10
    <2> QED
      BY <2>3, <2>5, <2>6, <2>11
  <1>2. CASE T = {}
    BY <1>2
  <1> QED
    BY <1>1, <1>2

(* A key is a name space and a number.                                     *)
LEMMA KeyInjective ==
    ASSUME NEW ns \in Nat, NEW ms \in Nat, NEW n \in Nat, NEW m \in Nat, Key(ns, n) = Key(ms, m)
    PROVE  ns = ms /\ n = m
  <1> DEFINE d == EncodeVarint(n)
             e == EncodeVarint(m)
  <1>1. d \in Seq(Nat) /\ e \in Seq(Nat)
    BY EncodeVarintType
  <1>2. <<ns>> \o d = <<ms>> \o e
    BY DEF Key
  <1>3. d = e => n = m
    BY EncodeVarintInjective
  <1> HIDE DEF d, e
  <1>4. ASSUME NEW a \in Nat, NEW s \in Seq(Nat) PROVE (<<a>> \o s)[1] = a /\ Tail(<<a>> \o s) = s
    OBVIOUS
  <1>5. ns = ms /\ d = e
    <2>1. (<<ns>> \o d)[1] = ns /\ Tail(<<ns>> \o d) = d
      BY <1>1, <1>4
    <2>2. (<<ms>> \o e)[1] = ms /\ Tail(<<ms>> \o e) = e
      BY <1>1, <1>4
    <2> QED
      BY <1>2, <2>1, <2>2
  <1> QED
    BY <1>3, <1>5

(* The least of some numbers.                                              *)
LEMMA MinOf ==
    ASSUME NEW T, T \subseteq Nat, T # {}
    PROVE  Min(T) \in T /\ \A i \in T : Min(T) <= i
  BY Least DEF Min

(* The entries of two strings put together.                                *)
LEMMA ConcatAt ==
    ASSUME NEW A, NEW a \in Seq(A), NEW b \in Seq(A)
    PROVE  /\ a \o b \in Seq(A) /\ Len(a \o b) = Len(a) + Len(b)
           /\ Len(a) \in Nat /\ Len(b) \in Nat
           /\ \A i \in 1..Len(a) : (a \o b)[i] = a[i]
           /\ \A i \in 1..Len(b) : (a \o b)[Len(a) + i] = b[i]
  <1>1. Len(a) \in Nat /\ Len(b) \in Nat
    OBVIOUS
  <1>2. a \o b \in Seq(A) /\ Len(a \o b) = Len(a) + Len(b)
    BY ConcatProperties
  <1>3. ASSUME NEW i \in 1..Len(a) PROVE (a \o b)[i] = a[i]
    <2>1. i \in 1..(Len(a) + Len(b)) /\ i <= Len(a)
      BY <1>1
    <2> QED
      BY <2>1, ConcatProperties
  <1>4. ASSUME NEW i \in 1..Len(b) PROVE (a \o b)[Len(a) + i] = b[i]
    <2>1. Len(a) + i \in 1..(Len(a) + Len(b)) /\ ~(Len(a) + i <= Len(a)) /\ (Len(a) + i) - Len(a) = i
      BY <1>1
    <2> QED
      BY <2>1, ConcatProperties
  <1> QED
    BY <1>1, <1>2, <1>3, <1>4

(* A part of a string.                                                     *)
LEMMA SubSeqIs ==
    ASSUME NEW A, NEW b \in Seq(A), NEW w, NEW m \in Nat,
           \A i \in 1..Len(b) : w[m + i] = b[i]
    PROVE  SubSeq(w, m + 1, m + Len(b)) = b
  <1> DEFINE c == SubSeq(w, m + 1, m + Len(b))
  <1>1. Len(b) \in Nat /\ \A i \in 1..Len(b) : b[i] \in A
    BY LenProperties
  <1>2. \A i \in (m + 1)..(m + Len(b)) : w[i] \in A
    <2> SUFFICES ASSUME NEW i \in (m + 1)..(m + Len(b)) PROVE w[i] \in A
      OBVIOUS
    <2>1. i - m \in 1..Len(b) /\ m + (i - m) = i
      BY <1>1
    <2>2. w[m + (i - m)] = b[i - m]
      BY <2>1
    <2> QED
      BY <1>1, <2>1, <2>2
  <1>3. m + 1 \in Int /\ m + Len(b) \in Int
    BY <1>1
  <1>4. /\ c \in Seq(A)
        /\ Len(c) = IF m + 1 <= m + Len(b) THEN (m + Len(b)) - (m + 1) + 1 ELSE 0
        /\ \A i \in 1..((m + Len(b)) - (m + 1) + 1) : c[i] = w[(m + 1) + i - 1]
    BY <1>2, <1>3, SubSeqProperties
  <1> HIDE DEF c
  <1>5. (m + Len(b)) - (m + 1) + 1 = Len(b) /\ (~(m + 1 <= m + Len(b)) => Len(b) = 0)
    BY <1>1
  <1>6. Len(c) = Len(b)
    BY <1>4, <1>5
  <1>7. ASSUME NEW i \in 1..Len(b) PROVE c[i] = b[i]
    <2>1. (m + 1) + i - 1 = m + i
      BY <1>1
    <2> QED
      BY <1>4, <1>5, <2>1
  <1>8. c = b
    BY <1>4, <1>6, <1>7, SeqEqual
  <1> QED
    BY <1>8 DEF c

(* Strings are put together in any order.                                  *)
LEMMA Associative ==
    ASSUME NEW a \in Seq(Nat), NEW b \in Seq(Nat), NEW c \in Seq(Nat)
    PROVE  (a \o b) \o c = a \o (b \o c)
  OBVIOUS

(* The same as a definition, which the provers do not look into.           *)
Cat(a, b) == a \o b

(* Strings put together are a string, in any order.                        *)
LEMMA CatAssociative ==
    ASSUME NEW a \in Seq(Nat), NEW b \in Seq(Nat), NEW c \in Seq(Nat)
    PROVE  Cat(Cat(a, b), c) = Cat(a, Cat(b, c)) /\ Cat(a, b) \in Seq(Nat)
  BY DEF Cat

(* The last three of four strings are what follows the first.              *)
LEMMA CatFour ==
    ASSUME NEW a \in Seq(Nat), NEW b \in Seq(Nat), NEW c \in Seq(Nat), NEW d \in Seq(Nat)
    PROVE  /\ Cat(Cat(Cat(a, b), c), d) = Cat(a, Cat(b, Cat(c, d)))
           /\ Cat(b, Cat(c, d)) \in Seq(Nat) /\ Cat(c, d) \in Seq(Nat)
  <1>1. Cat(a, b) \in Seq(Nat) /\ Cat(c, d) \in Seq(Nat)
    BY CatAssociative
  <1>2. Cat(Cat(Cat(a, b), c), d) = Cat(Cat(a, b), Cat(c, d))
    BY <1>1, CatAssociative
  <1>3. Cat(Cat(a, b), Cat(c, d)) = Cat(a, Cat(b, Cat(c, d))) /\ Cat(b, Cat(c, d)) \in Seq(Nat)
    BY <1>1, CatAssociative
  <1> QED
    BY <1>1, <1>2, <1>3

(* The parts of two strings put together.                                  *)
LEMMA ConcatParts ==
    ASSUME NEW A, NEW a \in Seq(A), NEW b \in Seq(A)
    PROVE  /\ SubSeq(a \o b, 1, Len(a)) = a
           /\ SubSeq(a \o b, Len(a) + 1, Len(a \o b)) = b
  <1> DEFINE w == a \o b
  <1>1. /\ Len(w) = Len(a) + Len(b) /\ Len(a) \in Nat
        /\ \A i \in 1..Len(a) : w[i] = a[i]
        /\ \A i \in 1..Len(b) : w[Len(a) + i] = b[i]
    BY ConcatAt
  <1> HIDE DEF w
  <1>2. SubSeq(w, 0 + 1, 0 + Len(a)) = a
    <2>1. \A i \in 1..Len(a) : 0 + i = i
      BY <1>1
    <2> QED
      BY <1>1, <2>1, SubSeqIs, 0 \in Nat
  <1>3. 0 + 1 = 1 /\ 0 + Len(a) = Len(a)
    BY <1>1
  <1>4. SubSeq(w, Len(a) + 1, Len(a) + Len(b)) = b
    BY <1>1, SubSeqIs
  <1> QED
    BY <1>1, <1>2, <1>3, <1>4 DEF w

(* A varint of more than one byte: the first byte, and the varint of the   *)
(* rest.                                                                   *)
LEMMA EncodeVarintLong ==
    ASSUME NEW n \in Nat, n >= Base
    PROVE  /\ EncodeVarint(n)[1] = (n % Base) + Base
           /\ Len(EncodeVarint(n)) = Len(EncodeVarint(n \div Base)) + 1
           /\ \A i \in 1..Len(EncodeVarint(n \div Base)) :
                 EncodeVarint(n)[i + 1] = EncodeVarint(n \div Base)[i]
  <1> DEFINE e == EncodeVarint(n \div Base)
             b == (n % Base) + Base
  <1>1. n \div Base \in Nat /\ n % Base \in Nat /\ Base \in Nat /\ ~(n < Base)
    BY DivBase
  <1>2. EncodeVarint(n) = <<b>> \o e
    BY <1>1, EncodeVarintIs
  <1>3. e \in Seq(Nat)
    BY <1>1, EncodeVarintType
  <1>4. <<b>> \in Seq(Nat) /\ Len(<<b>>) = 1 /\ <<b>>[1] = b
    BY <1>1
  <1> HIDE DEF e, b
  <1>5. /\ Len(<<b>> \o e) = 1 + Len(e)
        /\ Len(e) \in Nat
        /\ \A i \in 1..1 : (<<b>> \o e)[i] = <<b>>[i]
        /\ \A i \in 1..Len(e) : (<<b>> \o e)[1 + i] = e[i]
    BY <1>3, <1>4, ConcatAt
  <1>6. \A i \in 1..Len(e) : i + 1 = 1 + i
    BY <1>5
  <1>7. 1 \in 1..1 /\ 1 + Len(e) = Len(e) + 1
    BY <1>5
  <1> QED
    BY <1>2, <1>4, <1>5, <1>6, <1>7 DEF e, b

(* The last byte of a varint, and no other, is without the top bit.        *)
LEMMA VarintShape ==
    ASSUME NEW n \in Nat
    PROVE  /\ Len(EncodeVarint(n)) \in Nat \ {0}
           /\ EncodeVarint(n)[Len(EncodeVarint(n))] < Base
           /\ \A i \in 1..(Len(EncodeVarint(n)) - 1) : EncodeVarint(n)[i] >= Base
  <1> DEFINE Shape(e) == Len(e) \in Nat \ {0} /\ e[Len(e)] < Base /\ \A i \in 1..(Len(e) - 1) : e[i] >= Base
             T == {m \in Nat : ~Shape(EncodeVarint(m))}
  <1>1. CASE T # {}
    <2>1. PICK m \in T : \A i \in T : m <= i
      <3>1. T \subseteq Nat
        OBVIOUS
      <3> QED
        BY <1>1, <3>1, Least
    <2>2. m \in Nat /\ ~Shape(EncodeVarint(m))
      OBVIOUS
    <2>2a. \A i \in Nat : i < m => Shape(EncodeVarint(i))
      <3>1. \A i \in Nat : i < m => ~(i \in T)
        <4> HIDE DEF T
        <4> QED
          BY <2>1, <2>2
      <3> HIDE DEF Shape
      <3> QED
        BY <3>1
    <2> HIDE DEF T
    <2>3. CASE m < Base
      <3>1. EncodeVarint(m) = <<m>>
        BY <2>2, <2>3, EncodeVarintIs
      <3>2. Shape(<<m>>)
        <4>1. Len(<<m>>) = 1 /\ <<m>>[1] = m /\ 1..(1 - 1) = {}
          OBVIOUS
        <4> QED
          BY <2>3, <4>1
      <3> QED
        BY <2>2, <3>1, <3>2
    <2>4. CASE m >= Base
      <3> DEFINE e == EncodeVarint(m)
                 d == EncodeVarint(m \div Base)
                 l == Len(d)
      <3>1. m \div Base \in Nat /\ m \div Base < m /\ m % Base \in Nat /\ Base \in Nat
        BY <2>2, <2>4, DivBase
      <3>2. Shape(d)
        BY <2>2a, <3>1
      <3>3. e[1] = (m % Base) + Base /\ Len(e) = l + 1 /\ \A i \in 1..l : e[i + 1] = d[i]
        BY <2>2, <2>4, EncodeVarintLong
      <3>4. l \in Nat \ {0} /\ d[l] < Base /\ \A i \in 1..(l - 1) : d[i] >= Base
        BY <3>2
      <3> HIDE DEF l, d, e
      <3>5. l \in 1..l /\ Len(e) \in Nat \ {0} /\ e[Len(e)] < Base
        BY <3>3, <3>4
      <3>6. ASSUME NEW i \in 1..(Len(e) - 1) PROVE e[i] >= Base
        <4>1. CASE i = 1
          BY <3>1, <3>3, <4>1
        <4>2. CASE i # 1
          <5>1. i - 1 \in 1..(l - 1) /\ i - 1 \in 1..l /\ (i - 1) + 1 = i
            BY <3>3, <3>4, <4>2
          <5> QED
            BY <3>3, <3>4, <5>1
        <4> QED
          BY <4>1, <4>2
      <3>7. Shape(e)
        BY <3>5, <3>6
      <3> QED
        BY <2>2, <3>7 DEF e
    <2> QED
      BY <2>2, <2>3, <2>4, DivBase
  <1>2. CASE T = {}
    BY <1>2
  <1> QED
    BY <1>1, <1>2

(* Each byte divides what is left by Base.                                 *)
LEMMA DivideLimit ==
    ASSUME NEW n \in Nat, NEW c \in Nat, n < c * Base
    PROVE  n \div Base < c
  <1> DEFINE q == n \div Base
             r == n % Base
  <1>1. q \in Nat /\ r \in Nat /\ Base \in Nat /\ Base > 1
    BY DivBase
  <1>2. n = Base * q + r
    BY DivBaseSum
  <1> HIDE DEF q, r
  <1>3. CASE q >= c
    <2>1. Base * q >= c * Base
      BY <1>1, <1>3
    <2>2. Base * q \in Nat /\ c * Base \in Nat
      BY <1>1
    <2> QED
      BY <1>1, <1>2, <2>1, <2>2
  <1> QED
    BY <1>1, <1>3 DEF q

(* A varint is one byte longer than that of what is left.                  *)
LEMMA LengthStep ==
    ASSUME NEW n \in Nat, NEW c \in Nat, n < c * Base, NEW j \in Nat \ {0},
           \A m \in Nat : m < c => Len(EncodeVarint(m)) <= j
    PROVE  Len(EncodeVarint(n)) <= j + 1
  <1>1. CASE n < Base
    <2>1. EncodeVarint(n) = <<n>>
      BY <1>1, EncodeVarintIs
    <2>2. Len(<<n>>) = 1
      OBVIOUS
    <2> QED
      BY <2>1, <2>2
  <1>2. CASE n >= Base
    <2>1. n \div Base \in Nat /\ n \div Base < c
      BY DivBase, DivideLimit
    <2>2. Len(EncodeVarint(n \div Base)) <= j
      BY <2>1
    <2>3. Len(EncodeVarint(n)) = Len(EncodeVarint(n \div Base)) + 1
      BY <1>2, EncodeVarintLong
    <2>4. Len(EncodeVarint(n \div Base)) \in Nat
      BY <2>1, VarintShape
    <2> QED
      BY <2>2, <2>3, <2>4
  <1> QED
    BY <1>1, <1>2, DivBase

(* Five bytes are enough for a size.                                       *)
LEMMA VarintLength ==
    ASSUME NEW n \in Nat, n < VarintLimit
    PROVE  Len(EncodeVarint(n)) <= 5
  <1>0. Base \in Nat /\ Base > 1
    BY BaseAssumption
  <1> DEFINE b2 == Base * Base
             b3 == b2 * Base
             b4 == b3 * Base
  <1>1. b2 \in Nat /\ b3 \in Nat /\ b4 \in Nat
    BY <1>0
  <1>2. \A m \in Nat : m < Base => Len(EncodeVarint(m)) <= 1
    <2> SUFFICES ASSUME NEW m \in Nat, m < Base PROVE Len(EncodeVarint(m)) <= 1
      OBVIOUS
    <2>1. EncodeVarint(m) = <<m>>
      BY EncodeVarintIs
    <2>2. Len(<<m>>) = 1
      OBVIOUS
    <2> QED
      BY <2>1, <2>2
  <1>3. \A m \in Nat : m < b2 => Len(EncodeVarint(m)) <= 2
    <2> SUFFICES ASSUME NEW m \in Nat, m < b2 PROVE Len(EncodeVarint(m)) <= 1 + 1
      OBVIOUS
    <2> QED
      BY <1>0, <1>2, LengthStep, 1 \in Nat \ {0}
  <1> HIDE DEF b2
  <1>4. \A m \in Nat : m < b3 => Len(EncodeVarint(m)) <= 3
    <2> SUFFICES ASSUME NEW m \in Nat, m < b3 PROVE Len(EncodeVarint(m)) <= 2 + 1
      OBVIOUS
    <2> QED
      BY <1>0, <1>1, <1>3, LengthStep, 2 \in Nat \ {0}
  <1> HIDE DEF b3
  <1>5. \A m \in Nat : m < b4 => Len(EncodeVarint(m)) <= 4
    <2> SUFFICES ASSUME NEW m \in Nat, m < b4 PROVE Len(EncodeVarint(m)) <= 3 + 1
      OBVIOUS
    <2> QED
      BY <1>0, <1>1, <1>4, LengthStep, 3 \in Nat \ {0}
  <1> HIDE DEF b4
  <1>6. n < b4 * Base
    BY DEF VarintLimit, b4, b3, b2
  <1>7. Len(EncodeVarint(n)) <= 4 + 1
    BY <1>1, <1>5, <1>6, LengthStep, 4 \in Nat \ {0}
  <1> QED
    BY <1>7

(* The bytes that can be a varint's, and those without the top bit.        *)
Stops(w) == {i \in 1..Len(w) : i <= 5 /\ w[i] < Base}

(* VarintSize is the position of the first byte without the top bit, if it *)
(* is among the first five.                                                *)
LEMMA VarintSizeFirst ==
    ASSUME NEW w \in Seq(Nat)
    PROVE  /\ Stops(w) = {} => VarintSize(w) = 0
           /\ Stops(w) # {} => VarintSize(w) \in Stops(w) /\ \A i \in Stops(w) : VarintSize(w) <= i
  <1> DEFINE n == Min({5, Len(w)})
             q == SubSeq(w, 1, n)
             I == {i \in 1..Len(q) : q[i] < Base}
  <1>0. Len(w) \in Nat /\ \A i \in 1..Len(w) : w[i] \in Nat
    OBVIOUS
  <1>1. n \in {5, Len(w)} /\ n <= 5 /\ n <= Len(w)
    <2>1. {5, Len(w)} \subseteq Nat /\ {5, Len(w)} # {}
      BY <1>0
    <2> QED
      BY <2>1, MinOf
  <1> HIDE DEF n
  <1>2. n \in Nat /\ \A i \in Nat : i <= n <=> (i <= 5 /\ i <= Len(w))
    BY <1>0, <1>1
  <1>3. Len(q) = n /\ \A i \in 1..n : q[i] = w[i]
    <2>1. \A i \in 1..n : w[i] \in Nat
      BY <1>0, <1>1, <1>2
    <2>2. /\ Len(SubSeq(w, 1, n)) = (IF 1 <= n THEN n - 1 + 1 ELSE 0)
          /\ \A i \in 1..(n - 1 + 1) : SubSeq(w, 1, n)[i] = w[1 + i - 1]
      BY <1>2, <2>1, SubSeqProperties
    <2>3. n - 1 + 1 = n /\ (~(1 <= n) => n = 0) /\ \A i \in 1..n : 1 + i - 1 = i
      BY <1>2
    <2> QED
      BY <2>2, <2>3
  <1>4. VarintSize(w) = IF I # {} THEN Min(I) ELSE 0
    BY DEF VarintSize, SelectInSeq, n
  <1> HIDE DEF q
  <1>5. I = Stops(w)
    <2>1. ASSUME NEW i \in I PROVE i \in Stops(w)
      <3>1. i \in 1..n /\ i \in Nat /\ i <= n /\ q[i] < Base
        BY <1>2, <1>3
      <3>2. i <= 5 /\ i <= Len(w)
        BY <1>2, <3>1
      <3> QED
        BY <1>0, <1>3, <3>1, <3>2 DEF Stops
    <2>2. ASSUME NEW i \in Stops(w) PROVE i \in I
      <3>1. i \in 1..Len(w) /\ i <= 5 /\ w[i] < Base
        BY DEF Stops
      <3>2. i \in 1..n
        BY <1>0, <1>2, <3>1
      <3> QED
        BY <1>3, <3>1, <3>2
    <2> QED
      BY <2>1, <2>2
  <1>6. Stops(w) \subseteq Nat
    BY <1>0 DEF Stops
  <1> HIDE DEF I
  <1> QED
    BY <1>4, <1>5, <1>6, MinOf

(* The size of a varint whose shape is known.                              *)
LEMMA VarintSizeIs ==
    ASSUME NEW w \in Seq(Nat), NEW j \in 1..5, j <= Len(w), w[j] < Base,
           \A i \in 1..(j - 1) : w[i] >= Base
    PROVE  VarintSize(w) = j
  <1>1. Len(w) \in Nat /\ Base \in Nat /\ j \in Nat /\ \A i \in 1..Len(w) : w[i] \in Nat
    BY BaseAssumption
  <1>2. j \in Stops(w)
    BY <1>1 DEF Stops
  <1>3. ASSUME NEW i \in Stops(w) PROVE i \in Nat /\ j <= i
    <2>1. i \in 1..Len(w) /\ w[i] < Base
      BY DEF Stops
    <2>2. ~(i \in 1..(j - 1))
      <3>1. w[i] \in Nat
        BY <1>1, <2>1
      <3> QED
        BY <1>1, <2>1, <3>1
    <2> QED
      BY <1>1, <2>1, <2>2
  <1>4. VarintSize(w) \in Stops(w) /\ VarintSize(w) <= j
    BY <1>2, VarintSizeFirst
  <1>5. VarintSize(w) \in Nat /\ j <= VarintSize(w)
    BY <1>3, <1>4
  <1> QED
    BY <1>1, <1>4, <1>5

(* The size of a varint, of whatever string.                               *)
LEMMA VarintSizeType ==
    ASSUME NEW w \in Seq(Nat)
    PROVE  VarintSize(w) \in Nat /\ VarintSize(w) <= Len(w)
  <1>1. Len(w) \in Nat
    OBVIOUS
  <1>2. CASE Stops(w) = {}
    BY <1>1, <1>2, VarintSizeFirst
  <1>3. CASE Stops(w) # {}
    <2>1. VarintSize(w) \in Stops(w)
      BY <1>3, VarintSizeFirst
    <2> QED
      BY <1>1, <2>1 DEF Stops
  <1> QED
    BY <1>2, <1>3

(* VarintValue does what its equation says.                                *)
LEMMA VarintValueIs ==
    ASSUME NEW w \in Seq(Nat), NEW N \in Nat, VarintSize(w) = N, N <= Len(w)
    PROVE  \E f : /\ VarintValue(w) = f[1] /\ f[1] \in Nat
                  /\ \A i \in 1..(N + 1) : f[i] = IF i > N THEN 0 ELSE (w[i] % Base) + Base * f[i + 1]
  <1> DEFINE X == 1..(N + 1)
             Body(g, i) == IF i > N THEN 0 ELSE (w[i] % Base) + Base * g[i + 1]
             Val(g) == g = [i \in X |-> Body(g, i)]
             mu == [i \in X |-> (N + 1) - i]
             F == [q \in X \X [X -> Nat] |-> Body(q[2], q[1])]
  <1>0. \A i \in 1..N : i \in 1..Len(w) /\ w[i] \in Nat /\ i + 1 \in X
    OBVIOUS
  <1>1. ASSUME NEW g \in [X -> Nat], NEW i \in X PROVE Body(g, i) \in Nat
    <2>1. CASE i > N
      BY <2>1
    <2>2. CASE ~(i > N)
      <3>1. i \in 1..N
        BY <2>2
      <3>2. w[i] \in Nat /\ i + 1 \in X
        BY <1>0, <3>1
      <3>3. w[i] % Base \in Nat /\ Base \in Nat /\ g[i + 1] \in Nat
        BY <3>2, DivBase
      <3>4. ASSUME NEW a \in Nat, NEW b \in Nat PROVE a + Base * b \in Nat
        BY <3>3
      <3> QED
        BY <2>2, <3>3, <3>4
    <2> QED
      BY <2>1, <2>2
  <1>2. F \in [X \X [X -> Nat] -> Nat]
    <2> HIDE DEF Body
    <2> QED
      BY <1>1
  <1>3. ASSUME NEW i \in X, NEW g \in [X -> Nat], NEW h \in [X -> Nat],
               \A y \in X : mu[y] < mu[i] => g[y] = h[y]
        PROVE  F[<<i, g>>] = F[<<i, h>>]
    <2>1. F[<<i, g>>] = Body(g, i) /\ F[<<i, h>>] = Body(h, i)
      OBVIOUS
    <2>2. ~(i > N) => g[i + 1] = h[i + 1]
      BY <1>3
    <2>3. Body(g, i) = Body(h, i)
      BY <2>2
    <2> HIDE DEF F, Body
    <2> QED
      BY <2>1, <2>3
  <1>4. mu \in [X -> Nat] /\ Nat # {}
    OBVIOUS
  <1>5. \E g : Solution(X, Nat, F, g)
    <2> HIDE DEF mu, F, X
    <2>1. \A i \in X, g, h \in [X -> Nat] :
             (\A y \in X : mu[y] < mu[i] => g[y] = h[y]) => F[<<i, g>>] = F[<<i, h>>]
      BY <1>3
    <2>2. Recursive(X, Nat, mu, F)
      BY <1>2, <1>4, <2>1 DEF Recursive
    <2> QED
      BY <2>2, Recursion
  <1>6. PICK g : Solution(X, Nat, F, g)
    BY <1>5
  <1>7. Val(g)
    <2> HIDE DEF Body, X
    <2>1. g = [x \in X |-> g[x]] /\ \A i \in X : g[i] = Body(g, i)
      BY <1>6 DEF Solution
    <2>2. [x \in X |-> g[x]] = [x \in X |-> Body(g, x)]
      BY <2>1
    <2> QED
      BY <2>1, <2>2
  <1> HIDE DEF Body
  <1>8. VarintValue(w) = (CHOOSE f : Val(f))[1]
    BY DEF VarintValue, Val, Body
  <1> DEFINE v == CHOOSE f : Val(f)
  <1>9. Val(v)
    <2> HIDE DEF Val
    <2> QED
      BY <1>7
  <1> HIDE DEF v
  <1>10. \A i \in X : v[i] = Body(v, i)
    BY <1>9
  <1>11. v[1] \in Nat
    <2> DEFINE T == {m \in Nat : \E i \in X : m = (N + 1) - i /\ ~(v[i] \in Nat)}
    <2>1. CASE T # {}
      <3>1. PICK m \in T : \A i \in T : m <= i
        <4>1. T \subseteq Nat
          OBVIOUS
        <4> QED
          BY <2>1, <4>1, Least
      <3>2. PICK i \in X : m = (N + 1) - i /\ ~(v[i] \in Nat)
        OBVIOUS
      <3>3. ~(i > N)
        <4>1. i > N => Body(v, i) = 0
          BY DEF Body
        <4> QED
          BY <1>10, <3>2, <4>1
      <3>4. i \in 1..N /\ i + 1 \in X /\ m - 1 = (N + 1) - (i + 1) /\ m - 1 \in Nat /\ m \in Nat
        BY <3>2, <3>3
      <3>5. ~(m - 1 \in T)
        <4> HIDE DEF T
        <4> QED
          BY <3>1, <3>4
      <3>6. v[i + 1] \in Nat
        BY <3>4, <3>5
      <3>7. w[i] \in Nat
        BY <1>0, <3>4
      <3>8. w[i] % Base \in Nat /\ Base \in Nat
        BY <3>7, DivBase
      <3>9. ASSUME NEW a \in Nat, NEW b \in Nat PROVE a + Base * b \in Nat
        <4>1. Base * b \in Nat
          BY ONLY <3>8
        <4> QED
          BY <4>1
      <3>10. Body(v, i) \in Nat
        BY <3>3, <3>6, <3>8, <3>9 DEF Body
      <3> QED
        BY <1>10, <3>2, <3>10
    <2>2. CASE T = {}
      <3>1. N \in Nat /\ N = (N + 1) - 1 /\ 1 \in X
        OBVIOUS
      <3> QED
        BY <2>2, <3>1
    <2> QED
      BY <2>1, <2>2
  <1> QED
    BY <1>8, <1>10, <1>11 DEF Body, v

(* The round trip of a number at the front of a string.                    *)
LEMMA VarintRoundTrip ==
    ASSUME NEW n \in Nat, n < VarintLimit, NEW s \in Seq(Nat)
    PROVE  /\ VarintSize(EncodeVarint(n) \o s) = Len(EncodeVarint(n))
           /\ VarintValue(EncodeVarint(n) \o s) = n
  <1> DEFINE e == EncodeVarint(n)
             w == e \o s
             N == Len(e)
  <1>1. e \in Seq(Nat) /\ N \in Nat \ {0} /\ e[N] < Base /\ (\A i \in 1..(N - 1) : e[i] >= Base) /\ N <= 5
    BY EncodeVarintType, VarintShape, VarintLength
  <1>2. w \in Seq(Nat) /\ N <= Len(w) /\ \A i \in 1..N : w[i] = e[i]
    <2>1. w \in Seq(Nat) /\ Len(w) = N + Len(s) /\ Len(s) \in Nat /\ \A i \in 1..N : w[i] = e[i]
      BY <1>1, ConcatAt
    <2> HIDE DEF w, N
    <2> QED
      BY <1>1, <2>1
  <1> HIDE DEF w, N
  <1>3. VarintSize(w) = N
    <2>1. N \in 1..5 /\ N \in 1..N /\ \A i \in 1..(N - 1) : i \in 1..N
      BY <1>1
    <2>2. w[N] < Base /\ \A i \in 1..(N - 1) : w[i] >= Base
      BY <1>1, <1>2, <2>1
    <2> QED
      BY <1>2, <2>1, <2>2, VarintSizeIs
  <1>4. PICK f : /\ VarintValue(w) = f[1]
                 /\ \A i \in 1..(N + 1) : f[i] = IF i > N THEN 0 ELSE (w[i] % Base) + Base * f[i + 1]
    <2>1. N \in Nat
      BY <1>1
    <2> QED
      BY <1>2, <1>3, <2>1, VarintValueIs
  <1> DEFINE At(o, m) == /\ o + Len(EncodeVarint(m)) = N
                         /\ \A i \in 1..Len(EncodeVarint(m)) : w[o + i] = EncodeVarint(m)[i]
             T == {m \in Nat : \E o \in Nat : At(o, m) /\ f[o + 1] # m}
  <1>5. CASE T # {}
    <2>1. PICK m \in T : \A i \in T : m <= i
      <3>1. T \subseteq Nat
        OBVIOUS
      <3> QED
        BY <1>5, <3>1, Least
    <2>2. PICK o \in Nat : At(o, m) /\ f[o + 1] # m
      OBVIOUS
    <2>3. m \in Nat
      OBVIOUS
    <2>4. \A i \in Nat : i < m => ~(i \in T)
      <3> HIDE DEF T
      <3> QED
        BY <2>1, <2>3
    <2> DEFINE d == EncodeVarint(m)
               L == Len(d)
    <2>5. L \in Nat \ {0} /\ o + L = N /\ \A i \in 1..L : w[o + i] = d[i]
      BY <2>2, <2>3, VarintShape
    <2>6. /\ o + 1 \in 1..(N + 1) /\ o + 1 <= N /\ o + 1 \in 1..N /\ 1 \in 1..L /\ w[o + 1] = d[1]
          /\ (o + 1) + 1 \in 1..(N + 1)
      <3> HIDE DEF L, d
      <3> QED
        BY <1>1, <2>5
    <2>7. f[o + 1] = (w[o + 1] % Base) + Base * f[(o + 1) + 1]
      <3>1. ~(o + 1 > N)
        BY <1>1, <2>6
      <3> QED
        BY <1>4, <2>6, <3>1
    <2>8. CASE m < Base
      <3>1. d = <<m>>
        BY <2>3, <2>8, EncodeVarintIs
      <3>2. L = 1 /\ d[1] = m
        BY <3>1
      <3>3. (o + 1) + 1 > N
        BY <2>5, <3>2
      <3>4. f[(o + 1) + 1] = 0
        BY <1>4, <2>6, <3>3
      <3>5. m % Base = m /\ Base * 0 = 0 /\ m + 0 = m
        <4>1. Base \in Nat /\ Base > 1
          BY BaseAssumption
        <4> HIDE DEF T
        <4>2. ASSUME NEW x \in Nat, x < Base PROVE x % Base = x
          BY <4>1, <4>2
        <4> QED
          BY <2>3, <2>8, <4>1, <4>2
      <3> HIDE DEF T
      <3> QED
        BY <2>2, <2>6, <2>7, <3>2, <3>4, <3>5
    <2>9. CASE m >= Base
      <3> DEFINE p == m \div Base
                 c == EncodeVarint(p)
                 l == Len(c)
      <3>1. p \in Nat /\ p < m /\ m % Base \in Nat /\ m % Base < Base /\ Base \in Nat
        BY <2>3, <2>9, DivBase
      <3>2. d[1] = (m % Base) + Base /\ L = l + 1 /\ \A i \in 1..l : d[i + 1] = c[i]
        BY <2>3, <2>9, EncodeVarintLong
      <3>3. l \in Nat
        BY <3>1, VarintShape
      <3>4. At(o + 1, p)
        <4>1. (o + 1) + l = N
          <5> HIDE DEF L, l
          <5> QED
            BY <2>5, <3>2, <3>3
        <4>2. ASSUME NEW i \in 1..l PROVE w[(o + 1) + i] = c[i]
          <5> HIDE DEF L, l, d, c
          <5>1. i + 1 \in 1..L /\ o + (i + 1) = (o + 1) + i
            BY <3>2, <3>3
          <5> QED
            BY <2>5, <3>2, <5>1
        <4> QED
          BY <4>1, <4>2
      <3>5. f[(o + 1) + 1] = p
        <4>1. ~(p \in T)
          BY <2>4, <3>1
        <4>2. o + 1 \in Nat
          OBVIOUS
        <4> HIDE DEF At, p
        <4> QED
          BY <3>1, <3>4, <4>1, <4>2
      <3>6. w[o + 1] % Base = m % Base
        <4> DEFINE r == m % Base
        <4>1. r \in Nat /\ r < Base
          BY <3>1
        <4> HIDE DEF r
        <4>2. (r + Base) % Base = r
          BY <4>1, BaseAssumption
        <4> QED
          BY <2>6, <3>2, <4>2 DEF r
      <3>7. m = Base * p + (m % Base)
        BY <2>3, DivBaseSum
      <3> HIDE DEF p
      <3>8. Base * p \in Nat
        BY <3>1
      <3>9. f[o + 1] = m
        BY <2>7, <3>1, <3>5, <3>6, <3>7, <3>8
      <3> QED
        BY <2>2, <3>9
    <2> QED
      BY <2>3, <2>8, <2>9, DivBase
  <1>6. CASE T = {}
    <2>1. At(0, n)
      <3>1. 0 + N = N /\ \A i \in 1..N : 0 + i = i
        BY <1>1
      <3> QED
        BY <1>2, <3>1 DEF N
    <2>2. f[0 + 1] = n
      <3> HIDE DEF At
      <3> QED
        BY <1>6, <2>1
    <2> QED
      BY <1>3, <1>4, <2>2 DEF N, w
  <1> QED
    BY <1>5, <1>6

(* VarintValue of whatever string is a number.                             *)
LEMMA VarintValueType ==
    ASSUME NEW w \in Seq(Nat)
    PROVE  VarintValue(w) \in Nat
  BY VarintSizeType, VarintValueIs

(* A slice of whatever string is a string, and so is the rest.             *)
LEMMA SlicedType ==
    ASSUME NEW s \in Seq(Nat)
    PROVE  Sliced(s) \in [slice : Seq(Nat), rest : Seq(Nat)]
  <1> DEFINE n == VarintSize(s)
             rest == SubSeq(s, n + 1, Len(s))
             len == VarintValue(s)
  <1>1. n \in Nat /\ n <= Len(s) /\ len \in Nat /\ Len(s) \in Nat /\ \A i \in 1..Len(s) : s[i] \in Nat
    BY VarintSizeType, VarintValueType
  <1>2. rest \in Seq(Nat)
    <2> HIDE DEF n
    <2>1. n + 1 \in Int /\ \A i \in (n + 1)..Len(s) : s[i] \in Nat
      BY <1>1
    <2> QED
      BY <1>1, <2>1, SubSeqProperties
  <1>3. Sliced(s) = IF n = 0 THEN [slice |-> <<>>, rest |-> s]
                    ELSE IF Len(rest) < len THEN [slice |-> <<>>, rest |-> rest]
                    ELSE [slice |-> SubSeq(rest, 1, len), rest |-> SubSeq(rest, len + 1, Len(rest))]
    BY DEF Sliced
  <1>4. <<>> \in Seq(Nat)
    OBVIOUS
  <1> HIDE DEF rest, len, n
  <1>5. ASSUME ~(Len(rest) < len) PROVE SubSeq(rest, 1, len) \in Seq(Nat) /\ SubSeq(rest, len + 1, Len(rest)) \in Seq(Nat)
    <2>1. Len(rest) \in Nat /\ \A i \in 1..Len(rest) : rest[i] \in Nat
      BY <1>2
    <2>2. (\A i \in 1..len : rest[i] \in Nat) /\ (\A i \in (len + 1)..Len(rest) : rest[i] \in Nat)
      BY <1>1, <1>5, <2>1
    <2>3. len + 1 \in Int /\ len \in Int /\ Len(rest) \in Int
      BY <1>1, <2>1
    <2> QED
      BY <2>2, <2>3, SubSeqProperties
  <1> QED
    BY <1>2, <1>3, <1>4, <1>5

(* A string with its length before it is the next slice.                   *)
LEMMA SlicedRoundTrip ==
    ASSUME NEW x \in Seq(Nat), Len(x) < VarintLimit, NEW r \in Seq(Nat)
    PROVE  Sliced(PutLengthPrefixedSlice(x) \o r) = [slice |-> x, rest |-> r]
  <1> DEFINE e == EncodeVarint(Len(x))
             y == x \o r
             s == e \o y
  <1>1. Len(x) \in Nat /\ e \in Seq(Nat) /\ y \in Seq(Nat)
    BY EncodeVarintType
  <1>2. PutLengthPrefixedSlice(x) \o r = s
    <2> HIDE DEF e
    <2>0. e \in Seq(Nat)
      BY <1>1
    <2>1. (e \o x) \o r = e \o (x \o r)
      BY <2>0, Associative
    <2> QED
      BY <2>1 DEF PutLengthPrefixedSlice, e
  <1>3. VarintSize(s) = Len(e) /\ VarintValue(s) = Len(x) /\ Len(e) # 0
    BY <1>1, VarintRoundTrip, VarintShape
  <1> HIDE DEF s, e
  <1>4. SubSeq(s, Len(e) + 1, Len(s)) = y
    BY <1>1, ConcatParts DEF s
  <1>5. SubSeq(y, 1, Len(x)) = x /\ SubSeq(y, Len(x) + 1, Len(y)) = r /\ ~(Len(y) < Len(x))
    <2>1. Len(y) = Len(x) + Len(r) /\ Len(r) \in Nat
      BY ConcatAt
    <2>2. ~(Len(y) < Len(x))
      <3> HIDE DEF y
      <3> QED
        BY <1>1, <2>1
    <2> QED
      BY <2>2, ConcatParts
  <1> HIDE DEF y
  <1> QED
    BY <1>2, <1>3, <1>4, <1>5 DEF Sliced

(* There is no slice in nothing.                                           *)
LEMMA SlicedEmpty == Sliced(<<>>) = [slice |-> <<>>, rest |-> <<>>]
  <1>1. <<>> \in Seq(Nat) /\ Len(<<>>) = 0 /\ 1..0 = {}
    OBVIOUS
  <1>2. Stops(<<>>) = {}
    BY <1>1 DEF Stops
  <1>3. VarintSize(<<>>) = 0
    BY <1>1, <1>2, VarintSizeFirst
  <1> QED
    BY <1>3 DEF Sliced

--------------------------------------------------------------------------------
(* Folds.                                                                  *)

(* The greatest of some numbers.                                           *)
LEMMA MaxOf ==
    ASSUME NEW n \in Nat, NEW t \in SUBSET (1..n), t # {}
    PROVE  Max(t) \in t /\ \A i \in t : Max(t) >= i
  <1> DEFINE T == {n - i : i \in t}
  <1>1. T \subseteq Nat /\ T # {}
    <2>1. \A i \in t : i \in 1..n
      OBVIOUS
    <2>2. \A i \in t : n - i \in Nat
      BY <2>1
    <2> QED
      BY <2>2
  <1>2. PICK m \in T : \A j \in T : m <= j
    <2> HIDE DEF T
    <2> QED
      BY <1>1, Least
  <1>3. PICK x \in t : m = n - x
    OBVIOUS
  <1>4. \A i \in t : x >= i
    <2> SUFFICES ASSUME NEW i \in t PROVE x >= i
      OBVIOUS
    <2>1. n - i \in T
      OBVIOUS
    <2>2. n - x <= n - i
      BY <1>2, <1>3, <2>1
    <2>3. i \in Nat /\ x \in Nat
      OBVIOUS
    <2> HIDE DEF T
    <2> QED
      BY <2>2, <2>3
  <1> HIDE DEF T
  <1> QED
    BY <1>4 DEF Max

(* A fold of n entries, as the library defines it: G is the operation on   *)
(* what the entries before gave and the number of an entry.                *)
FoldEquation(n, base, G, g) ==
    g = [t \in SUBSET (1..n) |-> IF t = {} THEN base ELSE G[<<g[t \ {Max(t)}], Max(t)>>]]

(* The equation of a fold has a solution.                                  *)
LEMMA FoldExists ==
    ASSUME NEW A, NEW n \in Nat, NEW base \in A, NEW G \in [A \X (1..n) -> A]
    PROVE  \E g \in [SUBSET (1..n) -> A] : FoldEquation(n, base, G, g)
  <1> DEFINE X == SUBSET (1..n)
             Body(g, t) == IF t = {} THEN base ELSE G[<<g[t \ {Max(t)}], Max(t)>>]
             mu == [t \in X |-> IF t = {} THEN 0 ELSE Max(t)]
             F == [q \in X \X [X -> A] |-> Body(q[2], q[1])]
  <1>0. ASSUME NEW t \in X, t # {}
        PROVE  /\ Max(t) \in 1..n /\ t \ {Max(t)} \in X
               /\ t \ {Max(t)} # {} => Max(t \ {Max(t)}) < Max(t)
    <2>1. Max(t) \in t /\ \A i \in t : Max(t) >= i
      BY <1>0, MaxOf
    <2> DEFINE m == Max(t)
    <2> HIDE DEF m
    <2>0. t \subseteq 1..n
      OBVIOUS
    <2>2. m \in t /\ m \in 1..n /\ t \ {m} \in X /\ \A i \in t \ {m} : i < m
      <3>1. m \in t /\ m \in 1..n /\ t \ {m} \in X
        BY <2>0, <2>1 DEF m
      <3>2. ASSUME NEW i \in t \ {m} PROVE i < m
        <4>1. i \in 1..n /\ m >= i /\ i # m
          BY <2>0, <2>1 DEF m
        <4> QED
          BY <3>1, <4>1
      <3> QED
        BY <3>1, <3>2
    <2>3. t \ {m} # {} => Max(t \ {m}) \in t \ {m}
      BY <2>2, MaxOf
    <2> QED
      BY <2>2, <2>3 DEF m
  <1>1. mu \in [X -> Nat]
    <2>1. ASSUME NEW t \in X, t # {} PROVE Max(t) \in Nat
      <3>1. Max(t) \in 1..n
        BY <1>0, <2>1
      <3> QED
        BY <3>1
    <2> QED
      BY <2>1
  <1>2. ASSUME NEW g \in [X -> A], NEW t \in X PROVE Body(g, t) \in A
    <2>1. CASE t = {}
      BY <2>1
    <2>2. CASE t # {}
      <3>1. Max(t) \in 1..n /\ t \ {Max(t)} \in X
        BY <1>0, <2>2
      <3> HIDE DEF X
      <3>2. g[t \ {Max(t)}] \in A
        BY <3>1
      <3> QED
        BY <2>2, <3>1, <3>2
    <2> QED
      BY <2>1, <2>2
  <1>3. F \in [X \X [X -> A] -> A]
    <2> HIDE DEF Body, X
    <2> QED
      BY <1>2
  <1>4. ASSUME NEW t \in X, NEW g \in [X -> A], NEW h \in [X -> A],
               \A y \in X : mu[y] < mu[t] => g[y] = h[y]
        PROVE  F[<<t, g>>] = F[<<t, h>>]
    <2>1. F[<<t, g>>] = Body(g, t) /\ F[<<t, h>>] = Body(h, t)
      <3> HIDE DEF Body, X
      <3> QED
        OBVIOUS
    <2>2. ASSUME t # {} PROVE g[t \ {Max(t)}] = h[t \ {Max(t)}]
      <3> DEFINE u == t \ {Max(t)}
      <3>1. u \in X /\ Max(t) \in 1..n /\ (u # {} => Max(u) < Max(t))
        BY <1>0, <2>2
      <3> HIDE DEF u
      <3>2. mu[u] < mu[t]
        <4>1. mu[t] = Max(t) /\ mu[u] = (IF u = {} THEN 0 ELSE Max(u))
          BY <2>2, <3>1
        <4> HIDE DEF mu
        <4> QED
          BY <3>1, <4>1
      <3> QED
        BY <1>4, <3>1, <3>2 DEF u
    <2>3. Body(g, t) = Body(h, t)
      BY <2>2
    <2> HIDE DEF F, Body
    <2> QED
      BY <2>1, <2>3
  <1>5. \E g : Solution(X, A, F, g)
    <2> HIDE DEF mu, F, X
    <2>1. \A t \in X, g, h \in [X -> A] :
             (\A y \in X : mu[y] < mu[t] => g[y] = h[y]) => F[<<t, g>>] = F[<<t, h>>]
      BY <1>4
    <2>2. Recursive(X, A, mu, F)
      BY <1>1, <1>3, <2>1 DEF Recursive
    <2> QED
      BY <2>2, Recursion
  <1>6. PICK g : Solution(X, A, F, g)
    BY <1>5
  <1>7. g \in [X -> A] /\ g = [t \in X |-> Body(g, t)]
    <2> HIDE DEF Body, X
    <2>1. g \in [X -> A] /\ g = [x \in X |-> g[x]] /\ \A t \in X : g[t] = Body(g, t)
      BY <1>6 DEF Solution
    <2>2. [x \in X |-> g[x]] = [x \in X |-> Body(g, x)]
      BY <2>1
    <2> QED
      BY <2>1, <2>2
  <1> QED
    BY <1>7 DEF FoldEquation

(* The set of the first i entries without its greatest.                    *)
LEMMA FirstEntries ==
    ASSUME NEW i \in Nat \ {0}
    PROVE  1..i # {} /\ Max(1..i) = i /\ (1..i) \ {i} = 1..(i - 1)
  <1>1. i \in 1..i /\ 1..i \in SUBSET (1..i) /\ i \in Nat
    OBVIOUS
  <1>2. Max(1..i) \in 1..i /\ Max(1..i) >= i
    BY <1>1, MaxOf
  <1> QED
    BY <1>1, <1>2

--------------------------------------------------------------------------------
(* The compact form of a document.                                         *)

(* The nodes of a document that can be posted.                             *)
Postable(es) == es \in Seq(Text \X Text) /\ Len(es) < VarintLimit

(* A node is a pair of strings short enough.                               *)
LEMMA NodeType ==
    ASSUME NEW es, Postable(es), NEW i \in 1..Len(es)
    PROVE  /\ es[i] = <<es[i][1], es[i][2]>>
           /\ es[i][1] \in Seq(Nat) /\ Len(es[i][1]) < VarintLimit
           /\ es[i][2] \in Seq(Nat) /\ Len(es[i][2]) < VarintLimit
  <1>1. es \in Seq(Text \X Text)
    BY DEF Postable
  <1>2. es[i] \in Text \X Text
    <2> DEFINE P == Text \X Text
    <2> HIDE DEF P
    <2>1. es \in Seq(P)
      BY <1>1 DEF P
    <2>2. es[i] \in P
      BY <2>1
    <2> QED
      BY <2>2 DEF P
  <1>3. es[i] = <<es[i][1], es[i][2]>> /\ es[i][1] \in Text /\ es[i][2] \in Text
    BY <1>2
  <1>4. ASSUME NEW s \in Text PROVE s \in Seq(Nat) /\ Len(s) < VarintLimit
    <2>1. s \in Seq(Byte) /\ Len(s) < VarintLimit
      BY DEF Text
    <2>2. Byte \subseteq Nat
      BY AlnumAssumption
    <2>3. Len(s) \in Nat /\ s = [j \in 1..Len(s) |-> s[j]] /\ \A j \in 1..Len(s) : s[j] \in Byte
      BY <2>1
    <2>4. \A j \in 1..Len(s) : s[j] \in Nat
      BY <2>2, <2>3
    <2>5. [j \in 1..Len(s) |-> s[j]] \in Seq(Nat)
      BY <2>3, <2>4
    <2> QED
      BY <2>1, <2>3, <2>5
  <1> QED
    BY <1>3, <1>4

(* There are sizes that a varint holds.                                    *)
LEMMA LimitType == VarintLimit \in Nat /\ VarintLimit > 0
  <1>1. Base \in Nat /\ Base > 0
    BY BaseAssumption
  <1>2. ASSUME NEW a \in Nat, a > 0 PROVE a * Base \in Nat /\ a * Base > 0
    BY <1>1, <1>2
  <1>3. Base * Base \in Nat /\ Base * Base > 0
    BY <1>1, <1>2
  <1>4. Base * Base * Base \in Nat /\ Base * Base * Base > 0
    BY <1>2, <1>3
  <1>5. Base * Base * Base * Base \in Nat /\ Base * Base * Base * Base > 0
    BY <1>2, <1>4
  <1> QED
    BY <1>2, <1>5 DEF VarintLimit

(* A slice with its length is a string.                                    *)
LEMMA SliceType ==
    ASSUME NEW x \in Seq(Nat)
    PROVE  PutLengthPrefixedSlice(x) \in Seq(Nat)
  <1>1. Len(x) \in Nat
    OBVIOUS
  <1> DEFINE e == EncodeVarint(Len(x))
  <1>2. e \in Seq(Nat)
    BY <1>1, EncodeVarintType
  <1> HIDE DEF e
  <1>3. e \o x \in Seq(Nat)
    BY <1>2
  <1> QED
    BY <1>3 DEF PutLengthPrefixedSlice, e

(* writeMini appends one entry after the other.                            *)
LEMMA WriteMiniIs ==
    ASSUME NEW es, Postable(es)
    PROVE  \E H : /\ writeMini(es) = H[Len(es)]
                  /\ H[0] = EncodeVarint(Len(es))
                  /\ \A i \in 0..Len(es) : H[i] \in Seq(Nat)
                  /\ \A i \in 1..Len(es) :
                        H[i] = H[i - 1] \o PutLengthPrefixedSlice(es[i][1]) \o PutLengthPrefixedSlice(es[i][2])
  <1> DEFINE n == Len(es)
             A == Seq(Nat)
             base == EncodeVarint(n)
             op(a, i) == a \o PutLengthPrefixedSlice(es[i][1]) \o PutLengthPrefixedSlice(es[i][2])
             G == [q \in A \X (1..n) |-> op(q[1], q[2])]
             Write(g) == g = [t \in SUBSET (1..n) |-> IF t = {} THEN base ELSE op(g[t \ {Max(t)}], Max(t))]
  <1>1. n \in Nat /\ DOMAIN es = 1..n
    BY DEF Postable
  <1>2. base \in A
    BY <1>1, EncodeVarintType
  <1>3. ASSUME NEW a \in A, NEW i \in 1..n PROVE op(a, i) \in A
    <2>1. es[i][1] \in Seq(Nat) /\ es[i][2] \in Seq(Nat)
      BY NodeType
    <2> DEFINE p == PutLengthPrefixedSlice(es[i][1])
               q == PutLengthPrefixedSlice(es[i][2])
    <2>2. p \in A /\ q \in A
      BY <2>1, SliceType
    <2> HIDE DEF p, q
    <2>3. a \o p \o q \in A
      BY <2>2
    <2> QED
      BY <2>3 DEF p, q
  <1> HIDE DEF op, base, n
  <1>4. G \in [A \X (1..n) -> A]
    <2> HIDE DEF A
    <2> QED
      BY <1>3
  <1>5. PICK g \in [SUBSET (1..n) -> A] : FoldEquation(n, base, G, g)
    <2> HIDE DEF G, A
    <2> QED
      BY <1>1, <1>2, <1>4, FoldExists
  <1>6. Write(g)
    <2> HIDE DEF A
    <2>1. ASSUME NEW t \in SUBSET (1..n), t # {}
          PROVE  G[<<g[t \ {Max(t)}], Max(t)>>] = op(g[t \ {Max(t)}], Max(t))
      <3>1. Max(t) \in 1..n
        BY <1>1, <2>1, MaxOf
      <3>2. t \ {Max(t)} \in SUBSET (1..n)
        OBVIOUS
      <3>3. g[t \ {Max(t)}] \in A
        BY <3>2
      <3> QED
        BY <3>1, <3>3
    <2> HIDE DEF G
    <2> QED
      BY <1>5, <2>1 DEF FoldEquation
  <1>7. writeMini(es) = (CHOOSE f : Write(f))[1..n]
    <2>1. writeMini(es) = (CHOOSE f : f = [t \in SUBSET DOMAIN es |-> IF t = {} THEN EncodeVarint(Len(es))
             ELSE f[t \ {Max(t)}] \o PutLengthPrefixedSlice(es[Max(t)][1])
                                  \o PutLengthPrefixedSlice(es[Max(t)][2])])[DOMAIN es]
      BY DEF writeMini, FoldLeft, MapThenFoldSet
    <2> QED
      BY <1>1, <2>1 DEF Write, op, base, n
  <1> DEFINE f == CHOOSE h : Write(h)
  <1>8. Write(f)
    <2> HIDE DEF Write
    <2> QED
      BY <1>6
  <1> HIDE DEF f
  <1>9. f[{}] = base /\ \A i \in 1..n : f[1..i] = op(f[1..(i - 1)], i)
    <2>1. {} \in SUBSET (1..n)
      OBVIOUS
    <2>2. ASSUME NEW i \in 1..n PROVE f[1..i] = op(f[1..(i - 1)], i)
      <3>1. 1..i \in SUBSET (1..n) /\ i \in Nat \ {0}
        BY <1>1
      <3>2. 1..i # {} /\ Max(1..i) = i /\ (1..i) \ {i} = 1..(i - 1)
        BY <3>1, FirstEntries
      <3> QED
        BY <1>8, <3>1, <3>2
    <2> QED
      BY <1>8, <2>1, <2>2
  <1> DEFINE H == [i \in 0..n |-> f[1..i]]
  <1>10. H[0] = base /\ H[n] = f[1..n] /\ \A i \in 1..n : H[i] = op(H[i - 1], i)
    <2>1. 1..0 = {} /\ 0 \in 0..n /\ n \in 0..n
      BY <1>1
    <2>2. \A i \in 1..n : i \in 0..n /\ i - 1 \in 0..n
      BY <1>1
    <2> QED
      BY <1>9, <2>1, <2>2
  <1> HIDE DEF H
  <1>11. \A i \in 0..n : H[i] \in A
    <2> DEFINE T == {i \in 0..n : ~(H[i] \in A)}
    <2>1. CASE T # {}
      <3>0. T \subseteq Nat
        BY <1>1
      <3>1. PICK m \in T : \A i \in T : m <= i
        BY <2>1, <3>0, Least
      <3>2. m \in 0..n /\ ~(H[m] \in A)
        OBVIOUS
      <3>3. m # 0
        BY <1>2, <1>10, <3>2
      <3>4. m \in 1..n /\ m - 1 \in 0..n
        BY <1>1, <3>2, <3>3
      <3>5. ~(m - 1 \in T)
        <4> HIDE DEF T
        <4> QED
          BY <1>1, <3>1, <3>4
      <3>6. H[m - 1] \in A
        BY <3>4, <3>5
      <3> QED
        BY <1>3, <1>10, <3>2, <3>4, <3>6
    <2>2. CASE T = {}
      BY <2>2
    <2> QED
      BY <2>1, <2>2
  <1> QED
    BY <1>7, <1>10, <1>11 DEF f, op, base, n

(* readMini reads one entry after the other, and one more.                 *)
LEMMA ReadMiniIs ==
    ASSUME NEW s \in Seq(Nat)
    PROVE  \E H : /\ readMini(s) = H[VarintValue(s) + 1].entries
                  /\ H[0] = [entries |-> <<>>, rest |-> SubSeq(s, VarintSize(s) + 1, Len(s))]
                  /\ \A i \in 1..(VarintValue(s) + 1) : H[i] = ReadEntry(H[i - 1], i)
  <1> DEFINE n == VarintValue(s) + 1
             E == Seq(Nat) \X Seq(Nat)
             A == [entries : Seq(E), rest : Seq(Nat)]
             base == [entries |-> <<>>, rest |-> SubSeq(s, VarintSize(s) + 1, Len(s))]
             op(a, i) == ReadEntry(a, i)
             G == [q \in A \X (1..n) |-> op(q[1], q[2])]
             Read(g) == g = [t \in SUBSET (1..n) |-> IF t = {} THEN base ELSE op(g[t \ {Max(t)}], Max(t))]
  <1>1. n \in Nat
    BY VarintValueType
  <1>2. base \in A
    <2>1. VarintSize(s) \in Nat /\ VarintSize(s) <= Len(s)
      BY VarintSizeType
    <2>2. Len(s) \in Int /\ VarintSize(s) + 1 \in Int /\ \A i \in (VarintSize(s) + 1)..Len(s) : s[i] \in Nat
      BY <2>1
    <2>3. SubSeq(s, VarintSize(s) + 1, Len(s)) \in Seq(Nat)
      BY <2>2, SubSeqProperties
    <2>4. <<>> \in Seq(E)
      OBVIOUS
    <2> HIDE DEF E
    <2> QED
      BY <2>3, <2>4
  <1>3. ASSUME NEW a \in A, NEW i \in 1..n PROVE op(a, i) \in A
    <2> DEFINE key == Sliced(a.rest)
               value == Sliced(key.rest)
    <2>1. a.rest \in Seq(Nat) /\ a.entries \in Seq(E)
      <3> HIDE DEF E
      <3> QED
        OBVIOUS
    <2>2. key \in [slice : Seq(Nat), rest : Seq(Nat)]
      BY <2>1, SlicedType
    <2>3. key.rest \in Seq(Nat) /\ key.slice \in Seq(Nat)
      BY <2>2
    <2> HIDE DEF key
    <2>4. value \in [slice : Seq(Nat), rest : Seq(Nat)]
      BY <2>3, SlicedType
    <2>5. value.rest \in Seq(Nat) /\ value.slice \in Seq(Nat)
      BY <2>4
    <2> HIDE DEF value
    <2>6. <<key.slice, value.slice>> \in E
      BY <2>3, <2>5
    <2> HIDE DEF E
    <2>7. Append(a.entries, <<key.slice, value.slice>>) \in Seq(E)
      BY <2>1, <2>6
    <2>8. op(a, i) = [entries |-> Append(a.entries, <<key.slice, value.slice>>), rest |-> value.rest]
      BY DEF ReadEntry, key, value
    <2> QED
      BY <2>5, <2>7, <2>8
  <1> HIDE DEF op, base, n, A
  <1>4. G \in [A \X (1..n) -> A]
    BY <1>3
  <1>5. PICK g \in [SUBSET (1..n) -> A] : FoldEquation(n, base, G, g)
    <2> HIDE DEF G
    <2> QED
      BY <1>1, <1>2, <1>4, FoldExists
  <1>6. Read(g)
    <2>1. ASSUME NEW t \in SUBSET (1..n), t # {}
          PROVE  G[<<g[t \ {Max(t)}], Max(t)>>] = op(g[t \ {Max(t)}], Max(t))
      <3>1. Max(t) \in 1..n
        BY <1>1, <2>1, MaxOf
      <3>2. t \ {Max(t)} \in SUBSET (1..n)
        OBVIOUS
      <3>3. g[t \ {Max(t)}] \in A
        BY <3>2
      <3> QED
        BY <3>1, <3>3
    <2> HIDE DEF G
    <2> QED
      BY <1>5, <2>1 DEF FoldEquation
  <1>7. readMini(s) = (CHOOSE f : Read(f))[1..n].entries
    <2> DEFINE id == [i \in 1..n |-> i]
    <2>1. readMini(s) = (CHOOSE f : f = [t \in SUBSET DOMAIN id |-> IF t = {} THEN base
             ELSE ReadEntry(f[t \ {Max(t)}], id[Max(t)])])[DOMAIN id].entries
      BY DEF readMini, FoldLeft, MapThenFoldSet, n, base
    <2>2. DOMAIN id = 1..n
      OBVIOUS
    <2>3. ASSUME NEW f, NEW t \in SUBSET (1..n), t # {}
          PROVE  ReadEntry(f[t \ {Max(t)}], id[Max(t)]) = op(f[t \ {Max(t)}], Max(t))
      BY DEF op, ReadEntry
    <2> HIDE DEF id
    <2>4. ASSUME NEW f
          PROVE  [t \in SUBSET (1..n) |-> IF t = {} THEN base ELSE ReadEntry(f[t \ {Max(t)}], id[Max(t)])]
                   = [t \in SUBSET (1..n) |-> IF t = {} THEN base ELSE op(f[t \ {Max(t)}], Max(t))]
      BY <2>3
    <2>5. ASSUME NEW f
          PROVE  (f = [t \in SUBSET (1..n) |-> IF t = {} THEN base ELSE ReadEntry(f[t \ {Max(t)}], id[Max(t)])])
                   <=> Read(f)
      BY <2>4
    <2> HIDE DEF Read
    <2> QED
      BY <2>1, <2>2, <2>5
  <1> DEFINE f == CHOOSE h : Read(h)
  <1>8. Read(f)
    <2> HIDE DEF Read
    <2> QED
      BY <1>6
  <1> HIDE DEF f
  <1>9. f[{}] = base /\ \A i \in 1..n : f[1..i] = op(f[1..(i - 1)], i)
    <2>1. {} \in SUBSET (1..n)
      OBVIOUS
    <2>2. ASSUME NEW i \in 1..n PROVE f[1..i] = op(f[1..(i - 1)], i)
      <3>1. 1..i \in SUBSET (1..n) /\ i \in Nat \ {0}
        BY <1>1
      <3>2. 1..i # {} /\ Max(1..i) = i /\ (1..i) \ {i} = 1..(i - 1)
        BY <3>1, FirstEntries
      <3> QED
        BY <1>8, <3>1, <3>2
    <2> QED
      BY <1>8, <2>1, <2>2
  <1> DEFINE H == [i \in 0..n |-> f[1..i]]
  <1>10. H[0] = base /\ H[n] = f[1..n] /\ \A i \in 1..n : H[i] = op(H[i - 1], i)
    <2>1. 1..0 = {} /\ 0 \in 0..n /\ n \in 0..n
      BY <1>1
    <2>2. \A i \in 1..n : i \in 0..n /\ i - 1 \in 0..n
      BY <1>1
    <2> QED
      BY <1>9, <2>1, <2>2
  <1> HIDE DEF H
  <1> QED
    BY <1>7, <1>10 DEF f, op, base, n

(* What is stored is read back, with an empty entry after it.              *)
LEMMA MiniRoundTrip ==
    ASSUME NEW es, Postable(es)
    PROVE  readMini(writeMini(es)) = Append(es, <<<<>>, <<>>>>)
  <1> DEFINE n == Len(es)
             W == writeMini(es)
             P(i) == PutLengthPrefixedSlice(es[i][1])
             Q(i) == PutLengthPrefixedSlice(es[i][2])
             E == Text \X Text
  <1>1. n \in Nat /\ n < VarintLimit /\ es \in Seq(E)
    BY DEF Postable
  <1>2. PICK H : /\ W = H[n] /\ H[0] = EncodeVarint(n)
                 /\ \A i \in 0..n : H[i] \in Seq(Nat)
                 /\ \A i \in 1..n : H[i] = H[i - 1] \o P(i) \o Q(i)
    BY WriteMiniIs
  <1>3. \A i \in 1..n : P(i) \in Seq(Nat) /\ Q(i) \in Seq(Nat)
    BY NodeType, SliceType
  <1>4. ASSUME NEW i \in 1..n, NEW r \in Seq(Nat)
        PROVE  /\ Sliced(P(i) \o r) = [slice |-> es[i][1], rest |-> r]
               /\ Sliced(Q(i) \o r) = [slice |-> es[i][2], rest |-> r]
    BY NodeType, SlicedRoundTrip
  <1>5. W \in Seq(Nat)
    BY <1>1, <1>2
  <1> HIDE DEF P, Q, W, n, E
  <1> DEFINE R(i) == SubSeq(W, Len(H[i]) + 1, Len(W))
  <1>6. ASSUME NEW i \in 0..n, NEW r \in Seq(Nat), W = H[i] \o r PROVE R(i) = r
    <2>1. H[i] \in Seq(Nat)
      BY <1>2
    <2>2. SubSeq(H[i] \o r, Len(H[i]) + 1, Len(H[i] \o r)) = r
      BY <2>1, ConcatParts
    <2> QED
      BY <1>6, <2>2
  <1>7. \A i \in 0..n : R(i) \in Seq(Nat) /\ W = H[i] \o R(i)
    <2> DEFINE T == {j \in 0..n : ~(R(n - j) \in Seq(Nat) /\ W = H[n - j] \o R(n - j))}
    <2>1. CASE T # {}
      <3>0. T \subseteq Nat
        <4>1. T \subseteq 0..n
          OBVIOUS
        <4> HIDE DEF T
        <4> QED
          BY <1>1, <4>1
      <3>1. PICK m \in T : \A j \in T : m <= j
        BY <2>1, <3>0, Least
      <3>2. m \in 0..n /\ ~(R(n - m) \in Seq(Nat) /\ W = H[n - m] \o R(n - m))
        OBVIOUS
      <3>3. CASE m = 0
        <4>1. n - m = n /\ n \in 0..n /\ <<>> \in Seq(Nat)
          BY <1>1, <3>3
        <4>2. W = H[n] \o <<>>
          BY <1>2, <1>5
        <4>3. R(n) = <<>>
          BY <1>6, <4>1, <4>2
        <4> HIDE DEF R
        <4> QED
          BY <3>2, <4>1, <4>2, <4>3
      <3>4. CASE m # 0
        <4> DEFINE i == n - m
                   r == R(i + 1)
        <4>1. /\ m - 1 \in 0..n /\ n - (m - 1) = i + 1 /\ i \in 0..n /\ i + 1 \in 1..n
              /\ i + 1 \in 0..n /\ (i + 1) - 1 = i /\ m - 1 < m
          BY <1>1, <3>2, <3>4
        <4>2. ~(m - 1 \in T)
          <5> HIDE DEF T
          <5> QED
            BY <1>1, <3>1, <3>2, <4>1
        <4>3. r \in Seq(Nat) /\ W = H[i + 1] \o r
          <5> HIDE DEF R
          <5> QED
            BY <4>1, <4>2
        <4> HIDE DEF r, i
        <4>4. H[i + 1] = H[i] \o P(i + 1) \o Q(i + 1)
          BY <1>2, <4>1
        <4>5. H[i] \in Seq(Nat) /\ P(i + 1) \in Seq(Nat) /\ Q(i + 1) \in Seq(Nat)
          BY <1>2, <1>3, <4>1
        <4>6. W = H[i] \o (P(i + 1) \o (Q(i + 1) \o r)) /\ P(i + 1) \o (Q(i + 1) \o r) \in Seq(Nat)
          <5> DEFINE h == H[i]
                     p == P(i + 1)
                     q == Q(i + 1)
          <5>1. h \in Seq(Nat) /\ p \in Seq(Nat) /\ q \in Seq(Nat) /\ r \in Seq(Nat)
            BY <4>3, <4>5
          <5>2. W = Cat(Cat(Cat(h, p), q), r)
            BY <4>3, <4>4, Zenon DEF Cat
          <5> HIDE DEF h, p, q
          <5>3. W = Cat(h, Cat(p, Cat(q, r))) /\ Cat(p, Cat(q, r)) \in Seq(Nat)
            BY <5>1, <5>2, CatFour
          <5> QED
            BY <5>3, Zenon DEF h, p, q, Cat
        <4>7. R(i) = P(i + 1) \o (Q(i + 1) \o r)
          BY <1>6, <4>1, <4>6
        <4> HIDE DEF R
        <4> QED
          BY <3>2, <4>6, <4>7 DEF i
      <3> QED
        BY <3>3, <3>4
    <2>2. CASE T = {}
      <3> SUFFICES ASSUME NEW i \in 0..n PROVE R(i) \in Seq(Nat) /\ W = H[i] \o R(i)
        OBVIOUS
      <3>1. n - i \in 0..n /\ n - (n - i) = i
        BY <1>1
      <3>2. ~(n - i \in T)
        BY <2>2
      <3> HIDE DEF R
      <3> QED
        BY <3>1, <3>2
    <2> QED
      BY <2>1, <2>2
  <1>8. R(n) = <<>>
    <2>1. n \in 0..n /\ <<>> \in Seq(Nat)
      BY <1>1
    <2>2. W = H[n] \o <<>>
      BY <1>2, <1>5
    <2> QED
      BY <1>6, <2>1, <2>2
  <1>9. ASSUME NEW i \in 0..n, i # n PROVE R(i) = P(i + 1) \o (Q(i + 1) \o R(i + 1)) /\ Q(i + 1) \o R(i + 1) \in Seq(Nat)
    <2>1. i + 1 \in 1..n /\ i + 1 \in 0..n /\ (i + 1) - 1 = i
      BY <1>1, <1>9
    <2> DEFINE r == R(i + 1)
    <2>2. r \in Seq(Nat) /\ W = H[i + 1] \o r
      BY <1>7, <2>1
    <2> HIDE DEF r
    <2>3. H[i + 1] = H[i] \o P(i + 1) \o Q(i + 1)
      BY <1>2, <2>1
    <2>4. H[i] \in Seq(Nat) /\ P(i + 1) \in Seq(Nat) /\ Q(i + 1) \in Seq(Nat)
      BY <1>2, <1>3, <2>1
    <2>6. /\ W = H[i] \o (P(i + 1) \o (Q(i + 1) \o r)) /\ P(i + 1) \o (Q(i + 1) \o r) \in Seq(Nat)
          /\ Q(i + 1) \o r \in Seq(Nat)
      <3> DEFINE h == H[i]
                 p == P(i + 1)
                 q == Q(i + 1)
      <3>1. h \in Seq(Nat) /\ p \in Seq(Nat) /\ q \in Seq(Nat) /\ r \in Seq(Nat)
        BY <2>2, <2>4
      <3>2. W = Cat(Cat(Cat(h, p), q), r)
        BY <2>2, <2>3, Zenon DEF Cat
      <3> HIDE DEF h, p, q
      <3>3. W = Cat(h, Cat(p, Cat(q, r))) /\ Cat(p, Cat(q, r)) \in Seq(Nat) /\ Cat(q, r) \in Seq(Nat)
        BY <3>1, <3>2, CatFour
      <3> QED
        BY <3>3, Zenon DEF h, p, q, Cat
    <2>7. R(i) = P(i + 1) \o (Q(i + 1) \o r)
      BY <1>6, <2>6
    <2> HIDE DEF R
    <2> QED
      BY <2>6, <2>7 DEF r
  <1>10. VarintValue(W) = n /\ R(0) = SubSeq(W, VarintSize(W) + 1, Len(W))
    <2>1. 0 \in 0..n
      BY <1>1
    <2>2. R(0) \in Seq(Nat) /\ W = EncodeVarint(n) \o R(0)
      BY <1>2, <1>7, <2>1
    <2> DEFINE r == R(0)
    <2>3. VarintValue(EncodeVarint(n) \o r) = n /\ VarintSize(EncodeVarint(n) \o r) = Len(EncodeVarint(n))
      <3> HIDE DEF r
      <3>1. r \in Seq(Nat)
        BY <2>2 DEF r
      <3> QED
        BY <1>1, <3>1, VarintRoundTrip
    <2>4. VarintValue(W) = n /\ VarintSize(W) = Len(H[0])
      BY <1>2, <2>2, <2>3
    <2> QED
      BY <2>4
  <1>11. PICK K : /\ readMini(W) = K[n + 1].entries
                  /\ K[0] = [entries |-> <<>>, rest |-> R(0)]
                  /\ \A i \in 1..(n + 1) : K[i] = ReadEntry(K[i - 1], i)
    <2>1. \E K : /\ readMini(W) = K[VarintValue(W) + 1].entries
                 /\ K[0] = [entries |-> <<>>, rest |-> SubSeq(W, VarintSize(W) + 1, Len(W))]
                 /\ \A i \in 1..(VarintValue(W) + 1) : K[i] = ReadEntry(K[i - 1], i)
      BY <1>5, ReadMiniIs
    <2> HIDE DEF R
    <2> QED
      BY <1>10, <2>1
  <1> HIDE DEF R
  <1>12. \A i \in 0..n : K[i] = [entries |-> SubSeq(es, 1, i), rest |-> R(i)]
    <2> DEFINE T == {i \in 0..n : K[i] # [entries |-> SubSeq(es, 1, i), rest |-> R(i)]}
    <2>1. CASE T # {}
      <3>0. T \subseteq Nat
        BY <1>1
      <3>1. PICK m \in T : \A j \in T : m <= j
        BY <2>1, <3>0, Least
      <3>2. m \in 0..n /\ K[m] # [entries |-> SubSeq(es, 1, m), rest |-> R(m)]
        OBVIOUS
      <3>3. CASE m = 0
        <4>1. SubSeq(es, 1, 0) = <<>>
          BY SubSeqEmpty, 1 \in Int, 0 \in Int, 0 < 1
        <4> QED
          BY <1>11, <3>2, <3>3, <4>1
      <3>4. CASE m # 0
        <4> DEFINE i == m - 1
        <4>1. i \in 0..n /\ i # n /\ i + 1 = m /\ m \in 1..n /\ m \in 1..(n + 1) /\ i < m
          BY <1>1, <3>2, <3>4
        <4>2. ~(i \in T)
          <5> HIDE DEF T
          <5> QED
            BY <1>1, <3>1, <3>2, <4>1
        <4>3. K[i] = [entries |-> SubSeq(es, 1, i), rest |-> R(i)]
          BY <4>1, <4>2
        <4>4. R(i) = P(m) \o (Q(m) \o R(m)) /\ Q(m) \o R(m) \in Seq(Nat) /\ R(m) \in Seq(Nat)
          BY <1>7, <1>9, <3>2, <4>1
        <4>5. Sliced(R(i)) = [slice |-> es[m][1], rest |-> Q(m) \o R(m)]
          BY <1>4, <4>1, <4>4
        <4>6. Sliced(Q(m) \o R(m)) = [slice |-> es[m][2], rest |-> R(m)]
          BY <1>4, <4>1, <4>4
        <4>7. K[m] = ReadEntry(K[i], m)
          BY <1>11, <4>1
        <4>8. K[m] = [entries |-> Append(SubSeq(es, 1, i), <<es[m][1], es[m][2]>>), rest |-> R(m)]
          <5>1. K[i].rest = R(i) /\ K[i].entries = SubSeq(es, 1, i)
            BY <4>3
          <5>2. ReadEntry(K[i], m) =
                  [entries |-> Append(K[i].entries, <<Sliced(K[i].rest).slice, Sliced(Sliced(K[i].rest).rest).slice>>),
                   rest |-> Sliced(Sliced(K[i].rest).rest).rest]
            BY DEF ReadEntry
          <5>3. Sliced(R(i)).slice = es[m][1] /\ Sliced(R(i)).rest = Q(m) \o R(m)
            BY <4>5
          <5>4. Sliced(Q(m) \o R(m)).slice = es[m][2] /\ Sliced(Q(m) \o R(m)).rest = R(m)
            BY <4>6
          <5> QED
            BY <4>7, <5>1, <5>2, <5>3, <5>4
        <4>9. <<es[m][1], es[m][2]>> = es[m]
          BY <4>1, NodeType DEF n
        <4>10. Append(SubSeq(es, 1, i), es[m]) = SubSeq(es, 1, m)
          <5>1. Len(es) = n
            BY DEF n
          <5> QED
            BY <1>1, <4>1, <5>1
        <4> QED
          BY <3>2, <4>8, <4>9, <4>10
      <3> QED
        BY <3>3, <3>4
    <2>2. CASE T = {}
      BY <2>2
    <2> QED
      BY <2>1, <2>2
  <1>13. K[n] = [entries |-> es, rest |-> <<>>]
    <2>1. n \in 0..n
      BY <1>1
    <2>2. SubSeq(es, 1, n) = es
      BY <1>1 DEF n
    <2> QED
      BY <1>8, <1>12, <2>1, <2>2
  <1>14. K[n + 1] = ReadEntry(K[n], n + 1)
    <2>1. n + 1 \in 1..(n + 1) /\ (n + 1) - 1 = n
      BY <1>1
    <2> QED
      BY <1>11, <2>1
  <1>15. K[n + 1].entries = Append(es, <<<<>>, <<>>>>)
    BY <1>13, <1>14, SlicedEmpty DEF ReadEntry
  <1> QED
    BY <1>11, <1>15 DEF W

--------------------------------------------------------------------------------
(* The words of a text.                                                    *)

(* A run is an interval of letters between two characters that are none.   *)
LEMMA RunIs ==
    ASSUME NEW str \in Seq(Nat), NEW r
    PROVE  r \in Runs(str) <=>
               /\ r = <<r[1], r[2]>> /\ r[1] \in 1..Len(str) /\ r[2] \in 1..Len(str) /\ r[1] <= r[2]
               /\ \A i \in r[1]..r[2] : IsLetter(str[i])
               /\ r[1] = 1 \/ ~IsLetter(str[r[1] - 1])
               /\ r[2] = Len(str) \/ ~IsLetter(str[r[2] + 1])
  <1>1. DOMAIN str = 1..Len(str)
    OBVIOUS
  <1> QED
    BY <1>1 DEF Runs

(* Runs that start at the same place are the same, and others are apart.   *)
LEMMA RunsApart ==
    ASSUME NEW str \in Seq(Nat), NEW r \in Runs(str), NEW s \in Runs(str), r[1] <= s[1]
    PROVE  r = s \/ s[1] > r[2]
  <1> DEFINE L == Len(str)
             a == r[1]
             b == r[2]
             c == s[1]
             d == s[2]
             In(i) == IsLetter(str[i])
  <1>0. L \in Nat
    OBVIOUS
  <1> HIDE DEF L
  <1>1. /\ r = <<a, b>> /\ a \in 1..L /\ b \in 1..L /\ a <= b
        /\ \A i \in a..b : In(i)
        /\ b = L \/ ~In(b + 1)
    BY RunIs DEF L
  <1>2. /\ s = <<c, d>> /\ c \in 1..L /\ d \in 1..L /\ c <= d
        /\ \A i \in c..d : In(i)
        /\ c = 1 \/ ~In(c - 1)
        /\ d = L \/ ~In(d + 1)
    BY RunIs DEF L
  <1> HIDE DEF a, b, c, d, In
  <1>3. a \in Nat /\ b \in Nat /\ c \in Nat /\ d \in Nat /\ a <= c /\ a >= 1
    BY <1>0, <1>1, <1>2 DEF a, c
  <1>4. CASE a = c
    <2>1. ~(b < d)
      <3>1. b < d => b + 1 \in c..d /\ b # L
        BY <1>0, <1>1, <1>2, <1>3, <1>4
      <3> QED
        BY <1>1, <1>2, <3>1
    <2>2. ~(d < b)
      <3>1. d < b => d + 1 \in a..b /\ d # L
        BY <1>0, <1>1, <1>2, <1>3, <1>4
      <3> QED
        BY <1>1, <1>2, <3>1
    <2>3. b = d
      BY <1>3, <2>1, <2>2
    <2> QED
      BY <1>1, <1>2, <1>4, <2>3
  <1>5. CASE a < c
    <2>1. c <= b => c - 1 \in a..b /\ c # 1
      BY <1>3, <1>5
    <2>2. ~(c <= b)
      BY <1>1, <1>2, <2>1
    <2>3. c > b
      BY <1>3, <2>2
    <2> QED
      BY <2>3 DEF b, c
  <1> QED
    BY <1>3, <1>4, <1>5

(* The first run from a position on.                                       *)
LEMMA FirstRunExact ==
    ASSUME NEW str \in Seq(Nat), NEW p \in Nat, RunsFrom(str, p) # {}
    PROVE  /\ FirstRun(str, p) \in Runs(str) /\ FirstRun(str, p)[1] >= p
           /\ \A s \in RunsFrom(str, p) : FirstRun(str, p)[1] <= s[1]
  <1> DEFINE T == {s[1] : s \in RunsFrom(str, p)}
  <1>1. \A s \in RunsFrom(str, p) : s \in Runs(str) /\ s[1] \in Nat /\ s[1] >= p
    <2> SUFFICES ASSUME NEW s \in RunsFrom(str, p) PROVE s \in Runs(str) /\ s[1] \in Nat /\ s[1] >= p
      OBVIOUS
    <2>1. s \in Runs(str) /\ s[1] >= p
      BY DEF RunsFrom
    <2>2. s[1] \in 1..Len(str)
      BY <2>1, RunIs
    <2>3. Len(str) \in Nat
      OBVIOUS
    <2> QED
      BY <2>1, <2>2, <2>3
  <1>2. T \subseteq Nat /\ T # {}
    BY <1>1
  <1>3. PICK m \in T : \A j \in T : m <= j
    <2> HIDE DEF T
    <2> QED
      BY <1>2, Least
  <1>4. PICK r \in RunsFrom(str, p) : m = r[1]
    OBVIOUS
  <1>5. \A s \in RunsFrom(str, p) : r[1] <= s[1]
    BY <1>3, <1>4
  <1>6. FirstRun(str, p) \in RunsFrom(str, p) /\ \A s \in RunsFrom(str, p) : FirstRun(str, p)[1] <= s[1]
    <2> HIDE DEF T
    <2> QED
      BY <1>5 DEF FirstRun
  <1> QED
    BY <1>1, <1>6

(* A run that starts at the position is the first.                         *)
LEMMA FirstRunIs ==
    ASSUME NEW str \in Seq(Nat), NEW p \in Nat, NEW q, <<p, q>> \in Runs(str)
    PROVE  RunsFrom(str, p) # {} /\ FirstRun(str, p) = <<p, q>>
  <1>1. <<p, q>>[1] = p
    OBVIOUS
  <1>2. <<p, q>> \in RunsFrom(str, p)
    BY <1>1 DEF RunsFrom
  <1> DEFINE f == FirstRun(str, p)
  <1>3. f \in Runs(str) /\ f[1] >= p /\ f[1] <= p
    BY <1>1, <1>2, FirstRunExact
  <1> HIDE DEF f
  <1>4. f[1] \in Nat
    <2>1. f[1] \in 1..Len(str) /\ Len(str) \in Nat
      BY <1>3, RunIs
    <2> QED
      BY <2>1
  <1>5. f[1] = p
    BY <1>3, <1>4
  <1>6. <<p, q>>[1] <= f[1]
    BY <1>1, <1>4, <1>5
  <1>7. f = <<p, q>> \/ f[1] > q
    <2>1. <<p, q>>[2] = q
      OBVIOUS
    <2> QED
      BY <1>3, <1>6, <2>1, RunsApart
  <1>8. p <= q /\ q \in Nat
    <2>1. <<p, q>>[2] = q
      OBVIOUS
    <2>2. <<p, q>>[2] \in 1..Len(str) /\ <<p, q>>[1] <= <<p, q>>[2] /\ Len(str) \in Nat
      BY RunIs
    <2> QED
      BY <1>1, <2>1, <2>2
  <1> QED
    BY <1>2, <1>5, <1>7, <1>8 DEF f

(* A word is a string, as long as its run.                                 *)
LEMMA WordAtType ==
    ASSUME NEW str \in Seq(Nat), NEW r \in Runs(str)
    PROVE  WordAt(str, r) \in Seq(Nat) /\ Len(WordAt(str, r)) = r[2] - r[1] + 1
  <1> DEFINE L == Len(str)
             n == r[2] - r[1] + 1
  <1>1. r[1] \in 1..L /\ r[2] \in 1..L /\ r[1] <= r[2] /\ L \in Nat
    BY RunIs
  <1>2. n \in Nat
    BY <1>1
  <1>3. ASSUME NEW i \in 1..n PROVE Lower(str[r[1] + i - 1]) \in Nat
    <2>1. r[1] + i - 1 \in 1..L
      <3> HIDE DEF L
      <3> QED
        BY <1>1
    <2>2. str[r[1] + i - 1] \in Nat
      BY <2>1
    <2> QED
      BY <2>2, CaseBitAssumption DEF Lower
  <1> HIDE DEF n
  <1>4. WordAt(str, r) = [i \in 1..n |-> Lower(str[r[1] + i - 1])]
    BY DEF WordAt, n
  <1> QED
    BY <1>2, <1>3, <1>4 DEF n

(* TokensFrom does what its equation says.                                 *)
LEMMA TokensFromIs ==
    ASSUME NEW str \in Seq(Nat), NEW p \in 1..(Len(str) + 1), NEW c \in 0..2
    PROVE  /\ TokensFrom(str)[<<p, c>>] =
                 IF RunsFrom(str, p) = {} THEN <<>>
                 ELSE IF c + (FirstRun(str, p)[2] - FirstRun(str, p)[1] + 1) > 2
                 THEN <<WordAt(str, FirstRun(str, p))>> \o TokensFrom(str)[<<FirstRun(str, p)[2] + 1, 0>>]
                 ELSE TokensFrom(str)[<<FirstRun(str, p)[2] + 1,
                                        c + (FirstRun(str, p)[2] - FirstRun(str, p)[1] + 1)>>]
  <1> DEFINE L == Len(str)
             X == (1..(L + 1)) \X (0..2)
             A == Seq(Seq(Nat))
             R(x) == FirstRun(str, x)
             N(x, y) == y + (R(x)[2] - R(x)[1] + 1)
             Body(g, x, y) == IF RunsFrom(str, x) = {} THEN <<>>
                              ELSE IF N(x, y) > 2 THEN <<WordAt(str, R(x))>> \o g[<<R(x)[2] + 1, 0>>]
                              ELSE g[<<R(x)[2] + 1, N(x, y)>>]
             From(g) == g = [q \in X |-> Body(g, q[1], q[2])]
             mu == [q \in X |-> (L + 1) - q[1]]
             F == [u \in X \X [X -> A] |-> Body(u[2], u[1][1], u[1][2])]
  <1>0. L \in Nat
    OBVIOUS
  <1>1. ASSUME NEW x \in 1..(L + 1), NEW y \in 0..2, RunsFrom(str, x) # {}
        PROVE  /\ R(x) \in Runs(str) /\ WordAt(str, R(x)) \in Seq(Nat)
               /\ <<R(x)[2] + 1, 0>> \in X /\ R(x)[2] + 1 > x /\ R(x)[2] + 1 \in 1..(L + 1)
               /\ ~(N(x, y) > 2) => <<R(x)[2] + 1, N(x, y)>> \in X
    <2>1. x \in Nat
      BY <1>0
    <2>2. R(x) \in Runs(str) /\ R(x)[1] >= x
      BY <1>1, <2>1, FirstRunExact
    <2>3. WordAt(str, R(x)) \in Seq(Nat)
      BY <2>2, WordAtType
    <2>4. R(x)[1] \in 1..L /\ R(x)[2] \in 1..L /\ R(x)[1] <= R(x)[2]
      BY <2>2, RunIs
    <2> HIDE DEF R, L
    <2>5. R(x)[2] + 1 > x /\ R(x)[2] + 1 \in 1..(L + 1)
      BY <1>0, <2>2, <2>4
    <2>6. ~(N(x, y) > 2) => N(x, y) \in 0..2
      BY <1>0, <2>4
    <2> HIDE DEF N
    <2> QED
      BY <2>2, <2>3, <2>5, <2>6
  <1> HIDE DEF R, N, L
  <1>2. ASSUME NEW g \in [X -> A], NEW x \in 1..(L + 1), NEW y \in 0..2 PROVE Body(g, x, y) \in A
    <2>1. CASE RunsFrom(str, x) = {}
      BY <2>1
    <2>2. CASE RunsFrom(str, x) # {}
      <3>1. /\ WordAt(str, R(x)) \in Seq(Nat) /\ <<R(x)[2] + 1, 0>> \in X
            /\ ~(N(x, y) > 2) => <<R(x)[2] + 1, N(x, y)>> \in X
        BY <1>1, <2>2
      <3> HIDE DEF X
      <3>2. g[<<R(x)[2] + 1, 0>>] \in A /\ (~(N(x, y) > 2) => g[<<R(x)[2] + 1, N(x, y)>>] \in A)
        <4> HIDE DEF A
        <4> QED
          BY <3>1
      <3>3. ASSUME NEW w \in Seq(Nat), NEW s \in A PROVE <<w>> \o s \in A
        <4> DEFINE B == Seq(Nat)
        <4> HIDE DEF B
        <4>1. w \in B /\ s \in Seq(B)
          BY DEF B
        <4>2. <<w>> \o s \in Seq(B)
          BY <4>1
        <4> QED
          BY <4>2 DEF B
      <3> HIDE DEF A
      <3> QED
        BY <2>2, <3>1, <3>2, <3>3
    <2> QED
      BY <2>1, <2>2
  <1>3. F \in [X \X [X -> A] -> A]
    <2> HIDE DEF Body, A
    <2> QED
      BY <1>2
  <1>4. ASSUME NEW x \in 1..(L + 1), NEW y \in 0..2, NEW g \in [X -> A], NEW h \in [X -> A],
               \A z \in X : mu[z] < mu[<<x, y>>] => g[z] = h[z]
        PROVE  Body(g, x, y) = Body(h, x, y)
    <2>1. CASE RunsFrom(str, x) = {}
      BY <2>1
    <2>2. CASE RunsFrom(str, x) # {}
      <3>1. /\ <<R(x)[2] + 1, 0>> \in X /\ R(x)[2] + 1 > x /\ R(x)[2] + 1 \in 1..(L + 1)
            /\ ~(N(x, y) > 2) => <<R(x)[2] + 1, N(x, y)>> \in X
        BY <1>1, <2>2
      <3> DEFINE e == R(x)[2] + 1
      <3>2. <<e, 0>> \in X /\ e > x /\ e \in 1..(L + 1) /\ (~(N(x, y) > 2) => <<e, N(x, y)>> \in X)
        BY <3>1
      <3>3. \A z \in X : z[1] = e => mu[z] < mu[<<x, y>>]
        <4> HIDE DEF e
        <4>1. (L + 1) - e < (L + 1) - x
          BY <1>0, <3>2
        <4>2. \A z \in X : mu[z] = (L + 1) - z[1]
          <5> HIDE DEF X
          <5> QED
            OBVIOUS
        <4>3. <<x, y>> \in X /\ <<x, y>>[1] = x
          OBVIOUS
        <4> HIDE DEF X, mu
        <4>4. mu[<<x, y>>] = (L + 1) - x
          BY <4>2, <4>3
        <4> QED
          BY <4>1, <4>2, <4>4
      <3> HIDE DEF mu, X
      <3>4. <<e, 0>>[1] = e /\ <<e, N(x, y)>>[1] = e
        OBVIOUS
      <3>5. g[<<e, 0>>] = h[<<e, 0>>] /\ (~(N(x, y) > 2) => g[<<e, N(x, y)>>] = h[<<e, N(x, y)>>])
        BY <1>4, <3>2, <3>3, <3>4
      <3> QED
        BY <3>5
    <2> QED
      BY <2>1, <2>2
  <1>5. mu \in [X -> Nat] /\ A # {}
    <2>1. <<>> \in A
      OBVIOUS
    <2> HIDE DEF A
    <2> QED
      BY <1>0, <2>1
  <1>6. \E g : Solution(X, A, F, g)
    <2> HIDE DEF A, Body
    <2>0. ASSUME NEW q \in X, NEW g \in [X -> A], NEW h \in [X -> A],
                 \A z \in X : mu[z] < mu[q] => g[z] = h[z]
          PROVE  F[<<q, g>>] = F[<<q, h>>]
      <3>1. q = <<q[1], q[2]>> /\ q[1] \in 1..(L + 1) /\ q[2] \in 0..2
        OBVIOUS
      <3>2. F[<<q, g>>] = Body(g, q[1], q[2]) /\ F[<<q, h>>] = Body(h, q[1], q[2])
        OBVIOUS
      <3> HIDE DEF X, mu, F
      <3>3. \A z \in X : mu[z] < mu[<<q[1], q[2]>>] => g[z] = h[z]
        BY <2>0, <3>1
      <3>4. Body(g, q[1], q[2]) = Body(h, q[1], q[2])
        BY <1>4, <3>1, <3>3
      <3> QED
        BY <3>2, <3>4
    <2> HIDE DEF mu, F, X
    <2>1. \A q \in X, g, h \in [X -> A] :
             (\A z \in X : mu[z] < mu[q] => g[z] = h[z]) => F[<<q, g>>] = F[<<q, h>>]
      BY <2>0
    <2>2. Recursive(X, A, mu, F)
      BY <1>3, <1>5, <2>1 DEF Recursive
    <2> QED
      BY <2>2, Recursion
  <1>7. PICK g : Solution(X, A, F, g)
    BY <1>6
  <1>8. From(g)
    <2> HIDE DEF Body, X, A
    <2>1. g = [q \in X |-> g[q]] /\ \A q \in X : g[q] = Body(g, q[1], q[2])
      BY <1>7 DEF Solution
    <2>2. [q \in X |-> g[q]] = [q \in X |-> Body(g, q[1], q[2])]
      BY <2>1
    <2> QED
      BY <2>1, <2>2
  <1>9. TokensFrom(str) = CHOOSE h : From(h)
    BY DEF TokensFrom, L, R, N
  <1> HIDE DEF Body
  <1>10. From(TokensFrom(str))
    <2> HIDE DEF From
    <2> QED
      BY <1>8, <1>9
  <1>11. <<p, c>> \in X /\ <<p, c>>[1] = p /\ <<p, c>>[2] = c
    BY DEF L
  <1>12. TokensFrom(str)[<<p, c>>] = Body(TokensFrom(str), p, c)
    <2> HIDE DEF X
    <2> QED
      BY <1>10, <1>11
  <1> QED
    BY <1>12 DEF Body, R, N

(* A position that holds no letter starts no run.                          *)
LEMMA Skip ==
    ASSUME NEW str \in Seq(Nat), NEW p \in 1..Len(str), ~IsLetter(str[p]), NEW c \in 0..2
    PROVE  TokensFrom(str)[<<p, c>>] = TokensFrom(str)[<<p + 1, c>>]
  <1> DEFINE L == Len(str)
  <1>0. L \in Nat /\ p \in 1..L
    OBVIOUS
  <1>1. p \in Nat /\ p + 1 \in Nat /\ p \in 1..(L + 1) /\ p + 1 \in 1..(L + 1)
    <2> HIDE DEF L
    <2> QED
      BY <1>0
  <1>2. ASSUME NEW r \in Runs(str) PROVE r[1] >= p <=> r[1] >= p + 1
    <2>1. /\ r[1] \in 1..L /\ r[2] \in 1..L /\ r[1] <= r[2]
          /\ \A i \in r[1]..r[2] : IsLetter(str[i])
      BY RunIs
    <2> DEFINE a == r[1]
               b == r[2]
    <2> HIDE DEF L
    <2>2. a \in Nat /\ b \in Nat /\ a <= b
      BY <1>0, <2>1
    <2> HIDE DEF a, b
    <2>3. a \in a..b
      BY <2>2
    <2>4. a # p
      BY <2>1, <2>3 DEF a, b
    <2>5. a >= p <=> a >= p + 1
      BY <1>1, <2>2, <2>4
    <2> QED
      BY <2>5 DEF a
  <1>3. RunsFrom(str, p) = RunsFrom(str, p + 1)
    BY <1>2 DEF RunsFrom
  <1>4. FirstRun(str, p) = FirstRun(str, p + 1)
    BY <1>3 DEF FirstRun
  <1> DEFINE Body(R, f) == IF R = {} THEN <<>>
                           ELSE IF c + (f[2] - f[1] + 1) > 2
                           THEN <<WordAt(str, f)>> \o TokensFrom(str)[<<f[2] + 1, 0>>]
                           ELSE TokensFrom(str)[<<f[2] + 1, c + (f[2] - f[1] + 1)>>]
  <1>5. \A x \in 1..(L + 1) : TokensFrom(str)[<<x, c>>] = Body(RunsFrom(str, x), FirstRun(str, x))
    BY TokensFromIs
  <1> HIDE DEF Body
  <1> QED
    BY <1>1, <1>3, <1>4, <1>5

(* A word is taken, or dropped and its letters are counted.                *)
LEMMA TakeRun ==
    ASSUME NEW str \in Seq(Nat), NEW p \in 1..Len(str), NEW q, <<p, q>> \in Runs(str), NEW c \in 0..2
    PROVE  TokensFrom(str)[<<p, c>>] =
               IF c + (q - p + 1) > 2 THEN <<WordAt(str, <<p, q>>)>> \o TokensFrom(str)[<<q + 1, 0>>]
               ELSE TokensFrom(str)[<<q + 1, c + (q - p + 1)>>]
  <1> DEFINE L == Len(str)
  <1>0. L \in Nat /\ p \in 1..L
    OBVIOUS
  <1>1. p \in Nat /\ p \in 1..(L + 1)
    <2> HIDE DEF L
    <2> QED
      BY <1>0
  <1>2. RunsFrom(str, p) # {} /\ FirstRun(str, p) = <<p, q>>
    BY <1>1, FirstRunIs
  <1>3. <<p, q>>[1] = p /\ <<p, q>>[2] = q
    OBVIOUS
  <1> QED
    BY <1>1, <1>2, <1>3, TokensFromIs

(* There is no word after the last character.                              *)
LEMMA AtEnd ==
    ASSUME NEW str \in Seq(Nat), NEW c \in 0..2
    PROVE  TokensFrom(str)[<<Len(str) + 1, c>>] = <<>>
  <1> DEFINE L == Len(str)
  <1>0. L \in Nat
    OBVIOUS
  <1>1. L + 1 \in 1..(L + 1)
    <2> HIDE DEF L
    <2> QED
      BY <1>0
  <1>2. ASSUME NEW r \in Runs(str) PROVE ~(r[1] >= L + 1)
    <2>1. r[1] \in 1..L
      BY RunIs
    <2> HIDE DEF L
    <2> QED
      BY <1>0, <2>1
  <1>3. RunsFrom(str, L + 1) = {}
    BY <1>2 DEF RunsFrom
  <1> QED
    BY <1>1, <1>3, TokensFromIs

(* The tokens from a position on are words, and every word of more than    *)
(* two letters from there on is one of them.                               *)
Contents(str, p, ts) ==
    /\ ts \in Seq(Seq(Nat))
    /\ \A j \in DOMAIN ts : ts[j] \in WordsOfText(str)
    /\ \A r \in RunsFrom(str, p) : r[2] - r[1] + 1 > 2 => \E j \in DOMAIN ts : ts[j] = WordAt(str, r)

(* A token in front of tokens.                                             *)
LEMMA ContentsPrepend ==
    ASSUME NEW str \in Seq(Nat), NEW p, NEW q, NEW f \in Runs(str), NEW ts, Contents(str, q, ts),
           \A r \in RunsFrom(str, p) : r = f \/ r \in RunsFrom(str, q)
    PROVE  Contents(str, p, <<WordAt(str, f)>> \o ts)
  <1> DEFINE w == WordAt(str, f)
             B == Seq(Nat)
             us == <<w>> \o ts
  <1>1. w \in B /\ ts \in Seq(B) /\ w \in WordsOfText(str)
    BY WordAtType DEF Contents, WordsOfText
  <1> HIDE DEF w, B
  <1>2. /\ us \in Seq(B) /\ DOMAIN us = 1..(Len(ts) + 1) /\ us[1] = w
        /\ \A j \in DOMAIN ts : us[j + 1] = ts[j] /\ j + 1 \in DOMAIN us
        /\ \A j \in DOMAIN us : j = 1 \/ (j - 1 \in DOMAIN ts /\ us[j] = ts[j - 1])
    <2>1. Len(ts) \in Nat /\ DOMAIN ts = 1..Len(ts)
      BY <1>1
    <2>2. us \in Seq(B) /\ Len(us) = Len(ts) + 1 /\ DOMAIN us = 1..Len(us)
      BY <1>1
    <2>3. us[1] = w
      BY <1>1
    <2>4. \A j \in 1..Len(ts) : us[j + 1] = ts[j]
      BY <1>1
    <2> HIDE DEF us
    <2>5. \A j \in DOMAIN ts : us[j + 1] = ts[j] /\ j + 1 \in DOMAIN us
      BY <2>1, <2>2, <2>4
    <2>6. ASSUME NEW j \in DOMAIN us PROVE j = 1 \/ (j - 1 \in DOMAIN ts /\ us[j] = ts[j - 1])
      <3>1. j = 1 \/ (j - 1 \in DOMAIN ts /\ (j - 1) + 1 = j)
        BY <2>1, <2>2
      <3> QED
        BY <2>1, <2>4, <3>1
    <2> QED
      BY <2>1, <2>2, <2>3, <2>5, <2>6
  <1> HIDE DEF us
  <1>3. \A j \in DOMAIN us : us[j] \in WordsOfText(str)
    BY <1>1, <1>2 DEF Contents
  <1>4. ASSUME NEW r \in RunsFrom(str, p), r[2] - r[1] + 1 > 2
        PROVE  \E j \in DOMAIN us : us[j] = WordAt(str, r)
    <2>1. CASE r = f
      <3>1. 1 \in DOMAIN us
        <4>1. Len(ts) \in Nat
          BY <1>1
        <4> QED
          BY <1>2, <4>1
      <3> QED
        BY <1>2, <2>1, <3>1 DEF w
    <2>2. CASE r \in RunsFrom(str, q)
      <3>1. PICK j \in DOMAIN ts : ts[j] = WordAt(str, r)
        BY <1>4, <2>2 DEF Contents
      <3> QED
        BY <1>2, <3>1
    <2> QED
      BY <2>1, <2>2
  <1>5. us \in Seq(Seq(Nat))
    BY <1>2 DEF B
  <1>6. Contents(str, p, us)
    BY <1>3, <1>4, <1>5 DEF Contents
  <1> QED
    BY <1>6 DEF us, w

(* What is among the tokens from a position on.                            *)
LEMMA TokensContent ==
    ASSUME NEW str \in Seq(Nat)
    PROVE  \A p \in 1..(Len(str) + 1), c \in 0..2 : Contents(str, p, TokensFrom(str)[<<p, c>>])
  <1> DEFINE L == Len(str)
             TF == TokensFrom(str)
             Bad(n) == \E p \in 1..(L + 1), c \in 0..2 : n = (L + 1) - p /\ ~Contents(str, p, TF[<<p, c>>])
             T == {n \in Nat : Bad(n)}
  <1>0. L \in Nat
    OBVIOUS
  <1>1. ASSUME NEW p \in 1..(L + 1), NEW c \in 0..2,
               \A q \in 1..(L + 1), d \in 0..2 : q > p => Contents(str, q, TF[<<q, d>>])
        PROVE  Contents(str, p, TF[<<p, c>>])
    <2>1. p \in Nat
      BY <1>0
    <2>2. CASE RunsFrom(str, p) = {}
      <3>1. TF[<<p, c>>] = <<>>
        BY <2>2, TokensFromIs
      <3>2. <<>> \in Seq(Seq(Nat)) /\ DOMAIN <<>> = {}
        OBVIOUS
      <3> HIDE DEF TF
      <3> QED
        BY <2>2, <3>1, <3>2 DEF Contents
    <2>3. CASE RunsFrom(str, p) # {}
      <3> DEFINE f == FirstRun(str, p)
                 e == f[2] + 1
                 n == c + (f[2] - f[1] + 1)
      <3>1. /\ f \in Runs(str) /\ f[1] >= p
            /\ \A s \in RunsFrom(str, p) : f[1] <= s[1]
        BY <2>1, <2>3, FirstRunExact
      <3>2. TF[<<p, c>>] = IF n > 2 THEN <<WordAt(str, f)>> \o TF[<<e, 0>>] ELSE TF[<<e, n>>]
        BY <2>3, TokensFromIs
      <3> HIDE DEF TF, L, f
      <3>3. f[1] \in 1..L /\ f[2] \in 1..L /\ f[1] <= f[2]
        BY <3>1, RunIs DEF L
      <3>4. e \in 1..(L + 1) /\ e > p /\ e \in Nat
        BY <1>0, <2>1, <3>1, <3>3
      <3>5. ~(n > 2) => n \in 0..2 /\ ~(f[2] - f[1] + 1 > 2)
        BY <1>0, <3>3
      <3>6. \A s \in RunsFrom(str, p) : s = f \/ s \in RunsFrom(str, e)
        <4> SUFFICES ASSUME NEW s \in RunsFrom(str, p), s # f PROVE s \in RunsFrom(str, e)
          OBVIOUS
        <4>1. s \in Runs(str) /\ f[1] <= s[1]
          BY <3>1 DEF RunsFrom
        <4>2. s[1] > f[2]
          BY <3>1, <4>1, RunsApart
        <4>3. s[1] \in 1..L
          BY <4>1, RunIs DEF L
        <4>4. s[1] >= e
          BY <1>0, <3>3, <4>2, <4>3
        <4> QED
          BY <4>1, <4>4 DEF RunsFrom
      <3> HIDE DEF e, n
      <3>7. CASE n > 2
        <4>0. 0 \in 0..2
          OBVIOUS
        <4>1. Contents(str, e, TF[<<e, 0>>])
          BY <1>1, <3>4, <4>0
        <4>2. Contents(str, p, <<WordAt(str, f)>> \o TF[<<e, 0>>])
          BY <3>1, <3>6, <4>1, ContentsPrepend
        <4> QED
          BY <3>2, <3>7, <4>2
      <3>8. CASE ~(n > 2)
        <4>1. Contents(str, e, TF[<<e, n>>])
          BY <1>1, <3>4, <3>5, <3>8
        <4> DEFINE ts == TF[<<e, n>>]
        <4>2. Contents(str, p, ts)
          <5> HIDE DEF ts
          <5>1. Contents(str, e, ts)
            BY <4>1 DEF ts
          <5> QED
            BY <3>5, <3>6, <3>8, <5>1 DEF Contents
        <4> QED
          BY <3>2, <3>8, <4>2
      <3> QED
        BY <3>7, <3>8
    <2> QED
      BY <2>2, <2>3
  <1> HIDE DEF TF, L
  <1>2. CASE T # {}
    <2>1. T \subseteq Nat
      OBVIOUS
    <2>2. PICK m \in T : \A j \in T : m <= j
      <3> HIDE DEF T
      <3> QED
        BY <1>2, <2>1, Least
    <2>3. PICK p \in 1..(L + 1), c \in 0..2 : m = (L + 1) - p /\ ~Contents(str, p, TF[<<p, c>>])
      OBVIOUS
    <2>4. ASSUME NEW q \in 1..(L + 1), NEW d \in 0..2, q > p PROVE Contents(str, q, TF[<<q, d>>])
      <3> DEFINE j == (L + 1) - q
      <3>1. j \in Nat /\ ~(m <= j)
        BY <1>0, <2>3, <2>4
      <3>2. ~(j \in T)
        <4> HIDE DEF T, j
        <4> QED
          BY <2>2, <3>1
      <3>3. ~Bad(j)
        BY <3>1, <3>2
      <3> QED
        BY <3>3
    <2> QED
      BY <1>1, <2>3, <2>4
  <1>3. CASE T = {}
    <2> SUFFICES ASSUME NEW p \in 1..(L + 1), NEW c \in 0..2 PROVE Contents(str, p, TF[<<p, c>>])
      BY DEF L, TF
    <2>1. (L + 1) - p \in Nat
      BY <1>0
    <2>2. ~Bad((L + 1) - p)
      BY <1>3, <2>1
    <2> QED
      BY <2>2
  <1> QED
    BY <1>2, <1>3

(* An empty value has no tokens.                                           *)
LEMMA NoTokens == TokensOf(<<>>) = <<>>
  <1>1. <<>> \in Seq(Nat) /\ Len(<<>>) + 1 = 1 /\ 0 \in 0..2
    OBVIOUS
  <1> QED
    BY <1>1, AtEnd DEF TokensOf

--------------------------------------------------------------------------------
(* The tokenizer.                                                          *)

(* The tokenizer holds the last letters before its offset, has counted     *)
(* them and at most two more, and started them where a word starts or      *)
(* after the end.  What it has returned and the tokens from there on are   *)
(* the tokens of the text.                                                 *)
At(str, o, t, z, ks) ==
    /\ str \in Seq(Nat) /\ o \in 0..Len(str)
    /\ t \in Seq(Nat) /\ Len(t) <= o
    /\ z \in Nat /\ z >= Len(t) /\ z - Len(t) <= 2
    /\ \A i \in 1..Len(t) : IsLetter(str[(o - Len(t)) + i]) /\ t[i] = Lower(str[(o - Len(t)) + i])
    /\ \/ o = Len(t)
       \/ ~IsLetter(str[o - Len(t)])
       \/ o = Len(str) /\ Len(t) = 0
    /\ ks \in Seq(Seq(Nat))
    /\ ks \o TokensFrom(str)[<<(o - Len(t)) + 1, z - Len(t)>>] = TokensOf(str)

(* Where the letters end, they are a word.                                 *)
LEMMA WordEnds ==
    ASSUME NEW str, NEW o, NEW t, NEW z, NEW ks, At(str, o, t, z, ks),
           Len(t) > 0, o < Len(str) => ~IsLetter(str[o + 1])
    PROVE  /\ <<(o - Len(t)) + 1, o>> \in Runs(str) /\ WordAt(str, <<(o - Len(t)) + 1, o>>) = t
           /\ (o - Len(t)) + 1 \in 1..Len(str)
           /\ o - ((o - Len(t)) + 1) + 1 = Len(t)
  <1> DEFINE L == Len(str)
             n == Len(t)
             p == (o - n) + 1
             r == <<p, o>>
             In(i) == IsLetter(str[i])
  <1>0. L \in Nat /\ n \in Nat /\ o \in Nat /\ o <= L /\ n <= o /\ n > 0 /\ str \in Seq(Nat) /\ t \in Seq(Nat)
    <2>1. /\ str \in Seq(Nat) /\ o \in 0..L /\ t \in Seq(Nat) /\ n <= o
      BY DEF At
    <2>2. L \in Nat /\ n \in Nat
      BY <2>1
    <2> HIDE DEF L, n
    <2> QED
      BY <2>1, <2>2 DEF n
  <1>1. /\ \A i \in 1..n : In((o - n) + i) /\ t[i] = Lower(str[(o - n) + i])
        /\ o = n \/ ~In(o - n)
        /\ o = L \/ ~In(o + 1)
    <2>1. o < L => ~In(o + 1)
      OBVIOUS
    <2>2. /\ \A i \in 1..n : In((o - n) + i) /\ t[i] = Lower(str[(o - n) + i])
          /\ \/ o = n
             \/ ~In(o - n)
             \/ o = L /\ n = 0
      BY DEF At
    <2> HIDE DEF In, L, n
    <2> QED
      BY <1>0, <2>1, <2>2
  <1>2. t = [i \in 1..n |-> t[i]]
    BY <1>0
  <1> HIDE DEF L, n
  <1>3. /\ p \in 1..L /\ o \in 1..L /\ p <= o /\ p - 1 = o - n /\ o - p + 1 = n /\ (p = 1 <=> o = n)
        /\ \A i \in 1..n : p + i - 1 = (o - n) + i
        /\ \A i \in p..o : i - (o - n) \in 1..n /\ (o - n) + (i - (o - n)) = i
    BY <1>0
  <1> HIDE DEF p, In
  <1>4. \A i \in p..o : In(i)
    BY <1>1, <1>3
  <1>5. p = 1 \/ ~In(p - 1)
    BY <1>1, <1>3
  <1>6. r[1] = p /\ r[2] = o /\ r = <<r[1], r[2]>>
    OBVIOUS
  <1>7. r \in Runs(str)
    <2> HIDE DEF r
    <2> QED
      BY <1>0, <1>1, <1>3, <1>4, <1>5, <1>6, RunIs DEF In, L
  <1>8. WordAt(str, r) = t
    <2>1. WordAt(str, r) = [i \in 1..n |-> Lower(str[p + i - 1])]
      BY <1>3, <1>6 DEF WordAt
    <2>2. \A i \in 1..n : Lower(str[p + i - 1]) = t[i]
      BY <1>1, <1>3
    <2> QED
      BY <1>2, <2>1, <2>2
  <1> QED
    BY <1>3, <1>7, <1>8 DEF p, n, L, r

(* The tokens still to come, and those after the letters.                  *)
Ahead(str, o, t, z) == TokensFrom(str)[<<(o - Len(t)) + 1, z - Len(t)>>]
After(str, o, z) == TokensFrom(str)[<<o + 1, z>>]

(* The letters end here.                                                   *)
Break(str, o, t, z, ks) == At(str, o, t, z, ks) /\ (o < Len(str) => ~IsLetter(str[o + 1]))
Enough(z) == z > 2

(* The tokens still to come, where the letters end.                        *)
LEMMA TokensAhead ==
    ASSUME NEW str, NEW o, NEW t, NEW z, NEW ks, Break(str, o, t, z, ks)
    PROVE  Ahead(str, o, t, z) = IF Enough(z) THEN <<t>> \o After(str, o, 0) ELSE After(str, o, z)
  <1> USE DEF Break, Ahead, After, Enough
  <1> DEFINE L == Len(str)
             n == Len(t)
             p == (o - n) + 1
             c == z - n
             TF == TokensFrom(str)
  <1>0. L \in Nat /\ n \in Nat /\ o \in Nat /\ o <= L /\ n <= o /\ z \in Nat /\ z >= n /\ z - n <= 2 /\ str \in Seq(Nat)
    <2>1. /\ str \in Seq(Nat) /\ o \in 0..L /\ t \in Seq(Nat) /\ n <= o /\ z \in Nat /\ z >= n /\ z - n <= 2
      BY DEF At
    <2>2. L \in Nat /\ n \in Nat
      BY <2>1
    <2> HIDE DEF L, n
    <2> QED
      BY <2>1, <2>2
  <1>1. CASE n > 0
    <2>1. /\ <<p, o>> \in Runs(str) /\ WordAt(str, <<p, o>>) = t /\ p \in 1..L /\ o - p + 1 = n
      BY <1>1, WordEnds
    <2> HIDE DEF p, L, n
    <2>2. c \in 0..2 /\ c + n = z
      BY <1>0
    <2> HIDE DEF c
    <2>3. TF[<<p, c>>] = IF c + (o - p + 1) > 2 THEN <<WordAt(str, <<p, o>>)>> \o TF[<<o + 1, 0>>]
                         ELSE TF[<<o + 1, c + (o - p + 1)>>]
      BY <1>0, <2>1, <2>2, TakeRun DEF L
    <2> HIDE DEF TF
    <2>4. TF[<<p, c>>] = IF z > 2 THEN <<t>> \o TF[<<o + 1, 0>>] ELSE TF[<<o + 1, z>>]
      BY <2>1, <2>2, <2>3
    <2> QED
      BY <2>4 DEF p, c, n, TF
  <1>2. CASE ~(n > 0)
    <2> HIDE DEF L, n
    <2>1. p = o + 1 /\ c = z /\ ~(z > 2)
      BY <1>0, <1>2
    <2> HIDE DEF p, c
    <2>2. TF[<<p, c>>] = IF z > 2 THEN <<t>> \o TF[<<o + 1, 0>>] ELSE TF[<<o + 1, z>>]
      BY <2>1
    <2> QED
      BY <2>2 DEF p, c, n, TF
  <1> QED
    BY <1>1, <1>2

(* nextToken appends a letter to the token.                                *)
LEMMA LetterStep ==
    ASSUME NEW str, NEW o, NEW t, NEW z, NEW ks, At(str, o, t, z, ks),
           o < Len(str), IsLetter(str[o + 1])
    PROVE  At(str, o + 1, Append(t, Lower(str[o + 1])), z + 1, ks)
  <1> DEFINE L == Len(str)
             n == Len(t)
             l == Lower(str[o + 1])
             u == Append(t, l)
  <1>0. /\ L \in Nat /\ n \in Nat /\ o \in Nat /\ o < L /\ n <= o /\ z \in Nat /\ z >= n /\ z - n <= 2
        /\ str \in Seq(Nat) /\ t \in Seq(Nat)
    <2>1. /\ str \in Seq(Nat) /\ o \in 0..L /\ t \in Seq(Nat) /\ n <= o /\ z \in Nat /\ z >= n /\ z - n <= 2
      BY DEF At
    <2>2. L \in Nat /\ n \in Nat
      BY <2>1
    <2>3. o < L
      OBVIOUS
    <2> HIDE DEF L, n
    <2> QED
      BY <2>1, <2>2, <2>3
  <1>1. l \in Nat
    <2>1. o + 1 \in 1..L
      <3> HIDE DEF L
      <3> QED
        BY <1>0
    <2>2. str[o + 1] \in Nat
      BY <1>0, <2>1
    <2> QED
      BY <2>2, CaseBitAssumption DEF Lower
  <1> HIDE DEF l
  <1>2. u \in Seq(Nat) /\ Len(u) = n + 1 /\ (\A i \in 1..n : u[i] = t[i]) /\ u[n + 1] = l
    BY <1>0, <1>1
  <1>3. /\ \A i \in 1..n : IsLetter(str[(o - n) + i]) /\ t[i] = Lower(str[(o - n) + i])
        /\ \/ o = n
           \/ ~IsLetter(str[o - n])
           \/ o = L /\ n = 0
        /\ ks \in Seq(Seq(Nat)) /\ ks \o TokensFrom(str)[<<(o - n) + 1, z - n>>] = TokensOf(str)
    BY DEF At
  <1> HIDE DEF L, n, u
  <1>4. /\ (o + 1) - (n + 1) = o - n /\ (z + 1) - (n + 1) = z - n /\ (o = n <=> o + 1 = n + 1) /\ o # L
        /\ (o - n) + (n + 1) = o + 1 /\ o + 1 \in 0..L /\ n + 1 <= o + 1 /\ z + 1 \in Nat /\ z + 1 >= n + 1
        /\ \A i \in 1..(n + 1) : i \in 1..n \/ i = n + 1
    BY <1>0
  <1>5. \A i \in 1..(n + 1) : IsLetter(str[(o - n) + i]) /\ u[i] = Lower(str[(o - n) + i])
    <2> SUFFICES ASSUME NEW i \in 1..(n + 1) PROVE IsLetter(str[(o - n) + i]) /\ u[i] = Lower(str[(o - n) + i])
      OBVIOUS
    <2>1. CASE i \in 1..n
      BY <1>2, <1>3, <2>1
    <2>2. CASE i = n + 1
      BY <1>2, <1>4, <2>2 DEF l
    <2> QED
      BY <1>4, <2>1, <2>2
  <1>6. At(str, o + 1, u, z + 1, ks)
    BY <1>0, <1>2, <1>3, <1>4, <1>5 DEF At, L
  <1> QED
    BY <1>6 DEF u, l

(* Past the letters, with the token dropped or taken: a position where no  *)
(* word is being read.                                                     *)
LEMMA EmptyStep ==
    ASSUME NEW str \in Seq(Nat), NEW o \in 0..Len(str), o < Len(str) => ~IsLetter(str[o + 1]),
           NEW z \in 0..2, NEW ks \in Seq(Seq(Nat)),
           ks \o TokensFrom(str)[<<o + 1, z>>] = TokensOf(str)
    PROVE  At(str, IF o = Len(str) THEN o ELSE o + 1, <<>>, z, ks)
  <1> DEFINE L == Len(str)
             e == IF o = L THEN o ELSE o + 1
             TF == TokensFrom(str)
  <1>0. L \in Nat /\ o \in 0..L
    OBVIOUS
  <1>1. TF[<<o + 1, z>>] = TF[<<e + 1, z>>] /\ (e = L \/ ~IsLetter(str[e]))
    <2>1. CASE o = L
      BY <2>1
    <2>2. CASE o # L
      <3>1. o < L /\ o + 1 \in 1..L
        <4> HIDE DEF L
        <4> QED
          BY <1>0, <2>2
      <3>2. TF[<<o + 1, z>>] = TF[<<(o + 1) + 1, z>>]
        BY <3>1, Skip
      <3> HIDE DEF TF
      <3> QED
        BY <2>2, <3>1, <3>2
    <2> QED
      BY <2>1, <2>2
  <1>2. e \in 0..L /\ e - 0 = e /\ z - 0 = z /\ z \in Nat /\ z >= 0 /\ 0 <= e /\ z <= 2
    <2> HIDE DEF L
    <2> QED
      BY <1>0
  <1>3. Len(<<>>) = 0 /\ <<>> \in Seq(Nat) /\ 1..0 = {}
    OBVIOUS
  <1>4. ks \o TF[<<e + 1, z>>] = TokensOf(str)
    <2> HIDE DEF e
    <2> QED
      BY <1>1
  <1>5. At(str, e, <<>>, z, ks)
    <2> HIDE DEF e, L
    <2> QED
      BY <1>1, <1>2, <1>3, <1>4 DEF At, L
  <1> QED
    BY <1>5

(* nextToken drops a short word.                                           *)
LEMMA ShortStep ==
    ASSUME NEW str, NEW o, NEW t, NEW z, NEW ks, At(str, o, t, z, ks),
           o < Len(str), ~IsLetter(str[o + 1]), z <= 2
    PROVE  At(str, o + 1, <<>>, z, ks)
  <1>1. /\ str \in Seq(Nat) /\ o \in 0..Len(str) /\ z \in Nat /\ ks \in Seq(Seq(Nat))
        /\ ks \o Ahead(str, o, t, z) = TokensOf(str)
    BY DEF At, Ahead
  <1>2. z \in 0..2 /\ ~Enough(z)
    BY <1>1 DEF Enough
  <1>3. Break(str, o, t, z, ks)
    BY DEF Break
  <1>4. Ahead(str, o, t, z) = After(str, o, z)
    BY <1>2, <1>3, TokensAhead, Zenon
  <1>5. ks \o TokensFrom(str)[<<o + 1, z>>] = TokensOf(str)
    BY <1>1, <1>4, Zenon DEF After
  <1>6. At(str, IF o = Len(str) THEN o ELSE o + 1, <<>>, z, ks)
    BY <1>1, <1>2, <1>5, EmptyStep
  <1>7. o # Len(str)
    <2> DEFINE L == Len(str)
    <2>1. L \in Nat /\ o \in 0..L /\ o < L
      BY <1>1
    <2> HIDE DEF L
    <2>2. o # L
      BY <2>1
    <2> QED
      BY <2>2 DEF L
  <1> QED
    BY <1>6, <1>7

(* nextToken returns a token.                                              *)
LEMMA ReturnStep ==
    ASSUME NEW str, NEW o, NEW t, NEW z, NEW ks, At(str, o, t, z, ks),
           o < Len(str) => ~IsLetter(str[o + 1]), z > 2
    PROVE  At(str, IF o = Len(str) THEN o ELSE o + 1, <<>>, 0, Append(ks, t))
  <1> DEFINE B == Seq(Nat)
             rest == After(str, o, 0)
  <1>1. /\ str \in Seq(Nat) /\ o \in 0..Len(str) /\ t \in B /\ ks \in Seq(B)
        /\ ks \o Ahead(str, o, t, z) = TokensOf(str)
    BY DEF At, Ahead
  <1>2. ks \o (<<t>> \o rest) = TokensOf(str)
    <2>1. Break(str, o, t, z, ks) /\ Enough(z)
      BY DEF Break, Enough
    <2>2. Ahead(str, o, t, z) = <<t>> \o rest
      BY <2>1, TokensAhead, Zenon
    <2> QED
      BY <1>1, <2>2, Zenon
  <1>3. rest \in Seq(B)
    <2>1. o + 1 \in 1..(Len(str) + 1) /\ 0 \in 0..2
      <3> DEFINE L == Len(str)
      <3>1. L \in Nat /\ o \in 0..L
        BY <1>1
      <3> HIDE DEF L
      <3>2. o + 1 \in 1..(L + 1) /\ 0 \in 0..2
        BY <3>1
      <3> QED
        BY <3>2 DEF L
    <2>2. Contents(str, o + 1, rest)
      BY <1>1, <2>1, TokensContent DEF After
    <2> QED
      BY <2>2 DEF Contents
  <1> HIDE DEF B, rest
  <1>4. Append(ks, t) \in Seq(B) /\ Append(ks, t) \o rest = ks \o (<<t>> \o rest)
    BY <1>1, <1>3
  <1>5. Append(ks, t) \o TokensFrom(str)[<<o + 1, 0>>] = TokensOf(str) /\ Append(ks, t) \in Seq(Seq(Nat))
    BY <1>2, <1>4 DEF rest, B, After
  <1>6. 0 \in 0..2
    OBVIOUS
  <1> QED
    BY <1>1, <1>5, <1>6, EmptyStep

(* setString starts at the first word.                                     *)
LEMMA StartStep ==
    ASSUME NEW str \in Seq(Nat)
    PROVE  At(str, 0, <<>>, 0, <<>>)
  <1>1. Len(str) \in Nat
    OBVIOUS
  <1>2. Len(<<>>) = 0 /\ <<>> \in Seq(Nat) /\ 1..0 = {} /\ (0 - 0) + 1 = 1 /\ 0 - 0 = 0 /\ 0 \in 0..Len(str)
    BY <1>1
  <1>3. TokensOf(str) \in Seq(Seq(Nat))
    <2>1. 1 \in 1..(Len(str) + 1) /\ 0 \in 0..2
      BY <1>1
    <2>2. Contents(str, 1, TokensFrom(str)[<<1, 0>>])
      BY <2>1, TokensContent
    <2> QED
      BY <2>2 DEF Contents, TokensOf
  <1>4. <<>> \in Seq(Seq(Nat)) /\ <<>> \o TokensOf(str) = TokensOf(str)
    BY <1>3
  <1>5. <<>> \o TokensFrom(str)[<<(0 - 0) + 1, 0 - 0>>] = TokensOf(str)
    BY <1>2, <1>4 DEF TokensOf
  <1> QED
    BY <1>2, <1>4, <1>5 DEF At

(* nextToken returns FALSE when all the tokens were returned.              *)
LEMMA AllReturned ==
    ASSUME NEW str, NEW o, NEW t, NEW z, NEW ks, At(str, o, t, z, ks),
           o = Len(str), z <= 2
    PROVE  ks = TokensOf(str)
  <1>1. /\ str \in Seq(Nat) /\ z \in Nat /\ ks \in Seq(Seq(Nat))
        /\ ks \o Ahead(str, o, t, z) = TokensOf(str)
    BY DEF At, Ahead
  <1>2. z \in 0..2 /\ ~Enough(z)
    BY <1>1 DEF Enough
  <1>3. Break(str, o, t, z, ks)
    <2>1. ~(o < Len(str))
      BY <1>1
    <2> QED
      BY <2>1 DEF Break
  <1>4. Ahead(str, o, t, z) = After(str, o, z)
    BY <1>2, <1>3, TokensAhead, Zenon
  <1>5. After(str, o, z) = <<>>
    BY <1>1, <1>2, AtEnd DEF After
  <1>6. ks \o <<>> = ks
    BY <1>1
  <1> QED
    BY <1>1, <1>4, <1>5, <1>6

--------------------------------------------------------------------------------
(* The words of a document.                                                *)

(* The words that tokens of an entry make.                                 *)
WordsIn(e, ts) == {<<e[1], ts[j]>> : j \in DOMAIN ts}

(* The words of the first entries of a document.                           *)
CutWords(es, m) == UNION {WordsIn(es[i], TokensOf(es[i][2])) : i \in 1..m}

(* One more token.                                                         *)
LEMMA WordsInAppend ==
    ASSUME NEW e, NEW ts \in Seq(Seq(Nat)), NEW w \in Seq(Nat)
    PROVE  WordsIn(e, Append(ts, w)) = WordsIn(e, ts) \cup {<<e[1], w>>}
  <1> DEFINE B == Seq(Nat)
             us == Append(ts, w)
             n == Len(ts)
  <1>1. ts \in Seq(B) /\ w \in B
    OBVIOUS
  <1> HIDE DEF B
  <1>2. /\ n \in Nat /\ DOMAIN ts = 1..n /\ DOMAIN us = 1..(n + 1) /\ us[n + 1] = w
        /\ \A j \in 1..n : us[j] = ts[j]
    BY <1>1
  <1> HIDE DEF us, n
  <1>3. n + 1 \in 1..(n + 1) /\ (\A j \in 1..(n + 1) : j \in 1..n \/ j = n + 1) /\ (\A j \in 1..n : j \in 1..(n + 1))
    BY <1>2
  <1>4. ASSUME NEW x \in WordsIn(e, us) PROVE x \in WordsIn(e, ts) \cup {<<e[1], w>>}
    <2>1. PICK j \in 1..(n + 1) : x = <<e[1], us[j]>>
      BY <1>2 DEF WordsIn
    <2>2. CASE j \in 1..n
      BY <1>2, <2>1, <2>2 DEF WordsIn
    <2>3. CASE j = n + 1
      BY <1>2, <2>1, <2>3
    <2> QED
      BY <1>3, <2>2, <2>3
  <1>5. ASSUME NEW x \in WordsIn(e, ts) PROVE x \in WordsIn(e, us)
    <2>1. PICK j \in 1..n : x = <<e[1], ts[j]>>
      BY <1>2 DEF WordsIn
    <2> QED
      BY <1>2, <1>3, <2>1 DEF WordsIn
  <1>6. <<e[1], w>> \in WordsIn(e, us)
    BY <1>2, <1>3 DEF WordsIn
  <1>7. WordsIn(e, us) = WordsIn(e, ts) \cup {<<e[1], w>>}
    BY <1>4, <1>5, <1>6
  <1> QED
    BY <1>7 DEF us

(* One more entry.                                                         *)
LEMMA CutWordsNext ==
    ASSUME NEW es, NEW m \in Nat \ {0}
    PROVE  CutWords(es, m) = CutWords(es, m - 1) \cup WordsIn(es[m], TokensOf(es[m][2]))
  <1>1. 1..m = (1..(m - 1)) \cup {m}
    OBVIOUS
  <1> QED
    BY <1>1 DEF CutWords

(* No entry, no word.                                                      *)
LEMMA CutWordsNone ==
    ASSUME NEW es
    PROVE  CutWords(es, 0) = {} /\ CutWords(es, 1 - 1) = {}
  <1>1. 1..0 = {} /\ 1 - 1 = 0
    OBVIOUS
  <1> QED
    BY <1>1 DEF CutWords

(* The empty entry that readMini adds has no words.                        *)
LEMMA CutWordsAdded ==
    ASSUME NEW es \in Seq(Text \X Text)
    PROVE  CutWords(Append(es, <<<<>>, <<>>>>), Len(es) + 1) = CutWords(es, Len(es))
  <1> DEFINE S == Text \X Text
             n == Len(es)
             e == <<<<>>, <<>>>>
             fs == Append(es, e)
  <1>1. es \in Seq(S) /\ n \in Nat
    OBVIOUS
  <1>2. e \in S
    <2>1. <<>> \in Text
      <3>1. VarintLimit \in Nat /\ VarintLimit > 0
        BY LimitType
      <3> QED
        BY <3>1 DEF Text
    <2> QED
      BY <2>1
  <1>3. e[2] = <<>>
    OBVIOUS
  <1> HIDE DEF S, e
  <1>4. fs[n + 1] = e /\ \A i \in 1..n : fs[i] = es[i]
    BY <1>1, <1>2
  <1> HIDE DEF fs, n
  <1>5. CutWords(fs, n) = CutWords(es, n)
    BY <1>4 DEF CutWords
  <1>6. WordsIn(fs[n + 1], TokensOf(fs[n + 1][2])) = {}
    <2>1. DOMAIN <<>> = {}
      OBVIOUS
    <2> QED
      BY <1>3, <1>4, <2>1, NoTokens DEF WordsIn
  <1>7. n + 1 \in Nat \ {0} /\ (n + 1) - 1 = n
    BY <1>1
  <1>8. CutWords(fs, n + 1) = CutWords(es, n)
    <2>1. CutWords(fs, n + 1) = CutWords(fs, (n + 1) - 1) \cup WordsIn(fs[n + 1], TokensOf(fs[n + 1][2]))
      BY <1>7, CutWordsNext
    <2> QED
      BY <1>5, <1>6, <1>7, <2>1
  <1> QED
    BY <1>8 DEF fs, e, n

(* The value of a node is a string.                                        *)
LEMMA ValueType ==
    ASSUME NEW es \in Seq(Text \X Text), NEW i \in 1..Len(es)
    PROVE  es[i][2] \in Seq(Nat)
  <1> DEFINE S == Text \X Text
  <1>1. es[i] \in S
    <2> HIDE DEF S
    <2>1. es \in Seq(S)
      BY DEF S
    <2> QED
      BY <2>1
  <1>2. es[i][2] \in Text
    BY <1>1
  <1>3. Byte \subseteq Nat
    BY AlnumAssumption
  <1>4. ASSUME NEW s \in Text PROVE s \in Seq(Nat)
    <2>1. s \in Seq(Byte)
      BY DEF Text
    <2>2. Len(s) \in Nat /\ s = [j \in 1..Len(s) |-> s[j]] /\ \A j \in 1..Len(s) : s[j] \in Byte
      BY <2>1
    <2>3. [j \in 1..Len(s) |-> s[j]] \in Seq(Nat)
      BY <1>3, <2>2
    <2> QED
      BY <2>2, <2>3
  <1> QED
    BY <1>2, <1>4

(* The loop over the entries: the words are those of the entries that were *)
(* cut, and of the tokens returned from the one that is being cut.         *)
Progress(es, n, str, o, t, z, ks, ws) ==
    /\ n \in 1..(Len(es) + 1)
    /\ n <= Len(es) => /\ str = es[n][2] /\ At(str, o, t, z, ks)
                       /\ ws = CutWords(es, n - 1) \cup WordsIn(es[n], ks)
    /\ n > Len(es) => ws = CutWords(es, Len(es))

(* The loop goes to an entry, or ends.                                     *)
LEMMA ProgressNext ==
    ASSUME NEW es \in Seq(Text \X Text), NEW n \in 1..(Len(es) + 1), NEW ws, ws = CutWords(es, n - 1),
           NEW str, NEW o, NEW t, NEW z, NEW ks,
           n <= Len(es) => str = es[n][2] /\ o = 0 /\ t = <<>> /\ z = 0 /\ ks = <<>>
    PROVE  Progress(es, n, str, o, t, z, ks, ws)
  <1> DEFINE L == Len(es)
  <1>0. L \in Nat /\ n \in 1..(L + 1)
    OBVIOUS
  <1>1. CASE n <= L
    <2>1. n \in 1..L /\ ~(n > L)
      <3> HIDE DEF L
      <3> QED
        BY <1>0, <1>1
    <2>2. es[n][2] \in Seq(Nat)
      BY <2>1, ValueType
    <2>3. At(str, o, t, z, ks)
      BY <1>1, <2>2, StartStep
    <2>4. WordsIn(es[n], ks) = {}
      BY <1>1 DEF WordsIn
    <2> QED
      BY <1>1, <2>1, <2>3, <2>4 DEF Progress
  <1>2. CASE ~(n <= L)
    <2>1. n > L /\ n - 1 = L
      <3> HIDE DEF L
      <3> QED
        BY <1>0, <1>2
    <2> QED
      BY <1>2, <2>1 DEF Progress
  <1> QED
    BY <1>1, <1>2

(* The tokenizer took a step and returned nothing.                         *)
LEMMA ProgressScan ==
    ASSUME NEW es, NEW n, NEW str, NEW o, NEW t, NEW z, NEW ks, NEW ws,
           Progress(es, n, str, o, t, z, ks, ws), n <= Len(es),
           NEW oo, NEW tt, NEW zz, At(str, oo, tt, zz, ks)
    PROVE  Progress(es, n, str, oo, tt, zz, ks, ws)
  BY DEF Progress

(* The tokenizer returned a token.                                         *)
LEMMA ProgressToken ==
    ASSUME NEW es, NEW n, NEW str, NEW o, NEW t, NEW z, NEW ks, NEW ws,
           Progress(es, n, str, o, t, z, ks, ws), n <= Len(es), Len(es) \in Nat,
           NEW oo, NEW tt, NEW zz, At(str, oo, tt, zz, Append(ks, t))
    PROVE  Progress(es, n, str, oo, tt, zz, Append(ks, t), ws \cup {<<es[n][1], t>>})
  <1>1. /\ n \in 1..(Len(es) + 1) /\ str = es[n][2] /\ At(str, o, t, z, ks)
        /\ ws = CutWords(es, n - 1) \cup WordsIn(es[n], ks)
    BY DEF Progress
  <1>2. ~(n > Len(es))
    BY <1>1
  <1>3. ks \in Seq(Seq(Nat)) /\ t \in Seq(Nat)
    BY <1>1 DEF At
  <1>4. WordsIn(es[n], Append(ks, t)) = WordsIn(es[n], ks) \cup {<<es[n][1], t>>}
    BY <1>3, WordsInAppend
  <1>5. ws \cup {<<es[n][1], t>>} = CutWords(es, n - 1) \cup WordsIn(es[n], Append(ks, t))
    BY <1>1, <1>4
  <1> DEFINE us == Append(ks, t)
             vs == ws \cup {<<es[n][1], t>>}
  <1>6. vs = CutWords(es, n - 1) \cup WordsIn(es[n], us) /\ At(str, oo, tt, zz, us)
    BY <1>5
  <1> HIDE DEF us, vs
  <1>7. Progress(es, n, str, oo, tt, zz, us, vs)
    BY <1>1, <1>2, <1>6 DEF Progress
  <1> QED
    BY <1>7 DEF us, vs

(* The entry was cut.                                                      *)
LEMMA ProgressDone ==
    ASSUME NEW es, NEW n, NEW str, NEW o, NEW t, NEW z, NEW ks, NEW ws,
           Progress(es, n, str, o, t, z, ks, ws), n <= Len(es), Len(es) \in Nat, o = Len(str), z <= 2
    PROVE  ws = CutWords(es, (n + 1) - 1) /\ n + 1 \in 1..(Len(es) + 1)
  <1>1. /\ n \in 1..(Len(es) + 1) /\ str = es[n][2] /\ At(str, o, t, z, ks)
        /\ ws = CutWords(es, n - 1) \cup WordsIn(es[n], ks)
    BY DEF Progress
  <1>2. ks = TokensOf(es[n][2])
    BY <1>1, AllReturned
  <1>3. n \in Nat \ {0} /\ (n + 1) - 1 = n /\ n + 1 \in 1..(Len(es) + 1)
    BY <1>1
  <1>4. ws = CutWords(es, n)
    BY <1>1, <1>2, <1>3, CutWordsNext
  <1> QED
    BY <1>3, <1>4

--------------------------------------------------------------------------------
(* The invariant.                                                          *)

(* The document is in the store, in its compact form.                      *)
Stored ==
    /\ Key(DocumentSpace, docId) \in DOMAIN store
    /\ store[Key(DocumentSpace, docId)] = writeMini(request.nodes)

(* What readMini makes of it.                                              *)
ReadNodes == Append(request.nodes, <<<<>>, <<>>>>)

CutSoFar == Progress(entries, k, m_string, m_offset, m_token, tokensize, taken, words)

(* The stored form stays what was posted until it is deleted, the loops of *)
(* addDocument and of deleteDocument have found the words of the entries   *)
(* before the one they cut, and the words that were indexed are those of   *)
(* the posted nodes.                                                       *)
IInv ==
    /\ docId \in Id /\ request \in Request
    /\ pc \in {"post", "rejected", "adding", "stored", "deleting", "deleted"}
    /\ pc \in {"adding", "stored", "deleting"} => Stored
    /\ pc = "adding" => entries = request.nodes /\ CutSoFar
    /\ pc = "deleting" => entries = ReadNodes /\ CutSoFar
    /\ pc \in {"stored", "deleting", "deleted"} => indexed = CutWords(request.nodes, Len(request.nodes))
    /\ pc = "deleted" => words = indexed

(* A posted document and what is read back are sequences of pairs.         *)
LEMMA NodesType ==
    ASSUME request \in Request
    PROVE  /\ request.nodes \in Seq(Text \X Text) /\ Len(request.nodes) \in Nat /\ Postable(request.nodes)
           /\ ReadNodes \in Seq(Text \X Text) /\ Len(ReadNodes) = Len(request.nodes) + 1
  <1> DEFINE S == Text \X Text
             es == request.nodes
             e == <<<<>>, <<>>>>
  <1>1. es \in Seq(S) /\ Postable(es)
    BY RequestAssumption DEF Postable
  <1>2. e \in S
    <2>1. <<>> \in Text
      BY LimitType DEF Text
    <2> QED
      BY <2>1
  <1> HIDE DEF S, es, e
  <1>3. Append(es, e) \in Seq(S) /\ Len(Append(es, e)) = Len(es) + 1 /\ Len(es) \in Nat
    BY <1>1, <1>2
  <1> QED
    BY <1>1, <1>3 DEF S, es, e, ReadNodes

(* A stored document is read back with an empty entry.                     *)
LEMMA StoredRead ==
    ASSUME request \in Request, Stored
    PROVE  getDoc(docId) = {ReadNodes}
  <1>1. readMini(writeMini(request.nodes)) = ReadNodes
    BY NodesType, MiniRoundTrip DEF ReadNodes
  <1>2. Get(DocumentSpace, docId) = {writeMini(request.nodes)}
    BY DEF Get, Stored
  <1> QED
    BY <1>1, <1>2 DEF getDoc

(* The entries that are being cut.                                         *)
LEMMA EntriesType ==
    ASSUME IInv, Cutting
    PROVE  entries \in Seq(Text \X Text) /\ Len(entries) \in Nat /\ CutSoFar /\ k <= Len(entries)
  <1>1. request \in Request /\ (entries = request.nodes \/ entries = ReadNodes) /\ CutSoFar /\ k <= Len(entries)
    BY DEF IInv, Cutting
  <1> QED
    BY <1>1, NodesType

(* The initial states satisfy the invariant.                               *)
LEMMA InitIInv == Init => IInv
  BY DEF Init, IInv

(* A step that leaves the document alone keeps what is said of it.         *)
LEMMA CutKept ==
    ASSUME IInv, Cutting, UNCHANGED <<pc, request, entries, docId, store, indexed>>, CutSoFar'
    PROVE  IInv'
  <1>1. pc = "adding" \/ pc = "deleting"
    BY DEF Cutting
  <1>2. (Stored <=> Stored') /\ ReadNodes' = ReadNodes
    BY DEF Stored, ReadNodes
  <1> QED
    BY <1>1, <1>2 DEF IInv

(* nextToken reads a character.                                            *)
LEMMA ScanIInv == IInv /\ Scan => IInv'
  <1> SUFFICES ASSUME IInv, Scan PROVE IInv'
    OBVIOUS
  <1>1. Cutting /\ UNCHANGED <<pc, request, entries, k, words, docId, store, indexed>>
    BY DEF Scan
  <1>2. CutSoFar /\ k <= Len(entries)
    BY <1>1, EntriesType
  <1>3. At(m_string, m_offset, m_token, tokensize, taken)
    BY <1>2 DEF CutSoFar, Progress
  <1>4. m_string' = m_string /\ taken' = taken /\ At(m_string, m_offset', m_token', tokensize', taken)
    <2>1. CASE Letter
      BY <1>3, <2>1, LetterStep DEF Letter, Char
    <2>2. CASE ShortWord
      BY <1>3, <2>2, ShortStep DEF ShortWord, Char
    <2> QED
      BY <2>1, <2>2 DEF Scan
  <1>5. Progress(entries, k, m_string, m_offset', m_token', tokensize', taken, words)
    BY <1>2, <1>4, ProgressScan DEF CutSoFar
  <1>6. CutSoFar'
    BY <1>1, <1>4, <1>5 DEF CutSoFar
  <1> QED
    BY <1>1, <1>6, CutKept

(* nextToken returns a token.                                              *)
LEMMA TakeTokenIInv == IInv /\ TakeToken => IInv'
  <1> SUFFICES ASSUME IInv, TakeToken PROVE IInv'
    OBVIOUS
  <1>1. Cutting /\ UNCHANGED <<pc, request, entries, k, docId, store, indexed, m_string>>
    BY DEF TakeToken, ReturnToken
  <1>2. CutSoFar /\ k <= Len(entries) /\ Len(entries) \in Nat
    BY <1>1, EntriesType
  <1>3. At(m_string, m_offset, m_token, tokensize, taken)
    BY <1>2 DEF CutSoFar, Progress
  <1>4. taken' = Append(taken, m_token) /\ words' = words \cup {<<entries[k][1], m_token>>}
    BY DEF TakeToken, ReturnToken
  <1>5. At(m_string, m_offset', m_token', tokensize', Append(taken, m_token))
    BY <1>3, ReturnStep DEF TakeToken, ReturnToken, TokenReady, Char
  <1>6. Progress(entries, k, m_string, m_offset', m_token', tokensize', Append(taken, m_token),
                 words \cup {<<entries[k][1], m_token>>})
    BY <1>2, <1>5, ProgressToken DEF CutSoFar
  <1>7. CutSoFar'
    BY <1>1, <1>4, <1>6 DEF CutSoFar
  <1> QED
    BY <1>1, <1>7, CutKept

(* The loop goes to an entry, or ends.                                     *)
LEMMA CutEntry ==
    ASSUME NEW n \in 1..(Len(entries') + 1), entries' \in Seq(Text \X Text),
           words' = CutWords(entries', n - 1), Cut(entries', n)
    PROVE  CutSoFar'
  <1>1. k' = n /\ (n <= Len(entries') => /\ m_string' = entries'[n][2] /\ m_offset' = 0 /\ m_token' = <<>>
                                         /\ tokensize' = 0 /\ taken' = <<>>)
    BY DEF Cut, setString
  <1>2. Progress(entries', n, m_string', m_offset', m_token', tokensize', taken', words')
    BY <1>1, ProgressNext
  <1> QED
    BY <1>1, <1>2 DEF CutSoFar

(* nextToken returns FALSE, and the loop goes on.                          *)
LEMMA NextValueIInv == IInv /\ NextValue => IInv'
  <1> SUFFICES ASSUME IInv, NextValue PROVE IInv'
    OBVIOUS
  <1>1. /\ Cutting /\ UNCHANGED <<pc, request, entries, words, docId, store, indexed>>
        /\ Cut(entries, k + 1) /\ m_offset = Len(m_string) /\ tokensize <= 2
    BY DEF NextValue, Exhausted
  <1>2. CutSoFar /\ k <= Len(entries) /\ Len(entries) \in Nat /\ entries \in Seq(Text \X Text)
    BY <1>1, EntriesType
  <1>3. words = CutWords(entries, (k + 1) - 1) /\ k + 1 \in 1..(Len(entries) + 1)
    BY <1>1, <1>2, ProgressDone DEF CutSoFar
  <1>4. CutSoFar'
    BY <1>1, <1>2, <1>3, CutEntry
  <1> QED
    BY <1>1, <1>4, CutKept

(* The loop starts at the first entry.                                     *)
LEMMA FirstEntry ==
    ASSUME entries' \in Seq(Text \X Text), words' = {}, Cut(entries', 1)
    PROVE  CutSoFar'
  <1>1. Len(entries') \in Nat
    OBVIOUS
  <1>2. 1 \in 1..(Len(entries') + 1)
    BY <1>1
  <1>3. words' = CutWords(entries', 1 - 1)
    BY CutWordsNone
  <1> QED
    BY <1>2, <1>3, CutEntry

(* addDocument stores the document and starts to cut it.                   *)
LEMMA AddDocumentIInv == IInv /\ AddDocument => IInv'
  <1> SUFFICES ASSUME IInv, AddDocument PROVE IInv'
    OBVIOUS
  <1>1. /\ pc' = "adding" /\ UNCHANGED <<request, docId, indexed>> /\ entries' = request.nodes
        /\ words' = {} /\ Cut(entries', 1)
    BY DEF AddDocument
  <1>2. docId \in Id /\ request \in Request
    BY DEF IInv
  <1>3. CutSoFar'
    BY <1>1, <1>2, NodesType, FirstEntry
  <1>4. Stored'
    <2> DEFINE key == Key(DocumentSpace, docId)
               value == writeMini(request.nodes)
    <2>1. store' = [x \in DOMAIN store \cup {key} |-> IF x = key THEN value ELSE store[x]]
      BY DEF AddDocument, addDoc, Put
    <2>2. Key(DocumentSpace, docId') = key /\ writeMini(request.nodes') = value
      BY <1>1
    <2> HIDE DEF key, value
    <2>3. key \in DOMAIN store' /\ store'[key] = value
      BY <2>1
    <2> QED
      BY <2>2, <2>3 DEF Stored
  <1> QED
    BY <1>1, <1>2, <1>3, <1>4 DEF IInv

(* The words that addDocument found are indexed.                           *)
LEMMA AddedIInv == IInv /\ Added => IInv'
  <1> SUFFICES ASSUME IInv, Added PROVE IInv'
    OBVIOUS
  <1>1. /\ pc = "adding" /\ k > Len(entries) /\ indexed' = words /\ pc' = "stored"
        /\ UNCHANGED <<request, docId, store>>
    BY DEF Added
  <1>2. docId \in Id /\ request \in Request /\ Stored /\ entries = request.nodes /\ CutSoFar
    BY <1>1 DEF IInv
  <1>3. words = CutWords(request.nodes, Len(request.nodes))
    BY <1>1, <1>2 DEF CutSoFar, Progress
  <1>4. Stored'
    BY <1>1, <1>2 DEF Stored
  <1> QED
    BY <1>1, <1>2, <1>3, <1>4 DEF IInv

(* deleteDocument reads the document and starts to cut it.                 *)
LEMMA DeleteDocumentIInv == IInv /\ DeleteDocument => IInv'
  <1> SUFFICES ASSUME IInv, DeleteDocument PROVE IInv'
    OBVIOUS
  <1>1. /\ pc = "stored" /\ pc' = "deleting" /\ UNCHANGED <<request, docId, store, indexed>>
        /\ words' = {} /\ Cut(entries', 1) /\ entries' \in getDoc(docId)
    BY DEF DeleteDocument
  <1>2. docId \in Id /\ request \in Request /\ Stored /\ indexed = CutWords(request.nodes, Len(request.nodes))
    BY <1>1 DEF IInv
  <1>3. entries' = ReadNodes
    BY <1>1, <1>2, StoredRead
  <1>4. CutSoFar'
    BY <1>1, <1>2, <1>3, NodesType, FirstEntry
  <1>5. Stored' /\ ReadNodes' = ReadNodes
    BY <1>1, <1>2 DEF Stored, ReadNodes
  <1> QED
    BY <1>1, <1>2, <1>3, <1>4, <1>5 DEF IInv

(* deleteDocument has found the words and removes the document.            *)
LEMMA DeletedIInv == IInv /\ Deleted => IInv'
  <1> SUFFICES ASSUME IInv, Deleted PROVE IInv'
    OBVIOUS
  <1>1. /\ pc = "deleting" /\ k > Len(entries) /\ pc' = "deleted"
        /\ UNCHANGED <<request, words, docId, indexed>>
    BY DEF Deleted
  <1>2. /\ docId \in Id /\ request \in Request /\ entries = ReadNodes /\ CutSoFar
        /\ indexed = CutWords(request.nodes, Len(request.nodes))
    BY <1>1 DEF IInv
  <1>3. words = CutWords(ReadNodes, Len(request.nodes) + 1)
    BY <1>1, <1>2, NodesType DEF CutSoFar, Progress
  <1>4. words = indexed
    BY <1>2, <1>3, NodesType, CutWordsAdded DEF ReadNodes
  <1> QED
    BY <1>1, <1>2, <1>4 DEF IInv

(* A rejected document, and a document that is served, change nothing.     *)
LEMMA ReadingIInv == IInv /\ (Reject \/ GetDoc) => IInv'
  <1> SUFFICES ASSUME IInv, Reject \/ GetDoc PROVE IInv'
    OBVIOUS
  <1>1. UNCHANGED <<request, entries, k, words, docId, store, indexed>>
    BY DEF Reject, GetDoc
  <1>2. pc' = "rejected" \/ (pc' = pc /\ pc \in {"stored", "deleted"})
    BY DEF Reject, GetDoc
  <1>3. Stored' <=> Stored
    BY <1>1 DEF Stored
  <1> QED
    BY <1>1, <1>2, <1>3 DEF IInv

(* Every step keeps the invariant.                                         *)
LEMMA NextIInv == IInv /\ [Next]_vars => IInv'
  <1> SUFFICES ASSUME IInv, [Next]_vars PROVE IInv'
    OBVIOUS
  <1>1. CASE Next
    BY <1>1, ReadingIInv, AddDocumentIInv, ScanIInv, TakeTokenIInv, NextValueIInv, AddedIInv,
       DeleteDocumentIInv, DeletedIInv DEF Next
  <1>2. CASE UNCHANGED vars
    <2>1. /\ UNCHANGED <<pc, request, entries, k, words, docId, store, indexed>>
          /\ UNCHANGED <<m_string, m_offset, m_token, tokensize, taken>>
      BY <1>2 DEF vars, tokenizer
    <2>2. (Stored' <=> Stored) /\ ReadNodes' = ReadNodes /\ (CutSoFar' <=> CutSoFar)
      BY <2>1 DEF Stored, ReadNodes, CutSoFar
    <2> QED
      BY <2>1, <2>2 DEF IInv
  <1> QED
    BY <1>1, <1>2

(* Whatever is posted and however the store grew before, the loops find    *)
(* the words of the entries they passed and the stored form is kept.       *)
THEOREM InvariantHolds == Spec => []IInv
  <1>1. Init => IInv
    BY InitIInv
  <1>2. IInv /\ [Next]_vars => IInv'
    BY NextIInv
  <1> QED
    BY <1>1, <1>2, PTL DEF Spec

--------------------------------------------------------------------------------
(* What the invariant gives.                                               *)

(* When nextToken returns FALSE it has returned the tokens of the value,   *)
(* in their order, for every value, every set of letters and every number  *)
(* of short words that were dropped on the way.                            *)
THEOREM TokensAreExact == Spec => []TokensExact
  <1>1. IInv => TokensExact
    <2> SUFFICES ASSUME IInv, Cutting, Exhausted PROVE taken = TokensOf(m_string)
      BY DEF TokensExact
    <2>1. CutSoFar /\ k <= Len(entries)
      BY EntriesType
    <2>2. At(m_string, m_offset, m_token, tokensize, taken)
      BY <2>1 DEF CutSoFar, Progress
    <2> QED
      BY <2>2, AllReturned DEF Exhausted
  <1> QED
    BY <1>1, InvariantHolds, PTL

(* A document that was stored is read back as its nodes and an empty one,  *)
(* for all nodes with sizes that fit a varint: the compact form loses      *)
(* nothing of what was posted.                                             *)
THEOREM ReadBackHolds == Spec => []ReadBack
  <1>1. IInv => ReadBack
    <2> SUFFICES ASSUME IInv, pc = "stored" PROVE getDoc(docId) = {Append(request.nodes, <<<<>>, <<>>>>)}
      BY DEF ReadBack
    <2>1. request \in Request /\ Stored
      BY DEF IInv
    <2> QED
      BY <2>1, StoredRead DEF ReadNodes
  <1> QED
    BY <1>1, InvariantHolds, PTL

(* deleteDocument finds in what it reads from the store the words that     *)
(* addDocument indexed.                                                    *)
THEOREM DeletionFinds == Spec => []DeletionFindsWords
  <1>1. IInv => DeletionFindsWords
    BY DEF IInv, DeletionFindsWords
  <1> QED
    BY <1>1, InvariantHolds, PTL

(* The tokens of a text are words of it, and its long words among them.    *)
LEMMA TokensAreWords ==
    ASSUME NEW str \in Seq(Nat)
    PROVE  /\ \A j \in DOMAIN TokensOf(str) : TokensOf(str)[j] \in WordsOfText(str)
           /\ \A w \in LongWords(str) : \E j \in DOMAIN TokensOf(str) : TokensOf(str)[j] = w
  <1>1. Contents(str, 1, TokensOf(str))
    <2>1. Len(str) \in Nat
      OBVIOUS
    <2>2. 1 \in 1..(Len(str) + 1) /\ 0 \in 0..2
      BY <2>1
    <2> QED
      BY <2>2, TokensContent DEF TokensOf
  <1>2. ASSUME NEW w \in LongWords(str) PROVE \E j \in DOMAIN TokensOf(str) : TokensOf(str)[j] = w
    <2>1. PICK r \in Runs(str) : w = WordAt(str, r)
      BY DEF LongWords, WordsOfText
    <2>2. Len(w) > 2
      BY DEF LongWords
    <2>3. r[2] - r[1] + 1 > 2
      BY <2>1, <2>2, WordAtType
    <2>4. r \in RunsFrom(str, 1)
      <3>1. r[1] \in 1..Len(str) /\ Len(str) \in Nat
        BY RunIs
      <3>2. r[1] >= 1
        BY <3>1
      <3> QED
        BY <3>2 DEF RunsFrom
    <2> QED
      BY <1>1, <2>1, <2>3, <2>4 DEF Contents
  <1> QED
    BY <1>1, <1>2 DEF Contents

(* A document is indexed under every word of more than two letters of each *)
(* of its fields, and only under words of its fields.                      *)
THEOREM LongWordsAreIndexed == Spec => []LongWordsIndexed
  <1>1. IInv => LongWordsIndexed
    <2> DEFINE es == request.nodes
               n == Len(es)
               Of(f) == {j \in DOMAIN es : es[j][1] = f}
    <2> SUFFICES ASSUME IInv, pc = "stored"
                 PROVE  /\ \A f \in {es[i][1] : i \in DOMAIN es} :
                             \A w \in UNION {LongWords(es[i][2]) : i \in Of(f)} : <<f, w>> \in indexed
                        /\ \A w \in indexed :
                             /\ w[1] \in {es[i][1] : i \in DOMAIN es}
                             /\ w[2] \in UNION {WordsOfText(es[i][2]) : i \in Of(w[1])}
      BY DEF LongWordsIndexed
    <2>1. request \in Request /\ indexed = CutWords(es, n)
      BY DEF IInv
    <2>2. es \in Seq(Text \X Text) /\ n \in Nat /\ DOMAIN es = 1..n
      BY <2>1, NodesType
    <2>3. \A i \in 1..n : es[i][2] \in Seq(Nat)
      BY <2>2, ValueType
    <2> HIDE DEF es, n
    <2>4. ASSUME NEW f, NEW w, NEW i \in Of(f), w \in LongWords(es[i][2]) PROVE <<f, w>> \in indexed
      <3>1. i \in 1..n /\ es[i][1] = f /\ es[i][2] \in Seq(Nat)
        BY <2>2, <2>3
      <3>2. PICK j \in DOMAIN TokensOf(es[i][2]) : TokensOf(es[i][2])[j] = w
        BY <2>4, <3>1, TokensAreWords
      <3>3. <<f, w>> \in WordsIn(es[i], TokensOf(es[i][2]))
        BY <3>1, <3>2 DEF WordsIn
      <3> QED
        BY <2>1, <3>1, <3>3 DEF CutWords
    <2>5. ASSUME NEW w \in indexed
          PROVE  \E i \in 1..n : w[1] = es[i][1] /\ w[2] \in WordsOfText(es[i][2])
      <3>1. PICK i \in 1..n : w \in WordsIn(es[i], TokensOf(es[i][2]))
        BY <2>1 DEF CutWords
      <3>2. PICK j \in DOMAIN TokensOf(es[i][2]) : w = <<es[i][1], TokensOf(es[i][2])[j]>>
        BY <3>1 DEF WordsIn
      <3>3. TokensOf(es[i][2])[j] \in WordsOfText(es[i][2])
        BY <2>3, TokensAreWords
      <3> QED
        BY <3>2, <3>3
    <2> QED
      BY <2>2, <2>4, <2>5
  <1> QED
    BY <1>1, InvariantHolds, PTL

(* Storing or deleting a document leaves every other key of the store as   *)
(* it is: no two name spaces and no two ids share a key.                   *)
THEOREM OthersAreKept == Spec => OthersKept
  <1>1. ASSUME IInv, [Next]_vars, NEW ns \in {DocumentSpace, IndexSpace}, NEW n \in Id,
               <<ns, n>> # <<DocumentSpace, docId>>
        PROVE  Get(ns, n)' = Get(ns, n)
    <2> DEFINE key == Key(DocumentSpace, docId)
               other == Key(ns, n)
    <2>1. other # key
      <3>1. n \in Nat /\ docId \in Nat /\ ns \in Nat /\ DocumentSpace \in Nat
        <4>1. docId \in Id
          BY <1>1 DEF IInv
        <4>2. ns \in Nat /\ DocumentSpace \in Nat
          BY <1>1 DEF DocumentSpace, IndexSpace
        <4> QED
          BY <1>1, <4>1, <4>2, IdAssumption
      <3> QED
        BY <1>1, <3>1, KeyInjective
    <2>2. Get(ns, n)' = IF other \in DOMAIN store' THEN {store'[other]} ELSE {}
      BY DEF Get
    <2>3. Get(ns, n) = IF other \in DOMAIN store THEN {store[other]} ELSE {}
      BY DEF Get
    <2> HIDE DEF key, other
    <2>4. CASE AddDocument
      <3>1. PICK value : store' = [x \in DOMAIN store \cup {key} |-> IF x = key THEN value ELSE store[x]]
        BY <2>4 DEF AddDocument, addDoc, Put, key
      <3>2. (other \in DOMAIN store' <=> other \in DOMAIN store)
            /\ (other \in DOMAIN store => store'[other] = store[other])
        BY <2>1, <3>1
      <3> QED
        BY <2>2, <2>3, <3>2
    <2>5. CASE Deleted
      <3>1. store' = [x \in DOMAIN store \ {key} |-> store[x]]
        BY <2>5 DEF Deleted, removeDoc, Delete, key
      <3>2. (other \in DOMAIN store' <=> other \in DOMAIN store)
            /\ (other \in DOMAIN store => store'[other] = store[other])
        BY <2>1, <3>1
      <3> QED
        BY <2>2, <2>3, <3>2
    <2>6. CASE ~AddDocument /\ ~Deleted
      <3>1. store' = store
        BY <1>1, <2>6 DEF Next, vars, Reject, Scan, TakeToken, NextValue, Added, GetDoc, DeleteDocument
      <3> QED
        BY <2>2, <2>3, <3>1
    <2> QED
      BY <2>4, <2>5, <2>6
  <1>2. IInv /\ [Next]_vars =>
            [\A ns \in {DocumentSpace, IndexSpace}, n \in Id :
                <<ns, n>> # <<DocumentSpace, docId>> => Get(ns, n)' = Get(ns, n)]_vars
    BY <1>1
  <1> QED
    BY <1>2, InvariantHolds, PTL DEF Spec, OthersKept
================================================================================
