---------------------------- MODULE SparseSetProofs ----------------------------
(***************************************************************************)
(* The sparse set is correct for every element bound and initial size.     *)
(* The invariant is TypeOK and Linked; that a new element always finds a   *)
(* free entry is the pigeonhole principle applied to dense.                *)
(***************************************************************************)
EXTENDS SparseSet, FiniteSetTheorems, TLAPS

IndInv == TypeOK /\ Linked

(* Linked arrays make ismember exact.                                      *)
LEMMA MembershipFromLinks == IndInv => MembershipExact
  <1> SUFFICES ASSUME IndInv, NEW i \in Elem PROVE ismember(i) <=> i \in Members
    BY DEF MembershipExact
  <1> USE DEF IndInv, TypeOK, Linked, Index, Elem
  <1>1. ASSUME ismember(i) PROVE i \in Members
    <2>1. sparse[i] \in 0..(n - 1) /\ dense[sparse[i]] = i
      BY <1>1, MaxElemAssumption DEF ismember
    <2> QED BY <2>1 DEF Members
  <1>2. ASSUME i \in Members PROVE ismember(i)
    <2>1. PICK k \in 0..(n - 1) : dense[k] = i
      BY <1>2 DEF Members
    <2>2. i \in Index /\ sparse[i] = k
      BY <2>1
    <2> QED BY <2>1, <2>2 DEF ismember
  <1> QED BY <1>1, <1>2

(* A set that has no room left has every index as a member.                *)
LEMMA RoomForNew ==
    ASSUME IndInv, NEW i \in Elem, i < currentSize, ~ismember(i)
    PROVE  n < currentSize
  <1> SUFFICES ASSUME n = currentSize PROVE FALSE
    BY DEF IndInv, TypeOK
  <1> DEFINE S == 0..(n - 1)
  <1> DEFINE T == Index \ {i}
  <1> DEFINE f == [k \in S |-> dense[k]]
  <1>1. /\ n \in Nat \ {0} /\ i \in Index /\ S = Index
        /\ \A k \in S : dense[k] \in Index /\ sparse[dense[k]] = k
    BY MaxElemAssumption DEF IndInv, TypeOK, Linked, Index, Elem
  <1>2. \A k \in S : dense[k] # i
    BY MembershipFromLinks DEF MembershipExact, Members
  <1>3. f \in [S -> T]
    BY <1>1, <1>2
  <1>4. IsFiniteSet(Index) /\ Cardinality(Index) = n
    <2>1. 0 \in Int /\ currentSize - 1 \in Int /\ ~(0 > currentSize - 1)
          /\ (currentSize - 1) - 0 + 1 = n
      BY <1>1
    <2>2. IsFiniteSet(0..(currentSize - 1)) /\ Cardinality(0..(currentSize - 1)) = (currentSize - 1) - 0 + 1
      BY <2>1, FS_Interval
    <2> QED BY <2>1, <2>2 DEF Index
  <1>5. IsFiniteSet(T) /\ Cardinality(T) = n - 1
    <2>1. IsFiniteSet(Index \ {i}) /\ Cardinality(Index \ {i}) = Cardinality(Index) - 1
      <3> HIDE DEF T, S, f
      <3> QED BY <1>1, <1>4, FS_RemoveElement, Zenon
    <2> QED BY <2>1, <1>4
  <1>6. IsFiniteSet(S) /\ Cardinality(S) = n
    BY <1>1, <1>4
  <1>7. n - 1 < n
    BY <1>1
  <1> HIDE DEF S, T, f
  <1>8. \E x, y \in S : x # y /\ f[x] = f[y]
    BY <1>3, <1>5, <1>6, <1>7, FS_PigeonHole
  <1>9. \A x, y \in S : f[x] = f[y] => x = y
    BY <1>1 DEF f
  <1> QED BY <1>8, <1>9

(* Linked arrays leave room for the element insert_new appends.            *)
LEMMA BoundsFromLinks == IndInv => InsertInBounds
  <1> SUFFICES ASSUME IndInv, NEW i \in Elem, ~ismember(i)
               PROVE  n < NewSize(i) /\ i < NewSize(i)
    BY DEF InsertInBounds
  <1>1. currentSize \in Nat \ {0} /\ n \in 0..currentSize /\ i \in Nat
    BY MaxElemAssumption DEF IndInv, TypeOK, Elem
  <1>2. CASE i >= currentSize
    BY <1>1, <1>2 DEF NewSize, growBuffers
  <1>3. CASE ~(i >= currentSize)
    <2>1. i < currentSize
      BY <1>1, <1>3
    <2> QED BY <2>1, <1>1, <1>3, RoomForNew DEF NewSize
  <1> QED BY <1>2, <1>3

(* insert keeps the arrays linked and adds its element.                    *)
LEMMA InsertStep ==
    ASSUME IndInv, NEW i \in Elem, insert(i)
    PROVE  IndInv' /\ Members' = Members \cup {i}
  <1> DEFINE size == NewSize(i)
  <1>1. currentSize \in Nat \ {0} /\ n \in 0..currentSize /\ i \in Nat
    BY MaxElemAssumption DEF IndInv, TypeOK, Elem
  <1>2. size \in Nat \ {0} /\ currentSize <= size /\ currentSize' = size
    BY <1>1 DEF NewSize, growBuffers, insert
  <1>3. n < size /\ i < size
    BY BoundsFromLinks DEF InsertInBounds, insert
  <1>4. /\ n' = n + 1
        /\ dense' = [resize(dense, size) EXCEPT ![n] = i]
        /\ sparse' = [resize(sparse, size) EXCEPT ![i] = n]
    BY DEF insert
  <1> HIDE DEF size
  <1>5. /\ resize(dense, size) \in [0..(size - 1) -> Nat]
        /\ resize(sparse, size) \in [0..(size - 1) -> Nat]
    BY <1>1, <1>2 DEF IndInv, TypeOK, Index, resize
  <1>6. TypeOK'
    BY <1>1, <1>2, <1>3, <1>4, <1>5 DEF TypeOK, Index
  <1>7. \A k \in 0..(n - 1) : dense'[k] = dense[k] /\ dense[k] # i
    <2>1. \A k \in 0..(n - 1) : dense[k] # i
      BY MembershipFromLinks DEF MembershipExact, Members, insert
    <2> QED BY <1>1, <1>2, <1>3, <1>4, <1>5, <2>1 DEF resize
  <1>8. dense'[n] = i /\ sparse'[i] = n
    <2>1. n \in 0..(size - 1) /\ i \in 0..(size - 1)
      BY <1>1, <1>2, <1>3
    <2> QED BY <1>4, <1>5, <2>1
  <1>9. \A k \in 0..(n - 1) : dense[k] \in 0..(size - 1) /\ sparse'[dense[k]] = k
    <2> SUFFICES ASSUME NEW k \in 0..(n - 1)
                 PROVE  dense[k] \in 0..(size - 1) /\ sparse'[dense[k]] = k
      OBVIOUS
    <2>1. dense[k] \in 0..(currentSize - 1) /\ sparse[dense[k]] = k /\ dense[k] # i
      BY <1>7 DEF IndInv, Linked, Index
    <2>2. dense[k] \in 0..(size - 1) /\ dense[k] < currentSize
      BY <1>1, <1>2, <2>1
    <2> QED BY <1>4, <1>5, <2>1, <2>2 DEF resize
  <1>10. Linked'
    <2>0. 0..(n' - 1) = 0..n
      BY <1>1, <1>4
    <2> SUFFICES ASSUME NEW k \in 0..n
                 PROVE  dense'[k] \in 0..(size - 1) /\ sparse'[dense'[k]] = k
      BY <1>2, <2>0 DEF Linked, Index
    <2>1. CASE k = n
      BY <1>1, <1>2, <1>3, <1>8, <2>1
    <2>2. CASE k # n
      BY <1>1, <1>7, <1>9, <2>2
    <2> QED BY <2>1, <2>2
  <1>11. Members' = Members \cup {i}
    <2>1. 0..(n' - 1) = (0..(n - 1)) \cup {n}
      BY <1>1, <1>4
    <2> QED BY <1>7, <1>8, <2>1 DEF Members
  <1> QED BY <1>6, <1>10, <1>11 DEF IndInv

(* remove keeps the arrays linked, whichever element it moves, and takes   *)
(* out its element.                                                        *)
LEMMA RemoveStep ==
    ASSUME IndInv, NEW i \in Elem, remove(i)
    PROVE  IndInv' /\ Members' = Members \ {i}
  <1> DEFINE p == sparse[i]
  <1> DEFINE j == dense[n - 1]
  <1>1. currentSize \in Nat \ {0} /\ n \in 0..currentSize /\ i \in Nat
    BY MaxElemAssumption DEF IndInv, TypeOK, Elem
  <1>2. i \in Index /\ p \in 0..(n - 1) /\ dense[p] = i
    BY <1>1 DEF remove, ismember, IndInv, TypeOK, Index
  <1>3. n - 1 \in 0..(n - 1) /\ j \in Index /\ sparse[j] = n - 1
    BY <1>1, <1>2 DEF IndInv, Linked
  <1>4. /\ n' = n - 1 /\ currentSize' = currentSize
        /\ dense' = [dense EXCEPT ![p] = j]
        /\ sparse' = [sparse EXCEPT ![j] = p]
    BY DEF remove, Relinked
  <1> HIDE DEF p, j
  <1>5. Index' = Index /\ 0..(n - 1) \subseteq Index
    BY <1>1, <1>4 DEF Index
  <1>6. dense \in [Index -> Nat] /\ sparse \in [Index -> Nat]
    BY DEF IndInv, TypeOK
  <1>7. j \in Nat /\ p \in Nat
    BY <1>1, <1>2, <1>3 DEF Index
  <1>8. TypeOK'
    <2>1. dense' \in [Index' -> Nat] /\ sparse' \in [Index' -> Nat]
      BY <1>4, <1>5, <1>6, <1>7
    <2>2. n' \in 0..currentSize'
      BY <1>1, <1>2, <1>4
    <2> QED BY <1>1, <1>4, <2>1, <2>2 DEF TypeOK
  <1>9. \A k \in 0..(n' - 1) : k \in 0..(n - 1) /\ k # n - 1
    BY <1>1, <1>4
  <1>10. \A k \in 0..(n - 1) : dense[k] \in Index /\ sparse[dense[k]] = k
    BY DEF IndInv, Linked
  <1>11. Linked'
    <2> SUFFICES ASSUME NEW k \in 0..(n' - 1)
                 PROVE  dense'[k] \in Index /\ sparse'[dense'[k]] = k
      BY <1>5 DEF Linked
    <2>1. CASE k = p
      BY <1>2, <1>3, <1>4, <1>5, <1>6, <2>1
    <2>2. CASE k # p
      <3>1. dense'[k] = dense[k] /\ dense[k] \in Index /\ sparse[dense[k]] = k
        BY <1>4, <1>5, <1>6, <1>9, <1>10, <2>2
      <3>2. dense[k] # j
        BY <1>3, <1>9, <3>1
      <3> QED BY <1>4, <1>6, <3>1, <3>2
    <2> QED BY <2>1, <2>2
  <1>12. Members' = Members \ {i}
    <2>1. ASSUME NEW x \in Members' PROVE x \in Members \ {i}
      <3>1. PICK k \in 0..(n' - 1) : x = dense'[k]
        BY <2>1 DEF Members
      <3>2. CASE k = p
        <4>1. x = j /\ j # i
          BY <1>2, <1>3, <1>4, <1>5, <1>6, <1>9, <3>1, <3>2 DEF p
        <4> QED BY <4>1, <1>3 DEF Members, j
      <3>3. CASE k # p
        <4>1. x = dense[k] /\ k \in 0..(n - 1)
          BY <1>4, <1>5, <1>6, <1>9, <3>1, <3>3
        <4>2. x # i
          BY <4>1, <1>2, <1>10, <3>3 DEF p
        <4> QED BY <4>1, <4>2 DEF Members
      <3> QED BY <3>2, <3>3
    <2>2. ASSUME NEW x \in Members \ {i} PROVE x \in Members'
      <3>1. PICK k \in 0..(n - 1) : x = dense[k]
        BY <2>2 DEF Members
      <3>2. k # p
        BY <1>2, <2>2, <3>1
      <3>3. CASE k = n - 1
        <4>1. p \in 0..(n' - 1)
          BY <1>1, <1>2, <1>4, <3>2, <3>3
        <4>2. dense'[p] = x
          BY <1>2, <1>4, <1>5, <1>6, <3>1, <3>3 DEF j
        <4> QED BY <4>1, <4>2 DEF Members
      <3>4. CASE k # n - 1
        <4>1. k \in 0..(n' - 1)
          BY <1>1, <1>4, <3>4
        <4>2. dense'[k] = x
          BY <1>4, <1>5, <1>6, <3>1, <3>2
        <4> QED BY <4>1, <4>2 DEF Members
      <3> QED BY <3>3, <3>4
    <2> QED BY <2>1, <2>2
  <1> QED BY <1>8, <1>11, <1>12 DEF IndInv

(* clear keeps the arrays linked and leaves no member.                     *)
LEMMA ClearStep ==
    ASSUME IndInv, clear
    PROVE  IndInv' /\ Members' = {}
  <1>1. 0..(n' - 1) = {} /\ n' \in 0..currentSize
    BY DEF clear, IndInv, TypeOK
  <1> QED BY <1>1 DEF clear, IndInv, TypeOK, Linked, Members, Index

(* The constructor makes an empty, linked set.                             *)
LEMMA InitInv == Init => IndInv /\ Members = {}
  <1> SUFFICES ASSUME Init PROVE IndInv /\ Members = {}
    OBVIOUS
  <1>1. n = 0 /\ 0..(n - 1) = {} /\ currentSize \in Nat \ {0}
    BY SizeAssumption DEF Init
  <1>2. TypeOK
    BY <1>1 DEF Init, TypeOK
  <1> QED BY <1>1, <1>2 DEF IndInv, Linked, Members

(* Every operation of SparseSet keeps the arrays linked.                   *)
LEMMA StepInv == IndInv /\ [Next]_vars => IndInv'
  <1> SUFFICES ASSUME IndInv, [Next]_vars PROVE IndInv'
    OBVIOUS
  <1>1. CASE UNCHANGED vars
    BY <1>1 DEF vars, IndInv, TypeOK, Linked, Index
  <1> QED BY <1>1, InsertStep, RemoveStep, ClearStep DEF Next

(* The arrays of SparseSet are linked in every reachable state.            *)
LEMMA InductiveInvariant == Spec => []IndInv
  BY InitInv, StepInv, PTL DEF Spec

(* SparseSet::ismember is exact in every reachable state.                  *)
THEOREM MembershipCorrect == Spec => []MembershipExact
  BY InductiveInvariant, MembershipFromLinks, PTL

(* SparseSet::insert_new never writes outside its arrays.                  *)
THEOREM InsertSafe == Spec => []InsertInBounds
  BY InductiveInvariant, BoundsFromLinks, PTL

(* begin() to end() visits every member once.                              *)
THEOREM IterationCorrect == Spec => []IteratesOnce
  <1>1. IndInv => IteratesOnce
    <2> SUFFICES ASSUME IndInv PROVE Cardinality(Members) = n
      BY DEF IteratesOnce
    <2> DEFINE S == 0..(n - 1)
    <2> DEFINE f == [k \in S |-> dense[k]]
    <2>1. n \in Nat
      BY DEF IndInv, TypeOK
    <2>2. IsFiniteSet(S) /\ Cardinality(S) = n
      <3>1. 0 \in Int /\ n - 1 \in Int /\ (n - 1) - 0 + 1 = n /\ (0 > n - 1 => n = 0)
        BY <2>1
      <3> QED BY <3>1, FS_Interval
    <2>3. f \in Surjection(S, Members)
      BY DEF Surjection, Members
    <2>4. \A x, y \in S : f[x] = f[y] => x = y
      BY DEF IndInv, Linked
    <2>5. f \in Injection(S, Members)
      BY <2>3, <2>4 DEF Surjection, Injection, IsInjective
    <2> HIDE DEF S, f
    <2> QED BY <2>2, <2>3, <2>5, FS_Surjection
  <1> QED BY <1>1, InductiveInvariant, PTL

(* The two arrays implement a set.                                         *)
THEOREM SetRefinement == Spec => ImplementsSet
  <1>1. Init => Set!Init
    BY InitInv DEF Set!Init
  <1>2. IndInv /\ [Next]_vars => [Set!Next]_Members
    <2> SUFFICES ASSUME IndInv, [Next]_vars PROVE [Set!Next]_Members
      OBVIOUS
    <2>1. ASSUME NEW i \in Elem, insert(i) PROVE Set!Insert(i)
      BY <2>1, InsertStep DEF Set!Insert
    <2>2. ASSUME NEW i \in Elem, remove(i) PROVE Set!Remove(i)
      BY <2>2, RemoveStep DEF Set!Remove
    <2>3. CASE clear
      BY <2>3, ClearStep DEF Set!Next, Set!Clear
    <2>4. CASE UNCHANGED vars
      BY <2>4 DEF vars, Members
    <2> QED BY <2>1, <2>2, <2>3, <2>4 DEF Next, Set!Next
  <1> QED BY <1>1, <1>2, InductiveInvariant, PTL DEF Spec, ImplementsSet, Set!Spec
================================================================================
