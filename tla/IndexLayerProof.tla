-------------------------- MODULE IndexLayerProof --------------------------
(***************************************************************************)
(* Proofs about IndexLayer, for any settings: any keys, any operations, any *)
(* number of rounds, as long as the index is not lowered, which the        *)
(* operations of the program never cause.                                  *)
(*                                                                         *)
(* The chain and the rows are described as sets of blocks, in which every  *)
(* pointer leads to the next greater key; a block is in the chain, in a    *)
(* row, or was skipped out of one.  A skipped inode keeps its pointers: it *)
(* stays in the memory, and searches may come by it.                       *)
(*                                                                         *)
(* First the sequences that the model computes, the layers as sets and     *)
(* what each kind of store does to them; then the memory, the invariant,   *)
(* and one lemma for each action; last the theorems.                       *)
(***************************************************************************)
EXTENDS IndexLayer, TLAPS, FiniteSetTheorems, FunctionTheorems, SequenceTheorems
-----------------------------------------------------------------------------
\* Every nonempty set of natural numbers has a least element.
LEMMA Least ==
  ASSUME NEW T \in SUBSET Nat, T # {}
  PROVE  \E x \in T : \A y \in T : x <= y
<1> DEFINE R == OpToRel(<, Nat)
<1>1. IsWellFoundedOn(R, Nat)
  BY NatLessThanWellFounded
<1>2. PICK x \in T : \A y \in T : ~(<<y, x>> \in R)
  <2> HIDE DEF R
  <2> QED
    BY <1>1, WFMin
<1>3. \A y \in T : y < x => <<y, x>> \in R
  BY DEF OpToRel
<1>4. \A y \in T : x \in Nat /\ y \in Nat /\ ~(y < x)
  <2> HIDE DEF R
  <2> QED
    BY <1>2, <1>3
<1>5. QED
  BY <1>4

\* p holds x and the next n values of G, one after the other.
Iterated(S, G, x, n, p) ==
  p \in [0 .. n -> S] /\ p[0] = x /\ \A i \in 1 .. n : p[i] = G[p[i - 1]]

\* A function can be iterated any number of times.
LEMMA Iterates ==
  ASSUME NEW S, NEW x \in S, NEW G \in [S -> S], NEW n \in Nat
  PROVE  \E p : Iterated(S, G, x, n, p)
<1> DEFINE Path(m, p) == /\ p \in [0 .. m -> S]
                         /\ p[0] = x /\ \A i \in 1 .. m : p[i] = G[p[i - 1]]
           U == {m \in Nat : ~ \E p : Path(m, p)}
<1>1. U = {}
  <2> SUFFICES ASSUME U # {} PROVE FALSE
    OBVIOUS
  <2> U \in SUBSET Nat
    OBVIOUS
  <2>1. PICK m \in U : \A y \in U : m <= y
    <3> HIDE DEF U
    <3> QED
      BY Least
  <2>2. m \in Nat /\ ~ \E p : Path(m, p)
    <3> HIDE DEF Path
    <3> QED
      OBVIOUS
  <2>3. m # 0
    <3> DEFINE p == [i \in 0 .. 0 |-> x]
    <3> SUFFICES Path(0, p)
      BY <2>2
    <3> QED
      OBVIOUS
  <2>4. m - 1 \in Nat /\ m - 1 \notin U
    <3> HIDE DEF U
    <3> QED
      BY <2>1, <2>2, <2>3
  <2>5. PICK p : Path(m - 1, p)
    <3> HIDE DEF Path
    <3> QED
      BY <2>4
  <2> DEFINE q == [i \in 0 .. m |-> IF i = m THEN G[p[m - 1]] ELSE p[i]]
  <2>6. m - 1 \in 0 .. m - 1 /\ p[m - 1] \in S
    BY <2>5, <2>4
  <2>7. q \in [0 .. m -> S] /\ q[0] = x
    BY <2>5, <2>6, <2>2, <2>3
  <2>8. ASSUME NEW i \in 1 .. m PROVE q[i] = G[q[i - 1]]
    <3>1. i - 1 \in 0 .. m - 1 /\ i - 1 # m /\ q[i - 1] = p[i - 1]
      BY <2>2
    <3>2. CASE i = m
      BY <3>1, <3>2
    <3>3. CASE i # m
      <4>1. i \in 1 .. m - 1
        BY <3>3, <2>2
      <4>2. QED
        BY <3>1, <3>3, <4>1, <2>5
    <3>4. QED
      BY <3>2, <3>3
  <2>9. Path(m, q)
    <3> HIDE DEF q
    <3> QED
      BY <2>7, <2>8
  <2>10. QED
    BY <2>9, <2>2
<1>2. \E p : Path(n, p)
  <2> HIDE DEF Path
  <2> QED
    BY <1>1
<1>3. QED
  BY <1>2 DEF Iterated

\* The pointers of N blocks lead from s[1] by the blocks of s to NULL.
Follows(pointer, N, s, L) ==
  /\ pointer \in [0 .. N -> 0 .. N]
  /\ L \in 1 .. N /\ s \in [1 .. L -> 1 .. N]
  /\ \A i \in 1 .. L - 1 : pointer[s[i]] = s[i + 1]
  /\ pointer[s[L]] = NULL

\* A function on 1 .. n is a sequence of length n.
LEMMA FunctionIsSeq ==
  ASSUME NEW n \in Nat, NEW S, NEW f \in [1 .. n -> S]
  PROVE  f \in Seq(S) /\ Len(f) = n /\ DOMAIN f = 1 .. n
OBVIOUS

\* Along follows the pointers: s is the sequence of the blocks it comes to.
LEMMA AlongIs ==
  ASSUME NEW N \in Nat, NEW pointer, NEW L, NEW s, Follows(pointer, N, s, L)
  PROVE  Along(s[1], pointer) = s
<1> DEFINE front(j) == SubSeq(s, 1, j)
           upto(i) == IF i < L THEN i + 1 ELSE L
           e(g, i) == IF i = 0 THEN <<s[1]>>
                      ELSE LET t == g[i - 1]
                               b == pointer[t[Len(t)]]
                           IN  IF b = NULL THEN t ELSE Append(t, b)
           F == [i \in 0 .. N |-> front(upto(i))]
           f == CHOOSE g : g = [i \in 0 .. N |-> e(g, i)]
<1>a. L \in Nat /\ L \in 1 .. N /\ s \in [1 .. L -> 1 .. N]
  <2>1. L \in 1 .. N /\ s \in [1 .. L -> 1 .. N]
    BY DEF Follows
  <2>2. QED
    BY <2>1
<1>b. s \in Seq(1 .. N) /\ Len(s) = L
  BY <1>a, FunctionIsSeq
<1>c. \A j \in 1 .. L : s[j] \in 1 .. N
  BY <1>a
<1>d. \A i \in 1 .. L - 1 : pointer[s[i]] = s[i + 1]
  BY DEF Follows
<1>e. pointer \in [0 .. N -> 0 .. N] /\ pointer[s[L]] = NULL
  BY DEF Follows
<1>1. Along(s[1], pointer) = f[N]
  <2>1. DOMAIN pointer = 0 .. N /\ Cardinality(0 .. N) - 1 = N
    BY <1>e, FS_Interval
  <2>2. Along(s[1], pointer) = f[Cardinality(0 .. N) - 1]
    BY <2>1, Zenon DEF Along
  <2>3. QED
    BY <2>1, <2>2
<1>2. \A j \in 1 .. L : /\ front(j) \in Seq(1 .. N) /\ Len(front(j)) = j
                        /\ \A k \in 1 .. j : front(j)[k] = s[k]
  <2> TAKE j \in 1 .. L
  <2>1. j \in Int /\ 1 <= j /\ \A k \in 1 .. j : s[k] \in 1 .. N
    BY <1>a, <1>c
  <2> DEFINE q == SubSeq(s, 1, j)
  <2>2. /\ q \in Seq(1 .. N) /\ Len(q) = IF 1 <= j THEN j - 1 + 1 ELSE 0
        /\ \A k \in 1 .. j - 1 + 1 : q[k] = s[1 + k - 1]
    BY <2>1, SubSeqProperties
  <2>3. j - 1 + 1 = j /\ \A k \in 1 .. j : 1 + k - 1 = k
    BY <2>1
  <2>4. QED
    BY <2>1, <2>2, <2>3
<1> HIDE DEF front
<1>3. \A j \in 1 .. L - 1 : Append(front(j), s[j + 1]) = front(j + 1)
  <2> SUFFICES ASSUME NEW j \in 1 .. L - 1
               PROVE  Append(front(j), s[j + 1]) = front(j + 1)
    OBVIOUS
  <2> DEFINE u == Append(front(j), s[j + 1])
             v == front(j + 1)
  <2>1. j \in 1 .. L /\ j + 1 \in 1 .. L /\ s[j + 1] \in 1 .. N
    BY <1>a, <1>c
  <2>2. /\ u \in Seq(1 .. N) /\ Len(u) = j + 1 /\ u[j + 1] = s[j + 1]
        /\ \A k \in 1 .. j : u[k] = front(j)[k]
    <3> DEFINE w == front(j)
    <3>1. w \in Seq(1 .. N) /\ Len(w) = j
      BY <2>1, <1>2
    <3> HIDE DEF w
    <3>2. QED
      BY <2>1, <3>1, AppendProperties DEF w
  <2>3. v \in Seq(1 .. N) /\ Len(v) = j + 1 /\ \A k \in 1 .. j + 1 : v[k] = s[k]
    BY <2>1, <1>2
  <2>4. \A k \in 1 .. j + 1 : u[k] = v[k]
    <3> TAKE k \in 1 .. j + 1
    <3> HIDE DEF u, v
    <3>1. CASE k = j + 1
      BY <3>1, <2>2, <2>3
    <3>2. CASE k # j + 1
      <4>1. k \in 1 .. j
        BY <3>2
      <4>2. QED
        BY <4>1, <2>1, <2>2, <2>3, <1>2
    <3>3. QED
      BY <3>1, <3>2
  <2> HIDE DEF u, v
  <2>5. u = v
    BY <2>2, <2>3, <2>4, SeqEqual
  <2>6. QED
    BY <2>5 DEF u, v
<1>4. \A i \in 0 .. N : upto(i) \in 1 .. L
  BY <1>a
<1>5. front(1) = <<s[1]>>
  <2>1. 1 \in 1 .. L /\ s[1] \in 1 .. N
    BY <1>a, <1>c
  <2> DEFINE u == front(1)
  <2> HIDE DEF u
  <2>a. u \in Seq(1 .. N) /\ Len(u) = 1 /\ \A k \in 1 .. 1 : u[k] = s[k]
    BY <1>2, <2>1, Zenon DEF u
  <2>2. u \in Seq(1 .. N) /\ Len(u) = 1 /\ u[1] = s[1]
    BY <2>a
  <2>3. <<s[1]>> \in Seq(1 .. N) /\ Len(<<s[1]>>) = 1 /\ <<s[1]>>[1] = s[1]
    BY <2>1
  <2>4. u = <<s[1]>>
    BY <2>2, <2>3
  <2>5. QED
    BY <2>4 DEF u
<1>6. ASSUME NEW i \in 0 .. N, NEW g, i > 0 => g[i - 1] = front(upto(i - 1))
      PROVE  e(g, i) = front(upto(i))
  <2>1. CASE i = 0
    <3>1. upto(i) = 1
      BY <2>1, <1>a
    <3>2. QED
      BY <2>1, <3>1, <1>5
  <2>2. CASE i # 0
    <3> DEFINE t == g[i - 1]
               j == upto(i - 1)
    <3>1. i - 1 \in 0 .. N /\ t = front(j)
      BY <2>2, <1>6
    <3>2. j \in 1 .. L
      BY <3>1, <1>4
    <3>3. t[Len(t)] = s[j]
      <4> HIDE DEF t, j
      <4> QED
        BY <3>1, <3>2, <1>2
    <3>4. CASE j = L
      <4>1. pointer[t[Len(t)]] = NULL
        BY <3>3, <3>4, <1>e
      <4>2. e(g, i) = t
        BY <4>1, <2>2
      <4>3. upto(i) = L
        BY <3>1, <3>4, <2>2, <1>a
      <4>4. QED
        BY <4>2, <4>3, <3>1, <3>4
    <3>5. CASE j # L
      <4>1. j \in 1 .. L - 1 /\ j + 1 \in 1 .. L
        BY <3>2, <3>5, <1>a
      <4>2. pointer[t[Len(t)]] = s[j + 1] /\ s[j + 1] \in 1 .. N
        BY <4>1, <3>3, <1>c, <1>d
      <4>3. e(g, i) = Append(t, s[j + 1])
        <5> HIDE DEF t, j
        <5>1. pointer[t[Len(t)]] # NULL
          BY <4>2 DEF NULL
        <5>2. QED
          BY <4>2, <5>1, <2>2 DEF t
      <4>4. upto(i) = j + 1
        BY <3>1, <3>5, <2>2, <1>a
      <4>5. QED
        BY <4>1, <4>3, <4>4, <3>1, <1>3
    <3>6. QED
      BY <3>4, <3>5
  <2>3. QED
    BY <2>1, <2>2
<1> HIDE DEF e
<1>7. F = [i \in 0 .. N |-> e(F, i)]
  <2>1. \A i \in 0 .. N : F[i] = e(F, i)
    <3> TAKE i \in 0 .. N
    <3> HIDE DEF upto
    <3>1. i > 0 => i - 1 \in 0 .. N /\ F[i - 1] = front(upto(i - 1))
      OBVIOUS
    <3>2. F[i] = front(upto(i))
      OBVIOUS
    <3> HIDE DEF F
    <3>3. QED
      BY <1>6, <3>1, <3>2
  <2>2. F = [i \in 0 .. N |-> F[i]]
    OBVIOUS
  <2> HIDE DEF F
  <2>3. QED
    BY <2>1, <2>2
<1> HIDE DEF F
<1>8. f = [i \in 0 .. N |-> e(f, i)]
  <2>1. \E g : g = [i \in 0 .. N |-> e(g, i)]
    BY <1>7
  <2>2. QED
    BY ONLY <2>1, Zenon
<1> HIDE DEF f, upto
<1> DEFINE T == {i \in 0 .. N : f[i] # front(upto(i))}
<1>9. T = {}
  <2> SUFFICES ASSUME T # {} PROVE FALSE
    OBVIOUS
  <2>1. T \in SUBSET Nat /\ \A i \in T : i \in 0 .. N /\ f[i] # front(upto(i))
    OBVIOUS
  <2>2. PICK i \in T : \A y \in T : i <= y
    <3> HIDE DEF T
    <3> QED
      BY <2>1, Least
  <2>3. i > 0 => f[i - 1] = front(upto(i - 1))
    <3>1. i > 0 => i - 1 \in 0 .. N /\ ~(i <= i - 1)
      BY <2>1
    <3>2. QED
      BY <3>1, <2>2
  <2> HIDE DEF T
  <2>4. f[i] = e(f, i)
    BY <1>8, <2>1
  <2>5. QED
    BY <2>1, <2>2, <2>3, <2>4, <1>6
<1>10. f[N] = front(upto(N))
  BY <1>9
<1>11. front(upto(N)) = s
  <2>1. upto(N) = L
    BY <1>a DEF upto
  <2>2. QED
    BY <2>1, <1>b, SubSeqFull DEF front
<1>12. QED
  BY <1>1, <1>10, <1>11

\* e lists the n elements of P in ascending order.
Enumerates(P, n, e) ==
  /\ e \in [1 .. n -> P]
  /\ \A i, j \in 1 .. n : i < j => e[i] < e[j]
  /\ \A x \in P : \E i \in 1 .. n : e[i] = x
  /\ \A i \in 1 .. n : Cardinality({y \in P : y < e[i]}) = i - 1

\* A list of all elements but the least one is extended by that one.
LEMMA EnumeratedMore ==
  ASSUME NEW P \in SUBSET Nat, IsFiniteSet(P), NEW x \in P, \A y \in P : x <= y,
         NEW n \in Nat, n # 0, NEW d, Enumerates(P \ {x}, n - 1, d)
  PROVE  \E e : Enumerates(P, n, e)
<1> DEFINE e == [i \in 1 .. n |-> IF i = 1 THEN x ELSE d[i - 1]]
<1>0. x \in Nat /\ \A y \in P : y \in Nat /\ x <= y
  OBVIOUS
<1>1. \A i \in 1 .. n - 1 : d[i] \in P \ {x} /\ d[i] \in Nat /\ x < d[i]
  <2>1. d \in [1 .. n - 1 -> P \ {x}]
    BY DEF Enumerates
  <2>2. \A i \in 1 .. n - 1 : d[i] \in P /\ d[i] # x
    BY <2>1
  <2> TAKE i \in 1 .. n - 1
  <2>3. d[i] \in P /\ d[i] # x
    BY <2>2
  <2>4. d[i] \in Nat /\ x <= d[i]
    BY <2>3, <1>0
  <2>5. QED
    BY <2>3, <2>4, <1>0
<1>2. \A i \in 1 .. n : i # 1 => i - 1 \in 1 .. n - 1 /\ e[i] = d[i - 1]
  OBVIOUS
<1>3. 1 \in 1 .. n /\ e[1] = x
  OBVIOUS
<1>4. e \in [1 .. n -> P]
  BY <1>1
<1> HIDE DEF e
<1>5. \A i, j \in 1 .. n : i < j => e[i] < e[j]
  <2> SUFFICES ASSUME NEW i \in 1 .. n, NEW j \in 1 .. n, i < j PROVE e[i] < e[j]
    OBVIOUS
  <2>1. j # 1 /\ j - 1 \in 1 .. n - 1 /\ e[j] = d[j - 1]
    BY <1>2
  <2>2. CASE i = 1
    BY <2>1, <2>2, <1>1, <1>3
  <2>3. CASE i # 1
    <3>1. i - 1 \in 1 .. n - 1 /\ i - 1 < j - 1 /\ e[i] = d[i - 1]
      BY <2>3, <1>2
    <3>2. d[i - 1] < d[j - 1]
      BY <3>1, <2>1 DEF Enumerates
    <3>3. QED
      BY <3>1, <3>2, <2>1
  <2>4. QED
    BY <2>2, <2>3
<1>6. \A y \in P : \E i \in 1 .. n : e[i] = y
  <2> SUFFICES ASSUME NEW y \in P PROVE \E i \in 1 .. n : e[i] = y
    OBVIOUS
  <2>1. CASE y = x
    BY <2>1, <1>3
  <2>2. CASE y # x
    <3>1. PICK i \in 1 .. n - 1 : d[i] = y
      BY <2>2 DEF Enumerates
    <3>2. i + 1 \in 1 .. n /\ i + 1 # 1 /\ i + 1 - 1 = i
      OBVIOUS
    <3>3. e[i + 1] = y
      BY <3>1, <3>2, <1>2
    <3>4. QED
      BY <3>2, <3>3
  <2>3. QED
    BY <2>1, <2>2
<1>7. \A i \in 1 .. n : Cardinality({y \in P : y < e[i]}) = i - 1
  <2> SUFFICES ASSUME NEW i \in 1 .. n PROVE Cardinality({y \in P : y < e[i]}) = i - 1
    OBVIOUS
  <2>1. CASE i = 1
    <3>1. {y \in P : y < e[i]} = {}
      <4> SUFFICES ASSUME NEW y \in P, y < e[i] PROVE FALSE
        OBVIOUS
      <4>1. x \in Nat /\ y \in Nat /\ x <= y /\ y < x
        BY <2>1, <1>3, <1>0
      <4>2. QED
        BY <4>1
    <3>2. QED
      BY <3>1, <2>1, FS_EmptySet
  <2>2. CASE i # 1
    <3> DEFINE A == {y \in P \ {x} : y < d[i - 1]}
    <3>1. i - 1 \in 1 .. n - 1 /\ e[i] = d[i - 1]
      BY <2>2, <1>2
    <3>2. {y \in P : y < e[i]} = A \cup {x}
      BY <3>1, <1>1
    <3>3. Cardinality(A) = i - 1 - 1
      BY <3>1 DEF Enumerates
    <3>4. IsFiniteSet(A) /\ x \notin A
      BY FS_Subset
    <3> HIDE DEF A
    <3>5. Cardinality(A \cup {x}) = Cardinality(A) + 1
      BY <3>4, FS_AddElement
    <3>6. Cardinality(A \cup {x}) = i - 1
      BY <3>3, <3>5
    <3>7. QED
      BY <3>2, <3>6
  <2>3. QED
    BY <2>1, <2>2
<1>8. QED
  BY <1>4, <1>5, <1>6, <1>7 DEF Enumerates

\* The elements of a finite set of natural numbers can be listed in ascending order.
LEMMA Enumerated ==
  ASSUME NEW P \in SUBSET Nat, IsFiniteSet(P)
  PROVE  \E e : Enumerates(P, Cardinality(P), e)
<1> DEFINE Bad(Q, n) == /\ Q \in SUBSET Nat /\ IsFiniteSet(Q) /\ Cardinality(Q) = n
                        /\ ~ \E e : Enumerates(Q, n, e)
           U == {n \in Nat : \E Q : Bad(Q, n)}
<1>1. U = {}
  <2> SUFFICES ASSUME U # {} PROVE FALSE
    OBVIOUS
  <2>1. PICK n \in U : \A y \in U : n <= y
    <3> U \in SUBSET Nat
      OBVIOUS
    <3> HIDE DEF U
    <3> QED
      BY Least
  <2>2. n \in Nat /\ \E Q : Bad(Q, n)
    OBVIOUS
  <2>3. PICK Q : Bad(Q, n)
    <3> HIDE DEF Bad
    <3> QED
      BY <2>2
  <2>4. CASE Q = {}
    <3>1. n = 0
      BY <2>3, <2>4, FS_EmptySet
    <3> DEFINE e == [i \in 1 .. 0 |-> 0]
    <3>2. 1 .. 0 = {}
      OBVIOUS
    <3>3. Enumerates(Q, 0, e)
      BY <2>4, <3>2 DEF Enumerates
    <3>4. QED
      BY <3>1, <3>3, <2>3
  <2>5. CASE Q # {}
    <3>1. PICK x \in Q : \A y \in Q : x <= y
      BY <2>3, <2>5, Least
    <3>2. n # 0
      BY <2>3, <2>5, FS_EmptySet
    <3>3. IsFiniteSet(Q \ {x}) /\ Cardinality(Q \ {x}) = n - 1
      BY <2>3, FS_RemoveElement
    <3>4. n - 1 \in Nat /\ n - 1 \notin U
      <4> HIDE DEF U
      <4> QED
        BY <2>1, <2>2, <3>2
    <3>5. \E d : Enumerates(Q \ {x}, n - 1, d)
      <4>1. ~Bad(Q \ {x}, n - 1)
        <5> HIDE DEF Bad
        <5> QED
          BY <3>4
      <4>2. QED
        BY <4>1, <3>3, <2>3
    <3>6. \E e : Enumerates(Q, n, e)
      <4>1. Q \in SUBSET Nat /\ IsFiniteSet(Q)
        BY <2>3
      <4>2. PICK d : Enumerates(Q \ {x}, n - 1, d)
        BY <3>5
      <4>3. QED
        BY <4>1, <4>2, <3>1, <3>2, <2>2, EnumeratedMore
    <3>7. QED
      BY <3>6, <2>3
  <2>6. QED
    BY <2>4, <2>5
<1>2. Cardinality(P) \in Nat
  BY FS_CardinalityType
<1>3. ~Bad(P, Cardinality(P))
  <2> HIDE DEF Bad
  <2> QED
    BY <1>1, <1>2
<1>4. QED
  BY <1>3

\* s lists the blocks of S by ascending keys.
Lists(S, key, n, s) ==
  /\ s \in [1 .. n -> S]
  /\ \A i, j \in 1 .. n : i < j => key[s[i]] < key[s[j]]
  /\ \A b \in S : \E i \in 1 .. n : s[i] = b

\* Blocks of different keys can be listed.
LEMMA Listed ==
  ASSUME NEW N \in Nat, NEW S \in SUBSET (1 .. N), NEW key \in [S -> Nat],
         \A b, c \in S : key[b] = key[c] => b = c
  PROVE  \E n \in 0 .. N : \E s : Lists(S, key, n, s)
<1> DEFINE P == {key[b] : b \in S}
           n == Cardinality(P)
<1>1. IsFiniteSet(S) /\ Cardinality(S) \in Nat /\ Cardinality(S) <= N
  <2>1. IsFiniteSet(1 .. N) /\ Cardinality(1 .. N) = N
    BY FS_Interval
  <2>2. IsFiniteSet(S) /\ Cardinality(S) <= N
    <3>1. IsFiniteSet(S) /\ Cardinality(S) <= Cardinality(1 .. N)
      BY <2>1, FS_Subset, Zenon
    <3>2. QED
      BY <3>1, <2>1
  <2>3. QED
    BY <2>2, FS_CardinalityType
<1>2. key \in Surjection(S, P)
  BY DEF Surjection
<1>3. P \in SUBSET Nat
  OBVIOUS
<1>a. \A x \in P : \E b \in S : key[b] = x
  OBVIOUS
<1>b. \A b \in S : key[b] \in P
  OBVIOUS
<1> HIDE DEF P
<1>4. IsFiniteSet(P) /\ n \in 0 .. N
  <2>1. IsFiniteSet(P) /\ Cardinality(P) <= Cardinality(S)
    BY <1>1, <1>2, FS_Surjection
  <2>2. Cardinality(P) \in Nat
    BY <2>1, FS_CardinalityType
  <2>3. QED
    BY <2>1, <2>2, <1>1
<1>5. PICK e : Enumerates(P, n, e)
  BY <1>3, <1>4, Enumerated
<1> DEFINE s == [i \in 1 .. n |-> CHOOSE b \in S : key[b] = e[i]]
<1> HIDE DEF n
<1>6. \A i \in 1 .. n : s[i] \in S /\ key[s[i]] = e[i]
  <2> SUFFICES ASSUME NEW i \in 1 .. n PROVE s[i] \in S /\ key[s[i]] = e[i]
    OBVIOUS
  <2>1. e[i] \in P
    BY <1>5 DEF Enumerates
  <2>2. \E b \in S : key[b] = e[i]
    BY <2>1, <1>a
  <2>3. s[i] = CHOOSE b \in S : key[b] = e[i]
    OBVIOUS
  <2> HIDE DEF s
  <2>4. QED
    BY <2>2, <2>3
<1>7. s \in [1 .. n -> S]
  BY <1>6
<1> HIDE DEF s
<1>8. \A i, j \in 1 .. n : i < j => key[s[i]] < key[s[j]]
  <2>1. \A i, j \in 1 .. n : i < j => e[i] < e[j]
    BY <1>5 DEF Enumerates
  <2>2. QED
    BY <2>1, <1>6
<1>9. \A b \in S : \E i \in 1 .. n : s[i] = b
  <2>1. \A x \in P : \E i \in 1 .. n : e[i] = x
    BY <1>5 DEF Enumerates
  <2> TAKE b \in S
  <2>2. PICK i \in 1 .. n : e[i] = key[b]
    BY <2>1, <1>b
  <2>3. s[i] \in S /\ key[s[i]] = key[b]
    BY <2>2, <1>6
  <2>4. QED
    BY <2>3
<1>10. QED
  BY <1>4, <1>7, <1>8, <1>9 DEF Lists

\* The pointer of each of the blocks S, whose keys differ, leads to the one with the
\* next greater key; first has the least.
Ordered(N, S, pointer, key, first) ==
  /\ S \in SUBSET (1 .. N) /\ key \in [S -> Nat] /\ pointer \in [0 .. N -> 0 .. N]
  /\ \A b, c \in S : key[b] = key[c] => b = c
  /\ \A b \in S :
       IF pointer[b] = NULL THEN \A c \in S : key[c] <= key[b]
       ELSE /\ pointer[b] \in S /\ key[b] < key[pointer[b]]
            /\ \A c \in S : key[c] <= key[b] \/ key[pointer[b]] <= key[c]
  /\ first \in S /\ \A c \in S : key[first] <= key[c]

\* s is the list of the blocks of S by ascending keys, and the pointers follow it.
ListedAlong(S, pointer, key, s) ==
  /\ s \in Seq(S) /\ Len(s) > 0 /\ Members(s) = S
  /\ \A i, j \in 1 .. Len(s) : i < j => key[s[i]] < key[s[j]]
  /\ \A i \in 1 .. Len(s) : pointer[s[i]] = IF i = Len(s) THEN NULL ELSE s[i + 1]

\* Along lists the blocks of an ordered set.
LEMMA AlongOrdered ==
  ASSUME NEW N \in Nat, NEW S, NEW pointer, NEW key, NEW first,
         Ordered(N, S, pointer, key, first)
  PROVE  /\ ListedAlong(S, pointer, key, Along(first, pointer))
         /\ Along(first, pointer)[1] = first
<1>1. PICK L \in 0 .. N : \E s : Lists(S, key, L, s)
  <2>1. /\ S \in SUBSET (1 .. N) /\ key \in [S -> Nat]
        /\ \A b, c \in S : key[b] = key[c] => b = c
    BY DEF Ordered
  <2>2. QED
    BY <2>1, Listed
<1>2. PICK s : Lists(S, key, L, s)
  BY <1>1
<1>3. /\ L \in Nat /\ s \in [1 .. L -> S]
      /\ \A i, j \in 1 .. L : i < j => key[s[i]] < key[s[j]]
      /\ \A b \in S : \E i \in 1 .. L : s[i] = b
  BY <1>2 DEF Lists
<1>a. S \in SUBSET (1 .. N) /\ \A b \in S : key[b] \in Nat /\ key[first] <= key[b]
  BY DEF Ordered
<1>b. first \in S
  BY DEF Ordered
<1>4. \A i \in 1 .. L : s[i] \in S /\ s[i] \in 1 .. N /\ key[s[i]] \in Nat
  BY <1>3, <1>a
<1>5. L # 0 /\ L \in 1 .. N
  <2>1. PICK i \in 1 .. L : s[i] = first
    BY <1>3, <1>b
  <2>2. QED
    BY <2>1
<1>6. s[1] = first
  <2>1. PICK i \in 1 .. L : s[i] = first
    BY <1>3, <1>b
  <2>2. 1 \in 1 .. L /\ i \in Nat /\ (i # 1 => 1 < i)
    BY <1>5
  <2>3. i # 1 => key[s[1]] < key[first]
    BY <2>1, <2>2, <1>3
  <2>4. key[first] <= key[s[1]] /\ key[first] \in Nat /\ key[s[1]] \in Nat
    BY <2>2, <1>4, <1>a, <1>b
  <2>5. QED
    BY <2>1, <2>3, <2>4
<1>7. ASSUME NEW i \in 1 .. L - 1 PROVE pointer[s[i]] = s[i + 1]
  <2>1. i \in 1 .. L /\ i + 1 \in 1 .. L /\ i < i + 1
    BY <1>5
  <2>2. key[s[i]] < key[s[i + 1]] /\ key[s[i]] \in Nat /\ key[s[i + 1]] \in Nat
    BY <2>1, <1>3, <1>4
  <2> DEFINE p == pointer[s[i]]
  <2>3. p # NULL
    <3>1. p = NULL => key[s[i + 1]] <= key[s[i]]
      BY <2>1, <1>4 DEF Ordered
    <3>2. QED
      BY <3>1, <2>2
  <2>4. p \in S /\ key[s[i]] < key[p] /\ (key[s[i + 1]] <= key[s[i]] \/ key[p] <= key[s[i + 1]])
    BY <2>1, <2>3, <1>4 DEF Ordered
  <2>5. PICK j \in 1 .. L : s[j] = p
    BY <2>4, <1>3
  <2> HIDE DEF p
  <2>6. i < j
    <3>1. j < i => key[s[j]] < key[s[i]]
      BY <2>1, <1>3
    <3>2. QED
      BY <3>1, <2>4, <2>5, <2>1, <1>4, <1>a
  <2>7. ~(i + 1 < j)
    <3>1. i + 1 < j => key[s[i + 1]] < key[s[j]]
      BY <2>1, <1>3
    <3>2. key[s[j]] <= key[s[i + 1]] /\ key[s[j]] \in Nat
      BY <2>2, <2>4, <2>5, <1>a
    <3>3. QED
      BY <3>1, <3>2, <2>2
  <2>8. j = i + 1
    BY <2>6, <2>7
  <2>9. QED
    BY <2>5, <2>8 DEF p
<1>8. pointer[s[L]] = NULL
  <2> DEFINE p == pointer[s[L]]
  <2> SUFFICES ASSUME p # NULL PROVE FALSE
    OBVIOUS
  <2>1. L \in 1 .. L
    BY <1>5
  <2>2. p \in S /\ key[s[L]] < key[p]
    BY <2>1, <1>4 DEF Ordered
  <2>3. PICK j \in 1 .. L : s[j] = p
    BY <2>2, <1>3
  <2>4. j # L => key[s[j]] < key[s[L]]
    <3>1. j # L => j < L
      BY <1>5
    <3>2. QED
      BY <3>1, <2>1, <1>3
  <2> HIDE DEF p
  <2>5. QED
    BY <2>1, <2>2, <2>3, <2>4, <1>a, <1>4
<1>9. s \in [1 .. L -> 1 .. N]
  BY <1>3, <1>4
<1>10. Follows(pointer, N, s, L)
  <2>1. pointer \in [0 .. N -> 0 .. N]
    BY DEF Ordered
  <2>2. QED
    BY <2>1, <1>5, <1>7, <1>8, <1>9 DEF Follows
<1>11. Along(first, pointer) = s
  BY <1>10, <1>6, AlongIs
<1>12. s \in Seq(S) /\ Len(s) = L /\ DOMAIN s = 1 .. L
  BY <1>3, FunctionIsSeq
<1>13. Members(s) = S
  BY <1>3, <1>12 DEF Members
<1>14. ListedAlong(S, pointer, key, s)
  <2>1. \A i \in 1 .. Len(s) : pointer[s[i]] = IF i = Len(s) THEN NULL ELSE s[i + 1]
    <3> TAKE i \in 1 .. Len(s)
    <3>1. i # L => i \in 1 .. L - 1
      BY <1>12, <1>5
    <3>2. QED
      BY <3>1, <1>7, <1>8, <1>12
  <2>2. QED
    BY <2>1, <1>3, <1>5, <1>12, <1>13 DEF ListedAlong
<1>15. QED
  BY <1>6, <1>11, <1>14

\* The last block of an ordered set below a key.
LEMMA LastBelow ==
  ASSUME NEW S, NEW key \in [S -> Nat], NEW k \in Nat, NEW c \in S, key[c] < k
  PROVE  \E b \in S : key[b] < k /\ \A d \in S : key[d] < k => key[d] <= key[b]
<1> DEFINE T == {k - key[b] : b \in {d \in S : key[d] < k}}
<1>1. T \in SUBSET Nat /\ T # {}
  OBVIOUS
<1>2. PICK x \in T : \A y \in T : x <= y
  <2> HIDE DEF T
  <2> QED
    BY <1>1, Least
<1>3. PICK b \in S : key[b] < k /\ x = k - key[b]
  OBVIOUS
<1>4. ASSUME NEW d \in S, key[d] < k PROVE key[d] <= key[b]
  <2>1. k - key[d] \in T
    BY <1>4
  <2>2. x <= k - key[d]
    <3> HIDE DEF T
    <3> QED
      BY <2>1, <1>2
  <2>3. key[d] \in Nat /\ key[b] \in Nat
    OBVIOUS
  <2> HIDE DEF T
  <2>4. QED
    BY <2>2, <2>3, <1>3
<1>5. QED
  BY <1>3, <1>4

MnodeOf(N, K) ==
  [kind : {"mnode"}, next : 0 .. N, key : K \cup {0}, level : Nat, marked : BOOLEAN]
InodeOf(N, K) ==
  [kind : {"inode"}, right : 0 .. N, down : 0 .. N, intermed : 0 .. N, key : K \cup {0}]
Blocks(N, K) == MnodeOf(N, K) \cup InodeOf(N, K) \cup {Zeroed}

\* A memory whose pointers stay inside it.
Heap(h, K) == K \subseteq Nat /\ h \in Seq(Blocks(Len(h), K))

\* C are the mnodes of the chain: next leads to the next greater key.
Chained(h, C) ==
  /\ C \subseteq DOMAIN h /\ First \in C
  /\ \A c \in C : h[c].kind = "mnode"
  /\ \A c, d \in C : h[c].key = h[d].key => c = d
  /\ \A c \in C :
       IF h[c].next = NULL THEN \A d \in C : h[d].key <= h[c].key
       ELSE /\ h[c].next \in C /\ h[c].key < h[h[c].next].key
            /\ \A d \in C : h[d].key <= h[c].key \/ h[h[c].next].key <= h[d].key
  /\ h[First].key = 0 /\ ~h[First].marked

\* rank is the row of an inode that a search can come to, 0 for all other blocks.
Ranked(h, C, rank, n) ==
  /\ rank \in [Nat -> 0 .. n]
  /\ \A b \in Nat : rank[b] > 0 =>
       /\ b \in DOMAIN h /\ h[b].kind = "inode"
       /\ h[b].intermed \in C
       /\ h[h[b].intermed].key = h[b].key
       /\ rank[b] <= h[h[b].intermed].level
       /\ h[b].right # NULL =>
            rank[h[b].right] = rank[b] /\ h[b].key < h[h[b].right].key
       /\ IF rank[b] = 1 THEN h[b].down = NULL
          ELSE /\ h[b].down # NULL
               /\ rank[h[b].down] = rank[b] - 1 /\ h[h[b].down].key = h[b].key

\* I are the inodes that are in their rows: right leads to the next greater key.
Rowed(h, rank, I) ==
  /\ I \subseteq Nat /\ \A b \in I : rank[b] > 0
  /\ \A b, c \in I : rank[b] = rank[c] /\ h[b].key = h[c].key => b = c
  /\ \A b \in I :
       IF h[b].right = NULL THEN \A c \in I : rank[c] = rank[b] => h[c].key <= h[b].key
       ELSE /\ h[b].right \in I
            /\ \A c \in I : rank[c] = rank[b] =>
                 h[c].key <= h[b].key \/ h[h[b].right].key <= h[c].key

\* heads are the first inodes of the rows, lowest first.
Headed(h, rank, I, heads) ==
  /\ heads \in Seq(I) /\ heads # <<>>
  /\ \A r \in 1 .. Len(heads) :
       /\ rank[heads[r]] = r
       /\ h[heads[r]].key = 0
       /\ h[heads[r]].down = IF r = 1 THEN NULL ELSE heads[r - 1]

\* The index above the chain C.
Indexed(h, C, rank, I, heads) ==
  /\ Ranked(h, C, rank, Len(heads)) /\ Rowed(h, rank, I) /\ Headed(h, rank, I, heads)

KeysOf(h, C) == {h[c].key : c \in C}
-----------------------------------------------------------------------------
(* Blocks. *)

\* The kind of a block tells which of the three sets of blocks it is from.
LEMMA BlockKinds ==
  ASSUME NEW N, NEW K, NEW x \in Blocks(N, K)
  PROVE  /\ x.kind = "mnode" => x \in MnodeOf(N, K)
         /\ x.kind = "inode" => x \in InodeOf(N, K)
         /\ x.kind = "zero"  => x = Zeroed
         /\ x.kind \in {"mnode", "inode", "zero"}
<1>1. CASE x \in MnodeOf(N, K)
  BY <1>1 DEF MnodeOf
<1>2. CASE x \in InodeOf(N, K)
  BY <1>2 DEF InodeOf
<1>3. CASE x = Zeroed
  BY <1>3 DEF Zeroed
<1>4. QED
  BY <1>1, <1>2, <1>3 DEF Blocks

\* The fields of an mnode and their types.
LEMMA MnodeFields ==
  ASSUME NEW N, NEW K, NEW x \in MnodeOf(N, K)
  PROVE  /\ x.kind = "mnode" /\ x.next \in 0 .. N /\ x.key \in K \cup {0}
         /\ x.level \in Nat /\ x.marked \in BOOLEAN
         /\ x = [kind |-> x.kind, next |-> x.next, key |-> x.key, level |-> x.level,
                 marked |-> x.marked]
BY DEF MnodeOf

\* The fields of an inode and their types.
LEMMA InodeFields ==
  ASSUME NEW N, NEW K, NEW x \in InodeOf(N, K)
  PROVE  /\ x.kind = "inode" /\ x.right \in 0 .. N /\ x.down \in 0 .. N
         /\ x.intermed \in 0 .. N /\ x.key \in K \cup {0}
         /\ x = [kind |-> x.kind, right |-> x.right, down |-> x.down,
                 intermed |-> x.intermed, key |-> x.key]
BY DEF InodeOf

\* What a heap holds.
LEMMA HeapHolds ==
  ASSUME NEW h, NEW K, Heap(h, K)
  PROVE  /\ Len(h) \in Nat /\ DOMAIN h = 1 .. Len(h)
         /\ \A b \in 1 .. Len(h) :
              /\ h[b].kind \in {"mnode", "inode", "zero"}
              /\ h[b].kind = "mnode" =>
                   /\ h[b] \in MnodeOf(Len(h), K)
                   /\ h[b].next \in 0 .. Len(h) /\ h[b].key \in Nat
                   /\ h[b].level \in Nat /\ h[b].marked \in BOOLEAN
              /\ h[b].kind = "inode" =>
                   /\ h[b] \in InodeOf(Len(h), K)
                   /\ h[b].right \in 0 .. Len(h) /\ h[b].down \in 0 .. Len(h)
                   /\ h[b].intermed \in 0 .. Len(h) /\ h[b].key \in Nat
              /\ h[b].kind = "zero" => h[b] = Zeroed
<1> K \subseteq Nat
  BY DEF Heap
<1>1. Len(h) \in Nat /\ DOMAIN h = 1 .. Len(h)
  BY DEF Heap
<1>2. ASSUME NEW b \in 1 .. Len(h) PROVE h[b] \in Blocks(Len(h), K)
  BY DEF Heap
<1>3. ASSUME NEW b \in 1 .. Len(h)
      PROVE  /\ h[b].kind \in {"mnode", "inode", "zero"}
             /\ h[b].kind = "mnode" =>
                  /\ h[b] \in MnodeOf(Len(h), K)
                  /\ h[b].next \in 0 .. Len(h) /\ h[b].key \in Nat
                  /\ h[b].level \in Nat /\ h[b].marked \in BOOLEAN
             /\ h[b].kind = "inode" =>
                  /\ h[b] \in InodeOf(Len(h), K)
                  /\ h[b].right \in 0 .. Len(h) /\ h[b].down \in 0 .. Len(h)
                  /\ h[b].intermed \in 0 .. Len(h) /\ h[b].key \in Nat
             /\ h[b].kind = "zero" => h[b] = Zeroed
  <2>1. /\ h[b].kind = "mnode" => h[b] \in MnodeOf(Len(h), K)
        /\ h[b].kind = "inode" => h[b] \in InodeOf(Len(h), K)
        /\ h[b].kind = "zero"  => h[b] = Zeroed
        /\ h[b].kind \in {"mnode", "inode", "zero"}
    BY <1>2, BlockKinds
  <2>2. h[b].kind = "mnode" => /\ h[b].next \in 0 .. Len(h) /\ h[b].key \in Nat
                               /\ h[b].level \in Nat /\ h[b].marked \in BOOLEAN
    <3>1. h[b].kind = "mnode" => h[b].key \in K \cup {0}
      BY <2>1, MnodeFields
    <3>2. QED
      BY <2>1, <3>1, MnodeFields
  <2>3. h[b].kind = "inode" =>
          /\ h[b].right \in 0 .. Len(h) /\ h[b].down \in 0 .. Len(h)
          /\ h[b].intermed \in 0 .. Len(h) /\ h[b].key \in Nat
    <3>1. h[b].kind = "inode" => h[b].key \in K \cup {0}
      BY <2>1, InodeFields
    <3>2. QED
      BY <2>1, <3>1, InodeFields
  <2>4. QED
    BY <2>1, <2>2, <2>3
<1>4. QED
  BY <1>1, <1>3
-----------------------------------------------------------------------------
(* The sequences that the model computes. *)

\* The pointers of a memory stay inside it.
LEMMA PointersType ==
  ASSUME NEW K, Heap(mem, K)
  PROVE  /\ Pointers("mnode", "next") \in [0 .. Len(mem) -> 0 .. Len(mem)]
         /\ Pointers("inode", "right") \in [0 .. Len(mem) -> 0 .. Len(mem)]
         /\ Pointers("inode", "down") \in [0 .. Len(mem) -> 0 .. Len(mem)]
<1>1. Len(mem) \in Nat
  BY HeapHolds
<1>2. \A b \in 0 .. Len(mem) : b # NULL => b \in 1 .. Len(mem)
  BY <1>1 DEF NULL
<1>3. \A b \in 0 .. Len(mem) : b # NULL /\ mem[b].kind = "mnode" => mem[b].next \in 0 .. Len(mem)
  BY <1>2, HeapHolds
<1>4. \A b \in 0 .. Len(mem) : b # NULL /\ mem[b].kind = "inode" =>
        mem[b].right \in 0 .. Len(mem) /\ mem[b].down \in 0 .. Len(mem)
  BY <1>2, HeapHolds
<1>5. NULL \in 0 .. Len(mem)
  BY <1>1 DEF NULL
<1>6. Pointers("mnode", "next") \in [0 .. Len(mem) -> 0 .. Len(mem)]
  BY <1>3, <1>5 DEF Pointers
<1>7. Pointers("inode", "right") \in [0 .. Len(mem) -> 0 .. Len(mem)]
  BY <1>4, <1>5 DEF Pointers
<1>8. Pointers("inode", "down") \in [0 .. Len(mem) -> 0 .. Len(mem)]
  BY <1>4, <1>5 DEF Pointers
<1>9. QED
  BY <1>6, <1>7, <1>8

\* The sequence Chain lists C.
LEMMA ChainIs ==
  ASSUME NEW K, Heap(mem, K), NEW C, Chained(mem, C)
  PROVE  /\ Chain \in Seq(C) /\ Len(Chain) > 0 /\ Chain[1] = First /\ Members(Chain) = C
         /\ \A i, j \in 1 .. Len(Chain) : i < j => mem[Chain[i]].key < mem[Chain[j]].key
         /\ \A i \in 1 .. Len(Chain) :
              mem[Chain[i]].next = IF i = Len(Chain) THEN NULL ELSE Chain[i + 1]
<1> DEFINE N == Len(mem)
           pointer == Pointers("mnode", "next")
           key == [c \in C |-> mem[c].key]
<1>1. N \in Nat /\ DOMAIN mem = 1 .. N
  BY HeapHolds
<1>2. C \in SUBSET (1 .. N) /\ First \in C /\ \A c \in C : c \in 1 .. N /\ mem[c].kind = "mnode"
  BY <1>1 DEF Chained
<1>3. pointer \in [0 .. N -> 0 .. N]
  BY PointersType
<1>4. \A c \in C : pointer[c] = mem[c].next
  <2>1. \A c \in C : c \in 0 .. N /\ c # NULL
    BY <1>1, <1>2 DEF NULL
  <2>2. QED
    BY <1>2, <2>1 DEF Pointers
<1>5. \A c \in C : mem[c].key \in Nat
  BY <1>2, HeapHolds
<1>6. key \in [C -> Nat] /\ \A c \in C : key[c] = mem[c].key
  BY <1>5
<1> HIDE DEF key, pointer, N
<1>7. Ordered(N, C, pointer, key, First)
  <2>1. \A b, c \in C : key[b] = key[c] => b = c
    BY <1>6 DEF Chained
  <2>2. \A b \in C :
       IF pointer[b] = NULL THEN \A c \in C : key[c] <= key[b]
       ELSE /\ pointer[b] \in C /\ key[b] < key[pointer[b]]
            /\ \A c \in C : key[c] <= key[b] \/ key[pointer[b]] <= key[c]
    BY <1>4, <1>6 DEF Chained
  <2>3. \A c \in C : key[First] <= key[c]
    <3>1. mem[First].key = 0
      BY DEF Chained
    <3>2. QED
      BY <3>1, <1>2, <1>5, <1>6
  <2>4. QED
    BY <1>2, <1>3, <1>6, <2>1, <2>2, <2>3 DEF Ordered
<1>8. Chain = Along(First, pointer)
  BY DEF Chain, pointer
<1>9. ListedAlong(C, pointer, key, Chain) /\ Chain[1] = First
  BY <1>1, <1>7, <1>8, AlongOrdered
<1>10. Chain \in Seq(C) /\ Len(Chain) > 0 /\ Members(Chain) = C
  BY <1>9 DEF ListedAlong
<1>11. \A i \in 1 .. Len(Chain) : Chain[i] \in C
  BY <1>10
<1>12. \A i, j \in 1 .. Len(Chain) : i < j => mem[Chain[i]].key < mem[Chain[j]].key
  <2>1. \A i, j \in 1 .. Len(Chain) : i < j => key[Chain[i]] < key[Chain[j]]
    BY <1>9 DEF ListedAlong
  <2>2. QED
    BY <2>1, <1>6, <1>11
<1>13. \A i \in 1 .. Len(Chain) :
         mem[Chain[i]].next = IF i = Len(Chain) THEN NULL ELSE Chain[i + 1]
  <2>1. \A i \in 1 .. Len(Chain) :
          pointer[Chain[i]] = IF i = Len(Chain) THEN NULL ELSE Chain[i + 1]
    BY <1>9 DEF ListedAlong
  <2>2. QED
    BY <2>1, <1>4, <1>11
<1>14. QED
  BY <1>9, <1>10, <1>12, <1>13

InRow(I, rank, r) == {b \in I : rank[b] = r}

\* The sequence Row lists the inodes of a row.
LEMMA RowIs ==
  ASSUME NEW K, Heap(mem, K), NEW C, NEW rank, NEW I, NEW heads,
         Indexed(mem, C, rank, I, heads), NEW r \in 1 .. Len(heads)
  PROVE  /\ Row(heads[r]) \in Seq(InRow(I, rank, r))
         /\ Members(Row(heads[r])) = InRow(I, rank, r)
         /\ Ascending(Row(heads[r]))
<1> DEFINE N == Len(mem)
           pointer == Pointers("inode", "right")
           S == {b \in I : rank[b] = r}
           key == [b \in S |-> mem[b].key]
<1>1. N \in Nat /\ DOMAIN mem = 1 .. N
  BY HeapHolds
<1>2. \A b \in S : b \in 1 .. N /\ mem[b].kind = "inode" /\ mem[b].key \in Nat
  <2>1. \A b \in S : b \in Nat /\ rank[b] > 0
    BY DEF Indexed, Rowed
  <2>2. \A b \in S : b \in 1 .. N /\ mem[b].kind = "inode"
    BY <1>1, <2>1 DEF Indexed, Ranked
  <2>3. QED
    BY <2>2, HeapHolds
<1>3. pointer \in [0 .. N -> 0 .. N]
  BY PointersType
<1>4. \A b \in S : pointer[b] = mem[b].right
  <2>1. \A b \in S : b \in 0 .. N /\ b # NULL
    BY <1>1, <1>2 DEF NULL
  <2>2. QED
    BY <1>2, <2>1 DEF Pointers
<1>5. heads[r] \in S /\ mem[heads[r]].key = 0
  <2>1. heads[r] \in I
    BY DEF Indexed, Headed
  <2>2. QED
    BY <2>1 DEF Indexed, Headed
<1>6. \A b, c \in S : mem[b].key = mem[c].key => b = c
  BY DEF Indexed, Rowed
<1>7. \A b \in S :
       IF mem[b].right = NULL THEN \A c \in S : mem[c].key <= mem[b].key
       ELSE /\ mem[b].right \in S /\ mem[b].key < mem[mem[b].right].key
            /\ \A c \in S : mem[c].key <= mem[b].key \/ mem[mem[b].right].key <= mem[c].key
  <2> SUFFICES ASSUME NEW b \in S
               PROVE IF mem[b].right = NULL THEN \A c \in S : mem[c].key <= mem[b].key
                 ELSE /\ mem[b].right \in S /\ mem[b].key < mem[mem[b].right].key
                      /\ \A c \in S : mem[c].key <= mem[b].key \/ mem[mem[b].right].key <= mem[c].key
    OBVIOUS
  <2>1. b \in I /\ b \in Nat /\ rank[b] > 0 /\ rank[b] = r
    BY DEF Indexed, Rowed
  <2>2. mem[b].right # NULL => /\ rank[mem[b].right] = r
                               /\ mem[b].key < mem[mem[b].right].key
    BY <2>1 DEF Indexed, Ranked
  <2>3. mem[b].right # NULL => mem[b].right \in I
    BY <2>1 DEF Indexed, Rowed
  <2>4. \A c \in S : c \in I /\ rank[c] = rank[b]
    BY <2>1
  <2>5. mem[b].right = NULL => \A c \in S : mem[c].key <= mem[b].key
    BY <2>1, <2>4 DEF Indexed, Rowed
  <2>6. mem[b].right # NULL =>
          \A c \in S : mem[c].key <= mem[b].key \/ mem[mem[b].right].key <= mem[c].key
    BY <2>1, <2>4 DEF Indexed, Rowed
  <2>7. QED
    BY <2>2, <2>3, <2>5, <2>6
<1>8. key \in [S -> Nat] /\ \A b \in S : key[b] = mem[b].key
  BY <1>2
<1> HIDE DEF key, pointer, N, S
<1>9. Ordered(N, S, pointer, key, heads[r])
  <2>1. \A b, c \in S : key[b] = key[c] => b = c
    BY <1>6, <1>8
  <2>2. \A b \in S :
       IF pointer[b] = NULL THEN \A c \in S : key[c] <= key[b]
       ELSE /\ pointer[b] \in S /\ key[b] < key[pointer[b]]
            /\ \A c \in S : key[c] <= key[b] \/ key[pointer[b]] <= key[c]
    BY <1>4, <1>7, <1>8
  <2>3. \A c \in S : key[heads[r]] <= key[c]
    BY <1>2, <1>5, <1>8
  <2>4. S \in SUBSET (1 .. N)
    BY <1>2
  <2>5. QED
    BY <1>3, <1>5, <1>8, <2>1, <2>2, <2>3, <2>4 DEF Ordered
<1>10. Row(heads[r]) = Along(heads[r], pointer)
  BY DEF Row, pointer
<1> DEFINE s == Row(heads[r])
<1> HIDE DEF s
<1>11. ListedAlong(S, pointer, key, s)
  BY <1>1, <1>9, <1>10, AlongOrdered DEF s
<1>12. s \in Seq(S) /\ Members(s) = S /\ DOMAIN s = 1 .. Len(s)
  BY <1>11 DEF ListedAlong
<1>13. \A i, j \in DOMAIN s : i < j => mem[s[i]].key < mem[s[j]].key
  <2>1. \A i, j \in 1 .. Len(s) : i < j => key[s[i]] < key[s[j]]
    BY <1>11 DEF ListedAlong
  <2>2. \A i \in 1 .. Len(s) : s[i] \in S
    BY <1>12
  <2>3. QED
    BY <2>1, <2>2, <1>8, <1>12
<1>14. QED
  BY <1>12, <1>13 DEF s, S, InRow, Ascending

\* The last block of a row below a key, and its neighbour.
LEMMA BeforeIs ==
  ASSUME NEW K, Heap(mem, K), NEW C, NEW rank, NEW I, NEW heads,
         Indexed(mem, C, rank, I, heads), NEW r \in 1 .. Len(heads),
         NEW k \in Nat, k > 0
  PROVE  LET p == Before(Row(heads[r]), k)
         IN  /\ p \in I /\ rank[p] = r /\ mem[p].key < k
             /\ \A c \in I : rank[c] = r => mem[c].key <= mem[p].key \/ k <= mem[c].key
<1> DEFINE S == {b \in I : rank[b] = r}
           key == [b \in S |-> mem[b].key]
           Last(b) == /\ mem[b].key < k
                      /\ \A c \in S : mem[c].key < k => mem[c].key <= mem[b].key
           p == Before(Row(heads[r]), k)
<1>1. Members(Row(heads[r])) = S
  <2>1. Members(Row(heads[r])) = InRow(I, rank, r)
    BY RowIs
  <2>2. QED
    BY <2>1 DEF InRow
<1>2. \A b \in S : mem[b].key \in Nat
  <2>1. \A b \in S : b \in Nat /\ rank[b] > 0
    BY DEF Indexed, Rowed
  <2>2. DOMAIN mem = 1 .. Len(mem)
    BY HeapHolds
  <2>3. \A b \in S : b \in 1 .. Len(mem) /\ mem[b].kind = "inode"
    BY <2>1, <2>2 DEF Indexed, Ranked
  <2>4. QED
    BY <2>3, HeapHolds
<1>3. heads[r] \in S /\ mem[heads[r]].key = 0
  <2>1. heads[r] \in I
    BY DEF Indexed, Headed
  <2>2. QED
    BY <2>1 DEF Indexed, Headed
<1>4. key \in [S -> Nat] /\ \A b \in S : key[b] = mem[b].key
  BY <1>2
<1> HIDE DEF key
<1>5. \E b \in S : Last(b)
  <2> HIDE DEF S
  <2>1. heads[r] \in S /\ key[heads[r]] < k
    BY <1>3, <1>4
  <2>2. \E b \in S : key[b] < k /\ \A d \in S : key[d] < k => key[d] <= key[b]
    BY <1>4, <2>1, LastBelow
  <2>3. QED
    BY <2>2, <1>4
<1>6. p = CHOOSE b \in S : Last(b)
  BY <1>1 DEF Before
<1>7. p \in S /\ Last(p)
  <2> HIDE DEF Last, p, S
  <2> QED
    BY <1>5, <1>6
<1> HIDE DEF p
<1>8. \A c \in I : rank[c] = r => c \in S
  OBVIOUS
<1>9. \A c \in S : mem[c].key <= mem[p].key \/ k <= mem[c].key
  BY <1>2, <1>7
<1>10. p \in I /\ rank[p] = r /\ mem[p].key < k
  BY <1>7
<1>11. QED
  BY <1>8, <1>9, <1>10 DEF p

\* The sequence Column holds the first inodes.
LEMMA ColumnIs ==
  ASSUME NEW K, Heap(mem, K), NEW C, NEW rank, NEW I, NEW heads,
         Indexed(mem, C, rank, I, heads), heads[Len(heads)] = sentinel
  PROVE  Column = heads
<1> DEFINE N == Len(mem)
           L == Len(heads)
           pointer == Pointers("inode", "down")
           s == [i \in 1 .. L |-> heads[L + 1 - i]]
<1>1. N \in Nat /\ DOMAIN mem = 1 .. N
  BY HeapHolds
<1>2. heads \in Seq(I) /\ heads # <<>> /\ L \in Nat /\ L > 0
  BY DEF Indexed, Headed
<1>3. \A r \in 1 .. L : heads[r] \in I /\ rank[heads[r]] = r
  BY <1>2 DEF Indexed, Headed
<1>4. \A r \in 1 .. L : heads[r] \in 1 .. N /\ mem[heads[r]].kind = "inode"
  <2> TAKE r \in 1 .. L
  <2>1. heads[r] \in Nat /\ rank[heads[r]] > 0
    BY <1>3 DEF Indexed, Rowed
  <2>2. QED
    BY <1>1, <2>1 DEF Indexed, Ranked
<1>5. pointer \in [0 .. N -> 0 .. N]
  BY PointersType
<1>6. \A r \in 1 .. L : pointer[heads[r]] = IF r = 1 THEN NULL ELSE heads[r - 1]
  <2> TAKE r \in 1 .. L
  <2>1. heads[r] \in 0 .. N /\ heads[r] # NULL /\ mem[heads[r]].kind = "inode"
    BY <1>1, <1>4 DEF NULL
  <2>2. pointer[heads[r]] = mem[heads[r]].down
    BY <2>1 DEF Pointers
  <2>3. mem[heads[r]].down = IF r = 1 THEN NULL ELSE heads[r - 1]
    BY DEF Indexed, Headed
  <2>4. QED
    BY <2>2, <2>3
<1>7. L <= N
  <2> DEFINE f == [r \in 1 .. L |-> heads[r]]
  <2>1. f \in [1 .. L -> 1 .. N] /\ \A r \in 1 .. L : f[r] = heads[r]
    BY <1>4
  <2>2. \A q, r \in 1 .. L : heads[q] = heads[r] => q = r
    BY <1>3
  <2> HIDE DEF f, L, N
  <2>3. f \in Injection(1 .. L, 1 .. N)
    BY <2>1, <2>2 DEF Injection, IsInjective
  <2>4. IsFiniteSet(1 .. N) /\ Cardinality(1 .. N) = N /\ Cardinality(1 .. L) = L
    <3>1. IsFiniteSet(1 .. N) /\ Cardinality(1 .. N) = N
      BY <1>1, FS_Interval
    <3>2. L \in Nat
      BY <1>2 DEF L
    <3>3. Cardinality(1 .. L) = L
      BY <3>2, FS_Interval
    <3>4. QED
      BY <3>1, <3>3
  <2>5. Cardinality(1 .. L) <= Cardinality(1 .. N)
    BY <2>3, <2>4, FS_Injection
  <2>6. QED
    BY <2>4, <2>5
<1> HIDE DEF N, L, pointer
<1>8. \A i \in 1 .. L : L + 1 - i \in 1 .. L /\ L + 1 - (L + 1 - i) = i /\ s[i] = heads[L + 1 - i]
  BY <1>2
<1>9. s \in [1 .. L -> 1 .. N]
  BY <1>4, <1>8
<1>10. \A i \in 1 .. L - 1 : pointer[s[i]] = s[i + 1]
  <2> TAKE i \in 1 .. L - 1
  <2>1. i \in 1 .. L /\ i + 1 \in 1 .. L /\ L + 1 - i # 1 /\ (L + 1 - i) - 1 = L + 1 - (i + 1)
    BY <1>2
  <2>2. s[i] = heads[L + 1 - i] /\ s[i + 1] = heads[L + 1 - (i + 1)] /\ L + 1 - i \in 1 .. L
    BY <1>8, <2>1
  <2> HIDE DEF s
  <2> DEFINE j == L + 1 - i
  <2> HIDE DEF j
  <2>a. j \in 1 .. L /\ j # 1
    BY <2>1, <2>2 DEF j
  <2>b. pointer[heads[j]] = heads[j - 1]
    BY <1>6, <2>a
  <2>3. pointer[heads[L + 1 - i]] = heads[(L + 1 - i) - 1]
    BY <2>b, Zenon DEF j
  <2>4. QED
    BY <2>1, <2>2, <2>3
<1>11. pointer[s[L]] = NULL
  <2>1. L \in 1 .. L /\ L + 1 - L = 1 /\ 1 \in 1 .. L
    BY <1>2
  <2>2. s[L] = heads[1]
    BY <1>8, <2>1
  <2>3. QED
    BY <1>6, <2>1, <2>2
<1>12. Follows(pointer, N, s, L)
  <2>1. L \in 1 .. N
    BY <1>1, <1>2, <1>7
  <2> HIDE DEF s
  <2>2. QED
    BY <1>5, <1>9, <1>10, <1>11, <2>1 DEF Follows
<1>13. s[1] = sentinel
  <2>1. 1 \in 1 .. L /\ L + 1 - 1 = L
    BY <1>2
  <2>2. QED
    BY <1>8, <2>1 DEF L
<1>14. Along(sentinel, pointer) = s
  <2> HIDE DEF s
  <2> QED
    BY <1>1, <1>12, <1>13, AlongIs
<1>15. Column = [r \in 1 .. L |-> s[L + 1 - r]]
  <2>1. DOMAIN s = 1 .. L /\ Len(s) = L
    BY <1>2, <1>9, FunctionIsSeq
  <2> HIDE DEF s
  <2>2. QED
    BY <1>14, <2>1 DEF Column, pointer
<1>16. \A r \in 1 .. L : s[L + 1 - r] = heads[r]
  BY <1>8
<1>17. heads = [r \in 1 .. L |-> heads[r]]
  BY <1>2 DEF L
<1>18. QED
  <2> HIDE DEF s
  <2> QED
    BY <1>15, <1>16, <1>17

\* A block that the helper's search for k may come to.
OnPath(b, k, C, rank) ==
  \/ b \in C /\ mem[b].key <= k
  \/ b \in Nat /\ rank[b] > 0 /\ mem[b].key < k

\* c is in a lower row than b, or beyond it in the same row.
After(b, c, rank) ==
  \/ rank[c] < rank[b]
  \/ rank[c] = rank[b] /\ mem[b].key < mem[c].key

\* What the index says of a block that a search can come to.
LEMMA RankedBlock ==
  ASSUME NEW K, NEW h, Heap(h, K), NEW C, NEW rank, NEW I, NEW heads,
         Indexed(h, C, rank, I, heads), NEW b \in Nat, rank[b] > 0
  PROVE  /\ rank[b] \in Nat /\ b \in 1 .. Len(h) /\ h[b].kind = "inode" /\ h[b].key \in Nat
         /\ h[b].intermed \in C /\ h[h[b].intermed].key = h[b].key
         /\ h[b].right # NULL => /\ h[b].right \in Nat /\ rank[h[b].right] = rank[b]
                                 /\ h[b].key < h[h[b].right].key
         /\ h[b].down # NULL => /\ h[b].down \in Nat /\ rank[b] > 1
                                /\ rank[h[b].down] = rank[b] - 1
                                /\ h[h[b].down].key = h[b].key
         /\ h[b].down = NULL <=> rank[b] = 1
<1>1. DOMAIN h = 1 .. Len(h) /\ Len(h) \in Nat
  BY HeapHolds
<1>2. Ranked(h, C, rank, Len(heads))
  BY DEF Indexed
<1>3. rank[b] \in Nat
  <2>1. rank[b] \in 0 .. Len(heads)
    BY <1>2 DEF Ranked
  <2>2. QED
    BY <2>1
<1>4. b \in 1 .. Len(h) /\ h[b].kind = "inode"
  BY <1>1, <1>2 DEF Ranked
<1>5. h[b].key \in Nat /\ h[b].right \in 0 .. Len(h) /\ h[b].down \in 0 .. Len(h)
  BY <1>4, HeapHolds
<1>6. h[b].right \in Nat /\ h[b].down \in Nat
  BY <1>1, <1>5
<1>7. h[b].right # NULL => rank[h[b].right] = rank[b] /\ h[b].key < h[h[b].right].key
  BY <1>2 DEF Ranked
<1>8. IF rank[b] = 1 THEN h[b].down = NULL
          ELSE /\ h[b].down # NULL
               /\ rank[h[b].down] = rank[b] - 1 /\ h[h[b].down].key = h[b].key
  BY <1>2 DEF Ranked
<1>9. h[b].intermed \in C /\ h[h[b].intermed].key = h[b].key
  BY <1>2 DEF Ranked
<1>10. QED
  BY <1>3, <1>4, <1>5, <1>6, <1>7, <1>8, <1>9

\* What the chain says of one of its mnodes.
LEMMA ChainBlock ==
  ASSUME NEW K, NEW h, Heap(h, K), NEW C, Chained(h, C), NEW c \in C
  PROVE  /\ c \in 1 .. Len(h) /\ c \in Nat /\ h[c].kind = "mnode" /\ h[c].key \in Nat
         /\ h[c].level \in Nat /\ h[c].marked \in BOOLEAN /\ h[c].next \in 0 .. Len(h)
         /\ h[c].next # NULL => h[c].next \in C /\ h[c].key < h[h[c].next].key
         /\ \A d \in C : h[d].key = h[c].key => d = c
<1>1. DOMAIN h = 1 .. Len(h) /\ Len(h) \in Nat
  BY HeapHolds
<1>2. c \in 1 .. Len(h) /\ h[c].kind = "mnode"
  BY <1>1 DEF Chained
<1>3. /\ h[c].key \in Nat /\ h[c].level \in Nat /\ h[c].marked \in BOOLEAN
      /\ h[c].next \in 0 .. Len(h)
  BY <1>2, HeapHolds
<1>4. h[c].next # NULL => h[c].next \in C /\ h[c].key < h[h[c].next].key
  BY DEF Chained
<1>5. \A d \in C : h[d].key = h[c].key => d = c
  BY DEF Chained
<1>6. QED
  BY <1>1, <1>2, <1>3, <1>4, <1>5

\* A block that is not an inode is in no row.
LEMMA ChainUnranked ==
  ASSUME NEW h, NEW C, Chained(h, C), NEW rank, NEW n \in Nat, Ranked(h, C, rank, n),
         NEW c \in Nat, c \notin DOMAIN h \/ h[c].kind # "inode"
  PROVE  rank[c] = 0
<1>1. rank[c] \in 0 .. n /\ ~(rank[c] > 0)
  BY DEF Ranked
<1>2. QED
  BY <1>1

\* A step of the helper's search.
LEMMA OnwardStep ==
  ASSUME NEW K, Heap(mem, K), NEW C, Chained(mem, C), NEW rank, NEW I, NEW heads,
         Indexed(mem, C, rank, I, heads), NEW k \in Nat, k > 0,
         NEW b, OnPath(b, k, C, rank)
  PROVE  LET c == Onward(k)[b]
         IN  /\ OnPath(c, k, C, rank) /\ b \in 1 .. Len(mem)
             /\ c # b => After(b, c, rank)
             /\ c = b => b \in C /\ (mem[b].next # NULL => k < mem[mem[b].next].key)
<1> DEFINE N == Len(mem)
           c == Onward(k)[b]
<1>1. N \in Nat /\ DOMAIN mem = 1 .. N
  BY HeapHolds
<1>2. Ranked(mem, C, rank, Len(heads)) /\ Len(heads) \in Nat
  BY DEF Indexed, Headed
<1>3. \A d \in C : rank[d] = 0
  <2> TAKE d \in C
  <2>1. d \in Nat /\ mem[d].kind = "mnode"
    BY ChainBlock
  <2>2. QED
    BY <1>2, <2>1, ChainUnranked
<1>4. CASE b \in C /\ mem[b].key <= k
  <2> DEFINE n == mem[b].next
  <2>1. b \in 1 .. N /\ mem[b].kind = "mnode" /\ mem[b].key \in Nat
    BY <1>4, ChainBlock
  <2>2. c = IF n # NULL /\ mem[n].key <= k THEN n ELSE b
    BY <1>1, <2>1 DEF Onward
  <2>3. n # NULL => n \in C /\ mem[b].key < mem[n].key /\ mem[n].key \in Nat
    <3>1. n # NULL => n \in C /\ mem[b].key < mem[n].key
      BY <1>4, ChainBlock
    <3>2. n \in C => mem[n].key \in Nat
      BY ChainBlock
    <3>3. QED
      BY <3>1, <3>2
  <2> HIDE DEF n, c
  <2>4. CASE n # NULL /\ mem[n].key <= k
    <3>1. c = n /\ n \in C /\ c # b /\ rank[c] = rank[b]
      BY <2>1, <2>2, <2>3, <2>4, <1>3, <1>4
    <3>2. OnPath(c, k, C, rank) /\ After(b, c, rank)
      BY <3>1, <2>3, <2>4 DEF OnPath, After
    <3>3. QED
      BY <3>1, <3>2, <2>1 DEF c, N
  <2>5. CASE ~(n # NULL /\ mem[n].key <= k)
    <3>1. c = b /\ (n # NULL => k < mem[n].key)
      BY <2>2, <2>3, <2>5
    <3>2. QED
      BY <3>1, <2>1, <1>4 DEF c, n, N, OnPath
  <2>6. QED
    BY <2>4, <2>5
<1>5. CASE b \in Nat /\ rank[b] > 0 /\ mem[b].key < k
  <2> DEFINE r == mem[b].right
             d == mem[b].down
             m == mem[b].intermed
  <2>1. /\ rank[b] \in Nat /\ b \in 1 .. N /\ mem[b].kind = "inode" /\ mem[b].key \in Nat
        /\ m \in C /\ mem[m].key = mem[b].key
        /\ r # NULL => r \in Nat /\ rank[r] = rank[b] /\ mem[b].key < mem[r].key
        /\ d # NULL => /\ d \in Nat /\ rank[b] > 1 /\ rank[d] = rank[b] - 1
                       /\ mem[d].key = mem[b].key
    BY <1>5, RankedBlock
  <2>2. r # NULL => mem[r].key \in Nat
    BY <1>5, <2>1, RankedBlock
  <2>3. c = CASE r # NULL /\ mem[r].key = k -> m
              [] r # NULL /\ mem[r].key < k -> r
              [] (r # NULL => mem[r].key > k) /\ d = NULL -> m
              [] OTHER -> d
    <3>1. "inode" # "mnode"
      OBVIOUS
    <3>2. QED
      BY <1>1, <2>1, <3>1, Zenon DEF Onward
  <2> HIDE DEF r, d, m, c, N
  <2>4. c = m \/ (c = r /\ r # NULL /\ mem[r].key < k) \/ (c = d /\ d # NULL)
    BY <2>2, <2>3
  <2>5. CASE c = m
    <3>1. rank[m] = 0 /\ rank[m] < rank[b] /\ m # b
      BY <2>1, <1>3, <1>5
    <3>2. QED
      BY <3>1, <2>1, <2>5, <1>5 DEF OnPath, After, c, N
  <2>6. CASE c = r /\ r # NULL /\ mem[r].key < k
    <3>1. rank[r] = rank[b] /\ r # b /\ r \in Nat /\ mem[b].key < mem[r].key
      BY <2>1, <2>6
    <3>2. QED
      BY <3>1, <2>1, <2>6, <1>5 DEF OnPath, After, c, N
  <2>7. CASE c = d /\ d # NULL
    <3>1. rank[d] > 0 /\ rank[d] < rank[b] /\ d # b /\ d \in Nat /\ mem[d].key < k
      BY <2>1, <2>7, <1>5
    <3>2. QED
      BY <3>1, <2>1, <2>7, <1>5 DEF OnPath, After, c, N
  <2>8. QED
    BY <2>4, <2>5, <2>6, <2>7
<1>6. QED
  BY <1>4, <1>5 DEF OnPath

\* The search for k comes to no block twice, so it has ended after as many steps as
\* there are blocks: at the mnode of k, or at the one before its place.
LEMMA DescendIs ==
  ASSUME NEW K, Heap(mem, K), NEW C, Chained(mem, C), NEW rank, NEW I, NEW heads,
         Indexed(mem, C, rank, I, heads), heads[Len(heads)] = sentinel,
         NEW k \in Nat, k > 0
  PROVE  LET m == Descend(k)
         IN  /\ m \in C /\ mem[m].key <= k
             /\ mem[m].next # NULL => k < mem[mem[m].next].key
<1> DEFINE N == Len(mem)
           S == {b \in 1 .. N : OnPath(b, k, C, rank)}
           F == Onward(k)
           e(g, i) == IF i = 0 THEN sentinel ELSE F[g[i - 1]]
           f == CHOOSE g : g = [i \in 0 .. N |-> e(g, i)]
<1>1. N \in Nat
  BY HeapHolds
<1>2. \A b \in S : F[b] \in S
  <2> TAKE b \in S
  <2>1. OnPath(F[b], k, C, rank)
    BY OnwardStep
  <2>2. F[b] \in 1 .. N
    BY <2>1, OnwardStep
  <2>3. QED
    BY <2>1, <2>2
<1>3. sentinel \in S
  <2>1. Len(heads) \in 1 .. Len(heads) /\ sentinel \in I
    BY DEF Indexed, Headed
  <2>2. rank[sentinel] > 0 /\ mem[sentinel].key = 0 /\ sentinel \in Nat
    BY <2>1 DEF Indexed, Headed, Rowed
  <2>3. sentinel \in 1 .. N
    BY <2>2, RankedBlock
  <2>4. QED
    BY <2>2, <2>3 DEF OnPath
<1>4. Descend(k) = f[N]
  BY Zenon DEF Descend
<1>s. \A b \in S : b \in 1 .. N /\ OnPath(b, k, C, rank)
  OBVIOUS
<1> HIDE DEF F, S, N
<1>5. f = [i \in 0 .. N |-> e(f, i)]
  <2> DEFINE G == [b \in S |-> F[b]]
  <2>1. G \in [S -> S] /\ \A b \in S : G[b] = F[b]
    BY <1>2
  <2> HIDE DEF G
  <2>2. PICK p \in [0 .. N -> S] : p[0] = sentinel /\ \A i \in 1 .. N : p[i] = G[p[i - 1]]
    <3>1. \E p : Iterated(S, G, sentinel, N, p)
      BY <1>1, <1>3, <2>1, Iterates
    <3>2. QED
      BY <3>1 DEF Iterated
  <2>3. \A i \in 0 .. N : p[i] = e(p, i)
    <3> TAKE i \in 0 .. N
    <3>1. CASE i = 0
      BY <3>1, <2>2
    <3>2. CASE i # 0
      <4>1. i \in 1 .. N /\ i - 1 \in 0 .. N
        BY <3>2, <1>1
      <4>2. p[i - 1] \in S
        BY <4>1
      <4>3. p[i] = F[p[i - 1]]
        BY <4>1, <4>2, <2>1, <2>2
      <4>4. QED
        BY <3>2, <4>3
    <3>3. QED
      BY <3>1, <3>2
  <2> HIDE DEF e
  <2>4. p = [i \in 0 .. N |-> e(p, i)]
    BY <2>3
  <2>5. \E g : g = [i \in 0 .. N |-> e(g, i)]
    BY <2>4
  <2>6. QED
    BY ONLY <2>5, Zenon
<1> HIDE DEF f
<1>6. f[0] = sentinel /\ \A i \in 1 .. N : f[i] = F[f[i - 1]]
  <2>1. \A i \in 0 .. N : f[i] = e(f, i)
    <3> HIDE DEF e
    <3> QED
      BY <1>5
  <2>2. 0 \in 0 .. N /\ \A i \in 1 .. N : i \in 0 .. N /\ i # 0
    BY <1>1
  <2>3. QED
    BY <2>1, <2>2
<1>7. \A i \in 0 .. N : f[i] \in S
  <2> DEFINE T == {i \in 0 .. N : f[i] \notin S}
  <2> SUFFICES ASSUME T # {} PROVE FALSE
    OBVIOUS
  <2>1. T \in SUBSET Nat
    BY <1>1
  <2>2. PICK i \in T : \A y \in T : i <= y
    <3> HIDE DEF T
    <3> QED
      BY <2>1, Least
  <2>3. i # 0 /\ i \in 1 .. N /\ i - 1 \in 0 .. N /\ ~(i <= i - 1)
    BY <1>1, <1>3, <1>6
  <2>4. f[i - 1] \in S
    BY <2>2, <2>3
  <2>5. QED
    BY <2>3, <2>4, <1>2, <1>6
<1>8. \A b \in S : /\ rank[b] \in Nat /\ mem[b].key \in Nat
                   /\ F[b] # b => After(b, F[b], rank)
                   /\ F[b] = b =>
                        b \in C /\ (mem[b].next # NULL => k < mem[mem[b].next].key)
  <2> TAKE b \in S
  <2>1. OnPath(b, k, C, rank)
    BY <1>s
  <2>2. rank[b] \in Nat /\ mem[b].key \in Nat
    <3>1. CASE b \in C
      <4>1. b \in Nat /\ mem[b].kind = "mnode" /\ mem[b].key \in Nat
        BY <3>1, ChainBlock
      <4>2. Ranked(mem, C, rank, Len(heads)) /\ Len(heads) \in Nat
        BY DEF Indexed, Headed
      <4>3. rank[b] = 0
        BY <4>1, <4>2, ChainUnranked
      <4>4. QED
        BY <4>1, <4>3
    <3>2. CASE b \in Nat /\ rank[b] > 0
      BY <3>2, RankedBlock
    <3>3. QED
      BY <2>1, <3>1, <3>2 DEF OnPath
  <2>3. QED
    BY <2>1, <2>2, OnwardStep DEF F
<1>9. ASSUME F[f[N]] # f[N] PROVE FALSE
  <2>1. \A i \in 0 .. N : F[f[i]] # f[i]
    <3> DEFINE T == {x \in 0 .. N : F[f[N - x]] = f[N - x]}
    <3>1. T = {}
      <4> SUFFICES ASSUME T # {} PROVE FALSE
        OBVIOUS
      <4>1. T \in SUBSET Nat
        BY <1>1
      <4>2. PICK x \in T : \A y \in T : x <= y
        <5> HIDE DEF T
        <5> QED
          BY <4>1, Least
      <4>3. x \in 0 .. N /\ F[f[N - x]] = f[N - x]
        OBVIOUS
      <4>4. x # 0
        BY <4>3, <1>9, <1>1
      <4>5. x - 1 \in 0 .. N /\ ~(x <= x - 1) /\ N - (x - 1) \in 1 .. N
            /\ (N - (x - 1)) - 1 = N - x
        BY <4>3, <4>4, <1>1
      <4>6. f[N - (x - 1)] = F[f[N - x]]
        BY <4>5, <1>6
      <4>7. x - 1 \in T
        BY <4>3, <4>5, <4>6
      <4>8. QED
        BY <4>2, <4>5, <4>7
    <3>2. \A i \in 0 .. N : N - i \in 0 .. N /\ N - (N - i) = i
      BY <1>1
    <3>3. QED
      BY <3>1, <3>2
  <2>2. \A j \in 0 .. N : \A i \in 0 .. j - 1 : After(f[i], f[j], rank)
    <3> DEFINE T == {j \in 0 .. N : ~ \A i \in 0 .. j - 1 : After(f[i], f[j], rank)}
    <3>1. T = {}
      <4> SUFFICES ASSUME T # {} PROVE FALSE
        OBVIOUS
      <4>1. T \in SUBSET Nat
        BY <1>1
      <4>2. PICK j \in T : \A y \in T : j <= y
        <5> HIDE DEF T
        <5> QED
          BY <4>1, Least
      <4>3. PICK i \in 0 .. j - 1 : ~After(f[i], f[j], rank)
        OBVIOUS
      <4>4. j \in 1 .. N /\ j - 1 \in 0 .. N /\ ~(j <= j - 1) /\ i \in 0 .. N
        BY <1>1
      <4>5. After(f[j - 1], f[j], rank)
        <5>1. f[j - 1] \in S /\ F[f[j - 1]] # f[j - 1] /\ f[j] = F[f[j - 1]]
          BY <4>4, <1>6, <1>7, <2>1
        <5>2. QED
          BY <5>1, <1>8
      <4>6. i # j - 1
        BY <4>3, <4>5
      <4>7. i \in 0 .. (j - 1) - 1 /\ j - 1 \notin T
        BY <4>2, <4>4, <4>6
      <4>8. After(f[i], f[j - 1], rank)
        BY <4>4, <4>7
      <4>9. f[i] \in S /\ f[j - 1] \in S /\ f[j] \in S
        BY <4>4, <1>7
      <4>10. After(f[i], f[j], rank)
        BY <4>5, <4>8, <4>9, <1>8, SMTT(30) DEF After
      <4>11. QED
        BY <4>3, <4>10
    <3>2. QED
      BY <3>1
  <2>3. \A i, j \in 0 .. N : f[i] = f[j] => i = j
    <3> SUFFICES ASSUME NEW i \in 0 .. N, NEW j \in 0 .. N, f[i] = f[j], i < j PROVE FALSE
      <4>1. \A i, j \in 0 .. N : i < j \/ j < i \/ i = j
        BY <1>1
      <4>2. QED
        BY <4>1
    <3>1. i \in 0 .. j - 1
      BY <1>1
    <3>2. After(f[i], f[i], rank)
      BY <3>1, <2>2
    <3>3. f[i] \in S
      BY <1>7
    <3>4. QED
      BY <3>2, <3>3, <1>8 DEF After
  <2> DEFINE g == [i \in 0 .. N |-> f[i]]
  <2>4. g \in [0 .. N -> 1 .. N] /\ \A i \in 0 .. N : g[i] = f[i]
    BY <1>7, <1>s
  <2> HIDE DEF g
  <2>5. IsFiniteSet(0 .. N) /\ Cardinality(0 .. N) = N + 1
    BY <1>1, FS_Interval
  <2>6. IsFiniteSet(1 .. N) /\ Cardinality(1 .. N) = N
    BY <1>1, FS_Interval
  <2>7. Cardinality(1 .. N) < Cardinality(0 .. N)
    BY <2>5, <2>6, <1>1
  <2>8. \E x, y \in 0 .. N : x # y /\ g[x] = g[y]
    <3> DEFINE A == 0 .. N
               B == 1 .. N
    <3>1. IsFiniteSet(A) /\ IsFiniteSet(B) /\ Cardinality(B) < Cardinality(A) /\ g \in [A -> B]
      BY <2>4, <2>5, <2>6, <2>7
    <3> HIDE DEF A, B
    <3>2. \E x, y \in A : x # y /\ g[x] = g[y]
      BY <3>1, FS_PigeonHole
    <3>3. QED
      BY <3>2 DEF A
  <2>9. QED
    BY <2>3, <2>4, <2>8
<1>10. f[N] \in S /\ F[f[N]] = f[N]
  <2>1. N \in 0 .. N
    BY <1>1
  <2>2. QED
    BY <2>1, <1>7, <1>9
<1>11. f[N] \in C /\ mem[f[N]].key <= k
  <2>1. f[N] \in C
    BY <1>8, <1>10
  <2>2. OnPath(f[N], k, C, rank)
    BY <1>10, <1>s
  <2>3. f[N] \in Nat /\ mem[f[N]].kind = "mnode"
    BY <2>1, ChainBlock
  <2>4. Ranked(mem, C, rank, Len(heads)) /\ Len(heads) \in Nat
    BY DEF Indexed, Headed
  <2>5. rank[f[N]] = 0
    BY <2>3, <2>4, ChainUnranked
  <2>6. QED
    BY <2>1, <2>2, <2>5 DEF OnPath
<1>12. QED
  BY <1>4, <1>8, <1>10, <1>11

-----------------------------------------------------------------------------
(* What the stores of the helper do to the chain.                          *)

\* The chain is the same where its mnodes keep their keys and pointers.
LEMMA ChainedSame ==
  ASSUME NEW h, NEW g, NEW C, Chained(h, C), DOMAIN h \subseteq DOMAIN g,
         \A c \in C : g[c].kind = h[c].kind /\ g[c].next = h[c].next /\ g[c].key = h[c].key,
         ~g[First].marked
  PROVE  Chained(g, C)
<1>1. First \in C /\ C \subseteq DOMAIN g
  BY DEF Chained
<1>2. \A c \in C : g[c].kind = "mnode"
  BY DEF Chained
<1>3. \A c, d \in C : g[c].key = g[d].key => c = d
  BY DEF Chained
<1>4. g[First].key = 0
  BY <1>1 DEF Chained
<1>5. ASSUME NEW c \in C
      PROVE  IF g[c].next = NULL THEN \A d \in C : g[d].key <= g[c].key
             ELSE /\ g[c].next \in C /\ g[c].key < g[g[c].next].key
                  /\ \A d \in C : g[d].key <= g[c].key \/ g[g[c].next].key <= g[d].key
  <2>1. IF h[c].next = NULL THEN \A d \in C : h[d].key <= h[c].key
        ELSE /\ h[c].next \in C /\ h[c].key < h[h[c].next].key
             /\ \A d \in C : h[d].key <= h[c].key \/ h[h[c].next].key <= h[d].key
    BY DEF Chained
  <2>2. g[c].next = h[c].next /\ g[c].key = h[c].key
    OBVIOUS
  <2>3. QED
    BY <2>1, <2>2
<1>6. QED
  BY <1>1, <1>2, <1>3, <1>4, <1>5 DEF Chained

\* An mnode f of a new key enters the chain after m.
LEMMA ChainedMore ==
  ASSUME NEW K, NEW h, NEW g, Heap(h, K), NEW C, Chained(h, C), DOMAIN h \subseteq DOMAIN g,
         NEW m \in C, NEW k \in Nat, h[m].key < k,
         h[m].next # NULL => k < h[h[m].next].key,
         NEW f \in DOMAIN g, f # NULL, f \notin C, g[f] = Mnode(h[m].next, k),
         g[m] = [h[m] EXCEPT !.next = f], \A c \in C : c # m => g[c] = h[c]
  PROVE  Chained(g, C \cup {f})
<1> DEFINE n == h[m].next
           D == C \cup {f}
<1>1. \A c \in C : h[c].kind = "mnode" /\ h[c].key \in Nat /\ c \in DOMAIN g
  <2> TAKE c \in C
  <2>1. h[c].kind = "mnode" /\ h[c].key \in Nat
    BY ChainBlock
  <2>2. QED
    BY <2>1 DEF Chained
<1>2. n # NULL => n \in C /\ h[m].key < h[n].key
  BY ChainBlock
<1>3. \A c \in C : h[c].key # k /\ (h[c].key < k => h[c].key <= h[m].key)
                   /\ (k < h[c].key => n # NULL /\ h[n].key <= h[c].key)
  <2> TAKE c \in C
  <2>1. IF n = NULL THEN h[c].key <= h[m].key
        ELSE h[c].key <= h[m].key \/ h[n].key <= h[c].key
    BY DEF Chained
  <2>2. n # NULL => h[n].key \in Nat
    BY <1>1, <1>2
  <2> HIDE DEF n
  <2>3. h[c].key \in Nat /\ h[m].key \in Nat
    BY <1>1
  <2>4. n # NULL => k < h[n].key
    BY DEF n
  <2>5. QED
    BY <2>1, <2>2, <2>3, <2>4
<1>4. h[m] \in MnodeOf(Len(h), K)
  <2>1. m \in 1 .. Len(h) /\ h[m].kind = "mnode"
    BY ChainBlock
  <2>2. QED
    BY <2>1, HeapHolds
<1>5. /\ g[m].kind = "mnode" /\ g[m].next = f /\ g[m].key = h[m].key
      /\ g[m].marked = h[m].marked
  BY <1>4 DEF MnodeOf
<1>6. /\ g[f].kind = "mnode" /\ g[f].next = n /\ g[f].key = k
  BY DEF Mnode
<1>7. \A c \in C : /\ g[c].kind = "mnode" /\ g[c].key = h[c].key
                   /\ g[c].next = IF c = m THEN f ELSE h[c].next
  BY <1>1, <1>5
<1>8. First \in C /\ h[First].key = 0 /\ ~h[First].marked /\ ~g[First].marked
  <2>1. First \in C /\ h[First].key = 0 /\ ~h[First].marked
    BY DEF Chained
  <2>2. QED
    BY <2>1, <1>5
<1>9. \A c, d \in D : g[c].key = g[d].key => c = d
  <2>1. \A c, d \in C : g[c].key = g[d].key => c = d
    BY <1>7 DEF Chained
  <2>2. \A c \in C : g[c].key # g[f].key
    BY <1>3, <1>6, <1>7
  <2>3. QED
    BY <2>1, <2>2
<1>10. ASSUME NEW c \in D
       PROVE  IF g[c].next = NULL THEN \A d \in D : g[d].key <= g[c].key
              ELSE /\ g[c].next \in D /\ g[c].key < g[g[c].next].key
                   /\ \A d \in D : g[d].key <= g[c].key \/ g[g[c].next].key <= g[d].key
  <2> HIDE DEF n
  <2>a. \A d \in D : d \in C \/ d = f
    OBVIOUS
  <2>1. CASE c = f
    <3>1. \A d \in D : g[d].key <= k \/ (n # NULL /\ h[n].key <= g[d].key)
      <4> TAKE d \in D
      <4>1. CASE d = f
        BY <4>1, <1>6
      <4>2. CASE d \in C
        BY <4>2, <1>1, <1>3, <1>7
      <4>3. QED
        BY <2>a, <4>1, <4>2
    <3>2. n # NULL => n \in D /\ k < h[n].key /\ g[n].key = h[n].key
      BY <1>2, <1>7 DEF n
    <3>3. QED
      BY <2>1, <3>1, <3>2, <1>6
  <2>2. CASE c = m
    <3>1. g[c].next = f /\ g[c].key = h[m].key /\ f # NULL /\ f \in D
      BY <2>2, <1>5
    <3>2. \A d \in D : g[d].key <= h[m].key \/ k <= g[d].key
      <4> TAKE d \in D
      <4>1. CASE d = f
        BY <4>1, <1>6
      <4>2. CASE d \in C
        BY <4>2, <1>1, <1>3, <1>7
      <4>3. QED
        BY <2>a, <4>1, <4>2
    <3>3. QED
      BY <3>1, <3>2, <1>6
  <2>3. CASE c \in C /\ c # m
    <3>1. g[c].next = h[c].next /\ g[c].key = h[c].key
      BY <2>3, <1>7
    <3>2. IF h[c].next = NULL THEN \A d \in C : h[d].key <= h[c].key
          ELSE /\ h[c].next \in C /\ h[c].key < h[h[c].next].key
               /\ \A d \in C : h[d].key <= h[c].key \/ h[h[c].next].key <= h[d].key
      BY <2>3 DEF Chained
    <3>3. h[c].key # h[m].key
      BY <2>3 DEF Chained
    <3>4. CASE h[c].next = NULL
      <4>1. \A d \in C : g[d].key <= g[c].key
        BY <3>1, <3>2, <3>4, <1>7
      <4>2. k <= g[c].key
        <5>1. h[m].key <= h[c].key
          BY <3>2, <3>4
        <5>2. ~(h[c].key < k)
          BY <5>1, <3>3, <1>1, <1>3, <2>3
        <5>3. QED
          BY <5>2, <3>1, <1>1, <2>3
      <4>3. QED
        BY <4>1, <4>2, <3>1, <3>4, <1>6, <2>a
    <3>5. CASE h[c].next # NULL
      <4> DEFINE x == h[c].next
      <4>1. x \in C /\ h[c].key < h[x].key /\ g[x].key = h[x].key
        BY <3>2, <3>5, <1>7
      <4>2. \A d \in C : g[d].key <= g[c].key \/ g[x].key <= g[d].key
        BY <3>1, <3>2, <3>5, <4>1, <1>7
      <4> HIDE DEF x
      <4>3. k <= h[c].key \/ h[x].key <= k
        <5>1. h[m].key <= h[c].key \/ h[x].key <= h[m].key
          BY <3>2, <3>5 DEF x
        <5>2. h[c].key \in Nat /\ h[x].key \in Nat /\ h[m].key \in Nat
          BY <1>1, <2>3, <4>1
        <5>3. CASE h[x].key <= h[m].key
          BY <5>2, <5>3
        <5>4. CASE h[m].key <= h[c].key
          <6>1. ~(h[c].key < k)
            BY <5>2, <5>4, <3>3, <1>3, <2>3
          <6>2. QED
            BY <6>1, <5>2
        <5>5. QED
          BY <5>1, <5>3, <5>4
      <4>4. \A d \in D : g[d].key <= g[c].key \/ g[x].key <= g[d].key
        BY <4>1, <4>2, <4>3, <3>1, <1>6, <2>a
      <4>5. x \in D /\ g[c].next = x /\ x # NULL /\ g[c].key < g[x].key
        BY <4>1, <3>1, <3>5 DEF x
      <4>6. QED
        BY <4>4, <4>5
    <3>6. QED
      BY <3>4, <3>5
  <2>4. QED
    BY <2>1, <2>2, <2>3
<1>11. \A c \in D : g[c].kind = "mnode" /\ c \in DOMAIN g
  BY <1>1, <1>6, <1>7
<1>12. First \in D /\ g[First].key = 0 /\ ~g[First].marked
  BY <1>7, <1>8
<1>13. QED
  <2> HIDE DEF D
  <2>1. D \subseteq DOMAIN g
    BY <1>11
  <2>2. Chained(g, D)
    BY <1>9, <1>10, <1>11, <1>12, <2>1 DEF Chained
  <2>3. QED
    BY <2>2 DEF D

\* The mnode d leaves the chain, after p.
LEMMA ChainedLess ==
  ASSUME NEW K, NEW h, NEW g, Heap(h, K), NEW C, Chained(h, C), DOMAIN h \subseteq DOMAIN g,
         NEW p \in C, NEW d \in C, h[p].next = d, d # NULL, d # First,
         g[p] = [h[p] EXCEPT !.next = h[d].next], \A c \in C : c # p => g[c] = h[c]
  PROVE  Chained(g, C \ {d})
<1> DEFINE D == C \ {d}
           n == h[d].next
<1>1. \A c \in C : h[c].kind = "mnode" /\ h[c].key \in Nat /\ c \in DOMAIN g
  <2> TAKE c \in C
  <2>1. h[c].kind = "mnode" /\ h[c].key \in Nat
    BY ChainBlock
  <2>2. QED
    BY <2>1 DEF Chained
<1>2. h[p] \in MnodeOf(Len(h), K)
  <2>1. p \in 1 .. Len(h) /\ h[p].kind = "mnode"
    BY ChainBlock
  <2>2. QED
    BY <2>1, HeapHolds
<1>3. /\ g[p].kind = "mnode" /\ g[p].next = n /\ g[p].key = h[p].key
      /\ g[p].marked = h[p].marked
  BY <1>2 DEF MnodeOf
<1>4. \A c \in C : /\ g[c].kind = "mnode" /\ g[c].key = h[c].key
                   /\ g[c].next = IF c = p THEN n ELSE h[c].next
  BY <1>1, <1>3
<1>5. First \in D /\ g[First].key = 0 /\ ~g[First].marked
  <2>1. First \in C /\ h[First].key = 0 /\ ~h[First].marked
    BY DEF Chained
  <2>2. QED
    BY <2>1, <1>3, <1>4
<1>6. p # d /\ h[p].key < h[d].key
  <2>1. h[p].key < h[d].key
    BY DEF Chained
  <2>2. QED
    BY <2>1, <1>1
<1>7. \A c, e \in D : g[c].key = g[e].key => c = e
  BY <1>4 DEF Chained
<1>8. ASSUME NEW c \in D
      PROVE  IF g[c].next = NULL THEN \A e \in D : g[e].key <= g[c].key
             ELSE /\ g[c].next \in D /\ g[c].key < g[g[c].next].key
                  /\ \A e \in D : g[e].key <= g[c].key \/ g[g[c].next].key <= g[e].key
  <2>1. IF h[c].next = NULL THEN \A e \in C : h[e].key <= h[c].key
        ELSE /\ h[c].next \in C /\ h[c].key < h[h[c].next].key
             /\ \A e \in C : h[e].key <= h[c].key \/ h[h[c].next].key <= h[e].key
    BY DEF Chained
  <2>2. CASE c # p
    <3>1. g[c].next = h[c].next /\ g[c].key = h[c].key
      BY <2>2, <1>4
    <3>2. h[c].next # d
      <4> SUFFICES ASSUME h[c].next = d PROVE FALSE
        OBVIOUS
      <4>1. h[p].key <= h[c].key \/ h[d].key <= h[p].key
        BY <2>1
      <4>2. h[c].key <= h[p].key \/ h[d].key <= h[c].key
        BY DEF Chained
      <4>3. h[c].key < h[d].key /\ h[c].key \in Nat /\ h[d].key \in Nat /\ h[p].key \in Nat
        BY <2>1, <1>1
      <4>4. h[c].key = h[p].key
        BY <4>1, <4>2, <4>3, <1>6
      <4>5. QED
        BY <4>4, <2>2 DEF Chained
    <3>3. \A e \in D : g[e].key = h[e].key
      BY <1>4
    <3>4. h[c].next # NULL => h[c].next \in D /\ g[h[c].next].key = h[h[c].next].key
      BY <2>1, <3>2, <3>3
    <3>5. QED
      BY <2>1, <3>1, <3>3, <3>4
  <2>3. CASE c = p
    <3>1. g[c].next = n /\ g[c].key = h[p].key
      BY <2>3, <1>3
    <3>2. IF n = NULL THEN \A e \in C : h[e].key <= h[d].key
          ELSE /\ n \in C /\ h[d].key < h[n].key
               /\ \A e \in C : h[e].key <= h[d].key \/ h[n].key <= h[e].key
      BY DEF Chained
    <3>3. \A e \in C : h[e].key <= h[p].key \/ h[d].key <= h[e].key
      BY DEF Chained
    <3>4. \A e \in D : h[e].key # h[d].key /\ g[e].key = h[e].key
      BY <1>4 DEF Chained
    <3> HIDE DEF n
    <3>5. CASE n = NULL
      <4>1. \A e \in D : g[e].key <= h[p].key
        <5> TAKE e \in D
        <5>1. h[e].key <= h[d].key /\ (h[e].key <= h[p].key \/ h[d].key <= h[e].key)
          BY <3>2, <3>3, <3>5
        <5>2. QED
          BY <5>1, <3>4, <1>1
      <4>2. QED
        BY <4>1, <3>1, <3>5
    <3>6. CASE n # NULL
      <4>1. n \in C /\ h[d].key < h[n].key /\ n \in D /\ g[n].key = h[n].key
        BY <3>2, <3>4, <3>6, <1>1
      <4>2. h[p].key < h[n].key
        BY <4>1, <1>1, <1>6
      <4>3. \A e \in D : g[e].key <= h[p].key \/ g[n].key <= g[e].key
        <5> TAKE e \in D
        <5>1. h[e].key <= h[d].key \/ h[n].key <= h[e].key
          BY <3>2, <3>6
        <5>2. h[e].key <= h[p].key \/ h[d].key <= h[e].key
          BY <3>3
        <5>3. QED
          BY <5>1, <5>2, <3>4, <4>1, <1>1
      <4>4. QED
        BY <3>1, <3>6, <4>1, <4>2, <4>3
    <3>7. QED
      BY <3>5, <3>6
  <2>4. QED
    BY <2>2, <2>3
<1>9. \A c \in D : g[c].kind = "mnode" /\ c \in DOMAIN g
  BY <1>1, <1>4
<1>10. QED
  <2> HIDE DEF D
  <2>1. D \subseteq DOMAIN g
    BY <1>9
  <2>2. Chained(g, D)
    BY <1>5, <1>7, <1>8, <1>9, <2>1 DEF Chained
  <2>3. QED
    BY <2>2 DEF D

-----------------------------------------------------------------------------
(* What they do to the rows above it.                                      *)

\* A sequence whose elements are from a set is a sequence over that set.
LEMMA SeqOf ==
  ASSUME NEW S, NEW T, NEW s \in Seq(S), \A i \in 1 .. Len(s) : s[i] \in T
  PROVE  s \in Seq(T)
<1>1. s \in [1 .. Len(s) -> T] /\ Len(s) \in Nat
  OBVIOUS
<1>2. QED
  BY <1>1, FunctionIsSeq

\* The inodes stay as they are; the mnodes under them stay in the chain.
LEMMA IndexedSame ==
  ASSUME NEW K, NEW h, NEW g, Heap(h, K), NEW C, NEW D, NEW rank, NEW I, NEW heads,
         Indexed(h, C, rank, I, heads), DOMAIN h \subseteq DOMAIN g,
         \A b \in DOMAIN h : rank[b] > 0 => g[b] = h[b],
         \A c \in C : h[c].level > 0 =>
           c \in D /\ g[c].key = h[c].key /\ h[c].level <= g[c].level,
         \A c \in C : h[c].level \in Nat, \A c \in D : g[c].level \in Nat
  PROVE  Indexed(g, D, rank, I, heads)
<1>1. \A b \in Nat : rank[b] > 0 =>
         /\ b \in DOMAIN h /\ g[b] = h[b] /\ rank[b] \in Nat
         /\ h[b].intermed \in C /\ h[h[b].intermed].key = h[b].key
         /\ rank[b] <= h[h[b].intermed].level
         /\ h[b].right # NULL => h[b].right \in Nat /\ rank[h[b].right] = rank[b]
         /\ h[b].down # NULL => h[b].down \in Nat /\ rank[h[b].down] > 0
  <2> SUFFICES ASSUME NEW b \in Nat, rank[b] > 0
      PROVE /\ b \in DOMAIN h /\ g[b] = h[b] /\ rank[b] \in Nat
            /\ h[b].intermed \in C /\ h[h[b].intermed].key = h[b].key
            /\ rank[b] <= h[h[b].intermed].level
            /\ h[b].right # NULL => h[b].right \in Nat /\ rank[h[b].right] = rank[b]
            /\ h[b].down # NULL => h[b].down \in Nat /\ rank[h[b].down] > 0
    OBVIOUS
  <2>1. /\ rank[b] \in Nat /\ b \in 1 .. Len(h)
        /\ h[b].intermed \in C /\ h[h[b].intermed].key = h[b].key
        /\ h[b].right # NULL => h[b].right \in Nat /\ rank[h[b].right] = rank[b]
        /\ h[b].down # NULL => /\ h[b].down \in Nat /\ rank[b] > 1
                               /\ rank[h[b].down] = rank[b] - 1
    BY RankedBlock
  <2>2. DOMAIN h = 1 .. Len(h)
    BY HeapHolds
  <2>3. rank[b] <= h[h[b].intermed].level
    BY DEF Indexed, Ranked
  <2>4. h[b].down # NULL => rank[h[b].down] > 0
    BY <2>1
  <2>5. QED
    BY <2>1, <2>2, <2>3, <2>4
<1>2. \A b \in Nat : rank[b] > 0 =>
         /\ h[b].intermed \in D /\ g[h[b].intermed].key = h[b].key
         /\ rank[b] <= g[h[b].intermed].level
         /\ h[b].right # NULL => g[h[b].right] = h[h[b].right]
         /\ h[b].down # NULL => g[h[b].down] = h[h[b].down]
  <2> SUFFICES ASSUME NEW b \in Nat, rank[b] > 0
      PROVE /\ h[b].intermed \in D /\ g[h[b].intermed].key = h[b].key
            /\ rank[b] <= g[h[b].intermed].level
            /\ h[b].right # NULL => g[h[b].right] = h[h[b].right]
            /\ h[b].down # NULL => g[h[b].down] = h[h[b].down]
    OBVIOUS
  <2> DEFINE m == h[b].intermed
  <2>1. m \in C /\ h[m].key = h[b].key /\ rank[b] \in Nat /\ rank[b] <= h[m].level
    BY <1>1
  <2> HIDE DEF m
  <2>2. h[m].level > 0
    BY <2>1
  <2>3. m \in D /\ g[m].key = h[b].key /\ h[m].level <= g[m].level
    BY <2>1, <2>2
  <2>4. rank[b] <= g[m].level
    BY <2>1, <2>3
  <2>5. h[b].right # NULL => g[h[b].right] = h[h[b].right]
    BY <1>1
  <2>6. h[b].down # NULL => g[h[b].down] = h[h[b].down]
    BY <1>1
  <2>7. QED
    BY <2>3, <2>4, <2>5, <2>6 DEF m
<1>3. Ranked(g, D, rank, Len(heads))
  <2>1. rank \in [Nat -> 0 .. Len(heads)]
    BY DEF Indexed, Ranked
  <2>2. ASSUME NEW b \in Nat, rank[b] > 0
        PROVE  /\ b \in DOMAIN g /\ g[b].kind = "inode"
               /\ g[b].intermed \in D
               /\ g[g[b].intermed].key = g[b].key
               /\ rank[b] <= g[g[b].intermed].level
               /\ g[b].right # NULL =>
                    rank[g[b].right] = rank[b] /\ g[b].key < g[g[b].right].key
               /\ IF rank[b] = 1 THEN g[b].down = NULL
                  ELSE /\ g[b].down # NULL
                       /\ rank[g[b].down] = rank[b] - 1 /\ g[g[b].down].key = g[b].key
    <3>1. /\ h[b].kind = "inode"
          /\ h[b].right # NULL =>
               rank[h[b].right] = rank[b] /\ h[b].key < h[h[b].right].key
          /\ IF rank[b] = 1 THEN h[b].down = NULL
             ELSE /\ h[b].down # NULL
                  /\ rank[h[b].down] = rank[b] - 1 /\ h[h[b].down].key = h[b].key
      BY <2>2 DEF Indexed, Ranked
    <3>2. b \in DOMAIN g /\ g[b] = h[b]
      BY <1>1, <2>2
    <3>3. QED
      BY <3>1, <3>2, <1>2, <2>2
  <2>3. QED
    BY <2>1, <2>2 DEF Ranked
<1>4. \A b \in I : b \in Nat /\ rank[b] > 0 /\ g[b] = h[b]
  <2>1. \A b \in I : b \in Nat /\ rank[b] > 0
    BY DEF Indexed, Rowed
  <2>2. QED
    BY <2>1, <1>1
<1>5. Rowed(g, rank, I)
  <2>1. I \subseteq Nat /\ \A b \in I : rank[b] > 0
    BY <1>4
  <2>2. \A b, c \in I : rank[b] = rank[c] /\ g[b].key = g[c].key => b = c
    BY <1>4 DEF Indexed, Rowed
  <2>3. ASSUME NEW b \in I
        PROVE  IF g[b].right = NULL THEN \A c \in I : rank[c] = rank[b] => g[c].key <= g[b].key
               ELSE /\ g[b].right \in I
                    /\ \A c \in I : rank[c] = rank[b] =>
                         g[c].key <= g[b].key \/ g[g[b].right].key <= g[c].key
    <3>1. IF h[b].right = NULL THEN \A c \in I : rank[c] = rank[b] => h[c].key <= h[b].key
          ELSE /\ h[b].right \in I
               /\ \A c \in I : rank[c] = rank[b] =>
                    h[c].key <= h[b].key \/ h[h[b].right].key <= h[c].key
      BY DEF Indexed, Rowed
    <3>2. QED
      BY <3>1, <1>4
  <2>4. QED
    BY <2>1, <2>2, <2>3 DEF Rowed
<1>6. Headed(g, rank, I, heads)
  <2>1. heads \in Seq(I) /\ heads # <<>>
    BY DEF Indexed, Headed
  <2>2. ASSUME NEW r \in 1 .. Len(heads)
        PROVE  /\ rank[heads[r]] = r /\ g[heads[r]].key = 0
               /\ g[heads[r]].down = IF r = 1 THEN NULL ELSE heads[r - 1]
    <3>1. /\ rank[heads[r]] = r /\ h[heads[r]].key = 0
          /\ h[heads[r]].down = IF r = 1 THEN NULL ELSE heads[r - 1]
      BY DEF Indexed, Headed
    <3>2. heads[r] \in I
      BY <2>1
    <3>3. QED
      BY <3>1, <3>2, <1>4
  <2>3. QED
    BY <2>1, <2>2 DEF Headed
<1>7. QED
  BY <1>3, <1>5, <1>6 DEF Indexed

\* The pointer of p passes x.
Passed(h, g, p, x) ==
  /\ DOMAIN g = DOMAIN h
  /\ h[p].right = x /\ x # NULL
  /\ g[p] = [h[p] EXCEPT !.right = h[x].right]
  /\ \A b \in DOMAIN h : b # p => g[b] = h[b]

\* The inode x leaves its row, after p; it keeps its pointers.
LEMMA IndexedLess ==
  ASSUME NEW K, NEW h, NEW g, Heap(h, K), NEW C, Chained(h, C),
         NEW rank, NEW I, NEW heads,
         Indexed(h, C, rank, I, heads),
         NEW p, p \in I, NEW x, Passed(h, g, p, x)
  PROVE  Indexed(g, C, rank, I \ {x}, heads) /\ x \in I /\ rank[x] = rank[p] /\ x # p
<1> USE DEF Passed
<1>1. \A b \in I : b \in Nat /\ rank[b] > 0
  BY DEF Indexed, Rowed
<1>2. p \in 1 .. Len(h) /\ h[p].kind = "inode" /\ h[p].key \in Nat /\ p \in DOMAIN h
  <2>1. p \in 1 .. Len(h) /\ h[p].kind = "inode" /\ h[p].key \in Nat
    BY <1>1, RankedBlock
  <2>2. QED
    BY <2>1, HeapHolds
<1>3. h[p] \in InodeOf(Len(h), K)
  BY <1>2, HeapHolds
<1>4. /\ g[p].kind = "inode" /\ g[p].right = h[x].right /\ g[p].down = h[p].down
      /\ g[p].intermed = h[p].intermed /\ g[p].key = h[p].key
  BY <1>3 DEF InodeOf
<1>5. \A b \in DOMAIN h :
        /\ g[b].kind = h[b].kind /\ g[b].key = h[b].key
        /\ b # p => g[b] = h[b]
  BY <1>2, <1>4
<1>6. x \in I /\ rank[x] = rank[p] /\ h[p].key < h[x].key
  <2>1. x \in I
    BY DEF Indexed, Rowed
  <2>2. rank[x] = rank[p] /\ h[p].key < h[x].key
    BY <1>1, RankedBlock
  <2>3. QED
    BY <2>1, <2>2
<1>7. x # p /\ x \in Nat /\ rank[x] > 0 /\ h[x].key \in Nat
  <2>1. x \in Nat /\ rank[x] > 0
    BY <1>1, <1>6
  <2>2. h[x].key \in Nat
    BY <2>1, RankedBlock
  <2>3. QED
    BY <2>1, <2>2, <1>2, <1>6
<1>8. h[x].right # NULL => /\ h[x].right \in I /\ rank[h[x].right] = rank[x]
                           /\ h[x].key < h[h[x].right].key /\ h[h[x].right].key \in Nat
  <2> SUFFICES ASSUME h[x].right # NULL
      PROVE /\ h[x].right \in I /\ rank[h[x].right] = rank[x]
            /\ h[x].key < h[h[x].right].key /\ h[h[x].right].key \in Nat
    OBVIOUS
  <2>1. h[x].right \in I
    BY <1>6 DEF Indexed, Rowed
  <2>2. rank[h[x].right] = rank[x] /\ h[x].key < h[h[x].right].key
    BY <1>7, RankedBlock
  <2>3. h[h[x].right].key \in Nat
    BY <2>1, <1>1, RankedBlock
  <2>4. QED
    BY <2>1, <2>2, <2>3
<1>9. \A c \in C : c \in DOMAIN h /\ c # p => g[c] = h[c]
  BY <1>5
<1>10. Ranked(g, C, rank, Len(heads))
  <2>1. rank \in [Nat -> 0 .. Len(heads)]
    BY DEF Indexed, Ranked
  <2>2. ASSUME NEW b \in Nat, rank[b] > 0
        PROVE  /\ b \in DOMAIN g /\ g[b].kind = "inode"
               /\ g[b].intermed \in C
               /\ g[g[b].intermed].key = g[b].key
               /\ rank[b] <= g[g[b].intermed].level
               /\ g[b].right # NULL =>
                    rank[g[b].right] = rank[b] /\ g[b].key < g[g[b].right].key
               /\ IF rank[b] = 1 THEN g[b].down = NULL
                  ELSE /\ g[b].down # NULL
                       /\ rank[g[b].down] = rank[b] - 1 /\ g[g[b].down].key = g[b].key
    <3>1. /\ b \in DOMAIN h /\ h[b].kind = "inode"
          /\ h[b].intermed \in C
          /\ h[h[b].intermed].key = h[b].key
          /\ rank[b] <= h[h[b].intermed].level
          /\ h[b].right # NULL =>
               rank[h[b].right] = rank[b] /\ h[b].key < h[h[b].right].key
          /\ IF rank[b] = 1 THEN h[b].down = NULL
             ELSE /\ h[b].down # NULL
                  /\ rank[h[b].down] = rank[b] - 1 /\ h[h[b].down].key = h[b].key
      BY <2>2 DEF Indexed, Ranked
    <3>2. /\ rank[b] \in Nat
          /\ h[b].right # NULL => h[b].right \in Nat
          /\ h[b].down # NULL => h[b].down \in Nat /\ rank[b] > 1
      BY <2>2, RankedBlock
    <3>3. h[b].right # NULL => g[h[b].right].key = h[h[b].right].key
      <4>1. h[b].right # NULL => h[b].right \in Nat /\ rank[h[b].right] > 0
        BY <3>1, <3>2, <2>2
      <4>2. h[b].right # NULL => h[b].right \in DOMAIN h
        BY <4>1 DEF Indexed, Ranked
      <4>3. QED
        BY <4>2, <1>5
    <3>4. h[b].down # NULL => g[h[b].down].key = h[h[b].down].key
      <4>1. h[b].down # NULL => h[b].down \in Nat /\ rank[h[b].down] > 0
        BY <3>1, <3>2, <2>2
      <4>2. h[b].down # NULL => h[b].down \in DOMAIN h
        BY <4>1 DEF Indexed, Ranked
      <4>3. QED
        BY <4>2, <1>5
    <3>5. g[h[b].intermed] = h[h[b].intermed]
      <4>1. h[b].intermed \in DOMAIN h /\ h[h[b].intermed].kind = "mnode"
        BY <3>1 DEF Chained
      <4>2. h[b].intermed # p
        BY <4>1, <1>2
      <4>3. QED
        BY <4>1, <4>2
    <3>6. g[b].kind = "inode" /\ g[b].key = h[b].key /\ g[b].down = h[b].down
          /\ g[b].intermed = h[b].intermed
      BY <3>1, <1>4, <1>5
    <3>7. g[b].right # NULL => rank[g[b].right] = rank[b] /\ g[b].key < g[g[b].right].key
      <4>1. CASE b # p
        BY <4>1, <3>1, <3>3, <1>5
      <4>2. CASE b = p
        <5>1. g[b].right = h[x].right
          BY <4>2, <1>4
        <5>2. h[x].right # NULL => g[h[x].right].key = h[h[x].right].key
          <6>1. h[x].right # NULL => h[x].right \in Nat /\ rank[h[x].right] > 0
            BY <1>1, <1>8
          <6>2. h[x].right # NULL => h[x].right \in DOMAIN h
            BY <6>1 DEF Indexed, Ranked
          <6>3. QED
            BY <6>2, <1>5
        <5>3. h[x].right # NULL => h[p].key < h[h[x].right].key
          BY <1>2, <1>6, <1>7, <1>8
        <5>4. QED
          BY <5>1, <5>2, <5>3, <3>6, <4>2, <1>6, <1>8
      <4>3. QED
        BY <4>1, <4>2
    <3>8. QED
      BY <3>1, <3>4, <3>5, <3>6, <3>7
  <2>3. QED
    BY <2>1, <2>2 DEF Ranked
<1>11. \A b \in I \ {x} : g[b].key = h[b].key /\ h[b].key \in Nat
  <2> TAKE b \in I \ {x}
  <2>1. b \in Nat /\ rank[b] > 0 /\ b \in DOMAIN h
    BY <1>1 DEF Indexed, Ranked
  <2>2. h[b].key \in Nat
    BY <2>1, RankedBlock
  <2>3. QED
    BY <2>1, <2>2, <1>5
<1>12. Rowed(g, rank, I \ {x})
  <2>1. I \ {x} \subseteq Nat /\ \A b \in I \ {x} : rank[b] > 0
    BY <1>1
  <2>2. \A b, c \in I \ {x} : rank[b] = rank[c] /\ g[b].key = g[c].key => b = c
    BY <1>11 DEF Indexed, Rowed
  <2>3. ASSUME NEW b \in I \ {x}
        PROVE  IF g[b].right = NULL
               THEN \A c \in I \ {x} : rank[c] = rank[b] => g[c].key <= g[b].key
               ELSE /\ g[b].right \in I \ {x}
                    /\ \A c \in I \ {x} : rank[c] = rank[b] =>
                         g[c].key <= g[b].key \/ g[g[b].right].key <= g[c].key
    <3>1. IF h[b].right = NULL THEN \A c \in I : rank[c] = rank[b] => h[c].key <= h[b].key
          ELSE /\ h[b].right \in I
               /\ \A c \in I : rank[c] = rank[b] =>
                    h[c].key <= h[b].key \/ h[h[b].right].key <= h[c].key
      BY DEF Indexed, Rowed
    <3>2. \A c \in I : rank[c] = rank[p] => h[c].key <= h[p].key \/ h[x].key <= h[c].key
      BY DEF Indexed, Rowed
    <3>3. CASE b # p
      <4>1. g[b] = h[b]
        <5>1. b \in DOMAIN h
          BY <1>1 DEF Indexed, Ranked
        <5>2. QED
          BY <3>3, <5>1, <1>5
      <4>2. h[b].right # x
        <5> SUFFICES ASSUME h[b].right = x PROVE FALSE
          OBVIOUS
        <5>1. rank[b] = rank[x] /\ h[b].key < h[x].key
          <6>1. b \in Nat /\ rank[b] > 0
            BY <1>1
          <6>2. h[b].right # NULL => rank[h[b].right] = rank[b] /\ h[b].key < h[h[b].right].key
            BY <6>1, RankedBlock
          <6>3. QED
            BY <6>2
        <5>2. h[b].key <= h[p].key
          BY <5>1, <3>2, <1>6, <1>7, <1>11
        <5>3. h[p].key <= h[b].key
          <6>1. h[p].key <= h[b].key \/ h[x].key <= h[p].key
            BY <3>1, <5>1, <1>6
          <6>2. QED
            BY <6>1, <1>2, <1>6, <1>7
        <5>4. h[p].key = h[b].key
          BY <5>2, <5>3, <1>2, <1>11
        <5>5. QED
          BY <5>1, <5>4, <3>3, <1>6 DEF Indexed, Rowed
      <4>3. CASE h[b].right = NULL
        BY <4>1, <4>3, <3>1, <1>11
      <4>4. CASE h[b].right # NULL
        <5>1. h[b].right \in I \ {x}
          BY <3>1, <4>2, <4>4
        <5>2. g[h[b].right].key = h[h[b].right].key
          BY <5>1, <1>11
        <5>3. QED
          BY <4>1, <4>4, <5>1, <5>2, <3>1, <1>11
      <4>5. QED
        BY <4>3, <4>4
    <3>4. CASE b = p
      <4>1. IF h[x].right = NULL THEN \A c \in I : rank[c] = rank[x] => h[c].key <= h[x].key
            ELSE /\ h[x].right \in I
                 /\ \A c \in I : rank[c] = rank[x] =>
                      h[c].key <= h[x].key \/ h[h[x].right].key <= h[c].key
        BY <1>6 DEF Indexed, Rowed
      <4>2. g[b].right = h[x].right /\ g[b].key = h[p].key
        BY <3>4, <1>4
      <4>3. \A c \in I \ {x} : rank[c] = rank[b] => rank[c] = rank[x] /\ h[c].key # h[x].key
        BY <3>4, <1>6 DEF Indexed, Rowed
      <4>4. CASE h[x].right = NULL
        <5>1. \A c \in I \ {x} : rank[c] = rank[b] => g[c].key <= h[p].key
          <6> SUFFICES ASSUME NEW c \in I \ {x}, rank[c] = rank[b] PROVE g[c].key <= h[p].key
            OBVIOUS
          <6>1. h[c].key <= h[x].key /\ h[c].key # h[x].key
            BY <4>1, <4>3, <4>4
          <6>2. h[c].key <= h[p].key \/ h[x].key <= h[c].key
            BY <3>2, <3>4
          <6>3. h[c].key \in Nat /\ g[c].key = h[c].key
            BY <1>11
          <6>4. QED
            BY <6>1, <6>2, <6>3, <1>7
        <5>2. QED
          BY <5>1, <4>2, <4>4
      <4>5. CASE h[x].right # NULL
        <5> DEFINE y == h[x].right
        <5>1. y \in I /\ h[x].key < h[y].key /\ h[y].key \in Nat
          BY <4>5, <1>8
        <5>2. y # x
          BY <5>1, <1>7
        <5>3. g[y].key = h[y].key
          BY <5>1, <5>2, <1>11
        <5>4. \A c \in I \ {x} : rank[c] = rank[b] => g[c].key <= h[p].key \/ h[y].key <= g[c].key
          <6> SUFFICES ASSUME NEW c \in I \ {x}, rank[c] = rank[b]
                       PROVE  g[c].key <= h[p].key \/ h[y].key <= g[c].key
            OBVIOUS
          <6>1. h[c].key # h[x].key /\ (h[c].key <= h[x].key \/ h[y].key <= h[c].key)
            BY <4>1, <4>3, <4>5
          <6>2. h[c].key <= h[p].key \/ h[x].key <= h[c].key
            BY <3>2, <3>4
          <6>3. h[c].key \in Nat /\ g[c].key = h[c].key
            BY <1>11
          <6> HIDE DEF y
          <6>4. QED
            BY <6>1, <6>2, <6>3, <1>7
        <5>5. QED
          BY <5>1, <5>2, <5>3, <5>4, <4>2, <4>5
      <4>6. QED
        BY <4>4, <4>5
    <3>5. QED
      BY <3>3, <3>4
  <2>4. QED
    BY <2>1, <2>2, <2>3 DEF Rowed
<1>13. Headed(g, rank, I \ {x}, heads)
  <2>1. heads \in Seq(I) /\ heads # <<>> /\ Len(heads) \in Nat
    BY DEF Indexed, Headed
  <2>2. ASSUME NEW r \in 1 .. Len(heads)
        PROVE  /\ heads[r] \in I \ {x}
               /\ rank[heads[r]] = r /\ g[heads[r]].key = 0
               /\ g[heads[r]].down = IF r = 1 THEN NULL ELSE heads[r - 1]
    <3>1. /\ rank[heads[r]] = r /\ h[heads[r]].key = 0
          /\ h[heads[r]].down = IF r = 1 THEN NULL ELSE heads[r - 1]
      BY DEF Indexed, Headed
    <3>2. heads[r] \in I
      BY <2>1
    <3>3. heads[r] # x
      BY <3>1, <1>2, <1>6, <1>7
    <3>4. g[heads[r]].key = 0
      BY <3>1, <3>2, <3>3, <1>11
    <3>5. g[heads[r]].down = h[heads[r]].down
      <4>1. heads[r] \in DOMAIN h
        BY <3>2, <1>1 DEF Indexed, Ranked
      <4>2. QED
        BY <4>1, <1>4, <1>5
    <3>6. QED
      BY <3>1, <3>2, <3>3, <3>4, <3>5
  <2>3. heads \in Seq(I \ {x})
    BY <2>1, <2>2, SeqOf
  <2>4. QED
    BY <2>1, <2>2, <2>3 DEF Headed
<1>14. QED
  BY <1>6, <1>7, <1>10, <1>12, <1>13 DEF Indexed

\* What stands between p and an mnode m that is to get an inode after p in row r.
Place(h, C, rank, I, r, p, m) ==
  /\ p \in I /\ rank[p] = r /\ m \in C
  /\ h[p].key < h[m].key /\ h[m].level < r
  /\ \A c \in I : rank[c] = r => h[c].key <= h[p].key \/ h[m].key <= h[c].key

\* The inode below the new one, of the same key.
Below(h, rank, r, d, k) ==
  IF r = 1 THEN d = NULL
  ELSE d \in Nat /\ d # NULL /\ rank[d] > 0 /\ rank[d] = r - 1 /\ h[d].key = k

\* g is h after the inode f was put into its row after p, on the mnode m.
Inserted(h, g, r, p, m, d, f) ==
  /\ DOMAIN h \subseteq DOMAIN g /\ f \in DOMAIN g
  /\ g[f] = Inode(h[p].right, d, m, h[m].key)
  /\ g[p] = [h[p] EXCEPT !.right = f]
  /\ g[m] = [h[m] EXCEPT !.level = r]
  /\ \A b \in DOMAIN h : b \notin {p, m, f} => g[b] = h[b]

\* What an inode that was there before keeps.
LEMMA InsertedKeeps ==
  ASSUME NEW K, NEW h, NEW g, Heap(h, K), NEW C, Chained(h, C),
         NEW rank, NEW I, NEW heads, Indexed(h, C, rank, I, heads),
         NEW r \in 1 .. Len(heads), NEW p, NEW m, Place(h, C, rank, I, r, p, m),
         NEW d, NEW f \in Nat, f \notin C, rank[f] = 0, Inserted(h, g, r, p, m, d, f)
  PROVE  /\ \A c \in C : /\ g[c].kind = "mnode" /\ g[c].key = h[c].key
                         /\ g[c].next = h[c].next /\ g[c].marked = h[c].marked
                         /\ g[c].level = IF c = m THEN r ELSE h[c].level
         /\ \A b \in Nat : rank[b] > 0 =>
              /\ b # f /\ b \in DOMAIN g /\ g[b].kind = "inode"
              /\ g[b].key = h[b].key /\ g[b].key \in Nat
              /\ g[b].down = h[b].down /\ g[b].intermed = h[b].intermed
              /\ g[b].right = IF b = p THEN f ELSE h[b].right
         /\ rank[p] = r /\ rank[p] > 0 /\ p \in Nat /\ m # p
<1>1. p \in I /\ rank[p] = r /\ m \in C /\ r \in Nat /\ r > 0
  BY DEF Place
<1>2. p \in Nat /\ rank[p] > 0
  BY <1>1 DEF Indexed, Rowed
<1>3. \A b \in Nat : rank[b] > 0 => /\ b \in DOMAIN h /\ b # f /\ b \notin C
                                    /\ h[b].kind = "inode" /\ h[b].key \in Nat
  <2> SUFFICES ASSUME NEW b \in Nat, rank[b] > 0
               PROVE /\ b \in DOMAIN h /\ b # f /\ b \notin C
                     /\ h[b].kind = "inode" /\ h[b].key \in Nat
    OBVIOUS
  <2>1. b \in DOMAIN h
    BY DEF Indexed, Ranked
  <2>2. h[b].kind = "inode" /\ h[b].key \in Nat
    BY RankedBlock
  <2>3. b \notin C
    BY <2>2 DEF Chained
  <2>4. QED
    BY <2>1, <2>2, <2>3
<1>4. \A c \in C : c \in DOMAIN h /\ c # f /\ c # p /\ h[c].kind = "mnode"
  <2>1. \A c \in C : c \in DOMAIN h /\ c # f /\ h[c].kind = "mnode"
    BY DEF Chained
  <2>2. p \notin C
    BY <1>2, <1>3
  <2>3. QED
    BY <2>1, <2>2
<1>5. h[m] \in MnodeOf(Len(h), K)
  BY <1>1, <1>4, HeapHolds
<1>6. /\ g[m].kind = "mnode" /\ g[m].key = h[m].key /\ g[m].next = h[m].next
      /\ g[m].marked = h[m].marked /\ g[m].level = r
  BY <1>5 DEF MnodeOf, Inserted
<1>7. h[p] \in InodeOf(Len(h), K)
  BY <1>2, <1>3, HeapHolds
<1>8. /\ g[p].kind = "inode" /\ g[p].key = h[p].key /\ g[p].down = h[p].down
      /\ g[p].intermed = h[p].intermed /\ g[p].right = f
  BY <1>7 DEF InodeOf, Inserted
<1>9. \A c \in C : c # m => g[c] = h[c]
  BY <1>4 DEF Inserted
<1>10. \A b \in Nat : rank[b] > 0 /\ b # p => g[b] = h[b]
  BY <1>1, <1>3 DEF Inserted
<1>11. \A c \in C : /\ g[c].kind = "mnode" /\ g[c].key = h[c].key
                    /\ g[c].next = h[c].next /\ g[c].marked = h[c].marked
                    /\ g[c].level = IF c = m THEN r ELSE h[c].level
  BY <1>4, <1>6, <1>9
<1>12. \A b \in Nat : rank[b] > 0 =>
              /\ b # f /\ b \in DOMAIN g /\ g[b].kind = "inode"
              /\ g[b].key = h[b].key /\ g[b].key \in Nat
              /\ g[b].down = h[b].down /\ g[b].intermed = h[b].intermed
              /\ g[b].right = IF b = p THEN f ELSE h[b].right
  BY <1>3, <1>8, <1>10 DEF Inserted
<1>13. QED
  BY <1>1, <1>2, <1>4, <1>11, <1>12

\* The inode f of row r enters its row, after p.
LEMMA IndexedMore ==
  ASSUME NEW K, NEW h, NEW g, Heap(h, K), NEW C, Chained(h, C),
         NEW rank, NEW I, NEW heads, Indexed(h, C, rank, I, heads),
         NEW r \in 1 .. Len(heads), NEW p, NEW m, Place(h, C, rank, I, r, p, m),
         NEW d, Below(h, rank, r, d, h[m].key),
         NEW f \in Nat, f # NULL, f \notin C, rank[f] = 0, Inserted(h, g, r, p, m, d, f)
  PROVE  Indexed(g, C, [rank EXCEPT ![f] = r], I \cup {f}, heads)
<1> DEFINE R == [rank EXCEPT ![f] = r]
           k == h[m].key
           J == I \cup {f}
<1>1. p \in I /\ m \in C /\ h[p].key < k /\ h[m].level < r /\ rank[p] = r
      /\ \A c \in I : rank[c] = r => h[c].key <= h[p].key \/ k <= h[c].key
  BY DEF Place
<1>2. /\ \A c \in C : /\ g[c].kind = "mnode" /\ g[c].key = h[c].key
                      /\ g[c].level = IF c = m THEN r ELSE h[c].level
      /\ \A b \in Nat : rank[b] > 0 =>
              /\ b # f /\ b \in DOMAIN g /\ g[b].kind = "inode"
              /\ g[b].key = h[b].key /\ g[b].key \in Nat
              /\ g[b].down = h[b].down /\ g[b].intermed = h[b].intermed
              /\ g[b].right = IF b = p THEN f ELSE h[b].right
  BY InsertedKeeps
<1>3. rank[p] > 0 /\ p \in Nat /\ m # p
  BY InsertedKeeps
<1>4. /\ g[f].kind = "inode" /\ g[f].right = h[p].right /\ g[f].down = d
      /\ g[f].intermed = m /\ g[f].key = k /\ f \in DOMAIN g
  BY DEF Inserted, Inode
<1>5. rank \in [Nat -> 0 .. Len(heads)] /\ Len(heads) \in Nat
  BY SMTT(30) DEF Indexed, Ranked, Headed
<1>6. R \in [Nat -> 0 .. Len(heads)] /\ R[f] = r /\ \A b \in Nat : b # f => R[b] = rank[b]
  BY <1>5, SMTT(30)
<1> HIDE DEF R
<1>7. \A b \in I : b \in Nat /\ rank[b] > 0 /\ b # f /\ R[b] = rank[b]
  <2>1. \A b \in I : b \in Nat /\ rank[b] > 0
    BY DEF Indexed, Rowed
  <2>2. \A b \in I : b # f
    BY <2>1
  <2>3. QED
    BY <2>1, <2>2, <1>6
<1>8. k \in Nat /\ h[m].level \in Nat
  BY <1>1, ChainBlock
<1>9. \A b \in Nat : rank[b] = r => h[b].key # k
  <2> SUFFICES ASSUME NEW b \in Nat, rank[b] = r, h[b].key = k PROVE FALSE
    OBVIOUS
  <2>1. h[b].intermed \in C /\ h[h[b].intermed].key = k
    BY RankedBlock
  <2>2. h[b].intermed = m
    BY <2>1, <1>1 DEF Chained
  <2>3. r <= h[h[b].intermed].level
    BY SMTT(30) DEF Indexed, Ranked
  <2>4. QED
    BY <2>2, <2>3, <1>1, <1>8
<1>10. h[p].right # NULL => /\ h[p].right \in I /\ rank[h[p].right] = r /\ h[p].right \in Nat
                            /\ h[p].key < h[h[p].right].key /\ k < h[h[p].right].key
                            /\ h[h[p].right].key \in Nat
  <2> DEFINE n == h[p].right
  <2> SUFFICES ASSUME n # NULL
      PROVE /\ n \in I /\ rank[n] = r /\ n \in Nat /\ h[p].key < h[n].key /\ k < h[n].key
            /\ h[n].key \in Nat
    OBVIOUS
  <2>1. n \in I
    BY <1>1 DEF Indexed, Rowed
  <2>2. rank[n] = r /\ n \in Nat /\ h[p].key < h[n].key
    BY <1>1, <1>3, RankedBlock
  <2>3. h[n].key \in Nat /\ h[p].key \in Nat
    BY <2>1, <1>3, <1>7, RankedBlock
  <2>4. h[n].key # k /\ (h[n].key <= h[p].key \/ k <= h[n].key)
    BY <2>1, <2>2, <1>1, <1>9
  <2> HIDE DEF n, k
  <2>5. QED
    BY <2>1, <2>2, <2>3, <2>4, <1>8
<1> HIDE DEF k, J
<1>11. ASSUME NEW b \in Nat, R[b] > 0
       PROVE  /\ b \in DOMAIN g /\ g[b].kind = "inode"
              /\ g[b].intermed \in C
              /\ g[g[b].intermed].key = g[b].key
              /\ R[b] <= g[g[b].intermed].level
              /\ g[b].right # NULL =>
                   R[g[b].right] = R[b] /\ g[b].key < g[g[b].right].key
              /\ IF R[b] = 1 THEN g[b].down = NULL
                 ELSE /\ g[b].down # NULL
                      /\ R[g[b].down] = R[b] - 1 /\ g[g[b].down].key = g[b].key
  <2>1. CASE b = f
    <3>1. g[m].key = k /\ g[m].level = r /\ R[b] = r /\ r \in Nat
      BY <2>1, <1>1, <1>2, <1>6, SMTT(30) DEF k
    <3>2. g[f].right # NULL => R[g[f].right] = r /\ k < g[g[f].right].key
      <4>1. h[p].right # NULL => /\ R[h[p].right] = r
                                 /\ g[h[p].right].key = h[h[p].right].key
        BY <1>2, <1>7, <1>10
      <4>2. QED
        BY <4>1, <1>4, <1>10
    <3>3. IF r = 1 THEN d = NULL ELSE d # NULL /\ R[d] = r - 1 /\ g[d].key = k
      <4>1. CASE r = 1
        BY <4>1 DEF Below
      <4>2. CASE r # 1
        <5>1. d \in Nat /\ d # NULL /\ rank[d] > 0 /\ rank[d] = r - 1 /\ h[d].key = k
          BY <4>2 DEF Below, k
        <5>2. d # f /\ g[d].key = k
          BY <5>1, <1>2
        <5>3. QED
          BY <5>1, <5>2, <4>2, <1>6
      <4>3. QED
        BY <4>1, <4>2
    <3>4. QED
      BY <2>1, <3>1, <3>2, <3>3, <1>1, <1>4
  <2>2. CASE b # f
    <3>1. rank[b] > 0 /\ R[b] = rank[b]
      BY <2>2, <1>6, <1>11
    <3>2. /\ rank[b] \in Nat /\ h[b].key \in Nat
          /\ h[b].intermed \in C /\ h[h[b].intermed].key = h[b].key
          /\ h[b].right # NULL => /\ h[b].right \in Nat /\ rank[h[b].right] = rank[b]
                                  /\ h[b].key < h[h[b].right].key
          /\ h[b].down # NULL => /\ h[b].down \in Nat /\ rank[b] > 1
                                 /\ rank[h[b].down] = rank[b] - 1
                                 /\ h[h[b].down].key = h[b].key
          /\ h[b].down = NULL <=> rank[b] = 1
      BY <3>1, RankedBlock
    <3>3. rank[b] <= h[h[b].intermed].level
      BY <3>1 DEF Indexed, Ranked
    <3>4. /\ b \in DOMAIN g /\ g[b].kind = "inode" /\ g[b].key = h[b].key
          /\ g[b].down = h[b].down /\ g[b].intermed = h[b].intermed
          /\ g[b].right = IF b = p THEN f ELSE h[b].right
      BY <3>1, <1>2
    <3>5. h[b].intermed \in C /\ g[h[b].intermed].key = h[b].key
          /\ rank[b] <= g[h[b].intermed].level
      <4> DEFINE i == h[b].intermed
      <4>1. i \in C /\ g[i].key = h[b].key /\ g[i].level = IF i = m THEN r ELSE h[i].level
        BY <3>2, <1>2
      <4>2. i = m => rank[b] <= r
        <5> SUFFICES ASSUME i = m PROVE rank[b] <= r
          OBVIOUS
        <5>1. rank[b] <= h[m].level
          BY <3>3
        <5>2. QED
          BY <5>1, <3>2, <1>1, <1>8
      <4>3. QED
        BY <4>1, <4>2, <3>3
    <3>6. g[b].right # NULL => R[g[b].right] = R[b] /\ g[b].key < g[g[b].right].key
      <4>1. CASE b = p
        BY <4>1, <3>1, <3>4, <1>1, <1>4, <1>6 DEF k
      <4>2. CASE b # p
        <5>1. h[b].right # NULL => /\ rank[h[b].right] > 0 /\ h[b].right \in Nat
                                   /\ R[h[b].right] = rank[h[b].right]
          BY <3>1, <3>2, <1>2, <1>6
        <5>2. h[b].right # NULL => g[h[b].right].key = h[h[b].right].key
          BY <5>1, <1>2
        <5>3. QED
          BY <5>1, <5>2, <3>1, <3>2, <3>4, <4>2
      <4>3. QED
        BY <4>1, <4>2
    <3>7. IF R[b] = 1 THEN g[b].down = NULL
          ELSE /\ g[b].down # NULL
               /\ R[g[b].down] = R[b] - 1 /\ g[g[b].down].key = g[b].key
      <4>1. h[b].down # NULL => rank[h[b].down] > 0 /\ h[b].down \in Nat
        BY <3>2
      <4>2. h[b].down # NULL => /\ R[h[b].down] = rank[h[b].down]
                                /\ g[h[b].down].key = h[h[b].down].key
        BY <4>1, <1>2, <1>6
      <4>3. QED
        BY <4>2, <3>1, <3>2, <3>4
    <3>8. QED
      BY <3>1, <3>4, <3>5, <3>6, <3>7
  <2>3. QED
    BY <2>1, <2>2
<1>12. Ranked(g, C, R, Len(heads))
  BY <1>6, <1>11 DEF Ranked
<1>13. \A b \in I : g[b].key = h[b].key /\ h[b].key \in Nat
  BY <1>2, <1>7
<1>14. \A b \in J : b \in I \/ b = f
  BY DEF J
<1>15. \A b, c \in J : R[b] = R[c] /\ g[b].key = g[c].key => b = c
  <2>1. \A b, c \in I : R[b] = R[c] /\ g[b].key = g[c].key => b = c
    BY <1>7, <1>13 DEF Indexed, Rowed
  <2>2. \A b \in I : R[b] = R[f] => g[b].key # g[f].key
    BY <1>4, <1>6, <1>7, <1>9, <1>13 DEF k
  <2>3. QED
    BY <2>1, <2>2, <1>14
<1>16. ASSUME NEW b \in J
       PROVE  IF g[b].right = NULL THEN \A c \in J : R[c] = R[b] => g[c].key <= g[b].key
              ELSE /\ g[b].right \in J
                   /\ \A c \in J : R[c] = R[b] =>
                        g[c].key <= g[b].key \/ g[g[b].right].key <= g[c].key
  <2>a. \A c \in I : rank[c] = r => g[c].key <= h[p].key \/ (k <= g[c].key /\ g[c].key # k)
    BY <1>1, <1>7, <1>9, <1>13
  <2>b. IF h[p].right = NULL THEN \A c \in I : rank[c] = r => g[c].key <= h[p].key
        ELSE \A c \in I : rank[c] = r => g[c].key <= h[p].key \/ h[h[p].right].key <= g[c].key
    BY <1>1, <1>13 DEF Indexed, Rowed
  <2>1. CASE b = f
    <3>1. \A c \in J : R[c] = R[b] => c = f \/ (c \in I /\ rank[c] = r)
      BY <2>1, <1>6, <1>7, <1>14
    <3>2. h[p].key \in Nat /\ h[p].key < k
      BY <1>1, <1>13 DEF k
    <3>3. CASE h[p].right = NULL
      <4>1. \A c \in J : R[c] = R[b] => g[c].key <= k
        <5> SUFFICES ASSUME NEW c \in J, R[c] = R[b] PROVE g[c].key <= k
          OBVIOUS
        <5>1. CASE c = f
          BY <5>1, <1>4, <1>8
        <5>2. CASE c \in I /\ rank[c] = r
          BY <5>2, <2>b, <3>2, <3>3, <1>8, <1>13
        <5>3. QED
          BY <3>1, <5>1, <5>2
      <4>2. QED
        BY <4>1, <3>3, <2>1, <1>4
    <3>4. CASE h[p].right # NULL
      <4> DEFINE n == h[p].right
      <4>1. n \in J /\ g[n].key = h[n].key /\ h[n].key \in Nat
        BY <3>4, <1>10, <1>13 DEF J
      <4>2. \A c \in J : R[c] = R[b] => g[c].key <= k \/ g[n].key <= g[c].key
        <5> SUFFICES ASSUME NEW c \in J, R[c] = R[b] PROVE g[c].key <= k \/ g[n].key <= g[c].key
          OBVIOUS
        <5>1. CASE c = f
          BY <5>1, <1>4, <1>8
        <5>2. CASE c \in I /\ rank[c] = r
          BY <5>2, <2>b, <3>2, <3>4, <4>1, <1>8, <1>13
        <5>3. QED
          BY <3>1, <5>1, <5>2
      <4>3. QED
        BY <4>1, <4>2, <3>4, <2>1, <1>4
    <3>5. QED
      BY <3>3, <3>4
  <2>2. CASE b = p
    <3>1. \A c \in J : R[c] = R[b] => c = f \/ (c \in I /\ rank[c] = r)
      BY <2>2, <1>1, <1>6, <1>7, <1>14
    <3>2. g[b].right = f /\ g[b].key = h[p].key /\ g[f].key = k
      BY <2>2, <1>2, <1>3, <1>4
    <3>3. \A c \in J : R[c] = R[b] => g[c].key <= g[b].key \/ k <= g[c].key
      <4> SUFFICES ASSUME NEW c \in J, R[c] = R[b] PROVE g[c].key <= g[b].key \/ k <= g[c].key
        OBVIOUS
      <4>1. CASE c = f
        BY <4>1, <1>4, <1>8
      <4>2. CASE c \in I /\ rank[c] = r
        BY <4>2, <2>a, <3>2
      <4>3. QED
        BY <3>1, <4>1, <4>2
    <3>4. f \in J
      BY DEF J
    <3>5. QED
      BY <3>2, <3>3, <3>4
  <2>3. CASE b \in I /\ b # p
    <3>1. g[b].right = h[b].right /\ g[b].key = h[b].key /\ R[b] = rank[b] /\ h[b].key \in Nat
      BY <2>3, <1>2, <1>7
    <3>2. IF h[b].right = NULL THEN \A c \in I : rank[c] = rank[b] => h[c].key <= h[b].key
          ELSE /\ h[b].right \in I
               /\ \A c \in I : rank[c] = rank[b] =>
                    h[c].key <= h[b].key \/ h[h[b].right].key <= h[c].key
      BY <2>3 DEF Indexed, Rowed
    <3>3. rank[b] = r => h[b].key # h[p].key
      BY <2>3, <1>1 DEF Indexed, Rowed
    <3>4. \A c \in J : R[c] = R[b] => (c = f /\ rank[b] = r) \/ (c \in I /\ rank[c] = rank[b])
      BY <3>1, <1>6, <1>7, <1>14
    <3>5. h[p].key \in Nat /\ h[p].key < k /\ rank[p] = r
      BY <1>1, <1>13 DEF k
    <3>6. rank[b] = r => h[b].key <= h[p].key \/ k <= h[b].key
      BY <2>3, <1>1
    <3>7. CASE h[b].right = NULL
      <4>1. rank[b] = r => k <= h[b].key
        <5> SUFFICES ASSUME rank[b] = r PROVE k <= h[b].key
          OBVIOUS
        <5>1. h[p].key <= h[b].key
          BY <3>2, <3>5, <3>7, <1>1
        <5>2. QED
          BY <5>1, <3>1, <3>3, <3>5, <3>6, <1>8
      <4>2. \A c \in J : R[c] = R[b] => g[c].key <= g[b].key
        BY <3>1, <3>2, <3>4, <3>7, <4>1, <1>4, <1>13
      <4>3. QED
        BY <4>2, <3>1, <3>7
    <3>8. CASE h[b].right # NULL
      <4> DEFINE n == h[b].right
      <4>1. n \in I /\ n \in J /\ g[n].key = h[n].key /\ h[n].key \in Nat
        BY <3>2, <3>8, <1>13 DEF J
      <4>2. rank[b] = r => k <= h[b].key \/ h[n].key <= k
        <5> SUFFICES ASSUME rank[b] = r, h[b].key < k PROVE h[n].key <= k
          BY <1>8, <3>1
        <5>1. h[p].key <= h[b].key \/ h[n].key <= h[p].key
          BY <3>2, <3>5, <3>8, <1>1
        <5>2. h[b].key <= h[p].key
          BY <3>1, <3>6, <1>8
        <5>3. h[n].key <= h[p].key
          BY <5>1, <5>2, <3>1, <3>3, <3>5
        <5>4. QED
          BY <5>3, <3>5, <4>1, <1>8
      <4>3. \A c \in J : R[c] = R[b] => g[c].key <= g[b].key \/ g[n].key <= g[c].key
        <5> HIDE DEF n
        <5> SUFFICES ASSUME NEW c \in J, R[c] = R[b]
                     PROVE g[c].key <= g[b].key \/ g[n].key <= g[c].key
          OBVIOUS
        <5>1. CASE c = f /\ rank[b] = r
          BY <5>1, <3>1, <4>1, <4>2, <1>4
        <5>2. CASE c \in I /\ rank[c] = rank[b]
          BY <5>2, <3>1, <3>2, <3>8, <4>1, <1>13 DEF n
        <5>3. QED
          BY <3>4, <5>1, <5>2
      <4>4. QED
        BY <4>1, <4>3, <3>1, <3>8
    <3>9. QED
      BY <3>7, <3>8
  <2>4. QED
    BY <2>1, <2>2, <2>3, <1>14
<1>17. Rowed(g, R, J)
  <2>0. r > 0
    BY <1>5
  <2>1. J \subseteq Nat /\ \A b \in J : R[b] > 0
    BY <2>0, <1>6, <1>7, <1>14
  <2>2. QED
    BY <2>1, <1>15, <1>16 DEF Rowed
<1>18. Headed(g, R, J, heads)
  <2>1. heads \in Seq(I) /\ heads # <<>>
    BY DEF Indexed, Headed
  <2>2. heads \in Seq(J)
    BY <2>1, SeqOf DEF J
  <2>3. ASSUME NEW q \in 1 .. Len(heads)
        PROVE  /\ R[heads[q]] = q /\ g[heads[q]].key = 0
               /\ g[heads[q]].down = IF q = 1 THEN NULL ELSE heads[q - 1]
    <3>1. /\ rank[heads[q]] = q /\ h[heads[q]].key = 0
          /\ h[heads[q]].down = IF q = 1 THEN NULL ELSE heads[q - 1]
      BY DEF Indexed, Headed
    <3>2. heads[q] \in I
      BY <2>1
    <3>3. QED
      BY <3>1, <3>2, <1>2, <1>7
  <2>4. QED
    BY <2>1, <2>2, <2>3 DEF Headed
<1>19. QED
  BY <1>12, <1>17, <1>18 DEF Indexed, R, J

\* g is h after the inode f, on the inode s, became the first one of a new top row.
Topped(h, g, s, f) ==
  /\ DOMAIN h \subseteq DOMAIN g /\ f \in DOMAIN g
  /\ g[f] = Inode(NULL, s, First, 0)
  /\ g[First] = [h[First] EXCEPT !.level = @ + 1]
  /\ \A b \in DOMAIN h : b \notin {First, f} => g[b] = h[b]

\* The new sentinel inode of set_sentinel is the only inode of a new top row.
LEMMA IndexedTop ==
  ASSUME NEW K, NEW h, NEW g, Heap(h, K), NEW C, Chained(h, C),
         NEW rank, NEW I, NEW heads, Indexed(h, C, rank, I, heads),
         h[First].level = Len(heads),
         NEW f \in Nat, f # NULL, f \notin C, rank[f] = 0,
         Topped(h, g, heads[Len(heads)], f)
  PROVE  Indexed(g, C, [rank EXCEPT ![f] = Len(heads) + 1], I \cup {f}, Append(heads, f))
<1> DEFINE L == Len(heads)
           R == [rank EXCEPT ![f] = L + 1]
           J == I \cup {f}
           top == Append(heads, f)
<1>h. heads \in Seq(I) /\ heads # <<>>
  BY DEF Indexed, Headed
<1>1. L \in Nat /\ L > 0
  BY <1>h
<1>2. rank \in [Nat -> 0 .. L]
  BY DEF Indexed, Ranked
<1>3. R \in [Nat -> 0 .. L + 1] /\ R[f] = L + 1 /\ \A b \in Nat : b # f => R[b] = rank[b]
  BY <1>1, <1>2, SMTT(30)
<1>4. top \in Seq(J) /\ Len(top) = L + 1 /\ top # <<>>
      /\ \A r \in 1 .. L : top[r] = heads[r] /\ heads[r] \in I
  <2>1. heads \in Seq(J)
    BY <1>h, SeqOf
  <2>2. QED
    BY <1>h, <1>1, <2>1
<1>5. top[L + 1] = f
  BY <1>h
<1>6. First \in C /\ h[First].key = 0 /\ First \in DOMAIN h
  BY DEF Chained
<1>7. h[First] \in MnodeOf(Len(h), K)
  BY <1>6, ChainBlock, HeapHolds
<1>8. g[First].kind = "mnode" /\ g[First].key = 0 /\ g[First].level = L + 1 /\ L = h[First].level
  BY <1>6, <1>7 DEF MnodeOf, Topped
<1>9. /\ g[f].kind = "inode" /\ g[f].right = NULL /\ g[f].down = heads[L]
      /\ g[f].intermed = First /\ g[f].key = 0
  BY DEF Inode, Topped
<1>t. f \in DOMAIN g /\ \A b \in DOMAIN h : b \in DOMAIN g /\ (b # First /\ b # f => g[b] = h[b])
  BY DEF Topped
<1> HIDE DEF R, J, top, L
<1>10. \A b \in Nat : rank[b] > 0 =>
         /\ b # f /\ b \in DOMAIN h /\ b \in DOMAIN g /\ g[b] = h[b]
         /\ R[b] = rank[b] /\ rank[b] \in Nat /\ rank[b] <= L /\ h[b].key \in Nat
  <2> SUFFICES ASSUME NEW b \in Nat, rank[b] > 0
      PROVE /\ b # f /\ b \in DOMAIN h /\ b \in DOMAIN g /\ g[b] = h[b]
            /\ R[b] = rank[b] /\ rank[b] \in Nat /\ rank[b] <= L /\ h[b].key \in Nat
    OBVIOUS
  <2>1. b # f
    OBVIOUS
  <2>2. b \in DOMAIN h
    BY DEF Indexed, Ranked
  <2>3. h[b].kind = "inode" /\ h[b].key \in Nat
    BY RankedBlock
  <2>4. b # First
    <3>1. h[First].kind = "mnode"
      BY DEF Chained
    <3>2. QED
      BY <2>3, <3>1
  <2>5. rank[b] \in 0 .. L
    BY <1>2
  <2>6. QED
    <3>1. rank[b] \in Nat /\ rank[b] <= L
      BY <2>5, <1>1
    <3>2. QED
      BY <2>1, <2>2, <2>3, <2>4, <3>1, <1>3, <1>t
<1>11. \A b \in I : b \in Nat /\ rank[b] > 0
  BY DEF Indexed, Rowed
<1>12. ASSUME NEW b \in Nat, R[b] > 0
       PROVE  /\ b \in DOMAIN g /\ g[b].kind = "inode"
              /\ g[b].intermed \in C
              /\ g[g[b].intermed].key = g[b].key
              /\ R[b] <= g[g[b].intermed].level
              /\ g[b].right # NULL =>
                   R[g[b].right] = R[b] /\ g[b].key < g[g[b].right].key
              /\ IF R[b] = 1 THEN g[b].down = NULL
                 ELSE /\ g[b].down # NULL
                      /\ R[g[b].down] = R[b] - 1 /\ g[g[b].down].key = g[b].key
  <2>1. CASE b = f
    <3>1. R[b] = L + 1 /\ R[b] # 1 /\ R[b] - 1 = L
      BY <2>1, <1>1, <1>3
    <3>2. L \in 1 .. L
      BY <1>1
    <3>3. heads[L] \in I /\ rank[heads[L]] = L /\ h[heads[L]].key = 0
      BY <3>2, <1>4 DEF Indexed, Headed, L
    <3>4. heads[L] \in Nat /\ R[heads[L]] = L /\ g[heads[L]].key = 0 /\ heads[L] # NULL
      <4>1. heads[L] \in Nat /\ rank[heads[L]] > 0
        BY <3>3, <1>11
      <4>2. heads[L] \in 1 .. Len(h)
        BY <4>1, RankedBlock
      <4>3. heads[L] # NULL
        BY <4>2, HeapHolds DEF NULL
      <4>4. QED
        BY <3>3, <4>1, <4>3, <1>10
    <3>5. R[b] <= g[g[b].intermed].level
      BY <2>1, <3>1, <1>1, <1>8, <1>9
    <3>6. b \in DOMAIN g /\ g[b].intermed \in C /\ g[g[b].intermed].key = g[b].key
      BY <2>1, <1>6, <1>8, <1>9, <1>t
    <3>7. QED
      BY <2>1, <3>1, <3>4, <3>5, <3>6, <1>9
  <2>2. CASE b # f
    <3>1. rank[b] > 0 /\ R[b] = rank[b] /\ g[b] = h[b] /\ b \in DOMAIN g
      BY <2>2, <1>3, <1>10, <1>12
    <3>2. /\ h[b].kind = "inode"
          /\ h[b].intermed \in C /\ h[h[b].intermed].key = h[b].key
          /\ h[b].right # NULL => /\ h[b].right \in Nat /\ rank[h[b].right] = rank[b]
                                  /\ h[b].key < h[h[b].right].key
          /\ h[b].down # NULL => /\ h[b].down \in Nat /\ rank[b] > 1
                                 /\ rank[h[b].down] = rank[b] - 1
                                 /\ h[h[b].down].key = h[b].key
          /\ h[b].down = NULL <=> rank[b] = 1
      BY <3>1, RankedBlock
    <3>3. rank[b] <= h[h[b].intermed].level /\ rank[b] \in Nat
      BY <3>1, <1>10 DEF Indexed, Ranked
    <3>4. h[b].right # NULL => R[h[b].right] = rank[b] /\ g[h[b].right] = h[h[b].right]
      <4>1. h[b].right # NULL => h[b].right \in Nat /\ rank[h[b].right] > 0
        BY <3>1, <3>2
      <4>2. QED
        BY <3>2, <4>1, <1>10
    <3>5. h[b].down # NULL => R[h[b].down] = rank[b] - 1 /\ g[h[b].down] = h[h[b].down]
      <4>1. h[b].down # NULL => h[b].down \in Nat /\ rank[h[b].down] > 0
        BY <3>2, <3>3
      <4>2. QED
        BY <3>2, <4>1, <1>10
    <3>6. g[h[b].intermed].key = h[b].key /\ rank[b] <= g[h[b].intermed].level
      <4> DEFINE i == h[b].intermed
      <4>1. i \in C /\ h[i].key = h[b].key /\ rank[b] <= h[i].level
        BY <3>2, <3>3
      <4>2. CASE i = First
        BY <4>1, <4>2, <3>3, <1>1, <1>6, <1>8
      <4>3. CASE i # First
        <5>1. g[i] = h[i]
          BY <4>1, <4>3, <1>t DEF Chained
        <5>2. QED
          BY <4>1, <5>1
      <4>4. QED
        BY <4>2, <4>3
    <3>7. QED
      BY <3>1, <3>2, <3>4, <3>5, <3>6
  <2>3. QED
    BY <2>1, <2>2
<1>13. Ranked(g, C, R, L + 1)
  BY <1>3, <1>12 DEF Ranked
<1>14. \A b \in I : /\ b \in Nat /\ rank[b] > 0 /\ g[b] = h[b] /\ R[b] = rank[b]
                    /\ R[b] # R[f] /\ b # f
  <2> TAKE b \in I
  <2>1. b \in Nat /\ rank[b] > 0
    BY <1>11
  <2>2. b # f /\ g[b] = h[b] /\ R[b] = rank[b] /\ rank[b] \in Nat /\ rank[b] <= L
    BY <2>1, <1>10
  <2>3. R[b] # R[f]
    BY <2>2, <1>1, <1>3, SMTT(30)
  <2>4. QED
    BY <2>1, <2>2, <2>3
<1>15. \A b \in J : b \in I \/ b = f
  BY DEF J
<1>16. Rowed(g, R, J)
  <2>0. R[f] > 0
    BY <1>1, <1>3
  <2>1. J \subseteq Nat /\ \A b \in J : R[b] > 0
    BY <2>0, <1>14, <1>15
  <2>2. \A b, c \in J : R[b] = R[c] /\ g[b].key = g[c].key => b = c
    <3>1. \A b, c \in I : R[b] = R[c] /\ g[b].key = g[c].key => b = c
      BY <1>14, ZenonT(30) DEF Indexed, Rowed
    <3>2. QED
      BY <3>1, <1>14, <1>15
  <2>3. ASSUME NEW b \in J
        PROVE  IF g[b].right = NULL THEN \A c \in J : R[c] = R[b] => g[c].key <= g[b].key
               ELSE /\ g[b].right \in J
                    /\ \A c \in J : R[c] = R[b] =>
                         g[c].key <= g[b].key \/ g[g[b].right].key <= g[c].key
    <3>1. CASE b = f
      <4>1. \A c \in J : R[c] = R[b] => c = f
        BY <3>1, <1>14, <1>15
      <4>2. QED
        BY <3>1, <4>1, <1>9
    <3>2. CASE b \in I
      <4>1. IF h[b].right = NULL THEN \A c \in I : rank[c] = rank[b] => h[c].key <= h[b].key
            ELSE /\ h[b].right \in I
                 /\ \A c \in I : rank[c] = rank[b] =>
                      h[c].key <= h[b].key \/ h[h[b].right].key <= h[c].key
        BY <3>2 DEF Indexed, Rowed
      <4>2. \A c \in J : R[c] = R[b] => c \in I /\ rank[c] = rank[b]
        BY <3>2, <1>14, <1>15
      <4>3. \A c \in I : g[c] = h[c] /\ c \in J
        BY <1>14 DEF J
      <4>4. QED
        BY <3>2, <4>1, <4>2, <4>3
    <3>3. QED
      BY <3>1, <3>2, <1>15
  <2>4. QED
    BY <2>1, <2>2, <2>3 DEF Rowed
<1>17. Headed(g, R, J, top)
  <2>1. ASSUME NEW r \in 1 .. L + 1
        PROVE  /\ R[top[r]] = r /\ g[top[r]].key = 0
               /\ g[top[r]].down = IF r = 1 THEN NULL ELSE top[r - 1]
    <3>1. CASE r = L + 1
      <4>1. r - 1 = L /\ r # 1 /\ L \in 1 .. L
        BY <3>1, <1>1
      <4>2. top[r - 1] = heads[L]
        BY <4>1, <1>4
      <4>3. QED
        BY <3>1, <4>1, <4>2, <1>3, <1>5, <1>9
    <3>2. CASE r # L + 1
      <4>1. r \in 1 .. L /\ (r # 1 => r - 1 \in 1 .. L)
        BY <3>2, <1>1
      <4>2. /\ rank[heads[r]] = r /\ h[heads[r]].key = 0
            /\ h[heads[r]].down = IF r = 1 THEN NULL ELSE heads[r - 1]
        BY <4>1 DEF Indexed, Headed, L
      <4>3. top[r] = heads[r] /\ heads[r] \in I /\ (r # 1 => top[r - 1] = heads[r - 1])
        BY <4>1, <1>4
      <4>4. QED
        BY <4>2, <4>3, <1>14
    <3>3. QED
      BY <3>1, <3>2
  <2>2. QED
    BY <2>1, <1>4 DEF Headed
<1>18. Indexed(g, C, R, J, top)
  BY <1>4, <1>13, <1>16, <1>17 DEF Indexed
<1>19. QED
  BY <1>18 DEF R, J, top, L

\* An index of one row that holds but its first inode f.
LEMMA IndexedNew ==
  ASSUME NEW g, NEW C, First \in C, g[First].key = 0, g[First].level >= 1,
         NEW f \in Nat, f \in DOMAIN g, g[f] = Inode(NULL, NULL, First, 0)
  PROVE  Indexed(g, C, [b \in Nat |-> IF b = f THEN 1 ELSE 0], {f}, <<f>>)
<1> DEFINE R == [b \in Nat |-> IF b = f THEN 1 ELSE 0]
<1>1. R \in [Nat -> 0 .. 1] /\ R[f] = 1 /\ \A b \in Nat : R[b] > 0 => b = f
  OBVIOUS
<1>2. /\ g[f].kind = "inode" /\ g[f].right = NULL /\ g[f].down = NULL
      /\ g[f].intermed = First /\ g[f].key = 0
  BY DEF Inode
<1>3. Len(<<f>>) = 1 /\ <<f>> \in Seq({f}) /\ <<f>> # <<>> /\ <<f>>[1] = f
  OBVIOUS
<1> HIDE DEF R
<1>4. Ranked(g, C, R, Len(<<f>>))
  BY <1>1, <1>2, <1>3 DEF Ranked
<1>5. Rowed(g, R, {f})
  <2>1. g[f].key <= g[f].key
    BY <1>2
  <2>2. QED
    BY <2>1, <1>1, <1>2 DEF Rowed
<1>6. Headed(g, R, {f}, <<f>>)
  <2>1. \A r \in 1 .. Len(<<f>>) : r = 1
    BY <1>3
  <2>2. QED
    BY <2>1, <1>1, <1>2, <1>3 DEF Headed
<1>7. QED
  BY <1>4, <1>5, <1>6 DEF Indexed, R

-----------------------------------------------------------------------------
(* The memory.                                                             *)

\* A block of a memory is a block of any larger memory.
LEMMA BlocksGrow ==
  ASSUME NEW n \in Nat, NEW m \in Nat, n <= m, NEW K, NEW x \in Blocks(n, K)
  PROVE  x \in Blocks(m, K)
<1>1. 0 .. n \subseteq 0 .. m
  OBVIOUS
<1>2. x \in MnodeOf(n, K) => x \in MnodeOf(m, K)
  BY <1>1 DEF MnodeOf
<1>3. x \in InodeOf(n, K) => x \in InodeOf(m, K)
  BY <1>1 DEF InodeOf
<1>4. QED
  BY <1>2, <1>3 DEF Blocks

\* A function from 1 .. n to blocks is a memory.
LEMMA HeapIs ==
  ASSUME NEW K \in SUBSET Nat, NEW n \in Nat, NEW g \in [1 .. n -> Blocks(n, K)]
  PROVE  Heap(g, K) /\ Len(g) = n /\ DOMAIN g = 1 .. n
<1>1. g \in Seq(Blocks(n, K)) /\ Len(g) = n /\ DOMAIN g = 1 .. n
  BY FunctionIsSeq
<1>2. QED
  BY <1>1 DEF Heap

\* ... and a memory is such a function.
LEMMA HeapBlocks ==
  ASSUME NEW h, NEW K, Heap(h, K)
  PROVE  K \in SUBSET Nat /\ Len(h) \in Nat /\ h \in [1 .. Len(h) -> Blocks(Len(h), K)]
BY DEF Heap

\* One block of the memory gets the contents x.
LEMMA HeapExcept ==
  ASSUME NEW h, NEW K, Heap(h, K), NEW b \in 1 .. Len(h), NEW x \in Blocks(Len(h), K)
  PROVE  LET g == [h EXCEPT ![b] = x]
         IN  /\ Heap(g, K) /\ Len(g) = Len(h) /\ DOMAIN g = DOMAIN h /\ DOMAIN g = 1 .. Len(h)
             /\ g[b] = x /\ \A c \in DOMAIN h : c # b => g[c] = h[c]
<1> DEFINE g == [h EXCEPT ![b] = x]
<1>1. K \in SUBSET Nat /\ Len(h) \in Nat /\ h \in [1 .. Len(h) -> Blocks(Len(h), K)]
  BY HeapBlocks
<1>2. g \in [1 .. Len(h) -> Blocks(Len(h), K)]
  BY <1>1
<1>3. g[b] = x /\ \A c \in DOMAIN h : c # b => g[c] = h[c]
  BY <1>1
<1>4. DOMAIN h = 1 .. Len(h)
  BY <1>1
<1> HIDE DEF g
<1>5. Heap(g, K) /\ Len(g) = Len(h) /\ DOMAIN g = 1 .. Len(h)
  BY <1>1, <1>2, HeapIs
<1>6. QED
  BY <1>3, <1>4, <1>5 DEF g

\* g is h with x in the block f, which is a new one or the one given back last.
Allocates(h, g, f, x, K) ==
  /\ Heap(g, K) /\ DOMAIN h \subseteq DOMAIN g /\ Len(h) <= Len(g)
  /\ f \in DOMAIN g /\ f \in Nat /\ f # NULL /\ f <= Len(g)
  /\ g[f] = x
  /\ \A b \in DOMAIN h : b # f => g[b] = h[b]

\* What nalloc and the stores into the new block do.
LEMMA PutIs ==
  ASSUME NEW K, Heap(mem, K), last \in 1 .. Len(mem), released \in BOOLEAN,
         NEW x \in Blocks(Len(mem), K)
  PROVE  /\ Allocates(mem, Put(x), Fresh, x, K)
         /\ released => Fresh = last
         /\ ~released => Fresh \notin DOMAIN mem
<1>1. K \in SUBSET Nat /\ Len(mem) \in Nat /\ DOMAIN mem = 1 .. Len(mem)
      /\ mem \in [1 .. Len(mem) -> Blocks(Len(mem), K)]
  <2>1. K \in SUBSET Nat /\ Len(mem) \in Nat /\ mem \in [1 .. Len(mem) -> Blocks(Len(mem), K)]
    BY HeapBlocks
  <2>2. QED
    BY <2>1
<1>2. CASE released
  <2>1. Fresh = last /\ Put(x) = [mem EXCEPT ![last] = x]
    BY <1>2 DEF Fresh, Put
  <2> DEFINE g == [mem EXCEPT ![last] = x]
  <2>2. /\ Heap(g, K) /\ Len(g) = Len(mem) /\ DOMAIN g = DOMAIN mem
        /\ g[last] = x /\ \A c \in DOMAIN mem : c # last => g[c] = mem[c]
    BY HeapExcept
  <2> HIDE DEF g
  <2>3. last \in Nat /\ last # NULL /\ last <= Len(mem) /\ last \in DOMAIN mem
    BY <1>1 DEF NULL
  <2>4. Allocates(mem, g, last, x, K)
    BY <2>2, <2>3, <1>1 DEF Allocates
  <2>5. QED
    BY <1>2, <2>1, <2>4 DEF g
<1>3. CASE ~released
  <2> DEFINE N == Len(mem)
             g == Append(mem, x)
  <2>1. Fresh = N + 1 /\ Put(x) = g
    BY <1>3 DEF Fresh, Put
  <2>2. DOMAIN g = 1 .. N + 1 /\ Len(g) = N + 1 /\ g[N + 1] = x
        /\ \A b \in 1 .. N : g[b] = mem[b]
    BY DEF Heap
  <2> HIDE DEF g
  <2>3. \A b \in 1 .. N + 1 : g[b] \in Blocks(N + 1, K)
    <3> TAKE b \in 1 .. N + 1
    <3>1. g[b] \in Blocks(N, K)
      <4>1. CASE b = N + 1
        BY <4>1, <2>2
      <4>2. CASE b # N + 1
        <5>1. b \in 1 .. N
          BY <4>2, <1>1
        <5>2. QED
          BY <5>1, <2>2, <1>1
      <4>3. QED
        BY <4>1, <4>2
    <3>2. QED
      BY <3>1, <1>1, BlocksGrow
  <2>4. Heap(g, K)
    <3>1. g = [b \in 1 .. N + 1 |-> g[b]]
      <4>1. g \in Seq(Blocks(N, K))
        BY DEF Heap, g
      <4>2. QED
        BY <4>1, <2>2
    <3>2. g \in [1 .. N + 1 -> Blocks(N + 1, K)]
      BY <2>3, <3>1
    <3>3. QED
      BY <1>1, <3>2, HeapIs
  <2>5. N + 1 \in Nat /\ N + 1 # NULL /\ N + 1 \in DOMAIN g /\ N + 1 \notin DOMAIN mem
        /\ DOMAIN mem \subseteq DOMAIN g
    BY <1>1, <2>2 DEF NULL
  <2>6. Allocates(mem, g, N + 1, x, K)
    BY <1>1, <2>2, <2>4, <2>5 DEF Allocates
  <2>7. QED
    BY <1>3, <2>1, <2>5, <2>6
<1>4. QED
  BY <1>2, <1>3

\* A store to a field of an mnode leaves a block.
LEMMA MnodeStore ==
  ASSUME NEW N, NEW K, NEW x \in MnodeOf(N, K)
  PROVE  /\ \A n \in 0 .. N : [x EXCEPT !.next = n] \in Blocks(N, K)
         /\ \A l \in Nat : [x EXCEPT !.level = l] \in Blocks(N, K)
         /\ \A b \in BOOLEAN : [x EXCEPT !.marked = b] \in Blocks(N, K)
<1>1. \A n \in 0 .. N : [x EXCEPT !.next = n] \in MnodeOf(N, K)
  BY DEF MnodeOf
<1>2. \A l \in Nat : [x EXCEPT !.level = l] \in MnodeOf(N, K)
  BY DEF MnodeOf
<1>3. \A b \in BOOLEAN : [x EXCEPT !.marked = b] \in MnodeOf(N, K)
  BY DEF MnodeOf
<1>4. QED
  BY <1>1, <1>2, <1>3 DEF Blocks

\* So does a store to the right pointer of an inode.
LEMMA InodeStore ==
  ASSUME NEW N, NEW K, NEW x \in InodeOf(N, K), NEW n \in 0 .. N
  PROVE  [x EXCEPT !.right = n] \in Blocks(N, K)
<1>1. [x EXCEPT !.right = n] \in InodeOf(N, K)
  BY DEF InodeOf
<1>2. QED
  BY <1>1 DEF Blocks

\* What mnode_new, inode_new and nfree leave in the memory are blocks.
LEMMA NewBlocks ==
  ASSUME NEW N, NEW K, NEW a \in 0 .. N, NEW b \in 0 .. N, NEW m \in 0 .. N, NEW k \in K \cup {0}
  PROVE  Mnode(a, k) \in Blocks(N, K) /\ Inode(a, b, m, k) \in Blocks(N, K) /\ Zeroed \in Blocks(N, K)
<1>1. Mnode(a, k) \in MnodeOf(N, K)
  BY DEF Mnode, MnodeOf
<1>2. Inode(a, b, m, k) \in InodeOf(N, K)
  BY DEF Inode, InodeOf
<1>3. QED
  BY <1>1, <1>2 DEF Blocks

\* The memory after a store.
Grown(h, g, K) == Heap(g, K) /\ DOMAIN h \subseteq DOMAIN g /\ Len(h) <= Len(g)

\* A store into a block of the memory that Put has left.
LEMMA ThenExcept ==
  ASSUME NEW h, NEW K, Heap(h, K), NEW g, NEW f, NEW x, Allocates(h, g, f, x, K),
         NEW b \in DOMAIN h, b # f, NEW y \in Blocks(Len(g), K)
  PROVE  LET e == [g EXCEPT ![b] = y]
         IN  /\ Grown(h, e, K) /\ DOMAIN e = DOMAIN g /\ Len(e) = Len(g)
             /\ e[f] = x /\ e[b] = y
             /\ \A c \in DOMAIN h : c # b /\ c # f => e[c] = h[c]
<1> DEFINE e == [g EXCEPT ![b] = y]
<1>1. /\ Heap(g, K) /\ DOMAIN h \subseteq DOMAIN g /\ f \in DOMAIN g /\ g[f] = x
      /\ Len(h) <= Len(g) /\ \A c \in DOMAIN h : c # f => g[c] = h[c]
  BY DEF Allocates
<1>2. b \in 1 .. Len(g)
  BY <1>1, HeapHolds
<1>3. /\ Heap(e, K) /\ Len(e) = Len(g) /\ DOMAIN e = DOMAIN g
      /\ e[b] = y /\ \A c \in DOMAIN g : c # b => e[c] = g[c]
  BY <1>1, <1>2, HeapExcept
<1> HIDE DEF e
<1>4. Grown(h, e, K)
  BY <1>1, <1>3 DEF Grown
<1>5. e[f] = x /\ \A c \in DOMAIN h : c # b /\ c # f => e[c] = h[c]
  BY <1>1, <1>3
<1>6. QED
  BY <1>3, <1>4, <1>5 DEF e

\* A block has no more pointers in a memory that is larger.
LEMMA GrownBlocks ==
  ASSUME NEW h, NEW K, Heap(h, K), NEW g, Heap(g, K), Len(h) <= Len(g)
  PROVE  /\ \A x \in Blocks(Len(h), K) : x \in Blocks(Len(g), K)
         /\ \A b \in 1 .. Len(h) : h[b].kind = "mnode" => h[b] \in MnodeOf(Len(g), K)
         /\ \A b \in 1 .. Len(h) : h[b].kind = "inode" => h[b] \in InodeOf(Len(g), K)
         /\ 0 .. Len(h) \subseteq 0 .. Len(g) /\ Len(g) \in Nat
<1>1. Len(h) \in Nat /\ Len(g) \in Nat
  BY HeapHolds
<1>2. \A x \in Blocks(Len(h), K) : x \in Blocks(Len(g), K)
  BY <1>1, BlocksGrow
<1>3. \A b \in 1 .. Len(h) : h[b] \in Blocks(Len(g), K)
  <2>1. \A b \in 1 .. Len(h) : h[b] \in Blocks(Len(h), K)
    BY HeapBlocks
  <2>2. QED
    BY <1>2, <2>1
<1>4. \A b \in 1 .. Len(h) : h[b].kind = "mnode" => h[b] \in MnodeOf(Len(g), K)
  BY <1>3, BlockKinds
<1>5. \A b \in 1 .. Len(h) : h[b].kind = "inode" => h[b] \in InodeOf(Len(g), K)
  BY <1>3, BlockKinds
<1>6. 0 .. Len(h) \subseteq 0 .. Len(g)
  BY <1>1
<1>7. QED
  BY <1>1, <1>2, <1>4, <1>5, <1>6

\* A new mnode of the key k, linked in after m.
Added(h, g, m, k, f) ==
  /\ f \in DOMAIN g /\ g[f] = Mnode(h[m].next, k)
  /\ g[m] = [h[m] EXCEPT !.next = f]
  /\ \A b \in DOMAIN h : b \notin {m, f} => g[b] = h[b]

\* The two stores that add an mnode: mnode_new, and the pointer of its neighbour.
LEMMA StoreMnode ==
  ASSUME NEW K, Heap(mem, K), last \in 1 .. Len(mem), released \in BOOLEAN,
         NEW m \in 1 .. Len(mem), mem[m].kind = "mnode", m # Fresh, NEW k \in K
  PROVE  LET g == [Put(Mnode(mem[m].next, k)) EXCEPT ![m].next = Fresh]
         IN  Grown(mem, g, K) /\ Added(mem, g, m, k, Fresh)
<1> DEFINE x == Mnode(mem[m].next, k)
           p == Put(x)
           y == [mem[m] EXCEPT !.next = Fresh]
<1>1. DOMAIN mem = 1 .. Len(mem) /\ mem[m].next \in 0 .. Len(mem)
  BY HeapHolds
<1>2. x \in Blocks(Len(mem), K)
  <2>1. NULL \in 0 .. Len(mem)
    BY HeapHolds DEF NULL
  <2>2. QED
    BY <1>1, <2>1, NewBlocks
<1> HIDE DEF x, p, y
<1>3. Allocates(mem, p, Fresh, x, K)
  BY <1>2, PutIs DEF p
<1>4. Heap(p, K) /\ Len(mem) <= Len(p) /\ Fresh \in 0 .. Len(p) /\ p[m] = mem[m]
      /\ Fresh \in DOMAIN p
  BY <1>1, <1>3, HeapHolds DEF Allocates
<1>5. y \in Blocks(Len(p), K)
  BY <1>4, GrownBlocks, MnodeStore DEF y
<1> DEFINE g == [p EXCEPT ![m] = y]
<1>6. /\ Grown(mem, g, K) /\ g[Fresh] = x /\ g[m] = y /\ DOMAIN g = DOMAIN p
      /\ \A c \in DOMAIN mem : c # m /\ c # Fresh => g[c] = mem[c]
  BY <1>1, <1>3, <1>5, ThenExcept
<1>7. [p EXCEPT ![m].next = Fresh] = g
  BY <1>4 DEF y
<1> HIDE DEF g
<1>8. Added(mem, g, m, k, Fresh)
  BY <1>4, <1>6 DEF Added, x, y
<1>9. QED
  BY <1>6, <1>7, <1>8 DEF p, x

\* The stores that raise an mnode or an inode: inode_new, its neighbour's pointer, the level.
LEMMA StoreInode ==
  ASSUME NEW K, Heap(mem, K), last \in 1 .. Len(mem), released \in BOOLEAN,
         NEW m \in 1 .. Len(mem), mem[m].kind = "mnode", m # Fresh,
         NEW p \in 1 .. Len(mem), mem[p].kind = "inode", p # Fresh,
         NEW d \in 0 .. Len(mem), NEW r \in Nat
  PROVE  LET g == [Put(Inode(mem[p].right, d, m, mem[m].key)) EXCEPT
                     ![p].right = Fresh, ![m].level = r]
         IN  Grown(mem, g, K) /\ Inserted(mem, g, r, p, m, d, Fresh)
<1> DEFINE x == Inode(mem[p].right, d, m, mem[m].key)
           q == Put(x)
           y == [mem[p] EXCEPT !.right = Fresh]
           z == [mem[m] EXCEPT !.level = r]
<1>1. DOMAIN mem = 1 .. Len(mem) /\ mem[p].right \in 0 .. Len(mem) /\ m \in 0 .. Len(mem)
  BY HeapHolds
<1>2. x \in Blocks(Len(mem), K)
  <2>1. mem[m].key \in K \cup {0}
    BY HeapHolds, MnodeFields
  <2>2. QED
    BY <1>1, <2>1, NewBlocks
<1>p. p # m
  OBVIOUS
<1> HIDE DEF x, q, y, z
<1>3. Allocates(mem, q, Fresh, x, K)
  BY <1>2, PutIs DEF q
<1>4. Heap(q, K) /\ Len(mem) <= Len(q) /\ Fresh \in 0 .. Len(q) /\ q[m] = mem[m] /\ q[p] = mem[p]
      /\ Fresh \in DOMAIN q /\ DOMAIN mem \subseteq DOMAIN q
  BY <1>1, <1>3, HeapHolds DEF Allocates
<1>5. y \in Blocks(Len(q), K) /\ z \in Blocks(Len(q), K)
  <2>1. mem[p] \in InodeOf(Len(q), K) /\ mem[m] \in MnodeOf(Len(q), K)
    BY <1>4, GrownBlocks
  <2>2. QED
    BY <2>1, <1>4, InodeStore, MnodeStore DEF y, z
<1> DEFINE e == [q EXCEPT ![p] = y]
           g == [e EXCEPT ![m] = z]
<1>6. /\ Grown(mem, e, K) /\ e[Fresh] = x /\ e[p] = y /\ DOMAIN e = DOMAIN q /\ Len(e) = Len(q)
      /\ \A c \in DOMAIN mem : c # p /\ c # Fresh => e[c] = mem[c]
  BY <1>1, <1>3, <1>5, ThenExcept
<1>7. [q EXCEPT ![p].right = Fresh, ![m].level = r] = g
  BY <1>4, <1>p DEF y, z
<1> HIDE DEF e
<1>8. /\ Heap(g, K) /\ Len(g) = Len(e) /\ DOMAIN g = DOMAIN e
      /\ g[m] = z /\ \A c \in DOMAIN e : c # m => g[c] = e[c]
  <2>1. Heap(e, K) /\ m \in 1 .. Len(e)
    BY <1>6, HeapHolds DEF Grown
  <2>2. z \in Blocks(Len(e), K)
    BY <1>5, <1>6
  <2>3. QED
    BY ONLY <2>1, <2>2, HeapExcept
<1> HIDE DEF g
<1>9. Grown(mem, g, K)
  BY <1>4, <1>6, <1>8 DEF Grown
<1>10. Inserted(mem, g, r, p, m, d, Fresh)
  <2>1. g[Fresh] = x /\ Fresh \in DOMAIN g
    BY <1>4, <1>6, <1>8
  <2>2. g[p] = y
    BY <1>1, <1>4, <1>6, <1>8, <1>p
  <2>3. \A b \in DOMAIN mem : b \notin {p, m, Fresh} => g[b] = mem[b]
    BY <1>4, <1>6, <1>8
  <2>4. QED
    BY <2>1, <2>2, <2>3, <1>8, <1>9 DEF Inserted, Grown, x, y, z
<1>11. QED
  BY <1>7, <1>9, <1>10 DEF q, x

\* The stores of a new top row.
LEMMA StoreTop ==
  ASSUME NEW K, Heap(mem, K), last \in 1 .. Len(mem), released \in BOOLEAN,
         First \in 1 .. Len(mem), mem[First].kind = "mnode", First # Fresh,
         NEW s \in 1 .. Len(mem)
  PROVE  LET g == [Put(Inode(NULL, s, First, 0)) EXCEPT ![First].level = @ + 1]
         IN  Grown(mem, g, K) /\ Topped(mem, g, s, Fresh)
<1> DEFINE x == Inode(NULL, s, First, 0)
           q == Put(x)
           z == [mem[First] EXCEPT !.level = @ + 1]
<1>1. DOMAIN mem = 1 .. Len(mem) /\ First \in 0 .. Len(mem) /\ s \in 0 .. Len(mem)
      /\ NULL \in 0 .. Len(mem)
  BY HeapHolds DEF NULL
<1>2. x \in Blocks(Len(mem), K)
  BY <1>1, NewBlocks
<1> HIDE DEF x, q, z
<1>3. Allocates(mem, q, Fresh, x, K)
  BY <1>2, PutIs DEF q
<1>4. Heap(q, K) /\ Len(mem) <= Len(q) /\ q[First] = mem[First]
      /\ Fresh \in DOMAIN q /\ DOMAIN mem \subseteq DOMAIN q
  BY <1>1, <1>3, HeapHolds DEF Allocates
<1>5. z \in Blocks(Len(q), K)
  <2>1. mem[First] \in MnodeOf(Len(q), K)
    BY <1>4, GrownBlocks
  <2>2. mem[First].level + 1 \in Nat
    BY HeapHolds
  <2>3. QED
    BY <2>1, <2>2, MnodeStore DEF z
<1> DEFINE g == [q EXCEPT ![First] = z]
<1>6. /\ Grown(mem, g, K) /\ g[Fresh] = x /\ g[First] = z /\ DOMAIN g = DOMAIN q
      /\ \A c \in DOMAIN mem : c # First /\ c # Fresh => g[c] = mem[c]
  BY <1>1, <1>3, <1>5, ThenExcept
<1>7. [q EXCEPT ![First].level = @ + 1] = g
  BY <1>4 DEF z
<1> HIDE DEF g
<1>8. Topped(mem, g, s, Fresh)
  BY <1>4, <1>6 DEF Topped, Grown, x, z
<1>9. QED
  BY <1>6, <1>7, <1>8 DEF q, x

-----------------------------------------------------------------------------
(* The inductive invariant, as long as the index is not lowered.           *)

\* C is the chain, I and rank are the rows, heads is inodes[0 ..] of bg_trav_mnodes.
Structure(C, rank, I, heads) ==
  /\ Chained(mem, C) /\ Indexed(mem, C, rank, I, heads)
  /\ heads[Len(heads)] = sentinel
  /\ mem[First].level = Len(heads)

\* The block of the last allocation, if an mnode, is in the chain or being freed.
Allocated(C) ==
  /\ released => mem[last] = Zeroed
  /\ mem[last].kind = "mnode" => last \in C \/ (pc = "mfree" /\ last = old)
  /\ pc = "mfree" =>
       /\ old \in DOMAIN mem /\ mem[old].kind = "mnode" /\ old \notin C
       /\ mem[old].key \notin KeysOf(mem, C)

\* The keys of the mnodes of C that are not marked as deleted.
LiveKeys(h, C) == {h[m].key : m \in {c \in C \ {First} : ~h[c].marked}}
Mirrored(C) == LiveKeys(mem, C) = live

\* What the helper has established in a round, and before the first deletion.
Stage(C, rank, I, heads) ==
  /\ pc = "mraise" => \A c \in C : mem[c].marked => mem[c].level > 0
  /\ pc = "iraise" => row \in 1 .. Len(heads) - 1 /\ at \in I /\ rank[at] = row
  /\ phase = "populate" => (\A c \in C : ~mem[c].marked) /\ ~released /\ pc # "mfree"

\* W are mnodes from which a search gets past no key of st.
Passable(h, C, W, st) ==
  /\ W \subseteq DOMAIN h /\ C \subseteq W
  /\ \A w \in W :
       /\ h[w].kind = "mnode"
       /\ h[w].next # NULL => h[w].next \in W
       /\ \A k \in st : h[w].key < k => h[w].next # NULL /\ h[h[w].next].key <= k

\* The search is on an inode below its key, or on an mnode not beyond it.
Searching(C, rank) ==
  /\ search.pc # "done" => search.at \in DOMAIN mem /\ search.key \in Keys
  /\ search.pc \in {"right", "down"} =>
       rank[search.at] > 0 /\ mem[search.at].key < search.key
  /\ search.pc # "done" /\ clean =>
       \E W : /\ Passable(mem, C, W, stay)
              /\ search.pc = "walk" => search.at \in W /\ mem[search.at].key <= search.key
  /\ search.pc = "done" /\ clean =>
       /\ search.entry \in 0 .. search.key
       /\ \A k \in stay : k <= search.key => k <= search.entry

\* With the operations of the program, an mnode with a level that is deleted, or is
\* the one inserted last, has a live mnode of its own next to it: one that stood
\* beside it when it was raised.
Tall(h, C, k) == {c \in C \ {First} : h[c].level > 0 /\ (h[c].marked \/ h[c].key = k)}
Base(h, C, k) == {c \in C \ {First} : ~h[c].marked /\ h[c].key # k}
Paired(h, T, B) ==
  \A x \in T : \E z \in B : /\ h[x].key < h[z].key
                            /\ \A y \in T : h[x].key < h[y].key => h[z].key < h[y].key
Counted(C) ==
  Alternating =>
    /\ tall_del <= non_del
    /\ mine # 0 => phase = "measure"
    /\ Paired(mem, Tall(mem, C, mine), Base(mem, C, mine))

\* The invariant of the memory, for the chain and the rows that it has.
Sound(C, rank, I, heads) ==
  /\ Structure(C, rank, I, heads)
  /\ Allocated(C) /\ Mirrored(C) /\ Stage(C, rank, I, heads) /\ Searching(C, rank) /\ Counted(C)

\* The types of the variables; pc is never "corrupt".
SearchType ==
  /\ search \in [pc : {"right", "down", "walk", "done"}, key : Nat, at : 0 .. Len(mem),
                 entry : Keys \cup {0, NoNode}]

HelperType ==
  /\ at \in 0 .. Len(mem) /\ old \in 0 .. Len(mem) /\ row \in Nat
  /\ raised \in BOOLEAN /\ skipping \in BOOLEAN
  /\ non_del \in Nat /\ tall_del \in Nat
  /\ pc \in {"loop", "remove", "mfree", "mraise", "iraise", "lower"}

MemoryType ==
  /\ setting \in Settings
  /\ Heap(mem, Keys)
  /\ last \in 1 .. Len(mem) /\ sentinel \in 1 .. Len(mem) /\ released \in BOOLEAN

WorkType ==
  /\ phase \in {"populate", "rebuild", "measure"}
  /\ live \subseteq Keys /\ stay \subseteq Keys /\ clean \in BOOLEAN /\ mine \in Nat

Types == SearchType /\ HelperType /\ MemoryType /\ WorkType

\* The inductive invariant.
IInv == Types /\ \E C, rank, I, heads : Sound(C, rank, I, heads)

-----------------------------------------------------------------------------
(* What a store keeps of the search, and of the pairs.                     *)

\* The mnodes keep their keys and pointers.
Linked(h, g) ==
  /\ DOMAIN h \subseteq DOMAIN g
  /\ \A b \in DOMAIN h : h[b].kind = "mnode" =>
       g[b].kind = "mnode" /\ g[b].key = h[b].key /\ g[b].next = h[b].next

\* Where the mnodes keep keys and pointers, a search may pass the same ones.
LEMMA PassableKept ==
  ASSUME NEW h, NEW g, Linked(h, g), NEW C, NEW W, NEW st, Passable(h, C, W, st)
  PROVE  Passable(g, C, W, st) /\ \A w \in W : g[w].key = h[w].key
<1>1. /\ W \subseteq DOMAIN h /\ C \subseteq W
      /\ \A w \in W :
           /\ h[w].kind = "mnode"
           /\ h[w].next # NULL => h[w].next \in W
           /\ \A k \in st : h[w].key < k => h[w].next # NULL /\ h[h[w].next].key <= k
  BY DEF Passable
<1>2. \A w \in W : /\ g[w].kind = "mnode" /\ g[w].key = h[w].key /\ g[w].next = h[w].next
                   /\ w \in DOMAIN g
  BY <1>1 DEF Linked
<1>3. ASSUME NEW w \in W
      PROVE  /\ g[w].kind = "mnode"
             /\ g[w].next # NULL => g[w].next \in W
             /\ \A k \in st : g[w].key < k => g[w].next # NULL /\ g[g[w].next].key <= k
  <2>1. h[w].next # NULL => g[h[w].next].key = h[h[w].next].key
    BY <1>1, <1>2
  <2>2. QED
    BY <2>1, <1>1, <1>2
<1>4. QED
  BY <1>1, <1>2, <1>3 DEF Passable

\* The key k belongs after m, and f is not an mnode yet.
Adding(K, h, g, C, m, k, f) ==
  /\ Heap(h, K) /\ Chained(h, C) /\ DOMAIN h \subseteq DOMAIN g
  /\ m \in C /\ k \in Nat /\ h[m].key < k
  /\ h[m].next # NULL => k < h[h[m].next].key
  /\ f # NULL /\ (f \notin DOMAIN h \/ h[f].kind # "mnode") /\ Added(h, g, m, k, f)

\* V are mnodes W, which keep their keys, and others.
Wider(h, g, W, V) == W \subseteq V /\ \A w \in W : g[w].key = h[w].key

\* The search passes the new mnode as well.
LEMMA PassableMore ==
  ASSUME NEW K, NEW h, NEW g, NEW C, NEW m, NEW k, NEW f, Adding(K, h, g, C, m, k, f),
         NEW W, NEW st, st \subseteq Nat, Passable(h, C, W, st),
         NEW D, D = C \cup {f}
  PROVE  \E V : Wider(h, g, W, V) /\ Passable(g, D, V, st)
<1> USE DEF Adding
<1>1. /\ W \subseteq DOMAIN h /\ C \subseteq W
      /\ \A w \in W :
           /\ h[w].kind = "mnode"
           /\ h[w].next # NULL => h[w].next \in W
           /\ \A q \in st : h[w].key < q => h[w].next # NULL /\ h[h[w].next].key <= q
  BY DEF Passable
<1>2. f \notin W
  BY <1>1
<1>3. h[m] \in MnodeOf(Len(h), K) /\ h[m].key \in Nat
      /\ (h[m].next # NULL => h[m].next \in C)
  BY ChainBlock, HeapHolds
<1>4. /\ g[m].kind = "mnode" /\ g[m].next = f /\ g[m].key = h[m].key
  BY <1>3 DEF MnodeOf, Added
<1>5. /\ g[f].kind = "mnode" /\ g[f].next = h[m].next /\ g[f].key = k /\ f \in DOMAIN g
  BY DEF Mnode, Added
<1>6. \A w \in W : /\ g[w].kind = "mnode" /\ g[w].key = h[w].key /\ w \in DOMAIN g
                   /\ g[w].next = IF w = m THEN f ELSE h[w].next
  <2>1. \A w \in W : w # m => g[w] = h[w]
    BY <1>1, <1>2 DEF Added
  <2>2. QED
    BY <2>1, <1>1, <1>4
<1>7. \A q \in st : h[m].key < q => /\ h[m].next # NULL /\ h[m].next \in W
                                    /\ g[h[m].next].key <= q /\ k <= q
  <2> SUFFICES ASSUME NEW q \in st, h[m].key < q
      PROVE h[m].next # NULL /\ h[m].next \in W /\ g[h[m].next].key <= q /\ k <= q
    OBVIOUS
  <2>1. h[m].next # NULL /\ h[h[m].next].key <= q /\ h[m].next \in C
    BY <1>1, <1>3
  <2>2. h[h[m].next].key \in Nat
    BY <2>1, ChainBlock
  <2>3. k < h[h[m].next].key
    BY <2>1
  <2>4. k <= q
    <3>1. q \in Nat
      OBVIOUS
    <3>2. QED
      BY ONLY <2>1, <2>2, <2>3, <3>1, k \in Nat
  <2>5. QED
    BY <2>1, <2>4, <1>1, <1>6
<1> DEFINE V == W \cup {f}
<1>8. ASSUME NEW w \in V
      PROVE  /\ g[w].kind = "mnode"
             /\ g[w].next # NULL => g[w].next \in V
             /\ \A q \in st : g[w].key < q => g[w].next # NULL /\ g[g[w].next].key <= q
  <2>1. CASE w = f
    <3>1. \A q \in st : k < q => h[m].key < q
      BY <1>3
    <3>2. h[m].next # NULL => h[m].next \in V
      BY <1>1, <1>3
    <3>3. QED
      BY <2>1, <3>1, <3>2, <1>5, <1>7
  <2>2. CASE w = m
    <3>1. \A q \in st : h[m].key < q => g[f].key <= q
      BY <1>5, <1>7
    <3>2. QED
      BY <2>2, <3>1, <1>4
  <2>3. CASE w \in W /\ w # m
    <3>1. h[w].next # NULL => h[w].next \in W /\ g[h[w].next].key = h[h[w].next].key
      BY <2>3, <1>1, <1>6
    <3>2. QED
      BY <2>3, <3>1, <1>1, <1>6
  <2>4. QED
    BY <2>1, <2>2, <2>3
<1>9. V \subseteq DOMAIN g /\ D \subseteq V /\ W \subseteq V
  BY <1>1, <1>5, <1>6
<1>10. QED
  <2> HIDE DEF V
  <2>1. Passable(g, D, V, st)
    BY <1>8, <1>9 DEF Passable
  <2>2. QED
    BY <2>1, <1>6, <1>9 DEF Wider

\* The mnode d, which follows p, leaves the chain.
Unlinking(K, h, g, C, p, d) ==
  /\ Heap(h, K) /\ Chained(h, C) /\ DOMAIN h \subseteq DOMAIN g
  /\ p \in C /\ d \in C /\ h[p].next = d /\ d # NULL /\ d # First
  /\ g[p] = [h[p] EXCEPT !.next = h[d].next]
  /\ \A b \in DOMAIN h : b # p => g[b] = h[b]

\* The search passes the mnode that has left, and all that follow.
LEMMA PassableLess ==
  ASSUME NEW K, NEW h, NEW g, NEW C, NEW p, NEW d, Unlinking(K, h, g, C, p, d),
         NEW D, D = C \ {d}, NEW W, NEW st, st \subseteq Nat, Passable(h, C, W, st),
         NEW st2, st2 = st \ {h[d].key}
  PROVE  Wider(h, g, W, W) /\ Passable(g, D, W, st2)
<1> USE DEF Unlinking
<1>1. /\ W \subseteq DOMAIN h /\ C \subseteq W
      /\ \A w \in W :
           /\ h[w].kind = "mnode"
           /\ h[w].next # NULL => h[w].next \in W
           /\ \A q \in st : h[w].key < q => h[w].next # NULL /\ h[h[w].next].key <= q
  BY DEF Passable
<1>2. h[p] \in MnodeOf(Len(h), K) /\ h[p].key < h[d].key /\ h[d].key \in Nat /\ h[p].key \in Nat
      /\ d \in W
  BY <1>1, ChainBlock, HeapHolds
<1>3. g[p].kind = "mnode" /\ g[p].next = h[d].next /\ g[p].key = h[p].key
  BY <1>2 DEF MnodeOf
<1>4. \A w \in W : /\ g[w].kind = "mnode" /\ g[w].key = h[w].key /\ w \in DOMAIN g
                   /\ g[w].next = IF w = p THEN h[d].next ELSE h[w].next
  BY <1>1, <1>3
<1>5. ASSUME NEW w \in W
      PROVE  /\ g[w].kind = "mnode"
             /\ g[w].next # NULL => g[w].next \in W
             /\ \A q \in st2 : g[w].key < q => g[w].next # NULL /\ g[g[w].next].key <= q
  <2>1. CASE w = p
    <3>1. \A q \in st2 : h[p].key < q => h[d].key < q
      <4> SUFFICES ASSUME NEW q \in st2, h[p].key < q PROVE h[d].key < q
        OBVIOUS
      <4>1. h[d].key <= q /\ q # h[d].key /\ q \in Nat
        BY <1>1, <1>2
      <4>2. QED
        BY <4>1, <1>2
    <3>2. h[d].next # NULL => h[d].next \in W /\ g[h[d].next].key = h[h[d].next].key
      BY <1>1, <1>2, <1>4
    <3>3. \A q \in st2 : h[d].key < q => h[d].next # NULL /\ h[h[d].next].key <= q
      BY <1>1, <1>2
    <3>4. QED
      BY <2>1, <3>1, <3>2, <3>3, <1>3
  <2>2. CASE w # p
    <3>1. h[w].next # NULL => h[w].next \in W /\ g[h[w].next].key = h[h[w].next].key
      BY <1>1, <1>4
    <3>2. QED
      BY <2>2, <3>1, <1>1, <1>4
  <2>3. QED
    BY <2>1, <2>2
<1>6. QED
  <2>1. W \subseteq DOMAIN g /\ D \subseteq W
    BY <1>1, <1>4
  <2>2. Passable(g, D, W, st2)
    BY <1>5, <2>1 DEF Passable
  <2>3. QED
    BY <2>2, <1>4 DEF Wider

\* A step of the helper under the search.
LEMMA SearchingKept ==
  ASSUME NEW C, NEW rank, NEW D, NEW R, Searching(C, rank),
         search' = search, clean' = clean, setting' = setting, stay' \subseteq stay,
         DOMAIN mem \subseteq DOMAIN mem',
         search.pc \in {"right", "down"} =>
           R[search.at] > 0 /\ mem'[search.at].key = mem[search.at].key,
         \A W : Passable(mem, C, W, stay) =>
           \E V : Wider(mem, mem', W, V) /\ Passable(mem', D, V, stay')
  PROVE  Searching(D, R)'
<1>1. search.pc # "done" => search.at \in DOMAIN mem' /\ search.key \in Keys'
  BY DEF Searching, Keys
<1>2. search.pc \in {"right", "down"} =>
       R[search.at] > 0 /\ mem'[search.at].key < search.key
  BY DEF Searching
<1>3. search.pc # "done" /\ clean =>
       \E V : /\ Passable(mem', D, V, stay')
              /\ search.pc = "walk" => search.at \in V /\ mem'[search.at].key <= search.key
  <2> SUFFICES ASSUME search.pc # "done", clean
      PROVE \E V : /\ Passable(mem', D, V, stay')
                   /\ search.pc = "walk" => search.at \in V /\ mem'[search.at].key <= search.key
    OBVIOUS
  <2>1. PICK W : /\ Passable(mem, C, W, stay)
                 /\ search.pc = "walk" => search.at \in W /\ mem[search.at].key <= search.key
    BY DEF Searching
  <2>2. PICK V : Wider(mem, mem', W, V) /\ Passable(mem', D, V, stay')
    BY <2>1
  <2>3. search.pc = "walk" => search.at \in V /\ mem'[search.at].key <= search.key
    BY <2>1, <2>2 DEF Wider
  <2>4. QED
    BY <2>2, <2>3
<1>4. search.pc = "done" /\ clean =>
       /\ search.entry \in 0 .. search.key
       /\ \A k \in stay' : k <= search.key => k <= search.entry
  BY DEF Searching
<1>5. QED
  BY <1>1, <1>2, <1>3, <1>4 DEF Searching, Passable

\* It only stores into inodes, or the level or the mark of an mnode.
LEMMA SearchingLinked ==
  ASSUME NEW C, NEW rank, NEW R, NEW n, Ranked(mem, C, rank, n), Searching(C, rank),
         search' = search, clean' = clean, setting' = setting, stay' = stay,
         Linked(mem, mem'),
         \A b \in Nat : rank[b] > 0 => R[b] > 0 /\ mem'[b].key = mem[b].key,
         search.at \in Nat
  PROVE  Searching(C, R)'
<1>1. search.pc \in {"right", "down"} =>
           R[search.at] > 0 /\ mem'[search.at].key = mem[search.at].key
  BY DEF Searching
<1>2. \A W : Passable(mem, C, W, stay) =>
           \E V : Wider(mem, mem', W, V) /\ Passable(mem', C, V, stay')
  <2> SUFFICES ASSUME NEW W, Passable(mem, C, W, stay)
               PROVE  \E V : Wider(mem, mem', W, V) /\ Passable(mem', C, V, stay')
    OBVIOUS
  <2>1. Passable(mem', C, W, stay') /\ \A w \in W : mem'[w].key = mem[w].key
    BY PassableKept
  <2>2. Wider(mem, mem', W, W)
    BY <2>1 DEF Wider
  <2>3. QED
    BY <2>1, <2>2
<1>3. DOMAIN mem \subseteq DOMAIN mem'
  BY DEF Linked
<1>4. stay' \subseteq stay
  OBVIOUS
<1>5. QED
  BY <1>1, <1>2, <1>3, <1>4, SearchingKept

\* A pairing of deleted keys with others is kept by every change that spares the keys.
LEMMA PairedKept ==
  ASSUME NEW h, NEW g, NEW T, NEW B, Paired(h, T, B), NEW T2, NEW B2,
         T2 \subseteq T, B \subseteq B2,
         \A c \in T : g[c].key = h[c].key, \A c \in B : g[c].key = h[c].key
  PROVE  Paired(g, T2, B2)
<1>1. ASSUME NEW x \in T2
      PROVE  \E z \in B2 : /\ g[x].key < g[z].key
                           /\ \A y \in T2 : g[x].key < g[y].key => g[z].key < g[y].key
  <2>1. PICK z \in B : /\ h[x].key < h[z].key
                       /\ \A y \in T : h[x].key < h[y].key => h[z].key < h[y].key
    BY DEF Paired
  <2>2. z \in B2 /\ g[z].key = h[z].key /\ g[x].key = h[x].key
    OBVIOUS
  <2>3. \A y \in T2 : y \in T /\ g[y].key = h[y].key
    OBVIOUS
  <2>4. QED
    BY <2>1, <2>2, <2>3
<1>2. QED
  BY <1>1 DEF Paired

\* m is raised between its neighbours a and b.
LEMMA PairedRaised ==
  ASSUME NEW K, NEW h, Heap(h, K), NEW C, Chained(h, C), NEW T, NEW B, Paired(h, T, B),
         T \subseteq C, B \subseteq C,
         NEW a \in B, NEW m \in C, NEW b \in B, h[a].next = m, m # NULL, h[m].next = b, b # NULL,
         m \notin B, a \notin T, b \notin T
  PROVE  Paired(h, T \cup {m}, B)
<1>1. \A c \in C : h[c].key \in Nat /\ \A d \in C : h[d].key = h[c].key => d = c
  BY ChainBlock
<1>2. /\ h[a].key < h[m].key /\ h[m].key < h[b].key
      /\ \A d \in C : h[d].key <= h[a].key \/ h[m].key <= h[d].key
      /\ \A d \in C : h[d].key <= h[m].key \/ h[b].key <= h[d].key
  <2>1. a \in C /\ m \in C
    OBVIOUS
  <2>2. QED
    BY <2>1 DEF Chained
<1>3. ASSUME NEW x \in T \cup {m}
      PROVE  \E z \in B : /\ h[x].key < h[z].key
                          /\ \A y \in T \cup {m} : h[x].key < h[y].key => h[z].key < h[y].key
  <2>1. CASE x = m
    <3>1. \A y \in T \cup {m} : h[m].key < h[y].key => h[b].key < h[y].key
      <4> SUFFICES ASSUME NEW y \in T, h[m].key < h[y].key PROVE h[b].key < h[y].key
        BY <1>1
      <4>1. y \in C /\ b \in C /\ m \in C /\ y # b
        OBVIOUS
      <4>2. h[y].key \in Nat /\ h[b].key \in Nat /\ h[m].key \in Nat /\ h[y].key # h[b].key
        BY <4>1, <1>1
      <4>3. h[y].key <= h[m].key \/ h[b].key <= h[y].key
        BY <4>1, <1>2
      <4>4. QED
        BY <4>2, <4>3
    <3>2. QED
      BY <2>1, <3>1, <1>2
  <2>2. CASE x \in T
    <3>1. PICK z \in B : /\ h[x].key < h[z].key
                         /\ \A y \in T : h[x].key < h[y].key => h[z].key < h[y].key
      BY <2>2 DEF Paired
    <3>2. /\ h[x].key \in Nat /\ h[z].key \in Nat /\ h[m].key \in Nat /\ h[a].key \in Nat
          /\ h[z].key # h[m].key /\ h[x].key # h[a].key
      <4>1. x \in C /\ z \in C /\ m \in C /\ a \in C /\ z # m /\ x # a
        BY <2>2
      <4>2. QED
        BY <4>1, <1>1
    <3>3. CASE h[m].key <= h[x].key \/ h[z].key < h[m].key
      <4>1. h[x].key < h[m].key => h[z].key < h[m].key
        BY <3>2, <3>3
      <4>2. QED
        BY <3>1, <4>1
    <3>4. CASE h[x].key < h[m].key /\ h[m].key < h[z].key
      <4>1. h[x].key < h[a].key
        <5>1. h[x].key <= h[a].key \/ h[m].key <= h[x].key
          BY <2>2, <1>2
        <5>2. QED
          BY <5>1, <3>2, <3>4
      <4>2. \A y \in T \cup {m} : h[x].key < h[y].key => h[a].key < h[y].key
        <5> SUFFICES ASSUME NEW y \in T, h[x].key < h[y].key PROVE h[a].key < h[y].key
          BY <1>2
        <5>1. h[z].key < h[y].key
          BY <3>1
        <5>2. h[y].key \in Nat
          BY <1>1
        <5>3. QED
          BY <5>1, <5>2, <3>2, <3>4, <1>2
      <4>3. QED
        BY <4>1, <4>2
    <3>5. QED
      BY <3>2, <3>3, <3>4
  <2>3. QED
    BY <2>1, <2>2
<1>4. QED
  BY <1>3 DEF Paired

\* There are no more of the former than of the latter.
LEMMA PairedCount ==
  ASSUME NEW h, NEW T, NEW B, Paired(h, T, B), IsFiniteSet(B),
         \A c \in T : h[c].key \in Nat, \A c \in B : h[c].key \in Nat,
         \A c, d \in T : h[c].key = h[d].key => c = d
  PROVE  IsFiniteSet(T) /\ Cardinality(T) <= Cardinality(B)
<1> DEFINE Right(x, z) == /\ h[x].key < h[z].key
                          /\ \A y \in T : h[x].key < h[y].key => h[z].key < h[y].key
           f == [x \in T |-> CHOOSE z \in B : Right(x, z)]
<1>1. \A x \in T : f[x] \in B /\ Right(x, f[x])
  <2> TAKE x \in T
  <2>1. \E z \in B : Right(x, z)
    BY DEF Paired
  <2>2. f[x] = CHOOSE z \in B : Right(x, z)
    OBVIOUS
  <2> HIDE DEF Right, f
  <2>3. QED
    BY <2>1, <2>2
<1>2. f \in [T -> B]
  <2>1. DOMAIN f = T /\ f = [x \in DOMAIN f |-> f[x]]
    OBVIOUS
  <2> HIDE DEF f
  <2>2. QED
    BY <2>1, <1>1
<1>3. \A x, y \in T : f[x] = f[y] => x = y
  <2> SUFFICES ASSUME NEW x \in T, NEW y \in T, f[x] = f[y] PROVE x = y
    OBVIOUS
  <2>1. /\ f[x] \in B /\ f[y] \in B /\ h[x].key < h[f[x]].key /\ h[y].key < h[f[y]].key
        /\ h[x].key < h[y].key => h[f[x]].key < h[y].key
        /\ h[y].key < h[x].key => h[f[y]].key < h[x].key
    BY <1>1
  <2> HIDE DEF f, Right
  <2>2. h[x].key \in Nat /\ h[y].key \in Nat /\ h[f[x]].key \in Nat
    BY <2>1
  <2>3. h[x].key = h[y].key
    BY <2>1, <2>2
  <2>4. QED
    BY <2>3
<1> HIDE DEF f
<1>4. f \in Injection(T, B)
  BY <1>2, <1>3 DEF Injection, IsInjective
<1>5. QED
  BY <1>4, FS_Injection

-----------------------------------------------------------------------------
(* Steps of the helper that store nothing.                                 *)

\* What Setting says of the setting that a run has chosen.
LEMMA KeysType ==
  ASSUME MemoryType
  PROVE  /\ Keys \subseteq Nat \ {0} /\ Keys \in SUBSET Nat
         /\ Populated \subseteq Keys /\ IsFiniteSet(Populated)
         /\ SearchKeys \subseteq Keys /\ Alternating \in BOOLEAN
         /\ setting.ratio \in Nat /\ (Alternating => setting.ratio > 0)
<1>1. Setting(setting)
  BY SettingsAssumption DEF MemoryType
<1>2. QED
  BY <1>1 DEF Setting, Keys, Populated, SearchKeys, Alternating

\* A step that stores nothing keeps every part of the invariant that is about the memory.
LEMMA Steady ==
  ASSUME MemoryType, SearchType, WorkType,
         NEW C, NEW rank, NEW I, NEW heads, Sound(C, rank, I, heads),
         UNCHANGED <<setting, mem, last, released, sentinel, search, stay, clean, live, mine,
                     phase>>,
         pc # "mfree", pc' # "mfree"
  PROVE  /\ MemoryType' /\ SearchType' /\ WorkType'
         /\ Structure(C, rank, I, heads)' /\ Allocated(C)' /\ Mirrored(C)'
         /\ Searching(C, rank)' /\ (UNCHANGED <<non_del, tall_del>> => Counted(C)')
<1>1. MemoryType'
  BY DEF MemoryType, Heap, Keys
<1>2. SearchType'
  BY DEF SearchType, Keys
<1>3. WorkType'
  BY DEF WorkType, Keys
<1>4. Structure(C, rank, I, heads)'
  BY SMTT(30) DEF Sound, Structure, Chained, Indexed, Ranked, Rowed, Headed
<1>5. Allocated(C)'
  BY DEF Sound, Allocated
<1>6. Mirrored(C)'
  BY DEF Sound, Mirrored, LiveKeys
<1>7. Searching(C, rank)'
  BY DEF Sound, Searching, Keys, Passable
<1>8. UNCHANGED <<non_del, tall_del>> => Counted(C)'
  BY DEF Sound, Counted, Alternating, Tall, Base, Paired
<1>9. QED
  BY <1>1, <1>2, <1>3, <1>4, <1>5, <1>6, <1>7, <1>8

\* The start of update_index_layer keeps the invariant.
LEMMA StartRoundStep ==
  ASSUME IInv, StartRound, setting' = setting
  PROVE  IInv'
<1>1. PICK C, rank, I, heads : Sound(C, rank, I, heads)
  BY DEF IInv
<1>2. /\ MemoryType' /\ SearchType' /\ WorkType'
      /\ Structure(C, rank, I, heads)' /\ Allocated(C)' /\ Mirrored(C)'
      /\ Searching(C, rank)' /\ Counted(C)'
  BY <1>1, Steady DEF IInv, Types, StartRound, alloc, count, history
<1>3. HelperType'
  BY DEF IInv, Types, HelperType, StartRound, round, count
<1>4. Stage(C, rank, I, heads)'
  BY <1>1 DEF Sound, Stage, StartRound, alloc
<1>5. QED
  BY <1>2, <1>3, <1>4 DEF IInv, Types, Sound

\* The counters of an index that is to be lowered are those of a run in which other
\* operations than those of the program are applied.
LEMMA NotLowered ==
  ASSUME HelperType, MemoryType, NEW C, Counted(C), Alternating
  PROVE  ~MustLower
<1>1. non_del \in Nat /\ tall_del \in Nat /\ tall_del <= non_del
  BY DEF HelperType, Counted
<1>2. setting.ratio \in Nat /\ setting.ratio > 0
  BY KeysType
<1> DEFINE x == setting.ratio
<1>3. x * non_del >= non_del
  <2>1. x \in Nat /\ x >= 1
    BY <1>2
  <2> HIDE DEF x
  <2>2. x * non_del = (x - 1) * non_del + non_del /\ (x - 1) * non_del \in Nat
    BY <1>1, <2>1
  <2>3. QED
    BY <1>1, <2>2
<1>4. x * non_del \in Nat
  BY <1>1, <1>2
<1> HIDE DEF x
<1>5. ~(tall_del > x * non_del)
  BY <1>1, <1>3, <1>4
<1>6. QED
  BY <1>5 DEF MustLower, x

\* The decision to lower the index keeps the invariant when it is not to lower it.
LEMMA EndRoundStep ==
  ASSUME IInv, EndRound, setting' = setting, Alternating \/ pc' # "cut"
  PROVE  IInv'
<1>1. PICK C, rank, I, heads : Sound(C, rank, I, heads)
  BY DEF IInv
<1>2. pc' = "loop" /\ UNCHANGED <<at, old>>
  <2>1. Alternating => ~MustLower
    BY <1>1, NotLowered DEF IInv, Types, Sound
  <2>2. QED
    BY <2>1 DEF EndRound
<1>3. /\ MemoryType' /\ SearchType' /\ WorkType'
      /\ Structure(C, rank, I, heads)' /\ Allocated(C)' /\ Mirrored(C)'
      /\ Searching(C, rank)' /\ Counted(C)'
  BY <1>1, <1>2, Steady DEF IInv, Types, EndRound, alloc, count, history
<1>4. HelperType'
  BY <1>2 DEF IInv, Types, HelperType, EndRound, count
<1>5. Stage(C, rank, I, heads)'
  BY <1>1, <1>2 DEF Sound, Stage, EndRound, alloc
<1>6. QED
  BY <1>3, <1>4, <1>5 DEF IInv, Types, Sound

\* bg_raise_ilevel passing an inode without raising it keeps the invariant.
LEMMA PassInodeStep ==
  ASSUME IInv, PassInode, setting' = setting
  PROVE  IInv'
<1>1. PICK C, rank, I, heads : Sound(C, rank, I, heads)
  BY DEF IInv
<1>2. /\ MemoryType' /\ SearchType' /\ WorkType'
      /\ Structure(C, rank, I, heads)' /\ Allocated(C)' /\ Mirrored(C)'
      /\ Searching(C, rank)' /\ Counted(C)'
  BY <1>1, Steady DEF IInv, Types, PassInode, alloc, count, history
<1>3. /\ at \in I /\ rank[at] = row /\ row \in 1 .. Len(heads) - 1
      /\ Heap(mem, Keys) /\ Indexed(mem, C, rank, I, heads)
  BY <1>1 DEF Sound, Stage, PassInode, Structure, IInv, Types, MemoryType
<1>4. at \in Nat /\ rank[at] > 0
  BY <1>3 DEF Indexed, Rowed
<1>5. at' = mem[at].right /\ mem[at].right # NULL
  BY DEF PassInode, Index
<1>6. mem[at].right \in I /\ rank[mem[at].right] = row
  <2>1. mem[at].right \in I
    BY <1>3, <1>5 DEF Indexed, Rowed
  <2>2. rank[mem[at].right] = rank[at]
    BY <1>3, <1>4, <1>5, RankedBlock
  <2>3. QED
    BY <2>1, <2>2, <1>3
<1>7. at' \in 0 .. Len(mem)
  <2>1. at' \in Nat /\ rank[at'] > 0
    BY <1>3, <1>5, <1>6 DEF Indexed, Rowed
  <2>2. at' \in 1 .. Len(mem)
    BY <1>3, <2>1, RankedBlock
  <2>3. QED
    BY <2>2
<1>8. HelperType'
  BY <1>7 DEF IInv, Types, HelperType, PassInode, count
<1>9. Stage(C, rank, I, heads)'
  BY <1>1, <1>3, <1>5, <1>6 DEF Sound, Stage, PassInode, alloc
<1>10. QED
  BY <1>2, <1>8, <1>9 DEF IInv, Types, Sound

\* The chain is finite, and so is every part of it.
LEMMA ChainFinite ==
  ASSUME NEW K, NEW h, Heap(h, K), NEW C, Chained(h, C)
  PROVE  IsFiniteSet(C) /\ \A S \in SUBSET C : IsFiniteSet(S) /\ Cardinality(S) \in Nat
<1>1. DOMAIN h = 1 .. Len(h) /\ Len(h) \in Nat
  BY HeapHolds
<1>2. IsFiniteSet(1 .. Len(h))
  BY <1>1, FS_Interval
<1>3. C \subseteq 1 .. Len(h)
  BY <1>1 DEF Chained
<1>4. \A S \in SUBSET C : IsFiniteSet(S)
  BY <1>2, <1>3, FS_Subset
<1>5. QED
  BY <1>4, FS_CardinalityType

\* The end of bg_trav_mnodes, where the counters are brought up to date.
LEMMA EndRemovalStep ==
  ASSUME IInv, EndRemoval, setting' = setting
  PROVE  IInv'
<1>1. PICK C, rank, I, heads : Sound(C, rank, I, heads)
  BY DEF IInv
<1>2. /\ MemoryType' /\ SearchType' /\ WorkType'
      /\ Structure(C, rank, I, heads)' /\ Allocated(C)' /\ Mirrored(C)'
      /\ Searching(C, rank)'
  BY <1>1, Steady DEF IInv, Types, EndRemoval, alloc, history
<1>3. Heap(mem, Keys) /\ Chained(mem, C) /\ non_del \in Nat /\ tall_del \in Nat
  BY <1>1 DEF Sound, Structure, IInv, Types, MemoryType, HelperType
<1>4. Members(Chain) = C
  BY <1>3, ChainIs
<1> DEFINE R == C \ {First}
           B == {m \in R : Undeleted(m)}
           T == {m \in R : ~Undeleted(m) /\ Level(m) >= 1}
<1>5. /\ \A m \in R : ~Removable(m)
      /\ non_del' = non_del + Cardinality(B) /\ tall_del' = tall_del + Cardinality(T)
      /\ pc' = "mraise"
  BY <1>4, Zenon DEF EndRemoval
<1>6. IsFiniteSet(B) /\ Cardinality(B) \in Nat /\ Cardinality(T) \in Nat
  <2>1. B \in SUBSET C /\ T \in SUBSET C
    OBVIOUS
  <2> HIDE DEF B, T
  <2>2. QED
    BY <1>3, <2>1, ChainFinite
<1>7. HelperType'
  <2>1. non_del' \in Nat /\ tall_del' \in Nat
    <3> HIDE DEF B, T
    <3> QED
      BY <1>3, <1>5, <1>6
  <2>2. QED
    BY <2>1 DEF IInv, Types, HelperType, EndRemoval
<1>8. Stage(C, rank, I, heads)'
  <2>1. \A c \in C : mem[c].marked => mem[c].level > 0
    <3> TAKE c \in C
    <3>1. CASE c = First
      BY <1>3, <3>1 DEF Chained
    <3>2. CASE c # First
      <4>1. mem[c].level \in Nat
        BY <1>3, ChainBlock
      <4>2. ~Removable(c)
        BY <1>5, <3>2
      <4>3. QED
        BY <4>1, <4>2 DEF Removable
    <3>3. QED
      BY <3>1, <3>2
  <2>2. phase = "populate" => (\A c \in C : ~mem[c].marked) /\ ~released
    BY <1>1 DEF Sound, Stage
  <2>3. pc' = "mraise" /\ mem' = mem /\ released' = released /\ phase' = phase
    BY DEF EndRemoval, alloc
  <2>4. QED
    BY <2>1, <2>2, <2>3 DEF Stage
<1>9. Counted(C)'
  <2> SUFFICES ASSUME Alternating
               PROVE  /\ tall_del' <= non_del'
                      /\ mine # 0 => phase = "measure"
                      /\ Paired(mem, Tall(mem, C, mine), Base(mem, C, mine))
    BY DEF Counted, EndRemoval, Alternating
  <2>1. /\ tall_del <= non_del
        /\ mine # 0 => phase = "measure"
        /\ Paired(mem, Tall(mem, C, mine), Base(mem, C, mine))
    BY <1>1 DEF Sound, Counted
  <2>2. \A c \in C : mem[c].key \in Nat /\ mem[c].level \in Nat
                     /\ \A d \in C : mem[d].key = mem[c].key => d = c
    BY <1>3, ChainBlock
  <2>3. Paired(mem, T, B)
    <3>1. T \subseteq Tall(mem, C, mine)
      BY <2>2 DEF Tall, Undeleted, Level
    <3>2. Base(mem, C, mine) \subseteq B
      BY DEF Base, Undeleted
    <3> HIDE DEF T, B
    <3>3. QED
      BY <2>1, <3>1, <3>2, PairedKept
  <2>4. Cardinality(T) <= Cardinality(B)
    <3>1. /\ \A c \in T : mem[c].key \in Nat
          /\ \A c \in B : mem[c].key \in Nat
          /\ \A c, d \in T : mem[c].key = mem[d].key => c = d
      BY <2>2
    <3> HIDE DEF T, B
    <3>2. QED
      BY <1>6, <2>3, <3>1, PairedCount
  <2>5. tall_del' <= non_del'
    <3> HIDE DEF T, B
    <3>1. QED
      BY <1>3, <1>5, <1>6, <2>1, <2>4
  <2>6. QED
    BY <2>1, <2>5
<1>10. QED
  BY <1>2, <1>7, <1>8, <1>9 DEF IInv, Types, Sound

-----------------------------------------------------------------------------
(* Steps of the search.                                                    *)

\* A step that leaves the memory alone leaves the chain and the rows as they are.
LEMMA StructureSame ==
  ASSUME NEW C, NEW rank, NEW I, NEW heads, Structure(C, rank, I, heads),
         mem' = mem, sentinel' = sentinel
  PROVE  Structure(C, rank, I, heads)'
<1>1. Chained(mem, C) => Chained(mem, C)'
  BY DEF Chained
<1>2. Ranked(mem, C, rank, Len(heads)) => Ranked(mem, C, rank, Len(heads))'
  BY DEF Ranked
<1>3. Rowed(mem, rank, I) => Rowed(mem, rank, I)'
  BY DEF Rowed
<1>4. Headed(mem, rank, I, heads) => Headed(mem, rank, I, heads)'
  BY DEF Headed
<1>5. QED
  BY <1>1, <1>2, <1>3, <1>4 DEF Structure, Indexed

\* A step that leaves the helper and the memory as they are.
LEMMA SearchSteady ==
  ASSUME HelperType, MemoryType, WorkType, stay' \subseteq Keys, clean' \in BOOLEAN,
         NEW C, NEW rank, NEW I, NEW heads, Sound(C, rank, I, heads),
         UNCHANGED <<setting, mem, alloc, sentinel, count, pc, round, phase, mine, live>>
  PROVE  /\ HelperType' /\ MemoryType' /\ WorkType'
         /\ Structure(C, rank, I, heads)' /\ Allocated(C)' /\ Mirrored(C)'
         /\ Stage(C, rank, I, heads)' /\ Counted(C)'
<1> USE DEF alloc, count, round
<1>1. MemoryType'
  BY DEF MemoryType, Heap, Keys
<1>2. HelperType'
  BY DEF HelperType
<1>3. WorkType'
  BY DEF WorkType, Keys
<1>4. Structure(C, rank, I, heads)'
  <2>1. Structure(C, rank, I, heads) /\ mem' = mem /\ sentinel' = sentinel
    BY DEF Sound
  <2>2. QED
    BY ONLY <2>1, StructureSame
<1>5. Allocated(C)'
  BY DEF Sound, Allocated
<1>6. Mirrored(C)'
  BY DEF Sound, Mirrored, LiveKeys
<1>7. Stage(C, rank, I, heads)'
  BY DEF Sound, Stage
<1>8. Counted(C)'
  BY DEF Sound, Counted, Alternating, Tall, Base, Paired
<1>9. QED
  BY <1>1, <1>2, <1>3, <1>4, <1>5, <1>6, <1>7, <1>8

\* The start of sl_traverse_index keeps the invariant.
LEMMA StartSearchStep ==
  ASSUME IInv, NEW k \in SearchKeys, StartSearch(k), setting' = setting
  PROVE  IInv'
<1>1. PICK C, rank, I, heads : Sound(C, rank, I, heads)
  BY DEF IInv
<1>2. /\ Heap(mem, Keys) /\ Chained(mem, C) /\ Indexed(mem, C, rank, I, heads)
      /\ heads[Len(heads)] = sentinel
  BY <1>1 DEF Sound, Structure, IInv, Types, MemoryType
<1>3. k \in Keys /\ k \in Nat /\ k > 0 /\ Keys \in SUBSET Nat
  BY KeysType DEF IInv, Types
<1>4. Members(Chain) = C
  BY <1>2, ChainIs
<1>5. ChainKeys = KeysOf(mem, C) \ {0}
  BY <1>4 DEF ChainKeys, KeysOf
<1>6. \A c \in C : mem[c].key \in Keys \cup {0}
  <2> TAKE c \in C
  <2>1. c \in 1 .. Len(mem) /\ mem[c].kind = "mnode"
    BY <1>2, ChainBlock
  <2>2. QED
    BY <1>2, <2>1, HeapHolds, MnodeFields
<1>7. stay' \subseteq Keys /\ clean' \in BOOLEAN /\ stay' = ChainKeys
  BY <1>5, <1>6 DEF StartSearch, KeysOf
<1>8. /\ HelperType' /\ MemoryType' /\ WorkType'
      /\ Structure(C, rank, I, heads)' /\ Allocated(C)' /\ Mirrored(C)'
      /\ Stage(C, rank, I, heads)' /\ Counted(C)'
  BY <1>1, <1>7, SearchSteady DEF IInv, Types, StartSearch
<1>9. search' = [search EXCEPT !.pc = "right", !.key = k, !.at = sentinel] /\ mem' = mem
  BY DEF StartSearch
<1>10. /\ search'.pc = "right" /\ search'.key = k /\ search'.at = sentinel
       /\ SearchType'
  <2>1. sentinel \in 0 .. Len(mem)
    BY DEF IInv, Types, MemoryType
  <2>2. QED
    BY <1>3, <1>9, <2>1 DEF IInv, Types, SearchType, Keys
<1>11. sentinel \in DOMAIN mem /\ rank[sentinel] > 0 /\ mem[sentinel].key = 0
  <2>1. Len(heads) \in 1 .. Len(heads) /\ sentinel \in I
    BY <1>2 DEF Indexed, Headed
  <2>2. rank[sentinel] > 0 /\ mem[sentinel].key = 0 /\ sentinel \in Nat
    BY <1>2, <2>1 DEF Indexed, Headed, Rowed
  <2>3. sentinel \in DOMAIN mem
    BY <1>2, <2>2 DEF Indexed, Ranked
  <2>4. QED
    BY <2>2, <2>3
<1>12. Passable(mem, C, C, ChainKeys)
  <2>1. ASSUME NEW c \in C, NEW q \in ChainKeys, mem[c].key < q
        PROVE  mem[c].next # NULL /\ mem[mem[c].next].key <= q
    <3>1. PICK d \in C : mem[d].key = q
      BY <1>5 DEF KeysOf
    <3>2. mem[c].key \in Nat /\ mem[d].key \in Nat
      BY <1>2, ChainBlock
    <3>3. ~(mem[d].key <= mem[c].key)
      BY <2>1, <3>1, <3>2
    <3>4. QED
      BY <1>2, <3>1, <3>3 DEF Chained
  <2>2. \A c \in C : mem[c].kind = "mnode" /\ (mem[c].next # NULL => mem[c].next \in C)
    BY <1>2, ChainBlock
  <2>3. C \subseteq DOMAIN mem
    BY <1>2 DEF Chained
  <2>4. QED
    BY <2>1, <2>2, <2>3 DEF Passable
<1>13. Searching(C, rank)'
  <2>1. search'.pc # "done" => search'.at \in DOMAIN mem' /\ search'.key \in Keys'
    BY <1>3, <1>9, <1>10, <1>11 DEF Keys
  <2>2. rank[search'.at] > 0 /\ mem'[search'.at].key < search'.key
    BY <1>3, <1>9, <1>10, <1>11
  <2>3. \E W : /\ Passable(mem', C, W, stay')
               /\ search'.pc = "walk" => search'.at \in W /\ mem'[search'.at].key <= search'.key
    BY <1>7, <1>9, <1>10, <1>12
  <2>4. QED
    BY <1>10, <2>1, <2>2, <2>3 DEF Searching, Passable
<1>14. QED
  BY <1>8, <1>10, <1>13 DEF IInv, Types, Sound

\* The search goes on at the block b.
LEMMA Going ==
  ASSUME SearchType, Heap(mem, Keys), NEW C, NEW rank, Searching(C, rank),
         NEW b \in 1 .. Len(mem), NEW where \in {"right", "down", "walk"},
         search.pc # "done", Go(where, b), UNCHANGED <<setting, mem, stay, clean>>,
         where # "walk" => rank[b] > 0 /\ mem[b].key < search.key,
         \A W : /\ where = "walk" /\ clean /\ Passable(mem, C, W, stay)
                /\ search.pc = "walk" => search.at \in W /\ mem[search.at].key <= search.key
                => b \in W /\ mem[b].key <= search.key
  PROVE  SearchType' /\ Searching(C, rank)'
<1>1. DOMAIN mem = 1 .. Len(mem) /\ b \in 0 .. Len(mem)
  BY HeapHolds
<1>2. /\ search'.pc = where /\ search'.at = b /\ search'.key = search.key
      /\ SearchType'
  BY <1>1 DEF SearchType, Go, Keys
<1>3. search.key \in Keys
  BY DEF Searching
<1>4. search'.pc # "done" => search'.at \in DOMAIN mem' /\ search'.key \in Keys'
  BY <1>1, <1>2, <1>3 DEF Keys
<1>5. search'.pc \in {"right", "down"} =>
        rank[search'.at] > 0 /\ mem'[search'.at].key < search'.key
  BY <1>2
<1>6. search'.pc # "done" /\ clean' =>
       \E W : /\ Passable(mem', C, W, stay')
              /\ search'.pc = "walk" => search'.at \in W /\ mem'[search'.at].key <= search'.key
  <2> SUFFICES ASSUME clean
      PROVE \E W : /\ Passable(mem, C, W, stay)
                   /\ where = "walk" => b \in W /\ mem[b].key <= search.key
    BY <1>2 DEF Passable
  <2>1. PICK W : /\ Passable(mem, C, W, stay)
                 /\ search.pc = "walk" => search.at \in W /\ mem[search.at].key <= search.key
    BY DEF Searching
  <2>2. QED
    BY <2>1
<1>7. search'.pc # "done"
  BY <1>2
<1>8. QED
  BY <1>2, <1>4, <1>5, <1>6, <1>7 DEF Searching, Passable

\* The search ends with the node n.
LEMMA Answering ==
  ASSUME SearchType, Heap(mem, Keys), NEW C, NEW rank,
         NEW n \in Keys \cup {0, NoNode}, Answer(n), UNCHANGED <<setting, mem, stay, clean>>,
         clean => n \in 0 .. search.key /\ \A k \in stay : k <= search.key => k <= n
  PROVE  SearchType' /\ Searching(C, rank)'
<1>1. NULL \in 0 .. Len(mem)
  BY HeapHolds DEF NULL
<1>2. /\ search'.pc = "done" /\ search'.key = search.key /\ search'.entry = n
      /\ SearchType'
  BY <1>1 DEF SearchType, Answer, Keys
<1>3. QED
  BY <1>2 DEF Searching

\* It is at an inode of a row.
LEMMA AtInode ==
  ASSUME SearchType, MemoryType, NEW C, NEW rank, NEW I, NEW heads,
         Structure(C, rank, I, heads), Searching(C, rank), search.pc \in {"right", "down"}
  PROVE  LET b == search.at
         IN  /\ b \in 1 .. Len(mem) /\ mem[b].kind = "inode"
             /\ rank[b] > 0 /\ mem[b].key < search.key
             /\ mem[b].intermed \in C /\ mem[b].intermed \in 1 .. Len(mem)
             /\ mem[mem[b].intermed].key <= search.key
             /\ mem[b].right # NULL =>
                  /\ mem[b].right \in 1 .. Len(mem) /\ mem[mem[b].right].kind = "inode"
                  /\ rank[mem[b].right] > 0 /\ mem[mem[b].right].key \in Nat
             /\ mem[b].down # NULL =>
                  /\ mem[b].down \in 1 .. Len(mem)
                  /\ rank[mem[b].down] > 0 /\ mem[mem[b].down].key < search.key
<1> DEFINE b == search.at
<1>1. Heap(mem, Keys) /\ Chained(mem, C) /\ Indexed(mem, C, rank, I, heads)
  BY DEF MemoryType, Structure
<1>2. b \in DOMAIN mem /\ rank[b] > 0 /\ mem[b].key < search.key /\ search.key \in Keys
  BY DEF Searching
<1>3. b \in Nat /\ search.key \in Nat
  <2>1. Keys \in SUBSET Nat
    BY KeysType
  <2>2. b \in 1 .. Len(mem) /\ Len(mem) \in Nat
    BY <1>1, <1>2, HeapHolds
  <2>3. search.key \in Nat
    BY ONLY <1>2, <2>1
  <2>4. QED
    BY <2>2, <2>3
<1>4. /\ rank[b] \in Nat /\ b \in 1 .. Len(mem) /\ mem[b].kind = "inode" /\ mem[b].key \in Nat
      /\ mem[b].intermed \in C /\ mem[mem[b].intermed].key = mem[b].key
      /\ mem[b].right # NULL => mem[b].right \in Nat /\ rank[mem[b].right] = rank[b]
      /\ mem[b].down # NULL => /\ mem[b].down \in Nat /\ rank[b] > 1
                               /\ rank[mem[b].down] = rank[b] - 1
                               /\ mem[mem[b].down].key = mem[b].key
  BY <1>1, <1>2, <1>3, RankedBlock
<1>5. mem[b].right # NULL =>
        /\ mem[b].right \in 1 .. Len(mem) /\ mem[mem[b].right].kind = "inode"
        /\ rank[mem[b].right] > 0 /\ mem[mem[b].right].key \in Nat
  <2> SUFFICES ASSUME mem[b].right # NULL
      PROVE /\ mem[b].right \in 1 .. Len(mem) /\ mem[mem[b].right].kind = "inode"
            /\ rank[mem[b].right] > 0 /\ mem[mem[b].right].key \in Nat
    OBVIOUS
  <2>1. mem[b].right \in Nat /\ rank[mem[b].right] > 0
    BY <1>2, <1>4
  <2>2. QED
    BY <1>1, <2>1, RankedBlock
<1>6. mem[b].down # NULL =>
        /\ mem[b].down \in 1 .. Len(mem)
        /\ rank[mem[b].down] > 0 /\ mem[mem[b].down].key < search.key
  <2> SUFFICES ASSUME mem[b].down # NULL
      PROVE /\ mem[b].down \in 1 .. Len(mem)
            /\ rank[mem[b].down] > 0 /\ mem[mem[b].down].key < search.key
    OBVIOUS
  <2>1. mem[b].down \in Nat /\ rank[mem[b].down] > 0 /\ mem[mem[b].down].key < search.key
    BY <1>2, <1>4
  <2>2. QED
    BY <1>1, <2>1, RankedBlock
<1>7. mem[b].intermed \in 1 .. Len(mem)
  BY <1>1, <1>4, ChainBlock
<1>8. mem[mem[b].intermed].key <= search.key
  BY <1>2, <1>3, <1>4
<1>9. QED
  BY <1>2, <1>4, <1>5, <1>6, <1>7, <1>8

\* Every later step of sl_traverse_index keeps it.
LEMMA SearchStepStep ==
  ASSUME IInv, SearchStep, setting' = setting
  PROVE  IInv'
<1>1. PICK C, rank, I, heads : Sound(C, rank, I, heads)
  BY DEF IInv
<1>2. /\ Heap(mem, Keys) /\ Structure(C, rank, I, heads) /\ Searching(C, rank)
      /\ SearchType /\ MemoryType /\ WorkType /\ HelperType
  BY <1>1 DEF Sound, IInv, Types, MemoryType
<1>3. UNCHANGED <<setting, mem, alloc, sentinel, count, pc, round, phase, mine, history>>
  BY DEF SearchStep, SearchRight, SearchDown, SearchWalk, SearchLost
<1>4. UNCHANGED <<setting, mem, stay, clean, live>>
  BY <1>3 DEF history
<1>5. search.at \in 0 .. Len(mem) /\ search.key \in Nat /\ search.pc \in {"right", "down", "walk", "done"}
  BY <1>2 DEF SearchType
<1> DEFINE b == search.at
<1>w. ASSUME NEW W, Passable(mem, C, W, stay) PROVE C \subseteq W
  BY <1>w DEF Passable
<1>6. SearchType' /\ Searching(C, rank)'
  <2>1. CASE SearchRight
    <3>1. search.pc = "right" /\ mem[b].kind = "inode"
      BY <2>1 DEF SearchRight, Standing
    <3>2. /\ b \in 1 .. Len(mem) /\ rank[b] > 0 /\ mem[b].key < search.key
          /\ mem[b].intermed \in C /\ mem[b].intermed \in 1 .. Len(mem)
          /\ mem[mem[b].intermed].key <= search.key
          /\ mem[b].right # NULL =>
                  /\ mem[b].right \in 1 .. Len(mem) /\ mem[mem[b].right].kind = "inode"
                  /\ rank[mem[b].right] > 0 /\ mem[mem[b].right].key \in Nat
      BY <1>2, <3>1, AtInode
    <3> DEFINE r == mem[b].right
    <3>3. \/ Go("down", b)
          \/ r # NULL /\ mem[r].key < search.key /\ Go("right", r)
          \/ Go("walk", mem[b].intermed)
      BY <2>1, <3>2 DEF SearchRight
    <3>4. CASE Go("down", b)
      BY <1>2, <1>4, <3>1, <3>2, <3>4, Going
    <3>5. CASE r # NULL /\ mem[r].key < search.key /\ Go("right", r)
      BY <1>2, <1>4, <3>1, <3>2, <3>5, Going
    <3>6. CASE Go("walk", mem[b].intermed)
      <4>1. \A W : Passable(mem, C, W, stay) => mem[b].intermed \in W
        BY <1>w, <3>2
      <4>2. QED
        BY <1>2, <1>4, <3>1, <3>2, <3>6, <4>1, Going
    <3>7. QED
      BY <3>3, <3>4, <3>5, <3>6
  <2>2. CASE SearchDown
    <3>1. search.pc = "down" /\ mem[b].kind = "inode"
      BY <2>2 DEF SearchDown, Standing
    <3>2. /\ b \in 1 .. Len(mem)
          /\ mem[b].intermed \in C /\ mem[b].intermed \in 1 .. Len(mem)
          /\ mem[mem[b].intermed].key <= search.key
          /\ mem[b].down # NULL =>
                  /\ mem[b].down \in 1 .. Len(mem)
                  /\ rank[mem[b].down] > 0 /\ mem[mem[b].down].key < search.key
      BY <1>2, <3>1, AtInode
    <3>3. \/ Go("walk", mem[b].intermed)
          \/ mem[b].down # NULL /\ Go("right", mem[b].down)
      BY <2>2 DEF SearchDown
    <3>4. CASE Go("walk", mem[b].intermed)
      <4>1. \A W : Passable(mem, C, W, stay) => mem[b].intermed \in W
        BY <1>w, <3>2
      <4>2. QED
        BY <1>2, <1>4, <3>1, <3>2, <3>4, <4>1, Going
    <3>5. CASE mem[b].down # NULL /\ Go("right", mem[b].down)
      BY <1>2, <1>4, <3>1, <3>2, <3>5, Going
    <3>6. QED
      BY <3>3, <3>4, <3>5
  <2>3. CASE SearchWalk
    <3> DEFINE n == mem[b].next
    <3>1. search.pc = "walk" /\ mem[b].kind = "mnode" /\ b \in DOMAIN mem /\ search.key \in Keys
      BY <2>3, <1>2 DEF SearchWalk, Standing, Searching
    <3>2. b \in 1 .. Len(mem) /\ n \in 0 .. Len(mem) /\ mem[b].key \in Keys \cup {0}
      <4>1. b \in 1 .. Len(mem)
        BY <1>2, <3>1, HeapHolds
      <4>2. QED
        BY <1>2, <3>1, <4>1, HeapHolds, MnodeFields
    <3>3. n # NULL => n \in 1 .. Len(mem) /\ mem[n].kind \in {"mnode", "inode", "zero"}
      <4>1. n # NULL => n \in 1 .. Len(mem)
        BY <1>2, <3>2, HeapHolds DEF NULL
      <4>2. QED
        BY <1>2, <4>1, HeapHolds
    <3>4. \A W : Passable(mem, C, W, stay) /\ b \in W =>
                   /\ n # NULL => n \in W /\ mem[n].kind = "mnode"
                   /\ \A k \in stay : mem[b].key < k => n # NULL /\ mem[n].key <= k
      BY DEF Passable
    <3>5. Keys \in SUBSET Nat /\ stay \subseteq Keys
      BY <1>2, KeysType DEF WorkType
    <3>a. mem[b].key \in Nat /\ \A k \in stay : k \in Nat
      <4>1. \A x \in Keys : x \in Nat
        BY <3>5
      <4>2. \A k \in stay : k \in Nat
        BY <3>5, <4>1
      <4>3. mem[b].key \in Nat
        BY <3>2, <4>1
      <4>4. QED
        BY <4>2, <4>3
    <3>6. CASE Go("walk", n) /\ n # NULL
                /\ (mem[n].kind = "mnode" => mem[n].key <= search.key)
      <4>1. \A W : /\ Passable(mem, C, W, stay)
                   /\ search.pc = "walk" => b \in W /\ mem[b].key <= search.key
                   => n \in W /\ mem[n].key <= search.key
        BY <3>1, <3>4, <3>6
      <4> HIDE DEF n
      <4>2. QED
        BY <1>2, <1>4, <3>1, <3>3, <3>6, <4>1, Going
    <3>7. CASE Answer(mem[b].key) /\ (n # NULL /\ mem[n].kind = "mnode" => ~(mem[n].key <= search.key))
      <4>1. clean => /\ mem[b].key \in 0 .. search.key
                     /\ \A k \in stay : k <= search.key => k <= mem[b].key
        <5> SUFFICES ASSUME clean PROVE /\ mem[b].key \in 0 .. search.key
                                        /\ \A k \in stay : k <= search.key => k <= mem[b].key
          OBVIOUS
        <5>1. PICK W : Passable(mem, C, W, stay) /\ b \in W /\ mem[b].key <= search.key
          BY <1>2, <3>1 DEF Searching
        <5>2. mem[b].key \in 0 .. search.key
          BY <3>a, <5>1, <1>5
        <5>3. ASSUME NEW k \in stay, k <= search.key PROVE k <= mem[b].key
          <6>1. k \in Nat /\ mem[b].key \in Nat
            BY <3>a
          <6>2. mem[b].key < k => n # NULL /\ mem[n].key <= k /\ mem[n].kind = "mnode"
            BY <3>4, <5>1
          <6>3. n # NULL /\ mem[n].kind = "mnode" => mem[n].key \in Nat
            BY <1>2, <3>3, HeapHolds
          <6> HIDE DEF n
          <6>4. QED
            BY <6>1, <6>2, <6>3, <5>3, <3>7, <1>5
        <5>4. QED
          BY <5>2, <5>3
      <4>2. QED
        BY <1>2, <1>4, <3>2, <3>7, <4>1, Answering
    <3>8. QED
      <4>1. LET m == mem[search.at].next IN
              IF m # NULL /\ (CASE mem[m].kind = "mnode" -> mem[m].key <= search.key
                       [] mem[m].kind = "zero"  -> TRUE
                       [] mem[m].kind = "inode" -> FALSE)
              THEN Go("walk", m) ELSE Answer(mem[search.at].key)
        BY <2>3 DEF SearchWalk
      <4>2. \/ Go("walk", n) /\ n # NULL /\ (mem[n].kind = "mnode" => mem[n].key <= search.key)
            \/ Answer(mem[b].key) /\ (n # NULL /\ mem[n].kind = "mnode" => ~(mem[n].key <= search.key))
        BY <3>3, <4>1
      <4> HIDE DEF n, b
      <4>3. QED
        BY <4>2, <3>6, <3>7
  <2>4. CASE SearchLost
    <3>1. /\ search.pc # "done" /\ Answer(NoNode)
          /\ mem[b].kind # (IF search.pc = "walk" THEN "mnode" ELSE "inode")
      BY <2>4 DEF SearchLost
    <3>2. search.pc = "walk"
      <4>1. ~(search.pc \in {"right", "down"})
        <5> SUFFICES ASSUME search.pc \in {"right", "down"} PROVE FALSE
          OBVIOUS
        <5>1. mem[b].kind = "inode"
          BY <1>2, AtInode
        <5>2. QED
          BY <3>1, <5>1
      <4>2. QED
        BY <3>1, <4>1, <1>5
    <3>3. ~clean
      <4> SUFFICES ASSUME clean PROVE FALSE
        OBVIOUS
      <4>1. PICK W : Passable(mem, C, W, stay) /\ b \in W
        BY <1>2, <3>2 DEF Searching
      <4>2. QED
        BY <3>1, <3>2, <4>1 DEF Passable
    <3>4. QED
      BY <1>2, <1>4, <3>1, <3>3, Answering
  <2>5. QED
    BY <2>1, <2>2, <2>3, <2>4 DEF SearchStep
<1>7. /\ HelperType' /\ MemoryType' /\ WorkType'
      /\ Structure(C, rank, I, heads)' /\ Allocated(C)' /\ Mirrored(C)'
      /\ Stage(C, rank, I, heads)' /\ Counted(C)'
  <2>1. stay' \subseteq Keys /\ clean' \in BOOLEAN
    BY <1>2, <1>4 DEF WorkType
  <2>2. UNCHANGED <<setting, mem, alloc, sentinel, count, pc, round, phase, mine, live>>
    BY <1>3, <1>4
  <2>3. QED
    BY <1>1, <1>2, <2>1, <2>2, SearchSteady
<1>8. QED
  BY <1>6, <1>7 DEF IInv, Types, Sound

-----------------------------------------------------------------------------
(* The operations of the array.                                            *)

\* The operation on k turned the chain C of h into the chain D of g.
Applied(h, g, C, D, k, insert) ==
  /\ C \subseteq D /\ First \in C
  /\ \A c \in C : /\ g[c].key = h[c].key /\ g[c].level = h[c].level
                  /\ IF h[c].key = k THEN g[c].marked = ~insert
                     ELSE g[c].marked = h[c].marked
  /\ \A c \in D : c \in C \/ (insert /\ g[c].key = k /\ ~g[c].marked /\ g[c].level = 0)
  /\ insert => \E c \in D : g[c].key = k

\* Every key in the chain but that of the first mnode is one of K.
Named(h, C) ==
  \A c \in C : h[c].key \in Nat /\ (h[c].key = 0 <=> c = First)

\* The key 0 names the first mnode of the chain and no other.
LEMMA NamedIs ==
  ASSUME NEW K, NEW h, Heap(h, K), NEW C, Chained(h, C)
  PROVE  Named(h, C)
<1>1. First \in C /\ h[First].key = 0
  BY DEF Chained
<1>2. QED
  BY <1>1, ChainBlock DEF Named

\* An operation applied to the mnode of its key changes the unmarked keys as it says.
LEMMA AppliedLive ==
  ASSUME NEW h, NEW g, NEW C, NEW D, NEW k \in Nat, k # 0, NEW insert \in BOOLEAN,
         Applied(h, g, C, D, k, insert), Named(h, C)
  PROVE  LiveKeys(g, D) = IF insert THEN LiveKeys(h, C) \cup {k} ELSE LiveKeys(h, C) \ {k}
<1>1. First \in C /\ C \subseteq D /\ h[First].key = 0
  BY DEF Applied, Named
<1>2. \A c \in C : /\ g[c].key = h[c].key
                   /\ h[c].key = k => g[c].marked = ~insert
                   /\ h[c].key # k => g[c].marked = h[c].marked
  BY DEF Applied
<1>3. \A c \in D : c \in C \/ (insert /\ g[c].key = k /\ ~g[c].marked)
  BY DEF Applied
<1>4. CASE insert
  <2>1. PICK c \in D : g[c].key = k
    BY <1>4 DEF Applied
  <2>2. c # First /\ ~g[c].marked
    BY <1>1, <1>2, <1>3, <1>4, <2>1
  <2>3. k \in LiveKeys(g, D)
    BY <2>1, <2>2 DEF LiveKeys
  <2>4. ASSUME NEW x \in LiveKeys(h, C) PROVE x \in LiveKeys(g, D)
    <3>1. PICK d \in C \ {First} : h[d].key = x /\ ~h[d].marked
      BY DEF LiveKeys
    <3>2. g[d].key = x /\ ~g[d].marked /\ d \in D \ {First}
      BY <1>1, <1>2, <1>4, <3>1
    <3>3. QED
      BY <3>2 DEF LiveKeys
  <2>5. ASSUME NEW x \in LiveKeys(g, D) PROVE x = k \/ x \in LiveKeys(h, C)
    <3>1. PICK d \in D \ {First} : g[d].key = x /\ ~g[d].marked
      BY DEF LiveKeys
    <3>2. x # k => d \in C \ {First} /\ h[d].key = x /\ ~h[d].marked
      BY <1>2, <1>3, <3>1
    <3>3. QED
      BY <3>2 DEF LiveKeys
  <2>6. QED
    BY <1>4, <2>3, <2>4, <2>5
<1>5. CASE ~insert
  <2>1. ASSUME NEW x \in LiveKeys(h, C), x # k PROVE x \in LiveKeys(g, D)
    <3>1. PICK d \in C \ {First} : h[d].key = x /\ ~h[d].marked
      BY DEF LiveKeys
    <3>2. g[d].key = x /\ ~g[d].marked /\ d \in D \ {First}
      BY <1>1, <1>2, <2>1, <3>1
    <3>3. QED
      BY <3>2 DEF LiveKeys
  <2>2. ASSUME NEW x \in LiveKeys(g, D) PROVE x # k /\ x \in LiveKeys(h, C)
    <3>1. PICK d \in D \ {First} : g[d].key = x /\ ~g[d].marked
      BY DEF LiveKeys
    <3>2. d \in C \ {First} /\ h[d].key = x /\ ~h[d].marked /\ x # k
      BY <1>2, <1>3, <1>5, <3>1
    <3>3. QED
      BY <3>2 DEF LiveKeys
  <2>3. QED
    BY <1>5, <2>1, <2>2
<1>6. QED
  BY <1>4, <1>5

\* The pairs of the mnodes of C, the last key inserted being k.
Pairs(h, C, k) == Paired(h, Tall(h, C, k), Base(h, C, k))

\* With the operations of the program, the pairs stay.
LEMMA AppliedCounts ==
  ASSUME NEW h, NEW g, NEW C, NEW D, NEW k \in Nat, k # 0, NEW insert \in BOOLEAN,
         NEW own \in BOOLEAN,
         Applied(h, g, C, D, k, insert), Named(h, C), LiveKeys(h, C) = live,
         Reported(k, insert, own), Alternating, mine # 0 => phase = "measure",
         mine' = IF own /\ insert THEN k ELSE 0,
         Pairs(h, C, mine)
  PROVE  Pairs(g, D, mine')
<1>1. First \in C /\ C \subseteq D
  BY DEF Applied
<1>2. \A c \in C : /\ g[c].key = h[c].key /\ g[c].level = h[c].level
                   /\ h[c].key = k => g[c].marked = ~insert
                   /\ h[c].key # k => g[c].marked = h[c].marked
                   /\ c # First => h[c].key # 0
  BY DEF Applied, Named
<1>3. \A c \in D : c \in C \/ g[c].level = 0
  BY DEF Applied
<1>4. \A c \in C \ {First} : h[c].marked \/ h[c].key \in live
  BY DEF LiveKeys
<1>5. /\ insert => mine = 0 /\ k \notin live
      /\ ~insert => k = mine /\ mine' = 0
      /\ insert => mine' \in {0, k}
      /\ insert /\ own => mine' = k
  BY DEF Reported
<1>6. Tall(g, D, mine') \subseteq Tall(h, C, mine)
  <2> SUFFICES ASSUME NEW x \in D \ {First}, g[x].level > 0, g[x].marked \/ g[x].key = mine'
               PROVE  x \in C \ {First} /\ h[x].level > 0 /\ (h[x].marked \/ h[x].key = mine)
    BY DEF Tall
  <2>1. x \in C
    BY <1>3
  <2>2. h[x].level > 0 /\ g[x].key = h[x].key /\ h[x].key # 0
    BY <2>1, <1>2
  <2>3. CASE h[x].key = k
    BY <2>1, <2>2, <2>3, <1>4, <1>5
  <2>4. CASE h[x].key # k
    BY <2>1, <2>2, <2>4, <1>2, <1>5
  <2>5. QED
    BY <2>3, <2>4
<1>7. Base(h, C, mine) \subseteq Base(g, D, mine')
  <2> SUFFICES ASSUME NEW x \in C \ {First}, ~h[x].marked, h[x].key # mine
               PROVE  x \in D \ {First} /\ ~g[x].marked /\ g[x].key # mine'
    BY DEF Base
  <2>1. g[x].key = h[x].key /\ h[x].key # 0 /\ h[x].key \in live /\ h[x].key # k
    BY <1>2, <1>4, <1>5
  <2>2. ~g[x].marked /\ g[x].key # mine'
    BY <2>1, <1>2, <1>5
  <2>3. QED
    BY <2>2, <1>1
<1>8. /\ \A c \in Tall(h, C, mine) : g[c].key = h[c].key
      /\ \A c \in Base(h, C, mine) : g[c].key = h[c].key
  BY <1>2 DEF Tall, Base
<1>9. QED
  BY <1>6, <1>7, <1>8, PairedKept DEF Pairs

\* No mnode has the key k where the helper's search for k ends beside it.
LEMMA NotInChain ==
  ASSUME NEW K, NEW h, Heap(h, K), NEW C, Chained(h, C), NEW m \in C, NEW k \in Nat,
         h[m].key <= k, h[m].next # NULL => k < h[h[m].next].key, h[m].key # k
  PROVE  \A c \in C : h[c].key # k
<1> SUFFICES ASSUME NEW c \in C, h[c].key = k PROVE FALSE
  OBVIOUS
<1>1. h[m].key \in Nat /\ h[m].key < k
  BY ChainBlock
<1>2. h[m].next # NULL => h[m].next \in C /\ h[h[m].next].key \in Nat
  BY ChainBlock
<1>3. IF h[m].next = NULL THEN h[c].key <= h[m].key
      ELSE h[c].key <= h[m].key \/ h[h[m].next].key <= h[c].key
  BY DEF Chained
<1>4. QED
  BY <1>1, <1>2, <1>3

\* The block of the next allocation.
LEMMA FreshIs ==
  ASSUME MemoryType, NEW C, NEW rank, NEW I, NEW heads, Structure(C, rank, I, heads),
         Allocated(C)
  PROVE  /\ Fresh \in Nat /\ Fresh # NULL /\ Fresh \notin C /\ rank[Fresh] = 0
         /\ Fresh \notin DOMAIN mem \/ mem[Fresh].kind = "zero"
<1>1. /\ Heap(mem, Keys) /\ Chained(mem, C) /\ Ranked(mem, C, rank, Len(heads))
      /\ Len(heads) \in Nat /\ last \in 1 .. Len(mem) /\ released \in BOOLEAN
      /\ released => mem[last] = Zeroed
  BY DEF MemoryType, Structure, Allocated, Indexed, Headed
<1>2. DOMAIN mem = 1 .. Len(mem) /\ Len(mem) \in Nat
  BY <1>1, HeapHolds
<1>3. Fresh \in Nat /\ Fresh # NULL
  BY <1>1, <1>2 DEF Fresh, NULL
<1>4. Fresh \notin DOMAIN mem \/ mem[Fresh].kind = "zero"
  BY <1>1, <1>2 DEF Fresh, Zeroed
<1>5. Fresh \notin C
  BY <1>1, <1>4 DEF Chained
<1>6. rank[Fresh] = 0
  BY <1>1, <1>3, <1>4, ChainUnranked
<1>7. QED
  BY <1>3, <1>4, <1>5, <1>6

\* The types after a step that may store into the memory.
LEMMA TypesGrown ==
  ASSUME SearchType, MemoryType, Grown(mem, mem', Keys), setting' = setting, search' = search
  PROVE  /\ SearchType' /\ Heap(mem, Keys)' /\ Len(mem) \in Nat /\ Len(mem)' \in Nat
         /\ 0 .. Len(mem) \subseteq 0 .. Len(mem)'
         /\ \A b \in 1 .. Len(mem) : b \in 1 .. Len(mem)'
<1>1. Heap(mem', Keys) /\ Len(mem) <= Len(mem') /\ Heap(mem, Keys)
  BY DEF Grown, MemoryType
<1>2. Len(mem) \in Nat /\ Len(mem') \in Nat
  BY <1>1, HeapHolds
<1>3. SearchType'
  BY <1>1, <1>2 DEF SearchType, Keys
<1>4. Heap(mem, Keys)'
  BY <1>1 DEF Keys, Heap
<1>5. QED
  BY <1>1, <1>2, <1>3, <1>4

\* An operation, as the chain, the index and the search see it.
ApplyFacts(C, rank, I, heads, D, k, insert) ==
  /\ Applied(mem, mem', C, D, k, insert)
  /\ Grown(mem, mem', Keys) /\ last' \in 1 .. Len(mem)' /\ released' \in BOOLEAN
  /\ released' => released /\ mem'[last'] = Zeroed
  /\ mem'[last'].kind = "mnode" => last' \in D
  /\ Structure(D, rank, I, heads)' /\ Searching(D, rank)'

\* The index and the chain, with their memory.
Layered(h, C, rank, I, heads) ==
  Chained(h, C) /\ Indexed(h, C, rank, I, heads) /\ h[First].level = Len(heads)

\* Layers of the next memory below the next sentinel are the next structure.
LEMMA StructurePrimed ==
  ASSUME NEW C, NEW rank, NEW I, NEW heads, Layered(mem', C, rank, I, heads),
         heads[Len(heads)] = sentinel'
  PROVE  Structure(C, rank, I, heads)'
<1>1. Chained(mem', C) => Chained(mem, C)'
  BY DEF Chained
<1>2. Ranked(mem', C, rank, Len(heads)) => Ranked(mem, C, rank, Len(heads))'
  BY DEF Ranked
<1>3. Rowed(mem', rank, I) => Rowed(mem, rank, I)'
  BY DEF Rowed
<1>4. Headed(mem', rank, I, heads) => Headed(mem, rank, I, heads)'
  BY DEF Headed
<1>5. QED
  BY <1>1, <1>2, <1>3, <1>4 DEF Structure, Indexed, Layered

\* What a new mnode leaves as it was.
AddedTo(h, g, C, m, k, f) ==
  /\ g[f].kind = "mnode" /\ g[f].key = k /\ g[f].level = 0 /\ ~g[f].marked
  /\ f \in DOMAIN g /\ g[f] = Mnode(h[m].next, k) /\ g[m] = [h[m] EXCEPT !.next = f]
  /\ \A b \in DOMAIN h : b # m /\ b # f => g[b] = h[b]
  /\ \A c \in C : /\ g[c].key = h[c].key /\ g[c].level = h[c].level
                  /\ g[c].marked = h[c].marked /\ h[c].level \in Nat
  /\ \A c \in C : c # m => g[c] = h[c]

\* A new mnode leaves the others, all inodes and all pointers but one as they are.
LEMMA AddedKeeps ==
  ASSUME NEW K, NEW h, NEW g, Heap(h, K), NEW C, Chained(h, C), Grown(h, g, K),
         NEW m \in C, NEW k \in Nat, NEW f, f \notin C, Added(h, g, m, k, f)
  PROVE  AddedTo(h, g, C, m, k, f)
<1>1. /\ f \in DOMAIN g /\ g[f] = Mnode(h[m].next, k) /\ g[m] = [h[m] EXCEPT !.next = f]
      /\ \A b \in DOMAIN h : b # m /\ b # f => g[b] = h[b]
  BY DEF Added
<1>2. g[f].kind = "mnode" /\ g[f].key = k /\ g[f].level = 0 /\ ~g[f].marked
  BY <1>1 DEF Mnode
<1>3. h[m] \in MnodeOf(Len(h), K)
  BY ChainBlock, HeapHolds
<1>4. g[m].key = h[m].key /\ g[m].level = h[m].level /\ g[m].marked = h[m].marked
  BY <1>1, <1>3 DEF MnodeOf
<1>5. \A c \in C : c # m => g[c] = h[c]
  BY <1>1 DEF Chained
<1>6. \A c \in C : h[c].level \in Nat
  BY ChainBlock
<1>7. QED
  BY <1>1, <1>2, <1>4, <1>5, <1>6 DEF AddedTo

\* ... and leaves chain and rows in order.
LEMMA AddedLayers ==
  ASSUME NEW K, NEW h, NEW g, Heap(h, K), NEW C, NEW rank, NEW I, NEW heads,
         Layered(h, C, rank, I, heads), Grown(h, g, K),
         NEW m \in C, NEW k \in Nat, h[m].key < k, h[m].next # NULL => k < h[h[m].next].key,
         NEW f \in Nat, f # NULL, f \notin C, rank[f] = 0, Added(h, g, m, k, f)
  PROVE  Layered(g, C \cup {f}, rank, I, heads)
<1>1. Chained(h, C) /\ Indexed(h, C, rank, I, heads) /\ h[First].level = Len(heads)
      /\ DOMAIN h \subseteq DOMAIN g /\ First \in C
  BY DEF Layered, Grown, Chained
<1>2. /\ g[f].level = 0
      /\ f \in DOMAIN g /\ g[f] = Mnode(h[m].next, k) /\ g[m] = [h[m] EXCEPT !.next = f]
      /\ \A b \in DOMAIN h : b # m /\ b # f => g[b] = h[b]
      /\ \A c \in C : g[c].key = h[c].key /\ g[c].level = h[c].level /\ h[c].level \in Nat
      /\ \A c \in C : c # m => g[c] = h[c]
  BY <1>1, AddedKeeps DEF AddedTo
<1>3. Chained(g, C \cup {f})
  BY <1>1, <1>2, ChainedMore
<1> DEFINE D == C \cup {f}
<1>4. \A b \in DOMAIN h : rank[b] > 0 => g[b] = h[b]
  <2> SUFFICES ASSUME NEW b \in DOMAIN h, rank[b] > 0 PROVE g[b] = h[b]
    OBVIOUS
  <2>1. b \in Nat
    BY HeapHolds
  <2>2. h[b].kind = "inode"
    BY <2>1, <1>1, RankedBlock
  <2>3. h[m].kind = "mnode"
    BY <1>1, ChainBlock
  <2>4. QED
    BY <2>2, <2>3, <1>2
<1>5. \A c \in C : h[c].level > 0 =>
        c \in D /\ g[c].key = h[c].key /\ h[c].level <= g[c].level
  BY <1>2
<1>6. (\A c \in C : h[c].level \in Nat) /\ \A c \in D : g[c].level \in Nat
  BY <1>2
<1> HIDE DEF D
<1>7. Indexed(g, D, rank, I, heads)
  BY ONLY <1>1, <1>4, <1>5, <1>6, Heap(h, K), IndexedSame
<1>8. QED
  BY <1>1, <1>2, <1>3, <1>7 DEF D, Layered

\* ... and the search, which may stand anywhere in them, loses no key.
LEMMA AddedPasses ==
  ASSUME NEW K \in SUBSET Nat, Heap(mem, K), NEW C, Chained(mem, C), Grown(mem, mem', K),
         NEW rank, Searching(C, rank),
         NEW m \in C, NEW k \in Nat, mem[m].key < k,
         mem[m].next # NULL => k < mem[mem[m].next].key,
         NEW f, f # NULL, f \notin DOMAIN mem \/ mem[f].kind # "mnode", Added(mem, mem', m, k, f),
         search.pc \in {"right", "down"} =>
           rank[search.at] > 0 /\ mem'[search.at].key = mem[search.at].key,
         stay \subseteq K, UNCHANGED <<setting, search, stay, clean>>
  PROVE  Searching(C \cup {f}, rank)'
<1> DEFINE D == C \cup {f}
<1>1. stay \subseteq Nat /\ DOMAIN mem \subseteq DOMAIN mem' /\ stay' = stay
  BY DEF Grown
<1>2. ASSUME NEW W, Passable(mem, C, W, stay)
      PROVE  \E V : Wider(mem, mem', W, V) /\ Passable(mem', D, V, stay')
  <2>1. Adding(K, mem, mem', C, m, k, f) /\ D = C \cup {f}
    BY <1>1 DEF Adding
  <2> HIDE DEF D
  <2>2. QED
    BY <2>1, <1>1, <1>2, PassableMore
<1> HIDE DEF D
<1>3. Searching(D, rank)'
  BY <1>1, <1>2, SearchingKept
<1>4. QED
  BY <1>3 DEF D

\* A new mnode.
LEMMA ApplyMore ==
  ASSUME Types, NEW C, NEW rank, NEW I, NEW heads, Sound(C, rank, I, heads),
         NEW k \in Keys, NEW m \in C, mem[m].key < k, mem[m].next # NULL => k < mem[mem[m].next].key,
         mem' = [Put(Mnode(mem[m].next, k)) EXCEPT ![m].next = Fresh], NAlloc,
         UNCHANGED <<setting, sentinel, search, stay, clean>>
  PROVE  \E D : ApplyFacts(C, rank, I, heads, D, k, TRUE)
<1>f. PICK f : f = Fresh
  OBVIOUS
<1> DEFINE D == C \cup {f}
<1>1. /\ Heap(mem, Keys) /\ Layered(mem, C, rank, I, heads) /\ Chained(mem, C)
      /\ Indexed(mem, C, rank, I, heads)
      /\ last \in 1 .. Len(mem) /\ released \in BOOLEAN /\ heads[Len(heads)] = sentinel
      /\ Searching(C, rank) /\ stay \subseteq Keys /\ First \in C
  BY DEF Sound, Structure, Types, MemoryType, WorkType, Layered, Chained
<1>2. Keys \in SUBSET Nat /\ k \in Nat /\ k # 0
  BY KeysType DEF Types
<1>3. /\ f \in Nat /\ f # NULL /\ f \notin C /\ rank[f] = 0
      /\ f \notin DOMAIN mem \/ mem[f].kind = "zero"
  BY <1>f, FreshIs DEF Types, Sound
<1>4. m \in 1 .. Len(mem) /\ mem[m].kind = "mnode" /\ m # f
  BY <1>1, <1>3, ChainBlock
<1>5. Grown(mem, mem', Keys) /\ Added(mem, mem', m, k, f)
  BY <1>f, <1>1, <1>4, StoreMnode
<1>6. last' = f /\ released' = FALSE
  BY <1>f DEF NAlloc
<1>7. /\ mem'[f].kind = "mnode" /\ mem'[f].key = k /\ mem'[f].level = 0 /\ ~mem'[f].marked
      /\ f \in DOMAIN mem' /\ mem'[f] = Mnode(mem[m].next, k)
      /\ \A b \in DOMAIN mem : b # m /\ b # f => mem'[b] = mem[b]
      /\ \A c \in C : /\ mem'[c].key = mem[c].key /\ mem'[c].level = mem[c].level
                      /\ mem'[c].marked = mem[c].marked /\ mem[c].level \in Nat
      /\ \A c \in C : c # m => mem'[c] = mem[c]
  <2>1. Heap(mem, Keys) /\ Chained(mem, C) /\ Grown(mem, mem', Keys) /\ m \in C /\ k \in Nat
        /\ f \notin C /\ Added(mem, mem', m, k, f)
    BY <1>1, <1>2, <1>3, <1>5
  <2>2. AddedTo(mem, mem', C, m, k, f)
    BY ONLY <2>1, AddedKeeps
  <2>3. QED
    BY ONLY <2>2 DEF AddedTo
<1>8. Structure(D, rank, I, heads)'
  <2>1. Layered(mem', C \cup {f}, rank, I, heads)
    BY ONLY <1>1, <1>2, <1>3, <1>5, m \in C, mem[m].key < k,
            mem[m].next # NULL => k < mem[mem[m].next].key, AddedLayers
  <2>2. heads[Len(heads)] = sentinel'
    BY <1>1
  <2>3. QED
    BY ONLY <2>1, <2>2, StructurePrimed DEF D
<1>9. Searching(D, rank)'
  <2>1. search.pc \in {"right", "down"} =>
           rank[search.at] > 0 /\ mem'[search.at].key = mem[search.at].key
    <3> SUFFICES ASSUME search.pc \in {"right", "down"}
                 PROVE  rank[search.at] > 0 /\ mem'[search.at].key = mem[search.at].key
      OBVIOUS
    <3>1. search.at \in 1 .. Len(mem) /\ mem[search.at].kind = "inode" /\ rank[search.at] > 0
      BY AtInode DEF Types, Sound
    <3>2. search.at # f /\ search.at # m /\ search.at \in DOMAIN mem
      BY <3>1, <1>1, <1>3, <1>4, HeapHolds
    <3>3. QED
      BY <3>1, <3>2, <1>7
  <2>2. f \notin DOMAIN mem \/ mem[f].kind # "mnode"
    BY <1>3
  <2>3. QED
    BY ONLY <1>1, <1>2, <1>3, <1>5, <2>1, <2>2, m \in C, mem[m].key < k,
            mem[m].next # NULL => k < mem[mem[m].next].key, AddedPasses,
            UNCHANGED <<setting, search, stay, clean>> DEF D
<1>10. Applied(mem, mem', C, D, k, TRUE)
  <2>1. \A c \in C : mem[c].key # k
    <3>1. mem[m].key <= k /\ mem[m].key # k
      <4>1. mem[m].key \in Nat
        BY <1>1, ChainBlock
      <4>2. QED
        BY <4>1, <1>2
    <3>2. QED
      BY <3>1, <1>1, <1>2, NotInChain
  <2>2. QED
    BY <2>1, <1>1, <1>7 DEF Applied
<1>11. f \in 1 .. Len(mem')
  BY <1>5, <1>7, HeapHolds DEF Grown
<1>12. last' \in 1 .. Len(mem)' /\ released' \in BOOLEAN /\ ~released' /\ last' \in D
  BY <1>6, <1>11
<1> HIDE DEF D
<1>13. ApplyFacts(C, rank, I, heads, D, k, TRUE)
  BY <1>5, <1>8, <1>9, <1>10, <1>12 DEF ApplyFacts
<1>14. QED
  BY <1>13

\* Only the mark of the mnode m changes.
Marking(h, g, m, b) ==
  /\ DOMAIN g = DOMAIN h /\ g[m] = [h[m] EXCEPT !.marked = b]
  /\ \A c \in DOMAIN h : c # m => g[c] = h[c]

Remarked(h, g, C, rank, m, b) ==
  /\ Linked(h, g)
  /\ \A c \in C : /\ g[c].kind = h[c].kind /\ g[c].next = h[c].next /\ g[c].key = h[c].key
                  /\ g[c].level = h[c].level
                  /\ g[c].marked = IF c = m THEN b ELSE h[c].marked
  /\ \A c \in Nat : rank[c] > 0 => g[c] = h[c]

\* Marking or unmarking an mnode of the chain leaves chain and rows in order.
LEMMA MarkingKeeps ==
  ASSUME NEW K, NEW h, NEW g, Heap(h, K), NEW C, NEW rank, NEW I, NEW heads,
         Layered(h, C, rank, I, heads), NEW m \in C, m # First, NEW b \in BOOLEAN,
         Marking(h, g, m, b)
  PROVE  Layered(g, C, rank, I, heads) /\ Remarked(h, g, C, rank, m, b)
<1>1. /\ Chained(h, C) /\ Indexed(h, C, rank, I, heads) /\ h[First].level = Len(heads)
      /\ First \in C /\ C \subseteq DOMAIN h /\ ~h[First].marked
  BY DEF Layered, Chained
<1>2. h[m] \in MnodeOf(Len(h), K)
  BY <1>1, ChainBlock, HeapHolds
<1>3. /\ g[m].kind = h[m].kind /\ g[m].next = h[m].next /\ g[m].key = h[m].key
      /\ g[m].level = h[m].level /\ g[m].marked = b
  BY <1>2 DEF Marking, MnodeOf
<1>4. \A c \in DOMAIN h : c # m => g[c] = h[c]
  BY DEF Marking
<1>5. \A c \in C : /\ g[c].kind = h[c].kind /\ g[c].next = h[c].next /\ g[c].key = h[c].key
                   /\ g[c].level = h[c].level
                   /\ g[c].marked = IF c = m THEN b ELSE h[c].marked
  BY <1>1, <1>3, <1>4
<1>6. Linked(h, g)
  BY <1>3, <1>4 DEF Linked, Marking
<1>7. \A c \in Nat : rank[c] > 0 => g[c] = h[c]
  <2> SUFFICES ASSUME NEW c \in Nat, rank[c] > 0 PROVE g[c] = h[c]
    OBVIOUS
  <2>1. c \in DOMAIN h /\ h[c].kind = "inode"
    BY <1>1, RankedBlock, HeapHolds
  <2>2. h[m].kind = "mnode"
    BY <1>1, ChainBlock
  <2>3. QED
    BY <2>1, <2>2, <1>4
<1>8. DOMAIN h \subseteq DOMAIN g /\ ~g[First].marked
  BY <1>1, <1>5 DEF Marking
<1>9. Chained(g, C)
  BY <1>1, <1>5, <1>8, ChainedSame
<1>10. Indexed(g, C, rank, I, heads)
  <2>1. \A c \in DOMAIN h : rank[c] > 0 => g[c] = h[c]
    BY <1>7, HeapHolds
  <2>2. \A c \in C : h[c].level \in Nat /\ g[c].level \in Nat
    BY <1>1, <1>5, ChainBlock
  <2>3. \A c \in C : h[c].level > 0 =>
          c \in C /\ g[c].key = h[c].key /\ h[c].level <= g[c].level
    BY <1>5, <2>2
  <2>4. QED
    BY ONLY <1>1, <1>8, <2>1, <2>2, <2>3, Heap(h, K), IndexedSame
<1>11. Layered(g, C, rank, I, heads)
  BY <1>1, <1>5, <1>9, <1>10 DEF Layered
<1>12. QED
  BY <1>5, <1>6, <1>7, <1>11 DEF Remarked

\* The mark of an mnode that is there.
LEMMA ApplyMark ==
  ASSUME Types, NEW C, NEW rank, NEW I, NEW heads, Sound(C, rank, I, heads),
         NEW k \in Keys, NEW m \in C, mem[m].key = k, NEW insert \in BOOLEAN, pc = "loop",
         mem' = [mem EXCEPT ![m].marked = ~insert],
         UNCHANGED <<setting, last, released, sentinel, search, stay, clean>>
  PROVE  ApplyFacts(C, rank, I, heads, C, k, insert)
<1>1. /\ Heap(mem, Keys) /\ Layered(mem, C, rank, I, heads) /\ Chained(mem, C)
      /\ Indexed(mem, C, rank, I, heads) /\ Searching(C, rank)
      /\ last \in 1 .. Len(mem) /\ released \in BOOLEAN /\ heads[Len(heads)] = sentinel
      /\ First \in C /\ mem[First].key = 0 /\ search.at \in 0 .. Len(mem)
  BY DEF Sound, Structure, Types, MemoryType, SearchType, Layered, Chained
<1>2. Keys \in SUBSET Nat /\ k \in Nat /\ k # 0 /\ m # First
  BY <1>1, KeysType DEF Types
<1>3. m \in 1 .. Len(mem) /\ mem[m].kind = "mnode" /\ mem[m] \in MnodeOf(Len(mem), Keys)
      /\ DOMAIN mem = 1 .. Len(mem) /\ Len(mem) \in Nat
  BY <1>1, ChainBlock, HeapHolds
<1> DEFINE x == [mem[m] EXCEPT !.marked = ~insert]
<1>4. x \in Blocks(Len(mem), Keys)
  <2>1. (~insert) \in BOOLEAN
    OBVIOUS
  <2>2. QED
    BY <1>3, <2>1, MnodeStore
<1>5. mem' = [mem EXCEPT ![m] = x]
  BY <1>3
<1> HIDE DEF x
<1>6. /\ Heap(mem', Keys) /\ Len(mem') = Len(mem) /\ DOMAIN mem' = DOMAIN mem /\ mem'[m] = x
      /\ \A c \in DOMAIN mem : c # m => mem'[c] = mem[c]
  <2>1. Heap(mem, Keys) /\ m \in 1 .. Len(mem)
    BY <1>1, <1>3
  <2> DEFINE g == [mem EXCEPT ![m] = x]
  <2>2. /\ Heap(g, Keys) /\ Len(g) = Len(mem) /\ DOMAIN g = DOMAIN mem /\ g[m] = x
        /\ \A c \in DOMAIN mem : c # m => g[c] = mem[c]
    BY ONLY <2>1, <1>4, HeapExcept
  <2>3. mem' = g
    BY <1>5
  <2> HIDE DEF g
  <2>4. QED
    BY ONLY <2>2, <2>3
<1>7. Grown(mem, mem', Keys) /\ Marking(mem, mem', m, ~insert)
  BY <1>3, <1>6 DEF Grown, Marking, x
<1>8. /\ Layered(mem', C, rank, I, heads) /\ Linked(mem, mem')
      /\ \A c \in C : /\ mem'[c].kind = mem[c].kind /\ mem'[c].key = mem[c].key
                      /\ mem'[c].level = mem[c].level
                      /\ mem'[c].marked = IF c = m THEN ~insert ELSE mem[c].marked
      /\ \A c \in Nat : rank[c] > 0 => mem'[c] = mem[c]
  <2>1. PICK b \in BOOLEAN : b = ~insert
    OBVIOUS
  <2>2. Marking(mem, mem', m, b)
    BY <1>7, <2>1
  <2>3. Layered(mem', C, rank, I, heads) /\ Remarked(mem, mem', C, rank, m, b)
    BY ONLY <2>1, <2>2, <1>1, <1>2, m \in C, MarkingKeeps
  <2>4. QED
    BY <2>1, <2>3 DEF Remarked
<1>9. Structure(C, rank, I, heads)'
  BY ONLY <1>1, <1>8, StructurePrimed, sentinel' = sentinel
<1>10. Searching(C, rank)'
  <2>1. \A b \in Nat : rank[b] > 0 => rank[b] > 0 /\ mem'[b].key = mem[b].key
    BY <1>8
  <2>2. search.at \in Nat
    BY <1>1, <1>3
  <2>3. Ranked(mem, C, rank, Len(heads))
    BY <1>1 DEF Indexed
  <2>4. UNCHANGED <<setting, search, stay, clean>>
    OBVIOUS
  <2>5. QED
    BY ONLY <1>1, <1>8, <2>1, <2>2, <2>3, <2>4, SearchingLinked
<1>11. Applied(mem, mem', C, C, k, insert)
  <2>1. \A c \in C : mem[c].key = k => c = m
    BY <1>1, ChainBlock
  <2>2. \A c \in C : IF mem[c].key = k THEN mem'[c].marked = ~insert
                     ELSE mem'[c].marked = mem[c].marked
    BY <1>8, <2>1
  <2>3. \E c \in C : mem'[c].key = k
    BY <1>8
  <2>4. QED
    BY <1>1, <1>8, <2>2, <2>3 DEF Applied
<1>12. /\ released' => released /\ mem'[last'] = Zeroed
       /\ mem'[last'].kind = "mnode" => last' \in C
  <2>1. released => mem[last] = Zeroed
    BY DEF Sound, Allocated
  <2>2. mem[last].kind = "mnode" => last \in C
    BY DEF Sound, Allocated
  <2>3. mem[last] = Zeroed => last # m
    BY <1>3 DEF Zeroed
  <2>4. last # m => mem'[last] = mem[last]
    BY <1>1, <1>3, <1>6
  <2>5. QED
    BY <2>1, <2>2, <2>3, <2>4
<1>13. last' \in 1 .. Len(mem)' /\ released' \in BOOLEAN
  BY <1>1, <1>6
<1>14. QED
  BY <1>7, <1>9, <1>10, <1>11, <1>12, <1>13 DEF ApplyFacts

\* A deletion of a key that is not in the chain.
LEMMA ApplyNone ==
  ASSUME Types, NEW C, NEW rank, NEW I, NEW heads, Sound(C, rank, I, heads),
         NEW k \in Keys, \A c \in C : mem[c].key # k, pc = "loop",
         mem' = mem, UNCHANGED <<setting, last, released, sentinel, search, stay, clean>>
  PROVE  ApplyFacts(C, rank, I, heads, C, k, FALSE)
<1>1. Structure(C, rank, I, heads)'
  BY StructureSame DEF Sound
<1>2. Searching(C, rank)'
  BY DEF Sound, Searching, Keys, Passable
<1>3. Applied(mem, mem', C, C, k, FALSE)
  BY DEF Applied, Sound, Structure, Chained
<1>4. Grown(mem, mem', Keys)
  <2>1. Heap(mem, Keys)
    BY DEF Types, MemoryType
  <2>2. Len(mem) \in Nat
    BY <2>1, HeapHolds
  <2>3. QED
    BY <2>1, <2>2 DEF Grown
<1>5. /\ last' \in 1 .. Len(mem)' /\ released' \in BOOLEAN
      /\ released' => released /\ mem'[last'] = Zeroed
      /\ mem'[last'].kind = "mnode" => last' \in C
  BY DEF Sound, Allocated, Types, MemoryType
<1>6. QED
  BY <1>1, <1>2, <1>3, <1>4, <1>5 DEF ApplyFacts

\* What is known of the memory after an operation implies the invariant there.
LEMMA ApplyHolds ==
  ASSUME IInv, NEW k \in Keys, NEW insert \in BOOLEAN, NEW own \in BOOLEAN,
         setting' = setting, pc = "loop", Reported(k, insert, own),
         NEW C, NEW rank, NEW I, NEW heads, Sound(C, rank, I, heads),
         NEW D, ApplyFacts(C, rank, I, heads, D, k, insert),
         phase' = IF own THEN "measure" ELSE phase,
         mine' = IF own /\ insert THEN k ELSE 0,
         live' = IF insert THEN live \cup {k} ELSE live \ {k},
         UNCHANGED <<sentinel, count, pc, round, search, stay, clean>>
  PROVE  IInv'
<1> USE DEF count, round
<1>1. /\ Types /\ Heap(mem, Keys) /\ Chained(mem, C) /\ Mirrored(C) /\ Counted(C)
      /\ Stage(C, rank, I, heads)
  BY DEF IInv, Sound, Structure, Types, MemoryType
<1>2. Keys \in SUBSET Nat /\ k \in Nat /\ k # 0
  BY <1>1, KeysType DEF Types
<1>3. /\ Applied(mem, mem', C, D, k, insert)
      /\ Grown(mem, mem', Keys) /\ last' \in 1 .. Len(mem)' /\ released' \in BOOLEAN
      /\ released' => released /\ mem'[last'] = Zeroed
      /\ mem'[last'].kind = "mnode" => last' \in D
      /\ Structure(D, rank, I, heads)' /\ Searching(D, rank)'
  BY DEF ApplyFacts
<1>4. Named(mem, C)
  BY <1>1, NamedIs
<1>5. /\ SearchType' /\ Heap(mem, Keys)' /\ Len(mem) \in Nat /\ Len(mem)' \in Nat
      /\ 0 .. Len(mem) \subseteq 0 .. Len(mem)'
      /\ \A b \in 1 .. Len(mem) : b \in 1 .. Len(mem)'
  BY <1>1, <1>3, TypesGrown DEF Types
<1>6. MemoryType'
  BY <1>1, <1>3, <1>5 DEF Types, MemoryType
<1>7. HelperType'
  BY <1>1, <1>5 DEF Types, HelperType
<1>8. WorkType'
  BY <1>1, <1>2 DEF Types, WorkType, Keys
<1>9. Allocated(D)'
  BY <1>3 DEF Allocated
<1>10. Mirrored(D)'
  <2>1. LiveKeys(mem, C) = live
    BY <1>1 DEF Mirrored
  <2>2. LiveKeys(mem', D) = IF insert THEN LiveKeys(mem, C) \cup {k} ELSE LiveKeys(mem, C) \ {k}
    BY ONLY <1>2, <1>3, <1>4, insert \in BOOLEAN, AppliedLive
  <2>3. LiveKeys(mem', D) = live'
    BY <2>1, <2>2
  <2>4. QED
    BY <2>3 DEF Mirrored, LiveKeys
<1>11. Stage(D, rank, I, heads)'
  <2>1. ASSUME phase' = "populate"
        PROVE  (\A c \in D : ~mem'[c].marked) /\ ~released'
    <3>1. ~own /\ phase = "populate" /\ insert
      BY <2>1 DEF Reported
    <3>2. (\A c \in C : ~mem[c].marked) /\ ~released
      BY <1>1, <3>1 DEF Stage
    <3>3. QED
      BY <1>3, <3>1, <3>2 DEF Applied
  <2>2. pc' = "loop"
    OBVIOUS
  <2>3. QED
    BY <2>1, <2>2 DEF Stage
<1>12. Counted(D)'
  <2> SUFFICES ASSUME Alternating
               PROVE  /\ tall_del <= non_del
                      /\ mine' # 0 => phase' = "measure"
                      /\ Paired(mem', Tall(mem', D, mine'), Base(mem', D, mine'))
    BY DEF Counted, Alternating, Paired, Tall, Base
  <2>1. /\ tall_del <= non_del
        /\ mine # 0 => phase = "measure"
    BY <1>1 DEF Counted
  <2>2. Paired(mem, Tall(mem, C, mine), Base(mem, C, mine)) /\ LiveKeys(mem, C) = live
    BY <1>1 DEF Counted, Mirrored
  <2>3. mine' # 0 => phase' = "measure"
    OBVIOUS
  <2>4. Paired(mem', Tall(mem', D, mine'), Base(mem', D, mine'))
    <3>1. Pairs(mem, C, mine)
      BY <2>2 DEF Pairs
    <3>2. Pairs(mem', D, mine')
      BY ONLY <1>2, <1>3, <1>4, <2>1, <2>2, <3>1, Alternating, Reported(k, insert, own),
              mine' = IF own /\ insert THEN k ELSE 0, insert \in BOOLEAN, own \in BOOLEAN,
              AppliedCounts
    <3>3. QED
      BY <3>2 DEF Pairs
  <2>5. QED
    BY <1>1, <2>3, <2>4 DEF Counted
<1>13. Sound(D, rank, I, heads)'
  BY <1>3, <1>9, <1>10, <1>11, <1>12 DEF Sound
<1>14. Types'
  BY <1>5, <1>6, <1>7, <1>8 DEF Types
<1>15. QED
  BY <1>13, <1>14 DEF IInv

\* update_intermediate_layer keeps the invariant.
LEMMA ApplyStep ==
  ASSUME IInv, NEW k \in Keys, NEW insert \in BOOLEAN, NEW own \in BOOLEAN,
         Apply(k, insert, own), setting' = setting
  PROVE  IInv'
<1>1. PICK C, rank, I, heads : Sound(C, rank, I, heads)
  BY DEF IInv
<1>2. /\ Types /\ Heap(mem, Keys) /\ Chained(mem, C) /\ Indexed(mem, C, rank, I, heads)
      /\ heads[Len(heads)] = sentinel
  BY <1>1 DEF IInv, Sound, Structure, Types, MemoryType
<1>3. Keys \in SUBSET Nat /\ k \in Nat /\ k > 0
  BY <1>2, KeysType DEF Types
<1>4. PICK m : m = Descend(k)
  OBVIOUS
<1>5. m \in C /\ mem[m].key <= k /\ (mem[m].next # NULL => k < mem[mem[m].next].key)
  BY <1>2, <1>3, <1>4, DescendIs
<1>6. mem[m].key \in Nat
  BY <1>2, <1>5, ChainBlock
<1>7. /\ pc = "loop" /\ Reported(k, insert, own)
      /\ phase' = IF own THEN "measure" ELSE phase
      /\ mine' = IF own /\ insert THEN k ELSE 0
      /\ live' = IF insert THEN live \cup {k} ELSE live \ {k}
      /\ UNCHANGED <<sentinel, count, pc, round, search, stay, clean>>
  BY DEF Apply
<1>8. IF insert /\ mem[m].key # k
      THEN /\ mem' = [Put(Mnode(mem[m].next, k)) EXCEPT ![m].next = Fresh]
           /\ NAlloc
      ELSE /\ mem' = IF mem[m].key = k THEN [mem EXCEPT ![m].marked = ~insert] ELSE mem
           /\ UNCHANGED alloc
  BY <1>4 DEF Apply, MarkFor
<1>9. \E D : ApplyFacts(C, rank, I, heads, D, k, insert)
  <2>1. CASE insert /\ mem[m].key # k
    <3>1. mem[m].key < k
      BY <2>1, <1>3, <1>5, <1>6
    <3>2. insert = TRUE
      BY <2>1
    <3>3. \E D : ApplyFacts(C, rank, I, heads, D, k, TRUE)
      BY <1>1, <1>2, <1>5, <1>7, <1>8, <2>1, <3>1, ApplyMore
    <3>4. QED
      BY <3>2, <3>3
  <2>2. CASE mem[m].key = k
    <3>1. mem' = [mem EXCEPT ![m].marked = ~insert] /\ UNCHANGED <<last, released>>
      BY <1>8, <2>2 DEF alloc
    <3>2. ApplyFacts(C, rank, I, heads, C, k, insert)
      BY <1>1, <1>2, <1>5, <1>7, <2>2, <3>1, ApplyMark
    <3>3. QED
      BY <3>2
  <2>3. CASE ~insert /\ mem[m].key # k
    <3>1. mem' = mem /\ UNCHANGED <<last, released>>
      BY <1>8, <2>3 DEF alloc
    <3>2. \A c \in C : mem[c].key # k
      BY <1>2, <1>3, <1>5, <2>3, NotInChain
    <3>3. insert = FALSE
      BY <2>3
    <3>4. ApplyFacts(C, rank, I, heads, C, k, FALSE)
      BY <1>1, <1>2, <1>7, <3>1, <3>2, ApplyNone
    <3>5. QED
      BY <3>3, <3>4
  <2>4. QED
    BY <2>1, <2>2, <2>3
<1>10. PICK D : ApplyFacts(C, rank, I, heads, D, k, insert)
  BY <1>9
<1>11. QED
  BY ONLY <1>1, <1>7, <1>10, IInv, k \in Keys, insert \in BOOLEAN, own \in BOOLEAN,
          setting' = setting, ApplyHolds

\* An mnode without a level leaves the chain.
LEMMA UnlinkingLayers ==
  ASSUME NEW K, NEW h, NEW g, NEW C, NEW p, NEW d, Unlinking(K, h, g, C, p, d),
         NEW rank, NEW I, NEW heads, Layered(h, C, rank, I, heads), h[d].level = 0,
         NEW D, D = C \ {d}
  PROVE  /\ Layered(g, D, rank, I, heads)
         /\ \A c \in C : /\ g[c].kind = h[c].kind /\ g[c].key = h[c].key
                         /\ g[c].level = h[c].level /\ g[c].marked = h[c].marked
         /\ \A b \in Nat : rank[b] > 0 => g[b] = h[b]
<1>1. /\ Heap(h, K) /\ Chained(h, C) /\ DOMAIN h \subseteq DOMAIN g
      /\ p \in C /\ d \in C /\ h[p].next = d /\ d # NULL /\ d # First
      /\ g[p] = [h[p] EXCEPT !.next = h[d].next]
      /\ \A b \in DOMAIN h : b # p => g[b] = h[b]
      /\ Indexed(h, C, rank, I, heads) /\ h[First].level = Len(heads)
      /\ First \in C /\ C \subseteq DOMAIN h
  BY DEF Unlinking, Layered, Chained
<1>2. h[p] \in MnodeOf(Len(h), K)
  BY <1>1, ChainBlock, HeapHolds
<1>3. /\ g[p].kind = h[p].kind /\ g[p].key = h[p].key
      /\ g[p].level = h[p].level /\ g[p].marked = h[p].marked
  BY <1>1, <1>2 DEF MnodeOf
<1>4. \A c \in C : /\ g[c].kind = h[c].kind /\ g[c].key = h[c].key
                   /\ g[c].level = h[c].level /\ g[c].marked = h[c].marked
                   /\ h[c].level \in Nat /\ (c # p => g[c] = h[c])
  BY <1>1, <1>3, ChainBlock
<1>5. \A b \in Nat : rank[b] > 0 => g[b] = h[b]
  <2> SUFFICES ASSUME NEW b \in Nat, rank[b] > 0 PROVE g[b] = h[b]
    OBVIOUS
  <2>1. b \in DOMAIN h /\ h[b].kind = "inode"
    BY <1>1, RankedBlock, HeapHolds
  <2>2. h[p].kind = "mnode"
    BY <1>1, ChainBlock
  <2>3. QED
    BY <2>1, <2>2, <1>1
<1>6. Chained(g, D)
  <2>1. Chained(g, C \ {d})
    BY <1>1, <1>4, ChainedLess
  <2>2. QED
    BY <2>1
<1>7. Indexed(g, D, rank, I, heads)
  <2>1. \A b \in DOMAIN h : rank[b] > 0 => g[b] = h[b]
    BY <1>1, <1>5, HeapHolds
  <2>2. (\A c \in C : h[c].level \in Nat) /\ \A c \in D : g[c].level \in Nat
    BY <1>4
  <2>3. \A c \in C : h[c].level > 0 =>
          c \in D /\ g[c].key = h[c].key /\ h[c].level <= g[c].level
    BY <1>4
  <2>4. QED
    BY ONLY <1>1, <2>1, <2>2, <2>3, IndexedSame
<1>8. QED
  BY <1>1, <1>4, <1>5, <1>6, <1>7 DEF Layered

\* bg_mremove taking an mnode out of the chain keeps the invariant.
LEMMA UnlinkStep ==
  ASSUME IInv, Unlink, setting' = setting
  PROVE  IInv'
<1>1. PICK C, rank, I, heads : Sound(C, rank, I, heads)
  BY DEF IInv
<1>2. /\ Types /\ Heap(mem, Keys) /\ Chained(mem, C) /\ Indexed(mem, C, rank, I, heads)
      /\ heads[Len(heads)] = sentinel /\ Layered(mem, C, rank, I, heads)
      /\ Allocated(C) /\ Mirrored(C) /\ Counted(C) /\ Stage(C, rank, I, heads)
      /\ Searching(C, rank)
      /\ First \in C /\ mem[First].key = 0
      /\ last \in 1 .. Len(mem) /\ released \in BOOLEAN /\ stay \subseteq Keys
  BY <1>1 DEF IInv, Sound, Structure, Types, MemoryType, WorkType, Layered, Chained
<1>3. Keys \in SUBSET Nat /\ stay \subseteq Nat
  BY <1>2, KeysType DEF Types
<1>4. pc = "remove" /\ pc' = "mfree"
      /\ UNCHANGED <<last, released, sentinel, non_del, tall_del, at, row, raised, skipping,
                     search, phase, mine, live, clean>>
  BY DEF Unlink, alloc, count
<1>5. PICK p, d : /\ p \in C /\ d \in C /\ mem[p].next = d /\ d # First /\ Removable(d)
                  /\ mem' = [mem EXCEPT ![p].next = mem[d].next]
                  /\ old' = d /\ stay' = stay \ {mem[d].key}
  <2>1. PICK chain : chain = Chain
    OBVIOUS
  <2>2. /\ chain \in Seq(C) /\ Len(chain) > 0 /\ chain[1] = First
        /\ \A i, j \in 1 .. Len(chain) : i < j => mem[chain[i]].key < mem[chain[j]].key
        /\ \A i \in 1 .. Len(chain) :
             mem[chain[i]].next = IF i = Len(chain) THEN NULL ELSE chain[i + 1]
    BY <1>2, <2>1, ChainIs
  <2>3. PICK j \in 2 .. Len(chain) :
          /\ Removable(chain[j])
          /\ mem' = [mem EXCEPT ![chain[j - 1]].next = mem[chain[j]].next]
          /\ old' = chain[j] /\ stay' = stay \ {mem[chain[j]].key}
    BY <2>1 DEF Unlink
  <2>4. Len(chain) \in Nat /\ j \in 1 .. Len(chain) /\ j - 1 \in 1 .. Len(chain) /\ j - 1 # Len(chain)
        /\ 1 \in 1 .. Len(chain) /\ 1 < j /\ (j - 1) + 1 = j
    BY <2>2, <2>3
  <2>5. mem[chain[j - 1]].next = chain[j]
    BY <2>2, <2>4
  <2>6. chain[j] \in C /\ chain[j - 1] \in C
    BY <2>2, <2>4
  <2>7. chain[j] # First
    <3>1. mem[First].key < mem[chain[j]].key /\ mem[chain[j]].key \in Nat
      BY <1>2, <2>2, <2>4, <2>6, ChainBlock
    <3>2. QED
      BY <3>1, <1>2
  <2>8. QED
    BY <2>3, <2>5, <2>6, <2>7
<1>6. /\ p \in 1 .. Len(mem) /\ mem[p].kind = "mnode" /\ mem[p] \in MnodeOf(Len(mem), Keys)
      /\ d \in 1 .. Len(mem) /\ d # NULL /\ mem[d].kind = "mnode" /\ p # d
      /\ mem[d].next \in 0 .. Len(mem) /\ DOMAIN mem = 1 .. Len(mem) /\ Len(mem) \in Nat
      /\ mem[d].marked /\ mem[d].level = 0
  <2>1. /\ p \in 1 .. Len(mem) /\ mem[p].kind = "mnode"
        /\ d \in 1 .. Len(mem) /\ mem[d].kind = "mnode" /\ mem[d].next \in 0 .. Len(mem)
        /\ mem[p].key \in Nat
        /\ mem[p].next # NULL => mem[p].key < mem[mem[p].next].key
    BY <1>2, <1>5, ChainBlock
  <2>2. d # NULL /\ p # d
    BY <1>5, <2>1 DEF NULL
  <2>3. QED
    BY <1>2, <1>5, <2>1, <2>2, HeapHolds DEF Removable
<1> DEFINE x == [mem[p] EXCEPT !.next = mem[d].next]
<1>7. x \in Blocks(Len(mem), Keys) /\ mem' = [mem EXCEPT ![p] = x]
  BY <1>5, <1>6, MnodeStore
<1> HIDE DEF x
<1>8. /\ Heap(mem', Keys) /\ Len(mem') = Len(mem) /\ DOMAIN mem' = DOMAIN mem /\ mem'[p] = x
      /\ \A c \in DOMAIN mem : c # p => mem'[c] = mem[c]
  <2> DEFINE g == [mem EXCEPT ![p] = x]
  <2>1. /\ Heap(g, Keys) /\ Len(g) = Len(mem) /\ DOMAIN g = DOMAIN mem /\ g[p] = x
        /\ \A c \in DOMAIN mem : c # p => g[c] = mem[c]
    <3>1. Heap(mem, Keys) /\ p \in 1 .. Len(mem) /\ x \in Blocks(Len(mem), Keys)
      BY <1>2, <1>6, <1>7
    <3>2. QED
      BY ONLY <3>1, HeapExcept
  <2>2. mem' = g
    BY <1>7
  <2> HIDE DEF g
  <2>3. QED
    BY ONLY <2>1, <2>2
<1>9. Unlinking(Keys, mem, mem', C, p, d)
  BY <1>2, <1>5, <1>6, <1>8 DEF Unlinking, x
<1>10. PICK D : D = C \ {d}
  OBVIOUS
<1>11. /\ Layered(mem', D, rank, I, heads)
       /\ \A c \in C : /\ mem'[c].kind = mem[c].kind /\ mem'[c].key = mem[c].key
                       /\ mem'[c].level = mem[c].level /\ mem'[c].marked = mem[c].marked
       /\ \A b \in Nat : rank[b] > 0 => mem'[b] = mem[b]
  BY ONLY <1>2, <1>6, <1>9, <1>10, UnlinkingLayers, SMTT(30)
<1>12. Structure(D, rank, I, heads)'
  BY ONLY <1>2, <1>4, <1>11, StructurePrimed
<1>13. Allocated(D)'
  <2>1. released => mem[last] = Zeroed
    BY <1>2 DEF Allocated
  <2>2. mem[last].kind = "mnode" => last \in C
    BY <1>2, <1>4 DEF Allocated
  <2>3. mem[last] = Zeroed => mem'[last] = Zeroed
    BY <1>2, <1>6, <1>8 DEF Zeroed
  <2>4. mem'[last].kind = mem[last].kind
    BY <1>2, <1>5, <1>6, <1>8, <1>11
  <2>5. mem'[d].kind = "mnode" /\ d \in DOMAIN mem' /\ d \notin D
    BY <1>5, <1>6, <1>8, <1>10, <1>11
  <2>6. mem'[d].key \notin KeysOf(mem', D)
    <3>1. \A c \in C : mem[c].key = mem[d].key => c = d
      BY <1>2, <1>5 DEF Chained
    <3>2. QED
      BY <3>1, <1>5, <1>10, <1>11 DEF KeysOf
  <2>7. QED
    BY <1>4, <1>5, <1>10, <2>1, <2>2, <2>3, <2>4, <2>5, <2>6 DEF Allocated, KeysOf
<1>14. Mirrored(D)'
  <2>1. LiveKeys(mem', D) = LiveKeys(mem, C)
    <3>1. \A c : c \in D \ {First} /\ ~mem'[c].marked <=> c \in C \ {First} /\ ~mem[c].marked
      BY <1>6, <1>10, <1>11
    <3>2. QED
      BY <3>1, <1>10, <1>11 DEF LiveKeys
  <2>2. QED
    BY <1>2, <1>4, <2>1 DEF Mirrored, LiveKeys
<1>15. Stage(D, rank, I, heads)'
  <2>1. phase # "populate"
    BY <1>2, <1>5, <1>6 DEF Stage
  <2>2. QED
    BY <1>4, <2>1 DEF Stage
<1>16. Searching(D, rank)'
  <2>1. search.pc \in {"right", "down"} =>
           rank[search.at] > 0 /\ mem'[search.at].key = mem[search.at].key
    <3>1. search.at \in Nat
      BY <1>2, <1>6 DEF Types, SearchType
    <3>2. QED
      BY <1>2, <1>11, <3>1 DEF Searching
  <2>2. ASSUME NEW W, Passable(mem, C, W, stay)
        PROVE  \E V : Wider(mem, mem', W, V) /\ Passable(mem', D, V, stay')
    <3>1. stay' = stay \ {mem[d].key}
      BY <1>5
    <3>2. Wider(mem, mem', W, W) /\ Passable(mem', D, W, stay')
      BY ONLY <1>3, <1>9, <1>10, <2>2, <3>1, PassableLess
    <3>3. QED
      BY <3>2
  <2>3. stay' \subseteq stay /\ DOMAIN mem \subseteq DOMAIN mem' /\ search' = search
        /\ clean' = clean
    BY <1>4, <1>5, <1>8
  <2>4. QED
    BY ONLY <1>2, <2>1, <2>2, <2>3, setting' = setting, SearchingKept
<1>17. Counted(D)'
  <2> SUFFICES ASSUME Alternating
               PROVE  Paired(mem', Tall(mem', D, mine), Base(mem', D, mine))
    BY <1>2, <1>4 DEF Counted, Alternating, Paired, Tall, Base
  <2>1. Paired(mem, Tall(mem, C, mine), Base(mem, C, mine))
    BY <1>2 DEF Counted
  <2>2. /\ Tall(mem', D, mine) \subseteq Tall(mem, C, mine)
        /\ Base(mem, C, mine) \subseteq Base(mem', D, mine)
    BY <1>6, <1>10, <1>11 DEF Tall, Base
  <2>3. /\ \A c \in Tall(mem, C, mine) : mem'[c].key = mem[c].key
        /\ \A c \in Base(mem, C, mine) : mem'[c].key = mem[c].key
    BY <1>11 DEF Tall, Base
  <2>4. QED
    BY ONLY <2>1, <2>2, <2>3, PairedKept
<1>18. Types'
  <2>1. SearchType'
    BY <1>2, <1>4, <1>8 DEF Types, SearchType, Keys
  <2>2. HelperType'
    BY <1>2, <1>4, <1>5, <1>6, <1>8 DEF Types, HelperType
  <2>3. MemoryType'
    <3>1. Heap(mem, Keys)'
      BY <1>8 DEF Keys, Heap
    <3>2. QED
      BY <1>2, <1>4, <1>8, <3>1 DEF Types, MemoryType
  <2>4. WorkType'
    BY <1>2, <1>4, <1>5 DEF Types, WorkType, Keys
  <2>5. QED
    BY <2>1, <2>2, <2>3, <2>4 DEF Types
<1>19. QED
  BY <1>12, <1>13, <1>14, <1>15, <1>16, <1>17, <1>18 DEF IInv, Sound

\* A block outside the index and the chain is zeroed.
Zeroing(h, g, C, d) ==
  /\ DOMAIN g = DOMAIN h /\ d \in DOMAIN h /\ h[d].kind = "mnode" /\ d \notin C
  /\ \A b \in DOMAIN h : b # d => g[b] = h[b]

\* Zeroing a block that is in no layer changes no block that is.
LEMMA ZeroedLayers ==
  ASSUME NEW K, NEW h, NEW g, NEW C, NEW rank, NEW I, NEW heads, Heap(h, K),
         Layered(h, C, rank, I, heads), NEW d, Zeroing(h, g, C, d)
  PROVE  /\ Layered(g, C, rank, I, heads)
         /\ \A c \in C : g[c] = h[c]
         /\ \A b \in Nat : rank[b] > 0 => g[b] = h[b]
<1> USE DEF Zeroing
<1>1. /\ Chained(h, C) /\ Indexed(h, C, rank, I, heads) /\ h[First].level = Len(heads)
      /\ First \in C /\ C \subseteq DOMAIN h /\ ~h[First].marked /\ DOMAIN h \subseteq DOMAIN g
  BY DEF Layered, Chained
<1>2. \A c \in C : g[c] = h[c]
  BY <1>1
<1>3. \A b \in Nat : rank[b] > 0 => g[b] = h[b]
  <2> SUFFICES ASSUME NEW b \in Nat, rank[b] > 0 PROVE g[b] = h[b]
    OBVIOUS
  <2>1. b \in DOMAIN h /\ h[b].kind = "inode"
    BY <1>1, RankedBlock, HeapHolds
  <2>2. QED
    BY <2>1
<1>4. Chained(g, C)
  <2>1. (\A c \in C : g[c].kind = h[c].kind /\ g[c].next = h[c].next /\ g[c].key = h[c].key)
        /\ ~g[First].marked
    BY <1>1, <1>2
  <2>2. QED
    BY ONLY <1>1, <2>1, ChainedSame
<1>5. Indexed(g, C, rank, I, heads)
  <2>1. \A b \in DOMAIN h : rank[b] > 0 => g[b] = h[b]
    BY <1>3, HeapHolds
  <2>2. \A c \in C : h[c].level \in Nat /\ g[c].level \in Nat
    BY <1>1, <1>2, ChainBlock
  <2>3. \A c \in C : h[c].level > 0 =>
          c \in C /\ g[c].key = h[c].key /\ h[c].level <= g[c].level
    BY <1>2, <2>2
  <2>4. QED
    BY ONLY <1>1, <2>1, <2>2, <2>3, Heap(h, K), IndexedSame
<1>6. QED
  BY <1>1, <1>2, <1>3, <1>4, <1>5 DEF Layered

\* mnode_delete keeps the invariant: the block compared by contents is the right one.
LEMMA FreeMnodeStep ==
  ASSUME IInv, FreeMnode, setting' = setting
  PROVE  IInv'
<1>1. PICK C, rank, I, heads : Sound(C, rank, I, heads)
  BY DEF IInv
<1>2. /\ Types /\ Heap(mem, Keys) /\ heads[Len(heads)] = sentinel
      /\ Structure(C, rank, I, heads) /\ Layered(mem, C, rank, I, heads)
      /\ Allocated(C) /\ Mirrored(C) /\ Counted(C) /\ Stage(C, rank, I, heads)
      /\ Searching(C, rank)
      /\ last \in 1 .. Len(mem) /\ released \in BOOLEAN
  BY <1>1 DEF IInv, Sound, Structure, Types, MemoryType, Layered
<1>3. /\ pc = "mfree" /\ old' = NULL /\ NFree(old)
      /\ pc' = IF TakesAnother(old) THEN "corrupt" ELSE "remove"
      /\ UNCHANGED <<last, sentinel, non_del, tall_del, at, row, raised, skipping, search,
                     phase, mine, live, stay>>
  BY DEF FreeMnode, count
<1>4. /\ old \in DOMAIN mem /\ mem[old].kind = "mnode" /\ old \notin C
      /\ mem[old].key \notin KeysOf(mem, C)
      /\ mem[last].kind = "mnode" => last \in C \/ last = old
  BY <1>2, <1>3 DEF Allocated
<1>5. mem[old] = mem[last] => last = old
  BY <1>4 DEF KeysOf
<1>6. pc' = "remove"
  BY <1>3, <1>5 DEF TakesAnother
<1>7. phase # "populate" /\ DOMAIN mem = 1 .. Len(mem) /\ Len(mem) \in Nat
  BY <1>2, <1>3, HeapHolds DEF Stage
<1>8. NULL \in 0 .. Len(mem)
  BY <1>7 DEF NULL
<1>9. CASE mem[old] = mem[last]
  <2>1. last = old /\ mem' = [mem EXCEPT ![last] = Zeroed] /\ released' = TRUE
        /\ clean' = (clean /\ search.pc = "done")
    BY <1>3, <1>5, <1>9 DEF NFree
  <2>2. /\ Heap(mem', Keys) /\ Len(mem') = Len(mem) /\ DOMAIN mem' = DOMAIN mem
        /\ mem'[last] = Zeroed /\ \A c \in DOMAIN mem : c # last => mem'[c] = mem[c]
    <3>1. Zeroed \in Blocks(Len(mem), Keys)
      BY DEF Blocks
    <3>2. Heap(mem, Keys) /\ last \in 1 .. Len(mem)
      BY <1>2
    <3> DEFINE g == [mem EXCEPT ![last] = Zeroed]
    <3>3. /\ Heap(g, Keys) /\ Len(g) = Len(mem) /\ DOMAIN g = DOMAIN mem
          /\ g[last] = Zeroed /\ \A c \in DOMAIN mem : c # last => g[c] = mem[c]
      BY ONLY <3>1, <3>2, HeapExcept
    <3>4. mem' = g
      BY <2>1
    <3> HIDE DEF g
    <3>5. QED
      BY ONLY <3>3, <3>4
  <2>3. /\ Layered(mem', C, rank, I, heads)
        /\ \A c \in C : mem'[c] = mem[c]
        /\ \A b \in Nat : rank[b] > 0 => mem'[b] = mem[b]
    <3>1. Zeroing(mem, mem', C, old)
      BY <1>4, <2>1, <2>2 DEF Zeroing
    <3>2. QED
      BY ONLY <1>2, <3>1, ZeroedLayers
  <2>4. Structure(C, rank, I, heads)'
    BY ONLY <1>2, <1>3, <2>3, StructurePrimed
  <2>5. Allocated(C)'
    BY <1>3, <1>6, <2>2 DEF Allocated, Zeroed
  <2>6. Mirrored(C)'
    BY <1>2, <1>3, <2>3 DEF Mirrored, LiveKeys
  <2>7. Stage(C, rank, I, heads)'
    BY <1>3, <1>6, <1>7 DEF Stage
  <2>8. Searching(C, rank)'
    <3>1. search.at \in Nat
      BY <1>2, <1>7 DEF Types, SearchType
    <3>2. search.pc \in {"right", "down"} =>
            rank[search.at] > 0 /\ mem'[search.at].key < search.key
      BY <1>2, <2>3, <3>1 DEF Searching
    <3>3. /\ search.pc # "done" => search.at \in DOMAIN mem' /\ search.key \in Keys'
          /\ search.pc = "done" /\ clean =>
               /\ search.entry \in 0 .. search.key
               /\ \A k \in stay : k <= search.key => k <= search.entry
      BY <1>2, <2>2 DEF Searching, Keys
    <3>4. search' = search /\ stay' = stay /\ (clean' => clean /\ search.pc = "done")
      BY <1>3, <2>1
    <3>5. QED
      BY <3>2, <3>3, <3>4 DEF Searching, Passable
  <2>9. Counted(C)'
    BY <1>2, <1>3, <2>3 DEF Counted, Alternating, Tall, Base, Paired
  <2>10. Types'
    <3>1. SearchType'
      BY <1>2, <1>3, <2>2 DEF Types, SearchType, Keys
    <3>2. HelperType'
      BY <1>2, <1>3, <1>6, <1>8, <2>2 DEF Types, HelperType
    <3>3. MemoryType'
      <4>1. Heap(mem, Keys)'
        BY <2>2 DEF Keys, Heap
      <4>2. QED
        BY <1>2, <1>3, <2>1, <2>2, <4>1 DEF Types, MemoryType
    <3>4. WorkType'
      BY <1>2, <1>3, <2>1 DEF Types, WorkType, Keys
    <3>5. QED
      BY <3>1, <3>2, <3>3, <3>4 DEF Types
  <2>11. QED
    BY <2>4, <2>5, <2>6, <2>7, <2>8, <2>9, <2>10 DEF IInv, Sound
<1>10. CASE mem[old] # mem[last]
  <2>1. UNCHANGED <<mem, released, clean>>
    BY <1>3, <1>10 DEF NFree
  <2>2. Structure(C, rank, I, heads)'
    BY ONLY <1>2, <1>3, <2>1, StructureSame
  <2>3. Allocated(C)'
    BY <1>2, <1>3, <1>4, <1>6, <1>10, <2>1 DEF Allocated
  <2>4. Mirrored(C)'
    BY <1>2, <1>3, <2>1 DEF Mirrored, LiveKeys
  <2>5. Stage(C, rank, I, heads)'
    BY <1>3, <1>6, <1>7 DEF Stage
  <2>6. Searching(C, rank)'
    BY <1>2, <1>3, <2>1 DEF Searching, Keys, Passable
  <2>7. Counted(C)'
    BY <1>2, <1>3, <2>1 DEF Counted, Alternating, Tall, Base, Paired
  <2>8. Types'
    <3>1. SearchType'
      BY <1>2, <1>3, <2>1 DEF Types, SearchType, Keys
    <3>2. HelperType'
      BY <1>2, <1>3, <1>6, <1>8, <2>1 DEF Types, HelperType
    <3>3. MemoryType'
      BY <1>2, <1>3, <2>1 DEF Types, MemoryType, Heap, Keys
    <3>4. WorkType'
      BY <1>2, <1>3, <2>1 DEF Types, WorkType, Keys
    <3>5. QED
      BY <3>1, <3>2, <3>3, <3>4 DEF Types
  <2>9. QED
    BY <2>2, <2>3, <2>4, <2>5, <2>6, <2>7, <2>8 DEF IInv, Sound
<1>11. QED
  BY <1>9, <1>10

\* An inode of the row r is put in after p, on the mnode m and the inode d.
Inserting(K, h, g, C, rank, I, heads, r, p, m, d, f) ==
  /\ Heap(h, K) /\ Grown(h, g, K) /\ Layered(h, C, rank, I, heads)
  /\ r \in 1 .. Len(heads) /\ Place(h, C, rank, I, r, p, m) /\ Below(h, rank, r, d, h[m].key)
  /\ f \in Nat /\ f # NULL /\ f \notin C /\ rank[f] = 0
  /\ (f \notin DOMAIN h \/ h[f].kind = "zero")
  /\ Inserted(h, g, r, p, m, d, f)

\* Of the mnodes only the level of m has changed, and no inode has another key.
Leveled(h, g, C, rank, m, r) ==
  /\ Linked(h, g)
  /\ \A c \in C : /\ g[c].kind = h[c].kind /\ g[c].key = h[c].key /\ g[c].next = h[c].next
                  /\ g[c].marked = h[c].marked
                  /\ g[c].level = IF c = m THEN r ELSE h[c].level
  /\ \A b \in Nat : rank[b] > 0 => /\ g[b].key = h[b].key /\ g[b].down = h[b].down
                                   /\ g[b].intermed = h[b].intermed

\* An inode put behind another at its place of the row keeps the layers.
LEMMA InsertingLayers ==
  ASSUME NEW K, NEW h, NEW g, NEW C, NEW rank, NEW I, NEW heads, NEW r, NEW p, NEW m, NEW d,
         NEW f, Inserting(K, h, g, C, rank, I, heads, r, p, m, d, f)
  PROVE  /\ Layered(g, C, [rank EXCEPT ![f] = r], I \cup {f}, heads)
         /\ Leveled(h, g, C, rank, m, r)
         /\ m # First /\ m \in C /\ r > 0
<1>1. /\ Heap(h, K) /\ Grown(h, g, K) /\ Layered(h, C, rank, I, heads)
      /\ r \in 1 .. Len(heads) /\ Place(h, C, rank, I, r, p, m)
      /\ Below(h, rank, r, d, h[m].key)
      /\ f \in Nat /\ f # NULL /\ f \notin C /\ rank[f] = 0
      /\ (f \notin DOMAIN h \/ h[f].kind = "zero")
      /\ Inserted(h, g, r, p, m, d, f)
  BY DEF Inserting
<1>2. /\ Chained(h, C) /\ Indexed(h, C, rank, I, heads) /\ h[First].level = Len(heads)
      /\ First \in C /\ C \subseteq DOMAIN h /\ ~h[First].marked /\ DOMAIN h \subseteq DOMAIN g
  BY <1>1 DEF Layered, Chained, Grown
<1>3. /\ \A c \in C : /\ g[c].kind = "mnode" /\ g[c].key = h[c].key
                      /\ g[c].next = h[c].next /\ g[c].marked = h[c].marked
                      /\ g[c].level = IF c = m THEN r ELSE h[c].level
      /\ \A b \in Nat : rank[b] > 0 =>
           /\ b # f /\ g[b].key = h[b].key
           /\ g[b].down = h[b].down /\ g[b].intermed = h[b].intermed
      /\ rank[p] > 0 /\ p \in Nat
  BY <1>1, <1>2, InsertedKeeps
<1>4. m \in C /\ h[m].level < r /\ m # First /\ r > 0
  <2>1. m \in C /\ h[m].level < r
    BY <1>1 DEF Place
  <2>2. r \in Nat /\ Len(heads) \in Nat /\ r <= Len(heads) /\ r > 0
    BY <1>1, <1>2 DEF Indexed, Headed
  <2>3. h[First].level = Len(heads)
    BY <1>2
  <2>4. QED
    BY <2>1, <2>2, <2>3
<1>5. \A c \in C : h[c].kind = "mnode"
  BY <1>2 DEF Chained
<1>6. Chained(g, C)
  <2>1. (\A c \in C : g[c].kind = h[c].kind /\ g[c].next = h[c].next /\ g[c].key = h[c].key)
        /\ ~g[First].marked
    BY <1>2, <1>3, <1>5
  <2>2. QED
    BY ONLY <1>2, <2>1, ChainedSame
<1>7. Indexed(g, C, [rank EXCEPT ![f] = r], I \cup {f}, heads)
  BY <1>1, <1>2, IndexedMore
<1>8. Linked(h, g)
  <2> SUFFICES ASSUME NEW b \in DOMAIN h, h[b].kind = "mnode"
               PROVE  g[b].kind = "mnode" /\ g[b].key = h[b].key /\ g[b].next = h[b].next
    BY <1>2 DEF Linked
  <2>1. CASE b = m
    BY <2>1, <1>3, <1>4
  <2>2. CASE b # m
    <3>1. b # f
      BY <1>1
    <3>2. b # p
      BY <1>1, <1>2, <1>3, RankedBlock
    <3>3. g[b] = h[b]
      BY <1>1, <2>2, <3>1, <3>2 DEF Inserted
    <3>4. QED
      BY <3>3
  <2>3. QED
    BY <2>1, <2>2
<1>9. Leveled(h, g, C, rank, m, r)
  BY <1>3, <1>5, <1>8 DEF Leveled
<1>10. Layered(g, C, [rank EXCEPT ![f] = r], I \cup {f}, heads)
  BY <1>2, <1>3, <1>4, <1>6, <1>7 DEF Layered
<1>11. QED
  BY <1>4, <1>9, <1>10

\* What holds after such a step of the helper.
Settled(C, R, J, tops) ==
  /\ SearchType' /\ MemoryType' /\ WorkType'
  /\ Structure(C, R, J, tops)' /\ Allocated(C)' /\ Mirrored(C)' /\ Searching(C, R)'
  /\ ~released'

\* The helper's stores into the levels and the inodes, with one new inode f.
LEMMA StoreSettles ==
  ASSUME Types, NEW C, NEW rank, NEW I, NEW heads, Sound(C, rank, I, heads),
         NEW f, f = Fresh, Grown(mem, mem', Keys), NAlloc, f \in DOMAIN mem',
         mem'[f].kind = "inode",
         NEW R, NEW J, NEW tops, Layered(mem', C, R, J, tops),
         sentinel' \in 1 .. Len(mem'), tops[Len(tops)] = sentinel',
         NEW m, NEW r, Leveled(mem, mem', C, rank, m, r),
         \A b \in Nat : rank[b] > 0 => R[b] > 0,
         UNCHANGED <<setting, search, stay, clean, phase, mine, live>>,
         pc' # "mfree"
  PROVE  Settled(C, R, J, tops)
<1>1. /\ Heap(mem, Keys) /\ Chained(mem, C) /\ Indexed(mem, C, rank, I, heads)
      /\ Mirrored(C) /\ Searching(C, rank) /\ SearchType /\ MemoryType /\ WorkType
  BY DEF Sound, Structure, Types, MemoryType
<1>2. last' = f /\ released' = FALSE
  BY DEF NAlloc
<1>3. /\ SearchType' /\ Heap(mem, Keys)' /\ Len(mem)' \in Nat /\ Len(mem) \in Nat
  BY <1>1, TypesGrown
<1>4. f \in 1 .. Len(mem')
  <2>1. Heap(mem', Keys)
    BY DEF Grown
  <2>2. QED
    BY <2>1, HeapHolds
<1>5. MemoryType'
  BY <1>1, <1>2, <1>3, <1>4 DEF MemoryType
<1>6. WorkType'
  BY <1>1 DEF WorkType, Keys
<1>7. Structure(C, R, J, tops)'
  BY ONLY StructurePrimed, Layered(mem', C, R, J, tops), tops[Len(tops)] = sentinel'
<1>8. Allocated(C)'
  BY <1>2 DEF Allocated
<1>9. Linked(mem, mem') /\ (\A c \in C : mem'[c].key = mem[c].key /\ mem'[c].marked = mem[c].marked)
      /\ \A b \in Nat : rank[b] > 0 => mem'[b].key = mem[b].key
  BY DEF Leveled
<1>10. Mirrored(C)'
  <2>1. LiveKeys(mem', C) = LiveKeys(mem, C)
    BY <1>9 DEF LiveKeys
  <2>2. QED
    BY <1>1, <2>1 DEF Mirrored, LiveKeys
<1>11. Searching(C, R)'
  <2>1. search.at \in Nat
    BY <1>1, <1>3 DEF SearchType
  <2>2. Ranked(mem, C, rank, Len(heads))
    BY <1>1 DEF Indexed
  <2>3. \A b \in Nat : rank[b] > 0 => R[b] > 0 /\ mem'[b].key = mem[b].key
    BY <1>9
  <2>4. UNCHANGED <<setting, search, stay, clean>>
    OBVIOUS
  <2>5. QED
    BY ONLY <1>1, <1>9, <2>1, <2>2, <2>3, <2>4, SearchingLinked
<1>12. QED
  BY <1>2, <1>3, <1>5, <1>6, <1>7, <1>8, <1>10, <1>11 DEF Settled

\* A step that touches no counter keeps what is known of them.
LEMMA CountedPrimed ==
  ASSUME NEW C, Counted(C), UNCHANGED <<setting, non_del, tall_del, mine, phase>>,
         Alternating => Pairs(mem', C, mine)
  PROVE  Counted(C)'
<1>1. Alternating => Paired(mem', Tall(mem', C, mine), Base(mem', C, mine))
  BY DEF Pairs
<1>2. Alternating => tall_del <= non_del /\ (mine # 0 => phase = "measure")
  BY DEF Counted
<1>3. QED
  BY ONLY <1>1, <1>2, UNCHANGED <<setting, non_del, tall_del, mine, phase>>
     DEF Counted, Alternating, Paired, Tall, Base

\* The levels of mnodes that had one change nothing for the pairs.
LEMMA LeveledCounts ==
  ASSUME NEW C, NEW rank, NEW I, NEW heads, Sound(C, rank, I, heads), Chained(mem, C),
         NEW m, NEW r, Leveled(mem, mem', C, rank, m, r),
         Tall(mem', C, mine) \subseteq Tall(mem, C, mine),
         UNCHANGED <<setting, non_del, tall_del, mine, phase>>
  PROVE  Counted(C)'
<1> SUFFICES ASSUME Alternating PROVE Pairs(mem', C, mine)
  BY CountedPrimed DEF Sound
<1>1. Paired(mem, Tall(mem, C, mine), Base(mem, C, mine))
  BY DEF Sound, Counted
<1>2. \A c \in C : mem'[c].key = mem[c].key /\ mem'[c].marked = mem[c].marked
  BY DEF Leveled
<1>3. Base(mem, C, mine) \subseteq Base(mem', C, mine)
  BY <1>2 DEF Base
<1>4. /\ \A c \in Tall(mem, C, mine) : mem'[c].key = mem[c].key
      /\ \A c \in Base(mem, C, mine) : mem'[c].key = mem[c].key
  BY <1>2 DEF Tall, Base
<1>5. QED
  BY <1>1, <1>3, <1>4, PairedKept DEF Pairs

\* A step of the helper puts a new inode f of the row r on the mnode m and the inode d.
StoresInode(C, rank, heads, r, m, d, f, p) ==
  /\ r \in 1 .. Len(heads) /\ m \in C /\ mem[m].key > 0 /\ mem[m].level < r
  /\ d \in 0 .. Len(mem) /\ Below(mem, rank, r, d, mem[m].key)
  /\ f = Fresh /\ p = Before(Row(Column[r]), mem[m].key)
  /\ mem' = [Put(Inode(mem[p].right, d, m, mem[m].key)) EXCEPT
                        ![p].right = Fresh, ![m].level = r]
  /\ NAlloc /\ pc' # "mfree"
  /\ UNCHANGED <<setting, sentinel, search, stay, clean, phase, mine, live>>

\* What it comes to.
InodeIn(C, rank, I, heads, r, m, f) ==
  /\ Settled(C, [rank EXCEPT ![f] = r], I \cup {f}, heads)
  /\ Leveled(mem, mem', C, rank, m, r) /\ Grown(mem, mem', Keys)
  /\ m # First /\ rank \in [Nat -> 0 .. Len(heads)] /\ f \in Nat /\ rank[f] = 0

\* The stores of a raise are those of an inode put into its row.
LEMMA InodeStored ==
  ASSUME Types, NEW C, NEW rank, NEW I, NEW heads, Sound(C, rank, I, heads),
         NEW r, NEW m, NEW d, NEW f, NEW p, StoresInode(C, rank, heads, r, m, d, f, p)
  PROVE  InodeIn(C, rank, I, heads, r, m, f)
<1>s. /\ r \in 1 .. Len(heads) /\ m \in C /\ mem[m].key > 0 /\ mem[m].level < r
      /\ d \in 0 .. Len(mem) /\ Below(mem, rank, r, d, mem[m].key)
      /\ f = Fresh
  BY DEF StoresInode
<1>t. p = Before(Row(Column[r]), mem[m].key)
  BY DEF StoresInode
<1>u. mem' = [Put(Inode(mem[p].right, d, m, mem[m].key)) EXCEPT
                        ![p].right = Fresh, ![m].level = r]
  BY DEF StoresInode
<1>v. /\ NAlloc /\ pc' # "mfree"
      /\ UNCHANGED <<setting, sentinel, search, stay, clean, phase, mine, live>>
  BY DEF StoresInode
<1>1. /\ Heap(mem, Keys) /\ Layered(mem, C, rank, I, heads) /\ Chained(mem, C)
      /\ Indexed(mem, C, rank, I, heads)
      /\ last \in 1 .. Len(mem) /\ sentinel \in 1 .. Len(mem) /\ released \in BOOLEAN
      /\ heads[Len(heads)] = sentinel
  BY DEF Sound, Structure, Types, MemoryType, Layered
<1>r. r \in Nat /\ r > 0 /\ Len(heads) \in Nat
  <2>1. Len(heads) \in Nat
    BY ONLY <1>1 DEF Indexed, Headed
  <2>2. r \in 1 .. Len(heads)
    BY <1>s
  <2>3. QED
    BY ONLY <2>1, <2>2
<1>2. /\ f \in Nat /\ f # NULL /\ f \notin C /\ rank[f] = 0
      /\ f \notin DOMAIN mem \/ mem[f].kind = "zero"
  BY <1>s, FreshIs DEF Types, Sound
<1>3. Column = heads
  BY ONLY <1>1, ColumnIs
<1>4. m \in 1 .. Len(mem) /\ mem[m].kind = "mnode" /\ mem[m].key \in Nat /\ m # f
  BY <1>s, <1>1, <1>2, ChainBlock
<1>5. /\ p \in I /\ rank[p] = r /\ mem[p].key < mem[m].key
      /\ \A c \in I : rank[c] = r => mem[c].key <= mem[p].key \/ mem[m].key <= mem[c].key
  <2>1. p = Before(Row(heads[r]), mem[m].key)
    BY <1>t, <1>3
  <2>2. r \in 1 .. Len(heads) /\ mem[m].key \in Nat /\ mem[m].key > 0
    BY <1>s, <1>4
  <2>3. QED
    BY ONLY <1>1, <2>1, <2>2, BeforeIs
<1>6. Place(mem, C, rank, I, r, p, m)
  BY <1>s, <1>5 DEF Place
<1>7. p \in 1 .. Len(mem) /\ mem[p].kind = "inode" /\ p # f
  <2>1. p \in Nat /\ rank[p] > 0
    BY ONLY <1>1, <1>5, <1>r DEF Indexed, Rowed
  <2>2. QED
    <3>1. p \in 1 .. Len(mem) /\ mem[p].kind = "inode"
      BY ONLY <1>1, <2>1, RankedBlock
    <3>2. p # f
      BY ONLY <1>1, <1>2, <3>1, HeapHolds
    <3>3. QED
      BY ONLY <3>1, <3>2
<1>9. Grown(mem, mem', Keys) /\ Inserted(mem, mem', r, p, m, d, f)
  <2>1. /\ Heap(mem, Keys) /\ last \in 1 .. Len(mem) /\ released \in BOOLEAN
        /\ m \in 1 .. Len(mem) /\ mem[m].kind = "mnode" /\ m # Fresh
        /\ p \in 1 .. Len(mem) /\ mem[p].kind = "inode" /\ p # Fresh
        /\ d \in 0 .. Len(mem) /\ r \in Nat
    BY <1>s, <1>1, <1>4, <1>7, <1>r
  <2> DEFINE g == [Put(Inode(mem[p].right, d, m, mem[m].key)) EXCEPT
                        ![p].right = Fresh, ![m].level = r]
  <2>2. Grown(mem, g, Keys) /\ Inserted(mem, g, r, p, m, d, Fresh)
    BY ONLY <2>1, StoreInode
  <2>3. mem' = g /\ f = Fresh
    BY <1>s, <1>u
  <2> HIDE DEF g
  <2>4. QED
    BY ONLY <2>2, <2>3
<1>10. Inserting(Keys, mem, mem', C, rank, I, heads, r, p, m, d, f)
  BY <1>s, <1>1, <1>2, <1>6, <1>9 DEF Inserting
<1>11. /\ Layered(mem', C, [rank EXCEPT ![f] = r], I \cup {f}, heads)
       /\ Leveled(mem, mem', C, rank, m, r)
       /\ m # First
  BY ONLY <1>10, InsertingLayers
<1>12. rank \in [Nat -> 0 .. Len(heads)]
  BY <1>1 DEF Indexed, Ranked
<1>13. \A b \in Nat : rank[b] > 0 => [rank EXCEPT ![f] = r][b] > 0
  BY ONLY <1>2, <1>r, <1>12
<1>14. f \in DOMAIN mem' /\ mem'[f].kind = "inode" /\ sentinel' \in 1 .. Len(mem')
  <2>1. f \in DOMAIN mem' /\ mem'[f].kind = "inode"
    BY ONLY <1>9 DEF Inserted, Inode
  <2>2. Heap(mem', Keys) /\ Len(mem) <= Len(mem')
    BY <1>9 DEF Grown
  <2>3. Len(mem) \in Nat /\ Len(mem') \in Nat
    BY <1>1, <2>2, HeapHolds
  <2>4. sentinel' \in 1 .. Len(mem')
    <3>1. sentinel' = sentinel
      BY <1>v
    <3>2. QED
      BY ONLY <1>1, <2>2, <2>3, <3>1
  <2>5. QED
    BY <2>1, <2>4
<1>15. PICK R, J : R = [rank EXCEPT ![f] = r] /\ J = I \cup {f}
  OBVIOUS
<1>16. Settled(C, R, J, heads)
  <2>1. Layered(mem', C, R, J, heads) /\ \A b \in Nat : rank[b] > 0 => R[b] > 0
    BY <1>11, <1>13, <1>15
  <2>2. heads[Len(heads)] = sentinel'
    BY <1>1, <1>v
  <2>3. QED
    BY ONLY Types, Sound(C, rank, I, heads), <1>s, <1>v, <1>9, <1>11, <1>14, <2>1, <2>2,
            StoreSettles
<1>17. QED
  BY <1>2, <1>9, <1>11, <1>12, <1>15, <1>16 DEF InodeIn

\* bg_raise_ilevel raising an inode keeps the invariant.
LEMMA RaiseInodeStep ==
  ASSUME IInv, RaiseInode, setting' = setting
  PROVE  IInv'
<1>1. PICK C, rank, I, heads : Sound(C, rank, I, heads)
  BY DEF IInv
<1>2. /\ Types /\ Heap(mem, Keys) /\ Chained(mem, C) /\ Indexed(mem, C, rank, I, heads)
      /\ Len(heads) \in Nat /\ Stage(C, rank, I, heads)
  BY <1>1 DEF IInv, Sound, Structure, Types, MemoryType, Indexed, Headed
<1>3. PICK x, m, r, f, p :
        /\ x = mem[at].right /\ m = mem[x].intermed /\ r = row + 1 /\ f = Fresh
        /\ p = Before(Row(Column[r]), mem[m].key)
  OBVIOUS
<1>4. /\ pc = "iraise" /\ x # NULL /\ mem[m].level <= row
      /\ mem' = [Put(Inode(mem[p].right, x, m, mem[m].key)) EXCEPT
                        ![p].right = Fresh, ![m].level = r]
      /\ NAlloc /\ raised' = TRUE /\ at' = x /\ skipping' = FALSE
      /\ UNCHANGED <<sentinel, non_del, tall_del, pc, row, old, search, phase, mine, live, stay,
                     clean>>
  BY <1>3 DEF RaiseInode, BetweenLow, Level, Index, Inext, count, history
<1>s. x # NULL /\ mem[m].level <= row
  BY <1>4
<1>5. row \in 1 .. Len(heads) - 1 /\ at \in I /\ rank[at] = row
  BY <1>2, <1>4 DEF Stage
<1>6. row \in Nat /\ row > 0 /\ r \in 1 .. Len(heads) /\ r # 1 /\ r - 1 = row /\ r > row
  BY ONLY <1>2, <1>3, <1>5
<1>7. at \in Nat /\ rank[at] > 0 /\ x \in I /\ x \in Nat
  BY ONLY <1>2, <1>3, <1>4, <1>5, <1>6 DEF Indexed, Rowed
<1>8. rank[x] = row /\ mem[at].key < mem[x].key
  <2>1. /\ mem[at].right # NULL => rank[mem[at].right] = rank[at]
        /\ mem[at].right # NULL => mem[at].key < mem[mem[at].right].key
    BY ONLY <1>2, <1>7, RankedBlock
  <2>2. x = mem[at].right
    BY <1>3
  <2>3. QED
    BY ONLY <1>5, <1>s, <2>1, <2>2
<1>9. /\ m \in C /\ mem[m].key = mem[x].key /\ mem[m].key > 0 /\ x \in 1 .. Len(mem)
      /\ mem[m].level \in Nat
  <2>1. /\ m \in C /\ mem[m].key = mem[x].key /\ x \in 1 .. Len(mem) /\ mem[x].key \in Nat
    BY ONLY <1>2, <1>3, <1>6, <1>7, <1>8, RankedBlock, SMTT(30)
  <2>2. mem[at].key \in Nat
    BY ONLY <1>2, <1>7, RankedBlock
  <2>3. mem[m].level \in Nat
    BY ONLY <1>2, <2>1, ChainBlock
  <2>4. QED
    BY ONLY <1>8, <2>1, <2>2, <2>3
<1>10. rank[x] <= mem[m].level
  BY ONLY <1>3, <1>2, <1>6, <1>7, <1>8 DEF Indexed, Ranked
<1>11. Below(mem, rank, r, x, mem[m].key)
  BY ONLY <1>4, <1>6, <1>7, <1>8, <1>9 DEF Below
<1>12. x \in 0 .. Len(mem) /\ mem[m].level < r /\ Len(mem) \in Nat /\ mem[m].level > 0
  <2>1. Len(mem) \in Nat
    BY <1>2, HeapHolds
  <2>2. x \in 0 .. Len(mem)
    BY ONLY <2>1, <1>9
  <2>3. mem[m].level < r /\ mem[m].level > 0
    BY ONLY <1>s, <1>6, <1>8, <1>9, <1>10
  <2>4. QED
    BY ONLY <2>1, <2>2, <2>3
<1>13. PICK R, J : R = [rank EXCEPT ![f] = r] /\ J = I \cup {f}
  OBVIOUS
<1>14. /\ Settled(C, R, J, heads)
       /\ Leveled(mem, mem', C, rank, m, r) /\ Grown(mem, mem', Keys)
       /\ m # First /\ rank \in [Nat -> 0 .. Len(heads)] /\ f \in Nat /\ rank[f] = 0
  <2>1. /\ Settled(C, [rank EXCEPT ![f] = r], I \cup {f}, heads)
        /\ Leveled(mem, mem', C, rank, m, r) /\ Grown(mem, mem', Keys)
        /\ m # First /\ rank \in [Nat -> 0 .. Len(heads)] /\ f \in Nat /\ rank[f] = 0
    <3>1. pc' # "mfree" /\ UNCHANGED <<setting, sentinel, search, stay, clean, phase, mine, live>>
      BY ONLY <1>4, setting' = setting
    <3>2. StoresInode(C, rank, heads, r, m, x, f, p)
      BY ONLY <1>3, <1>4, <1>6, <1>9, <1>11, <1>12, <3>1 DEF StoresInode
    <3>3. InodeIn(C, rank, I, heads, r, m, f)
      BY ONLY <1>1, <1>2, <3>2, InodeStored
    <3>4. QED
      BY ONLY <3>3 DEF InodeIn
  <2>2. QED
    BY ONLY <1>13, <2>1
<1>15. Counted(C)'
  <2>1. Tall(mem', C, mine) \subseteq Tall(mem, C, mine)
    BY ONLY <1>12, <1>14 DEF Tall, Leveled
  <2>2. UNCHANGED <<setting, non_del, tall_del, mine, phase>>
    BY ONLY <1>4, setting' = setting
  <2>3. QED
    BY ONLY <1>1, <1>2, <1>14, <2>1, <2>2, LeveledCounts
<1>16. Stage(C, R, J, heads)'
  <2>1. x # f
    BY ONLY <1>6, <1>8, <1>14
  <2>2. x \in J /\ R[x] = row
    BY ONLY <1>7, <1>8, <1>13, <1>14, <2>1
  <2>3. phase = "populate" => \A c \in C : ~mem'[c].marked
    BY ONLY <1>2, <1>14 DEF Stage, Leveled
  <2>4. ~released'
    BY ONLY <1>14 DEF Settled
  <2>5. QED
    BY ONLY <1>4, <1>5, <2>2, <2>3, <2>4 DEF Stage
<1>17. HelperType'
  <2>1. Len(mem) <= Len(mem') /\ Heap(mem', Keys)
    BY ONLY <1>14 DEF Grown
  <2>2. Len(mem') \in Nat
    BY ONLY <2>1, HeapHolds
  <2>3. x \in 0 .. Len(mem') /\ 0 .. Len(mem) \subseteq 0 .. Len(mem')
    BY ONLY <2>1, <2>2, <1>12
  <2>4. HelperType
    BY ONLY <1>2 DEF Types
  <2>5. QED
    BY ONLY <1>4, <2>3, <2>4 DEF HelperType
<1>18. QED
  BY ONLY <1>14, <1>15, <1>16, <1>17 DEF Settled, IInv, Types, Sound

\* bg_raise_mlevel raising an mnode keeps the invariant.
LEMMA RaiseMnodeStep ==
  ASSUME IInv, RaiseMnode, setting' = setting
  PROVE  IInv'
<1>1. PICK C, rank, I, heads : Sound(C, rank, I, heads)
  BY DEF IInv
<1>2. /\ Types /\ Heap(mem, Keys) /\ Chained(mem, C) /\ Indexed(mem, C, rank, I, heads)
      /\ Len(heads) \in Nat /\ Stage(C, rank, I, heads) /\ mem[First].level = Len(heads)
      /\ Len(heads) >= 1 /\ First \in C /\ mem[First].key = 0 /\ Counted(C)
  <2>1. /\ Types /\ Heap(mem, Keys) /\ Chained(mem, C) /\ Indexed(mem, C, rank, I, heads)
        /\ Stage(C, rank, I, heads) /\ mem[First].level = Len(heads)
        /\ First \in C /\ mem[First].key = 0 /\ Counted(C)
    BY <1>1 DEF IInv, Sound, Structure, Types, MemoryType, Chained
  <2>2. heads \in Seq(I) /\ heads # <<>>
    BY <2>1 DEF Indexed, Headed
  <2>3. Len(heads) \in Nat /\ Len(heads) >= 1
    BY ONLY <2>2
  <2>4. QED
    BY ONLY <2>1, <2>3
<1>3. /\ pc = "mraise" /\ NAlloc /\ raised' = TRUE
      /\ UNCHANGED <<sentinel, non_del, tall_del, pc, at, row, skipping, old, search, phase, mine,
                     live, stay, clean>>
  BY DEF RaiseMnode, count, history
<1>4. PICK a, m, b, p :
        /\ a \in C /\ m \in C /\ b \in C /\ mem[a].next = m /\ mem[m].next = b
        /\ mem[a].level = 0 /\ mem[m].level = 0 /\ mem[b].level = 0
        /\ p = Before(Row(Column[1]), mem[m].key)
        /\ mem' = [Put(Inode(mem[p].right, NULL, m, mem[m].key)) EXCEPT
                        ![p].right = Fresh, ![m].level = 1]
  <2>1. PICK chain : chain = Chain
    OBVIOUS
  <2>2. /\ chain \in Seq(C)
        /\ \A i \in 1 .. Len(chain) :
             mem[chain[i]].next = IF i = Len(chain) THEN NULL ELSE chain[i + 1]
    BY ONLY <1>2, <2>1, ChainIs
  <2>3. PICK j \in 2 .. Len(chain) - 1 :
          /\ Raisable(chain, j)
          /\ LET m == chain[j]
                 p == Before(Row(Column[1]), mem[m].key)
             IN  mem' = [Put(Inode(mem[p].right, NULL, m, mem[m].key)) EXCEPT
                           ![p].right = Fresh, ![m].level = 1]
    BY <2>1 DEF RaiseMnode
  <2>a. Len(chain) \in Nat
    BY ONLY <2>2
  <2>b. j \in 2 .. Len(chain) - 1
    OBVIOUS
  <2>4. /\ Len(chain) \in Nat /\ j \in 1 .. Len(chain) /\ j - 1 \in 1 .. Len(chain)
        /\ j + 1 \in 1 .. Len(chain) /\ j - 1 # Len(chain) /\ j # Len(chain) /\ (j - 1) + 1 = j
    BY ONLY <2>a, <2>b
  <2>5. /\ mem[chain[j - 1]].next = chain[j] /\ mem[chain[j]].next = chain[j + 1]
        /\ chain[j - 1] \in C /\ chain[j] \in C /\ chain[j + 1] \in C
    BY ONLY <2>2, <2>4
  <2>6. mem[chain[j - 1]].level = 0 /\ mem[chain[j]].level = 0 /\ mem[chain[j + 1]].level = 0
    BY ONLY <2>3 DEF Raisable, Level
  <2>7. QED
    BY ONLY <2>3, <2>5, <2>6, ZenonT(30)
<1>s. /\ a \in C /\ m \in C /\ b \in C /\ mem[a].next = m /\ mem[m].next = b
      /\ mem[a].level = 0 /\ mem[m].level = 0 /\ mem[b].level = 0
  BY <1>4
<1>t. pc = "mraise" /\ UNCHANGED <<non_del, tall_del, pc, phase, mine>>
  BY <1>3
<1>5. PICK f : f = Fresh
  OBVIOUS
<1>6. /\ a # First /\ m # First /\ b # First
      /\ m # NULL /\ b # NULL /\ mem[m].key \in Nat /\ mem[m].key > 0
      /\ mem[a].key # mem[m].key /\ mem[b].key # mem[m].key
  <2>0. mem[First].level # 0
    <3>1. mem[First].level = Len(heads) /\ Len(heads) \in Nat /\ Len(heads) >= 1
      BY <1>2
    <3>2. QED
      BY ONLY <3>1
  <2>1. a # First /\ m # First /\ b # First
    BY ONLY <2>0, <1>s
  <2>2. m \in 1 .. Len(mem) /\ b \in 1 .. Len(mem) /\ mem[m].key \in Nat
    BY ONLY <1>2, <1>s, ChainBlock
  <2>3. mem[m].key # 0
    BY ONLY <1>2, <1>s, <2>1 DEF Chained
  <2>4. m # NULL /\ b # NULL
    BY ONLY <2>2 DEF NULL
  <2>5. mem[a].key < mem[m].key /\ mem[m].key < mem[b].key /\ mem[a].key \in Nat /\ mem[b].key \in Nat
    BY ONLY <1>2, <1>s, <2>4, ChainBlock
  <2>6. QED
    BY ONLY <2>1, <2>2, <2>3, <2>4, <2>5
<1>7. NULL \in 0 .. Len(mem) /\ 1 \in 1 .. Len(heads) /\ Len(mem) \in Nat
  <2>1. Len(mem) \in Nat
    BY ONLY <1>2, HeapHolds
  <2>2. QED
    BY ONLY <1>2, <2>1 DEF NULL
<1>8. PICK R, J : R = [rank EXCEPT ![f] = 1] /\ J = I \cup {f}
  OBVIOUS
<1>9. /\ Settled(C, R, J, heads)
      /\ Leveled(mem, mem', C, rank, m, 1) /\ Grown(mem, mem', Keys)
  <2>1. /\ Settled(C, [rank EXCEPT ![f] = 1], I \cup {f}, heads)
        /\ Leveled(mem, mem', C, rank, m, 1) /\ Grown(mem, mem', Keys)
    <3>1. pc' # "mfree" /\ UNCHANGED <<setting, sentinel, search, stay, clean, phase, mine, live>>
      BY ONLY <1>3, setting' = setting
    <3>2. 1 \in 1 .. Len(heads) /\ m \in C /\ mem[m].key > 0 /\ mem[m].level < 1
          /\ NULL \in 0 .. Len(mem)
      BY ONLY <1>s, <1>6, <1>7
    <3>3. Below(mem, rank, 1, NULL, mem[m].key)
      BY ONLY DEF Below
    <3>4. StoresInode(C, rank, heads, 1, m, NULL, f, p)
      BY ONLY <1>3, <1>4, <1>5, <3>1, <3>2, <3>3 DEF StoresInode
    <3>5. InodeIn(C, rank, I, heads, 1, m, f)
      BY ONLY <1>1, <1>2, <3>4, InodeStored
    <3>6. QED
      BY ONLY <3>5 DEF InodeIn
  <2>2. QED
    BY ONLY <1>8, <2>1
<1>10. ~mem[a].marked /\ ~mem[m].marked /\ ~mem[b].marked
  BY ONLY <1>2, <1>t, <1>s DEF Stage
<1>11. Counted(C)'
  <2>u. UNCHANGED <<setting, non_del, tall_del, mine, phase>>
    BY ONLY <1>t, setting' = setting
  <2>c. Counted(C)
    BY ONLY <1>2
  <2> SUFFICES ASSUME Alternating PROVE Pairs(mem', C, mine)
    BY <2>u, <2>c, CountedPrimed, Zenon
  <2>1. PICK T, B : T = Tall(mem, C, mine) /\ B = Base(mem, C, mine)
    OBVIOUS
  <2>2. Paired(mem, T, B) /\ T \subseteq C /\ B \subseteq C
    BY ONLY <1>2, <2>1, Alternating DEF Counted, Tall, Base
  <2>3. \A c \in C : /\ mem'[c].key = mem[c].key /\ mem'[c].marked = mem[c].marked
                     /\ mem'[c].level = IF c = m THEN 1 ELSE mem[c].level
    BY ONLY <1>9 DEF Leveled
  <2>4. B \subseteq Base(mem', C, mine)
    BY ONLY <2>1, <2>3 DEF Base
  <2>5. /\ \A c \in C : mem'[c].key = mem[c].key
    BY ONLY <2>3
  <2>6. CASE mem[m].key = mine
    <3>1. a \in B /\ b \in B /\ m \notin B /\ a \notin T /\ b \notin T
      BY ONLY <1>s, <1>6, <1>10, <2>1, <2>6 DEF Tall, Base
    <3>2. PICK T2 : T2 = T \cup {m}
      OBVIOUS
    <3>3. Paired(mem, T2, B)
      <4>1. Paired(mem, T \cup {m}, B)
        BY ONLY <1>2, <1>s, <1>6, <2>2, <3>1, PairedRaised
      <4>2. QED
        BY ONLY <3>2, <4>1
    <3>4. Tall(mem', C, mine) \subseteq T2
      BY ONLY <2>1, <2>3, <3>2 DEF Tall
    <3>5. T2 \subseteq C
      BY ONLY <1>s, <2>2, <3>2
    <3>6. (\A c \in T2 : mem'[c].key = mem[c].key) /\ \A c \in B : mem'[c].key = mem[c].key
      BY ONLY <2>2, <2>5, <3>5
    <3>7. QED
      BY ONLY <3>3, <3>4, <3>6, <2>4, PairedKept DEF Pairs
  <2>7. CASE mem[m].key # mine
    <3>1. Tall(mem', C, mine) \subseteq T
      BY ONLY <1>10, <2>1, <2>3, <2>7 DEF Tall
    <3>2. (\A c \in T : mem'[c].key = mem[c].key) /\ \A c \in B : mem'[c].key = mem[c].key
      BY ONLY <2>2, <2>5
    <3>3. QED
      BY ONLY <2>2, <3>1, <3>2, <2>4, PairedKept DEF Pairs
  <2>8. QED
    BY ONLY <2>6, <2>7
<1>12. Stage(C, R, J, heads)'
  <2>1. \A c \in C : mem'[c].marked => mem'[c].level > 0
    BY ONLY <1>2, <1>3, <1>9 DEF Stage, Leveled
  <2>2. phase = "populate" => \A c \in C : ~mem'[c].marked
    BY ONLY <1>2, <1>9 DEF Stage, Leveled
  <2>3. ~released'
    BY ONLY <1>9 DEF Settled
  <2>4. QED
    BY ONLY <1>3, <2>1, <2>2, <2>3 DEF Stage
<1>13. HelperType'
  <2>1. Len(mem) <= Len(mem') /\ Heap(mem', Keys)
    BY ONLY <1>9 DEF Grown
  <2>2. Len(mem') \in Nat
    BY ONLY <2>1, HeapHolds
  <2>3. 0 .. Len(mem) \subseteq 0 .. Len(mem')
    BY ONLY <2>1, <2>2, <1>7
  <2>4. HelperType
    BY ONLY <1>2 DEF Types
  <2>5. QED
    BY ONLY <1>3, <2>3, <2>4 DEF HelperType
<1>14. QED
  BY ONLY <1>9, <1>11, <1>12, <1>13 DEF Settled, IInv, Types, Sound

\* A new top row with the inode f.
Topping(K, h, g, C, rank, I, heads, f) ==
  /\ Heap(h, K) /\ Grown(h, g, K) /\ Layered(h, C, rank, I, heads)
  /\ f \in Nat /\ f # NULL /\ f \notin C /\ rank[f] = 0
  /\ (f \notin DOMAIN h \/ h[f].kind = "zero")
  /\ Topped(h, g, heads[Len(heads)], f)

\* A new top row keeps the layers below it.
LEMMA ToppingLayers ==
  ASSUME NEW K, NEW h, NEW g, NEW C, NEW rank, NEW I, NEW heads, NEW f,
         Topping(K, h, g, C, rank, I, heads, f)
  PROVE  /\ Layered(g, C, [rank EXCEPT ![f] = Len(heads) + 1], I \cup {f}, Append(heads, f))
         /\ Leveled(h, g, C, rank, First, Len(heads) + 1)
<1>1. /\ Heap(h, K) /\ Grown(h, g, K) /\ Layered(h, C, rank, I, heads)
      /\ f \in Nat /\ f # NULL /\ f \notin C /\ rank[f] = 0
      /\ (f \notin DOMAIN h \/ h[f].kind = "zero")
      /\ Topped(h, g, heads[Len(heads)], f)
  BY DEF Topping
<1>2. /\ Chained(h, C) /\ Indexed(h, C, rank, I, heads) /\ h[First].level = Len(heads)
      /\ First \in C /\ C \subseteq DOMAIN h /\ ~h[First].marked /\ DOMAIN h \subseteq DOMAIN g
      /\ heads \in Seq(I)
  BY <1>1 DEF Layered, Chained, Grown, Indexed, Headed
<1>3. h[First] \in MnodeOf(Len(h), K) /\ h[First].kind = "mnode"
  BY <1>1, <1>2, ChainBlock, HeapHolds
<1>4. /\ g[First].kind = "mnode" /\ g[First].key = h[First].key
      /\ g[First].next = h[First].next /\ g[First].marked = h[First].marked
      /\ g[First].level = Len(heads) + 1
  BY <1>1, <1>2, <1>3 DEF MnodeOf, Topped
<1>5. \A b \in DOMAIN h : b # First /\ b # f => g[b] = h[b]
  BY <1>1 DEF Topped
<1>6. \A c \in C : /\ g[c].kind = h[c].kind /\ g[c].key = h[c].key
                   /\ g[c].next = h[c].next /\ g[c].marked = h[c].marked
                   /\ g[c].level = IF c = First THEN Len(heads) + 1 ELSE h[c].level
  BY <1>1, <1>2, <1>3, <1>4, <1>5
<1>7. \A b \in Nat : rank[b] > 0 => g[b] = h[b]
  <2> SUFFICES ASSUME NEW b \in Nat, rank[b] > 0 PROVE g[b] = h[b]
    OBVIOUS
  <2>1. b \in DOMAIN h /\ h[b].kind = "inode"
    BY <1>1, <1>2, RankedBlock, HeapHolds
  <2>2. b # f /\ b # First
    BY <1>1, <1>3, <2>1
  <2>3. QED
    BY <1>5, <2>1, <2>2
<1>8. Chained(g, C)
  <2>1. (\A c \in C : g[c].kind = h[c].kind /\ g[c].next = h[c].next /\ g[c].key = h[c].key)
        /\ ~g[First].marked
    BY <1>2, <1>4, <1>6
  <2>2. QED
    BY ONLY <1>2, <2>1, ChainedSame
<1>9. Indexed(g, C, [rank EXCEPT ![f] = Len(heads) + 1], I \cup {f}, Append(heads, f))
  BY <1>1, <1>2, IndexedTop
<1>10. Linked(h, g)
  <2> SUFFICES ASSUME NEW b \in DOMAIN h, h[b].kind = "mnode"
               PROVE  g[b].kind = "mnode" /\ g[b].key = h[b].key /\ g[b].next = h[b].next
    BY <1>2 DEF Linked
  <2>1. b # f
    BY <1>1
  <2>2. QED
    BY <2>1, <1>4, <1>5
<1>11. Len(Append(heads, f)) = Len(heads) + 1
  <2>1. heads \in Seq(I \cup {f}) /\ f \in I \cup {f}
    <3>1. \A i \in 1 .. Len(heads) : heads[i] \in I \cup {f}
      BY <1>2
    <3>2. QED
      BY <1>2, <3>1, SeqOf
  <2>2. QED
    BY ONLY <2>1
<1>12. QED
  BY <1>4, <1>6, <1>7, <1>8, <1>9, <1>10, <1>11 DEF Layered, Leveled

StoresTop(f) ==
  /\ mem' = [Put(Inode(NULL, sentinel, First, 0)) EXCEPT ![First].level = @ + 1]
  /\ NAlloc /\ f = Fresh /\ sentinel' = f /\ pc' # "mfree"
  /\ UNCHANGED <<setting, search, stay, clean, phase, mine, live>>

TopIn(C, rank, I, heads, f) ==
  /\ Settled(C, [rank EXCEPT ![f] = Len(heads) + 1], I \cup {f}, Append(heads, f))
  /\ Leveled(mem, mem', C, rank, First, Len(heads) + 1) /\ Grown(mem, mem', Keys)
  /\ rank \in [Nat -> 0 .. Len(heads)] /\ f \in Nat /\ rank[f] = 0

\* The stores of NewTop are those of a new top row.
LEMMA TopStored ==
  ASSUME Types, NEW C, NEW rank, NEW I, NEW heads, Sound(C, rank, I, heads),
         NEW f, StoresTop(f)
  PROVE  TopIn(C, rank, I, heads, f)
<1>1. /\ Heap(mem, Keys) /\ Layered(mem, C, rank, I, heads) /\ Chained(mem, C)
      /\ Indexed(mem, C, rank, I, heads)
      /\ last \in 1 .. Len(mem) /\ sentinel \in 1 .. Len(mem) /\ released \in BOOLEAN
      /\ heads[Len(heads)] = sentinel /\ First \in C
  BY DEF Sound, Structure, Types, MemoryType, Layered, Chained
<1>s. /\ NAlloc /\ f = Fresh /\ sentinel' = f /\ pc' # "mfree"
      /\ UNCHANGED <<setting, search, stay, clean, phase, mine, live>>
  BY DEF StoresTop
<1>t. mem' = [Put(Inode(NULL, sentinel, First, 0)) EXCEPT ![First].level = @ + 1]
  BY DEF StoresTop
<1>2. /\ f \in Nat /\ f # NULL /\ f \notin C /\ rank[f] = 0
      /\ f \notin DOMAIN mem \/ mem[f].kind = "zero"
  BY <1>s, FreshIs DEF Types, Sound
<1>3. First \in 1 .. Len(mem) /\ mem[First].kind = "mnode" /\ First # f
  BY <1>1, <1>2, ChainBlock
<1>4. Grown(mem, mem', Keys) /\ Topped(mem, mem', sentinel, f)
  <2>1. /\ Heap(mem, Keys) /\ last \in 1 .. Len(mem) /\ released \in BOOLEAN
        /\ First \in 1 .. Len(mem) /\ mem[First].kind = "mnode" /\ First # Fresh
        /\ sentinel \in 1 .. Len(mem)
    BY <1>s, <1>1, <1>3
  <2> DEFINE g == [Put(Inode(NULL, sentinel, First, 0)) EXCEPT ![First].level = @ + 1]
  <2>2. Grown(mem, g, Keys) /\ Topped(mem, g, sentinel, Fresh)
    BY ONLY <2>1, StoreTop
  <2>3. mem' = g /\ f = Fresh
    BY <1>s, <1>t
  <2> HIDE DEF g
  <2>4. QED
    BY ONLY <2>2, <2>3
<1>5. Topping(Keys, mem, mem', C, rank, I, heads, f)
  BY <1>1, <1>2, <1>4 DEF Topping
<1>6. PICK R, J, tops : /\ R = [rank EXCEPT ![f] = Len(heads) + 1] /\ J = I \cup {f}
                        /\ tops = Append(heads, f)
  OBVIOUS
<1>7. /\ Layered(mem', C, R, J, tops)
      /\ Leveled(mem, mem', C, rank, First, Len(heads) + 1)
  BY ONLY <1>5, <1>6, ToppingLayers
<1>8. rank \in [Nat -> 0 .. Len(heads)] /\ Len(heads) \in Nat /\ heads \in Seq(I)
  <2>1. rank \in [Nat -> 0 .. Len(heads)]
    BY ONLY <1>1 DEF Indexed, Ranked
  <2>2. heads \in Seq(I)
    BY ONLY <1>1 DEF Indexed, Headed
  <2>3. Len(heads) \in Nat
    BY ONLY <2>2
  <2>4. QED
    BY ONLY <2>1, <2>2, <2>3
<1>9. \A b \in Nat : rank[b] > 0 => R[b] > 0
  BY ONLY <1>2, <1>6, <1>8
<1>10. f \in DOMAIN mem' /\ mem'[f].kind = "inode"
  BY ONLY <1>4 DEF Topped, Inode
<1>11. sentinel' \in 1 .. Len(mem')
  <2>1. Heap(mem', Keys)
    BY ONLY <1>4 DEF Grown
  <2>2. QED
    BY ONLY <1>s, <1>10, <2>1, HeapHolds
<1>12. tops[Len(tops)] = sentinel'
  <2>1. heads \in Seq(I \cup {f}) /\ f \in I \cup {f}
    <3>1. \A i \in 1 .. Len(heads) : heads[i] \in I \cup {f}
      BY ONLY <1>8
    <3>2. QED
      BY ONLY <1>8, <3>1, SeqOf
  <2>2. QED
    BY ONLY <1>s, <1>6, <2>1
<1>13. Settled(C, R, J, tops)
  BY ONLY Types, Sound(C, rank, I, heads), <1>s, <1>4, <1>7, <1>9, <1>10, <1>11, <1>12,
          StoreSettles
<1>14. QED
  BY ONLY <1>2, <1>4, <1>6, <1>7, <1>8, <1>13 DEF TopIn

\* With a new top row the pairs and the types of the helper stay.
LEMMA TopKeeps ==
  ASSUME Types, NEW C, NEW rank, NEW I, NEW heads, Sound(C, rank, I, heads), NEW f,
         TopIn(C, rank, I, heads, f),
         UNCHANGED <<setting, non_del, tall_del, mine, phase>>
  PROVE  /\ Counted(C)'
         /\ 0 .. Len(mem) \subseteq 0 .. Len(mem') /\ Len(mem) \in Nat /\ Len(mem') \in Nat
<1>1. /\ Leveled(mem, mem', C, rank, First, Len(heads) + 1) /\ Grown(mem, mem', Keys)
  BY DEF TopIn
<1>2. Tall(mem', C, mine) \subseteq Tall(mem, C, mine)
  BY ONLY <1>1 DEF Tall, Leveled
<1>3. Counted(C)'
  <2>1. UNCHANGED <<setting, non_del, tall_del, mine, phase>>
    OBVIOUS
  <2>2. Chained(mem, C)
    BY DEF Sound, Structure
  <2>3. QED
    BY ONLY <1>1, <1>2, <2>1, <2>2, Sound(C, rank, I, heads), LeveledCounts
<1>4. Heap(mem', Keys) /\ Len(mem) <= Len(mem') /\ Heap(mem, Keys)
  BY <1>1 DEF Grown, Types, MemoryType
<1>5. Len(mem) \in Nat /\ Len(mem') \in Nat
  BY ONLY <1>4, HeapHolds
<1>6. QED
  BY ONLY <1>3, <1>4, <1>5

\* The first inodes of the rows.
LEMMA HeadsIn ==
  ASSUME NEW K, NEW h, Heap(h, K), NEW C, NEW rank, NEW I, NEW heads,
         Indexed(h, C, rank, I, heads)
  PROVE  /\ Len(heads) \in Nat /\ Len(heads) >= 1 /\ heads \in Seq(I)
         /\ \A r \in 1 .. Len(heads) : /\ heads[r] \in I /\ rank[heads[r]] = r
                                       /\ heads[r] \in 1 .. Len(h)
<1>1. heads \in Seq(I) /\ heads # <<>> /\ \A r \in 1 .. Len(heads) : rank[heads[r]] = r
  BY DEF Indexed, Headed
<1>2. Len(heads) \in Nat /\ Len(heads) >= 1
  BY <1>1
<1>3. I \subseteq Nat
  BY DEF Indexed, Rowed
<1>4. ASSUME NEW r \in 1 .. Len(heads) PROVE heads[r] \in I /\ heads[r] \in 1 .. Len(h)
  <2>1. heads[r] \in I
    BY ONLY <1>1, <1>2, r \in 1 .. Len(heads)
  <2>2. heads[r] \in Nat
    BY ONLY <1>3, <2>1
  <2>3. rank[heads[r]] > 0
    <3>1. rank[heads[r]] = r
      BY <1>1
    <3>2. QED
      BY ONLY <1>2, <3>1, r \in 1 .. Len(heads)
  <2>4. Ranked(h, C, rank, Len(heads))
    BY DEF Indexed
  <2>5. QED
    BY <2>1, <2>2, <2>3, <2>4, RankedBlock
<1>5. QED
  BY <1>1, <1>2, <1>4

\* The end of bg_raise_mlevel, with or without a new top row, keeps the invariant.
LEMMA EndMraiseStep ==
  ASSUME IInv, EndMraise, setting' = setting
  PROVE  IInv'
<1>1. PICK C, rank, I, heads : Sound(C, rank, I, heads)
  BY DEF IInv
<1>2. /\ Types /\ Heap(mem, Keys) /\ Chained(mem, C) /\ Indexed(mem, C, rank, I, heads)
      /\ Stage(C, rank, I, heads) /\ mem[First].level = Len(heads) /\ First \in C
      /\ heads[Len(heads)] = sentinel /\ HelperType
  BY <1>1 DEF IInv, Sound, Structure, Types, MemoryType, Chained
<1>3. /\ Len(heads) \in Nat /\ Len(heads) >= 1 /\ heads \in Seq(I)
      /\ \A r \in 1 .. Len(heads) : /\ heads[r] \in I /\ rank[heads[r]] = r
                                    /\ heads[r] \in 1 .. Len(mem)
  BY ONLY <1>2, HeadsIn
<1>4. Column = heads
  BY ONLY <1>2, ColumnIs
<1>5. /\ pc = "mraise" /\ raised' = FALSE /\ pc' \in {"iraise", "lower"}
      /\ UNCHANGED <<non_del, tall_del, old, search, phase, mine, live, stay, clean>>
  BY DEF EndMraise, StartRow, count, history
<1>6. IF mem'[First].level > 1
      THEN row' = 1 /\ at' = heads[1] /\ skipping' = FALSE /\ pc' = "iraise"
      ELSE pc' = "lower" /\ UNCHANGED <<row, at, skipping>>
  BY <1>4 DEF EndMraise, StartRow
<1>7. IF raised /\ Level(First) = 1 THEN NewTop ELSE UNCHANGED <<mem, alloc, sentinel>>
  BY DEF EndMraise
<1>8. CASE raised /\ Level(First) = 1
  <2>1. PICK f : f = Fresh
    OBVIOUS
  <2>2. StoresTop(f)
    BY ONLY <1>5, <1>7, <1>8, <2>1, setting' = setting DEF NewTop, StoresTop
  <2>3. TopIn(C, rank, I, heads, f)
    BY ONLY <1>1, <1>2, <2>2, TopStored
  <2>4. /\ Counted(C)'
        /\ 0 .. Len(mem) \subseteq 0 .. Len(mem') /\ Len(mem) \in Nat /\ Len(mem') \in Nat
    BY ONLY <1>1, <1>2, <1>5, <2>3, setting' = setting, TopKeeps
  <2>5. PICK R, J, tops : /\ R = [rank EXCEPT ![f] = Len(heads) + 1] /\ J = I \cup {f}
                          /\ tops = Append(heads, f)
    OBVIOUS
  <2>6. /\ Settled(C, R, J, tops) /\ rank \in [Nat -> 0 .. Len(heads)] /\ f \in Nat /\ rank[f] = 0
        /\ Leveled(mem, mem', C, rank, First, Len(heads) + 1)
    BY ONLY <2>3, <2>5 DEF TopIn
  <2>7. mem'[First].level = 2 /\ Len(heads) = 1
    <3>1. Len(heads) = 1 /\ First \in C
      BY ONLY <1>2, <1>8 DEF Level
    <3>2. mem'[First].level = Len(heads) + 1
      BY ONLY <3>1, <2>6 DEF Leveled
    <3>3. QED
      BY ONLY <3>1, <3>2
  <2>8. row' = 1 /\ at' = heads[1] /\ skipping' = FALSE /\ pc' = "iraise"
    BY ONLY <1>6, <2>7
  <2>9. heads[1] \in J /\ R[heads[1]] = 1 /\ heads[1] \in 0 .. Len(mem)
    <3>1. heads[1] \in I /\ rank[heads[1]] = 1 /\ heads[1] \in 1 .. Len(mem)
      BY ONLY <1>3
    <3>2. heads[1] # f
      BY ONLY <2>6, <3>1, SMTT(30)
    <3>3. PICK b : b = heads[1]
      OBVIOUS
    <3>4. b \in 1 .. Len(mem) /\ Len(mem) \in Nat
      BY ONLY <2>4, <3>1, <3>3
    <3>5. b \in 0 .. Len(mem) /\ b \in Nat
      BY ONLY <3>4
    <3>6. heads[1] \in J /\ heads[1] \in Nat
      BY ONLY <2>5, <3>1, <3>3, <3>5
    <3>7. R[heads[1]] = rank[heads[1]]
      BY ONLY <2>5, <2>6, <3>2, <3>6
    <3>8. QED
      BY ONLY <3>1, <3>3, <3>5, <3>6, <3>7
  <2>10. Len(tops) = 2
    <3>1. heads \in Seq(I \cup {f}) /\ f \in I \cup {f}
      <4>1. \A i \in 1 .. Len(heads) : heads[i] \in I \cup {f}
        BY ONLY <1>3
      <4>2. QED
        BY ONLY <1>3, <4>1, SeqOf
    <3>2. QED
      BY ONLY <2>5, <2>7, <3>1
  <2>11. Stage(C, R, J, tops)'
    <3>1. phase = "populate" => \A c \in C : ~mem'[c].marked
      BY ONLY <1>2, <2>6 DEF Stage, Leveled
    <3>2. ~released' /\ phase' = phase /\ 1 \in 1 .. Len(tops) - 1
      BY ONLY <1>5, <2>6, <2>10 DEF Settled
    <3>3. QED
      BY ONLY <2>8, <2>9, <3>1, <3>2 DEF Stage
  <2>12. HelperType'
    BY ONLY <1>2, <1>5, <2>4, <2>8, <2>9 DEF HelperType
  <2>13. QED
    BY ONLY <2>4, <2>6, <2>11, <2>12 DEF Settled, IInv, Types, Sound
<1>9. CASE ~(raised /\ Level(First) = 1)
  <2>1. UNCHANGED <<mem, last, released, sentinel>>
    BY ONLY <1>7, <1>9 DEF alloc
  <2>2. /\ MemoryType' /\ SearchType' /\ WorkType'
        /\ Structure(C, rank, I, heads)' /\ Allocated(C)' /\ Mirrored(C)'
        /\ Searching(C, rank)' /\ Counted(C)'
    <3>1. MemoryType /\ SearchType /\ WorkType /\ pc # "mfree" /\ pc' # "mfree"
      BY ONLY <1>2, <1>5 DEF Types
    <3>2. /\ UNCHANGED <<setting, mem, last, released, sentinel, search, stay, clean, live, mine,
                         phase>>
          /\ UNCHANGED <<non_del, tall_del>>
      BY ONLY <1>5, <2>1, setting' = setting
    <3>3. QED
      BY ONLY <1>1, <3>1, <3>2, Steady
  <2>3. IF Len(heads) > 1
        THEN row' = 1 /\ at' = heads[1] /\ skipping' = FALSE /\ pc' = "iraise"
        ELSE pc' = "lower" /\ UNCHANGED <<row, at, skipping>>
    BY ONLY <1>2, <1>6, <2>1
  <2>4. heads[1] \in I /\ rank[heads[1]] = 1 /\ heads[1] \in 0 .. Len(mem)
    <3>1. heads[1] \in I /\ rank[heads[1]] = 1 /\ heads[1] \in 1 .. Len(mem)
      BY ONLY <1>3
    <3>2. Len(mem) \in Nat
      BY ONLY <1>2, HeapHolds
    <3>3. QED
      BY ONLY <3>1, <3>2
  <2>5. Stage(C, rank, I, heads)'
    <3>1. phase = "populate" => (\A c \in C : ~mem[c].marked) /\ ~released
      BY ONLY <1>2 DEF Stage
    <3>2. Len(heads) > 1 => 1 \in 1 .. Len(heads) - 1
      BY ONLY <1>3
    <3>3. QED
      BY ONLY <1>5, <2>1, <2>3, <2>4, <3>1, <3>2 DEF Stage
  <2>6. HelperType'
    <3>1. at' \in 0 .. Len(mem) /\ row' \in Nat /\ skipping' \in BOOLEAN
      <4>1. at \in 0 .. Len(mem) /\ row \in Nat /\ skipping \in BOOLEAN
        BY <1>2 DEF HelperType
      <4>2. CASE Len(heads) > 1
        <5>1. row' = 1 /\ at' = heads[1] /\ skipping' = FALSE
          BY ONLY <2>3, <4>2
        <5>2. heads[1] \in 0 .. Len(mem)
          BY <2>4
        <5>3. QED
          BY ONLY <5>1, <5>2
      <4>3. CASE ~(Len(heads) > 1)
        BY ONLY <2>3, <4>1, <4>3
      <4>4. QED
        BY ONLY <4>2, <4>3
    <3>2. /\ old \in 0 .. Len(mem) /\ non_del \in Nat /\ tall_del \in Nat
      BY <1>2 DEF HelperType
    <3>3. mem' = mem
      BY <2>1
    <3>4. QED
      BY ONLY <1>5, <3>1, <3>2, <3>3 DEF HelperType
  <2>7. QED
    BY ONLY <2>2, <2>5, <2>6 DEF IInv, Types, Sound
<1>10. QED
  BY ONLY <1>8, <1>9

\* The end of bg_raise_ilevel on a row, with or without a new top row, keeps it.
LEMMA EndRowStep ==
  ASSUME IInv, EndRow, setting' = setting
  PROVE  IInv'
<1>1. PICK C, rank, I, heads : Sound(C, rank, I, heads)
  BY DEF IInv
<1>2. /\ Types /\ Heap(mem, Keys) /\ Chained(mem, C) /\ Indexed(mem, C, rank, I, heads)
      /\ Stage(C, rank, I, heads) /\ mem[First].level = Len(heads)
      /\ heads[Len(heads)] = sentinel /\ HelperType
  BY <1>1 DEF IInv, Sound, Structure, Types, MemoryType
<1>3. /\ Len(heads) \in Nat /\ Len(heads) >= 1 /\ heads \in Seq(I)
      /\ \A r \in 1 .. Len(heads) : /\ heads[r] \in I /\ rank[heads[r]] = r
                                    /\ heads[r] \in 1 .. Len(mem)
  BY ONLY <1>2, HeadsIn
<1>4. Column = heads
  BY ONLY <1>2, ColumnIs
<1>5. /\ pc = "iraise" /\ raised' = FALSE /\ pc' \in {"iraise", "lower"}
      /\ UNCHANGED <<non_del, tall_del, old, search, phase, mine, live, stay, clean>>
  BY DEF EndRow, StartRow, count, history
<1>6. row \in 1 .. Len(heads) - 1
  BY <1>2, <1>5 DEF Stage
<1>7. CASE row + 1 < Len(heads)
  <2>1. /\ UNCHANGED <<mem, last, released, sentinel>>
        /\ row' = row + 1 /\ at' = heads[row + 1] /\ skipping' = FALSE /\ pc' = "iraise"
    BY <1>2, <1>4, <1>7 DEF EndRow, StartRow, Level, alloc
  <2>2. /\ MemoryType' /\ SearchType' /\ WorkType'
        /\ Structure(C, rank, I, heads)' /\ Allocated(C)' /\ Mirrored(C)'
        /\ Searching(C, rank)' /\ Counted(C)'
    <3>1. MemoryType /\ SearchType /\ WorkType /\ pc # "mfree" /\ pc' # "mfree"
      BY ONLY <1>2, <1>5 DEF Types
    <3>2. /\ UNCHANGED <<setting, mem, last, released, sentinel, search, stay, clean, live, mine,
                         phase>>
          /\ UNCHANGED <<non_del, tall_del>>
      BY ONLY <1>5, <2>1, setting' = setting
    <3>3. QED
      BY ONLY <1>1, <3>1, <3>2, Steady
  <2>3. PICK r, b : r = row + 1 /\ b = heads[r]
    OBVIOUS
  <2>4. r \in 1 .. Len(heads) - 1 /\ r \in 1 .. Len(heads) /\ r \in Nat
    BY ONLY <1>3, <1>6, <1>7, <2>3
  <2>5. b \in I /\ rank[b] = r /\ b \in 1 .. Len(mem)
    BY ONLY <1>3, <2>3, <2>4
  <2>6. b \in 0 .. Len(mem)
    <3>1. Len(mem) \in Nat
      BY ONLY <1>2, HeapHolds
    <3>2. QED
      BY ONLY <2>5, <3>1
  <2>7. at' = b /\ row' = r
    BY <2>1, <2>3
  <2>8. Stage(C, rank, I, heads)'
    <3>1. phase = "populate" => (\A c \in C : ~mem[c].marked) /\ ~released
      BY ONLY <1>2 DEF Stage
    <3>2. UNCHANGED <<mem, released, phase>> /\ pc' = "iraise"
      BY <1>5, <2>1
    <3>3. QED
      BY ONLY <2>4, <2>5, <2>7, <3>1, <3>2 DEF Stage
  <2>9. HelperType'
    <3>1. /\ old \in 0 .. Len(mem) /\ non_del \in Nat /\ tall_del \in Nat
      BY ONLY <1>2 DEF HelperType
    <3>2. mem' = mem /\ pc' = "iraise" /\ skipping' = FALSE
      BY <2>1
    <3>3. QED
      BY ONLY <1>5, <2>4, <2>6, <2>7, <3>1, <3>2 DEF HelperType
  <2>10. QED
    BY ONLY <2>2, <2>8, <2>9 DEF IInv, Types, Sound
<1>8. CASE ~(row + 1 < Len(heads))
  <2>1. /\ pc' = "lower" /\ at' = NULL /\ row' = 0 /\ skipping' = FALSE
        /\ IF raised THEN NewTop ELSE UNCHANGED <<mem, last, released, sentinel>>
    BY <1>2, <1>8 DEF EndRow, Level, alloc
  <2>2. /\ old \in 0 .. Len(mem) /\ non_del \in Nat /\ tall_del \in Nat
    BY ONLY <1>2 DEF HelperType
  <2>3. CASE raised
    <3>1. PICK f : f = Fresh
      OBVIOUS
    <3>2. StoresTop(f)
      BY ONLY <1>5, <2>1, <2>3, <3>1, setting' = setting DEF NewTop, StoresTop
    <3>3. TopIn(C, rank, I, heads, f)
      BY ONLY <1>1, <1>2, <3>2, TopStored
    <3>4. /\ Counted(C)'
          /\ 0 .. Len(mem) \subseteq 0 .. Len(mem') /\ Len(mem) \in Nat /\ Len(mem') \in Nat
      BY ONLY <1>1, <1>2, <1>5, <3>3, setting' = setting, TopKeeps
    <3>5. PICK R, J, tops : /\ R = [rank EXCEPT ![f] = Len(heads) + 1] /\ J = I \cup {f}
                            /\ tops = Append(heads, f)
      OBVIOUS
    <3>6. /\ Settled(C, R, J, tops)
          /\ Leveled(mem, mem', C, rank, First, Len(heads) + 1)
      BY ONLY <3>3, <3>5 DEF TopIn
    <3>7. Stage(C, R, J, tops)'
      <4>1. phase = "populate" => \A c \in C : ~mem'[c].marked
        BY ONLY <1>2, <3>6 DEF Stage, Leveled
      <4>2. ~released' /\ phase' = phase
        BY ONLY <1>5, <3>6 DEF Settled
      <4>3. QED
        BY ONLY <2>1, <4>1, <4>2 DEF Stage
    <3>8. HelperType'
      <4>1. NULL \in 0 .. Len(mem')
        BY ONLY <3>4 DEF NULL
      <4>2. QED
        BY ONLY <1>5, <2>1, <2>2, <3>4, <4>1 DEF HelperType
    <3>9. QED
      BY ONLY <3>4, <3>6, <3>7, <3>8 DEF Settled, IInv, Types, Sound
  <2>4. CASE ~raised
    <3>1. UNCHANGED <<mem, last, released, sentinel>>
      BY ONLY <2>1, <2>4
    <3>2. /\ MemoryType' /\ SearchType' /\ WorkType'
          /\ Structure(C, rank, I, heads)' /\ Allocated(C)' /\ Mirrored(C)'
          /\ Searching(C, rank)' /\ Counted(C)'
      <4>1. MemoryType /\ SearchType /\ WorkType /\ pc # "mfree" /\ pc' # "mfree"
        BY ONLY <1>2, <1>5 DEF Types
      <4>2. /\ UNCHANGED <<setting, mem, last, released, sentinel, search, stay, clean, live, mine,
                           phase>>
            /\ UNCHANGED <<non_del, tall_del>>
        BY ONLY <1>5, <3>1, setting' = setting
      <4>3. QED
        BY ONLY <1>1, <4>1, <4>2, Steady
    <3>3. Stage(C, rank, I, heads)'
      <4>1. phase = "populate" => (\A c \in C : ~mem[c].marked) /\ ~released
        BY ONLY <1>2 DEF Stage
      <4>2. QED
        BY ONLY <1>5, <2>1, <3>1, <4>1 DEF Stage
    <3>4. HelperType'
      <4>1. NULL \in 0 .. Len(mem)
        <5>1. Len(mem) \in Nat
          BY ONLY <1>2, HeapHolds
        <5>2. QED
          BY ONLY <5>1 DEF NULL
      <4>2. QED
        BY ONLY <1>5, <2>1, <2>2, <3>1, <4>1 DEF HelperType
    <3>5. QED
      BY ONLY <3>2, <3>3, <3>4 DEF IInv, Types, Sound
  <2>5. QED
    BY ONLY <2>3, <2>4
<1>9. QED
  BY ONLY <1>7, <1>8

\* The inode x, which follows p, leaves its row.
Skipping(K, h, g, C, rank, I, heads, p, x) ==
  /\ Heap(h, K) /\ Layered(h, C, rank, I, heads) /\ p \in I /\ Passed(h, g, p, x)

\* What it leaves as it was.
Skipped(h, g, C, rank, I, p, x) ==
  /\ Linked(h, g) /\ \A c \in C : g[c] = h[c]
  /\ \A b \in Nat : rank[b] > 0 => g[b].key = h[b].key
  /\ \A b \in DOMAIN h : g[b].kind = h[b].kind /\ (h[b].kind # "inode" => g[b] = h[b])
  /\ x \in I /\ rank[x] = rank[p] /\ x # p

\* An inode skipped out of its row leaves the layers in order without it.
LEMMA SkippingLayers ==
  ASSUME NEW K, NEW h, NEW g, NEW C, NEW rank, NEW I, NEW heads, NEW p, NEW x,
         Skipping(K, h, g, C, rank, I, heads, p, x)
  PROVE  /\ Layered(g, C, rank, I \ {x}, heads)
         /\ Skipped(h, g, C, rank, I, p, x)
<1>1. /\ Heap(h, K) /\ DOMAIN g = DOMAIN h /\ Layered(h, C, rank, I, heads)
      /\ p \in I /\ h[p].right = x /\ x # NULL
      /\ g[p] = [h[p] EXCEPT !.right = h[x].right]
      /\ \A b \in DOMAIN h : b # p => g[b] = h[b]
  BY DEF Skipping, Passed
<1>2. /\ Chained(h, C) /\ Indexed(h, C, rank, I, heads) /\ h[First].level = Len(heads)
      /\ First \in C /\ C \subseteq DOMAIN h /\ ~h[First].marked /\ DOMAIN h \subseteq DOMAIN g
      /\ p \in Nat /\ rank[p] > 0
  BY <1>1 DEF Layered, Chained, Indexed, Rowed
<1>3. p \in DOMAIN h /\ h[p].kind = "inode" /\ h[p] \in InodeOf(Len(h), K)
  BY <1>1, <1>2, RankedBlock, HeapHolds DEF Indexed
<1>4. g[p].kind = "inode" /\ g[p].key = h[p].key
  BY <1>1, <1>3 DEF InodeOf
<1>5. \A b \in DOMAIN h : g[b].kind = h[b].kind /\ (h[b].kind # "inode" => g[b] = h[b])
                          /\ g[b].key = h[b].key
  BY <1>1, <1>3, <1>4
<1>6. Linked(h, g)
  BY <1>2, <1>5 DEF Linked
<1>7. \A c \in C : g[c] = h[c]
  BY <1>2, <1>5 DEF Chained
<1>8. \A b \in Nat : rank[b] > 0 => g[b].key = h[b].key
  BY <1>1, <1>2, <1>5, RankedBlock, HeapHolds DEF Indexed
<1>9. Chained(g, C)
  <2>1. (\A c \in C : g[c].kind = h[c].kind /\ g[c].next = h[c].next /\ g[c].key = h[c].key)
        /\ ~g[First].marked
    BY <1>2, <1>7
  <2>2. QED
    BY ONLY <1>2, <2>1, ChainedSame
<1>10. Indexed(g, C, rank, I \ {x}, heads) /\ x \in I /\ rank[x] = rank[p] /\ x # p
  <2>1. /\ Heap(h, K) /\ Chained(h, C) /\ Indexed(h, C, rank, I, heads)
        /\ p \in I /\ Passed(h, g, p, x)
    BY <1>1, <1>2 DEF Skipping
  <2>2. QED
    BY ONLY <2>1, IndexedLess, Zenon
<1>11. Layered(g, C, rank, I \ {x}, heads)
  BY <1>2, <1>7, <1>9, <1>10 DEF Layered
<1>12. Skipped(h, g, C, rank, I, p, x)
  BY ONLY <1>5, <1>6, <1>7, <1>8, <1>10 DEF Skipped
<1>13. QED
  BY <1>11, <1>12

\* bg_raise_ilevel skipping a deleted inode keeps the invariant.
LEMMA SkipDeletedStep ==
  ASSUME IInv, SkipDeleted, setting' = setting
  PROVE  IInv'
<1>1. PICK C, rank, I, heads : Sound(C, rank, I, heads)
  BY DEF IInv
<1>2. /\ Types /\ Heap(mem, Keys) /\ heads[Len(heads)] = sentinel
      /\ Layered(mem, C, rank, I, heads) /\ Indexed(mem, C, rank, I, heads)
      /\ Allocated(C) /\ Mirrored(C) /\ Counted(C) /\ Stage(C, rank, I, heads)
      /\ Searching(C, rank) /\ C \subseteq DOMAIN mem
      /\ last \in 1 .. Len(mem) /\ released \in BOOLEAN
  BY <1>1 DEF IInv, Sound, Structure, Types, MemoryType, Layered, Chained
<1>3. PICK x : x = mem[at].right
  OBVIOUS
<1>4. /\ pc = "iraise" /\ x # NULL /\ mem' = [mem EXCEPT ![at].right = mem[x].right]
      /\ skipping' = TRUE
      /\ UNCHANGED <<last, released, sentinel, non_del, tall_del, pc, at, row, raised, old,
                     search, phase, mine, live, stay, clean>>
  BY <1>3 DEF SkipDeleted, Index, Inext, alloc, count, history
<1>5. row \in 1 .. Len(heads) - 1 /\ at \in I /\ rank[at] = row
  BY <1>2, <1>4 DEF Stage
<1>6. at \in Nat /\ rank[at] > 0 /\ x \in I /\ x \in Nat /\ rank[x] > 0
  <2>1. at \in Nat /\ rank[at] > 0
    BY <1>2, <1>5 DEF Indexed, Rowed
  <2>2. x \in I
    BY <1>2, <1>3, <1>4, <1>5 DEF Indexed, Rowed
  <2>3. QED
    BY <1>2, <2>1, <2>2 DEF Indexed, Rowed
<1>7. /\ Len(mem) \in Nat /\ DOMAIN mem = 1 .. Len(mem)
      /\ at \in 1 .. Len(mem) /\ mem[at] \in InodeOf(Len(mem), Keys)
      /\ mem[x].right \in 0 .. Len(mem) /\ mem[at].kind = "inode"
  <2>1. /\ at \in 1 .. Len(mem) /\ mem[at].kind = "inode"
        /\ x \in 1 .. Len(mem) /\ mem[x].kind = "inode"
    BY <1>2, <1>6, RankedBlock DEF Indexed
  <2>2. QED
    BY <1>2, <2>1, HeapHolds
<1>8. /\ Heap(mem', Keys) /\ Len(mem') = Len(mem) /\ DOMAIN mem' = DOMAIN mem
      /\ mem'[at] = [mem[at] EXCEPT !.right = mem[x].right]
      /\ \A c \in DOMAIN mem : c # at => mem'[c] = mem[c]
  <2>y. PICK y : y = [mem[at] EXCEPT !.right = mem[x].right]
    OBVIOUS
  <2>g. PICK g : g = [mem EXCEPT ![at] = y]
    OBVIOUS
  <2>1. y \in Blocks(Len(mem), Keys)
    BY ONLY <1>7, <2>y, InodeStore
  <2>2. /\ Heap(g, Keys) /\ Len(g) = Len(mem) /\ DOMAIN g = DOMAIN mem
        /\ g[at] = y /\ \A c \in DOMAIN mem : c # at => g[c] = mem[c]
    <3>1. Heap(mem, Keys) /\ at \in 1 .. Len(mem)
      BY <1>2, <1>7
    <3> DEFINE e == [mem EXCEPT ![at] = y]
    <3>2. /\ Heap(e, Keys) /\ Len(e) = Len(mem) /\ DOMAIN e = DOMAIN mem
          /\ e[at] = y /\ \A c \in DOMAIN mem : c # at => e[c] = mem[c]
      BY ONLY <2>1, <3>1, HeapExcept
    <3>3. g = e
      BY <2>g
    <3> HIDE DEF e
    <3>4. QED
      BY ONLY <3>2, <3>3
  <2>3. mem' = g
    BY ONLY <1>4, <2>y, <2>g, <1>7
  <2>4. QED
    BY ONLY <2>2, <2>3, <2>y
<1>9. PICK J : J = I \ {x}
  OBVIOUS
<1>10. /\ Layered(mem', C, rank, J, heads)
       /\ Skipped(mem, mem', C, rank, I, at, x)
  <2>1. Skipping(Keys, mem, mem', C, rank, I, heads, at, x)
    BY ONLY <1>2, <1>3, <1>4, <1>5, <1>8 DEF Skipping, Passed
  <2>2. QED
    BY ONLY <1>9, <2>1, SkippingLayers
<1>11. /\ Linked(mem, mem') /\ \A c \in C : mem'[c] = mem[c]
       /\ \A b \in Nat : rank[b] > 0 => mem'[b].key = mem[b].key
       /\ \A b \in DOMAIN mem : /\ mem'[b].kind = mem[b].kind
                                /\ mem[b].kind # "inode" => mem'[b] = mem[b]
       /\ x # at
  BY ONLY <1>10 DEF Skipped
<1>u. /\ pc = "iraise" /\ skipping' = TRUE
      /\ UNCHANGED <<last, released, sentinel, non_del, tall_del, pc, at, row, raised, old,
                     search, phase, mine, live, stay, clean, setting>>
  BY <1>4
<1>12. Structure(C, rank, J, heads)'
  BY ONLY <1>2, <1>u, <1>10, StructurePrimed
<1>13. Allocated(C)'
  BY ONLY <1>2, <1>u, <1>7, <1>11 DEF Allocated, Zeroed
<1>14. Mirrored(C)'
  BY ONLY <1>2, <1>u, <1>11 DEF Mirrored, LiveKeys
<1>15. Stage(C, rank, J, heads)'
  BY ONLY <1>2, <1>5, <1>9, <1>11, <1>u DEF Stage
<1>16. Searching(C, rank)'
  <2>1. search.at \in Nat
    BY ONLY <1>2, <1>7 DEF Types, SearchType
  <2>2. Ranked(mem, C, rank, Len(heads))
    BY ONLY <1>2 DEF Indexed
  <2>3. \A b \in Nat : rank[b] > 0 => rank[b] > 0 /\ mem'[b].key = mem[b].key
    BY ONLY <1>11
  <2>4. UNCHANGED <<setting, search, stay, clean>>
    BY ONLY <1>u
  <2>5. QED
    BY ONLY <1>2, <1>11, <2>1, <2>2, <2>3, <2>4, SearchingLinked
<1>17. Counted(C)'
  <2>1. Tall(mem', C, mine) = Tall(mem, C, mine) /\ Base(mem', C, mine) = Base(mem, C, mine)
    BY ONLY <1>11 DEF Tall, Base
  <2>2. Alternating => Pairs(mem', C, mine)
    <3> SUFFICES ASSUME Alternating PROVE Pairs(mem', C, mine)
      OBVIOUS
    <3>1. Paired(mem, Tall(mem, C, mine), Base(mem, C, mine))
      BY ONLY <1>2, Alternating DEF Counted
    <3>2. /\ \A c \in Tall(mem, C, mine) : mem'[c].key = mem[c].key
          /\ \A c \in Base(mem, C, mine) : mem'[c].key = mem[c].key
      BY ONLY <1>11 DEF Tall, Base
    <3>3. Tall(mem', C, mine) \subseteq Tall(mem, C, mine)
          /\ Base(mem, C, mine) \subseteq Base(mem', C, mine)
      BY ONLY <2>1
    <3>4. QED
      BY ONLY <3>1, <3>2, <3>3, PairedKept DEF Pairs
  <2>3. UNCHANGED <<setting, non_del, tall_del, mine, phase>>
    BY ONLY <1>u
  <2>4. QED
    BY ONLY <1>2, <2>2, <2>3, CountedPrimed
<1>18. Types'
  <2>1. SearchType'
    BY ONLY <1>2, <1>u, <1>8 DEF Types, SearchType, Keys
  <2>2. HelperType'
    BY ONLY <1>2, <1>u, <1>8 DEF Types, HelperType
  <2>3. MemoryType'
    <3>1. Heap(mem, Keys)'
      BY ONLY <1>8, <1>u DEF Keys, Heap
    <3>2. QED
      BY ONLY <1>2, <1>u, <1>8, <3>1 DEF Types, MemoryType
  <2>4. WorkType'
    BY ONLY <1>2, <1>u DEF Types, WorkType, Keys
  <2>5. QED
    BY ONLY <2>1, <2>2, <2>3, <2>4 DEF Types
<1>19. QED
  BY ONLY <1>12, <1>13, <1>14, <1>15, <1>16, <1>17, <1>18 DEF IInv, Sound

\* The memory g is h with the levels of the chain C reset and a new inode f.
Flattened(K, h, g, C, f) ==
  /\ g \in Seq(Blocks(Len(h), K))
  /\ f = Len(h) + 1 /\ DOMAIN g = 1 .. f /\ g[f] = Inode(NULL, NULL, First, 0)
  /\ \A b \in 1 .. Len(h) : b \notin C => g[b] = h[b]
  /\ \A c \in C : g[c] = [h[c] EXCEPT !.level = IF c = First THEN 1 ELSE 0]

\* What this leaves: one row, and no other level.
Flat(h, g, C, f) ==
  /\ Layered(g, C, [b \in Nat |-> IF b = f THEN 1 ELSE 0], {f}, <<f>>)
  /\ \A c \in C : /\ g[c].key = h[c].key /\ g[c].marked = h[c].marked
                  /\ c # First => g[c].level = 0

\* What reset_index does to the memory: all levels 0, one new sentinel inode.
LEMMA FlattenedLayers ==
  ASSUME NEW K, NEW h, NEW g, Heap(h, K), NEW C, Chained(h, C), NEW f, Flattened(K, h, g, C, f)
  PROVE  /\ Heap(g, K) /\ Len(g) = f /\ f \in Nat /\ g[f].kind = "inode" /\ Len(h) <= Len(g)
         /\ Flat(h, g, C, f)
<1>1. /\ f = Len(h) + 1 /\ DOMAIN g = 1 .. f /\ g[f] = Inode(NULL, NULL, First, 0)
      /\ \A b \in 1 .. Len(h) : b \notin C => g[b] = h[b]
      /\ \A c \in C : g[c] = [h[c] EXCEPT !.level = IF c = First THEN 1 ELSE 0]
  BY DEF Flattened
<1>2. /\ K \in SUBSET Nat /\ Len(h) \in Nat /\ DOMAIN h = 1 .. Len(h)
      /\ h \in [1 .. Len(h) -> Blocks(Len(h), K)]
  BY HeapBlocks, HeapHolds
<1>3. /\ First \in C /\ C \subseteq 1 .. Len(h)
      /\ \A c \in C : h[c].kind = "mnode" /\ h[c] \in MnodeOf(Len(h), K)
      /\ h[First].key = 0 /\ ~h[First].marked
  BY <1>2, HeapHolds DEF Chained
<1>4. f \in Nat /\ Len(h) <= f /\ f \in 1 .. f /\ \A b \in 1 .. f : b \in 1 .. Len(h) \/ b = f
  BY ONLY <1>1, <1>2
<1>5. \A c \in C : /\ g[c].kind = h[c].kind /\ g[c].key = h[c].key /\ g[c].next = h[c].next
                   /\ g[c].marked = h[c].marked
                   /\ g[c].level = IF c = First THEN 1 ELSE 0
  BY ONLY <1>1, <1>3, ZenonT(30) DEF MnodeOf
<1>6. g \in [1 .. f -> Blocks(f, K)]
  <2>1. g \in Seq(Blocks(Len(h), K))
    BY DEF Flattened
  <2>2. g = [b \in 1 .. f |-> g[b]] /\ \A b \in 1 .. f : g[b] \in Blocks(Len(h), K)
    BY ONLY <1>1, <2>1
  <2>3. \A b \in 1 .. f : g[b] \in Blocks(f, K)
    BY ONLY <1>2, <1>4, <2>2, BlocksGrow
  <2>4. QED
    BY ONLY <2>2, <2>3
<1>7. Heap(g, K) /\ Len(g) = f
  BY ONLY <1>2, <1>4, <1>6, HeapIs
<1>8. Chained(g, C)
  <2>1. DOMAIN h \subseteq DOMAIN g
    BY ONLY <1>1, <1>2, <1>4
  <2>2. (\A c \in C : g[c].kind = h[c].kind /\ g[c].next = h[c].next /\ g[c].key = h[c].key)
        /\ ~g[First].marked
    BY ONLY <1>3, <1>5
  <2>3. QED
    BY ONLY <2>1, <2>2, Chained(h, C), ChainedSame
<1>9. g[First].key = 0 /\ g[First].level = 1 /\ 1 >= 1 /\ f \in DOMAIN g
  BY ONLY <1>1, <1>3, <1>4, <1>5
<1>10. Indexed(g, C, [b \in Nat |-> IF b = f THEN 1 ELSE 0], {f}, <<f>>)
  BY ONLY <1>1, <1>3, <1>4, <1>9, IndexedNew
<1>11. g[First].level = Len(<<f>>)
  BY ONLY <1>9
<1>12. g[f].kind = "inode"
  BY ONLY <1>1 DEF Inode
<1>13. Layered(g, C, [b \in Nat |-> IF b = f THEN 1 ELSE 0], {f}, <<f>>)
  BY ONLY <1>8, <1>10, <1>11 DEF Layered
<1>14. \A c \in C : /\ g[c].key = h[c].key /\ g[c].marked = h[c].marked
                    /\ c # First => g[c].level = 0
  BY ONLY <1>5
<1>15. Len(h) <= Len(g) /\ f \in Nat
  BY ONLY <1>4, <1>7
<1>16. Flat(h, g, C, f)
  BY ONLY <1>13, <1>14 DEF Flat
<1>17. QED
  BY ONLY <1>7, <1>12, <1>15, <1>16

\* The step of reset_index.
LEMMA ResetFlattens ==
  ASSUME ResetIndex, Heap(mem, Keys), NEW C, Chained(mem, C)
  PROVE  Flattened(Keys, mem, mem', C, Len(mem) + 1)
<1>1. PICK f : f = Len(mem) + 1
  OBVIOUS
<1>2. Heap(mem, Keys) /\ Chained(mem, C)
  OBVIOUS
<1>3. Members(Chain) = C
  BY ONLY <1>2, ChainIs
<1>4. Flattened(Keys, mem, mem', C, f)
  <2>1. PICK flat :
          flat = [b \in 1 .. Len(mem) |->
                    IF b \in C THEN [mem[b] EXCEPT !.level = IF b = First THEN 1 ELSE 0]
                    ELSE mem[b]]
    OBVIOUS
  <2>2. mem' = Append(flat, Inode(NULL, NULL, First, 0))
    BY <1>3, <2>1 DEF ResetIndex
  <2>3. /\ Keys \in SUBSET Nat /\ Len(mem) \in Nat /\ DOMAIN mem = 1 .. Len(mem)
        /\ mem \in [1 .. Len(mem) -> Blocks(Len(mem), Keys)]
    BY ONLY <1>2, HeapBlocks, HeapHolds
  <2>4. C \subseteq 1 .. Len(mem) /\ First \in C
        /\ \A c \in C : mem[c] \in MnodeOf(Len(mem), Keys)
    BY ONLY <1>2, <2>3, HeapHolds DEF Chained
  <2>5. \A c \in C : [mem[c] EXCEPT !.level = IF c = First THEN 1 ELSE 0]
                        \in Blocks(Len(mem), Keys)
    BY ONLY <2>4, MnodeStore
  <2>6. flat \in [1 .. Len(mem) -> Blocks(Len(mem), Keys)]
    BY ONLY <2>1, <2>3, <2>5
  <2>7. Inode(NULL, NULL, First, 0) \in Blocks(Len(mem), Keys)
    <3>1. NULL \in 0 .. Len(mem) /\ First \in 0 .. Len(mem) /\ 0 \in Keys \cup {0}
      BY ONLY <2>3, <2>4 DEF NULL, First
    <3>2. QED
      BY ONLY <3>1, NewBlocks
  <2>8. PICK x : x = Inode(NULL, NULL, First, 0)
    OBVIOUS
  <2>9. flat \in Seq(Blocks(Len(mem), Keys)) /\ Len(flat) = Len(mem)
    BY ONLY <2>3, <2>6, FunctionIsSeq
  <2>10. /\ mem' \in Seq(Blocks(Len(mem), Keys)) /\ DOMAIN mem' = 1 .. f /\ mem'[f] = x
         /\ \A b \in 1 .. Len(mem) : mem'[b] = flat[b]
    BY ONLY <1>1, <2>2, <2>3, <2>7, <2>8, <2>9
  <2>11. QED
    BY ONLY <1>1, <2>1, <2>4, <2>8, <2>10 DEF Flattened
<1>5. QED
  BY ONLY <1>1, <1>4

\* reset_index keeps the invariant.
LEMMA ResetIndexStep ==
  ASSUME IInv, ResetIndex, setting' = setting
  PROVE  IInv'
<1>1. PICK C, rank, I, heads : Sound(C, rank, I, heads)
  BY DEF IInv
<1>2. /\ Types /\ Heap(mem, Keys) /\ Chained(mem, C)
      /\ Mirrored(C) /\ Counted(C) /\ Stage(C, rank, I, heads) /\ Searching(C, rank)
  BY <1>1 DEF IInv, Sound, Structure, Types, MemoryType
<1>3. /\ phase = "populate" /\ pc = "loop" /\ search.pc = "done"
      /\ phase' = "rebuild" /\ NAlloc /\ sentinel' = Fresh
      /\ UNCHANGED <<setting, non_del, tall_del, pc, at, row, raised, skipping, old, search,
                     mine, live, stay, clean>>
  BY DEF ResetIndex, count, round, history
<1>4. ~released
  BY <1>2, <1>3 DEF Stage
<1>5. PICK f : f = Len(mem) + 1
  OBVIOUS
<1>6. last' = f /\ released' = FALSE /\ sentinel' = f
  BY ONLY <1>3, <1>4, <1>5 DEF NAlloc, Fresh
<1>7. Len(mem) \in Nat
  BY ONLY <1>2, HeapHolds
<1>8. Flattened(Keys, mem, mem', C, f)
  BY ONLY <1>2, <1>5, ResetIndex, ResetFlattens
<1>9. PICK R, J, tops : /\ R = [b \in Nat |-> IF b = f THEN 1 ELSE 0] /\ J = {f}
                        /\ tops = <<f>>
  OBVIOUS
<1>10. /\ Heap(mem', Keys) /\ Len(mem') = f /\ f \in Nat /\ mem'[f].kind = "inode"
       /\ Len(mem) <= Len(mem') /\ Flat(mem, mem', C, f)
  BY ONLY <1>2, <1>8, FlattenedLayers
<1>m. \A c \in C : /\ mem'[c].key = mem[c].key /\ mem'[c].marked = mem[c].marked
                   /\ c # First => mem'[c].level = 0
  BY ONLY <1>10 DEF Flat
<1>l. Layered(mem', C, R, J, tops)
  BY ONLY <1>9, <1>10 DEF Flat
<1>11. Structure(C, R, J, tops)'
  <2>1. tops[Len(tops)] = sentinel'
    BY ONLY <1>6, <1>9
  <2>2. QED
    BY ONLY <1>l, <2>1, StructurePrimed
<1>12. Allocated(C)'
  BY ONLY <1>3, <1>6, <1>10 DEF Allocated
<1>13. Mirrored(C)'
  <2>1. LiveKeys(mem', C) = LiveKeys(mem, C)
    <3>1. \A c \in C : mem'[c].key = mem[c].key /\ mem'[c].marked = mem[c].marked
      BY ONLY <1>m
    <3>2. QED
      BY ONLY <3>1 DEF LiveKeys
  <2>2. QED
    BY ONLY <1>2, <1>3, <2>1 DEF Mirrored, LiveKeys
<1>14. Stage(C, R, J, tops)'
  BY ONLY <1>3 DEF Stage
<1>15. Searching(C, R)'
  <2>1. search.pc = "done" /\ clean =>
               /\ search.entry \in 0 .. search.key
               /\ \A k \in stay : k <= search.key => k <= search.entry
    BY ONLY <1>2 DEF Searching
  <2>2. QED
    BY ONLY <1>3, <2>1 DEF Searching
<1>16. Counted(C)'
  <2> SUFFICES ASSUME Alternating'
               PROVE  /\ tall_del' <= non_del' /\ mine' = 0
                      /\ Tall(mem', C, mine') = {}
    BY DEF Counted, Paired, Tall, Base
  <2>1. Alternating /\ tall_del <= non_del /\ mine = 0
    BY ONLY <1>2, <1>3, Alternating' DEF Counted, Alternating
  <2>2. Tall(mem', C, mine') = {}
    <3>1. \A c \in C \ {First} : ~(mem'[c].level > 0)
      BY ONLY <1>m
    <3>2. QED
      BY ONLY <3>1 DEF Tall
  <2>3. QED
    BY ONLY <1>3, <2>1, <2>2
<1>17. Types'
  <2>0. Len(mem) \in Nat /\ f \in Nat /\ f \in 1 .. Len(mem') /\ Len(mem') \in Nat
        /\ 0 .. Len(mem) \subseteq 0 .. Len(mem')
    <3>1. Len(mem) \in Nat
      BY ONLY <1>2, HeapHolds
    <3>2. QED
      BY ONLY <1>5, <1>10, <3>1
  <2>1. SearchType'
    BY ONLY <1>2, <1>3, <2>0 DEF Types, SearchType, Keys
  <2>2. HelperType'
    BY ONLY <1>2, <1>3, <2>0 DEF Types, HelperType
  <2>3. MemoryType'
    <3>1. Heap(mem, Keys)'
      BY ONLY <1>10, <1>3 DEF Keys, Heap
    <3>2. QED
      BY ONLY <1>2, <1>3, <1>6, <2>0, <3>1 DEF Types, MemoryType
  <2>4. WorkType'
    BY ONLY <1>2, <1>3 DEF Types, WorkType, Keys
  <2>5. QED
    BY ONLY <2>1, <2>2, <2>3, <2>4 DEF Types
<1>18. QED
  BY ONLY <1>11, <1>12, <1>13, <1>14, <1>15, <1>16, <1>17 DEF IInv, Sound

\* The memory h holds the chain of the n keys e and the first inode.
Starts(h, n, e, K) ==
  /\ h \in Seq(Blocks(n + 2, K)) /\ Len(h) = n + 2 /\ DOMAIN h = 1 .. n + 2
  /\ \A b \in 1 .. n + 1 :
       /\ h[b].kind = "mnode" /\ ~h[b].marked
       /\ h[b].next = IF b <= n THEN b + 1 ELSE NULL
       /\ h[b].key = IF b = 1 THEN 0 ELSE e[b - 1]
       /\ h[b].level = IF b = 1 THEN 1 ELSE 0
  /\ h[n + 2] = Inode(NULL, NULL, First, 0)

\* The mnodes of the keys populated, in their order, are a chain.
LEMMA StartChained ==
  ASSUME NEW K, NEW P, P \subseteq Nat \ {0}, NEW n \in Nat, NEW e, Enumerates(P, n, e),
         NEW h, Starts(h, n, e, K)
  PROVE  Chained(h, 1 .. n + 1)
<1>1. /\ DOMAIN h = 1 .. n + 2
      /\ \A b \in 1 .. n + 1 :
           /\ h[b].kind = "mnode" /\ ~h[b].marked
           /\ h[b].next = IF b <= n THEN b + 1 ELSE NULL
           /\ h[b].key = IF b = 1 THEN 0 ELSE e[b - 1]
  BY DEF Starts
<1>2. \A b \in 1 .. n + 1 : h[b].key \in Nat /\ (b # 1 => h[b].key > 0)
  <2> TAKE b \in 1 .. n + 1
  <2>1. CASE b = 1
    BY <2>1, <1>1
  <2>2. CASE b # 1
    <3>1. b - 1 \in 1 .. n
      BY <2>2
    <3>2. e[b - 1] \in P
      BY <3>1 DEF Enumerates
    <3>3. e[b - 1] \in Nat /\ e[b - 1] > 0
      <4>1. PICK x \in P : x = e[b - 1]
        BY <3>2
      <4>2. x \in Nat /\ x > 0
        OBVIOUS
      <4>3. QED
        BY <4>1, <4>2
    <3>4. QED
      BY ONLY <2>2, <3>3, <1>1
  <2>3. QED
    BY <2>1, <2>2
<1>3. \A b, c \in 1 .. n + 1 : b < c => h[b].key < h[c].key
  <2> SUFFICES ASSUME NEW b \in 1 .. n + 1, NEW c \in 1 .. n + 1, b < c
               PROVE  h[b].key < h[c].key
    OBVIOUS
  <2>1. c # 1 /\ c - 1 \in 1 .. n
    OBVIOUS
  <2>2. CASE b = 1
    BY <2>1, <2>2, <1>1, <1>2
  <2>3. CASE b # 1
    <3>1. b - 1 \in 1 .. n /\ b - 1 < c - 1
      BY <2>3
    <3>2. e[b - 1] < e[c - 1]
      BY <2>1, <3>1 DEF Enumerates
    <3>3. QED
      BY <2>1, <2>3, <3>2, <1>1
  <2>4. QED
    BY <2>2, <2>3
<1>4. PICK C : C = 1 .. n + 1
  OBVIOUS
<1>5. \A c, d \in C : h[c].key = h[d].key => c = d
  <2> SUFFICES ASSUME NEW c \in C, NEW d \in C, c # d PROVE h[c].key # h[d].key
    OBVIOUS
  <2>1. c < d \/ d < c
    BY <1>4
  <2>2. h[c].key < h[d].key \/ h[d].key < h[c].key
    BY <2>1, <1>3, <1>4
  <2>3. h[c].key \in Nat /\ h[d].key \in Nat
    BY <1>2, <1>4
  <2>4. QED
    BY ONLY <2>2, <2>3
<1>6. ASSUME NEW c \in C
      PROVE  IF h[c].next = NULL THEN \A d \in C : h[d].key <= h[c].key
             ELSE /\ h[c].next \in C /\ h[c].key < h[h[c].next].key
                  /\ \A d \in C : h[d].key <= h[c].key \/ h[h[c].next].key <= h[d].key
  <2>1. \A b, d \in C : b <= d => h[b].key <= h[d].key
    BY <1>2, <1>3, <1>4
  <2>2. CASE c <= n
    <3>1. h[c].next = c + 1 /\ c + 1 \in C /\ c + 1 # NULL /\ c \in Nat
      BY <2>2, <1>1, <1>4 DEF NULL
    <3>2. \A d \in C : d <= c \/ c + 1 <= d
      BY <3>1, <1>4
    <3>3. h[c].key < h[c + 1].key
      BY <3>1, <1>3, <1>4
    <3>4. \A d \in C : h[d].key <= h[c].key \/ h[c + 1].key <= h[d].key
      BY <2>1, <3>1, <3>2
    <3>5. QED
      BY <3>1, <3>3, <3>4
  <2>3. CASE ~(c <= n)
    <3>1. h[c].next = NULL /\ \A d \in C : d <= c
      BY <2>3, <1>1, <1>4
    <3>2. QED
      BY <2>1, <3>1
  <2>4. QED
    BY <2>2, <2>3
<1>7. C \subseteq DOMAIN h /\ First \in C /\ h[First].key = 0 /\ ~h[First].marked
  BY <1>1, <1>4 DEF First
<1>8. \A c \in C : h[c].kind = "mnode"
  BY <1>1, <1>4
<1>9. QED
  BY ONLY <1>4, <1>5, <1>6, <1>7, <1>8 DEF Chained

\* Its unmarked mnodes are the keys populated.
LEMMA StartLive ==
  ASSUME NEW K, NEW P, P \subseteq Nat \ {0}, NEW n \in Nat, NEW e, Enumerates(P, n, e),
         NEW h, Starts(h, n, e, K)
  PROVE  LiveKeys(h, 1 .. n + 1) = P
<1>1. \A b \in 1 .. n + 1 : ~h[b].marked /\ h[b].key = IF b = 1 THEN 0 ELSE e[b - 1]
  BY DEF Starts
<1>2. ASSUME NEW x \in P PROVE x \in LiveKeys(h, 1 .. n + 1)
  <2>1. PICK i \in 1 .. n : e[i] = x
    BY DEF Enumerates
  <2>2. i + 1 \in 1 .. n + 1 /\ i + 1 # 1 /\ (i + 1) - 1 = i
    OBVIOUS
  <2>3. h[i + 1].key = x /\ ~h[i + 1].marked
    BY <1>1, <2>1, <2>2
  <2>4. QED
    BY <2>2, <2>3 DEF LiveKeys, First
<1>3. ASSUME NEW c \in (1 .. n + 1) \ {First} PROVE h[c].key \in P
  <2>1. c # 1 /\ c \in 1 .. n + 1 /\ c - 1 \in 1 .. n
    BY DEF First
  <2>2. QED
    BY <1>1, <2>1 DEF Enumerates
<1>4. QED
  BY <1>2, <1>3 DEF LiveKeys

\* The memory of the initial states is such a chain and one inode.
LEMMA InitHeap ==
  ASSUME Init, NEW n, n = Cardinality(Populated), n \in Nat,
         NEW e, Enumerates(Populated, n, e), Populated \subseteq Keys
  PROVE  Starts(mem, n, e, Keys)
<1>1. \A i \in 1 .. n : PopulatedKey(i) = e[i] /\ e[i] \in Populated
  <2> SUFFICES ASSUME NEW i \in 1 .. n PROVE PopulatedKey(i) = e[i] /\ e[i] \in Populated
    OBVIOUS
  <2>1. e[i] \in Populated /\ Cardinality({x \in Populated : x < e[i]}) = i - 1
    BY DEF Enumerates
  <2>2. ASSUME NEW k \in Populated, Cardinality({x \in Populated : x < k}) = i - 1
        PROVE  k = e[i]
    <3>1. PICK j \in 1 .. n : e[j] = k
      BY DEF Enumerates
    <3>2. Cardinality({x \in Populated : x < e[j]}) = j - 1
      BY DEF Enumerates
    <3>3. j = i
      BY <2>2, <3>1, <3>2
    <3>4. QED
      BY <3>1, <3>3
  <2>3. QED
    BY <2>1, <2>2 DEF PopulatedKey
<1> DEFINE link(b) == IF b <= n THEN b + 1 ELSE NULL
           first == [Mnode(link(1), 0) EXCEPT !.level = 1]
           B == Blocks(n + 2, Keys)
<1>2. PICK s, t, u : /\ s = <<first>>
                     /\ t = [i \in 1 .. n |-> Mnode(link(i + 1), e[i])]
                     /\ u = <<Inode(NULL, NULL, First, 0)>>
  OBVIOUS
<1>3. mem = (s \o t) \o u
  <2>1. t = [i \in 1 .. n |-> Mnode(link(i + 1), PopulatedKey(i))]
    BY <1>1, <1>2
  <2>2. QED
    BY <1>2, <2>1 DEF Init
<1>l. \A b \in 1 .. n + 1 : link(b) \in 0 .. n + 2
  BY DEF NULL
<1>4. first \in B /\ Inode(NULL, NULL, First, 0) \in B
      /\ \A i \in 1 .. n : Mnode(link(i + 1), e[i]) \in B
  <2>1. NULL \in 0 .. n + 2 /\ First \in 0 .. n + 2 /\ 0 \in Keys \cup {0}
        /\ link(1) \in 0 .. n + 2
    BY <1>l DEF NULL, First
  <2> HIDE DEF link
  <2>2. Inode(NULL, NULL, First, 0) \in B
    BY <2>1, NewBlocks
  <2>3. first \in B
    <3>1. Mnode(link(1), 0) \in MnodeOf(n + 2, Keys)
      BY <2>1 DEF Mnode, MnodeOf
    <3>2. QED
      BY <3>1, MnodeStore
  <2>4. ASSUME NEW i \in 1 .. n PROVE Mnode(link(i + 1), e[i]) \in B
    <3>1. i + 1 \in 1 .. n + 1 /\ e[i] \in Keys \cup {0}
      BY <1>1
    <3>2. link(i + 1) \in 0 .. n + 2
      BY <1>l, <3>1
    <3>3. QED
      BY <3>1, <3>2, <2>1, NewBlocks
  <2>5. QED
    BY <2>2, <2>3, <2>4
<1>5. /\ s \in Seq(B) /\ t \in Seq(B) /\ u \in Seq(B)
      /\ Len(s) = 1 /\ Len(t) = n /\ Len(u) = 1
  <2>1. t \in [1 .. n -> B]
    BY <1>2, <1>4
  <2> HIDE DEF B, first
  <2>2. t \in Seq(B) /\ Len(t) = n
    BY <2>1, FunctionIsSeq
  <2>3. s \in Seq(B) /\ u \in Seq(B) /\ Len(s) = 1 /\ Len(u) = 1
    BY <1>2, <1>4
  <2>4. QED
    BY <2>2, <2>3
<1>6. PICK v : v = s \o t
  OBVIOUS
<1> HIDE DEF B
<1>7. /\ v \in Seq(B) /\ Len(v) = n + 1
      /\ \A i \in 1 .. n + 1 : v[i] = IF i <= 1 THEN s[i] ELSE t[i - 1]
  <2>1. /\ s \o t \in Seq(B) /\ Len(s \o t) = 1 + n
        /\ \A i \in 1 .. 1 + n : (s \o t)[i] = IF i <= 1 THEN s[i] ELSE t[i - 1]
    <3>1. /\ s \o t \in Seq(B) /\ Len(s \o t) = Len(s) + Len(t)
          /\ \A i \in 1 .. Len(s) + Len(t) :
               (s \o t)[i] = IF i <= Len(s) THEN s[i] ELSE t[i - Len(s)]
      BY ONLY <1>5, ConcatProperties, Zenon
    <3>2. Len(s) = 1 /\ Len(t) = n
      BY ONLY <1>5
    <3>3. QED
      BY ONLY <3>1, <3>2
  <2>2. 1 + n = n + 1
    BY ONLY n \in Nat
  <2>3. QED
    BY ONLY <1>6, <2>1, <2>2
<1>8. /\ mem \in Seq(B) /\ Len(mem) = n + 2
      /\ \A i \in 1 .. n + 2 : mem[i] = IF i <= n + 1 THEN v[i] ELSE u[i - (n + 1)]
  BY ONLY <1>3, <1>5, <1>6, <1>7, ConcatProperties, n \in Nat
<1>9. DOMAIN mem = 1 .. n + 2
  BY ONLY <1>8
<1>10. mem[n + 2] = Inode(NULL, NULL, First, 0)
  <2>1. mem[n + 2] = u[(n + 2) - (n + 1)] /\ (n + 2) - (n + 1) = 1
    BY ONLY <1>8, n \in Nat
  <2>2. QED
    BY ONLY <1>2, <2>1
<1>11. mem[1] = first /\ \A b \in 2 .. n + 1 : mem[b] = Mnode(link(b), e[b - 1])
  <2>1. mem[1] = v[1] /\ v[1] = s[1]
    BY ONLY <1>7, <1>8, n \in Nat
  <2>2. s[1] = first
    BY ONLY <1>2
  <2>3. ASSUME NEW b \in 2 .. n + 1 PROVE mem[b] = Mnode(link(b), e[b - 1])
    <3>1. mem[b] = v[b] /\ v[b] = t[b - 1] /\ b - 1 \in 1 .. n /\ (b - 1) + 1 = b
      BY ONLY <1>7, <1>8, n \in Nat, b \in 2 .. n + 1
    <3> HIDE DEF link
    <3>2. QED
      BY ONLY <1>2, <3>1
  <2>4. QED
    BY ONLY <2>1, <2>2, <2>3
<1>12. ASSUME NEW b \in 1 .. n + 1
       PROVE  /\ mem[b].kind = "mnode" /\ ~mem[b].marked
              /\ mem[b].next = IF b <= n THEN b + 1 ELSE NULL
              /\ mem[b].key = IF b = 1 THEN 0 ELSE e[b - 1]
              /\ mem[b].level = IF b = 1 THEN 1 ELSE 0
  <2>1. CASE b = 1
    BY <2>1, <1>11 DEF Mnode
  <2>2. CASE b # 1
    <3>1. b \in 2 .. n + 1
      BY <2>2
    <3>2. mem[b] = Mnode(link(b), e[b - 1])
      BY ONLY <1>11, <3>1
    <3>3. QED
      BY <2>2, <3>2 DEF Mnode
  <2>3. QED
    BY <2>1, <2>2
<1>13. QED
  BY ONLY <1>8, <1>9, <1>10, <1>12 DEF Starts, B

\* The invariant holds in the initial states.
LEMMA InitIInv ==
  ASSUME Init
  PROVE  IInv
<1>1. Setting(setting) /\ setting \in Settings
  BY SettingsAssumption DEF Init
<1>2. /\ Keys \in SUBSET Nat /\ Populated \subseteq Nat \ {0} /\ Populated \in SUBSET Nat
      /\ Populated \subseteq Keys /\ IsFiniteSet(Populated)
  BY <1>1 DEF Setting, Keys, Populated
<1>3. PICK n : n = Cardinality(Populated) /\ n \in Nat
  BY <1>2, FS_CardinalityType
<1>4. PICK e : Enumerates(Populated, n, e)
  BY <1>2, <1>3, Enumerated
<1>5. Starts(mem, n, e, Keys)
  BY ONLY Init, <1>2, <1>3, <1>4, InitHeap
<1>6. /\ last = Len(mem) /\ released = FALSE /\ sentinel = Len(mem)
      /\ non_del = 0 /\ tall_del = 0 /\ pc = "loop"
      /\ at = NULL /\ row = 0 /\ raised = FALSE /\ skipping = FALSE /\ old = NULL
      /\ search = [pc |-> "done", key |-> 0, at |-> NULL, entry |-> 0]
      /\ phase = "populate" /\ mine = 0 /\ live = Populated /\ stay = {} /\ clean = TRUE
  BY DEF Init
<1>7. /\ Len(mem) = n + 2 /\ mem[n + 2] = Inode(NULL, NULL, First, 0)
      /\ \A b \in 1 .. n + 1 : ~mem[b].marked /\ mem[b].level = IF b = 1 THEN 1 ELSE 0
      /\ DOMAIN mem = 1 .. n + 2
  BY ONLY <1>5 DEF Starts
<1>8. Heap(mem, Keys)
  BY ONLY <1>2, <1>5 DEF Starts, Heap
<1>9. PICK C, R, I, heads, f :
        /\ C = 1 .. n + 1 /\ f = n + 2
        /\ R = [b \in Nat |-> IF b = f THEN 1 ELSE 0] /\ I = {f} /\ heads = <<f>>
  OBVIOUS
<1>10. Chained(mem, C) /\ LiveKeys(mem, C) = Populated
  BY ONLY <1>2, <1>3, <1>4, <1>5, <1>9, StartChained, StartLive
<1>11. /\ First \in C /\ mem[First].key = 0 /\ mem[First].level = 1 /\ 1 >= 1
       /\ f \in Nat /\ f \in DOMAIN mem /\ mem[f] = Inode(NULL, NULL, First, 0)
  <2>1. First \in C /\ mem[First].key = 0
    BY ONLY <1>10 DEF Chained
  <2>2. QED
    BY ONLY <1>3, <1>7, <1>9, <2>1 DEF First
<1>12. Indexed(mem, C, R, I, heads)
  BY ONLY <1>9, <1>11, IndexedNew
<1>13. Structure(C, R, I, heads)
  <2>1. heads[Len(heads)] = f /\ Len(heads) = 1 /\ sentinel = f
    BY ONLY <1>6, <1>7, <1>9
  <2>2. QED
    BY ONLY <1>10, <1>11, <1>12, <2>1 DEF Structure
<1>14. Allocated(C)
  BY ONLY <1>6, <1>7 DEF Allocated, Inode
<1>15. Mirrored(C)
  BY ONLY <1>6, <1>10 DEF Mirrored
<1>16. Stage(C, R, I, heads)
  BY ONLY <1>6, <1>7, <1>9 DEF Stage
<1>17. Searching(C, R)
  BY ONLY <1>6 DEF Searching
<1>18. Counted(C)
  <2>1. Tall(mem, C, 0) = {}
    BY ONLY <1>7, <1>9 DEF Tall, First
  <2>2. QED
    BY ONLY <1>6, <2>1 DEF Counted, Paired
<1>19. Types
  <2>0. NULL \in 0 .. Len(mem) /\ Len(mem) \in 1 .. Len(mem)
    BY ONLY <1>3, <1>7 DEF NULL
  <2>1. SearchType
    BY ONLY <1>6, <2>0 DEF SearchType
  <2>2. HelperType
    BY ONLY <1>6, <2>0 DEF HelperType
  <2>3. MemoryType
    BY ONLY <1>1, <1>6, <1>8, <2>0 DEF MemoryType
  <2>4. WorkType
    BY ONLY <1>2, <1>6 DEF WorkType
  <2>5. QED
    BY ONLY <2>1, <2>2, <2>3, <2>4 DEF Types
<1>20. QED
  BY ONLY <1>13, <1>14, <1>15, <1>16, <1>17, <1>18, <1>19 DEF IInv, Sound

-----------------------------------------------------------------------------
(* The invariant is kept, and implies the properties.                      *)

\* No step but the first of a lowering leaves it, and no program of the code takes it.
LEMMA StepIInv ==
  ASSUME IInv, [Next]_vars, Alternating \/ pc' # "cut"
  PROVE  IInv'
<1>1. CASE UNCHANGED vars
  <2>1. PICK C, rank, I, heads : Sound(C, rank, I, heads)
    BY DEF IInv
  <2>2. /\ HelperType /\ MemoryType /\ WorkType /\ SearchType /\ Searching(C, rank)
        /\ stay \subseteq Keys /\ clean \in BOOLEAN
    BY <2>1 DEF IInv, Types, Sound, WorkType
  <2>3. /\ UNCHANGED <<setting, mem, alloc, sentinel, count, pc, round, phase, mine, live>>
        /\ UNCHANGED <<search, stay, clean>>
    BY <1>1 DEF vars, history
  <2>4. /\ HelperType' /\ MemoryType' /\ WorkType'
        /\ Structure(C, rank, I, heads)' /\ Allocated(C)' /\ Mirrored(C)'
        /\ Stage(C, rank, I, heads)' /\ Counted(C)'
    <3>1. stay' \subseteq Keys /\ clean' \in BOOLEAN
      BY ONLY <2>2, <2>3
    <3>2. QED
      BY ONLY <2>1, <2>2, <2>3, <3>1, SearchSteady
  <2>5. SearchType'
    BY ONLY <2>2, <2>3 DEF SearchType, Keys
  <2>6. Searching(C, rank)'
    BY ONLY <2>2, <2>3 DEF Searching, Passable, Keys
  <2>7. QED
    BY ONLY <2>4, <2>5, <2>6 DEF IInv, Types, Sound
<1>2. CASE Next
  <2> USE <1>2
  <2>0. setting' = setting /\ (Helper \/ Search)
    BY DEF Next
  <2>1. CASE \E k \in Keys, insert, own \in BOOLEAN : Apply(k, insert, own)
    BY ONLY IInv, <2>0, <2>1, ApplyStep
  <2>2. CASE StartRound
    BY ONLY IInv, <2>0, <2>2, StartRoundStep
  <2>3. CASE Unlink
    BY ONLY IInv, <2>0, <2>3, UnlinkStep
  <2>4. CASE FreeMnode
    BY ONLY IInv, <2>0, <2>4, FreeMnodeStep
  <2>5. CASE EndRemoval
    BY ONLY IInv, <2>0, <2>5, EndRemovalStep
  <2>6. CASE RaiseMnode
    BY ONLY IInv, <2>0, <2>6, RaiseMnodeStep
  <2>7. CASE EndMraise
    BY ONLY IInv, <2>0, <2>7, EndMraiseStep
  <2>8. CASE SkipDeleted
    BY ONLY IInv, <2>0, <2>8, SkipDeletedStep
  <2>9. CASE RaiseInode
    BY ONLY IInv, <2>0, <2>9, RaiseInodeStep
  <2>10. CASE PassInode
    BY ONLY IInv, <2>0, <2>10, PassInodeStep
  <2>11. CASE EndRow
    BY ONLY IInv, <2>0, <2>11, EndRowStep
  <2>12. CASE EndRound
    BY ONLY IInv, <2>0, <2>12, Alternating \/ pc' # "cut", EndRoundStep
  <2>13. CASE CutDown \/ FreeInode
    <3>1. pc \notin {"cut", "ifree"}
      BY ONLY IInv DEF IInv, Types, HelperType
    <3>2. QED
      BY ONLY <2>13, <3>1 DEF CutDown, FreeInode
  <2>14. CASE ResetIndex
    BY ONLY IInv, <2>0, <2>14, ResetIndexStep
  <2>15. CASE \E k \in SearchKeys : StartSearch(k)
    BY ONLY IInv, <2>0, <2>15, StartSearchStep
  <2>16. CASE SearchStep
    BY ONLY IInv, <2>0, <2>16, SearchStepStep
  <2>17. QED
    BY ONLY <2>0, <2>1, <2>2, <2>3, <2>4, <2>5, <2>6, <2>7, <2>8, <2>9, <2>10, <2>11, <2>12,
            <2>13, <2>14, <2>15, <2>16 DEF Helper, Search
<1>3. QED
  BY <1>1, <1>2

\* The chain described by the invariant is the one the property computes.
LEMMA ImpliesMirror ==
  ASSUME IInv
  PROVE  ChainMirrorsJobs
<1>1. PICK C, rank, I, heads : Sound(C, rank, I, heads)
  BY DEF IInv
<1>2. Heap(mem, Keys) /\ Chained(mem, C) /\ LiveKeys(mem, C) = live
  BY <1>1 DEF IInv, Types, MemoryType, Sound, Structure, Mirrored
<1>3. /\ Chain \in Seq(C) /\ Members(Chain) = C
      /\ \A i, j \in 1 .. Len(Chain) : i < j => mem[Chain[i]].key < mem[Chain[j]].key
  BY ONLY <1>2, ChainIs
<1>4. DOMAIN Chain = 1 .. Len(Chain)
  BY ONLY <1>3
<1>5. Ascending(Chain)
  BY ONLY <1>3, <1>4 DEF Ascending
<1>6. QED
  BY ONLY <1>2, <1>3, <1>5 DEF ChainMirrorsJobs, LiveKeys

\* The invariant has the type invariant.
LEMMA ImpliesTypes ==
  ASSUME IInv
  PROVE  TypeOK
<1>1. Types /\ Heap(mem, Keys)
  BY DEF IInv, Types, MemoryType
<1>2. /\ Len(mem) \in Nat /\ DOMAIN mem = 1 .. Len(mem)
      /\ \A b \in 1 .. Len(mem) : mem[b].kind \in {"mnode", "inode", "zero"}
  BY ONLY <1>1, HeapHolds
<1>3. last \in DOMAIN mem /\ sentinel \in DOMAIN mem /\ released \in BOOLEAN
  BY ONLY <1>1, <1>2 DEF Types, MemoryType
<1>4. {at, old, search.at} \subseteq 0 .. Len(mem) /\ non_del \in Nat /\ tall_del \in Nat
  BY ONLY <1>1 DEF Types, HelperType, SearchType
<1>5. /\ search.pc \in {"right", "down", "walk", "done"}
      /\ search.entry \in Keys \cup {0, NoNode}
  BY ONLY <1>1 DEF Types, SearchType
<1>6. QED
  BY ONLY <1>2, <1>3, <1>4, <1>5 DEF TypeOK

\* The rows of the invariant are those that the level of the first mnode counts.
LEMMA ImpliesRows ==
  ASSUME IInv
  PROVE  LevelCountsRows
<1>1. PICK C, rank, I, heads : Sound(C, rank, I, heads)
  BY DEF IInv
<1>2. /\ Heap(mem, Keys) /\ Indexed(mem, C, rank, I, heads) /\ heads[Len(heads)] = sentinel
      /\ mem[First].level = Len(heads)
  BY <1>1 DEF IInv, Types, MemoryType, Sound, Structure
<1>3. Column = heads
  BY ONLY <1>2, ColumnIs
<1>4. QED
  BY ONLY <1>2, <1>3, IInv, ImpliesTypes DEF LevelCountsRows, Level

\* The rows of the invariant are those that the property computes.
LEMMA ImpliesTowers ==
  ASSUME IInv
  PROVE  TowersAnchored
<1>1. PICK C, rank, I, heads : Sound(C, rank, I, heads)
  BY DEF IInv
<1>2. /\ Heap(mem, Keys) /\ Chained(mem, C) /\ Indexed(mem, C, rank, I, heads)
      /\ heads[Len(heads)] = sentinel
  BY <1>1 DEF IInv, Types, MemoryType, Sound, Structure
<1>3. Column = heads /\ Members(Chain) = C
  BY ONLY <1>2, ColumnIs, ChainIs
<1>4. Len(heads) \in Nat /\ DOMAIN heads = 1 .. Len(heads) /\ I \subseteq Nat
  BY ONLY <1>2 DEF Indexed, Headed, Rowed
<1>5. ASSUME NEW r \in 1 .. Len(heads)
      PROVE  /\ Ascending(Row(heads[r]))
             /\ \A i \in Members(Row(heads[r])) :
                  /\ mem[i].intermed \in C
                  /\ Level(mem[i].intermed) >= r
                  /\ mem[i].key = mem[mem[i].intermed].key
                  /\ IF r = 1 THEN mem[i].down = NULL
                     ELSE mem[i].down # NULL /\ mem[mem[i].down].key = mem[i].key
  <2>1. Members(Row(heads[r])) = InRow(I, rank, r) /\ Ascending(Row(heads[r]))
    BY ONLY <1>2, <1>5, RowIs
  <2>2. ASSUME NEW i \in InRow(I, rank, r)
        PROVE  /\ mem[i].intermed \in C
               /\ Level(mem[i].intermed) >= r
               /\ mem[i].key = mem[mem[i].intermed].key
               /\ IF r = 1 THEN mem[i].down = NULL
                  ELSE mem[i].down # NULL /\ mem[mem[i].down].key = mem[i].key
    <3>1. i \in Nat /\ rank[i] = r /\ rank[i] > 0 /\ r \in Nat
      BY ONLY <1>4, <1>5, <2>2 DEF InRow
    <3>2. /\ mem[i].intermed \in C /\ mem[mem[i].intermed].key = mem[i].key
          /\ (mem[i].down # NULL => mem[mem[i].down].key = mem[i].key)
          /\ (mem[i].down = NULL <=> rank[i] = 1)
      BY ONLY <1>2, <3>1, RankedBlock
    <3>3. rank[i] <= mem[mem[i].intermed].level
      BY ONLY <1>2, <3>1 DEF Indexed, Ranked
    <3>4. mem[mem[i].intermed].level \in Nat
      BY ONLY <1>2, <3>2, ChainBlock
    <3>5. Level(mem[i].intermed) >= r
      BY ONLY <3>1, <3>3, <3>4 DEF Level
    <3>6. QED
      BY ONLY <3>1, <3>2, <3>5
  <2>3. QED
    BY ONLY <2>1, <2>2
<1>6. \A rr \in Rows : \E r \in 1 .. Len(heads) : rr[1] = r /\ rr[2] = Row(heads[r])
  BY ONLY <1>3, <1>4 DEF Rows
<1>7. LowestLevelRemoved
  BY DEF LowestLevelRemoved, IInv, Types, HelperType
<1>8. QED
  BY ONLY <1>3, <1>5, <1>6, <1>7 DEF TowersAnchored

\* The invariant says where a search that has ended has come to.
LEMMA ImpliesNear ==
  ASSUME IInv
  PROVE  EntryIsNear
BY DEF IInv, Sound, Searching, EntryIsNear

\* The pairing of deleted with undeleted mnodes bounds the counters.
LEMMA ImpliesCount ==
  ASSUME IInv
  PROVE  Alternating => NeverLowers
BY DEF IInv, Sound, Counted, Types, HelperType, NeverLowers

-----------------------------------------------------------------------------
(* Which mnodes get inodes.                                                *)

\* A block has its kind, and an inode the mnode it stands on.
Labelled(y) == "kind" \in DOMAIN y /\ (y.kind = "inode" => "intermed" \in DOMAIN y)

\* g has the blocks of h, of the same kinds and on the same mnodes.
SameLabels(h, g) ==
  /\ DOMAIN g = DOMAIN h
  /\ \A i \in DOMAIN h : /\ Labelled(g[i]) /\ g[i].kind = h[i].kind
                         /\ h[i].kind = "inode" => g[i].intermed = h[i].intermed

AllLabelled(h) == \A i \in DOMAIN h : Labelled(h[i])

\* Every block of a memory has a kind, and the inodes have their mnode.
LEMMA BlockLabelled ==
  ASSUME NEW N, NEW K, NEW x \in Blocks(N, K)
  PROVE  Labelled(x)
<1>1. x \in MnodeOf(N, K) => Labelled(x)
  BY DEF MnodeOf, Labelled
<1>2. x \in InodeOf(N, K) => Labelled(x)
  BY DEF InodeOf, Labelled
<1>3. x = Zeroed => Labelled(x)
  BY DEF Zeroed, Labelled
<1>4. QED
  BY <1>1, <1>2, <1>3 DEF Blocks

\* A store into another field of a block.
LEMMA FieldStore ==
  ASSUME NEW h, AllLabelled(h), NEW b, NEW v
  PROVE  /\ SameLabels(h, [h EXCEPT ![b].right = v])
         /\ SameLabels(h, [h EXCEPT ![b].next = v])
         /\ SameLabels(h, [h EXCEPT ![b].level = v])
         /\ SameLabels(h, [h EXCEPT ![b].marked = v])
<1>1. SameLabels(h, [h EXCEPT ![b].right = v])
  BY DEF SameLabels, AllLabelled, Labelled
<1>2. SameLabels(h, [h EXCEPT ![b].next = v])
  BY DEF SameLabels, AllLabelled, Labelled
<1>3. SameLabels(h, [h EXCEPT ![b].level = v])
  BY DEF SameLabels, AllLabelled, Labelled
<1>4. SameLabels(h, [h EXCEPT ![b].marked = v])
  BY DEF SameLabels, AllLabelled, Labelled
<1>5. QED
  BY <1>1, <1>2, <1>3, <1>4

\* Two changes that keep the kinds of the blocks and the mnodes of the inodes, one after the other.
LEMMA SameTwice ==
  ASSUME NEW h, NEW g, NEW e, SameLabels(h, g), SameLabels(g, e)
  PROVE  SameLabels(h, e) /\ AllLabelled(g)
BY DEF SameLabels, AllLabelled

\* An inode that is new in g stands on an mnode that is not deleted in h.
OnLive(h, g) ==
  \A i \in DOMAIN g :
    (i \notin DOMAIN h \/ h[i].kind # "inode") /\ g[i].kind = "inode"
      => ~h[g[i].intermed].marked

\* Where no block becomes an inode, none is for a deleted key.
LEMMA SameOnLive ==
  ASSUME NEW h, NEW g, SameLabels(h, g)
  PROVE  OnLive(h, g)
BY DEF SameLabels, OnLive

\* The block allocated is x.
LEMMA PutLabels ==
  ASSUME NEW K, Heap(mem, K), NEW x, Labelled(x)
  PROVE  /\ AllLabelled(Put(x)) /\ AllLabelled(mem)
         /\ \A i \in DOMAIN Put(x) : Put(x)[i] = x \/ (i \in DOMAIN mem /\ Put(x)[i] = mem[i])
<1>1. /\ DOMAIN mem = 1 .. Len(mem) /\ Len(mem) \in Nat
      /\ mem \in [1 .. Len(mem) -> Blocks(Len(mem), K)]
  BY HeapHolds, HeapBlocks
<1>2. AllLabelled(mem)
  BY ONLY <1>1, BlockLabelled DEF AllLabelled
<1>3. \A i \in DOMAIN Put(x) : Put(x)[i] = x \/ (i \in DOMAIN mem /\ Put(x)[i] = mem[i])
  <2>1. CASE released
    BY <1>1, <2>1 DEF Put
  <2>2. CASE ~released
    <3>1. Put(x) = Append(mem, x)
      BY <2>2 DEF Put
    <3>2. mem \in Seq(Blocks(Len(mem), K) \cup {x})
      <4>1. mem \in [1 .. Len(mem) -> Blocks(Len(mem), K) \cup {x}]
        BY ONLY <1>1
      <4>2. QED
        BY ONLY <1>1, <4>1, FunctionIsSeq
    <3>3. /\ DOMAIN Append(mem, x) = 1 .. Len(mem) + 1 /\ Append(mem, x)[Len(mem) + 1] = x
          /\ \A i \in 1 .. Len(mem) : Append(mem, x)[i] = mem[i]
      BY ONLY <1>1, <3>2
    <3>4. QED
      BY ONLY <1>1, <3>1, <3>3
  <2>3. QED
    BY <2>1, <2>2
<1>4. AllLabelled(Put(x))
  BY <1>2, <1>3 DEF AllLabelled
<1>5. QED
  BY <1>2, <1>3, <1>4

\* A new inode is for a live key if its mnode was unmarked when it was made.
LEMMA PutOnLive ==
  ASSUME NEW K, Heap(mem, K), NEW x, Labelled(x), NEW g, SameLabels(Put(x), g),
         x.kind = "inode" => ~mem[x.intermed].marked
  PROVE  OnLive(mem, g)
<1> SUFFICES ASSUME NEW i \in DOMAIN g, i \notin DOMAIN mem \/ mem[i].kind # "inode",
                    g[i].kind = "inode"
             PROVE  ~mem[g[i].intermed].marked
  BY DEF OnLive
<1>1. /\ i \in DOMAIN Put(x) /\ Put(x)[i].kind = "inode"
      /\ g[i].intermed = Put(x)[i].intermed
  BY DEF SameLabels
<1>2. Put(x)[i] = x
  BY <1>1, PutLabels
<1>3. QED
  BY ONLY <1>1, <1>2, x.kind = "inode" => ~mem[x.intermed].marked

\* A store of an inode, and of two fields.
LEMMA StoreOnLive ==
  ASSUME NEW K, Heap(mem, K), NEW m, ~mem[m].marked, NEW a, NEW b, NEW k,
         NEW c, NEW d, NEW v, NEW w,
         mem' = [Put(Inode(a, b, m, k)) EXCEPT ![c].right = v, ![d].level = w]
  PROVE  OnLive(mem, mem')
<1>1. PICK x : x = Inode(a, b, m, k)
  OBVIOUS
<1>2. Labelled(x) /\ x.intermed = m
  BY ONLY <1>1 DEF Labelled, Inode
<1>3. PICK g, e : g = [Put(x) EXCEPT ![c].right = v] /\ e = [g EXCEPT ![d].level = w]
  OBVIOUS
<1>4. AllLabelled(Put(x))
  BY <1>2, PutLabels
<1>5. SameLabels(Put(x), g)
  BY ONLY <1>3, <1>4, FieldStore
<1>6. AllLabelled(g)
  BY ONLY <1>5 DEF SameLabels, AllLabelled
<1>7. SameLabels(g, e)
  BY ONLY <1>3, <1>6, FieldStore
<1>8. SameLabels(Put(x), e)
  BY ONLY <1>5, <1>7, SameTwice
<1>9. mem' = e
  BY <1>1, <1>3
<1>10. OnLive(mem, e)
  BY <1>2, <1>8, PutOnLive
<1>11. QED
  BY ONLY <1>9, <1>10

\* The sentinel inodes of a new top row are for the sentinel node, which nobody deletes.
LEMMA TopOnLive ==
  ASSUME NEW K, Heap(mem, K), ~mem[First].marked, NewTop
  PROVE  OnLive(mem, mem')
<1>1. PICK x : x = Inode(NULL, sentinel, First, 0)
  OBVIOUS
<1>2. Labelled(x) /\ x.intermed = First
  BY ONLY <1>1 DEF Labelled, Inode
<1>3. mem' = [Put(x) EXCEPT ![First].level = @ + 1]
  BY <1>1 DEF NewTop
<1>4. PICK v : v = Put(x)[First].level + 1
  OBVIOUS
<1>5. PICK e : e = [Put(x) EXCEPT ![First].level = v]
  OBVIOUS
<1>6. mem' = e
  BY ONLY <1>3, <1>4, <1>5
<1>7. AllLabelled(Put(x))
  BY <1>2, PutLabels
<1>8. SameLabels(Put(x), e)
  BY ONLY <1>5, <1>7, FieldStore
<1>9. OnLive(mem, e)
  BY <1>2, <1>8, PutOnLive
<1>10. QED
  BY ONLY <1>6, <1>9

\* update_intermediate_layer makes no inode.
LEMMA ApplyOnLive ==
  ASSUME NEW K, Heap(mem, K), NEW k, NEW insert, NEW own, Apply(k, insert, own)
  PROVE  OnLive(mem, mem')
<1>1. PICK m : m = Descend(k)
  OBVIOUS
<1>2. PICK x : x = Mnode(mem[m].next, k)
  OBVIOUS
<1>3. Labelled(x) /\ x.kind = "mnode"
  BY ONLY <1>2 DEF Labelled, Mnode
<1>4. AllLabelled(mem) /\ AllLabelled(Put(x))
  BY <1>3, PutLabels
<1>5. CASE insert /\ mem[m].key # k
  <2>1. mem' = [Put(x) EXCEPT ![m].next = Fresh]
    BY <1>1, <1>2, <1>5 DEF Apply
  <2>2. SameLabels(Put(x), mem')
    BY ONLY <1>4, <2>1, FieldStore
  <2>3. QED
    BY <1>3, <2>2, PutOnLive
<1>6. CASE ~(insert /\ mem[m].key # k)
  <2>1. mem' = mem \/ mem' = [mem EXCEPT ![m].marked = MarkFor(m, insert)]
    BY <1>1, <1>6 DEF Apply
  <2>2. SameLabels(mem, mem')
    <3>1. CASE mem' = mem
      BY ONLY <1>4, <3>1 DEF SameLabels, AllLabelled
    <3>2. CASE mem' = [mem EXCEPT ![m].marked = MarkFor(m, insert)]
      BY ONLY <1>4, <3>2, FieldStore
    <3>3. QED
      BY <2>1, <3>1, <3>2
  <2>3. QED
    BY <2>2, SameOnLive
<1>7. QED
  BY <1>5, <1>6

\* No step makes an inode for a key marked as deleted.
LEMMA StepOnLive ==
  ASSUME IInv, [Next]_vars
  PROVE  OnLive(mem, mem')
<1>1. PICK C, rank, I, heads : Sound(C, rank, I, heads)
  BY DEF IInv
<1>2. /\ Heap(mem, Keys) /\ Chained(mem, C) /\ ~mem[First].marked /\ Stage(C, rank, I, heads)
      /\ pc \notin {"cut", "ifree"}
  BY <1>1 DEF IInv, Types, HelperType, MemoryType, Sound, Structure, Chained
<1>3. AllLabelled(mem)
  <2>1. Labelled(Zeroed)
    BY DEF Labelled, Zeroed
  <2>2. QED
    BY ONLY <1>2, <2>1, PutLabels
<1>4. SameLabels(mem, mem)
  BY ONLY <1>3 DEF SameLabels, AllLabelled
<1>5. CASE mem' = mem
  <2>1. OnLive(mem, mem)
    BY ONLY <1>4, SameOnLive
  <2>2. QED
    BY ONLY <1>5, <2>1
<1>6. CASE \E k \in Keys, insert, own \in BOOLEAN : Apply(k, insert, own)
  BY ONLY <1>2, <1>6, ApplyOnLive
<1>7. CASE Unlink
  <2>1. PICK b, v : mem' = [mem EXCEPT ![b].next = v]
    BY <1>7 DEF Unlink
  <2>2. SameLabels(mem, mem')
    BY ONLY <1>3, <2>1, FieldStore
  <2>3. QED
    BY ONLY <2>2, SameOnLive
<1>8. CASE FreeMnode
  <2>1. mem' = mem \/ mem' = [mem EXCEPT ![last] = Zeroed]
    BY ONLY <1>8 DEF FreeMnode, NFree
  <2>2. CASE mem' = [mem EXCEPT ![last] = Zeroed]
    BY ONLY <2>2 DEF OnLive, Zeroed
  <2>3. QED
    BY <2>1, <2>2, <1>5
<1>9. CASE RaiseMnode
  <2>1. PICK chain : chain = Chain
    OBVIOUS
  <2>2. PICK j \in 2 .. Len(chain) - 1 :
          /\ Raisable(chain, j)
          /\ LET m == chain[j]
                 p == Before(Row(Column[1]), mem[m].key)
             IN  mem' = [Put(Inode(mem[p].right, NULL, m, mem[m].key)) EXCEPT
                           ![p].right = Fresh, ![m].level = 1]
    BY <1>9, <2>1 DEF RaiseMnode
  <2>3. PICK m, p :
          /\ m = chain[j]
          /\ mem' = [Put(Inode(mem[p].right, NULL, m, mem[m].key)) EXCEPT
                           ![p].right = Fresh, ![m].level = 1]
    BY ONLY <2>2
  <2>4. m \in C
    <3>1. chain \in Seq(C)
      BY ONLY <1>2, <2>1, ChainIs
    <3>2. j \in 2 .. Len(chain) - 1 /\ Len(chain) \in Nat
      BY <3>1
    <3>3. j \in 1 .. Len(chain)
      BY ONLY <3>2
    <3>4. QED
      BY ONLY <2>3, <3>1, <3>3
  <2>5. mem[m].level = 0
    BY ONLY <2>2, <2>3 DEF Raisable, Level
  <2>6. pc = "mraise"
    BY ONLY <1>9 DEF RaiseMnode
  <2>7. ~mem[m].marked
    BY ONLY <1>2, <2>4, <2>5, <2>6 DEF Stage
  <2>8. QED
    BY ONLY <1>2, <2>3, <2>7, StoreOnLive
<1>10. CASE RaiseInode
  <2>1. PICK m, p :
          /\ m = mem[Index].intermed
          /\ mem' = [Put(Inode(mem[p].right, Index, m, mem[m].key)) EXCEPT
                           ![p].right = Fresh, ![m].level = row + 1]
    BY ONLY <1>10 DEF RaiseInode
  <2>2. ~mem[m].marked
    BY ONLY <1>10, <2>1 DEF RaiseInode, Deleted
  <2>3. QED
    BY ONLY <1>2, <2>1, <2>2, StoreOnLive
<1>11. CASE SkipDeleted
  <2>1. mem' = [mem EXCEPT ![at].right = Inext]
    BY ONLY <1>11 DEF SkipDeleted
  <2>2. SameLabels(mem, mem')
    BY ONLY <1>3, <2>1, FieldStore
  <2>3. QED
    BY ONLY <2>2, SameOnLive
<1>12. CASE NewTop
  BY ONLY <1>2, <1>12, TopOnLive
<1>13. CASE ResetIndex
  <2>1. PICK f : f = Len(mem) + 1
    OBVIOUS
  <2>2. Flattened(Keys, mem, mem', C, f) /\ f \in Nat
    <3>1. Flattened(Keys, mem, mem', C, Len(mem) + 1)
      BY ONLY <1>2, <1>13, ResetFlattens
    <3>2. Len(mem) \in Nat
      BY ONLY <1>2, HeapHolds
    <3>3. QED
      BY ONLY <2>1, <3>1, <3>2
  <2>3. /\ \A b \in DOMAIN mem : mem'[b].kind = mem[b].kind
        /\ mem'[f].intermed = First /\ \A b \in DOMAIN mem' : b \in DOMAIN mem \/ b = f
    <3>1. /\ Len(mem) \in Nat /\ DOMAIN mem = 1 .. Len(mem)
          /\ \A c \in C : c \in 1 .. Len(mem) /\ mem[c] \in MnodeOf(Len(mem), Keys)
      BY ONLY <1>2, HeapHolds DEF Chained
    <3>2. /\ f = Len(mem) + 1 /\ DOMAIN mem' = 1 .. f
          /\ mem'[f] = Inode(NULL, NULL, First, 0)
          /\ \A b \in 1 .. Len(mem) : b \notin C => mem'[b] = mem[b]
          /\ \A c \in C : mem'[c] = [mem[c] EXCEPT !.level = IF c = First THEN 1 ELSE 0]
      BY ONLY <2>2 DEF Flattened
    <3>3. \A c \in C : mem'[c].kind = mem[c].kind
      BY ONLY <3>1, <3>2 DEF MnodeOf
    <3>4. QED
      BY ONLY <3>1, <3>2, <3>3 DEF Inode
  <2>4. QED
    BY ONLY <1>2, <2>3 DEF OnLive
<1>14. QED
  <2>1. CASE Helper
    <3>1. ~CutDown /\ ~FreeInode
      BY ONLY <1>2 DEF CutDown, FreeInode
    <3>2. EndMraise => NewTop \/ mem' = mem
      BY ONLY DEF EndMraise
    <3>3. EndRow => NewTop \/ mem' = mem
      BY ONLY DEF EndRow
    <3>4. StartRound \/ EndRemoval \/ PassInode \/ EndRound => mem' = mem
      BY ONLY DEF StartRound, EndRemoval, PassInode, EndRound
    <3>5. QED
      BY ONLY <2>1, <3>1, <3>2, <3>3, <3>4, <1>5, <1>6, <1>7, <1>8, <1>9, <1>10, <1>11, <1>12,
              <1>13 DEF Helper
  <2>2. Search => mem' = mem
    BY ONLY DEF Search, StartSearch, SearchStep, SearchRight, SearchDown, SearchWalk, SearchLost
  <2>3. UNCHANGED vars => mem' = mem
    BY ONLY DEF vars
  <2>4. QED
    BY ONLY [Next]_vars, <2>1, <2>2, <2>3, <1>5 DEF Next

-----------------------------------------------------------------------------
(* Theorems of the specification.                                          *)

\* The index has not been lowered: the operations of the program never have it
\* lowered (LoweredNever), those of other clients may, and then an inode may stand on
\* one that was given back.  What []Unlowered implies for a behaviour holds of every
\* other one up to its first lowering.
Unlowered == Alternating \/ pc # "cut"

\* The inductive invariant holds as long as the index is not lowered.
THEOREM InvariantKept == Spec /\ []Unlowered => []IInv
<1>1. Init => IInv
  BY InitIInv
<1>2. IInv /\ [Next]_vars /\ Unlowered' => IInv'
  <2> SUFFICES ASSUME IInv, [Next]_vars, Unlowered' PROVE IInv'
    OBVIOUS
  <2>1. Alternating' = Alternating
    BY DEF Next, vars, Alternating
  <2>2. Alternating \/ pc' # "cut"
    BY <2>1 DEF Unlowered
  <2>3. QED
    BY <2>2, StepIInv
<1>3. QED
  BY <1>1, <1>2, PTL DEF Spec

\* The cursors of the helper and of the search stay in the memory, which only grows.
THEOREM TypesKept == Spec /\ []Unlowered => []TypeOK
<1>1. IInv => TypeOK
  BY ImpliesTypes
<1>2. QED
  BY <1>1, InvariantKept, PTL

\* update_intermediate_layer, bg_mremove: the chain holds every key once, in order, and
\* its unmarked keys are those that the operations taken from the array leave.
THEOREM JobsMirrored == Spec /\ []Unlowered => []ChainMirrorsJobs
<1>1. IInv => ChainMirrorsJobs
  BY ImpliesMirror
<1>2. QED
  BY <1>1, InvariantKept, PTL

\* bg_raise_mlevel, bg_raise_ilevel, reset_index: the level of the first mnode counts the
\* rows, so that the loops of update_index_layer over inodes[] stay in bounds.
THEOREM RowsCounted == Spec /\ []Unlowered => []LevelCountsRows
<1>1. IInv => LevelCountsRows
  BY ImpliesRows
<1>2. QED
  BY <1>1, InvariantKept, PTL

\* Every inode stands on an mnode that bg_mremove will not take, and on an inode of its
\* own key in the row below, whatever was raised, skipped or reset before.
THEOREM TowersStand == Spec /\ []Unlowered => []TowersAnchored
<1>1. IInv => TowersAnchored
  BY ImpliesTowers
<1>2. QED
  BY <1>1, InvariantKept, PTL

\* sl_traverse_index: a search during which no block was given back returns a node not
\* beyond its key and at least as near as every mnode that was there all the time,
\* whatever the helper thread raises, skips, adds and unlinks under it.
THEOREM EntryNear == Spec /\ []Unlowered => []EntryIsNear
<1>1. IInv => EntryIsNear
  BY ImpliesNear
<1>2. QED
  BY <1>1, InvariantKept, PTL

\* "don't raise deleted nodes": bg_raise_mlevel and bg_raise_ilevel give a row no inode for a
\* key that is marked as deleted at that moment.
THEOREM LiveRaised == Spec /\ []Unlowered => RaisesOnlyLive
<1>1. IInv /\ [Next]_vars =>
        [\A i \in DOMAIN mem' :
           (i \notin DOMAIN mem \/ mem[i] # mem'[i]) /\ mem'[i].kind = "inode"
             /\ (i \notin DOMAIN mem \/ mem[i].kind # "inode")
           => ~mem[mem'[i].intermed].marked]_vars
  BY StepOnLive DEF OnLive
<1>2. QED
  BY <1>1, InvariantKept, PTL DEF Spec, RaisesOnlyLive

\* With the operations of the program, the invariant holds always.
THEOREM ProgramKept == Spec => [](Alternating => IInv)
<1>1. Init => (Alternating => IInv)
  BY InitIInv
<1>2. (Alternating => IInv) /\ [Next]_vars => (Alternating => IInv)'
  <2>1. [Next]_vars => Alternating' = Alternating
    BY DEF Next, vars, Alternating
  <2>2. QED
    BY <2>1, StepIInv
<1>3. QED
  BY <1>1, <1>2, PTL DEF Spec

\* With the operations of application_loop, for any keys, operations and rounds: no round
\* counts more deleted mnodes with a level than undeleted ones in all rounds together,
\* and bg_lower_ilevel is never called.
THEOREM LoweredNever == Spec => []NeverLowers
<1>1. (Alternating => IInv) => NeverLowers
  BY ImpliesCount DEF NeverLowers
<1>2. QED
  BY <1>1, ProgramKept, PTL

\* mnode_delete: the contents of the block given back never pass for those of a block
\* in use, as far as the allocator compares them.
THEOREM OwnBlockFreed == Spec /\ []Unlowered => [](pc # "corrupt")
<1>1. IInv => pc # "corrupt"
  BY DEF IInv, Types, HelperType
<1>2. QED
  BY <1>1, InvariantKept, PTL

\* With the operations of application_loop, for any keys, operations and rounds, all of
\* this holds always: the chain mirrors the operations, the rows are counted, the towers
\* stand on the chain, and a search ends near its key.
THEOREM ProgramSound ==
  Spec => [](Alternating => ChainMirrorsJobs /\ LevelCountsRows /\ TowersAnchored /\ EntryIsNear)
<1>1. (Alternating => IInv) =>
        (Alternating => ChainMirrorsJobs /\ LevelCountsRows /\ TowersAnchored /\ EntryIsNear)
  BY ImpliesMirror, ImpliesRows, ImpliesTowers, ImpliesNear
<1>2. QED
  BY <1>1, ProgramKept, PTL

=============================================================================
