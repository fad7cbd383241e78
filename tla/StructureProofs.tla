-------------------------- MODULE StructureProofs --------------------------
(***************************************************************************)
(* What is proved of the TTL heap, and what the proofs on data structures  *)
(* whose code walks along paths rest on.                                   *)
(*                                                                         *)
(* The walks are recursive functions.  That such a function exists, and    *)
(* what it returns, is proved by induction; the induction itself is        *)
(* derived below from the well-foundedness of strict inclusion of finite   *)
(* sets, as a statement about sets of numbers.                             *)
(***************************************************************************)
EXTENDS TtlHeap, FiniteSetTheorems, WellFoundedInduction, TLAPS

-----------------------------------------------------------------------------
(* Induction, functions defined by recursion, and sequences *)

\* A set of natural numbers that is not empty has a least element.
LEMMA LeastNat ==
  ASSUME NEW T \in SUBSET Nat, T # {}
  PROVE  \E n \in T : \A m \in T : n <= m
<1> DEFINE F == {0..i : i \in T}
<1>1. F \subseteq FiniteSubsetsOf(Nat) /\ F # {}
  <2>1. \A i \in Nat : IsFiniteSet(0..i)
    BY FS_Interval
  <2>2. PICK n \in T : TRUE
    OBVIOUS
  <2>. QED
    BY <2>1, <2>2 DEF FiniteSubsetsOf
<1>2. IsWellFoundedOn(StrictSubsetOrdering(Nat), FiniteSubsetsOf(Nat))
  BY FS_StrictSubsetOrderingWellFounded
<1>3. \E x \in F : \A y \in F : ~(<<y, x>> \in StrictSubsetOrdering(Nat))
  BY <1>1, <1>2, WFMin
<1>4. PICK i \in T : \A y \in F : ~(<<y, 0..i>> \in StrictSubsetOrdering(Nat))
  BY <1>3
<1>5. ASSUME NEW j \in T, j < i PROVE FALSE
  <2>1. 0..j \in SUBSET Nat /\ 0..i \in SUBSET Nat /\ 0..j \in F
    OBVIOUS
  <2>2. i \notin 0..j /\ i \in 0..i
    BY <1>5
  <2>3. (0..j) \subseteq (0..i) /\ 0..j # 0..i
    BY <1>5, <2>2
  <2>. QED
    BY <1>4, <2>1, <2>3 DEF StrictSubsetOrdering
<1>. QED
  BY <1>5

\* Strong induction: a set that contains n as soon as it contains every
\* smaller number contains all natural numbers.
LEMMA Induct ==
  ASSUME NEW T, \A n \in Nat : (\A m \in 0..(n - 1) : m \in T) => n \in T
  PROVE  \A n \in Nat : n \in T
<1> DEFINE U == {n \in Nat : n \notin T}
<1>1. SUFFICES ASSUME U # {} PROVE FALSE
  OBVIOUS
<1>2. PICK n \in U : \A m \in U : n <= m
  BY <1>1, LeastNat
<1>3. \A m \in 0..(n - 1) : m \in T
  BY <1>2
<1>. QED
  BY <1>3


\* h is what the recursive definition h[x] == IF x \in go THEN G(x, h[nx[x]])
\* ELSE base[x] asks for.
Solves(h, D, V, go, nx, base, G) ==
  /\ h \in [D -> V]
  /\ h = [x \in D |-> IF x \in go THEN G[<<x, h[nx[x]]>>] ELSE base[x]]

\* The measure m, at most N, gets smaller from call to call.
Descends(D, V, go, nx, base, G, m, N) ==
  /\ N \in Nat /\ m \in [D -> 0..N] /\ go \in SUBSET D
  /\ base \in [D -> V] /\ G \in [D \X V -> V]
  /\ \A x \in go : nx[x] \in D /\ m[nx[x]] < m[x]

\* A recursive definition whose calls get smaller has a solution, so that
\* CHOOSE finds one.
LEMMA Recursion ==
  ASSUME NEW D, NEW V, NEW N, NEW m, NEW go, NEW nx, NEW base, NEW G,
         Descends(D, V, go, nx, base, G, m, N)
  PROVE  \E h : Solves(h, D, V, go, nx, base, G)
<1> DEFINE Upto(n) == {x \in D : m[x] <= n}
           Sol(h, S) == \A x \in S : h[x] = IF x \in go THEN G[<<x, h[nx[x]]>>] ELSE base[x]
           T == {n \in Nat : \E h \in [Upto(n) -> V] : Sol(h, Upto(n))}
<1> USE DEF Descends
<1>1. ASSUME NEW n \in Nat, \A i \in 0..(n - 1) : i \in T PROVE n \in T
  <2>1. PICK g : \A x \in Upto(n - 1) : g[x] \in V /\ (g[x] = IF x \in go THEN G[<<x, g[nx[x]]>>] ELSE base[x])
    <3>1. CASE n = 0
      <4>1. \A x \in Upto(n - 1) : FALSE
        BY <3>1
      <4>. WITNESS base
      <4>. QED
        BY <4>1
    <3>2. CASE n # 0
      <4>1. n - 1 \in 0..(n - 1)
        BY <3>2
      <4>2. n - 1 \in T
        BY <1>1, <4>1
      <4>. QED
        BY <4>2
    <3>. QED
      BY <3>1, <3>2
  <2> DEFINE h == [x \in Upto(n) |-> IF x \in go THEN G[<<x, g[nx[x]]>>] ELSE base[x]]
  <2>2. ASSUME NEW x \in Upto(n), x \in go PROVE nx[x] \in Upto(n - 1) /\ nx[x] \in Upto(n)
    BY <2>2
  <2>3. \A x \in Upto(n) : h[x] \in V
    BY <2>1, <2>2
  <2>4. \A x \in Upto(n - 1) : x \in Upto(n) /\ h[x] = g[x]
    BY <2>1
  <2>5. Sol(h, Upto(n))
    BY <2>2, <2>4
  <2>. QED
    BY <2>3, <2>5
<1>2. N \in T
  <2> HIDE DEF T
  <2>. QED
    BY <1>1, Induct
<1>3. Upto(N) = D
  OBVIOUS
<1>4. PICK h \in [D -> V] : Sol(h, D)
  BY <1>2, <1>3
<1>5. Solves(h, D, V, go, nx, base, G)
  BY <1>4 DEF Solves
<1>. QED
  BY <1>5

\* The elements of a sequence with one more in front.
LEMMA ConsElements ==
  ASSUME NEW S, NEW p \in S, NEW s \in Seq(S)
  PROVE  /\ <<p>> \o s \in Seq(S)
         /\ Len(<<p>> \o s) = Len(s) + 1
         /\ (<<p>> \o s)[1] = p
         /\ \A i \in 2..(Len(s) + 1) : (<<p>> \o s)[i] = s[i - 1]
  OBVIOUS

\* s with e at place k, and s without its k-th element
With(s, k, e) == SubSeq(s, 1, k - 1) \o <<e>> \o SubSeq(s, k, Len(s))

Without(s, k) == SubSeq(s, 1, k - 1) \o SubSeq(s, k + 1, Len(s))

\* With puts e at place k and moves the later elements by a place.
AddsAt(s, k, e, S) ==
  /\ With(s, k, e) \in Seq(S) /\ Len(With(s, k, e)) = Len(s) + 1
  /\ \A i \in 1..(Len(s) + 1) :
       With(s, k, e)[i] = IF i < k THEN s[i] ELSE IF i = k THEN e ELSE s[i - 1]

\* Without closes the gap that the k-th element leaves.
TakesAt(s, k, S) ==
  /\ Without(s, k) \in Seq(S) /\ Len(Without(s, k)) = Len(s) - 1
  /\ \A i \in 1..(Len(s) - 1) : Without(s, k)[i] = IF i < k THEN s[i] ELSE s[i + 1]

\* The elements of a sequence with one more at place k.
LEMMA WithElements ==
  ASSUME NEW S, NEW s \in Seq(S), NEW e \in S, NEW k \in 1..(Len(s) + 1)
  PROVE  AddsAt(s, k, e, S)
<1> DEFINE x == SubSeq(s, 1, k - 1)
           y == SubSeq(s, k, Len(s))
           w == x \o <<e>>
<1>1. Len(s) \in Nat /\ k \in Int
  OBVIOUS
<1>2. x \in Seq(S) /\ Len(x) = k - 1 /\ \A i \in 1..(k - 1) : x[i] = s[i]
  BY <1>1
<1>3. y \in Seq(S) /\ Len(y) = Len(s) - k + 1 /\ \A i \in 1..(Len(s) - k + 1) : y[i] = s[k + i - 1]
  BY <1>1
<1> HIDE DEF x, y
<1>4. w \in Seq(S) /\ Len(w) = k /\ w[k] = e /\ \A i \in 1..(k - 1) : w[i] = s[i]
  BY <1>1, <1>2
<1>5. With(s, k, e) = w \o y
  BY DEF With, x, y
<1> HIDE DEF w
<1>6. w \o y \in Seq(S) /\ Len(w \o y) = Len(s) + 1
  <2>1. w \in Seq(S) /\ y \in Seq(S)
    BY <1>3, <1>4
  <2>2. w \o y \in Seq(S) /\ Len(w \o y) = Len(w) + Len(y)
    BY <2>1
  <2>3. k + (Len(s) - k + 1) = Len(s) + 1
    BY <1>1
  <2>. QED
    BY <1>3, <1>4, <2>2, <2>3
<1>7. ASSUME NEW i \in 1..(Len(s) + 1)
      PROVE  (w \o y)[i] = IF i < k THEN s[i] ELSE IF i = k THEN e ELSE s[i - 1]
  <2>1. CASE i <= k
    <3>1. (w \o y)[i] = w[i]
      BY <1>1, <1>3, <1>4, <2>1
    <3>. QED
      BY <1>1, <1>4, <2>1, <3>1
  <2>2. CASE i > k
    <3>1. (w \o y)[i] = y[i - k]
      BY <1>1, <1>3, <1>4, <2>2
    <3>2. i - k \in 1..(Len(s) - k + 1) /\ k + (i - k) - 1 = i - 1
      BY <1>1, <2>2
    <3>3. y[i - k] = s[i - 1]
      BY <1>3, <3>2
    <3>. QED
      BY <1>1, <2>2, <3>1, <3>3
  <2>3. i <= k \/ i > k
    BY <1>1
  <2>. QED
    BY <2>1, <2>2, <2>3
<1>. QED
  BY <1>5, <1>6, <1>7 DEF AddsAt

\* The elements of a sequence without its k-th.
LEMMA WithoutElements ==
  ASSUME NEW S, NEW s \in Seq(S), NEW k \in 1..Len(s)
  PROVE  TakesAt(s, k, S)
<1> DEFINE x == SubSeq(s, 1, k - 1)
           y == SubSeq(s, k + 1, Len(s))
<1>1. Len(s) \in Nat /\ k \in Int
  OBVIOUS
<1>2. x \in Seq(S) /\ Len(x) = k - 1 /\ \A i \in 1..(k - 1) : x[i] = s[i]
  BY <1>1
<1>3. y \in Seq(S) /\ Len(y) = Len(s) - k /\ \A i \in 1..(Len(s) - k) : y[i] = s[k + i]
  BY <1>1
<1>4. Without(s, k) = x \o y
  BY DEF Without
<1> HIDE DEF x, y
<1>5. x \o y \in Seq(S) /\ Len(x \o y) = Len(s) - 1
  <2>1. x \in Seq(S) /\ y \in Seq(S)
    BY <1>2, <1>3
  <2>2. x \o y \in Seq(S) /\ Len(x \o y) = Len(x) + Len(y)
    BY <2>1
  <2>3. (k - 1) + (Len(s) - k) = Len(s) - 1
    BY <1>1
  <2>. QED
    BY <1>2, <1>3, <2>2, <2>3
<1>6. ASSUME NEW i \in 1..(Len(s) - 1) PROVE (x \o y)[i] = IF i < k THEN s[i] ELSE s[i + 1]
  <2>1. CASE i < k
    <3>1. (x \o y)[i] = x[i]
      BY <1>1, <1>2, <1>3, <2>1
    <3>. QED
      BY <1>1, <1>2, <2>1, <3>1
  <2>2. CASE i >= k
    <3>1. (x \o y)[i] = y[i - (k - 1)]
      BY <1>1, <1>2, <1>3, <2>2
    <3>2. i - (k - 1) \in 1..(Len(s) - k) /\ k + (i - (k - 1)) = i + 1
      BY <1>1, <2>2
    <3>3. y[i - (k - 1)] = s[i + 1]
      BY <1>3, <3>2
    <3>. QED
      BY <1>1, <2>2, <3>1, <3>3
  <2>3. i < k \/ i >= k
    BY <1>1
  <2>. QED
    BY <2>1, <2>2, <2>3
<1>. QED
  BY <1>4, <1>5, <1>6 DEF TakesAt

\* A set of positions that has every position before one of its own ends
\* somewhere.
LEMMA SplitPlace ==
  ASSUME NEW n \in Nat, NEW B, \A i, j \in 1..n : i < j /\ j \in B => i \in B
  PROVE  \E p \in 1..(n + 1) : \A i \in 1..n : i \in B <=> i < p
<1> DEFINE T == {i \in 1..(n + 1) : i \notin B \/ i = n + 1}
<1>1. T \in SUBSET Nat /\ n + 1 \in T
  OBVIOUS
<1>2. PICK p \in T : \A m \in T : p <= m
  BY <1>1, LeastNat
<1>3. p \in 1..(n + 1)
  OBVIOUS
<1>4. ASSUME NEW i \in 1..n PROVE i \in B <=> i < p
  <2>1. CASE i < p
    <3>1. i \notin T
      BY <1>2, <1>3, <2>1
    <3>. QED
      BY <2>1, <3>1
  <2>2. CASE ~(i < p)
    <3>1. p \in 1..n /\ p \notin B /\ (p < i \/ p = i)
      BY <1>3, <2>2
    <3>. QED
      BY <2>2, <3>1
  <2>. QED
    BY <2>1, <2>2
<1>. QED
  BY <1>3, <1>4

\* s has the members of S in the order P
Listing(s, P, S) ==
  /\ s \in Seq(S)
  /\ \A x, y \in 1..Len(s) : x < y => <<s[x], s[y]>> \in P
  /\ \A n \in S : \E x \in 1..Len(s) : s[x] = n

\* Two listings of a set agree in every place of the first.
LEMMA ListingPrefix ==
  ASSUME NEW s, NEW t, NEW P, NEW S, Listing(s, P, S), Listing(t, P, S),
         \A m, n \in S : ~(<<m, n>> \in P /\ <<n, m>> \in P)
  PROVE  \A k \in 1..Len(s) : k \in 1..Len(t) /\ s[k] = t[k]
<1> DEFINE T == {k \in Nat : k \in 1..Len(s) => k \in 1..Len(t) /\ s[k] = t[k]}
<1>1. /\ s \in Seq(S) /\ t \in Seq(S) /\ Len(s) \in Nat /\ Len(t) \in Nat
      /\ \A x, y \in 1..Len(s) : x < y => <<s[x], s[y]>> \in P
      /\ \A x, y \in 1..Len(t) : x < y => <<t[x], t[y]>> \in P
      /\ \A n \in S : \E x \in 1..Len(s) : s[x] = n
      /\ \A n \in S : \E x \in 1..Len(t) : t[x] = n
  BY DEF Listing
<1>2. ASSUME NEW k \in Nat, \A j \in 0..(k - 1) : j \in T PROVE k \in T
  <2>1. SUFFICES ASSUME k \in 1..Len(s) PROVE k \in 1..Len(t) /\ s[k] = t[k]
    OBVIOUS
  <2>2. \A j \in 1..(k - 1) : j \in 1..Len(t) /\ s[j] = t[j]
    <3>1. ASSUME NEW j \in 1..(k - 1) PROVE j \in 1..Len(t) /\ s[j] = t[j]
      <4>1. j \in 1..Len(s) /\ j \in 0..(k - 1)
        BY <1>1, <2>1
      <4>2. j \in T
        BY <1>2, <4>1
      <4>. QED
        BY <4>1, <4>2
    <3>. QED
      BY <3>1
  <2> HIDE DEF T
  <2>3. s[k] \in S /\ \A n \in S : <<n, n>> \notin P
    <3>1. \A n \in S : <<n, n>> \notin P
      OBVIOUS
    <3>2. s[k] \in S
      BY <1>1, <2>1
    <3>. QED
      BY <3>1, <3>2
  <2>4. PICK x \in 1..Len(t) : t[x] = s[k]
    BY <1>1, <2>3
  <2>5. x >= k
    <3>1. ASSUME x < k PROVE FALSE
      <4>1. x \in 1..(k - 1) /\ x \in 1..Len(s)
        BY <1>1, <2>1, <3>1
      <4>2. s[x] = s[k] /\ <<s[x], s[k]>> \in P
        BY <1>1, <2>1, <2>2, <2>4, <3>1, <4>1
      <4>. QED
        BY <2>3, <4>2
    <3>. QED
      BY <1>1, <2>1, <3>1
  <2>6. k \in 1..Len(t) /\ t[k] \in S
    <3>1. k \in 1..Len(t)
      BY <1>1, <2>1, <2>5
    <3>. QED
      BY <1>1, <3>1
  <2>7. PICK y \in 1..Len(s) : s[y] = t[k]
    BY <1>1, <2>6
  <2>8. y >= k
    <3>1. ASSUME y < k PROVE FALSE
      <4>1. y \in 1..(k - 1)
        BY <1>1, <2>1, <3>1
      <4>2. t[y] = t[k] /\ y \in 1..Len(t) /\ <<t[y], t[k]>> \in P
        BY <1>1, <2>2, <2>6, <2>7, <3>1, <4>1
      <4>. QED
        BY <2>3, <2>6, <4>2
    <3>. QED
      BY <1>1, <2>1, <3>1
  <2>9. ASSUME s[k] # t[k] PROVE FALSE
    <3>1. k < x /\ k < y
      <4>1. k # x /\ k # y
        BY <2>4, <2>7, <2>9
      <4>. QED
        BY <2>5, <2>8, <4>1
    <3>2. <<t[k], t[x]>> \in P /\ <<s[k], s[y]>> \in P
      BY <1>1, <2>1, <2>6, <3>1
    <3>. QED
      BY <2>3, <2>4, <2>6, <2>7, <3>2
  <2>. QED
    BY <2>6, <2>9
<1>3. \A k \in Nat : k \in T
  <2> HIDE DEF T
  <2>. QED
    BY <1>2, Induct
<1>. QED
  BY <1>1, <1>3

\* Two listings of a set are the same sequence.
LEMMA ListingUnique ==
  ASSUME NEW s, NEW t, NEW P, NEW S, Listing(s, P, S), Listing(t, P, S),
         \A m, n \in S : ~(<<m, n>> \in P /\ <<n, m>> \in P)
  PROVE  s = t
<1>1. s \in Seq(S) /\ t \in Seq(S) /\ Len(s) \in Nat /\ Len(t) \in Nat
  BY DEF Listing
<1>2. \A k \in 1..Len(s) : k \in 1..Len(t) /\ s[k] = t[k]
  BY ListingPrefix
<1>3. \A k \in 1..Len(t) : k \in 1..Len(s) /\ s[k] = t[k]
  BY ListingPrefix
<1>4. Len(s) = Len(t)
  <2>1. Len(s) # 0 => Len(s) <= Len(t)
    BY <1>1, <1>2
  <2>2. Len(t) # 0 => Len(t) <= Len(s)
    BY <1>1, <1>3
  <2>. QED
    BY <1>1, <2>1, <2>2
<1>. QED
  BY <1>1, <1>2, <1>4

\* Putting an element in its place of a listing lists the larger set.
LEMMA ListingWith ==
  ASSUME NEW s, NEW P, NEW S, Listing(s, P, S), NEW e, NEW Q, NEW k \in 1..(Len(s) + 1),
         \A m, n \in S : <<m, n>> \in P => <<m, n>> \in Q,
         \A i \in 1..Len(s) : IF i < k THEN <<s[i], e>> \in Q ELSE <<e, s[i]>> \in Q
  PROVE  Listing(With(s, k, e), Q, S \cup {e})
<1> DEFINE t == With(s, k, e)
           N == Len(s)
<1>1. s \in Seq(S) /\ s \in Seq(S \cup {e}) /\ N \in Nat
  <2>1. s \in Seq(S)
    BY DEF Listing
  <2>. QED
    BY <2>1
<1>2. /\ t \in Seq(S \cup {e}) /\ Len(t) = N + 1
      /\ \A i \in 1..(N + 1) : t[i] = IF i < k THEN s[i] ELSE IF i = k THEN e ELSE s[i - 1]
  <2>1. PICK R : R = S \cup {e}
    OBVIOUS
  <2>2. s \in Seq(R) /\ e \in R
    BY <1>1, <2>1
  <2> HIDE DEF t, N
  <2>3. /\ With(s, k, e) \in Seq(R) /\ Len(With(s, k, e)) = Len(s) + 1
        /\ \A i \in 1..(Len(s) + 1) :
              With(s, k, e)[i] = IF i < k THEN s[i] ELSE IF i = k THEN e ELSE s[i - 1]
    BY <2>2, WithElements DEF AddsAt
  <2>. QED
    BY <2>1, <2>3 DEF t, N
<1>3. \A x, y \in 1..N : x < y => <<s[x], s[y]>> \in Q
  <2>1. \A x \in 1..N : s[x] \in S
    BY <1>1
  <2>. QED
    BY <2>1 DEF Listing
<1> HIDE DEF t, N
<1>4. ASSUME NEW x \in 1..(N + 1), NEW y \in 1..(N + 1), x < y PROVE <<t[x], t[y]>> \in Q
  <2>1. k \in 1..(N + 1) /\ \A i \in 1..N : IF i < k THEN <<s[i], e>> \in Q ELSE <<e, s[i]>> \in Q
    BY DEF N
  <2>2. CASE y < k
    <3>1. x \in 1..N /\ y \in 1..N /\ t[x] = s[x] /\ t[y] = s[y]
      BY <1>1, <1>2, <1>4, <2>1, <2>2
    <3>. QED
      BY <1>3, <1>4, <3>1
  <2>3. CASE y = k
    <3>1. x \in 1..N /\ x < k /\ t[x] = s[x] /\ t[y] = e
      BY <1>1, <1>2, <1>4, <2>1, <2>3
    <3>. QED
      BY <2>1, <3>1
  <2>4. CASE x < k /\ y > k
    <3>1. x \in 1..N /\ y - 1 \in 1..N /\ x < y - 1 /\ t[x] = s[x] /\ t[y] = s[y - 1]
      BY <1>1, <1>2, <1>4, <2>1, <2>4
    <3>. QED
      BY <1>3, <3>1
  <2>5. CASE x = k
    <3>1. y - 1 \in 1..N /\ ~(y - 1 < k) /\ t[x] = e /\ t[y] = s[y - 1]
      BY <1>1, <1>2, <1>4, <2>1, <2>5
    <3>. QED
      BY <2>1, <3>1
  <2>6. CASE x > k
    <3>1. x - 1 \in 1..N /\ y - 1 \in 1..N /\ x - 1 < y - 1 /\ t[x] = s[x - 1] /\ t[y] = s[y - 1]
      BY <1>1, <1>2, <1>4, <2>1, <2>6
    <3>. QED
      BY <1>3, <3>1
  <2>. QED
    BY <1>4, <2>1, <2>2, <2>3, <2>4, <2>5, <2>6
<1>5. ASSUME NEW m \in S \cup {e} PROVE \E x \in 1..(N + 1) : t[x] = m
  <2>1. k \in 1..(N + 1)
    BY DEF N
  <2>2. CASE m = e
    BY <1>2, <2>1, <2>2
  <2>3. CASE m \in S
    <3>1. PICK i \in 1..N : s[i] = m
      BY <2>3 DEF Listing, N
    <3>2. CASE i < k
      BY <1>1, <1>2, <3>1, <3>2
    <3>3. CASE ~(i < k)
      <4>1. i + 1 \in 1..(N + 1) /\ ~(i + 1 < k) /\ i + 1 # k /\ (i + 1) - 1 = i
        BY <1>1, <2>1, <3>3
      <4>2. t[i + 1] = s[i]
        BY <1>2, <4>1
      <4>. QED
        BY <3>1, <4>1, <4>2
    <3>. QED
      BY <3>2, <3>3
  <2>. QED
    BY <2>2, <2>3
<1>6. Listing(t, Q, S \cup {e})
  BY <1>2, <1>4, <1>5 DEF Listing
<1>. QED
  BY <1>6 DEF t

\* Taking an element out of a listing lists the smaller set.
LEMMA ListingWithout ==
  ASSUME NEW s, NEW P, NEW S, Listing(s, P, S), NEW k \in 1..Len(s),
         \A m \in S : <<m, m>> \notin P
  PROVE  Listing(Without(s, k), P, S \ {s[k]})
<1> DEFINE t == Without(s, k)
           N == Len(s)
<1>1. /\ s \in Seq(S) /\ N \in Nat /\ k \in 1..N
      /\ \A x, y \in 1..N : x < y => <<s[x], s[y]>> \in P
      /\ \A m \in S : \E x \in 1..N : s[x] = m
  BY DEF Listing
<1>2. /\ t \in Seq(S) /\ Len(t) = N - 1
      /\ \A i \in 1..(N - 1) : t[i] = IF i < k THEN s[i] ELSE s[i + 1]
  <2> HIDE DEF t, N
  <2>. s \in Seq(S)
    BY <1>1
  <2>1. /\ Without(s, k) \in Seq(S) /\ Len(Without(s, k)) = Len(s) - 1
        /\ \A i \in 1..(Len(s) - 1) : Without(s, k)[i] = IF i < k THEN s[i] ELSE s[i + 1]
    BY WithoutElements DEF TakesAt
  <2>. QED
    BY <2>1 DEF t, N
<1> HIDE DEF t, N
<1>3. \A x \in 1..N : x # k => s[x] # s[k]
  <2>1. ASSUME NEW x \in 1..N, x # k, s[x] = s[k] PROVE FALSE
    <3>1. s[x] \in S /\ (x < k \/ k < x)
      BY <1>1, <2>1
    <3>2. <<s[x], s[x]>> \in P
      BY <1>1, <2>1, <3>1
    <3>. QED
      BY <3>1, <3>2
  <2>. QED
    BY <2>1
<1>4. ASSUME NEW i \in 1..(N - 1) PROVE t[i] \in S \ {s[k]}
  <2>1. CASE i < k
    <3>1. i \in 1..N /\ i # k
      BY <1>1, <2>1
    <3>2. s[i] \in S
      BY <1>1, <3>1 DEF N
    <3>3. t[i] = s[i]
      BY <1>2, <2>1
    <3>. QED
      BY <1>3, <3>1, <3>2, <3>3
  <2>2. CASE ~(i < k)
    <3>1. i + 1 \in 1..N /\ i + 1 # k /\ t[i] = s[i + 1]
      <4>1. t[i] = s[i + 1]
        BY <1>2, <2>2
      <4>2. k \in Int /\ i \in Int /\ N \in Int /\ i <= N - 1 /\ i >= 1
        BY <1>1
      <4>3. i + 1 \in 1..N /\ i + 1 # k
        BY <2>2, <4>2
      <4>. QED
        BY <4>1, <4>3
    <3>2. s[i + 1] \in S
      BY <1>1, <3>1 DEF N
    <3>3. s[i + 1] # s[k]
      BY <1>3, <3>1
    <3>. QED
      BY <3>1, <3>2, <3>3
  <2>. QED
    BY <2>1, <2>2
<1>5. t \in Seq(S \ {s[k]})
  <2>1. t = [i \in 1..Len(t) |-> t[i]] /\ Len(t) \in Nat
    BY <1>1, <1>2
  <2>. QED
    BY <1>2, <1>4, <2>1
<1>6. ASSUME NEW x \in 1..(N - 1), NEW y \in 1..(N - 1), x < y PROVE <<t[x], t[y]>> \in P
  <2>1. CASE y < k
    <3>1. x \in 1..N /\ y \in 1..N /\ x < k
      BY <1>1, <1>6, <2>1
    <3>2. t[x] = s[x] /\ t[y] = s[y]
      BY <1>2, <2>1, <3>1
    <3>. QED
      BY <1>1, <1>6, <3>1, <3>2
  <2>2. CASE x < k /\ ~(y < k)
    <3>1. x \in 1..N /\ y + 1 \in 1..N /\ x < y + 1
      BY <1>1, <1>6, <2>2
    <3>2. t[x] = s[x] /\ t[y] = s[y + 1]
      BY <1>2, <2>2
    <3>. QED
      BY <1>1, <3>1, <3>2
  <2>3. CASE ~(x < k)
    <3>1. x + 1 \in 1..N /\ y + 1 \in 1..N /\ x + 1 < y + 1 /\ ~(y < k)
      BY <1>1, <1>6, <2>3
    <3>2. t[x] = s[x + 1] /\ t[y] = s[y + 1]
      BY <1>2, <2>3, <3>1
    <3>. QED
      BY <1>1, <3>1, <3>2
  <2>. QED
    BY <2>1, <2>2, <2>3
<1>7. ASSUME NEW m \in S \ {s[k]} PROVE \E x \in 1..(N - 1) : t[x] = m
  <2>1. PICK i \in 1..N : s[i] = m
    BY <1>1
  <2>2. CASE i < k
    <3>1. i \in 1..(N - 1) /\ t[i] = m
      BY <1>1, <1>2, <2>1, <2>2
    <3>. QED
      BY <3>1
  <2>3. CASE ~(i < k)
    <3>1. i # k
      BY <2>1
    <3>2. i - 1 \in 1..(N - 1) /\ ~(i - 1 < k) /\ (i - 1) + 1 = i
      BY <1>1, <2>3, <3>1
    <3>3. t[i - 1] = m
      BY <1>2, <2>1, <3>2
    <3>. QED
      BY <3>2, <3>3
  <2>. QED
    BY <2>2, <2>3
<1>8. Listing(t, P, S \ {s[k]})
  BY <1>2, <1>5, <1>6, <1>7 DEF Listing
<1>. QED
  BY <1>8 DEF t, N

-----------------------------------------------------------------------------
(* The TTL heap.  heap_up and heap_down are described by the path they take *)
(* (Climbs, Sifts); moving the items of such a path restores the order if   *)
(* only the item at its start was out of place (HeapBut), and writing the   *)
(* positions of the moved items restores heap_idx (RefsBut, Follows).       *)

\* HeapItem
Item == [val : Int, ref : Entries]

\* Parent and kids of a position are inverse, and parents come first.
LEMMA Parents ==
  /\ \A i \in Nat \ {0} : /\ heap_parent(i) \in 0..(i - 1)
                          /\ i = heap_left(heap_parent(i)) \/ i = heap_right(heap_parent(i))
  /\ \A p \in Nat : /\ heap_left(p) \in Nat /\ heap_right(p) \in Nat
                    /\ p < heap_left(p) /\ p < heap_right(p)
                    /\ heap_parent(heap_left(p)) = p /\ heap_parent(heap_right(p)) = p
  BY DEF heap_parent, heap_left, heap_right

\* s is the way heap_up takes from p for an item with value t
Climbs(b, t, p, s) ==
  /\ s \in Seq(Nat) /\ Len(s) >= 1 /\ s[1] = p
  /\ \A i \in 1..Len(s) : \A j \in 1..Len(s) : i < j => s[j] < s[i]
  /\ \A i \in 1..(Len(s) - 1) :
        s[i] > 0 /\ s[i + 1] = heap_parent(s[i]) /\ b[s[i + 1]].val > t
  /\ s[Len(s)] > 0 => ~(b[heap_parent(s[Len(s)])].val > t)

\* heap_up from p is one step and then heap_up from the parent of p.
LEMMA ClimbOn ==
  ASSUME NEW b, NEW t, NEW p \in Nat \ {0}, b[heap_parent(p)].val > t,
         NEW s, Climbs(b, t, heap_parent(p), s)
  PROVE  Climbs(b, t, p, <<p>> \o s)
<1>1. heap_parent(p) \in 0..(p - 1)
  BY Parents
<1>2. PICK q \in 0..(p - 1) : q = heap_parent(p)
  BY <1>1
<1>3. s \in Seq(Nat) /\ Len(s) \in Nat /\ Len(s) >= 1 /\ s[1] = q
  BY <1>2 DEF Climbs
<1>4. PICK r : r = <<p>> \o s
  OBVIOUS
<1>5. r \in Seq(Nat) /\ Len(r) = Len(s) + 1 /\ r[1] = p /\ \A i \in 2..(Len(s) + 1) : r[i] = s[i - 1]
  BY <1>3, <1>4, ConsElements
<1>6. \A i \in 1..Len(s) : s[i] \in 0..q
  <2>1. \A i \in 1..Len(s) : s[i] \in Nat
    BY <1>3
  <2>2. \A j \in 1..Len(s) : 1 < j => s[j] < s[1]
    BY <1>3 DEF Climbs
  <2>. QED
    BY <1>3, <2>1, <2>2
<1>7. ASSUME NEW i \in 1..Len(r), NEW j \in 1..Len(r), i < j PROVE r[j] < r[i]
  <2>1. j \in 2..(Len(s) + 1) /\ j - 1 \in 1..Len(s)
    BY <1>3, <1>5, <1>7
  <2>2. CASE i = 1
    <3>1. r[j] = s[j - 1] /\ s[j - 1] \in 0..q
      BY <1>5, <1>6, <2>1
    <3>. QED
      BY <1>5, <2>2, <3>1
  <2>3. CASE i # 1
    <3>1. i \in 2..(Len(s) + 1) /\ i - 1 \in 1..Len(s) /\ i - 1 < j - 1
      BY <1>3, <1>5, <1>7, <2>1, <2>3
    <3>2. s[j - 1] < s[i - 1]
      BY <2>1, <3>1 DEF Climbs
    <3>. QED
      BY <1>5, <2>1, <3>1, <3>2
  <2>. QED
    BY <2>2, <2>3
<1>8. ASSUME NEW i \in 1..(Len(r) - 1)
      PROVE  r[i] > 0 /\ r[i + 1] = heap_parent(r[i]) /\ b[r[i + 1]].val > t
  <2>1. CASE i = 1
    <3>1. r[2] = s[1]
      BY <1>3, <1>5
    <3>. QED
      BY <1>2, <1>3, <1>5, <2>1, <3>1
  <2>2. CASE i # 1
    <3>1. i - 1 \in 1..(Len(s) - 1) /\ i \in 2..(Len(s) + 1) /\ i + 1 \in 2..(Len(s) + 1)
      BY <1>3, <1>5, <1>8, <2>2
    <3>2. r[i] = s[i - 1] /\ r[i + 1] = s[(i + 1) - 1]
      BY <1>5, <3>1
    <3>3. (i + 1) - 1 = (i - 1) + 1
      OBVIOUS
    <3>. QED
      BY <3>1, <3>2, <3>3 DEF Climbs
  <2>. QED
    BY <2>1, <2>2
<1>9. r[Len(r)] = s[Len(s)]
  <2>1. Len(r) \in 2..(Len(s) + 1) /\ Len(r) - 1 = Len(s)
    BY <1>3, <1>5
  <2>. QED
    BY <1>5, <2>1
<1>10. r[Len(r)] > 0 => ~(b[heap_parent(r[Len(r)])].val > t)
  BY <1>9 DEF Climbs
<1>11. Len(r) >= 1
  BY <1>3, <1>5
<1>12. Climbs(b, t, p, r)
  BY <1>5, <1>7, <1>8, <1>10, <1>11 DEF Climbs
<1>. QED
  BY <1>4, <1>12

\* UpPath is the path of heap_up: it ends at the root or below an item that
\* is not later.
LEMMA UpPathClimbs ==
  ASSUME NEW b, NEW pos \in Nat
  PROVE  Climbs(b, b[pos].val, pos, UpPath(b, pos))
<1> DEFINE D == 0..pos
           t == b[pos].val
           up == {p \in D : p > 0 /\ b[heap_parent(p)].val > t}
           m == [p \in D |-> p]
           nx == [p \in D |-> heap_parent(p)]
           base == [p \in D |-> <<p>>]
           G == [x \in D \X Seq(D) |-> <<x[1]>> \o x[2]]
           Eqn(h) == h = [p \in D |-> IF p > 0 /\ b[heap_parent(p)].val > b[pos].val
                                      THEN <<p>> \o h[heap_parent(p)] ELSE <<p>>]
           climb == CHOOSE h : Eqn(h)
<1>1. \E h : Eqn(h)
  <2>1. m \in [D -> 0..pos] /\ up \in SUBSET D /\ base \in [D -> Seq(D)] /\ pos \in Nat
    OBVIOUS
  <2>2. G \in [D \X Seq(D) -> Seq(D)]
    <3>1. ASSUME NEW x \in D \X Seq(D) PROVE <<x[1]>> \o x[2] \in Seq(D)
      <4>1. x[1] \in D /\ x[2] \in Seq(D)
        OBVIOUS
      <4>. HIDE DEF D
      <4>. QED
        BY <4>1
    <3>. HIDE DEF D
    <3>. QED
      BY <3>1
  <2>3. ASSUME NEW x \in up PROVE nx[x] \in D /\ m[nx[x]] < m[x]
    <3>1. heap_parent(x) \in 0..(x - 1) /\ x \in 0..pos
      BY Parents
    <3>. QED
      BY <3>1
  <2>4. Descends(D, Seq(D), up, nx, base, G, m, pos)
    <3>. HIDE DEF D, up, m, nx, base, G
    <3>. QED
      BY <2>1, <2>2, <2>3 DEF Descends
  <2>5. PICK h : Solves(h, D, Seq(D), up, nx, base, G)
    <3>. HIDE DEF D, up, m, nx, base, G
    <3>. QED
      BY <2>4, Recursion
  <2>6. h \in [D -> Seq(D)] /\ h = [x \in D |-> IF x \in up THEN G[<<x, h[nx[x]]>>] ELSE base[x]]
    BY <2>5 DEF Solves
  <2>7. \A x \in up : G[<<x, h[nx[x]]>>] = <<x>> \o h[heap_parent(x)]
    BY <2>3, <2>6
  <2>8. h = [x \in D |-> IF x \in up THEN <<x>> \o h[heap_parent(x)] ELSE <<x>>]
    BY <2>6, <2>7
  <2>. QED
    BY <2>8
<1>2. Eqn(climb)
  BY <1>1
<1>3. \A p \in D : climb[p] = IF p \in up THEN <<p>> \o climb[heap_parent(p)] ELSE <<p>>
  BY <1>2
<1>4. climb[pos] = UpPath(b, pos)
  BY DEF UpPath
<1> HIDE DEF climb
<1> DEFINE T == {p \in Nat : p \in D => Climbs(b, t, p, climb[p])}
<1>5. ASSUME NEW p \in Nat, \A q \in 0..(p - 1) : q \in T PROVE p \in T
  <2>1. SUFFICES ASSUME p \in D PROVE Climbs(b, t, p, climb[p])
    OBVIOUS
  <2>2. CASE p \in up
    <3>1. p \in Nat \ {0} /\ heap_parent(p) \in 0..(p - 1) /\ heap_parent(p) \in D
      BY <2>2, Parents
    <3>2. Climbs(b, t, heap_parent(p), climb[heap_parent(p)])
      BY <1>5, <3>1
    <3>. QED
      BY <1>3, <2>2, <3>1, <3>2, ClimbOn
  <2>3. CASE p \notin up
    <3>1. climb[p] = <<p>>
      BY <1>3, <2>1, <2>3
    <3>. QED
      BY <2>1, <2>3, <3>1 DEF Climbs
  <2>. QED
    BY <2>2, <2>3
<1>6. pos \in T
  <2> HIDE DEF T
  <2>. QED
    BY <1>5, Induct
<1>. QED
  BY <1>4, <1>6

\* s is the way heap_down takes from p for an item with value t
Sifts(b, n, t, p, s) ==
  /\ s \in Seq(Nat) /\ Len(s) >= 1 /\ s[1] = p
  /\ \A i \in 1..Len(s) : s[i] < n
  /\ \A i \in 1..Len(s) : \A j \in 1..Len(s) : i < j => s[i] < s[j]
  /\ \A i \in 1..(Len(s) - 1) :
        /\ s[i] = heap_parent(s[i + 1]) /\ b[s[i + 1]].val < t
        /\ \A d \in {heap_left(s[i]), heap_right(s[i])} : d < n => b[s[i + 1]].val <= b[d].val
  /\ \A d \in {heap_left(s[Len(s)]), heap_right(s[Len(s)])} : d < n => b[d].val >= t

\* heap_down stops where no kid is earlier than the item.
LEMMA KidsStop ==
  ASSUME NEW n \in Nat, NEW b \in [0..(n - 1) -> Item], NEW t \in Int, NEW p \in 0..(n - 1),
         Kids(b, n, t, p) = {}, NEW d \in {heap_left(p), heap_right(p)}, d < n
  PROVE  b[d].val >= t
<1> DEFINE l == heap_left(p)
           r == heap_right(p)
<1>1. l \in Nat /\ r \in Nat /\ l # r
  BY DEF heap_left, heap_right
<1>2. \A x \in 0..(n - 1) : b[x].val \in Int
  BY DEF Item
<1>3. \A x \in {l, r} : x < n => x \in 0..(n - 1) /\ b[x].val \in Int
  BY <1>1, <1>2
<1> HIDE DEF l, r
<1>4. Kids(b, n, t, p) = {c \in {l, r} : /\ c < n /\ b[c].val < t
                             /\ \A x \in {l, r} : x < n /\ b[x].val < t /\ x # c =>
                                   b[c].val < b[x].val \/ (b[c].val = b[x].val /\ c < x)}
  BY DEF Kids, l, r
<1>5. d \in {l, r}
  BY DEF l, r
<1>6. SUFFICES ASSUME b[d].val < t PROVE FALSE
  BY <1>3, <1>5
<1>7. ASSUME NEW c \in {l, r}, c < n, b[c].val < t,
             \A x \in {l, r} : x < n /\ b[x].val < t /\ x # c =>
                 b[c].val < b[x].val \/ (b[c].val = b[x].val /\ c < x)
      PROVE  FALSE
  BY <1>4, <1>7
<1>8. ASSUME NEW o \in {l, r}, o # d PROVE FALSE
  <2>1. \A x \in {l, r} : x = d \/ x = o
    BY <1>5, <1>8
  <2>2. CASE o < n /\ b[o].val < t
    <3>1. b[o].val \in Int /\ b[d].val \in Int /\ o \in Nat /\ d \in Nat
      BY <1>1, <1>3, <1>5, <2>2
    <3>2. CASE b[o].val < b[d].val \/ (b[o].val = b[d].val /\ o < d)
      BY <1>7, <2>1, <2>2, <3>2
    <3>3. CASE b[d].val < b[o].val \/ (b[o].val = b[d].val /\ d < o)
      BY <1>5, <1>6, <1>7, <2>1, <3>3
    <3>. QED
      BY <1>8, <3>1, <3>2, <3>3
  <2>3. CASE ~(o < n /\ b[o].val < t)
    BY <1>5, <1>6, <1>7, <2>1, <2>3
  <2>. QED
    BY <2>2, <2>3
<1>. QED
  BY <1>1, <1>5, <1>8

\* heap_down moves to a kid that is earlier than the item and no later than
\* its sibling.
LEMMA KidsStep ==
  ASSUME NEW n \in Nat, NEW b \in [0..(n - 1) -> Item], NEW t \in Int, NEW p \in 0..(n - 1),
         NEW c \in Kids(b, n, t, p)
  PROVE  /\ c \in (p + 1)..(n - 1) /\ p = heap_parent(c) /\ b[c].val < t
         /\ \A d \in {heap_left(p), heap_right(p)} : d < n => b[c].val <= b[d].val
<1>1. c \in {heap_left(p), heap_right(p)} /\ c < n /\ b[c].val < t
  BY DEF Kids
<1>2. \A d \in {heap_left(p), heap_right(p)} : d \in Nat /\ p < d /\ heap_parent(d) = p
  <2>1. p \in Nat
    OBVIOUS
  <2>. QED
    BY <2>1, Parents
<1>3. \A x \in 0..(n - 1) : b[x].val \in Int
  BY DEF Item
<1>4. ASSUME NEW d \in {heap_left(p), heap_right(p)}, d < n PROVE b[c].val <= b[d].val
  <2>1. b[d].val \in Int /\ b[c].val \in Int
    BY <1>1, <1>2, <1>3, <1>4
  <2>2. CASE b[d].val < t /\ d # c
    BY <1>4, <2>1, <2>2 DEF Kids
  <2>3. CASE ~(b[d].val < t)
    BY <1>1, <2>1, <2>3
  <2>. QED
    BY <2>1, <2>2, <2>3
<1>. QED
  BY <1>1, <1>2, <1>4

\* heap_down from p is one step and then heap_down from that kid.
LEMMA SiftOn ==
  ASSUME NEW n \in Nat, NEW b \in [0..(n - 1) -> Item], NEW t \in Int, NEW p \in 0..(n - 1),
         NEW c \in Kids(b, n, t, p), NEW s, Sifts(b, n, t, c, s)
  PROVE  Sifts(b, n, t, p, <<p>> \o s)
<1>1. /\ c \in (p + 1)..(n - 1) /\ p = heap_parent(c) /\ b[c].val < t
      /\ \A d \in {heap_left(p), heap_right(p)} : d < n => b[c].val <= b[d].val
  BY KidsStep
<1>3. s \in Seq(Nat) /\ Len(s) \in Nat /\ Len(s) >= 1 /\ s[1] = c
  BY DEF Sifts
<1>4. PICK r : r = <<p>> \o s
  OBVIOUS
<1>5. r \in Seq(Nat) /\ Len(r) = Len(s) + 1 /\ r[1] = p /\ \A i \in 2..(Len(s) + 1) : r[i] = s[i - 1]
  BY <1>3, <1>4, ConsElements
<1>6. \A i \in 1..Len(s) : s[i] \in c..(n - 1)
  <2>1. \A i \in 1..Len(s) : s[i] \in Nat /\ s[i] < n
    BY <1>3 DEF Sifts
  <2>2. \A j \in 1..Len(s) : 1 < j => s[1] < s[j]
    BY <1>3 DEF Sifts
  <2>. QED
    BY <1>3, <2>1, <2>2
<1>7. ASSUME NEW i \in 1..Len(r), NEW j \in 1..Len(r), i < j PROVE r[i] < r[j]
  <2>1. j \in 2..(Len(s) + 1) /\ j - 1 \in 1..Len(s)
    BY <1>3, <1>5, <1>7
  <2>2. CASE i = 1
    <3>1. r[j] = s[j - 1] /\ s[j - 1] \in c..(n - 1)
      BY <1>5, <1>6, <2>1
    <3>. QED
      BY <1>1, <1>5, <2>2, <3>1
  <2>3. CASE i # 1
    <3>1. i \in 2..(Len(s) + 1) /\ i - 1 \in 1..Len(s) /\ i - 1 < j - 1
      BY <1>3, <1>5, <1>7, <2>1, <2>3
    <3>2. s[i - 1] < s[j - 1]
      BY <2>1, <3>1 DEF Sifts
    <3>. QED
      BY <1>5, <2>1, <3>1, <3>2
  <2>. QED
    BY <2>2, <2>3
<1>8. ASSUME NEW i \in 1..(Len(r) - 1)
      PROVE  /\ r[i] = heap_parent(r[i + 1]) /\ b[r[i + 1]].val < t
             /\ \A d \in {heap_left(r[i]), heap_right(r[i])} : d < n => b[r[i + 1]].val <= b[d].val
  <2>1. CASE i = 1
    <3>1. r[i] = p /\ r[i + 1] = s[1]
      BY <1>3, <1>5, <2>1
    <3>2. r[i + 1] = c
      BY <1>3, <3>1
    <3>. QED
      BY <1>1, <3>1, <3>2
  <2>2. CASE i # 1
    <3>1. i - 1 \in 1..(Len(s) - 1) /\ i \in 2..(Len(s) + 1) /\ i + 1 \in 2..(Len(s) + 1)
      BY <1>3, <1>5, <1>8, <2>2
    <3>2. r[i] = s[i - 1] /\ r[i + 1] = s[(i + 1) - 1]
      BY <1>5, <3>1
    <3>3. (i + 1) - 1 = (i - 1) + 1
      OBVIOUS
    <3>. QED
      BY <3>1, <3>2, <3>3 DEF Sifts
  <2>. QED
    BY <2>1, <2>2
<1>9. r[Len(r)] = s[Len(s)]
  <2>1. Len(r) \in 2..(Len(s) + 1) /\ Len(r) - 1 = Len(s)
    BY <1>3, <1>5
  <2>. QED
    BY <1>5, <2>1
<1>10. \A d \in {heap_left(r[Len(r)]), heap_right(r[Len(r)])} : d < n => b[d].val >= t
  BY <1>9 DEF Sifts
<1>11. Len(r) >= 1
  BY <1>3, <1>5
<1>12. ASSUME NEW i \in 1..Len(r) PROVE r[i] < n
  <2>1. CASE i = 1
    BY <1>5, <2>1
  <2>2. CASE i # 1
    <3>1. i \in 2..(Len(s) + 1) /\ i - 1 \in 1..Len(s)
      BY <1>3, <1>5, <2>2
    <3>2. s[i - 1] \in c..(n - 1)
      BY <1>6, <3>1
    <3>. QED
      BY <1>5, <3>1, <3>2
  <2>. QED
    BY <2>1, <2>2
<1>13. Sifts(b, n, t, p, r)
  BY <1>5, <1>7, <1>8, <1>10, <1>11, <1>12 DEF Sifts
<1>. QED
  BY <1>4, <1>13

\* DownPath is the path of heap_down.
LEMMA DownPathSifts ==
  ASSUME NEW n \in Nat, NEW b \in [0..(n - 1) -> Item], NEW pos \in 0..(n - 1)
  PROVE  Sifts(b, n, b[pos].val, pos, DownPath(b, n, pos))
<1> DEFINE D == pos..(n - 1)
           t == b[pos].val
           K(p) == Kids(b, n, t, p)
           go == {p \in D : K(p) # {}}
           m == [p \in D |-> n - 1 - p]
           nx == [p \in D |-> CHOOSE c \in K(p) : TRUE]
           base == [p \in D |-> <<p>>]
           G == [x \in D \X Seq(D) |-> <<x[1]>> \o x[2]]
           Eqn(h) == h = [p \in pos..(n - 1) |->
                             IF Kids(b, n, b[pos].val, p) = {} THEN <<p>>
                             ELSE <<p>> \o h[CHOOSE c \in Kids(b, n, b[pos].val, p) : TRUE]]
           sift == CHOOSE h : Eqn(h)
<1>0. t \in Int
  BY DEF Item
<1> HIDE DEF t
<1>a. ASSUME NEW p \in go PROVE nx[p] \in K(p) /\ nx[p] \in (p + 1)..(n - 1) /\ nx[p] \in D
  <2>1. PICK c : c = CHOOSE d \in K(p) : TRUE
    OBVIOUS
  <2>2. c \in K(p)
    BY <2>1
  <2>3. c \in (p + 1)..(n - 1)
    BY <1>0, <2>2, KidsStep
  <2>. QED
    BY <2>1, <2>2, <2>3
<1>1. \E h : Eqn(h)
  <2>1. m \in [D -> 0..n] /\ go \in SUBSET D /\ base \in [D -> Seq(D)] /\ n \in Nat
    OBVIOUS
  <2>2. G \in [D \X Seq(D) -> Seq(D)]
    <3>1. ASSUME NEW x \in D \X Seq(D) PROVE <<x[1]>> \o x[2] \in Seq(D)
      <4>1. x[1] \in D /\ x[2] \in Seq(D)
        OBVIOUS
      <4>. HIDE DEF D
      <4>. QED
        BY <4>1
    <3>. HIDE DEF D
    <3>. QED
      BY <3>1
  <2>3. ASSUME NEW x \in go PROVE nx[x] \in D /\ m[nx[x]] < m[x]
    <3>1. PICK c : c = nx[x]
      OBVIOUS
    <3>2. c \in (x + 1)..(n - 1) /\ c \in D
      BY <1>a, <3>1
    <3>3. x \in D
      OBVIOUS
    <3>4. m[c] < m[x]
      BY <3>2, <3>3
    <3>. QED
      BY <3>1, <3>2, <3>4
  <2>4. Descends(D, Seq(D), go, nx, base, G, m, n)
    <3>. HIDE DEF D, go, m, nx, base, G
    <3>. QED
      BY <2>1, <2>2, <2>3 DEF Descends
  <2>5. PICK h : Solves(h, D, Seq(D), go, nx, base, G)
    <3>. HIDE DEF D, go, m, nx, base, G
    <3>. QED
      BY <2>4, Recursion
  <2>6. h \in [D -> Seq(D)] /\ h = [x \in D |-> IF x \in go THEN G[<<x, h[nx[x]]>>] ELSE base[x]]
    BY <2>5 DEF Solves
  <2>7. \A x \in go : G[<<x, h[nx[x]]>>] = <<x>> \o h[nx[x]]
    <3>. HIDE DEF nx
    <3>. QED
    BY <2>3, <2>6
  <2>8. h = [x \in D |-> IF x \in go THEN <<x>> \o h[nx[x]] ELSE <<x>>]
    <3>1. \A x \in D : base[x] = <<x>>
      OBVIOUS
    <3>. HIDE DEF nx, go, D, G, base
    <3>. QED
    BY <2>6, <2>7, <3>1
  <2>9. \A x \in D : (IF x \in go THEN <<x>> \o h[nx[x]] ELSE <<x>>)
                     = IF K(x) = {} THEN <<x>> ELSE <<x>> \o h[CHOOSE c \in K(x) : TRUE]
    OBVIOUS
  <2>10. h = [x \in D |-> IF K(x) = {} THEN <<x>> ELSE <<x>> \o h[CHOOSE c \in K(x) : TRUE]]
    <3>. HIDE DEF nx, go, D, K
    <3>. QED
      BY <2>8, <2>9
  <2>. QED
    BY <2>10 DEF t
<1>2. Eqn(sift)
  BY <1>1
<1>3. \A p \in D : sift[p] = IF p \in go THEN <<p>> \o sift[nx[p]] ELSE <<p>>
  BY <1>2 DEF t
<1>4. sift[pos] = DownPath(b, n, pos)
  BY DEF DownPath
<1> HIDE DEF sift
<1> DEFINE T == {k \in Nat : \A p \in D : k = n - 1 - p => Sifts(b, n, t, p, sift[p])}
<1>5. ASSUME NEW k \in Nat, \A q \in 0..(k - 1) : q \in T PROVE k \in T
  <2>1. SUFFICES ASSUME NEW p \in D, k = n - 1 - p PROVE Sifts(b, n, t, p, sift[p])
    OBVIOUS
  <2>2. CASE p \in go
    <3>1. PICK c : c = nx[p]
      OBVIOUS
    <3>2. c \in K(p) /\ c \in (p + 1)..(n - 1) /\ c \in D
      BY <1>a, <2>2, <3>1
    <3>3. n - 1 - c \in 0..(k - 1)
      BY <2>1, <3>2
    <3>4. Sifts(b, n, t, c, sift[c])
      BY <1>5, <3>2, <3>3
    <3>5. sift[p] = <<p>> \o sift[c]
      BY <1>3, <2>2, <3>1
    <3>6. Sifts(b, n, t, p, <<p>> \o sift[c])
      BY <1>0, <3>2, <3>4, SiftOn
    <3>. QED
      BY <3>5, <3>6
  <2>3. CASE p \notin go
    <3>1. sift[p] = <<p>>
      BY <1>3, <2>1, <2>3
    <3>2. ASSUME NEW d \in {heap_left(p), heap_right(p)}, d < n PROVE b[d].val >= t
      <4>1. p \in 0..(n - 1) /\ Kids(b, n, t, p) = {}
        BY <2>1, <2>3
      <4>. HIDE DEF D, go, nx, K
      <4>. QED
        BY <1>0, <3>2, <4>1, KidsStop
    <3>. QED
      BY <2>1, <3>1, <3>2 DEF Sifts
  <2>. QED
    BY <2>2, <2>3
<1>6. n - 1 - pos \in T
  <2> HIDE DEF T
  <2>. QED
    BY <1>5, Induct
<1>. QED
  BY <1>4, <1>6 DEF t

\* s is a way through the heap that starts at pos and visits no position twice
Route(n, pos, s) ==
  /\ s \in Seq(Nat) /\ Len(s) >= 1 /\ s[1] = pos
  /\ \A i \in 1..Len(s) : s[i] < n
  /\ \A i \in 1..Len(s) : \A j \in 1..Len(s) : i # j => s[i] # s[j]

\* c is b with the items on s moved by one place
Moved(b, n, s, c) ==
  /\ c \in [0..(n - 1) -> Item]
  /\ \A k \in 1..(Len(s) - 1) : c[s[k]] = b[s[k + 1]]
  /\ c[s[Len(s)]] = b[s[1]]
  /\ \A i \in 0..(n - 1) : (\A k \in 1..Len(s) : s[k] # i) => c[i] = b[i]

\* What Rotate does to the positions on and off the path.
LEMMA RotateMoves ==
  ASSUME NEW n \in Nat, NEW b \in [0..(n - 1) -> Item], NEW pos, NEW s, Route(n, pos, s)
  PROVE  Moved(b, n, s, Rotate(b, s))
<1> DEFINE c == Rotate(b, s)
           at(p) == CHOOSE j \in DOMAIN s : s[j] = p
<1>1. s \in Seq(Nat) /\ Len(s) \in Nat /\ Len(s) >= 1 /\ DOMAIN s = 1..Len(s)
  BY DEF Route
<1>2. \A i \in 1..Len(s) : s[i] \in 0..(n - 1)
  <2>1. \A i \in 1..Len(s) : s[i] \in Nat /\ s[i] < n
    BY <1>1 DEF Route
  <2>. QED
    BY <2>1
<1>3. ASSUME NEW k \in 1..Len(s) PROVE c[s[k]] = b[s[IF k < Len(s) THEN k + 1 ELSE 1]]
  <2>1. \E i \in DOMAIN s : s[i] = s[k]
    BY <1>1
  <2>2. at(s[k]) \in DOMAIN s /\ s[at(s[k])] = s[k]
    BY <2>1
  <2>3. at(s[k]) = k
    <3>1. PICK j : j = at(s[k])
      OBVIOUS
    <3>2. j \in 1..Len(s) /\ s[j] = s[k]
      BY <1>1, <2>2, <3>1
    <3>3. j = k
      BY <3>2 DEF Route
    <3>. QED
      BY <3>1, <3>3
  <2>4. c[s[k]] = LET i == at(s[k]) IN b[s[IF i < Len(s) THEN i + 1 ELSE 1]]
    BY <1>2, <2>1 DEF Rotate
  <2>. QED
    BY <2>3, <2>4
<1>4. ASSUME NEW i \in 0..(n - 1), \A k \in 1..Len(s) : s[k] # i PROVE c[i] = b[i]
  BY <1>1, <1>4 DEF Rotate
<1>5. ASSUME NEW i \in 0..(n - 1) PROVE c[i] \in Item
  <2>1. CASE \A k \in 1..Len(s) : s[k] # i
    BY <1>4, <2>1
  <2>2. CASE \E k \in 1..Len(s) : s[k] = i
    <3>1. PICK k \in 1..Len(s) : s[k] = i
      BY <2>2
    <3>2. PICK j : j = IF k < Len(s) THEN k + 1 ELSE 1
      OBVIOUS
    <3>3. j \in 1..Len(s)
      BY <1>1, <3>2
    <3>4. c[i] = b[s[j]]
      BY <1>3, <3>1, <3>2
    <3>. QED
      BY <1>2, <3>3, <3>4
  <2>. QED
    BY <2>1, <2>2
<1>6. c \in [0..(n - 1) -> Item]
  <2>1. DOMAIN c = 0..(n - 1) /\ c = [i \in 0..(n - 1) |-> c[i]]
    BY DEF Rotate
  <2>. HIDE DEF c
  <2>. QED
    BY <1>5, <2>1
<1> HIDE DEF c
<1>7. ASSUME NEW k \in 1..(Len(s) - 1) PROVE c[s[k]] = b[s[k + 1]]
  <2>1. k \in 1..Len(s) /\ k < Len(s)
    BY <1>1
  <2>. QED
    BY <1>3, <2>1
<1>8. c[s[Len(s)]] = b[s[1]]
  BY <1>1, <1>3
<1>9. Moved(b, n, s, c)
  BY <1>4, <1>6, <1>7, <1>8 DEF Moved
<1>. QED
  BY <1>9 DEF c

\* the heap order, but for the item at pos
HeapBut(b, n, pos) ==
  /\ \A i \in 1..(n - 1) : i # pos /\ heap_parent(i) # pos => b[heap_parent(i)].val <= b[i].val
  /\ \A i \in 1..(n - 1) : heap_parent(i) = pos /\ pos > 0 => b[heap_parent(pos)].val <= b[i].val

\* No item of b is earlier than its parent.
Ordered(b, n) == \A i \in 1..(n - 1) : b[heap_parent(i)].val <= b[i].val

\* The path of heap_up visits no position twice.
LEMMA ClimbRoute ==
  ASSUME NEW n \in Nat, NEW b, NEW t, NEW pos \in 0..(n - 1), NEW s, Climbs(b, t, pos, s)
  PROVE  Route(n, pos, s)
<1>1. s \in Seq(Nat) /\ Len(s) \in Nat /\ Len(s) >= 1 /\ s[1] = pos
  BY DEF Climbs
<1>2. \A i \in 1..Len(s) : s[i] \in Nat
  BY <1>1
<1>3. \A i \in 1..Len(s) : \A j \in 1..Len(s) : i < j => s[j] < s[i]
  BY DEF Climbs
<1>4. ASSUME NEW i \in 1..Len(s) PROVE s[i] < n
  BY <1>1, <1>2, <1>3
<1>5. ASSUME NEW i \in 1..Len(s), NEW j \in 1..Len(s), i # j PROVE s[i] # s[j]
  <2>1. i < j \/ j < i
    BY <1>5
  <2>. QED
    BY <1>2, <1>3, <2>1
<1>. QED
  BY <1>1, <1>4, <1>5 DEF Route

\* The path of heap_down visits no position twice.
LEMMA SiftRoute ==
  ASSUME NEW n \in Nat, NEW b, NEW t, NEW pos \in 0..(n - 1), NEW s, Sifts(b, n, t, pos, s)
  PROVE  Route(n, pos, s)
<1>1. s \in Seq(Nat) /\ Len(s) \in Nat /\ Len(s) >= 1 /\ s[1] = pos
  BY DEF Sifts
<1>2. \A i \in 1..Len(s) : s[i] \in Nat
  BY <1>1
<1>3. \A i \in 1..Len(s) : \A j \in 1..Len(s) : i < j => s[i] < s[j]
  BY DEF Sifts
<1>4. ASSUME NEW i \in 1..Len(s) PROVE s[i] < n
  BY DEF Sifts
<1>5. ASSUME NEW i \in 1..Len(s), NEW j \in 1..Len(s), i # j PROVE s[i] # s[j]
  <2>1. i < j \/ j < i
    BY <1>5
  <2>. QED
    BY <1>2, <1>3, <2>1
<1>. QED
  BY <1>1, <1>4, <1>5 DEF Route

\* heap_up restores the order when the item at pos is earlier than its
\* parent and every other item is in order.
LEMMA ClimbOrders ==
  ASSUME NEW n \in Nat, NEW b \in [0..(n - 1) -> Item], NEW pos \in 1..(n - 1), HeapBut(b, n, pos),
         b[heap_parent(pos)].val > b[pos].val,
         NEW s, Climbs(b, b[pos].val, pos, s), NEW c, Moved(b, n, s, c)
  PROVE  Ordered(c, n)
<1> DEFINE t == b[pos].val
<1>0. \A i \in 0..(n - 1) : b[i].val \in Int
  BY DEF Item
<1>1. s \in Seq(Nat) /\ Len(s) \in Nat /\ Len(s) >= 1 /\ s[1] = pos
  BY DEF Climbs
<1>2. \A i \in 1..Len(s) : s[i] \in 0..(n - 1)
  <2>1. \A i \in 1..Len(s) : s[i] \in Nat /\ s[i] < n
    BY <1>1, ClimbRoute DEF Route
  <2>. QED
    BY <2>1
<1>3. \A i \in 1..Len(s) : \A j \in 1..Len(s) : i < j => s[j] < s[i]
  BY DEF Climbs
<1>4. Len(s) >= 2
  BY <1>1 DEF Climbs
<1>5. \A k \in 2..Len(s) : s[k] # pos /\ b[s[k]].val > t
  <2>1. ASSUME NEW k \in 2..Len(s) PROVE s[k] # pos /\ b[s[k]].val > t
    <3>1. s[k] < s[1]
      BY <1>1, <1>3
    <3>2. k - 1 \in 1..(Len(s) - 1) /\ (k - 1) + 1 = k
      BY <1>1
    <3>3. b[s[(k - 1) + 1]].val > t
      BY <3>2 DEF Climbs
    <3>. QED
      BY <1>1, <1>2, <3>1, <3>2, <3>3
  <2>. QED
    BY <2>1
<1>6. ASSUME NEW k \in 1..(Len(s) - 1) PROVE s[k] \in 1..(n - 1) /\ heap_parent(s[k]) = s[k + 1]
  <2>1. s[k] > 0 /\ heap_parent(s[k]) = s[k + 1]
    BY DEF Climbs
  <2>. QED
    BY <1>1, <1>2, <2>1
<1>7. ASSUME NEW k \in 2..(Len(s) - 1) PROVE b[s[k + 1]].val <= b[s[k]].val
  <2>1. k \in 1..(Len(s) - 1) /\ k \in 2..Len(s) /\ k + 1 \in 2..Len(s)
    BY <1>1
  <2>2. s[k] \in 1..(n - 1) /\ heap_parent(s[k]) = s[k + 1] /\ s[k] # pos /\ s[k + 1] # pos
    BY <1>5, <1>6, <2>1
  <2>. QED
    BY <2>2 DEF HeapBut
<1>8. /\ \A k \in 1..(Len(s) - 1) : c[s[k]] = b[s[k + 1]]
      /\ c[s[Len(s)]] = b[pos]
      /\ \A i \in 0..(n - 1) : (\A k \in 1..Len(s) : s[k] # i) => c[i] = b[i]
  BY <1>1 DEF Moved
<1>9. SUFFICES ASSUME NEW i \in 1..(n - 1) PROVE c[heap_parent(i)].val <= c[i].val
  BY DEF Ordered
<1>10. heap_parent(i) \in 0..(i - 1) /\ i \in 0..(n - 1) /\ heap_parent(i) \in 0..(n - 1)
  <2>1. i \in Nat \ {0}
    OBVIOUS
  <2>2. PICK q : q = heap_parent(i)
    OBVIOUS
  <2>3. q \in 0..(i - 1)
    BY <2>1, <2>2, Parents
  <2>. QED
    BY <2>2, <2>3
<1>13. \A j \in 0..(n - 1) : (\A k \in 1..Len(s) : s[k] # j) => c[j] = b[j] /\ j # pos
  <2>1. 1 \in 1..Len(s)
    BY <1>1
  <2>. QED
    BY <1>1, <1>8, <2>1
<1>11. CASE \E k \in 1..Len(s) : s[k] = i
  <2>1. PICK k \in 1..Len(s) : s[k] = i
    BY <1>11
  <2>2. CASE k < Len(s)
    <3>1. k \in 1..(Len(s) - 1) /\ k + 1 \in 2..Len(s)
      BY <1>1, <2>2
    <3>2. heap_parent(i) = s[k + 1] /\ c[i] = b[s[k + 1]]
      BY <1>6, <1>8, <2>1, <3>1
    <3>3. CASE k + 1 = Len(s)
      <4>1. c[heap_parent(i)] = b[pos]
        BY <1>8, <3>2, <3>3
      <4>2. b[s[k + 1]].val > t
        BY <1>5, <3>1
      <4>. QED
        BY <1>0, <1>2, <3>1, <3>2, <4>1, <4>2
    <3>4. CASE k + 1 < Len(s)
      <4>1. k + 1 \in 2..(Len(s) - 1) /\ k + 1 \in 1..(Len(s) - 1)
        BY <1>1, <2>1, <3>4
      <4>2. c[heap_parent(i)] = b[s[(k + 1) + 1]]
        BY <1>8, <3>2, <4>1
      <4>. QED
        BY <1>7, <3>2, <4>1, <4>2
    <3>. QED
      BY <1>1, <2>1, <2>2, <3>3, <3>4
  <2>3. CASE k = Len(s)
    <3>1. \A j \in 1..Len(s) : s[j] # heap_parent(i)
      <4>1. ASSUME NEW j \in 1..Len(s) PROVE s[j] # heap_parent(i)
        <5>1. j = k \/ j < k
          BY <1>1, <2>3
        <5>2. s[j] >= s[k]
          BY <1>2, <1>3, <5>1
        <5>. QED
          BY <1>2, <1>10, <2>1, <5>2
      <4>. QED
        BY <4>1
    <3>2. c[heap_parent(i)] = b[heap_parent(i)] /\ c[i] = b[pos]
      BY <1>8, <1>10, <2>1, <2>3, <3>1
    <3>3. ~(b[heap_parent(i)].val > t)
      BY <2>1, <2>3 DEF Climbs
    <3>. QED
      BY <1>0, <1>10, <3>2, <3>3
  <2>. QED
    BY <1>1, <2>2, <2>3
<1>12. CASE \A k \in 1..Len(s) : s[k] # i
  <2>0. c[i] = b[i] /\ i # pos
    BY <1>13, <1>10, <1>12
  <2>1. CASE \A k \in 1..Len(s) : s[k] # heap_parent(i)
    <3>1. c[heap_parent(i)] = b[heap_parent(i)] /\ heap_parent(i) # pos
      BY <1>13, <1>10, <2>1
    <3>. QED
      BY <2>0, <3>1 DEF HeapBut
  <2>2. CASE \E k \in 1..Len(s) : s[k] = heap_parent(i)
    <3>1. PICK k \in 1..Len(s) : s[k] = heap_parent(i)
      BY <2>2
    <3>2. CASE k = 1
      <4>1. c[heap_parent(i)] = b[heap_parent(pos)] /\ heap_parent(i) = pos
        BY <1>1, <1>4, <1>6, <1>8, <3>1, <3>2
      <4>. QED
        BY <2>0, <4>1 DEF HeapBut
    <3>3. CASE k # 1
      <4>1. k \in 2..Len(s) /\ heap_parent(i) # pos
        BY <1>5, <3>1, <3>3
      <4>2. b[s[k]].val <= b[i].val
        BY <2>0, <3>1, <4>1 DEF HeapBut
      <4>3. CASE k = Len(s)
        <5>1. c[heap_parent(i)] = b[pos] /\ b[s[k]].val > t
          BY <1>5, <1>8, <3>1, <4>1, <4>3
        <5>. QED
          BY <1>0, <1>2, <2>0, <3>1, <4>2, <5>1
      <4>4. CASE k < Len(s)
        <5>1. k \in 2..(Len(s) - 1) /\ k \in 1..(Len(s) - 1) /\ k + 1 \in 1..Len(s)
          BY <1>1, <4>1, <4>4
        <5>2. c[heap_parent(i)] = b[s[k + 1]] /\ b[s[k + 1]].val <= b[s[k]].val
          BY <1>7, <1>8, <3>1, <5>1
        <5>3. s[k] \in 0..(n - 1) /\ s[k + 1] \in 0..(n - 1)
          BY <1>2, <5>1
        <5>4. b[s[k + 1]].val <= b[i].val
          <6>1. i \in 0..(n - 1)
            BY <1>0, <2>0
          <6>2. b[s[k]].val \in Int /\ b[s[k + 1]].val \in Int /\ b[i].val \in Int
            BY <1>0, <5>3, <6>1
          <6>. QED
            BY <4>2, <5>2, <6>2
        <5>. QED
          BY <2>0, <5>2, <5>4
      <4>. QED
        BY <1>1, <4>1, <4>3, <4>4
    <3>. QED
      BY <3>2, <3>3
  <2>. QED
    BY <2>1, <2>2
<1>. QED
  BY <1>11, <1>12

\* heap_down restores the order when the item at pos is not earlier than
\* its parent and every other item is in order.
LEMMA SiftOrders ==
  ASSUME NEW n \in Nat, NEW b \in [0..(n - 1) -> Item], NEW pos \in 0..(n - 1), HeapBut(b, n, pos),
         pos > 0 => b[heap_parent(pos)].val <= b[pos].val,
         NEW s, Sifts(b, n, b[pos].val, pos, s), NEW c, Moved(b, n, s, c)
  PROVE  Ordered(c, n)
<1> DEFINE t == b[pos].val
<1>0. \A i \in 0..(n - 1) : b[i].val \in Int
  BY DEF Item
<1>1. s \in Seq(Nat) /\ Len(s) \in Nat /\ Len(s) >= 1 /\ s[1] = pos
  BY DEF Sifts
<1>2. \A i \in 1..Len(s) : s[i] \in 0..(n - 1)
  <2>1. \A i \in 1..Len(s) : s[i] \in Nat /\ s[i] < n
    BY <1>1 DEF Sifts
  <2>. QED
    BY <2>1
<1>3. \A i \in 1..Len(s) : \A j \in 1..Len(s) : i < j => s[i] < s[j]
  BY DEF Sifts
<1>4. \A k \in 2..Len(s) : s[k] > pos /\ b[s[k]].val < t /\ heap_parent(s[k]) = s[k - 1]
  <2>1. ASSUME NEW k \in 2..Len(s)
        PROVE  s[k] > pos /\ b[s[k]].val < t /\ heap_parent(s[k]) = s[k - 1]
    <3>1. s[1] < s[k]
      BY <1>1, <1>3
    <3>2. k - 1 \in 1..(Len(s) - 1) /\ (k - 1) + 1 = k
      BY <1>1
    <3>3. b[s[(k - 1) + 1]].val < t /\ heap_parent(s[(k - 1) + 1]) = s[k - 1]
      BY <3>2 DEF Sifts
    <3>. QED
      BY <1>1, <1>2, <3>1, <3>2, <3>3
  <2>. QED
    BY <2>1
<1>5. ASSUME NEW k \in 2..(Len(s) - 1) PROVE b[s[k]].val <= b[s[k + 1]].val
  <2>1. k \in 2..Len(s) /\ k + 1 \in 2..Len(s) /\ (k + 1) - 1 = k /\ k \in 1..Len(s) /\ k + 1 \in 1..Len(s)
    BY <1>1
  <2>2. heap_parent(s[k + 1]) = s[k] /\ s[k] > pos /\ s[k + 1] > pos
    BY <1>4, <2>1
  <2>3. s[k] \in 0..(n - 1) /\ s[k + 1] \in 0..(n - 1)
    BY <1>2, <2>1
  <2>4. s[k + 1] \in 1..(n - 1) /\ s[k] # pos /\ s[k + 1] # pos
    BY <2>2, <2>3
  <2>. QED
    BY <2>2, <2>4 DEF HeapBut
<1>8. /\ \A k \in 1..(Len(s) - 1) : c[s[k]] = b[s[k + 1]]
      /\ c[s[Len(s)]] = b[pos]
      /\ \A i \in 0..(n - 1) : (\A k \in 1..Len(s) : s[k] # i) => c[i] = b[i]
  BY <1>1 DEF Moved
<1>9. SUFFICES ASSUME NEW i \in 1..(n - 1) PROVE c[heap_parent(i)].val <= c[i].val
  BY DEF Ordered
<1>10. /\ heap_parent(i) \in 0..(i - 1) /\ i \in 0..(n - 1) /\ heap_parent(i) \in 0..(n - 1)
       /\ i \in {heap_left(heap_parent(i)), heap_right(heap_parent(i))}
  <2>1. i \in Nat \ {0}
    OBVIOUS
  <2>2. PICK q : q = heap_parent(i)
    OBVIOUS
  <2>3. q \in 0..(i - 1) /\ i \in {heap_left(q), heap_right(q)}
    BY <2>1, <2>2, Parents
  <2>. QED
    BY <2>2, <2>3
<1>13. \A j \in 0..(n - 1) : (\A k \in 1..Len(s) : s[k] # j) => c[j] = b[j] /\ j # pos
  <2>1. 1 \in 1..Len(s)
    BY <1>1
  <2>. QED
    BY <1>1, <1>8, <2>1
<1>11. CASE \E k \in 1..Len(s) : s[k] = i
  <2>1. PICK k \in 1..Len(s) : s[k] = i
    BY <1>11
  <2>2. CASE k = 1
    <3>1. ASSUME NEW j \in 1..Len(s) PROVE s[j] # heap_parent(i)
      <4>1. j = 1 \/ 1 < j
        BY <1>1
      <4>2. s[j] >= s[1]
        BY <1>1, <1>2, <1>3, <4>1
      <4>. QED
        BY <1>2, <1>10, <2>1, <2>2, <4>2
    <3>2. c[heap_parent(i)] = b[heap_parent(i)] /\ i = pos /\ b[heap_parent(i)].val <= t
      <4>1. c[heap_parent(i)] = b[heap_parent(i)]
        BY <1>10, <1>13, <3>1
      <4>2. i = pos /\ pos > 0
        BY <1>1, <2>1, <2>2
      <4>. QED
        BY <4>1, <4>2
    <3>3. CASE Len(s) = 1
      BY <1>8, <2>1, <2>2, <3>2, <3>3
    <3>4. CASE Len(s) >= 2
      <4>1. 1 \in 1..(Len(s) - 1) /\ 2 \in 2..Len(s) /\ 2 \in 1..Len(s)
        BY <1>1, <3>4
      <4>2. c[i] = b[s[2]] /\ heap_parent(s[2]) = pos /\ s[2] > pos /\ s[2] \in 0..(n - 1)
        BY <1>1, <1>2, <1>4, <1>8, <2>1, <2>2, <4>1
      <4>3. s[2] \in 1..(n - 1) /\ pos > 0
        BY <3>2, <4>2
      <4>. QED
        BY <3>2, <4>2, <4>3 DEF HeapBut
    <3>5. Len(s) = 1 \/ Len(s) >= 2
      <4>1. Len(s) \in Nat /\ Len(s) >= 1
        BY <1>1
      <4>. QED
        BY <4>1
    <3>. QED
      BY <3>3, <3>4, <3>5
  <2>3. CASE k # 1
    <3>1. k \in 2..Len(s) /\ k - 1 \in 1..(Len(s) - 1) /\ (k - 1) + 1 = k
      BY <1>1, <2>1, <2>3
    <3>2. heap_parent(i) = s[k - 1] /\ c[heap_parent(i)] = b[s[(k - 1) + 1]] /\ b[s[k]].val < t
      BY <1>4, <1>8, <2>1, <3>1
    <3>3. c[heap_parent(i)] = b[s[k]]
      BY <3>1, <3>2
    <3>4. CASE k = Len(s)
      <4>1. c[i] = b[pos]
        BY <1>8, <2>1, <3>4
      <4>. QED
        BY <1>0, <1>2, <2>1, <3>2, <3>3, <4>1
    <3>5. CASE k < Len(s)
      <4>1. k \in 2..(Len(s) - 1) /\ k \in 1..(Len(s) - 1)
        BY <1>1, <3>1, <3>5
      <4>. QED
        BY <1>5, <1>8, <2>1, <3>3, <4>1
    <3>. QED
      BY <1>1, <2>1, <3>4, <3>5
  <2>. QED
    BY <2>2, <2>3
<1>12. CASE \A k \in 1..Len(s) : s[k] # i
  <2>0. c[i] = b[i] /\ i # pos
    BY <1>10, <1>12, <1>13
  <2>1. CASE \A k \in 1..Len(s) : s[k] # heap_parent(i)
    <3>1. c[heap_parent(i)] = b[heap_parent(i)] /\ heap_parent(i) # pos
      BY <1>10, <1>13, <2>1
    <3>. QED
      BY <2>0, <3>1 DEF HeapBut
  <2>2. CASE \E k \in 1..Len(s) : s[k] = heap_parent(i)
    <3>1. PICK k \in 1..Len(s) : s[k] = heap_parent(i)
      BY <2>2
    <3>2. CASE k = Len(s)
      <4>1. c[heap_parent(i)] = b[pos]
        BY <1>8, <3>1, <3>2
      <4>2. b[i].val >= t
        <5>1. i \in {heap_left(s[Len(s)]), heap_right(s[Len(s)])} /\ i < n
          BY <1>10, <3>1, <3>2
        <5>. QED
          BY <5>1 DEF Sifts
      <4>. QED
        BY <1>0, <1>10, <2>0, <4>1, <4>2
    <3>3. CASE k # Len(s)
      <4>1. k \in 1..(Len(s) - 1) /\ i \in {heap_left(s[k]), heap_right(s[k])} /\ i < n
        BY <1>1, <1>10, <3>1, <3>3
      <4>2. b[s[k + 1]].val <= b[i].val
        BY <4>1 DEF Sifts
      <4>3. c[heap_parent(i)] = b[s[k + 1]]
        BY <1>8, <3>1, <4>1
      <4>. QED
        BY <2>0, <4>2, <4>3
    <3>. QED
      BY <3>2, <3>3
  <2>. QED
    BY <2>1, <2>2
<1>. QED
  BY <1>11, <1>12

\* heap_idx and the items refer to each other, but for the item at pos
RefsBut(b, n, pos, ix) ==
  /\ ix \in [Entries -> Int]
  /\ \A i \in 0..(n - 1) : \A j \in 0..(n - 1) : b[i].ref = b[j].ref => i = j
  /\ \A i \in 0..(n - 1) : i # pos => ix[b[i].ref] = i
  /\ \A e \in Entries : ix[e] # -1 /\ e # b[pos].ref => ix[e] \in 0..(n - 1) /\ b[ix[e]].ref = e

\* heap_idx ix says where the items of b are in c
Follows(b, n, c, ix) ==
  /\ ix \in [Entries -> Int]
  /\ \A i \in 0..(n - 1) : ix[c[i].ref] = i
  /\ \A e \in Entries : ix[e] # -1 => ix[e] \in 0..(n - 1) /\ c[ix[e]].ref = e
  /\ \A i \in 0..(n - 1) : \E j \in 0..(n - 1) : c[j] = b[i]
  /\ \A i \in 0..(n - 1) : \E j \in 0..(n - 1) : c[i] = b[j]

\* Writing the positions of the items on the path, whose old positions they
\* hold among them, makes every heap_idx right again.
LEMMA RefsFollow ==
  ASSUME NEW n \in Nat, NEW b \in [0..(n - 1) -> Item], NEW pos \in 0..(n - 1), NEW ix,
         RefsBut(b, n, pos, ix), NEW s, Route(n, pos, s), NEW c, Moved(b, n, s, c)
  PROVE  Follows(b, n, c, [e \in Entries |->
                     IF \E p \in Written(b, s) : c[p].ref = e
                     THEN CHOOSE p \in Written(b, s) : c[p].ref = e
                     ELSE ix[e]])
<1> DEFINE R == Written(b, s)
           new == [e \in Entries |-> IF \E p \in R : c[p].ref = e
                                     THEN CHOOSE p \in R : c[p].ref = e ELSE ix[e]]
<1>1. s \in Seq(Nat) /\ Len(s) \in Nat /\ Len(s) >= 1 /\ s[1] = pos /\ DOMAIN s = 1..Len(s)
  BY DEF Route
<1>0. Len(s) \in Nat
  BY <1>1
<1>2. \A i \in 1..Len(s) : s[i] \in 0..(n - 1)
  <2>1. \A i \in 1..Len(s) : s[i] \in Nat /\ s[i] < n
    BY <1>1 DEF Route
  <2>. QED
    BY <2>1
<1>3. R = {s[i] : i \in 1..Len(s)} /\ R \subseteq 0..(n - 1) /\ pos \in R
  <2>1. 1 \in 1..Len(s)
    BY <1>1
  <2>. QED
    BY <1>1, <1>2, <2>1 DEF Written
<1> HIDE DEF new, R
<1>4. \A i \in 0..(n - 1) : i \notin R => c[i] = b[i]
  BY <1>3 DEF Moved
<1>5. \A k \in 1..(Len(s) - 1) : c[s[k]] = b[s[k + 1]] /\ s[k] \in R /\ s[k + 1] \in R
  <2>1. \A k \in 1..(Len(s) - 1) : k \in 1..Len(s) /\ k + 1 \in 1..Len(s)
    BY <1>1
  <2>. QED
    BY <1>3, <2>1 DEF Moved
<1>6. c[s[Len(s)]] = b[s[1]] /\ s[Len(s)] \in R
  <2>1. Len(s) \in 1..Len(s)
    BY <1>1
  <2>. QED
    BY <1>3, <2>1 DEF Moved
<1>7. ASSUME NEW p \in R PROVE \E q \in R : c[p] = b[q]
  <2>1. PICK k \in 1..Len(s) : p = s[k]
    BY <1>3
  <2>2. CASE k = Len(s)
    BY <1>1, <1>3, <1>6, <2>1, <2>2
  <2>3. CASE k # Len(s)
    <3>1. k \in 1..(Len(s) - 1)
      BY <1>0, <2>3
    <3>. QED
      BY <1>5, <2>1, <3>1
  <2>. QED
    BY <2>2, <2>3
<1>8. ASSUME NEW p \in R PROVE \E q \in R : c[q] = b[p]
  <2>1. PICK k \in 1..Len(s) : p = s[k]
    BY <1>3
  <2>2. CASE k = 1
    BY <1>1, <1>6, <2>1, <2>2
  <2>3. CASE k # 1
    <3>1. k - 1 \in 1..(Len(s) - 1) /\ (k - 1) + 1 = k
      BY <1>1, <2>1, <2>3
    <3>2. c[s[k - 1]] = b[s[(k - 1) + 1]] /\ s[k - 1] \in R
      BY <1>5, <3>1
    <3>. QED
      BY <2>1, <3>1, <3>2
  <2>. QED
    BY <2>2, <2>3
<1>9. ASSUME NEW p \in R, NEW q \in R, c[p].ref = c[q].ref PROVE p = q
  <2>0. \A i \in 0..(n - 1) : \A j \in 0..(n - 1) : b[i].ref = b[j].ref => i = j
    BY DEF RefsBut
  <2>1. PICK k \in 1..Len(s) : p = s[k]
    BY <1>3
  <2>2. PICK m \in 1..Len(s) : q = s[m]
    BY <1>3
  <2>3. \A x \in 1..Len(s) : \A y \in 1..Len(s) : s[x] = s[y] => x = y
    BY DEF Route
  <2> DEFINE nxt(x) == IF x < Len(s) THEN x + 1 ELSE 1
  <2>4. ASSUME NEW x \in 1..Len(s) PROVE nxt(x) \in 1..Len(s) /\ c[s[x]] = b[s[nxt(x)]]
    <3>1. CASE x < Len(s)
      <4>1. x \in 1..(Len(s) - 1)
        BY <1>1, <3>1
      <4>. QED
        BY <1>1, <1>5, <3>1, <4>1
    <3>2. CASE x = Len(s)
      BY <1>1, <1>6, <3>2
    <3>3. x < Len(s) \/ x = Len(s)
      BY <1>0
    <3>. QED
      BY <3>1, <3>2, <3>3
  <2>5. \A x \in 1..Len(s) : \A y \in 1..Len(s) : nxt(x) = nxt(y) => x = y
    BY <1>1
  <2>. HIDE DEF nxt
  <2>6. s[nxt(k)] = s[nxt(m)]
    <3>1. c[p] = b[s[nxt(k)]] /\ c[q] = b[s[nxt(m)]]
      BY <2>1, <2>2, <2>4
    <3>2. s[nxt(k)] \in 0..(n - 1) /\ s[nxt(m)] \in 0..(n - 1)
      BY <1>2, <2>4
    <3>. QED
      BY <1>9, <2>0, <3>1, <3>2
  <2>. QED
    BY <2>1, <2>2, <2>3, <2>4, <2>5, <2>6
<1>10. \A i \in 0..(n - 1) : \E j \in 0..(n - 1) : c[j] = b[i]
  BY <1>3, <1>4, <1>8
<1>11. \A i \in 0..(n - 1) : \E j \in 0..(n - 1) : c[i] = b[j]
  BY <1>3, <1>4, <1>7
<1>12. \A i \in 0..(n - 1) : c[i] \in Item /\ c[i].ref \in Entries /\ b[i].ref \in Entries
  BY DEF Moved, Item
<1>13. ASSUME NEW e \in Entries, \E p \in R : c[p].ref = e
       PROVE  new[e] \in R /\ c[new[e]].ref = e
  BY <1>13 DEF new
<1>14. ASSUME NEW e \in Entries, ~\E p \in R : c[p].ref = e
       PROVE  new[e] = ix[e]
  BY <1>14 DEF new
<1>15. new \in [Entries -> Int]
  <2>1. \A e \in Entries : new[e] \in Int
    BY <1>3, <1>13, <1>14 DEF RefsBut
  <2>. QED
    BY <2>1 DEF new
<1>16. ASSUME NEW i \in 0..(n - 1) PROVE new[c[i].ref] = i
  <2>1. PICK e \in Entries : e = c[i].ref
    BY <1>12
  <2>2. CASE i \in R
    BY <1>9, <1>13, <2>1, <2>2
  <2>3. CASE i \notin R
    <3>1. c[i] = b[i]
      BY <1>4, <2>3
    <3>2. ASSUME NEW p \in R PROVE c[p].ref # e
      <4>1. PICK q \in R : c[p] = b[q]
        BY <1>7
      <4>2. q # i /\ q \in 0..(n - 1)
        BY <1>3, <2>3
      <4>. QED
        BY <2>1, <3>1, <4>1, <4>2 DEF RefsBut
    <3>3. new[e] = ix[e] /\ i # pos
      BY <1>3, <1>14, <2>3, <3>2
    <3>. QED
      BY <2>1, <3>1, <3>3 DEF RefsBut
  <2>. QED
    BY <2>2, <2>3
<1>17. ASSUME NEW e \in Entries, new[e] # -1 PROVE new[e] \in 0..(n - 1) /\ c[new[e]].ref = e
  <2>1. CASE \E p \in R : c[p].ref = e
    BY <1>3, <1>13, <2>1
  <2>2. CASE ~\E p \in R : c[p].ref = e
    <3>1. new[e] = ix[e]
      BY <1>14, <2>2
    <3>2. e # b[pos].ref
      BY <1>3, <1>8, <2>2
    <3>3. ix[e] \in 0..(n - 1) /\ b[ix[e]].ref = e
      BY <1>17, <3>1, <3>2 DEF RefsBut
    <3>4. ix[e] \notin R
      BY <1>8, <2>2, <3>3
    <3>. QED
      BY <1>4, <3>1, <3>3, <3>4
  <2>. QED
    BY <2>1, <2>2
<1>18. Follows(b, n, c, new)
  BY <1>10, <1>11, <1>15, <1>16, <1>17 DEF Follows
<1>. QED
  BY <1>18 DEF new, R

\* heap_update on an array with one item out of place gives a heap whose
\* items are those of the array and whose positions are known.
LEMMA UpdateKeeps ==
  ASSUME NEW n \in Nat, NEW b \in [0..(n - 1) -> Item], NEW pos \in 0..(n - 1), NEW ix,
         HeapBut(b, n, pos), RefsBut(b, n, pos, ix), HeapUpdate(b, n, pos, ix)
  PROVE  /\ a' \in [0..(n - 1) -> Item]
         /\ Ordered(a', n)
         /\ Follows(b, n, a', idx')
<1>1. PICK s : s = Path(b, n, pos)
  OBVIOUS
<1>2. PICK c : c = Rotate(b, s)
  OBVIOUS
<1>3. /\ a' = c
      /\ idx' = [e \in Entries |-> IF \E p \in Written(b, s) : c[p].ref = e
                                   THEN CHOOSE p \in Written(b, s) : c[p].ref = e ELSE ix[e]]
  BY <1>1, <1>2 DEF HeapUpdate
<1>4. Route(n, pos, s) /\ (Moved(b, n, s, c) => Ordered(c, n))
  <2>1. CASE pos > 0 /\ b[heap_parent(pos)].val > b[pos].val
    <3>1. Climbs(b, b[pos].val, pos, s)
      BY <1>1, <2>1, UpPathClimbs DEF Path
    <3>2. pos \in 1..(n - 1) /\ pos \in Nat
      BY <2>1
    <3>. QED
      BY <2>1, <3>1, <3>2, ClimbRoute, ClimbOrders
  <2>2. CASE ~(pos > 0 /\ b[heap_parent(pos)].val > b[pos].val)
    <3>1. Sifts(b, n, b[pos].val, pos, s)
      BY <1>1, <2>2, DownPathSifts DEF Path
    <3>2. pos > 0 => b[heap_parent(pos)].val <= b[pos].val
      <4>1. ASSUME pos > 0 PROVE b[heap_parent(pos)].val <= b[pos].val
        <5>1. pos \in Nat \ {0}
          BY <4>1
        <5>2. heap_parent(pos) \in 0..(n - 1)
          BY <5>1, Parents
        <5>3. b[heap_parent(pos)].val \in Int /\ b[pos].val \in Int
          BY <5>2 DEF Item
        <5>. QED
          BY <2>2, <4>1, <5>3
      <4>. QED
        BY <4>1
    <3>. QED
      BY <3>1, <3>2, SiftRoute, SiftOrders
  <2>. QED
    BY <2>1, <2>2
<1>5. Moved(b, n, s, c)
  BY <1>2, <1>4, RotateMoves
<1>6. c \in [0..(n - 1) -> Item]
  BY <1>5 DEF Moved
<1>7. PICK new : new = [e \in Entries |-> IF \E p \in Written(b, s) : c[p].ref = e
                                   THEN CHOOSE p \in Written(b, s) : c[p].ref = e ELSE ix[e]]
  OBVIOUS
<1>8. Follows(b, n, c, new)
  BY <1>4, <1>5, <1>7, RefsFollow
<1>. QED
  BY <1>3, <1>4, <1>5, <1>6, <1>7, <1>8

\* The inductive invariant: the shape of the heap, and heap_idx in range.
HeapInv ==
  /\ size \in Nat
  /\ a \in [0..(size - 1) -> Item]
  /\ idx \in [Entries -> Int]
  /\ \A i \in 0..(size - 1) : idx[a[i].ref] = i
  /\ \A e \in Entries : idx[e] # -1 => idx[e] \in 0..(size - 1) /\ a[idx[e]].ref = e
  /\ HeapOrder

\* what the map of deadlines says of the items of b
Lists(b, n, f) ==
  /\ f = [e \in DOMAIN f |-> f[e]]
  /\ \A e \in Entries : e \in DOMAIN f <=> \E i \in 0..(n - 1) : b[i].ref = e
  /\ DOMAIN f \subseteq Entries
  /\ \A i \in 0..(n - 1) : f[b[i].ref] = b[i].val

\* The deadlines as TtlMap sees them.
Dl == [e \in {i \in Entries : idx[i] # -1} |-> a[idx[e]].val]

\* The heap lists the deadlines of the map.
HeapLists == Lists(a, size, Dl)

\* By the references in both directions the map has an entry for each item,
\* and no other.
LEMMA InvLists ==
  HeapInv => HeapLists
<1> USE DEF HeapLists
<1> SUFFICES ASSUME HeapInv PROVE HeapLists
  OBVIOUS
<1>1. \A i \in 0..(size - 1) : a[i].ref \in Entries /\ idx[a[i].ref] = i
  BY DEF HeapInv, Item
<1>2. \A i \in 0..(size - 1) : i # -1
  BY DEF HeapInv
<1>. QED
  BY <1>1, <1>2 DEF HeapInv, Lists, Dl

\* The items determine the map.
LEMMA SameLists ==
  ASSUME NEW b, NEW n, NEW f, NEW g, Lists(b, n, f), Lists(b, n, g)
  PROVE  f = g
<1>1. DOMAIN f = DOMAIN g
  BY DEF Lists
<1>2. \A e \in DOMAIN f : f[e] = g[e]
  BY DEF Lists
<1>. QED
  BY <1>1, <1>2 DEF Lists

\* After heap_update the invariant holds and the map lists the items of b.
LEMMA UpdateInv ==
  ASSUME NEW n \in Nat, NEW b \in [0..(n - 1) -> Item], NEW pos \in 0..(n - 1), NEW ix,
         HeapBut(b, n, pos), RefsBut(b, n, pos, ix), HeapUpdate(b, n, pos, ix), size' = n
  PROVE  HeapInv' /\ Lists(b, n, Dl')
<1>1. PICK c : c = a'
  OBVIOUS
<1>2. PICK new : new = idx'
  OBVIOUS
<1>3. c \in [0..(n - 1) -> Item] /\ Ordered(c, n) /\ Follows(b, n, c, new)
  BY <1>1, <1>2, UpdateKeeps
<1>4. HeapInv'
  BY <1>1, <1>2, <1>3, size' = n DEF HeapInv, Follows, HeapOrder, Ordered
<1>7. PICK g : g = Dl'
  OBVIOUS
<1>5. Lists(c, n, g)
  <2>1. HeapInv' => HeapLists'
    BY InvLists, PTL
  <2>. QED
    BY <1>1, <1>4, <1>7, <2>1, size' = n DEF HeapLists
<1>6. Lists(b, n, g)
  <2>0. /\ \A i \in 0..(n - 1) : \E j \in 0..(n - 1) : c[j] = b[i]
        /\ \A i \in 0..(n - 1) : \E j \in 0..(n - 1) : c[i] = b[j]
    BY <1>3 DEF Follows
  <2>1. ASSUME NEW i \in 0..(n - 1) PROVE g[b[i].ref] = b[i].val
    <3>1. PICK j \in 0..(n - 1) : c[j] = b[i]
      BY <2>0
    <3>2. g[c[j].ref] = c[j].val
      BY <1>5 DEF Lists
    <3>. QED
      BY <3>1, <3>2
  <2>2. \A e \in Entries : (\E i \in 0..(n - 1) : b[i].ref = e) <=> \E i \in 0..(n - 1) : c[i].ref = e
    <3>1. ASSUME NEW e \in Entries, NEW i \in 0..(n - 1), b[i].ref = e
          PROVE  \E j \in 0..(n - 1) : c[j].ref = e
      BY <2>0, <3>1
    <3>2. ASSUME NEW e \in Entries, NEW i \in 0..(n - 1), c[i].ref = e
          PROVE  \E j \in 0..(n - 1) : b[j].ref = e
      BY <2>0, <3>2
    <3>. QED
      BY <3>1, <3>2
  <2>. QED
    BY <1>5, <2>1, <2>2 DEF Lists
<1>. QED
  BY <1>4, <1>6, <1>7

\* entry_set_ttl with a deadline keeps the invariant and changes the deadline
\* of its entry only.
LEMMA SetTtlInv ==
  ASSUME HeapInv, NEW e \in Entries, NEW d \in Deadlines, SetTtl(e, d)
  PROVE  HeapInv' /\ Dl' = [i \in DOMAIN Dl \cup {e} |-> IF i = e THEN d ELSE Dl[i]]
<1>1. PICK pos : pos = IF idx[e] = -1 THEN size ELSE idx[e]
  OBVIOUS
<1>2. PICK item : item = [val |-> d, ref |-> e]
  OBVIOUS
<1>3. PICK n : n = IF idx[e] = -1 THEN size + 1 ELSE size
  OBVIOUS
<1>4. PICK b : b = [p \in DOMAIN a \cup {pos} |-> IF p = pos THEN item ELSE a[p]]
  OBVIOUS
<1>5. PICK ix : ix = idx
  OBVIOUS
<1>6. size' = n /\ HeapUpdate(b, n, pos, ix)
  <2>1. /\ size' = n
        /\ HeapUpdate([p \in DOMAIN a \cup {pos} |-> IF p = pos THEN item ELSE a[p]], size', pos, idx)
    BY <1>1, <1>2, <1>3 DEF SetTtl
  <2>. QED
    BY <1>4, <1>5, <2>1
<1>7. d \in Int /\ item \in Item /\ item.val = d /\ item.ref = e
  BY <1>2, DeadlineAssumption DEF Item
<1>8. /\ size \in Nat /\ DOMAIN a = 0..(size - 1)
      /\ \A i \in 0..(size - 1) : a[i] \in Item /\ idx[a[i].ref] = i
      /\ \A i \in Entries : idx[i] # -1 => idx[i] \in 0..(size - 1) /\ a[idx[i]].ref = i
  BY DEF HeapInv
<1>9. n \in Nat /\ pos \in 0..(n - 1) /\ 0..(n - 1) = 0..(size - 1) \cup {pos}
  BY <1>1, <1>3, <1>8
<1>10. b \in [0..(n - 1) -> Item]
  BY <1>4, <1>7, <1>8, <1>9
<1>11. b[pos] = item /\ \A i \in 0..(n - 1) : i # pos => i \in 0..(size - 1) /\ b[i] = a[i]
  BY <1>4, <1>8, <1>9
<1>12. \A i \in 1..(size - 1) : a[heap_parent(i)].val <= a[i].val
  BY DEF HeapInv, HeapOrder
<1>13. \A i \in 1..(n - 1) : heap_parent(i) \in 0..(i - 1) /\ heap_parent(i) \in 0..(n - 1)
  BY <1>9, Parents
<1>14. HeapBut(b, n, pos)
  <2>1. ASSUME NEW i \in 1..(n - 1), i # pos, heap_parent(i) # pos
        PROVE  b[heap_parent(i)].val <= b[i].val
    <3>1. b[i] = a[i] /\ b[heap_parent(i)] = a[heap_parent(i)] /\ i \in 1..(size - 1)
      BY <1>9, <1>11, <1>13, <2>1
    <3>. QED
      BY <1>12, <3>1
  <2>2. ASSUME NEW i \in 1..(n - 1), heap_parent(i) = pos, pos > 0
        PROVE  b[heap_parent(pos)].val <= b[i].val
    <3>1. pos < i /\ i # pos /\ i \in 1..(size - 1) /\ pos \in 1..(n - 1) /\ pos \in 1..(size - 1)
      BY <1>8, <1>9, <1>11, <1>13, <2>2
    <3>2. heap_parent(pos) \in 0..(size - 1) /\ heap_parent(pos) # pos /\ heap_parent(pos) \in 0..(n - 1)
      BY <1>9, <1>13, <3>1
    <3>3. b[i] = a[i] /\ b[heap_parent(pos)] = a[heap_parent(pos)]
      BY <1>11, <3>1, <3>2
    <3>4. a[heap_parent(pos)].val <= a[pos].val /\ a[pos].val <= a[i].val
      BY <1>12, <2>2, <3>1
    <3>5. a[heap_parent(pos)].val \in Int /\ a[pos].val \in Int /\ a[i].val \in Int
      BY <1>8, <3>1, <3>2 DEF Item
    <3>. QED
      BY <3>3, <3>4, <3>5
  <2>. QED
    BY <2>1, <2>2 DEF HeapBut
<1>15. \A i \in 0..(n - 1) : i # pos => b[i].ref # e
  BY <1>1, <1>8, <1>9, <1>11
<1>16. RefsBut(b, n, pos, ix)
  <2>1. ix \in [Entries -> Int]
    BY <1>5 DEF HeapInv
  <2>2. ASSUME NEW i \in 0..(n - 1), NEW j \in 0..(n - 1), b[i].ref = b[j].ref PROVE i = j
    <3>1. CASE i = pos \/ j = pos
      BY <1>7, <1>11, <1>15, <2>2, <3>1
    <3>2. CASE i # pos /\ j # pos
      BY <1>8, <1>11, <2>2, <3>2
    <3>. QED
      BY <3>1, <3>2
  <2>3. ASSUME NEW i \in 0..(n - 1), i # pos PROVE ix[b[i].ref] = i
    BY <1>5, <1>8, <1>11, <2>3
  <2>4. ASSUME NEW o \in Entries, ix[o] # -1, o # b[pos].ref
        PROVE  ix[o] \in 0..(n - 1) /\ b[ix[o]].ref = o
    <3>1. ix[o] \in 0..(size - 1) /\ a[ix[o]].ref = o
      BY <1>5, <1>8, <2>4
    <3>2. ix[o] # pos
      BY <1>1, <1>7, <1>8, <1>11, <2>4, <3>1
    <3>. QED
      BY <1>9, <1>11, <3>1, <3>2
  <2>. QED
    BY <2>1, <2>2, <2>3, <2>4 DEF RefsBut
<1>17. HeapInv' /\ Lists(b, n, Dl')
  BY <1>6, <1>9, <1>10, <1>14, <1>16, UpdateInv
<1>18. PICK f : f = [i \in DOMAIN Dl \cup {e} |-> IF i = e THEN d ELSE Dl[i]]
  OBVIOUS
<1>19. PICK dl : dl = Dl
  OBVIOUS
<1>20. Lists(b, n, f)
  <2>1. PICK c : c = a
    OBVIOUS
  <2>2. PICK m : m = size
    OBVIOUS
  <2>3. Lists(c, m, dl)
    BY <1>19, <2>1, <2>2, InvLists DEF HeapLists
  <2>4. f = [i \in DOMAIN dl \cup {e} |-> IF i = e THEN d ELSE dl[i]]
    BY <1>18, <1>19
  <2>5. f = [i \in DOMAIN f |-> f[i]] /\ DOMAIN f = DOMAIN dl \cup {e} /\ DOMAIN f \subseteq Entries
    BY <2>3, <2>4 DEF Lists
  <2>6. ASSUME NEW i \in 0..(n - 1) PROVE f[b[i].ref] = b[i].val /\ b[i].ref \in DOMAIN f
    <3>1. CASE i = pos
      BY <1>7, <1>11, <2>4, <3>1
    <3>2. CASE i # pos
      <4>1. i \in 0..(m - 1) /\ b[i] = c[i] /\ b[i].ref # e /\ b[i].ref \in Entries
        BY <1>10, <1>11, <1>15, <2>1, <2>2, <3>2 DEF Item
      <4>2. b[i].ref \in DOMAIN dl /\ dl[b[i].ref] = b[i].val
        BY <2>3, <4>1 DEF Lists
      <4>. QED
        BY <2>4, <4>1, <4>2
    <3>. QED
      BY <3>1, <3>2
  <2>7. ASSUME NEW o \in DOMAIN f PROVE \E i \in 0..(n - 1) : b[i].ref = o
    <3>1. CASE o = e
      BY <1>7, <1>9, <1>11, <3>1
    <3>2. CASE o # e
      <4>1. o \in DOMAIN dl /\ o \in Entries
        BY <2>5, <3>2
      <4>2. PICK i \in 0..(m - 1) : c[i].ref = o
        BY <2>3, <4>1 DEF Lists
      <4>3. i # pos
        BY <1>1, <1>8, <2>1, <2>2, <3>2, <4>2
      <4>4. i \in 0..(n - 1)
        BY <1>9, <2>2
      <4>. QED
        BY <1>11, <2>1, <4>2, <4>3, <4>4
    <3>. QED
      BY <3>1, <3>2
  <2>. QED
    BY <2>5, <2>6, <2>7 DEF Lists
<1>21. Dl' = f
  <2>1. PICK g : g = Dl'
    OBVIOUS
  <2>. QED
    BY <1>17, <1>20, <2>1, SameLists
<1>. QED
  BY <1>17, <1>18, <1>21

\* entry_set_ttl without a deadline keeps the invariant and removes the
\* deadline of its entry only.
LEMMA EraseInv ==
  ASSUME HeapInv, NEW e \in Entries, Erase(e)
  PROVE  HeapInv' /\ e \in DOMAIN Dl /\ Dl' = [i \in DOMAIN Dl \ {e} |-> Dl[i]]
<1>1. PICK pos : pos = idx[e]
  OBVIOUS
<1>2. PICK m : m = size
  OBVIOUS
<1>3. PICK n : n = m - 1
  OBVIOUS
<1>4. PICK c : c = a
  OBVIOUS
<1>5. PICK ix : ix = [idx EXCEPT ![e] = -1]
  OBVIOUS
<1>6. PICK b : b = [p \in 0..m - 2 |-> IF p = pos THEN c[m - 1] ELSE c[p]]
  OBVIOUS
<1>7. /\ size' = n
      /\ IF pos < m - 1 THEN HeapUpdate(b, n, pos, ix) ELSE a' = b /\ idx' = ix
  <2>1. /\ size' = n
        /\ IF idx[e] < size - 1
           THEN HeapUpdate([p \in 0..size - 2 |-> IF p = idx[e] THEN a[size - 1] ELSE a[p]],
                           size - 1, idx[e], [idx EXCEPT ![e] = -1])
           ELSE a' = [p \in 0..size - 2 |-> IF p = idx[e] THEN a[size - 1] ELSE a[p]]
                /\ idx' = [idx EXCEPT ![e] = -1]
    BY <1>2, <1>3 DEF Erase
  <2>. QED
    BY <1>1, <1>2, <1>3, <1>4, <1>5, <1>6, <2>1
<1>8. /\ m \in Nat /\ DOMAIN c = 0..(m - 1) /\ idx \in [Entries -> Int]
      /\ \A i \in 0..(m - 1) : c[i] \in Item /\ idx[c[i].ref] = i
      /\ \A i \in Entries : idx[i] # -1 => idx[i] \in 0..(m - 1) /\ c[idx[i]].ref = i
      /\ \A i \in 1..(m - 1) : c[heap_parent(i)].val <= c[i].val
  BY <1>2, <1>4 DEF HeapInv, HeapOrder
<1>9. pos \in 0..(m - 1) /\ c[pos].ref = e
  BY <1>1, <1>8 DEF Erase
<1>10. n \in Nat /\ m = n + 1 /\ 0..(m - 2) = 0..(n - 1) /\ n \in 0..(m - 1) /\ 0..(m - 1) = 0..(n - 1) \cup {n}
  BY <1>3, <1>8, <1>9
<1>11. \A i \in 0..(m - 1) : c[i].ref \in Entries /\ c[i].val \in Int
  BY <1>8 DEF Item
<1>12. b \in [0..(n - 1) -> Item]
  BY <1>6, <1>8, <1>10
<1>13. \A i \in 0..(n - 1) : i \in 0..(m - 1) /\ b[i] = IF i = pos THEN c[n] ELSE c[i]
  BY <1>3, <1>6, <1>10
<1>14. \A i \in 0..(m - 1) : c[i].ref = e => i = pos
  BY <1>8, <1>9, <1>11
<1>15. \A i \in 0..(m - 1) : \A j \in 0..(m - 1) : c[i].ref = c[j].ref => i = j
  BY <1>8
<1>16. ix \in [Entries -> Int] /\ \A i \in Entries : ix[i] = IF i = e THEN -1 ELSE idx[i]
  BY <1>5, <1>8
<1>17. ASSUME pos < m - 1 PROVE HeapInv' /\ Lists(b, n, Dl')
  <2>1. pos \in 0..(n - 1) /\ b[pos] = c[n] /\ pos # n
    BY <1>3, <1>9, <1>10, <1>13, <1>17
  <2>2. \A i \in 1..(n - 1) : /\ heap_parent(i) \in 0..(i - 1) /\ heap_parent(i) \in 0..(n - 1)
                              /\ i \in 1..(m - 1) /\ i \in 0..(n - 1)
    BY <1>10, Parents
  <2>3. HeapBut(b, n, pos)
    <3>1. ASSUME NEW i \in 1..(n - 1), i # pos, heap_parent(i) # pos
          PROVE  b[heap_parent(i)].val <= b[i].val
      <4>1. b[i] = c[i] /\ b[heap_parent(i)] = c[heap_parent(i)]
        BY <1>13, <2>2, <3>1
      <4>. QED
        BY <1>8, <2>2, <4>1
    <3>2. ASSUME NEW i \in 1..(n - 1), heap_parent(i) = pos, pos > 0
          PROVE  b[heap_parent(pos)].val <= b[i].val
      <4>1. pos < i /\ i # pos /\ pos \in 1..(n - 1) /\ pos \in 1..(m - 1)
        BY <1>10, <2>1, <2>2, <3>2
      <4>2. heap_parent(pos) # pos /\ heap_parent(pos) \in 0..(n - 1)
        BY <2>2, <4>1
      <4>3. b[i] = c[i] /\ b[heap_parent(pos)] = c[heap_parent(pos)]
        BY <1>13, <2>2, <4>1, <4>2
      <4>4. c[heap_parent(pos)].val <= c[pos].val /\ c[pos].val <= c[i].val
        BY <1>8, <2>2, <3>2, <4>1
      <4>5. c[heap_parent(pos)].val \in Int /\ c[pos].val \in Int /\ c[i].val \in Int
        BY <1>10, <1>11, <2>2, <4>1, <4>2
      <4>. QED
        BY <4>3, <4>4, <4>5
    <3>. QED
      BY <3>1, <3>2 DEF HeapBut
  <2>4. RefsBut(b, n, pos, ix)
    <3>1. ASSUME NEW i \in 0..(n - 1), NEW j \in 0..(n - 1), b[i].ref = b[j].ref PROVE i = j
      <4>1. i # n /\ j # n
        BY <1>10
      <4>. QED
        BY <1>10, <1>13, <1>15, <3>1, <4>1
    <3>2. ASSUME NEW i \in 0..(n - 1), i # pos PROVE ix[b[i].ref] = i
      BY <1>8, <1>11, <1>13, <1>14, <1>16, <3>2
    <3>3. ASSUME NEW o \in Entries, ix[o] # -1, o # b[pos].ref
          PROVE  ix[o] \in 0..(n - 1) /\ b[ix[o]].ref = o
      <4>1. o # e /\ ix[o] = idx[o] /\ idx[o] \in 0..(m - 1) /\ c[idx[o]].ref = o
        BY <1>8, <1>16, <3>3
      <4>2. idx[o] # n /\ idx[o] # pos
        BY <1>9, <2>1, <3>3, <4>1
      <4>3. idx[o] \in 0..(n - 1)
        BY <1>10, <4>1, <4>2
      <4>. QED
        BY <1>13, <4>1, <4>2, <4>3
    <3>. QED
      BY <1>16, <3>1, <3>2, <3>3 DEF RefsBut
  <2>. QED
    BY <1>7, <1>10, <1>12, <1>17, <2>1, <2>3, <2>4, UpdateInv
<1>18. ASSUME ~(pos < m - 1) PROVE HeapInv' /\ Lists(b, n, Dl')
  <2>1. pos = n /\ a' = b /\ idx' = ix /\ size' = n
    BY <1>3, <1>7, <1>9, <1>10, <1>18
  <2>2. \A i \in 0..(n - 1) : b[i] = c[i] /\ i # pos
    BY <1>10, <1>13, <2>1
  <2>3. \A i \in 0..(n - 1) : ix[b[i].ref] = i
    BY <1>8, <1>10, <1>11, <1>14, <1>16, <2>2
  <2>4. ASSUME NEW o \in Entries, ix[o] # -1 PROVE ix[o] \in 0..(n - 1) /\ b[ix[o]].ref = o
    <3>1. o # e /\ ix[o] = idx[o] /\ idx[o] \in 0..(m - 1) /\ c[idx[o]].ref = o
      BY <1>8, <1>16, <2>4
    <3>2. idx[o] # n
      BY <1>9, <2>1, <3>1
    <3>3. idx[o] \in 0..(n - 1)
      BY <1>10, <3>1, <3>2
    <3>. QED
      BY <2>2, <3>1, <3>3
  <2>5. \A i \in 1..(n - 1) : b[heap_parent(i)].val <= b[i].val
    <3>1. ASSUME NEW i \in 1..(n - 1) PROVE b[heap_parent(i)].val <= b[i].val
      <4>1. i \in Nat \ {0} /\ i \in 0..(n - 1) /\ i \in 1..(m - 1)
        BY <1>10
      <4>2. PICK q : q = heap_parent(i)
        OBVIOUS
      <4>3. q \in 0..(i - 1)
        BY <4>1, <4>2, Parents
      <4>4. q \in 0..(n - 1)
        BY <1>10, <4>1, <4>3
      <4>. QED
        BY <1>8, <2>2, <4>1, <4>2, <4>4
    <3>. QED
      BY <3>1
  <2>6. HeapInv'
    BY <1>10, <1>12, <1>16, <2>1, <2>3, <2>4, <2>5 DEF HeapInv, HeapOrder
  <2>7. HeapInv' => HeapLists'
    BY InvLists, PTL
  <2>8. PICK g : g = Dl'
    OBVIOUS
  <2>9. Lists(b, n, g)
    BY <2>1, <2>6, <2>7, <2>8 DEF HeapLists
  <2>. QED
    BY <2>6, <2>8, <2>9
<1>19. HeapInv' /\ Lists(b, n, Dl')
  BY <1>17, <1>18
<1>20. PICK dl : dl = Dl
  OBVIOUS
<1>21. PICK f : f = [i \in DOMAIN dl \ {e} |-> dl[i]]
  OBVIOUS
<1>22. Lists(c, m, dl)
  BY <1>2, <1>4, <1>20, InvLists DEF HeapLists
<1>23. e \in DOMAIN dl
  BY <1>9, <1>22 DEF Lists
<1>24. Lists(b, n, f)
  <2>1. f = [i \in DOMAIN f |-> f[i]] /\ DOMAIN f = DOMAIN dl \ {e} /\ DOMAIN f \subseteq Entries
    BY <1>21, <1>22 DEF Lists
  <2>2. ASSUME NEW i \in 0..(n - 1) PROVE f[b[i].ref] = b[i].val /\ b[i].ref \in DOMAIN f
    <3>1. PICK j : j = IF i = pos THEN n ELSE i
      OBVIOUS
    <3>2. j \in 0..(m - 1) /\ j # pos /\ b[i] = c[j]
      BY <1>10, <1>13, <3>1
    <3>3. c[j].ref # e /\ c[j].ref \in Entries
      BY <1>11, <1>14, <3>2
    <3>4. c[j].ref \in DOMAIN dl /\ dl[c[j].ref] = c[j].val
      BY <1>22, <3>2, <3>3 DEF Lists
    <3>. QED
      BY <1>21, <3>2, <3>3, <3>4
  <2>3. ASSUME NEW o \in DOMAIN f PROVE \E i \in 0..(n - 1) : b[i].ref = o
    <3>1. o \in DOMAIN dl /\ o # e /\ o \in Entries
      BY <2>1
    <3>2. PICK j \in 0..(m - 1) : c[j].ref = o
      BY <1>22, <3>1 DEF Lists
    <3>3. j # pos
      BY <1>9, <3>1, <3>2
    <3>4. CASE j = n
      <4>1. pos \in 0..(n - 1)
        BY <1>9, <1>10, <3>3, <3>4
      <4>. QED
        BY <1>13, <3>2, <3>4, <4>1
    <3>5. CASE j # n
      <4>1. j \in 0..(n - 1)
        BY <1>10, <3>2, <3>5
      <4>. QED
        BY <1>13, <3>2, <3>3, <4>1
    <3>. QED
      BY <3>4, <3>5
  <2>. QED
    BY <2>1, <2>2, <2>3 DEF Lists
<1>25. Dl' = f
  <2>1. PICK g : g = Dl'
    OBVIOUS
  <2>. QED
    BY <1>19, <1>24, <2>1, SameLists
<1>. QED
  BY <1>19, <1>20, <1>21, <1>23, <1>25

\* The root of a heap is its earliest item: each item is later than its
\* parent, whose position is smaller.
LEMMA RootEarliest ==
  ASSUME NEW n \in Nat, NEW b \in [0..(n - 1) -> Item], Ordered(b, n)
  PROVE  \A i \in 0..(n - 1) : b[0].val <= b[i].val
<1> DEFINE T == {i \in Nat : i < n => b[0].val <= b[i].val}
<1>0. \A i \in 0..(n - 1) : b[i].val \in Int
  BY DEF Item
<1>1. ASSUME NEW i \in Nat, \A j \in 0..(i - 1) : j \in T PROVE i \in T
  <2>1. SUFFICES ASSUME i < n PROVE b[0].val <= b[i].val
    OBVIOUS
  <2>2. CASE i = 0
    BY <1>0, <2>1, <2>2
  <2>3. CASE i # 0
    <3>1. i \in Nat \ {0} /\ i \in 1..(n - 1)
      BY <2>1, <2>3
    <3>2. PICK q : q = heap_parent(i)
      OBVIOUS
    <3>3. q \in 0..(i - 1)
      BY <3>1, <3>2, Parents
    <3>4. q \in Nat /\ q < n
      BY <2>1, <3>3
    <3>5. b[0].val <= b[q].val
      BY <1>1, <3>3, <3>4
    <3>6. b[q].val <= b[i].val
      BY <3>1, <3>2 DEF Ordered
    <3>7. b[0].val \in Int /\ b[q].val \in Int /\ b[i].val \in Int
      BY <1>0, <2>1, <3>3
    <3>. QED
      BY <3>5, <3>6, <3>7
  <2>. QED
    BY <2>2, <2>3
<1>2. \A i \in Nat : i \in T
  <2>. HIDE DEF T
  <2>. QED
    BY <1>1, Induct
<1>. QED
  BY <1>2

\* The empty heap satisfies the invariant.
LEMMA HeapInit_Inv == HeapInit => HeapInv
  BY DEF HeapInit, HeapInv, HeapOrder

\* Every operation keeps the invariant.
LEMMA HeapNext_Inv == HeapInv /\ [HeapNext]_heapVars => HeapInv'
<1> SUFFICES ASSUME HeapInv, [HeapNext]_heapVars PROVE HeapInv'
  OBVIOUS
<1>1. ASSUME NEW e \in Entries, ClearTtl(e) PROVE HeapInv'
  BY <1>1, EraseInv DEF ClearTtl
<1>2. ASSUME NEW e \in Entries, NEW d \in Deadlines, SetTtl(e, d) PROVE HeapInv'
  BY <1>2, SetTtlInv
<1>3. CASE TakeRoot
  <2>1. a[0].ref \in Entries
    BY <1>3 DEF TakeRoot, HeapInv, Item
  <2>2. PICK e \in Entries : e = a[0].ref
    BY <2>1
  <2>3. Erase(e)
    BY <1>3, <2>2 DEF TakeRoot
  <2>. QED
    BY <2>3, EraseInv
<1>4. CASE UNCHANGED heapVars
  BY <1>4 DEF heapVars, HeapInv, HeapOrder
<1>. QED
  BY <1>1, <1>2, <1>3, <1>4 DEF HeapNext

\* The invariant holds in every state, for any entries and deadlines.
THEOREM HeapInvariant == HeapSpec => []HeapInv
<1>. QED
  BY HeapInit_Inv, HeapNext_Inv, PTL DEF HeapSpec

\* No item is ever earlier than its parent, and heap_idx and the items always
\* refer to each other.
THEOREM HeapKeepsShape == HeapSpec => []HeapShape
<1>1. HeapInv => HeapShape
  BY DEF HeapInv, HeapShape, BackRefs
<1>. QED
  BY <1>1, HeapInvariant, PTL

\* The heap implements the map of deadlines: arming, disarming and expiring
\* one entry changes no other deadline, and what expires first is earliest.
THEOREM HeapImplementsTtlMap == HeapSpec => ImplementsTtlMap
<1>1. HeapInit => Abstract!MInit
  <2>1. SUFFICES ASSUME HeapInit PROVE Abstract!MInit
    OBVIOUS
  <2>2. {i \in Entries : idx[i] # -1} = {}
    BY <2>1 DEF HeapInit
  <2>. QED
    BY <2>1, <2>2 DEF HeapInit, Abstract!MInit
<1>2. ASSUME HeapInv, [HeapNext]_heapVars PROVE [Abstract!MNext]_(Abstract!mapVars)
  <2>1. ASSUME NEW e \in Entries, Erase(e) PROVE Abstract!Remove(e) /\ e \in DOMAIN Dl
    BY <1>2, <2>1, EraseInv DEF Abstract!Remove, Abstract!Restrict, Dl
  <2>2. ASSUME NEW e \in Entries, ClearTtl(e) PROVE Abstract!MNext
    BY <2>1, <2>2 DEF ClearTtl, Abstract!MNext, Abstract!Disarm
  <2>3. ASSUME NEW e \in Entries, NEW d \in Deadlines, SetTtl(e, d) PROVE Abstract!MNext
    <3>1. Abstract!Arm(e, d)
      BY <1>2, <2>3, SetTtlInv DEF SetTtl, Abstract!Arm, Dl
    <3>. QED
      BY <3>1 DEF Abstract!MNext
  <2>4. CASE TakeRoot
    <3>1. /\ size \in Nat /\ size > 0 /\ a \in [0..(size - 1) -> Item] /\ Ordered(a, size)
          /\ \A i \in Entries : idx[i] # -1 => idx[i] \in 0..(size - 1) /\ a[idx[i]].ref = i
          /\ idx[a[0].ref] = 0
      BY <1>2, <2>4 DEF HeapInv, TakeRoot, Ordered, HeapOrder
    <3>2. a[0].ref \in Entries
      BY <3>1 DEF Item
    <3>3. PICK e \in Entries : e = a[0].ref
      BY <3>2
    <3>4. Abstract!Remove(e) /\ e \in DOMAIN Dl /\ taken' = e
      BY <2>1, <2>4, <3>3 DEF TakeRoot
    <3>5. \A i \in 0..(size - 1) : a[0].val <= a[i].val
      BY <3>1, RootEarliest
    <3>6. \A i \in DOMAIN Dl : Dl[e] <= Dl[i]
      BY <3>1, <3>3, <3>4, <3>5 DEF Dl
    <3>7. Abstract!TakeEarliest
      BY <3>4, <3>6 DEF Abstract!TakeEarliest, Dl
    <3>. QED
      BY <3>7 DEF Abstract!MNext
  <2>5. CASE UNCHANGED heapVars
    BY <2>5 DEF heapVars, Abstract!mapVars
  <2>. QED
    BY <1>2, <2>2, <2>3, <2>4, <2>5 DEF HeapNext
<1>. QED
  BY <1>1, <1>2, HeapInvariant, PTL DEF HeapSpec, ImplementsTtlMap, Abstract!MSpec
=============================================================================
