--------------------------- MODULE JobListsLemmas ---------------------------
(***************************************************************************)
(* Doubly linked lists, for any set of cells: what it means that pointers  *)
(* hold a list, that following them gives it (ChainIs), and what each of   *)
(* the changes of pointers in JobLists makes of one.                       *)
(***************************************************************************)
EXTENDS JobLists, FiniteSetTheorems, WellFoundedInduction, TLAPS

\* A set of naturals has a least member.
LEMMA Least ==
  ASSUME NEW T \in SUBSET Nat, T # {}
  PROVE  \E n \in T : \A m \in T : n <= m
<1>1. PICK n \in T : \A m \in T : <<m, n>> \notin OpToRel(<, Nat)
  BY NatLessThanWellFounded, WFMin
<1>2. \A m \in T : ~(m < n)
  BY <1>1 DEF OpToRel
<1> QED BY <1>2
(***************************************************************************)
(* Lists                                                                   *)
(***************************************************************************)
\* The n cells x are those one meets from p along f.
Path(f, p, x, n) ==
  /\ n \in Nat
  /\ x \in [1..n -> Cells]
  /\ p = IF n = 0 THEN NULL ELSE x[1]
  /\ \A i \in 1..n : f[x[i]] = IF i = n THEN NULL ELSE x[i + 1]
  /\ \A i, j \in 1..n : x[i] = x[j] => i = j

\* ... and back along g, up to `before'.
Listed(f, g, before, p, x, n) ==
  /\ Path(f, p, x, n)
  /\ n > 0 => g[x[1]] = before
  /\ \A i \in 2..n : g[x[i]] = x[i - 1]

\* Its cells
Members(x, n) == {x[i] : i \in 1..n}

\* Functions with the same values are the same.
LEMMA SameFunction ==
  ASSUME NEW S, NEW a, NEW b, a = [x \in S |-> a[x]], b = [x \in S |-> b[x]],
         \A x \in S : a[x] = b[x]
  PROVE  a = b
OBVIOUS
\* The size of an interval
LEMMA Interval ==
  ASSUME NEW a \in Int, NEW b \in Int, a <= b + 1
  PROVE  IsFiniteSet(a..b) /\ Cardinality(a..b) = b - a + 1
<1>1. IsFiniteSet(a..b) /\ Cardinality(a..b) = IF a > b THEN 0 ELSE b - a + 1
  BY FS_Interval
<1> QED BY <1>1
\* Following the pointers from the head of a list visits it, and then stays at NULL.
LEMMA WalkIs ==
  ASSUME NEW f, NEW p, NEW s, NEW n, Path(f, p, s, n)
  PROVE  Walk(f, p) = [i \in Nat |-> IF i < n THEN s[i + 1] ELSE NULL]
<1> DEFINE W(x) == [i \in Nat |-> IF i = 0 THEN p
                       ELSE IF x[i - 1] = NULL THEN NULL ELSE f[x[i - 1]]]
           h == [i \in Nat |-> IF i < n THEN s[i + 1] ELSE NULL]
           g == Walk(f, p)
<1>1. h = W(h)
  <2>1. ASSUME NEW i \in Nat PROVE h[i] = W(h)[i]
    BY CellsAssumption DEF Path
  <2>2. h = [i \in Nat |-> h[i]]
    OBVIOUS
  <2>3. W(h) = [i \in Nat |-> W(h)[i]]
    OBVIOUS
  <2> HIDE DEF h, W
  <2> QED BY <2>1, <2>2, <2>3, SameFunction
<1>2. g = CHOOSE x : x = W(x)
  BY DEF Walk
<1>3. g = W(g)
  <2> HIDE DEF h, W, g
  <2> QED BY <1>1, <1>2
<1> DEFINE D == {i \in Nat : g[i] # h[i]}
<1>4. SUFFICES ASSUME D # {} PROVE FALSE
  <2>1. ASSUME D = {} PROVE g = h
    BY <2>1, <1>3
  <2> QED BY <2>1
<1>5. PICK k \in D : \A m \in D : k <= m
  BY <1>4, Least
<1> HIDE DEF g, h
<1>6. k # 0
  BY <1>3, <1>1
<1>7. g[k - 1] = h[k - 1]
  BY <1>5, <1>6
<1>8. g[k] = h[k]
  BY <1>7, <1>3, <1>1, <1>6
<1> QED BY <1>8, <1>5
\* So what is read off the pointers is the list.  It has no more cells than there are,
\* by the pigeonhole: this is where Cells must be finite.
LEMMA ChainIs ==
  ASSUME NEW f, NEW p, NEW s, NEW n, Path(f, p, s, n)
  PROVE  ChainOf(f, p) = s
<1>0. n \in Nat /\ s \in [1..n -> Cells] /\ Cardinality(Cells) \in Nat
  BY CellsAssumption, FS_CardinalityType DEF Path
<1>1. n <= Cardinality(Cells)
  <2>1. s \in Injection(1..n, Cells)
    BY DEF Path, Injection, IsInjective
  <2>2. Cardinality(1..n) = n
    BY <1>0, Interval
  <2>3. Cardinality(1..n) <= Cardinality(Cells)
    BY <2>1, FS_Injection, CellsAssumption
  <2> QED BY <2>2, <2>3
<1> DEFINE listed == {i \in 0..Cardinality(Cells) : Walk(f, p)[i] # NULL}
<1>2. listed = 0..(n - 1)
  <2>1. \A i \in 0..Cardinality(Cells) : Walk(f, p)[i] # NULL <=> i < n
    BY <1>0, WalkIs, CellsAssumption
  <2> QED BY <2>1, <1>0, <1>1
<1>3. Cardinality(listed) = n
  <2>1. Cardinality(0..(n - 1)) = n
    BY <1>0, Interval
  <2> HIDE DEF listed
  <2> QED BY <1>2, <2>1
<1>4. \A i \in 1..n : Walk(f, p)[i - 1] = s[i]
  BY <1>0, WalkIs
<1> HIDE DEF listed
<1>5. ChainOf(f, p) = [i \in 1..n |-> Walk(f, p)[i - 1]]
  BY <1>3 DEF ChainOf, listed
<1> QED BY <1>0, <1>4, <1>5

(***************************************************************************)
(* What the operations on lists do                                         *)
(***************************************************************************)
\* x with c in front, without its first, without its k-th; x and then y
Shifted(c, x, n) == [i \in 1..(n + 1) |-> IF i = 1 THEN c ELSE x[i - 1]]
Rest(x, n) == [i \in 1..(n - 1) |-> x[i + 1]]
Without(k, x, n) == [i \in 1..(n - 1) |-> IF i < k THEN x[i] ELSE x[i + 1]]
Joined(x, n, y, m) == [i \in 1..(n + m) |-> IF i <= n THEN x[i] ELSE y[i - n]]

\* How the pointers change, from f and g to ff and gg, when c is pushed in front of p,
\* when c leaves the list of p, which is that of q from then on, when the list of q is
\* joined after c, and when c is turned around
Pushing(f, g, ff, gg, c, p) ==
  /\ \A d \in Cells : ff[d] = IF d = c THEN p ELSE f[d]
  /\ \A d \in Cells : gg[d] = IF d = c THEN NULL ELSE IF d = p THEN c ELSE g[d]
Unlisting(f, g, p, ff, gg, q, c) ==
  /\ q = IF p = c THEN f[c] ELSE p
  /\ \A d \in Cells : ff[d] = IF p # c /\ d = g[c] THEN f[c] ELSE f[d]
  /\ \A d \in Cells : gg[d] = IF d = f[c] THEN g[c] ELSE g[d]
Joining(f, g, ff, gg, c, q) ==
  /\ \A d \in Cells : ff[d] = IF q # NULL /\ d = c THEN q ELSE f[d]
  /\ \A d \in Cells : gg[d] = IF d = q THEN c ELSE g[d]
Turning(f, g, ff, gg, c) ==
  /\ \A d \in Cells : ff[d] = IF d = c THEN g[c] ELSE f[d]
  /\ \A d \in Cells : gg[d] = IF d = c THEN f[c] ELSE g[d]

\* Only its own cells make a list; what comes before it matters only to its first.
LEMMA Undisturbed ==
  ASSUME NEW f, NEW g, NEW ff, NEW gg, NEW b, NEW p, NEW x, NEW n,
         Listed(f, g, b, p, x, n), NEW bb, n > 0 => bb = b,
         \A c \in Members(x, n) : ff[c] = f[c] /\ gg[c] = g[c]
  PROVE  Listed(ff, gg, bb, p, x, n)
<1>1. \A i \in 1..n : ff[x[i]] = f[x[i]] /\ gg[x[i]] = g[x[i]]
  BY DEF Members
<1>2. n \in Nat /\ (n > 0 => 1 \in 1..n) /\ \A i \in 2..n : i \in 1..n
  BY DEF Listed, Path
<1>3. Path(ff, p, x, n)
  BY <1>1 DEF Listed, Path
<1>4. (n > 0 => gg[x[1]] = bb) /\ \A i \in 2..n : gg[x[i]] = x[i - 1]
  BY <1>1, <1>2 DEF Listed
<1> QED BY <1>3, <1>4 DEF Listed

\* A list is empty when its head is NULL, and has one cell when the first has no next.
LEMMA EmptyList ==
  ASSUME NEW f, NEW g, NEW b, NEW p, NEW x, NEW n, Listed(f, g, b, p, x, n)
  PROVE  /\ p = NULL <=> n = 0
         /\ n = 0 <=> Members(x, n) = {}
         /\ Members(x, n) \subseteq Cells
         /\ n > 0 => p = x[1] /\ p \in Members(x, n)
         /\ n > 0 => (f[p] = NULL <=> n = 1)
<1>1. n \in Nat /\ x \in [1..n -> Cells]
  BY DEF Listed, Path
<1>2. n > 0 => 1 \in 1..n /\ x[1] \in Cells
  BY <1>1
<1>3. p = IF n = 0 THEN NULL ELSE x[1]
  BY DEF Listed, Path
<1>4. n > 0 => f[x[1]] = IF 1 = n THEN NULL ELSE x[2]
  BY <1>1 DEF Listed, Path
<1>5. n > 1 => x[2] \in Cells
  BY <1>1
<1> QED BY <1>1, <1>2, <1>3, <1>4, <1>5, CellsAssumption DEF Members

\* A cell in front of a list
LEMMA PushedInFront ==
  ASSUME NEW f \in [Cells -> Pointers], NEW g \in [Cells -> Pointers], NEW c \in Cells,
         NEW p, NEW x, NEW n, Listed(f, g, NULL, p, x, n), c \notin Members(x, n),
         NEW ff, NEW gg, Pushing(f, g, ff, gg, c, p)
  PROVE  /\ Listed(ff, gg, NULL, c, Shifted(c, x, n), n + 1)
         /\ Members(Shifted(c, x, n), n + 1) = Members(x, n) \cup {c}
<1> DEFINE y == Shifted(c, x, n)
<1>1. n \in Nat /\ x \in [1..n -> Cells]
  BY DEF Listed, Path
<1>2. /\ y \in [1..(n + 1) -> Cells] /\ y[1] = c
      /\ \A i \in 1..n : y[i + 1] = x[i]
      /\ \A i \in 2..(n + 1) : i - 1 \in 1..n /\ y[i] = x[i - 1]
  BY <1>1 DEF Shifted
<1>3. \A i \in 1..n : x[i] \in Members(x, n) /\ x[i] # c /\ x[i] # NULL /\ x[i] \in Cells
  BY <1>1, CellsAssumption DEF Members
<1>4. p = IF n = 0 THEN NULL ELSE x[1]
  BY DEF Listed, Path
<1>5. \A i \in 1..n : ff[x[i]] = IF i = n THEN NULL ELSE x[i + 1]
  BY <1>1, <1>3 DEF Listed, Path, Pushing
<1>6. ff[c] = p /\ gg[c] = NULL
  BY <1>1, <1>3, <1>4 DEF Pushing
<1>7. n > 0 => gg[x[1]] = c
  BY <1>1, <1>3, <1>4 DEF Pushing
<1>8. \A i \in 2..n : gg[x[i]] = x[i - 1]
  <2> TAKE i \in 2..n
  <2>1. g[x[i]] = x[i - 1] /\ x[i] # x[1] /\ x[i] # c /\ n > 0
    BY <1>1, <1>3 DEF Listed, Path
  <2> QED BY <1>1, <1>3, <1>4, <2>1 DEF Pushing
<1>9. \A i, j \in 1..(n + 1) : y[i] = y[j] => i = j
  <2>1. \A i, j \in 1..n : x[i] = x[j] => i = j
    BY DEF Listed, Path
  <2> HIDE DEF y
  <2> TAKE i, j \in 1..(n + 1)
  <2>2. CASE i = 1
    BY <1>1, <1>2, <1>3, <2>2
  <2>3. CASE j = 1
    BY <1>1, <1>2, <1>3, <2>3
  <2>4. CASE i \in 2..(n + 1) /\ j \in 2..(n + 1)
    <3>1. i - 1 \in 1..n /\ j - 1 \in 1..n /\ y[i] = x[i - 1] /\ y[j] = x[j - 1]
      BY <1>2, <2>4
    <3>2. x[i - 1] = x[j - 1] => i - 1 = j - 1
      BY <2>1, <3>1
    <3> QED BY <1>1, <2>4, <3>1, <3>2
  <2> QED BY <1>1, <2>2, <2>3, <2>4
<1>10. Members(y, n + 1) = Members(x, n) \cup {c}
  <2> HIDE DEF y
  <2>1. ASSUME NEW d \in Members(y, n + 1) PROVE d \in Members(x, n) \cup {c}
    <3>1. PICK i \in 1..(n + 1) : d = y[i]
      BY <2>1 DEF Members
    <3>2. CASE i = 1
      BY <1>2, <3>1, <3>2
    <3>3. CASE i # 1
      BY <1>1, <1>2, <3>1, <3>3 DEF Members
    <3> QED BY <3>2, <3>3
  <2>2. ASSUME NEW i \in 1..n PROVE x[i] \in Members(y, n + 1)
    BY <1>1, <1>2 DEF Members
  <2>3. c \in Members(y, n + 1)
    BY <1>1, <1>2 DEF Members
  <2> QED BY <2>1, <2>2, <2>3 DEF Members
<1>11. \A i \in 1..(n + 1) : ff[y[i]] = IF i = n + 1 THEN NULL ELSE y[i + 1]
  <2> HIDE DEF y
  <2> TAKE i \in 1..(n + 1)
  <2>1. CASE i = 1
    BY <1>1, <1>2, <1>4, <1>6, <2>1
  <2>2. CASE i # 1
    <3>1. i - 1 \in 1..n /\ y[i] = x[i - 1]
      BY <1>1, <1>2, <2>2
    <3>2. i # n + 1 => y[i + 1] = x[i]
      BY <1>1, <1>2
    <3> QED BY <1>1, <1>5, <3>1, <3>2
  <2> QED BY <2>1, <2>2
<1>12. \A i \in 2..(n + 1) : gg[y[i]] = y[i - 1]
  <2> HIDE DEF y
  <2> TAKE i \in 2..(n + 1)
  <2>1. CASE i = 2
    BY <1>1, <1>2, <1>7, <2>1
  <2>2. CASE i # 2
    <3>1. i - 1 \in 2..n /\ y[i] = x[i - 1] /\ y[i - 1] = x[i - 2]
      BY <1>1, <1>2, <2>2
    <3> QED BY <1>1, <1>8, <3>1
  <2> QED BY <2>1, <2>2
<1> HIDE DEF y
<1>13. Path(ff, c, y, n + 1)
  BY <1>1, <1>2, <1>9, <1>11 DEF Path
<1>14. Listed(ff, gg, NULL, c, y, n + 1)
  BY <1>1, <1>2, <1>6, <1>12, <1>13 DEF Listed
<1> QED BY <1>10, <1>14 DEF y

\* A list without its first cell
LEMMA RestOfList ==
  ASSUME NEW f, NEW g, NEW b, NEW p, NEW x, NEW n, Listed(f, g, b, p, x, n), n > 0
  PROVE  /\ Listed(f, g, p, f[p], Rest(x, n), n - 1)
         /\ Members(Rest(x, n), n - 1) = Members(x, n) \ {p}
<1> DEFINE y == Rest(x, n)
<1>1. n \in Nat /\ x \in [1..n -> Cells] /\ p = x[1] /\ 1 \in 1..n
  BY DEF Listed, Path
<1>2. /\ y \in [1..(n - 1) -> Cells]
      /\ \A i \in 1..(n - 1) : i + 1 \in 2..n /\ y[i] = x[i + 1]
  BY <1>1 DEF Rest
<1>3. \A i, j \in 1..n : x[i] = x[j] => i = j
  BY DEF Listed, Path
<1>4. \A i \in 1..n : f[x[i]] = IF i = n THEN NULL ELSE x[i + 1]
  BY DEF Listed, Path
<1>5. \A i \in 2..n : g[x[i]] = x[i - 1]
  BY DEF Listed
<1> HIDE DEF y
<1>6. f[p] = IF n - 1 = 0 THEN NULL ELSE y[1]
  BY <1>1, <1>2, <1>4
<1>7. \A i, j \in 1..(n - 1) : y[i] = y[j] => i = j
  BY <1>1, <1>2, <1>3
<1>8. \A i \in 1..(n - 1) : f[y[i]] = IF i = n - 1 THEN NULL ELSE y[i + 1]
  BY <1>1, <1>2, <1>4
<1>9. \A i \in 2..(n - 1) : g[y[i]] = y[i - 1]
  BY <1>1, <1>2, <1>5
<1>10. n - 1 > 0 => g[y[1]] = p
  BY <1>1, <1>2, <1>5
<1>11. Listed(f, g, p, f[p], y, n - 1)
  BY <1>1, <1>2, <1>6, <1>7, <1>8, <1>9, <1>10 DEF Listed, Path
<1>12. Members(y, n - 1) = Members(x, n) \ {p}
  <2>1. ASSUME NEW i \in 1..(n - 1) PROVE y[i] \in Members(x, n) /\ y[i] # p
    BY <1>1, <1>2, <1>3 DEF Members
  <2>2. ASSUME NEW i \in 1..n, x[i] # p PROVE x[i] \in Members(y, n - 1)
    <3>1. i - 1 \in 1..(n - 1) /\ y[i - 1] = x[i]
      BY <1>1, <1>2, <2>2
    <3> QED BY <3>1 DEF Members
  <2> QED BY <2>1, <2>2 DEF Members
<1> QED BY <1>11, <1>12 DEF y

\* A list without its k-th cell: what call_and_unlist_handler() does to the fields
LEMMA CellUnlisted ==
  ASSUME NEW f \in [Cells -> Pointers], NEW g \in [Cells -> Pointers],
         NEW p, NEW x, NEW n, Listed(f, g, NULL, p, x, n), NEW k \in 1..n,
         NEW ff, NEW gg,
         NEW q, Unlisting(f, g, p, ff, gg, q, x[k])
  PROVE  /\ Listed(ff, gg, NULL, q, Without(k, x, n), n - 1)
         /\ Members(Without(k, x, n), n - 1) = Members(x, n) \ {x[k]}
         /\ \A c \in Cells \ Members(x, n) : ff[c] = f[c] /\ gg[c] = g[c]
<1> DEFINE y == Without(k, x, n)
<1>1. n \in Nat /\ x \in [1..n -> Cells] /\ n > 0 /\ p = x[1] /\ 1 \in 1..n
  BY DEF Listed, Path
<1>2. /\ y \in [1..(n - 1) -> Cells]
      /\ \A i \in 1..(n - 1) : y[i] = IF i < k THEN x[i] ELSE x[i + 1]
  BY <1>1 DEF Without
<1>3. \A i, j \in 1..n : x[i] = x[j] => i = j
  BY DEF Listed, Path
<1>4. \A i \in 1..n : f[x[i]] = IF i = n THEN NULL ELSE x[i + 1]
  BY DEF Listed, Path
<1>5. \A i \in 1..n : g[x[i]] = IF i = 1 THEN NULL ELSE x[i - 1]
  BY <1>1 DEF Listed
<1>6. \A i \in 1..n : x[i] \in Cells /\ x[i] # NULL
  BY <1>1, CellsAssumption
<1>7. p = x[k] <=> k = 1
  BY <1>1, <1>3
<1>8. \A d \in Cells : ff[d] = IF k > 1 /\ d = x[k - 1] THEN f[x[k]] ELSE f[d]
  <2>1. CASE k = 1
    BY <1>7, <2>1 DEF Unlisting
  <2>2. CASE k > 1
    <3>1. g[x[k]] = x[k - 1] /\ x[k - 1] # NULL
      BY <1>1, <1>5, <1>6, <2>2
    <3> QED BY <1>7, <2>2, <3>1 DEF Unlisting
  <2> QED BY <1>1, <2>1, <2>2
<1>9. \A d \in Cells : gg[d] = IF k < n /\ d = x[k + 1] THEN g[x[k]] ELSE g[d]
  <2>1. CASE k = n
    <3>1. f[x[k]] = NULL
      BY <1>4, <2>1
    <3> QED BY <1>1, <2>1, <3>1, CellsAssumption DEF Unlisting
  <2>2. CASE k < n
    <3>1. f[x[k]] = x[k + 1] /\ x[k + 1] # NULL
      BY <1>1, <1>4, <1>6, <2>2
    <3> QED BY <2>2, <3>1 DEF Unlisting
  <2> QED BY <1>1, <2>1, <2>2
<1> HIDE DEF y
<1>10. \A i \in 1..n : ff[x[i]] = IF i = k - 1 THEN f[x[k]] ELSE f[x[i]]
  BY <1>1, <1>3, <1>6, <1>8
<1>11. \A i \in 1..n : gg[x[i]] = IF i = k + 1 THEN g[x[k]] ELSE g[x[i]]
  BY <1>1, <1>3, <1>6, <1>9
<1>12. q = IF n - 1 = 0 THEN NULL ELSE y[1]
  <2>1. CASE k = 1
    BY <1>1, <1>2, <1>4, <1>7, <2>1 DEF Unlisting
  <2>2. CASE k > 1
    BY <1>1, <1>2, <1>7, <2>2 DEF Unlisting
  <2> QED BY <1>1, <2>1, <2>2
<1>13. \A i, j \in 1..(n - 1) : y[i] = y[j] => i = j
  BY <1>1, <1>2, <1>3
<1>14. \A i \in 1..(n - 1) : ff[y[i]] = IF i = n - 1 THEN NULL ELSE y[i + 1]
  <2> TAKE i \in 1..(n - 1)
  <2>1. CASE i < k - 1
    <3>1. y[i] = x[i] /\ y[i + 1] = x[i + 1] /\ i \in 1..n /\ i # n - 1
      BY <1>1, <1>2, <2>1
    <3> QED BY <1>1, <1>4, <1>10, <2>1, <3>1
  <2>2. CASE i = k - 1
    <3>1. y[i] = x[i] /\ i \in 1..n /\ (i # n - 1 => y[i + 1] = x[k + 1])
      BY <1>1, <1>2, <2>2
    <3>2. ff[x[i]] = f[x[k]]
      BY <1>10, <2>2, <3>1
    <3>3. f[x[k]] = IF k = n THEN NULL ELSE x[k + 1]
      BY <1>4
    <3> QED BY <1>1, <2>2, <3>1, <3>2, <3>3
  <2>3. CASE i >= k
    <3>1. y[i] = x[i + 1] /\ i + 1 \in 1..n /\ (i # n - 1 => y[i + 1] = x[i + 2])
      <4>1. y[i] = x[i + 1] /\ i + 1 \in 1..n
        BY <1>1, <1>2, <2>3
      <4>2. i # n - 1 => i + 1 \in 1..(n - 1) /\ ~(i + 1 < k) /\ i + 1 + 1 = i + 2
        BY <1>1, <2>3
      <4>3. i # n - 1 => y[i + 1] = x[i + 1 + 1]
        BY <1>2, <4>2
      <4> QED BY <4>1, <4>2, <4>3
    <3>2. ff[x[i + 1]] = f[x[i + 1]]
      BY <1>1, <1>10, <2>3, <3>1
    <3>3. f[x[i + 1]] = IF i + 1 = n THEN NULL ELSE x[i + 2]
      <4>1. i + 1 + 1 = i + 2
        BY <1>1
      <4> QED BY <1>4, <3>1, <4>1
    <3>4. i + 1 = n <=> i = n - 1
      BY <1>1
    <3> QED BY <3>1, <3>2, <3>3, <3>4
  <2> QED BY <1>1, <2>1, <2>2, <2>3
<1>15. \A i \in 1..(n - 1) : gg[y[i]] = IF i = 1 THEN NULL ELSE y[i - 1]
  <2> TAKE i \in 1..(n - 1)
  <2>1. CASE i < k
    <3>1. y[i] = x[i] /\ i \in 1..n /\ (i # 1 => y[i - 1] = x[i - 1])
      BY <1>1, <1>2, <2>1
    <3>2. gg[x[i]] = g[x[i]]
      BY <1>1, <1>11, <2>1, <3>1
    <3> QED BY <1>1, <1>5, <3>1, <3>2
  <2>2. CASE i = k
    <3>1. y[i] = x[k + 1] /\ k + 1 \in 1..n /\ (i # 1 => y[i - 1] = x[k - 1])
      BY <1>1, <1>2, <2>2
    <3>2. gg[x[k + 1]] = g[x[k]]
      BY <1>1, <1>11, <3>1
    <3>3. g[x[k]] = IF k = 1 THEN NULL ELSE x[k - 1]
      BY <1>5
    <3> QED BY <2>2, <3>1, <3>2, <3>3
  <2>3. CASE i > k
    <3>1. y[i] = x[i + 1] /\ i + 1 \in 1..n /\ y[i - 1] = x[i] /\ i # 1
      BY <1>1, <1>2, <2>3
    <3>2. gg[x[i + 1]] = g[x[i + 1]]
      BY <1>1, <1>11, <2>3, <3>1
    <3>3. g[x[i + 1]] = x[i]
      BY <1>1, <1>5, <3>1
    <3> QED BY <3>1, <3>2, <3>3
  <2> QED BY <1>1, <2>1, <2>2, <2>3
<1>16. Path(ff, q, y, n - 1)
  BY <1>1, <1>2, <1>12, <1>13, <1>14 DEF Path
<1>17. Listed(ff, gg, NULL, q, y, n - 1)
  <2>1. n - 1 > 0 => 1 \in 1..(n - 1)
    BY <1>1
  <2>2. \A i \in 2..(n - 1) : i \in 1..(n - 1) /\ i # 1
    BY <1>1
  <2>3. n - 1 > 0 => gg[y[1]] = NULL
    BY <1>15, <2>1
  <2>4. \A i \in 2..(n - 1) : gg[y[i]] = y[i - 1]
    BY <1>15, <2>2
  <2> QED BY <1>16, <2>3, <2>4 DEF Listed
<1>18. Members(y, n - 1) = Members(x, n) \ {x[k]}
  <2>1. ASSUME NEW i \in 1..(n - 1) PROVE y[i] \in Members(x, n) /\ y[i] # x[k]
    <3>1. CASE i < k
      <4>1. y[i] = x[i] /\ i \in 1..n
        BY <1>1, <1>2, <3>1
      <4> QED BY <1>3, <3>1, <4>1 DEF Members
    <3>2. CASE i >= k
      <4>1. y[i] = x[i + 1] /\ i + 1 \in 1..n
        BY <1>1, <1>2, <3>2
      <4> QED BY <1>3, <3>2, <4>1 DEF Members
    <3> QED BY <1>1, <3>1, <3>2
  <2>2. ASSUME NEW i \in 1..n, x[i] # x[k] PROVE x[i] \in Members(y, n - 1)
    <3>1. CASE i < k
      <4>1. y[i] = x[i] /\ i \in 1..(n - 1)
        BY <1>1, <1>2, <3>1
      <4> QED BY <4>1 DEF Members
    <3>2. CASE i > k
      <4>1. y[i - 1] = x[i] /\ i - 1 \in 1..(n - 1)
        BY <1>1, <1>2, <3>2
      <4> QED BY <4>1 DEF Members
    <3> QED BY <1>1, <2>2, <3>1, <3>2
  <2> QED BY <2>1, <2>2 DEF Members
<1>19. \A c \in Cells \ Members(x, n) : ff[c] = f[c] /\ gg[c] = g[c]
  BY <1>1, <1>8, <1>9 DEF Members
<1> QED BY <1>17, <1>18, <1>19 DEF y

\* One list in front of another
LEMMA ListsJoined ==
  ASSUME NEW f \in [Cells -> Pointers], NEW g \in [Cells -> Pointers],
         NEW p, NEW x, NEW n, Listed(f, g, NULL, p, x, n), n > 0,
         NEW q, NEW y, NEW m, Listed(f, g, NULL, q, y, m),
         Members(x, n) \cap Members(y, m) = {},
         NEW ff, NEW gg,
         Joining(f, g, ff, gg, x[n], q)
  PROVE  /\ Listed(ff, gg, NULL, p, Joined(x, n, y, m), n + m)
         /\ Members(Joined(x, n, y, m), n + m) = Members(x, n) \cup Members(y, m)
<1> DEFINE z == Joined(x, n, y, m)
<1>1. /\ n \in Nat /\ x \in [1..n -> Cells] /\ p = x[1] /\ n \in 1..n
      /\ m \in Nat /\ y \in [1..m -> Cells]
  BY DEF Listed, Path
<1>2. /\ z \in [1..(n + m) -> Cells]
      /\ \A i \in 1..(n + m) : z[i] = IF i <= n THEN x[i] ELSE y[i - n]
  BY <1>1 DEF Joined
<1>3. /\ \A i, j \in 1..n : x[i] = x[j] => i = j
      /\ \A i, j \in 1..m : y[i] = y[j] => i = j
  BY DEF Listed, Path
<1>4. \A i \in 1..n, j \in 1..m : x[i] # y[j]
  BY DEF Members
<1>5. /\ \A i \in 1..n : f[x[i]] = IF i = n THEN NULL ELSE x[i + 1]
      /\ \A i \in 1..m : f[y[i]] = IF i = m THEN NULL ELSE y[i + 1]
  BY DEF Listed, Path
<1>6. /\ \A i \in 1..n : g[x[i]] = IF i = 1 THEN NULL ELSE x[i - 1]
      /\ \A i \in 1..m : g[y[i]] = IF i = 1 THEN NULL ELSE y[i - 1]
  BY <1>1 DEF Listed
<1>7. q = IF m = 0 THEN NULL ELSE y[1]
  BY DEF Listed, Path
<1>8. \A i \in 1..m : y[i] # NULL
  BY <1>1, CellsAssumption
<1> HIDE DEF z
<1>9. CASE m = 0
  <2>1. z = x /\ Members(y, m) = {}
    BY <1>1, <1>2, <1>7, <1>9 DEF Members
  <2>4. Listed(ff, gg, NULL, p, x, n)
    <3>1. \A d \in Cells : ff[d] = f[d] /\ gg[d] = g[d]
      BY <1>7, <1>9, CellsAssumption DEF Joining
    <3>2. \A d \in Members(x, n) : ff[d] = f[d] /\ gg[d] = g[d]
      BY <1>1, <3>1 DEF Members
    <3> QED BY <3>2, Undisturbed
  <2>2. n + m = n
    BY <1>1, <1>9
  <2> HIDE DEF z
  <2>3. /\ Listed(ff, gg, NULL, p, z, n + m)
        /\ Members(z, n + m) = Members(x, n) \cup Members(y, m)
    BY <2>1, <2>2, <2>4
  <2> QED BY <2>3 DEF z
<1>10. CASE m > 0
  <2>1. /\ \A d \in Cells : ff[d] = IF d = x[n] THEN y[1] ELSE f[d]
        /\ \A d \in Cells : gg[d] = IF d = y[1] THEN x[n] ELSE g[d]
        /\ 1 \in 1..m /\ x[n] \in Cells /\ y[1] \in Cells
    <3>1. 1 \in 1..m
      BY <1>1, <1>10
    <3>2. q = y[1] /\ q # NULL
      BY <1>7, <1>8, <1>10, <3>1
    <3> QED BY <1>1, <3>1, <3>2 DEF Joining
  <2>2. /\ \A i \in 1..n : ff[x[i]] = IF i = n THEN y[1] ELSE x[i + 1]
        /\ \A i \in 1..m : ff[y[i]] = IF i = m THEN NULL ELSE y[i + 1]
    BY <1>1, <1>3, <1>4, <1>5, <2>1
  <2>3. /\ \A i \in 1..n : gg[x[i]] = IF i = 1 THEN NULL ELSE x[i - 1]
        /\ \A i \in 1..m : gg[y[i]] = IF i = 1 THEN x[n] ELSE y[i - 1]
    BY <1>1, <1>3, <1>4, <1>6, <2>1
  <2>4. \A i, j \in 1..(n + m) : z[i] = z[j] => i = j
    <3> TAKE i, j \in 1..(n + m)
    <3>1. CASE i <= n /\ j <= n
      BY <1>1, <1>2, <1>3, <3>1
    <3>2. CASE i <= n /\ j > n
      BY <1>1, <1>2, <1>4, <3>2
    <3>3. CASE i > n /\ j <= n
      BY <1>1, <1>2, <1>4, <3>3
    <3>4. CASE i > n /\ j > n
      <4>1. i - n \in 1..m /\ j - n \in 1..m /\ z[i] = y[i - n] /\ z[j] = y[j - n]
        BY <1>1, <1>2, <3>4
      <4>2. z[i] = z[j] => i - n = j - n
        BY <1>3, <4>1
      <4> QED BY <1>1, <4>2
    <3> QED BY <1>1, <3>1, <3>2, <3>3, <3>4
  <2>5. \A i \in 1..(n + m) : ff[z[i]] = IF i = n + m THEN NULL ELSE z[i + 1]
    <3> TAKE i \in 1..(n + m)
    <3>1. CASE i < n
      <4>1. /\ i \in 1..n /\ i # n /\ i # n + m
            /\ z[i] = x[i] /\ z[i + 1] = x[i + 1]
        BY <1>1, <1>2, <3>1
      <4> QED BY <2>2, <4>1
    <3>2. CASE i = n
      BY <1>1, <1>2, <1>10, <2>2, <3>2
    <3>3. CASE i > n
      <4>1. i - n \in 1..m /\ z[i] = y[i - n] /\ (i # n + m => z[i + 1] = y[i - n + 1])
        <5>1. i - n \in 1..m /\ z[i] = y[i - n]
          BY <1>1, <1>2, <3>3
        <5>2. i # n + m => i + 1 \in 1..(n + m) /\ ~(i + 1 <= n) /\ i + 1 - n = i - n + 1
          BY <1>1, <3>3
        <5>3. i # n + m => z[i + 1] = y[i + 1 - n]
          BY <1>1, <1>2, <5>2
        <5> QED BY <5>1, <5>2, <5>3
      <4>2. i - n = m <=> i = n + m
        BY <1>1
      <4> QED BY <2>2, <4>1, <4>2
    <3> QED BY <1>1, <3>1, <3>2, <3>3
  <2>6. \A i \in 1..(n + m) : gg[z[i]] = IF i = 1 THEN NULL ELSE z[i - 1]
    <3> TAKE i \in 1..(n + m)
    <3>1. CASE i <= n
      BY <1>1, <1>2, <2>3, <3>1
    <3>2. CASE i = n + 1
      <4>1. z[i] = y[1] /\ z[i - 1] = x[n] /\ i # 1
        BY <1>1, <1>2, <3>2
      <4> QED BY <2>1, <2>3, <4>1
    <3>3. CASE i > n + 1
      <4>1. i - n \in 2..m /\ z[i] = y[i - n] /\ z[i - 1] = y[i - n - 1] /\ i # 1
        BY <1>1, <1>2, <3>3
      <4> QED BY <1>1, <2>3, <4>1
    <3> QED BY <1>1, <3>1, <3>2, <3>3
  <2>7. z[1] = p
    BY <1>1, <1>2
  <2>8. Path(ff, p, z, n + m)
    BY <1>1, <1>2, <2>4, <2>5, <2>7 DEF Path
  <2>9. Listed(ff, gg, NULL, p, z, n + m)
    BY <1>1, <2>6, <2>8 DEF Listed
  <2>10. Members(z, n + m) = Members(x, n) \cup Members(y, m)
    <3>1. ASSUME NEW i \in 1..(n + m) PROVE z[i] \in Members(x, n) \cup Members(y, m)
      <4>1. CASE i <= n
        BY <1>1, <1>2, <4>1 DEF Members
      <4>2. CASE i > n
        <5>1. i - n \in 1..m /\ z[i] = y[i - n]
          BY <1>1, <1>2, <4>2
        <5> QED BY <5>1 DEF Members
      <4> QED BY <1>1, <4>1, <4>2
    <3>2. ASSUME NEW i \in 1..n PROVE x[i] \in Members(z, n + m)
      <4>1. z[i] = x[i] /\ i \in 1..(n + m)
        BY <1>1, <1>2
      <4> QED BY <4>1 DEF Members
    <3>3. ASSUME NEW i \in 1..m PROVE y[i] \in Members(z, n + m)
      <4>1. z[n + i] = y[i] /\ n + i \in 1..(n + m)
        BY <1>1, <1>2
      <4> QED BY <4>1 DEF Members
    <3> QED BY <3>1, <3>2, <3>3 DEF Members
  <2> QED BY <2>9, <2>10 DEF z
<1> QED BY <1>1, <1>9, <1>10

\* A cell goes from one list to the front of another, turned around: a are the
\* cells that are still to be turned, b those that have been.
LEMMA CellTurned ==
  ASSUME NEW f \in [Cells -> Pointers], NEW g \in [Cells -> Pointers],
         NEW p, NEW a, NEW n, NEW q, NEW b, NEW m,
         Listed(f, g, q, p, a, n), n > 0, Listed(f, g, p, q, b, m),
         Members(a, n) \cap Members(b, m) = {},
         NEW ff, NEW gg, Turning(f, g, ff, gg, p)
  PROVE  /\ Listed(ff, gg, p, f[p], Rest(a, n), n - 1)
         /\ Members(Rest(a, n), n - 1) = Members(a, n) \ {p}
         /\ Listed(ff, gg, f[p], p, Shifted(p, b, m), m + 1)
         /\ Members(Shifted(p, b, m), m + 1) = Members(b, m) \cup {p}
<1>1. /\ Listed(f, g, p, f[p], Rest(a, n), n - 1)
      /\ Members(Rest(a, n), n - 1) = Members(a, n) \ {p}
  BY RestOfList
<1>2. p \in Cells /\ p \in Members(a, n) /\ g[p] = q /\ p \notin Members(b, m)
  <2>1. p = a[1] /\ p \in Members(a, n) /\ Members(a, n) \subseteq Cells
    BY EmptyList
  <2>2. g[a[1]] = q
    BY DEF Listed
  <2> QED BY <2>1, <2>2
<1>3. Listed(ff, gg, p, f[p], Rest(a, n), n - 1)
  <2>1. \A c \in Members(Rest(a, n), n - 1) : ff[c] = f[c] /\ gg[c] = g[c]
    BY <1>1, EmptyList DEF Turning
  <2> QED BY <1>1, <2>1, Undisturbed
<1> DEFINE y == Shifted(p, b, m)
<1>4. m \in Nat /\ b \in [1..m -> Cells]
  BY DEF Listed, Path
<1>5. /\ y \in [1..(m + 1) -> Cells] /\ y[1] = p
      /\ \A i \in 2..(m + 1) : i - 1 \in 1..m /\ y[i] = b[i - 1]
  BY <1>2, <1>4 DEF Shifted
<1>6. \A i \in 1..m : b[i] # p /\ b[i] \in Cells
  BY <1>2, <1>4 DEF Members
<1>7. ff[p] = q /\ gg[p] = f[p] /\ \A i \in 1..m : ff[b[i]] = f[b[i]] /\ gg[b[i]] = g[b[i]]
  BY <1>2, <1>6 DEF Turning
<1>8. /\ \A i \in 1..m : f[b[i]] = IF i = m THEN NULL ELSE b[i + 1]
      /\ \A i, j \in 1..m : b[i] = b[j] => i = j
      /\ q = IF m = 0 THEN NULL ELSE b[1]
      /\ \A i \in 1..m : g[b[i]] = IF i = 1 THEN p ELSE b[i - 1]
  BY <1>4 DEF Listed, Path
<1> HIDE DEF y
<1>9. \A i, j \in 1..(m + 1) : y[i] = y[j] => i = j
  <2> TAKE i, j \in 1..(m + 1)
  <2>1. CASE i = 1 \/ j = 1
    BY <1>4, <1>5, <1>6, <2>1
  <2>2. CASE i \in 2..(m + 1) /\ j \in 2..(m + 1)
    BY <1>4, <1>5, <1>8, <2>2
  <2> QED BY <1>4, <2>1, <2>2
<1>10. \A i \in 1..(m + 1) : ff[y[i]] = IF i = m + 1 THEN NULL ELSE y[i + 1]
  <2> TAKE i \in 1..(m + 1)
  <2>1. CASE i = 1
    BY <1>4, <1>5, <1>7, <1>8, <2>1
  <2>2. CASE i # 1
    <3>1. i - 1 \in 1..m /\ y[i] = b[i - 1] /\ (i # m + 1 => y[i + 1] = b[i])
      BY <1>4, <1>5, <2>2
    <3> QED BY <1>4, <1>7, <1>8, <3>1
  <2> QED BY <2>1, <2>2
<1>11. \A i \in 2..(m + 1) : gg[y[i]] = y[i - 1]
  <2> TAKE i \in 2..(m + 1)
  <2>1. CASE i = 2
    BY <1>4, <1>5, <1>7, <1>8, <2>1
  <2>2. CASE i # 2
    <3>1. i - 1 \in 2..m /\ y[i] = b[i - 1] /\ y[i - 1] = b[i - 2]
      BY <1>4, <1>5, <2>2
    <3> QED BY <1>4, <1>7, <1>8, <3>1
  <2> QED BY <2>1, <2>2
<1>12. Listed(ff, gg, f[p], p, y, m + 1)
  BY <1>4, <1>5, <1>7, <1>9, <1>10, <1>11 DEF Listed, Path
<1>13. Members(y, m + 1) = Members(b, m) \cup {p}
  <2>1. ASSUME NEW i \in 1..(m + 1) PROVE y[i] \in Members(b, m) \cup {p}
    <3>1. CASE i = 1
      BY <1>5, <3>1
    <3>2. CASE i # 1
      BY <1>4, <1>5, <3>2 DEF Members
    <3> QED BY <3>1, <3>2
  <2>2. ASSUME NEW i \in 1..m PROVE b[i] \in Members(y, m + 1)
    <3>1. i + 1 \in 2..(m + 1) /\ i + 1 - 1 = i
      BY <1>4
    <3>2. y[i + 1] = b[i] /\ i + 1 \in 1..(m + 1)
      BY <1>4, <1>5, <3>1
    <3> QED BY <3>2 DEF Members
  <2>3. p \in Members(y, m + 1)
    BY <1>4, <1>5 DEF Members
  <2> QED BY <2>1, <2>2, <2>3 DEF Members
<1> QED BY <1>1, <1>3, <1>12, <1>13 DEF y
=============================================================================
