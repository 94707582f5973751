--------------------------- MODULE LiballocProofs ---------------------------
(***************************************************************************)
(* Proofs about the kernel heap, for any owners, sizes and alignment: the  *)
(* lists keep the blocks apart and inside their majors, the running totals *)
(* agree with the lists, pages are only asked for when no hole is left,    *)
(* and, until a freed stack is freed under a new owner, every owner has a  *)
(* block of its own that is long enough.                                   *)
(***************************************************************************)
EXTENDS Liballoc, FiniteSetTheorems, SequenceTheorems, TLAPS

-----------------------------------------------------------------------------
(***************************************************************************)
(* Induction on the numbers of an interval, and functions defined by it.   *)
(***************************************************************************)
\* A set of numbers that is not empty has a least one.
LEMMA Least ==
    ASSUME NEW S \in SUBSET Nat, S # {}
    PROVE  \E i \in S : \A j \in S : i <= j
  <1>1. PICK i \in S : \A j \in S : ~(<< j, i >> \in OpToRel(<, Nat))
    BY NatLessThanWellFounded, WFMin
  <1>2. \A j \in S : ~(j < i)
    BY <1>1 DEF OpToRel
  <1>3. QED
    BY <1>2

\* What holds at 0 and is passed on holds up to n.
LEMMA Upwards ==
    ASSUME NEW n \in Nat, NEW S, 0 \in S,
           \A k \in 1 .. n : k - 1 \in S => k \in S
    PROVE  \A k \in 0 .. n : k \in S
  <1> DEFINE bad == {k \in Nat : k \in 0 .. n /\ k \notin S}
  <1>1. ASSUME bad # {} PROVE FALSE
    <2>1. PICK m \in bad : \A j \in bad : m <= j
      <3>1. bad \in SUBSET Nat
        OBVIOUS
      <3>2. QED
        BY <1>1, <3>1, Least
    <2>2. m \in Nat /\ m \in 0 .. n /\ m \notin S /\ m # 0
      OBVIOUS
    <2>3. m \in 1 .. n /\ m - 1 \in Nat /\ m - 1 \in 0 .. n
      BY <2>2
    <2>4. m - 1 \notin bad
      BY <2>1, <2>3
    <2>5. QED
      BY <2>2, <2>3, <2>4
  <1>2. QED
    BY <1>1

\* f begins with a and goes on by the steps F[1] to F[n].
Steps(f, n, T, a, F) ==
    /\ f \in [0 .. n -> T] /\ f[0] = a
    /\ \A k \in 1 .. n : f[k] = F[k][f[k - 1]]

\* There is such an f.
LEMMA StepsExist ==
    ASSUME NEW n \in Nat, NEW T, NEW a \in T, NEW F \in [1 .. n -> [T -> T]]
    PROVE  \E f : Steps(f, n, T, a, F)
  <1> DEFINE S == {m \in Nat : \E f : Steps(f, m, T, a, F)}
  <1>1. 0 \in S
    <2>1. PICK f : f = [i \in 0 .. 0 |-> a]
      OBVIOUS
    <2>2. Steps(f, 0, T, a, F)
      BY <2>1 DEF Steps
    <2>3. QED
      BY <2>2
  <1>2. ASSUME NEW k \in 1 .. n, k - 1 \in S PROVE k \in S
    <2>1. PICK g : Steps(g, k - 1, T, a, F)
      BY <1>2
    <2>2. /\ g \in [0 .. k - 1 -> T] /\ g[0] = a
          /\ \A i \in 1 .. k - 1 : g[i] = F[i][g[i - 1]]
      BY <2>1 DEF Steps
    <2>3. k \in Nat /\ k - 1 \in 0 .. k - 1 /\ g[k - 1] \in T
      BY <2>2
    <2>4. PICK t \in T : t = F[k][g[k - 1]]
      BY <2>3
    <2>5. PICK f : f = [i \in 0 .. k |-> IF i = k THEN t ELSE g[i]]
      OBVIOUS
    <2>6. \A i \in 0 .. k - 1 : f[i] = g[i]
      BY <2>3, <2>5
    <2>7. f[k] = t
      BY <2>3, <2>5
    <2>8. f \in [0 .. k -> T]
      <3>1. \A i \in 0 .. k : (IF i = k THEN t ELSE g[i]) \in T
        BY <2>2, <2>3, <2>4
      <3>2. QED
        BY <2>5, <3>1
    <2>9. ASSUME NEW i \in 1 .. k PROVE f[i] = F[i][f[i - 1]]
      <3>1. CASE i = k
        BY <2>3, <2>4, <2>6, <2>7, <3>1
      <3>2. CASE i # k
        <4>1. i \in 1 .. k - 1 /\ i \in 0 .. k - 1 /\ i - 1 \in 0 .. k - 1
          BY <2>3, <3>2
        <4>2. QED
          BY <2>2, <2>6, <4>1
      <3>3. QED
        BY <3>1, <3>2
    <2>10. f[0] = a
      BY <2>2, <2>3, <2>6
    <2>11. Steps(f, k, T, a, F)
      BY <2>8, <2>9, <2>10 DEF Steps
    <2>12. QED
      BY <2>3, <2>11
  <1>3. \A k \in 0 .. n : k \in S
    <2> HIDE DEF S
    <2>1. QED
      BY <1>1, <1>2, Upwards
  <1>4. n \in S
    BY <1>3
  <1>5. QED
    BY <1>4

-----------------------------------------------------------------------------
(***************************************************************************)
(* Sums.                                                                   *)
(***************************************************************************)
\* The partial sums of f[1] to f[n].
Partial(s, n, f) == s \in [0 .. n -> Int] /\ s[0] = 0 /\ \A k \in 1 .. n : s[k] = s[k - 1] + f[k]

\* SumTo is the last of the partial sums.
LEMMA SumIs ==
    ASSUME NEW n \in Nat, NEW f \in [1 .. n -> Int]
    PROVE  \E s : Partial(s, n, f) /\ SumTo(n, f) = s[n]
  <1>1. PICK F \in [1 .. n -> [Int -> Int]] : \A k \in 1 .. n : \A x \in Int : F[k][x] = x + f[k]
    <2>1. [k \in 1 .. n |-> [x \in Int |-> x + f[k]]] \in [1 .. n -> [Int -> Int]]
      OBVIOUS
    <2>2. QED
      BY <2>1
  <1>2. PICK s : s = CHOOSE g : g = [k \in 0 .. n |-> IF k = 0 THEN 0 ELSE g[k - 1] + f[k]]
    OBVIOUS
  <1>3. SumTo(n, f) = s[n]
    BY <1>2 DEF SumTo
  <1> DEFINE body(g) == [k \in 0 .. n |-> IF k = 0 THEN 0 ELSE g[k - 1] + f[k]]
  <1>4. \E g : g = body(g)
    <2>1. PICK g : Steps(g, n, Int, 0, F)
      <3>1. 0 \in Int
        OBVIOUS
      <3>2. QED
        BY <3>1, StepsExist, Zenon
    <2>2. g \in [0 .. n -> Int] /\ g[0] = 0 /\ \A k \in 1 .. n : g[k] = F[k][g[k - 1]]
      BY <2>1 DEF Steps
    <2>3. ASSUME NEW k \in 1 .. n PROVE g[k] = g[k - 1] + f[k]
      <3>1. k - 1 \in 0 .. n /\ g[k - 1] \in Int
        BY <2>2
      <3>2. QED
        BY <1>1, <2>2, <3>1, Zenon
    <2>4. ASSUME NEW k \in 0 .. n PROVE g[k] = body(g)[k]
      BY <2>2, <2>3
    <2>5. g = body(g)
      BY <2>2, <2>4
    <2>6. QED
      BY <2>5
  <1>5. s = body(s)
    BY <1>2, <1>4
  <1>6. DOMAIN s = 0 .. n /\ s[0] = 0 /\ \A k \in 1 .. n : s[k] = s[k - 1] + f[k]
    <2>1. DOMAIN s = 0 .. n
      BY <1>5
    <2>2. s[0] = 0
      BY <1>5
    <2>3. ASSUME NEW k \in 1 .. n PROVE s[k] = s[k - 1] + f[k]
      <3>1. k \in 0 .. n /\ k # 0
        OBVIOUS
      <3>2. body(s)[k] = s[k - 1] + f[k]
        BY <3>1
      <3>3. QED
        BY <1>5, <3>2, Zenon
    <2>4. QED
      BY <2>1, <2>2, <2>3
  <1>7. \A k \in 0 .. n : s[k] \in Int
    <2> DEFINE S == {k \in Nat : s[k] \in Int}
    <2>1. 0 \in S
      BY <1>6
    <2>2. ASSUME NEW k \in 1 .. n, k - 1 \in S PROVE k \in S
      BY <1>6, <2>2
    <2> HIDE DEF S
    <2>3. \A k \in 0 .. n : k \in S
      BY <2>1, <2>2, Upwards
    <2>4. QED
      BY <2>3 DEF S
  <1>8. s \in [0 .. n -> Int]
    BY <1>5, <1>6, <1>7
  <1>9. QED
    BY <1>3, <1>6, <1>8 DEF Partial

\* A sum with one more summand, at place i.
LEMMA SumInsert ==
    ASSUME NEW n \in Nat, NEW i \in 1 .. n + 1,
           NEW f \in [1 .. n -> Int], NEW g \in [1 .. n + 1 -> Int],
           \A j \in 1 .. i - 1 : g[j] = f[j],
           \A j \in i .. n : g[j + 1] = f[j]
    PROVE  /\ SumTo(n, f) \in Int /\ SumTo(n + 1, g) \in Int
           /\ SumTo(n + 1, g) = SumTo(n, f) + g[i]
  <1>1. PICK s : Partial(s, n, f) /\ SumTo(n, f) = s[n]
    BY SumIs
  <1>2. PICK t : Partial(t, n + 1, g) /\ SumTo(n + 1, g) = t[n + 1]
    <2>1. n + 1 \in Nat
      OBVIOUS
    <2>2. QED
      BY <2>1, SumIs
  <1>3. /\ s \in [0 .. n -> Int] /\ s[0] = 0 /\ t \in [0 .. n + 1 -> Int] /\ t[0] = 0
        /\ \A k \in 1 .. n : s[k] = s[k - 1] + f[k]
        /\ \A k \in 1 .. n + 1 : t[k] = t[k - 1] + g[k]
    BY <1>1, <1>2 DEF Partial
  <1> DEFINE S == {k \in Nat : k <= n + 1 /\ t[k] = IF k < i THEN s[k] ELSE s[k - 1] + g[i]}
  <1>4. 0 \in S
    BY <1>3
  <1>5. ASSUME NEW k \in 1 .. n + 1, k - 1 \in S PROVE k \in S
    <2>1. k \in Nat /\ t[k] = t[k - 1] + g[k] /\ g[i] \in Int /\ s[k - 1] \in Int
      BY <1>3
    <2>2. CASE k < i
      <3>1. k \in 1 .. n /\ k \in 1 .. i - 1 /\ k - 1 < i
        BY <2>2
      <3>a. g[k] = f[k] /\ t[k - 1] = s[k - 1]
        BY <1>5, <3>1
      <3>2. QED
        BY <1>3, <2>1, <2>2, <3>1, <3>a
    <2>3. CASE k = i
      <3>1. t[k - 1] = s[k - 1]
        BY <1>5, <2>3
      <3>2. QED
        BY <2>1, <2>3, <3>1
    <2>4. CASE k > i
      <3>1. PICK m \in 1 .. n : k = m + 1 /\ k - 1 = m /\ ~(m < i) /\ m \in i .. n
        BY <2>4
      <3>2. g[k] = f[m] /\ t[m] = s[m - 1] + g[i]
        BY <1>5, <3>1
      <3>3. s[m] = s[m - 1] + f[m] /\ s[m - 1] \in Int /\ f[m] \in Int /\ m - 1 \in 0 .. n
        <4>1. m - 1 \in 0 .. n
          BY <3>1
        <4>2. QED
          BY <1>3, <3>1, <4>1
      <3>4. t[k] = s[m] + g[i]
        <4>1. t[k] = t[m] + g[k]
          BY <2>1, <3>1
        <4>2. t[k] = (s[m - 1] + g[i]) + f[m]
          BY <3>2, <4>1
        <4>3. QED
          BY <2>1, <3>3, <4>2
      <3>5. QED
        BY <2>1, <2>4, <3>1, <3>4
    <2>5. QED
      BY <2>2, <2>3, <2>4
  <1>6. n + 1 \in S
    <2> HIDE DEF S
    <2>1. n + 1 \in Nat /\ n + 1 \in 0 .. n + 1
      OBVIOUS
    <2>2. \A k \in 0 .. n + 1 : k \in S
      BY <1>4, <1>5, <2>1, Upwards
    <2>3. QED
      BY <2>1, <2>2
  <1>7. t[n + 1] = s[n] + g[i] /\ s[n] \in Int /\ t[n + 1] \in Int
    BY <1>3, <1>6
  <1>8. QED
    BY <1>1, <1>2, <1>7

\* A sum with another summand at place i.
LEMMA SumChange ==
    ASSUME NEW n \in Nat, NEW i \in 1 .. n,
           NEW f \in [1 .. n -> Int], NEW g \in [1 .. n -> Int],
           \A j \in 1 .. n : j # i => g[j] = f[j]
    PROVE  SumTo(n, f) \in Int /\ SumTo(n, g) = SumTo(n, f) + g[i] - f[i]
  <1>1. PICK m \in Nat : m = n - 1
    OBVIOUS
  <1>2. PICK h : h = [j \in 1 .. m |-> IF j < i THEN f[j] ELSE f[j + 1]]
    OBVIOUS
  <1>3. m + 1 = n /\ i \in 1 .. m + 1 /\ h \in [1 .. m -> Int]
    <2>1. \A j \in 1 .. m : j \in 1 .. n /\ j + 1 \in 1 .. n
      BY <1>1
    <2>2. QED
      BY <1>1, <1>2, <2>1
  <1>4. /\ \A j \in 1 .. i - 1 : f[j] = h[j] /\ g[j] = h[j]
        /\ \A j \in i .. m : f[j + 1] = h[j] /\ g[j + 1] = h[j]
    BY <1>1, <1>2
  <1>5. SumTo(m, h) \in Int /\ SumTo(n, f) \in Int /\ SumTo(n, f) = SumTo(m, h) + f[i]
    <2>1. f \in [1 .. m + 1 -> Int]
      BY <1>3
    <2>2. QED
      BY <1>3, <1>4, <2>1, SumInsert
  <1>6. SumTo(n, g) = SumTo(m, h) + g[i]
    <2>1. g \in [1 .. m + 1 -> Int]
      BY <1>3
    <2>2. QED
      BY <1>3, <1>4, <2>1, SumInsert
  <1>7. f[i] \in Int /\ g[i] \in Int
    OBVIOUS
  <1>8. QED
    BY <1>5, <1>6, <1>7

-----------------------------------------------------------------------------
(***************************************************************************)
(* Lists: what linking and unlinking do, place by place.                   *)
(***************************************************************************)
\* InsertAt moves what is behind the new element up.
LEMMA Inserting ==
    ASSUME NEW T, NEW s \in Seq(T), NEW e \in T, NEW i \in 1 .. Len(s) + 1,
           NEW t, t = InsertAt(s, i, e)
    PROVE  /\ t \in Seq(T) /\ Len(t) = Len(s) + 1 /\ t[i] = e
           /\ \A j \in 1 .. i - 1 : t[j] = s[j]
           /\ \A j \in i .. Len(s) : t[j + 1] = s[j]
  <1>1. PICK a : a = SubSeq(s, 1, i - 1)
    OBVIOUS
  <1>2. PICK b : b = SubSeq(s, i, Len(s))
    OBVIOUS
  <1>3. Len(s) \in Nat /\ \A j \in 1 .. Len(s) : s[j] \in T
    OBVIOUS
  <1>4. a \in Seq(T) /\ Len(a) = i - 1 /\ \A j \in 1 .. i - 1 : a[j] = s[j]
    <2>1. \A j \in 1 .. i - 1 : s[j] \in T
      BY <1>3
    <2>2. 1 \in Int /\ i - 1 \in Int
      OBVIOUS
    <2>3. /\ a \in Seq(T) /\ Len(a) = IF 1 <= i - 1 THEN (i - 1) - 1 + 1 ELSE 0
          /\ \A j \in 1 .. (i - 1) - 1 + 1 : a[j] = s[1 + j - 1]
      BY <1>1, <2>1, <2>2, SubSeqProperties
    <2>4. QED
      BY <2>3
  <1>5. b \in Seq(T) /\ Len(b) = Len(s) - i + 1 /\ \A j \in 1 .. Len(s) - i + 1 : b[j] = s[i + j - 1]
    <2>1. \A j \in i .. Len(s) : s[j] \in T
      BY <1>3
    <2>2. i \in Int /\ Len(s) \in Int
      BY <1>3
    <2>3. /\ b \in Seq(T) /\ Len(b) = IF i <= Len(s) THEN Len(s) - i + 1 ELSE 0
          /\ \A j \in 1 .. Len(s) - i + 1 : b[j] = s[i + j - 1]
      BY <1>2, <2>1, <2>2, SubSeqProperties
    <2>4. QED
      BY <1>3, <2>3
  <1>6. PICK c : c = a \o << e >>
    OBVIOUS
  <1>7. c \in Seq(T) /\ Len(c) = i /\ \A j \in 1 .. i : c[j] = IF j < i THEN s[j] ELSE e
    <2>1. << e >> \in Seq(T) /\ Len(<< e >>) = 1 /\ << e >>[1] = e
      OBVIOUS
    <2>2. /\ c \in Seq(T) /\ Len(c) = Len(a) + Len(<< e >>)
          /\ \A j \in 1 .. Len(a) + Len(<< e >>) :
               c[j] = IF j <= Len(a) THEN a[j] ELSE << e >>[j - Len(a)]
      BY <1>4, <1>6, <2>1, ConcatProperties
    <2>3. c \in Seq(T) /\ Len(c) = i
      BY <1>4, <2>1, <2>2
    <2>4. ASSUME NEW j \in 1 .. i PROVE c[j] = IF j < i THEN s[j] ELSE e
      <3>1. CASE j < i
        BY <1>4, <2>1, <2>2, <3>1
      <3>2. CASE j = i
        <4>1. c[j] = << e >>[1]
          BY <1>4, <2>1, <2>2, <3>2
        <4>2. QED
          BY <2>1, <3>2, <4>1
      <3>3. QED
        BY <3>1, <3>2
    <2>5. QED
      BY <2>3, <2>4
  <1>8. /\ t \in Seq(T) /\ Len(t) = i + (Len(s) - i + 1)
        /\ \A j \in 1 .. i + (Len(s) - i + 1) : t[j] = IF j <= i THEN c[j] ELSE b[j - i]
    <2>1. t = c \o b
      BY <1>1, <1>2, <1>6 DEF InsertAt
    <2>2. QED
      BY <1>5, <1>7, <2>1, ConcatProperties
  <1>9. t \in Seq(T) /\ Len(t) = Len(s) + 1
    BY <1>3, <1>8
  <1>10. ASSUME NEW j \in 1 .. Len(t)
         PROVE  t[j] = IF j < i THEN s[j] ELSE IF j = i THEN e ELSE s[j - 1]
    <2>1. CASE j <= i
      BY <1>3, <1>7, <1>8, <1>9, <2>1
    <2>2. CASE j > i
      <3>1. j - i \in 1 .. Len(s) - i + 1 /\ i + (j - i) - 1 = j - 1
        BY <1>3, <1>9, <2>2
      <3>2. b[j - i] = s[j - 1]
        BY <1>5, <3>1
      <3>3. QED
        BY <1>3, <1>8, <1>9, <2>2, <3>2
    <2>3. QED
      BY <2>1, <2>2
  <1>11. t[i] = e
    BY <1>3, <1>9, <1>10
  <1>12. ASSUME NEW j \in 1 .. i - 1 PROVE t[j] = s[j]
    BY <1>3, <1>9, <1>10
  <1>13. ASSUME NEW j \in i .. Len(s) PROVE t[j + 1] = s[j]
    <2>1. PICK k \in 1 .. Len(t) : k = j + 1 /\ ~(k < i) /\ k # i /\ k - 1 = j
      BY <1>3, <1>9
    <2>2. QED
      BY <1>10, <2>1
  <1>14. QED
    BY <1>9, <1>11, <1>12, <1>13

\* RemoveAt moves what is behind the removed element down.
LEMMA Removing ==
    ASSUME NEW T, NEW s \in Seq(T), NEW i \in 1 .. Len(s), NEW t, t = RemoveAt(s, i)
    PROVE  /\ t \in Seq(T) /\ Len(t) + 1 = Len(s)
           /\ \A j \in 1 .. i - 1 : s[j] = t[j]
           /\ \A j \in i .. Len(t) : s[j + 1] = t[j]
  <1>1. PICK a : a = SubSeq(s, 1, i - 1)
    OBVIOUS
  <1>2. PICK b : b = SubSeq(s, i + 1, Len(s))
    OBVIOUS
  <1>3. Len(s) \in Nat /\ \A j \in 1 .. Len(s) : s[j] \in T
    OBVIOUS
  <1>4. a \in Seq(T) /\ Len(a) = i - 1 /\ \A j \in 1 .. i - 1 : a[j] = s[j]
    <2>1. \A j \in 1 .. i - 1 : s[j] \in T
      BY <1>3
    <2>2. 1 \in Int /\ i - 1 \in Int
      OBVIOUS
    <2>3. /\ a \in Seq(T) /\ Len(a) = IF 1 <= i - 1 THEN (i - 1) - 1 + 1 ELSE 0
          /\ \A j \in 1 .. (i - 1) - 1 + 1 : a[j] = s[1 + j - 1]
      BY <1>1, <2>1, <2>2, SubSeqProperties
    <2>4. QED
      BY <2>3
  <1>5. b \in Seq(T) /\ Len(b) = Len(s) - i /\ \A j \in 1 .. Len(s) - i : b[j] = s[i + j]
    <2>1. \A j \in i + 1 .. Len(s) : s[j] \in T
      BY <1>3
    <2>2. i + 1 \in Int /\ Len(s) \in Int
      BY <1>3
    <2>3. /\ b \in Seq(T) /\ Len(b) = IF i + 1 <= Len(s) THEN Len(s) - (i + 1) + 1 ELSE 0
          /\ \A j \in 1 .. Len(s) - (i + 1) + 1 : b[j] = s[(i + 1) + j - 1]
      BY <1>2, <2>1, <2>2, SubSeqProperties
    <2>4. QED
      BY <1>3, <2>3
  <1>6. /\ t \in Seq(T) /\ Len(t) = (i - 1) + (Len(s) - i)
        /\ \A j \in 1 .. (i - 1) + (Len(s) - i) :
             t[j] = IF j <= i - 1 THEN a[j] ELSE b[j - (i - 1)]
    <2>1. t = a \o b
      BY <1>1, <1>2 DEF RemoveAt
    <2>2. /\ t \in Seq(T) /\ Len(t) = Len(a) + Len(b)
          /\ \A j \in 1 .. Len(a) + Len(b) : t[j] = IF j <= Len(a) THEN a[j] ELSE b[j - Len(a)]
      <3>1. a \in Seq(T) /\ b \in Seq(T)
        BY <1>4, <1>5
      <3>2. QED
        BY <2>1, <3>1, ConcatProperties
    <2>3. QED
      BY <1>4, <1>5, <2>2
  <1>7. t \in Seq(T) /\ Len(t) + 1 = Len(s)
    BY <1>3, <1>6
  <1>8. ASSUME NEW j \in 1 .. i - 1 PROVE s[j] = t[j]
    <2>1. j \in 1 .. (i - 1) + (Len(s) - i) /\ j <= i - 1
      BY <1>3
    <2>2. QED
      BY <1>4, <1>6, <2>1
  <1>9. ASSUME NEW j \in i .. Len(t) PROVE s[j + 1] = t[j]
    <2>1. j - (i - 1) \in 1 .. Len(s) - i /\ i + (j - (i - 1)) = j + 1
      BY <1>3, <1>7
    <2>2. b[j - (i - 1)] = s[j + 1]
      BY <1>5, <2>1
    <2>3. j \in 1 .. (i - 1) + (Len(s) - i) /\ ~(j <= i - 1)
      BY <1>3, <1>7
    <2>4. t[j] = b[j - (i - 1)]
      BY <1>6, <2>3
    <2>5. QED
      BY <2>2, <2>4
  <1>10. QED
    BY <1>7, <1>8, <1>9

-----------------------------------------------------------------------------
(***************************************************************************)
(* One major.                                                              *)
(***************************************************************************)
Minor == [at : Nat, size : Nat, req : Nat]

Major == [base : Nat, pages : Nat, usage : Int, minors : Seq(Minor)]

\* The blocks of a major are inside it, behind its header, in the order of
\* their addresses, and long enough for what was asked and the alignment.
Well(maj) ==
    /\ MAJOR <= Size(maj)
    /\ \A j \in 1 .. Len(maj.minors) :
         /\ maj.base + MAJOR <= maj.minors[j].at
         /\ End(maj.minors[j]) <= maj.base + Size(maj)
         /\ maj.minors[j].req + ALIGNMENT + ALIGN_INFO <= maj.minors[j].size
    /\ \A j, k \in 1 .. Len(maj.minors) : j < k => End(maj.minors[j]) <= maj.minors[k].at

Counted(maj) == maj.usage = MAJOR + UsedWithHeaders(maj)

BlocksIn(maj) == {maj.minors[j] : j \in 1 .. Len(maj.minors)}

Apart(b, c) == End(b) <= c.at \/ End(c) <= b.at

\* The constants are numbers.
LEMMA Constants ==
    /\ MAJOR \in Nat /\ MINOR \in Nat /\ ALIGNMENT \in Nat /\ ALIGN_INFO \in Nat
    /\ l_pageSize \in Nat /\ l_pageCount \in Nat /\ MemoryPages \in Nat
    /\ MAJOR > 0 /\ MINOR > 0 /\ ALIGNMENT > 0 /\ l_pageSize > 0 /\ l_pageCount > 0
  BY SizesAssumption

\* Types of the parts of a major.
LEMMA MajorParts ==
    ASSUME NEW maj \in Major
    PROVE  /\ maj.base \in Nat /\ maj.pages \in Nat /\ maj.usage \in Int
           /\ maj.minors \in Seq(Minor) /\ Len(maj.minors) \in Nat
           /\ Size(maj) \in Nat
           /\ \A j \in 1 .. Len(maj.minors) : maj.minors[j] \in Minor
  <1>1. maj.base \in Nat /\ maj.pages \in Nat /\ maj.usage \in Int /\ maj.minors \in Seq(Minor)
    BY DEF Major
  <1>2. Size(maj) \in Nat
    BY <1>1, Constants, SMTT(30) DEF Size
  <1>3. QED
    BY <1>1, <1>2

\* Types of the parts of a minor.
LEMMA MinorParts ==
    ASSUME NEW min \in Minor
    PROVE  /\ min.at \in Nat /\ min.size \in Nat /\ min.req \in Nat
           /\ End(min) \in Nat /\ End(min) = min.at + MINOR + min.size
           /\ min.at < End(min) /\ min.at <= End(min)
  <1>1. min.at \in Nat /\ min.size \in Nat /\ min.req \in Nat
    BY DEF Minor
  <1>2. QED
    BY <1>1, Constants DEF End

\* The sums over the blocks of a major are numbers.
LEMMA UsedTyped ==
    ASSUME NEW maj \in Major, NEW n, n = Len(maj.minors)
    PROVE  /\ [j \in 1 .. n |-> maj.minors[j].size] \in [1 .. n -> Int]
           /\ [j \in 1 .. n |-> maj.minors[j].size + MINOR] \in [1 .. n -> Int]
           /\ Used(maj) \in Int /\ UsedWithHeaders(maj) \in Int
  <1>1. n \in Nat /\ \A j \in 1 .. n : maj.minors[j].size \in Int
    BY MajorParts, MinorParts
  <1>2. PICK f : f = [j \in 1 .. n |-> maj.minors[j].size]
    OBVIOUS
  <1>3. PICK g : g = [j \in 1 .. n |-> maj.minors[j].size + MINOR]
    OBVIOUS
  <1>4. f \in [1 .. n -> Int] /\ g \in [1 .. n -> Int]
    BY <1>1, <1>2, <1>3, Constants
  <1>5. ASSUME NEW h \in [1 .. n -> Int] PROVE SumTo(n, h) \in Int
    <2>1. PICK s : Partial(s, n, h) /\ SumTo(n, h) = s[n]
      BY <1>1, SumIs
    <2>2. QED
      BY <1>1, <2>1 DEF Partial
  <1>6. Used(maj) = SumTo(n, f) /\ UsedWithHeaders(maj) = SumTo(n, g)
    BY <1>2, <1>3 DEF Used, UsedWithHeaders
  <1>7. QED
    BY <1>2, <1>3, <1>4, <1>5, <1>6

\* Every hole begins behind the header and ends inside the major.
LEMMA Holes ==
    ASSUME NEW maj \in Major, Well(maj), NEW i \in 0 .. Len(maj.minors)
    PROVE  /\ HoleStart(maj, i) \in Nat /\ HoleEnd(maj, i) \in Nat
           /\ maj.base + MAJOR <= HoleStart(maj, i)
           /\ HoleStart(maj, i) <= HoleEnd(maj, i)
           /\ HoleEnd(maj, i) <= maj.base + Size(maj)
           /\ \A j \in 1 .. Len(maj.minors) :
                IF j <= i THEN End(maj.minors[j]) <= HoleStart(maj, i)
                          ELSE HoleEnd(maj, i) <= maj.minors[j].at
  <1>1. /\ maj.base \in Nat /\ Size(maj) \in Nat /\ Len(maj.minors) \in Nat /\ i \in Nat
        /\ \A j \in 1 .. Len(maj.minors) : maj.minors[j] \in Minor
    BY MajorParts
  <1>2. \A j \in 1 .. Len(maj.minors) :
          /\ maj.minors[j].at \in Nat /\ End(maj.minors[j]) \in Nat
          /\ maj.minors[j].at <= End(maj.minors[j])
    BY <1>1, MinorParts
  <1>3. /\ \A j \in 1 .. Len(maj.minors) : maj.base + MAJOR <= maj.minors[j].at
        /\ \A j \in 1 .. Len(maj.minors) : End(maj.minors[j]) <= maj.base + Size(maj)
        /\ \A j, k \in 1 .. Len(maj.minors) : j < k => End(maj.minors[j]) <= maj.minors[k].at
        /\ MAJOR <= Size(maj)
    BY DEF Well
  <1>a. i = 0 => HoleStart(maj, i) = maj.base + MAJOR
    BY DEF HoleStart
  <1>b. i # 0 => HoleStart(maj, i) = End(maj.minors[i]) /\ i \in 1 .. Len(maj.minors)
    BY <1>1 DEF HoleStart
  <1>c. i = Len(maj.minors) => HoleEnd(maj, i) = maj.base + Size(maj)
    BY DEF HoleEnd
  <1>d. i # Len(maj.minors) =>
          /\ HoleEnd(maj, i) = maj.minors[i + 1].at /\ i + 1 \in 1 .. Len(maj.minors)
          /\ i < i + 1
    BY <1>1 DEF HoleEnd
  <1>4. HoleStart(maj, i) \in Nat /\ maj.base + MAJOR <= HoleStart(maj, i)
    <2>1. CASE i = 0
      BY <1>1, <1>a, <2>1, Constants
    <2>2. CASE i # 0
      <3>1. PICK min : min = maj.minors[i]
        OBVIOUS
      <3>2. /\ HoleStart(maj, i) = End(min) /\ min.at \in Nat /\ End(min) \in Nat
            /\ min.at <= End(min) /\ maj.base + MAJOR <= min.at
        BY <1>2, <1>3, <1>b, <2>2, <3>1
      <3>3. QED
        BY <1>1, <3>2, Constants
    <2>3. QED
      BY <2>1, <2>2
  <1>5. HoleEnd(maj, i) \in Nat /\ HoleEnd(maj, i) <= maj.base + Size(maj)
    <2>1. CASE i = Len(maj.minors)
      BY <1>1, <1>c, <2>1
    <2>2. CASE i # Len(maj.minors)
      <3>1. PICK j \in 1 .. Len(maj.minors) : HoleEnd(maj, i) = maj.minors[j].at
        BY <1>d, <2>2
      <3>2. PICK min : min = maj.minors[j]
        OBVIOUS
      <3>3. /\ HoleEnd(maj, i) = min.at /\ min.at \in Nat /\ End(min) \in Nat
            /\ min.at <= End(min) /\ End(min) <= maj.base + Size(maj)
        BY <1>2, <1>3, <3>1, <3>2
      <3>4. QED
        BY <1>1, <3>3
    <2>3. QED
      BY <2>1, <2>2
  <1>6. HoleStart(maj, i) <= HoleEnd(maj, i)
    <2>1. CASE i = Len(maj.minors)
      <3>1. HoleStart(maj, i) <= maj.base + Size(maj)
        BY <1>1, <1>2, <1>3, <1>a, <1>b, Constants
      <3>2. QED
        BY <1>c, <2>1, <3>1
    <2>2. CASE i # Len(maj.minors)
      BY <1>1, <1>2, <1>3, <1>a, <1>b, <1>d, <2>2, Constants
    <2>3. QED
      BY <2>1, <2>2
  <1>7. ASSUME NEW j \in 1 .. Len(maj.minors)
        PROVE  IF j <= i THEN End(maj.minors[j]) <= HoleStart(maj, i)
                         ELSE HoleEnd(maj, i) <= maj.minors[j].at
    <2>1. CASE j <= i
      <3>1. i # 0 /\ (j = i \/ j < i)
        BY <1>1, <2>1
      <3>2. CASE j = i
        BY <1>1, <1>2, <1>b, <3>1, <3>2
      <3>3. CASE j < i
        <4>1. End(maj.minors[j]) <= maj.minors[i].at
          BY <1>3, <1>b, <3>1, <3>3
        <4>2. maj.minors[i].at <= End(maj.minors[i])
          BY <1>2, <1>b, <3>1
        <4>3. /\ End(maj.minors[j]) \in Nat /\ maj.minors[i].at \in Nat
              /\ End(maj.minors[i]) \in Nat
          BY <1>2, <1>b, <3>1
        <4>4. QED
          BY <1>b, <2>1, <3>1, <4>1, <4>2, <4>3
      <3>4. QED
        BY <3>1, <3>2, <3>3
    <2>2. CASE j > i
      <3>1. i # Len(maj.minors)
        BY <1>1, <2>2
      <3>2. i + 1 = j \/ End(maj.minors[i + 1]) <= maj.minors[j].at
        BY <1>1, <1>3, <1>d, <2>2, <3>1
      <3>3. maj.minors[i + 1].at <= End(maj.minors[i + 1])
        BY <1>2, <1>d, <3>1
      <3>4. /\ maj.minors[i + 1].at \in Nat /\ maj.minors[j].at \in Nat
            /\ End(maj.minors[i + 1]) \in Nat
        BY <1>2, <1>d, <3>1
      <3>5. maj.minors[i + 1].at <= maj.minors[j].at
        BY <3>2, <3>3, <3>4
      <3>6. QED
        BY <1>1, <1>d, <2>2, <3>1, <3>5
    <2>3. QED
      BY <1>1, <2>1, <2>2
  <1>8. QED
    BY <1>4, <1>5, <1>6, <1>7

\* A block linked into a hole that is large enough keeps the major well, and
\* is apart from the others.
LEMMA Placing ==
    ASSUME NEW maj \in Major, Well(maj), NEW i \in 0 .. Len(maj.minors), NEW req \in Nat,
           NEW size \in Nat, size = req + ALIGNMENT + ALIGN_INFO, HoleFits(maj, i, size),
           NEW m, m = Placed(maj, i, size, req),
           NEW b, b = [at |-> HoleStart(maj, i), size |-> size, req |-> req]
    PROVE  /\ m \in Major /\ m.base = maj.base /\ m.pages = maj.pages
           /\ m.usage = maj.usage + size + MINOR /\ Len(m.minors) = Len(maj.minors) + 1
           /\ Well(m) /\ b \in Minor
           /\ BlocksIn(m) = BlocksIn(maj) \cup {b}
           /\ \A c \in BlocksIn(maj) : Apart(b, c)
           /\ Used(m) = Used(maj) + size
           /\ UsedWithHeaders(m) = UsedWithHeaders(maj) + size + MINOR
           /\ i = 0 => m.minors[1] = b
  <1>1. /\ maj.base \in Nat /\ maj.pages \in Nat /\ maj.usage \in Int
        /\ maj.minors \in Seq(Minor) /\ Size(maj) \in Nat
    BY MajorParts
  <1>2. PICK n \in Nat : n = Len(maj.minors)
    BY <1>1
  <1>3. PICK at \in Nat : at = HoleStart(maj, i)
    BY Holes
  <1>4. b \in Minor /\ b.at = at /\ b.size = size /\ b.req = req /\ End(b) = at + MINOR + size
    BY <1>3, Constants DEF Minor, End
  <1>5. PICK t : t = InsertAt(maj.minors, i + 1, b)
    OBVIOUS
  <1>6. /\ t \in Seq(Minor) /\ Len(t) = n + 1 /\ t[i + 1] = b
        /\ \A j \in 1 .. i : t[j] = maj.minors[j]
        /\ \A j \in i + 1 .. n : t[j + 1] = maj.minors[j]
    <2>1. PICK x \in 1 .. Len(maj.minors) + 1 : x = i + 1
      BY <1>2
    <2>2. PICK s \in Seq(Minor) : s = maj.minors
      BY <1>1
    <2>3. /\ t \in Seq(Minor) /\ Len(t) = Len(s) + 1 /\ t[x] = b
          /\ \A j \in 1 .. x - 1 : t[j] = s[j]
          /\ \A j \in x .. Len(s) : t[j + 1] = s[j]
      <3>1. x \in 1 .. Len(s) + 1 /\ t = InsertAt(s, x, b) /\ b \in Minor
        BY <1>4, <1>5, <2>1, <2>2
      <3>2. QED
        BY <3>1, Inserting, SMTT(40)
    <2>4. x - 1 = i
      BY <2>1
    <2>5. QED
      BY <1>2, <2>1, <2>2, <2>3, <2>4
  <1>a. ASSUME NEW j \in 1 .. n + 1, j # i + 1
        PROVE  \E k \in 1 .. n : t[j] = maj.minors[k] /\ k = IF j <= i THEN j ELSE j - 1
    <2>1. CASE j <= i
      <3>1. j \in 1 .. n /\ j \in 1 .. i
        BY <1>2, <2>1
      <3>2. QED
        BY <1>6, <2>1, <3>1
    <2>2. CASE j > i
      <3>1. PICK k \in i + 1 .. n : j = k + 1 /\ k = j - 1 /\ k \in 1 .. n
        BY <1>2, <1>a, <2>2
      <3>2. t[k + 1] = maj.minors[k]
        BY <1>6
      <3>3. QED
        BY <2>2, <3>1, <3>2
    <2>3. QED
      BY <2>1, <2>2
  <1>7. /\ m.minors = t /\ m.usage = maj.usage + size + MINOR
        /\ m.base = maj.base /\ m.pages = maj.pages /\ m \in Major
    <2>1. m = [maj EXCEPT !.minors = t, !.usage = maj.usage + size + MINOR]
      BY <1>5 DEF Placed
    <2>2. maj.usage + size + MINOR \in Int
      BY <1>1, Constants
    <2>3. QED
      BY <1>6, <2>1, <2>2 DEF Major
  <1>8. Size(m) = Size(maj)
    BY <1>7 DEF Size
  <1>9. /\ maj.base + MAJOR <= at /\ End(b) <= HoleEnd(maj, i) /\ HoleEnd(maj, i) \in Nat
        /\ HoleEnd(maj, i) <= maj.base + Size(maj)
        /\ \A j \in 1 .. n : IF j <= i THEN End(maj.minors[j]) <= at
                                       ELSE HoleEnd(maj, i) <= maj.minors[j].at
    <2>1. HoleEnd(maj, i) \in Nat /\ HoleEnd(maj, i) - at >= size + MINOR
      BY <1>3, Holes DEF HoleFits
    <2>2. End(b) <= HoleEnd(maj, i)
      BY <1>4, <2>1, Constants
    <2>3. QED
      BY <1>2, <1>3, <2>1, <2>2, Holes
  <1>10. \A j \in 1 .. n : /\ maj.minors[j] \in Minor /\ maj.minors[j].at \in Nat
                           /\ End(maj.minors[j]) \in Nat
    BY <1>2, MajorParts, MinorParts
  <1>11. Well(m)
    <2>1. MAJOR <= Size(m)
      BY <1>8 DEF Well
    <2>2. ASSUME NEW j \in 1 .. n + 1
          PROVE  /\ m.base + MAJOR <= t[j].at
                 /\ End(t[j]) <= m.base + Size(m)
                 /\ t[j].req + ALIGNMENT + ALIGN_INFO <= t[j].size
      <3>1. CASE j = i + 1
        <4>1. t[j] = b
          BY <1>6, <3>1
        <4>2. m.base + MAJOR <= b.at
          BY <1>4, <1>7, <1>9
        <4>3. End(b) <= m.base + Size(m)
          <5>1. End(b) \in Nat
            BY <1>4, MinorParts
          <5>2. QED
            BY <1>1, <1>7, <1>8, <1>9, <5>1
        <4>4. b.req + ALIGNMENT + ALIGN_INFO <= b.size
          BY <1>4
        <4>5. QED
          BY <4>1, <4>2, <4>3, <4>4
      <3>2. CASE j # i + 1
        <4>1. PICK k \in 1 .. n : t[j] = maj.minors[k]
          BY <1>a, <3>2
        <4>2. QED
          BY <1>2, <1>7, <1>8, <4>1 DEF Well
      <3>3. QED
        BY <3>1, <3>2
    <2>3. ASSUME NEW j \in 1 .. n + 1, NEW k \in 1 .. n + 1, j < k
          PROVE  End(t[j]) <= t[k].at
      <3>1. CASE j < i + 1 /\ k = i + 1
        <4>1. j \in 1 .. i /\ j \in 1 .. n /\ j <= i
          BY <1>2, <3>1
        <4>2. t[j] = maj.minors[j] /\ t[k] = b
          BY <1>6, <3>1, <4>1
        <4>3. QED
          BY <1>4, <1>9, <4>1, <4>2
      <3>2. CASE j = i + 1 /\ k > i + 1
        <4>1. k - 1 \in 1 .. n /\ ~(k - 1 <= i)
          BY <3>2
        <4>2. t[k] = maj.minors[k - 1] /\ t[j] = b
          <5>1. k # i + 1 /\ ~(k <= i)
            BY <3>2
          <5>2. t[k] = maj.minors[k - 1]
            BY <1>a, <5>1
          <5>3. QED
            BY <1>6, <3>2, <5>2
        <4>3. HoleEnd(maj, i) <= t[k].at /\ t[k].at \in Nat
          BY <1>9, <1>10, <4>1, <4>2
        <4>4. End(b) \in Nat
          BY <1>3, <1>4, Constants
        <4>5. QED
          BY <1>9, <4>2, <4>3, <4>4
      <3>3. CASE j # i + 1 /\ k # i + 1
        <4>1. PICK x \in 1 .. n : t[j] = maj.minors[x] /\ x = IF j <= i THEN j ELSE j - 1
          BY <1>a, <3>3
        <4>2. PICK y \in 1 .. n : t[k] = maj.minors[y] /\ y = IF k <= i THEN k ELSE k - 1
          BY <1>a, <3>3
        <4>3. x < y
          BY <2>3, <3>3, <4>1, <4>2
        <4>4. QED
          BY <1>2, <4>1, <4>2, <4>3 DEF Well
      <3>4. QED
        BY <2>3, <3>1, <3>2, <3>3
    <2>4. QED
      BY <1>6, <1>7, <2>1, <2>2, <2>3, ZenonT(40) DEF Well
  <1>12. BlocksIn(m) = BlocksIn(maj) \cup {b}
    <2>1. ASSUME NEW j \in 1 .. n + 1 PROVE t[j] \in BlocksIn(maj) \cup {b}
      BY <1>2, <1>6, <1>a DEF BlocksIn
    <2>2. ASSUME NEW j \in 1 .. n PROVE maj.minors[j] \in BlocksIn(m)
      <3>1. PICK k \in 1 .. n + 1 : t[k] = maj.minors[j]
        <4>1. CASE j <= i
          <5>1. j \in 1 .. i /\ j \in 1 .. n + 1
            BY <4>1
          <5>2. QED
            BY <1>6, <5>1
        <4>2. CASE j > i
          <5>1. j \in i + 1 .. n /\ j + 1 \in 1 .. n + 1
            BY <4>2
          <5>2. QED
            BY <1>6, <5>1
        <4>3. QED
          BY <4>1, <4>2
      <3>2. QED
        BY <1>6, <1>7, <3>1 DEF BlocksIn
    <2>3. b \in BlocksIn(m)
      BY <1>2, <1>6, <1>7 DEF BlocksIn
    <2>4. BlocksIn(m) \subseteq BlocksIn(maj) \cup {b}
      <3>1. BlocksIn(m) = {t[j] : j \in 1 .. n + 1}
        BY <1>6, <1>7 DEF BlocksIn
      <3>2. QED
        BY <2>1, <3>1
    <2>5. BlocksIn(maj) \subseteq BlocksIn(m)
      <3>1. BlocksIn(maj) = {maj.minors[j] : j \in 1 .. n}
        BY <1>2 DEF BlocksIn
      <3>2. QED
        BY <2>2, <3>1
    <2>6. QED
      BY <2>3, <2>4, <2>5
  <1>13. ASSUME NEW c \in BlocksIn(maj) PROVE Apart(b, c)
    <2>1. PICK j \in 1 .. n : c = maj.minors[j]
      BY <1>2 DEF BlocksIn
    <2>2. CASE j <= i
      BY <1>4, <1>9, <2>1, <2>2 DEF Apart
    <2>3. CASE ~(j <= i)
      <3>1. HoleEnd(maj, i) <= c.at /\ c.at \in Nat
        BY <1>9, <1>10, <2>1, <2>3
      <3>a. End(b) \in Nat
        BY <1>4, MinorParts
      <3>2. QED
        BY <1>9, <3>1, <3>a DEF Apart
    <2>4. QED
      BY <2>2, <2>3
  <1>14. Used(m) = Used(maj) + size /\ UsedWithHeaders(m) = UsedWithHeaders(maj) + size + MINOR
    <2>1. PICK f : f = [j \in 1 .. n |-> maj.minors[j].size]
      OBVIOUS
    <2>2. PICK g : g = [j \in 1 .. n + 1 |-> t[j].size]
      OBVIOUS
    <2>3. PICK ff : ff = [j \in 1 .. n |-> maj.minors[j].size + MINOR]
      OBVIOUS
    <2>4. PICK gg : gg = [j \in 1 .. n + 1 |-> t[j].size + MINOR]
      OBVIOUS
    <2>5. /\ f \in [1 .. n -> Int] /\ g \in [1 .. n + 1 -> Int]
          /\ ff \in [1 .. n -> Int] /\ gg \in [1 .. n + 1 -> Int]
      <3>1. f \in [1 .. n -> Int] /\ ff \in [1 .. n -> Int]
        BY <1>2, <2>1, <2>3, UsedTyped
      <3>2. g \in [1 .. n + 1 -> Int] /\ gg \in [1 .. n + 1 -> Int]
        <4>1. n + 1 = Len(m.minors) /\ m.minors = t
          BY <1>6, <1>7
        <4>2. QED
          BY <1>7, <2>2, <2>4, <4>1, UsedTyped
      <3>3. QED
        BY <3>1, <3>2
    <2>6. PICK x \in 1 .. n + 1 : x = i + 1 /\ x - 1 = i /\ g[x] = size /\ gg[x] = size + MINOR
      <3>1. PICK x \in 1 .. n + 1 : x = i + 1 /\ x - 1 = i
        BY <1>2
      <3>2. t[x] = b
        BY <1>6, <3>1
      <3>3. g[x] = size /\ gg[x] = size + MINOR
        BY <1>4, <2>2, <2>4, <3>2
      <3>4. QED
        BY <3>1, <3>3
    <2>7. /\ \A j \in 1 .. x - 1 : g[j] = f[j] /\ gg[j] = ff[j]
          /\ \A j \in x .. n : g[j + 1] = f[j] /\ gg[j + 1] = ff[j]
      <3>1. ASSUME NEW j \in 1 .. x - 1 PROVE g[j] = f[j] /\ gg[j] = ff[j]
        <4>1. j \in 1 .. i /\ j \in 1 .. n /\ j \in 1 .. n + 1
          BY <1>2, <2>6
        <4>2. QED
          BY <1>6, <2>1, <2>2, <2>3, <2>4, <4>1
      <3>2. ASSUME NEW j \in x .. n PROVE g[j + 1] = f[j] /\ gg[j + 1] = ff[j]
        <4>1. j \in i + 1 .. n /\ j \in 1 .. n /\ j + 1 \in 1 .. n + 1
          BY <1>2, <2>6
        <4>2. QED
          BY <1>6, <2>1, <2>2, <2>3, <2>4, <4>1
      <3>3. QED
        BY <3>1, <3>2
    <2>8. SumTo(n + 1, g) = SumTo(n, f) + size
      BY <2>5, <2>6, <2>7, SumInsert, ZenonT(40)
    <2>9. SumTo(n, ff) \in Int /\ SumTo(n + 1, gg) = SumTo(n, ff) + gg[x]
      BY <2>5, <2>7, SumInsert
    <2>10. SumTo(n + 1, gg) = SumTo(n, ff) + (size + MINOR)
      BY <2>6, <2>9
    <2>11. /\ Used(m) = SumTo(n + 1, g) /\ UsedWithHeaders(m) = SumTo(n + 1, gg)
           /\ Used(maj) = SumTo(n, f) /\ UsedWithHeaders(maj) = SumTo(n, ff)
      BY <1>2, <1>6, <1>7, <2>1, <2>2, <2>3, <2>4 DEF Used, UsedWithHeaders
    <2>12. QED
      BY <2>8, <2>9, <2>10, <2>11, Constants
  <1>15. (i = 0 => m.minors[1] = b) /\ Len(m.minors) = Len(maj.minors) + 1
    <2>1. i = 0 => t[1] = b
      <3>1. i = 0 => i + 1 = 1
        OBVIOUS
      <3>2. QED
        BY <1>6, <3>1
    <2>2. QED
      BY <1>2, <1>6, <1>7, <2>1
  <1>16. QED
    BY <1>4, <1>7, <1>11, <1>12, <1>13, <1>14, <1>15

\* m is the major without its i-th minor b.
TakenOut(m, maj, i, b) ==
    m = [maj EXCEPT !.minors = RemoveAt(@, i), !.usage = @ - b.size - MINOR]

\* m is the major with another size asked for in its i-th minor.
Noted(m, maj, i, req) == m = [maj EXCEPT !.minors[i].req = req]

\* A major from which the j-th block is unlinked stays well.
LEMMA Unlinking ==
    ASSUME NEW maj \in Major, Well(maj), NEW i \in 1 .. Len(maj.minors),
           NEW b, b = maj.minors[i],
           NEW m, TakenOut(m, maj, i, b)
    PROVE  /\ m \in Major /\ m.base = maj.base /\ m.pages = maj.pages
           /\ m.usage = maj.usage - b.size - MINOR /\ Len(m.minors) + 1 = Len(maj.minors)
           /\ Well(m) /\ b \in Minor
           /\ BlocksIn(m) = BlocksIn(maj) \ {b}
           /\ Used(maj) = Used(m) + b.size
           /\ UsedWithHeaders(maj) = UsedWithHeaders(m) + b.size + MINOR
  <1>1. /\ maj.base \in Nat /\ maj.pages \in Nat /\ maj.usage \in Int
        /\ maj.minors \in Seq(Minor) /\ Size(maj) \in Nat /\ b \in Minor
    BY MajorParts
  <1>2. PICK t : t = RemoveAt(maj.minors, i)
    OBVIOUS
  <1>b. PICK s \in Seq(Minor) : s = maj.minors
    BY <1>1
  <1>c. /\ t \in Seq(Minor) /\ Len(t) + 1 = Len(s)
        /\ \A j \in 1 .. i - 1 : s[j] = t[j]
        /\ \A j \in i .. Len(t) : s[j + 1] = t[j]
    <2>1. i \in 1 .. Len(s) /\ t = RemoveAt(s, i)
      BY <1>2, <1>b
    <2>2. t \in Seq(Minor) /\ Len(t) + 1 = Len(s)
      BY <2>1, Removing
    <2>3. /\ \A j \in 1 .. i - 1 : s[j] = t[j]
          /\ \A j \in i .. Len(t) : s[j + 1] = t[j]
      BY <2>1, Removing
    <2>4. QED
      BY <2>2, <2>3
  <1>3. PICK n \in Nat : n = Len(t) /\ n + 1 = Len(maj.minors) /\ t \in Seq(Minor)
    BY <1>b, <1>c
  <1>4. /\ \A j \in 1 .. i - 1 : maj.minors[j] = t[j]
        /\ \A j \in i .. n : maj.minors[j + 1] = t[j]
    BY <1>3, <1>b, <1>c
  <1>5. i \in 1 .. n + 1
    BY <1>3
  <1>6. b.size \in Nat
    BY <1>1, MinorParts
  <1>7. /\ m.minors = t /\ m.usage = maj.usage - b.size - MINOR
        /\ m.base = maj.base /\ m.pages = maj.pages /\ m \in Major
    <2>1. m = [maj EXCEPT !.minors = t, !.usage = maj.usage - b.size - MINOR]
      BY <1>2 DEF TakenOut
    <2>2. maj.usage - b.size - MINOR \in Int
      <3>1. PICK u \in Int, z \in Nat : u = maj.usage /\ z = b.size
        BY <1>1, <1>6
      <3>2. u - z - MINOR \in Int
        BY Constants
      <3>3. QED
        BY <3>1, <3>2
    <2>3. QED
      BY <1>3, <2>1, <2>2 DEF Major
  <1>8. Size(m) = Size(maj)
    BY <1>7 DEF Size
  <1>a. ASSUME NEW j \in 1 .. n
        PROVE  \E k \in 1 .. n + 1 : t[j] = maj.minors[k] /\ k = IF j < i THEN j ELSE j + 1
    <2>1. CASE j < i
      <3>1. j \in 1 .. n + 1 /\ j \in 1 .. i - 1
        BY <2>1
      <3>2. QED
        BY <1>4, <2>1, <3>1
    <2>2. CASE ~(j < i)
      <3>1. j + 1 \in 1 .. n + 1 /\ j \in i .. n
        BY <2>2
      <3>2. QED
        BY <1>4, <2>2, <3>1
    <2>3. QED
      BY <2>1, <2>2
  <1>9. Well(m)
    <2>1. MAJOR <= Size(m)
      BY <1>8 DEF Well
    <2>2. ASSUME NEW j \in 1 .. n
          PROVE  /\ m.base + MAJOR <= t[j].at
                 /\ End(t[j]) <= m.base + Size(m)
                 /\ t[j].req + ALIGNMENT + ALIGN_INFO <= t[j].size
      <3>1. PICK k \in 1 .. n + 1 : t[j] = maj.minors[k]
        BY <1>a
      <3>2. QED
        BY <1>3, <1>7, <1>8, <3>1 DEF Well
    <2>3. ASSUME NEW j \in 1 .. n, NEW k \in 1 .. n, j < k
          PROVE  End(t[j]) <= t[k].at
      <3>1. PICK x \in 1 .. n + 1 : t[j] = maj.minors[x] /\ x = IF j < i THEN j ELSE j + 1
        BY <1>a
      <3>2. PICK y \in 1 .. n + 1 : t[k] = maj.minors[y] /\ y = IF k < i THEN k ELSE k + 1
        BY <1>a
      <3>3. x < y
        BY <2>3, <3>1, <3>2
      <3>4. QED
        BY <1>3, <3>1, <3>2, <3>3 DEF Well
    <2>4. QED
      BY <1>3, <1>7, <2>1, <2>2, <2>3 DEF Well
  <1>10. BlocksIn(m) = BlocksIn(maj) \ {b}
    <2>1. ASSUME NEW j \in 1 .. n + 1, j # i
          PROVE  maj.minors[j] # b /\ maj.minors[j] \in BlocksIn(m)
      <3>1. End(maj.minors[j]) <= b.at \/ End(b) <= maj.minors[j].at
        BY <1>3, <2>1 DEF Well
      <3>2. b.at \in Nat /\ End(b) \in Nat /\ b.at < End(b)
        BY <1>1, MinorParts
      <3>3. maj.minors[j] # b
        BY <3>1, <3>2
      <3>4. PICK k \in 1 .. n : t[k] = maj.minors[j]
        <4>1. CASE j < i
          <5>1. j \in 1 .. n /\ j \in 1 .. i - 1
            BY <1>5, <4>1
          <5>2. QED
            BY <1>4, <5>1
        <4>2. CASE j > i
          <5>1. PICK k \in i .. n : k \in 1 .. n /\ j = k + 1
            <6>1. j - 1 \in i .. n /\ j - 1 \in 1 .. n /\ j = (j - 1) + 1
              BY <1>5, <4>2
            <6>2. QED
              BY <6>1
          <5>2. QED
            BY <1>4, <5>1
        <4>3. QED
          BY <2>1, <4>1, <4>2
      <3>5. QED
        BY <1>3, <1>7, <3>3, <3>4 DEF BlocksIn
    <2>2. ASSUME NEW j \in 1 .. n PROVE t[j] \in BlocksIn(maj) /\ t[j] # b
      <3>1. PICK k \in 1 .. n + 1 : t[j] = maj.minors[k] /\ k = IF j < i THEN j ELSE j + 1
        BY <1>a
      <3>2. k # i
        BY <3>1
      <3>3. QED
        BY <1>3, <2>1, <3>1, <3>2 DEF BlocksIn
    <2>3. BlocksIn(m) = {t[j] : j \in 1 .. n} /\ BlocksIn(maj) = {maj.minors[j] : j \in 1 .. n + 1}
      BY <1>3, <1>7 DEF BlocksIn
    <2>4. BlocksIn(m) \subseteq BlocksIn(maj) \ {b}
      BY <2>2, <2>3
    <2>5. ASSUME NEW c \in BlocksIn(maj) \ {b} PROVE c \in BlocksIn(m)
      <3>1. PICK j \in 1 .. n + 1 : c = maj.minors[j]
        BY <2>3
      <3>2. QED
        BY <2>1, <2>5, <3>1
    <2>6. QED
      BY <2>4, <2>5
  <1>11. Used(maj) = Used(m) + b.size /\ UsedWithHeaders(maj) = UsedWithHeaders(m) + b.size + MINOR
    <2>1. PICK f : f = [j \in 1 .. n |-> t[j].size]
      OBVIOUS
    <2>2. PICK g : g = [j \in 1 .. n + 1 |-> maj.minors[j].size]
      OBVIOUS
    <2>3. PICK ff : ff = [j \in 1 .. n |-> t[j].size + MINOR]
      OBVIOUS
    <2>4. PICK gg : gg = [j \in 1 .. n + 1 |-> maj.minors[j].size + MINOR]
      OBVIOUS
    <2>5. /\ f \in [1 .. n -> Int] /\ g \in [1 .. n + 1 -> Int]
          /\ ff \in [1 .. n -> Int] /\ gg \in [1 .. n + 1 -> Int]
      <3>1. f \in [1 .. n -> Int] /\ ff \in [1 .. n -> Int]
        <4>1. n = Len(m.minors) /\ m.minors = t
          BY <1>3, <1>7
        <4>2. QED
          BY <1>7, <2>1, <2>3, <4>1, UsedTyped
      <3>2. g \in [1 .. n + 1 -> Int] /\ gg \in [1 .. n + 1 -> Int]
        BY <1>3, <2>2, <2>4, UsedTyped
      <3>3. QED
        BY <3>1, <3>2
    <2>6. g[i] = b.size /\ gg[i] = b.size + MINOR
      BY <1>5, <2>2, <2>4
    <2>7. /\ \A j \in 1 .. i - 1 : g[j] = f[j] /\ gg[j] = ff[j]
          /\ \A j \in i .. n : g[j + 1] = f[j] /\ gg[j + 1] = ff[j]
      <3>1. ASSUME NEW j \in 1 .. i - 1 PROVE g[j] = f[j] /\ gg[j] = ff[j]
        <4>1. j \in 1 .. n /\ j \in 1 .. n + 1
          BY <1>5
        <4>2. QED
          BY <1>4, <2>1, <2>2, <2>3, <2>4, <4>1
      <3>2. ASSUME NEW j \in i .. n PROVE g[j + 1] = f[j] /\ gg[j + 1] = ff[j]
        <4>1. j \in 1 .. n /\ j + 1 \in 1 .. n + 1
          BY <1>5
        <4>2. QED
          BY <1>4, <2>1, <2>2, <2>3, <2>4, <4>1
      <3>3. QED
        BY <3>1, <3>2
    <2>8. SumTo(n + 1, g) = SumTo(n, f) + g[i]
      BY <1>5, <2>5, <2>7, SumInsert
    <2>9. SumTo(n, ff) \in Int /\ SumTo(n + 1, gg) = SumTo(n, ff) + gg[i]
      BY <1>5, <2>5, <2>7, SumInsert
    <2>10. /\ Used(maj) = SumTo(n + 1, g) /\ UsedWithHeaders(maj) = SumTo(n + 1, gg)
           /\ Used(m) = SumTo(n, f) /\ UsedWithHeaders(m) = SumTo(n, ff)
      <3>1. Used(maj) = SumTo(n + 1, g) /\ UsedWithHeaders(maj) = SumTo(n + 1, gg)
        BY <1>3, <2>2, <2>4 DEF Used, UsedWithHeaders
      <3>2. Len(m.minors) = n /\ m.minors = t
        BY <1>3, <1>7
      <3>3. Used(m) = SumTo(n, f) /\ UsedWithHeaders(m) = SumTo(n, ff)
        <4>1. /\ Used(m) = SumTo(Len(m.minors), [j \in 1 .. Len(m.minors) |-> m.minors[j].size])
              /\ UsedWithHeaders(m)
                   = SumTo(Len(m.minors), [j \in 1 .. Len(m.minors) |-> m.minors[j].size + MINOR])
          BY DEF Used, UsedWithHeaders
        <4>2. /\ [j \in 1 .. Len(m.minors) |-> m.minors[j].size] = f
              /\ [j \in 1 .. Len(m.minors) |-> m.minors[j].size + MINOR] = ff
          BY <2>1, <2>3, <3>2
        <4>3. QED
          BY <3>2, <4>1, <4>2
      <3>4. QED
        BY <3>1, <3>3
    <2>11. UsedWithHeaders(m) \in Int
      BY <2>9, <2>10
    <2>12. UsedWithHeaders(maj) = UsedWithHeaders(m) + (b.size + MINOR)
      BY <2>6, <2>9, <2>10
    <2>13. QED
      BY <1>6, <2>6, <2>8, <2>10, <2>11, <2>12, Constants
  <1>12. QED
    BY <1>1, <1>3, <1>7, <1>9, <1>10, <1>11

\* A block that is long enough is long enough for less.
LEMMA LessAsked ==
    ASSUME NEW req \in Nat, NEW x \in Nat, NEW y \in Nat, req <= x,
           x + ALIGNMENT + ALIGN_INFO <= y
    PROVE  req + ALIGNMENT + ALIGN_INFO <= y
  BY Constants

\* A major stays well when realloc records a smaller size in a block.
LEMMA Recording ==
    ASSUME NEW maj \in Major, Well(maj), NEW i \in 1 .. Len(maj.minors),
           NEW b, b = maj.minors[i], NEW req \in Nat, req <= b.req,
           NEW m, Noted(m, maj, i, req)
    PROVE  /\ m \in Major /\ m.base = maj.base /\ m.pages = maj.pages
           /\ m.usage = maj.usage /\ Len(m.minors) = Len(maj.minors)
           /\ Well(m) /\ b \in Minor
           /\ BlocksIn(m) = (BlocksIn(maj) \ {b}) \cup {[b EXCEPT !.req = req]}
           /\ Used(m) = Used(maj) /\ UsedWithHeaders(m) = UsedWithHeaders(maj)
  <1>1. /\ maj.base \in Nat /\ maj.pages \in Nat /\ maj.usage \in Int
        /\ maj.minors \in Seq(Minor) /\ Size(maj) \in Nat /\ b \in Minor
    BY MajorParts
  <1>2. PICK n \in Nat : n = Len(maj.minors)
    BY <1>1
  <1>3. PICK c : c = [b EXCEPT !.req = req]
    OBVIOUS
  <1>4. c \in Minor /\ c.at = b.at /\ c.size = b.size /\ c.req = req /\ End(c) = End(b)
    BY <1>1, <1>3 DEF Minor, End
  <1>5. PICK t : t = [maj.minors EXCEPT ![i] = c]
    OBVIOUS
  <1>6. /\ t \in Seq(Minor) /\ Len(t) = n /\ t[i] = c
        /\ \A j \in 1 .. n : j # i => t[j] = maj.minors[j]
    <2>1. PICK s \in Seq(Minor) : s = maj.minors
      BY <1>1
    <2>2. t = [s EXCEPT ![i] = c] /\ i \in 1 .. Len(s)
      BY <1>5, <2>1
    <2>3. t \in Seq(Minor) /\ Len(t) = Len(s) /\ t[i] = c /\ \A j \in 1 .. Len(s) : j # i => t[j] = s[j]
      BY <1>4, <2>2
    <2>4. QED
      BY <1>2, <2>1, <2>3
  <1>7. /\ m.minors = t /\ m.usage = maj.usage
        /\ m.base = maj.base /\ m.pages = maj.pages /\ m \in Major
    <2>1. m = [maj EXCEPT !.minors = t]
      BY <1>3, <1>5 DEF Noted
    <2>2. QED
      BY <1>6, <2>1 DEF Major
  <1>8. Size(m) = Size(maj)
    BY <1>7 DEF Size
  <1>9. ASSUME NEW j \in 1 .. n
        PROVE  /\ t[j].at = maj.minors[j].at /\ t[j].size = maj.minors[j].size
               /\ End(t[j]) = End(maj.minors[j])
               /\ t[j].req + ALIGNMENT + ALIGN_INFO <= t[j].size
    <2>1. CASE j = i
      <3>1. b.req + ALIGNMENT + ALIGN_INFO <= b.size /\ b.req \in Nat /\ b.size \in Nat
        BY <1>1, MinorParts DEF Well
      <3>2. QED
        <4>1. PICK x \in Nat, y \in Nat :
                x = b.req /\ y = b.size /\ req <= x /\ x + ALIGNMENT + ALIGN_INFO <= y
          BY <3>1
        <4>2. req + ALIGNMENT + ALIGN_INFO <= y
          BY <4>1, LessAsked
        <4>3. QED
          BY <1>4, <1>6, <2>1, <4>1, <4>2
    <2>2. CASE j # i
      BY <1>2, <1>6, <2>2 DEF Well
    <2>3. QED
      BY <2>1, <2>2
  <1>10. Well(m)
    <2>1. ASSUME NEW j \in 1 .. n
          PROVE  m.base + MAJOR <= t[j].at /\ End(t[j]) <= m.base + Size(m)
      BY <1>2, <1>7, <1>8, <1>9 DEF Well
    <2>2. ASSUME NEW j \in 1 .. n, NEW k \in 1 .. n, j < k
          PROVE  End(t[j]) <= t[k].at
      BY <1>2, <1>9, <2>2 DEF Well
    <2>3. MAJOR <= Size(m)
      BY <1>8 DEF Well
    <2>4. QED
      BY <1>6, <1>7, <1>9, <2>1, <2>2, <2>3 DEF Well
  <1>11. BlocksIn(m) = (BlocksIn(maj) \ {b}) \cup {c}
    <2>1. BlocksIn(m) = {t[j] : j \in 1 .. n} /\ BlocksIn(maj) = {maj.minors[j] : j \in 1 .. n}
      BY <1>2, <1>6, <1>7 DEF BlocksIn
    <2>2. ASSUME NEW j \in 1 .. n, j # i PROVE maj.minors[j] # b
      <3>1. End(maj.minors[j]) <= b.at \/ End(b) <= maj.minors[j].at
        BY <1>2, <2>2 DEF Well
      <3>2. b.at \in Nat /\ End(b) \in Nat /\ b.at < End(b)
        BY <1>1, MinorParts
      <3>3. QED
        BY <3>1, <3>2
    <2>3. ASSUME NEW j \in 1 .. n PROVE t[j] \in (BlocksIn(maj) \ {b}) \cup {c}
      BY <1>6, <2>1, <2>2
    <2>4. ASSUME NEW j \in 1 .. n, maj.minors[j] # b PROVE maj.minors[j] \in BlocksIn(m)
      <3>1. j # i
        BY <2>4
      <3>2. QED
        BY <1>6, <2>1, <3>1
    <2>5. c \in BlocksIn(m)
      BY <1>2, <1>6, <2>1
    <2>6. QED
      BY <2>1, <2>3, <2>4, <2>5, SMTT(40)
  <1>12. Used(m) = Used(maj) /\ UsedWithHeaders(m) = UsedWithHeaders(maj)
    <2>1. Len(m.minors) = n /\ m.minors = t
      BY <1>6, <1>7
    <2>2. PICK f : f = [j \in 1 .. n |-> maj.minors[j].size]
      OBVIOUS
    <2>3. PICK g : g = [j \in 1 .. n |-> maj.minors[j].size + MINOR]
      OBVIOUS
    <2>4. /\ [j \in 1 .. Len(m.minors) |-> m.minors[j].size] = f
          /\ [j \in 1 .. Len(m.minors) |-> m.minors[j].size + MINOR] = g
      BY <1>9, <2>1, <2>2, <2>3
    <2>5. Used(m) = SumTo(n, f) /\ UsedWithHeaders(m) = SumTo(n, g)
      <3>1. /\ Used(m) = SumTo(Len(m.minors), [j \in 1 .. Len(m.minors) |-> m.minors[j].size])
            /\ UsedWithHeaders(m)
                 = SumTo(Len(m.minors), [j \in 1 .. Len(m.minors) |-> m.minors[j].size + MINOR])
        BY DEF Used, UsedWithHeaders
      <3>2. QED
        BY <2>1, <2>4, <3>1
    <2>6. Used(maj) = SumTo(n, f) /\ UsedWithHeaders(maj) = SumTo(n, g)
      BY <1>2, <2>2, <2>3 DEF Used, UsedWithHeaders
    <2>7. QED
      BY <2>5, <2>6
  <1>13. QED
    BY <1>1, <1>2, <1>3, <1>6, <1>7, <1>10, <1>11, <1>12

\* Where a block fits into a hole, the count of used bytes leaves room for it.
LEMMA HoleCounts ==
    ASSUME NEW maj \in Major, Well(maj), Counted(maj), NEW i \in 0 .. Len(maj.minors),
           NEW size \in Nat, HoleFits(maj, i, size)
    PROVE  Space(maj) >= size + MINOR
  <1>1. maj.base \in Nat /\ Size(maj) \in Nat /\ maj.usage \in Int
    BY MajorParts
  <1>2. PICK n \in Nat : n = Len(maj.minors)
    BY MajorParts
  <1>3. PICK f \in [1 .. n -> Int] : f = [j \in 1 .. n |-> maj.minors[j].size + MINOR]
    BY <1>2, UsedTyped
  <1>4. PICK s : Partial(s, n, f) /\ SumTo(n, f) = s[n]
    BY SumIs
  <1>5. s \in [0 .. n -> Int] /\ s[0] = 0 /\ \A k \in 1 .. n : s[k] = s[k - 1] + f[k]
    BY <1>4 DEF Partial
  <1>6. PICK hole \in Nat : /\ hole = HoleEnd(maj, i) - HoleStart(maj, i)
                            /\ hole >= size + MINOR
    BY Holes, Constants DEF HoleFits
  <1>7. PICK from \in Nat : from = maj.base + MAJOR
    BY <1>1, Constants
  <1> DEFINE S == {k \in Nat : k <= n /\ from + s[k] + (IF k <= i THEN 0 ELSE hole) <= HoleStart(maj, k)}
  <1>8. 0 \in S
    BY <1>5, <1>7 DEF HoleStart
  <1>9. ASSUME NEW k \in 1 .. n, k - 1 \in S PROVE k \in S
    <2>1. PICK min : min = maj.minors[k]
      OBVIOUS
    <2>2. /\ min \in Minor /\ min.at \in Nat /\ min.size \in Nat
          /\ End(min) = min.at + MINOR + min.size
      BY <1>2, <2>1, MajorParts, MinorParts
    <2>3. HoleStart(maj, k) = End(min)
      BY <1>2, <2>1 DEF HoleStart
    <2>4. HoleEnd(maj, k - 1) = min.at
      BY <1>2, <2>1 DEF HoleEnd
    <2>5. s[k] = s[k - 1] + (min.size + MINOR) /\ s[k - 1] \in Int /\ s[k] \in Int
      BY <1>3, <1>5, <2>1
    <2>6. /\ HoleStart(maj, k - 1) \in Nat /\ HoleStart(maj, k - 1) <= min.at
      <3>1. k - 1 \in 0 .. Len(maj.minors)
        BY <1>2
      <3>2. QED
        BY <2>4, <3>1, Holes
    <2>7. from + s[k - 1] + (IF k - 1 <= i THEN 0 ELSE hole) <= HoleStart(maj, k - 1)
      BY <1>9
    <2>8. PICK x \in Int, y \in Nat, z \in Nat, h \in Nat :
            x = s[k - 1] /\ y = min.at /\ z = min.size /\ h = HoleStart(maj, k - 1)
      BY <2>2, <2>5, <2>6
    <2>9. /\ s[k] = x + (z + MINOR) /\ HoleStart(maj, k) = y + MINOR + z /\ h <= y
          /\ from + x + (IF k - 1 <= i THEN 0 ELSE hole) <= h
      BY <2>2, <2>3, <2>5, <2>6, <2>7, <2>8
    <2>10. from + (x + (z + MINOR)) + (IF k <= i THEN 0 ELSE hole) <= y + MINOR + z
      <3>1. CASE k - 1 = i
        <4>1. hole = y - h
          BY <1>6, <2>4, <2>8, <3>1
        <4>2. from + x <= h
          BY <2>9, <3>1
        <4>3. QED
          BY <3>1, <4>1, <4>2, Constants
      <3>2. CASE k <= i
        <4>1. from + x <= h
          BY <2>9, <3>2
        <4>2. QED
          BY <2>9, <3>2, <4>1, Constants
      <3>3. CASE k - 1 > i
        <4>1. from + x + hole <= h
          BY <2>9, <3>3
        <4>2. QED
          BY <2>9, <3>3, <4>1, Constants
      <3>4. QED
        BY <3>1, <3>2, <3>3
    <2>11. from + s[k] + (IF k <= i THEN 0 ELSE hole) <= HoleStart(maj, k)
      BY <2>9, <2>10
    <2>12. QED
      BY <2>11
  <1>10. n \in S
    <2> HIDE DEF S
    <2>1. \A k \in 0 .. n : k \in S
      BY <1>8, <1>9, Upwards
    <2>2. QED
      BY <2>1
  <1>11. s[n] \in Int /\ from + s[n] + (IF n <= i THEN 0 ELSE hole) <= HoleStart(maj, n)
    BY <1>5, <1>10
  <1>12. /\ HoleStart(maj, n) \in Nat /\ HoleStart(maj, n) <= HoleEnd(maj, n)
         /\ HoleEnd(maj, n) = maj.base + Size(maj)
    BY <1>2, Holes DEF HoleEnd
  <1>13. from + s[n] + hole <= maj.base + Size(maj)
    <2>1. CASE n <= i
      <3>1. n = i
        BY <1>2, <2>1
      <3>2. PICK x \in Int, y \in Nat, z \in Int :
              x = s[n] /\ y = HoleStart(maj, n) /\ z = HoleEnd(maj, n)
        BY <1>1, <1>11, <1>12
      <3>3. hole = z - y
        BY <1>6, <3>1, <3>2
      <3>4. from + x <= y
        BY <1>11, <2>1, <3>2
      <3>5. from + x + hole <= z
        BY <3>3, <3>4
      <3>6. QED
        BY <1>12, <3>2, <3>5
    <2>2. CASE ~(n <= i)
      <3>1. PICK x \in Int, y \in Nat, z \in Int :
              x = s[n] /\ y = HoleStart(maj, n) /\ z = maj.base + Size(maj)
        BY <1>1, <1>11, <1>12
      <3>2. from + x + hole <= y /\ y <= z
        BY <1>11, <1>12, <2>2, <3>1
      <3>3. from + x + hole <= z
        BY <3>2
      <3>4. QED
        BY <3>1, <3>3
    <2>3. QED
      BY <2>1, <2>2
  <1>14. maj.usage = MAJOR + s[n]
    BY <1>2, <1>3, <1>4 DEF Counted, UsedWithHeaders
  <1>15. PICK x \in Int, base \in Nat, all \in Nat : x = s[n] /\ base = maj.base /\ all = Size(maj)
    BY <1>1, <1>11
  <1>16. all - (MAJOR + x) >= size + MINOR
    <2>1. from + x + hole <= base + all /\ from = base + MAJOR
      BY <1>7, <1>13, <1>15
    <2>2. QED
      BY <1>6, <2>1, Constants
  <1>17. QED
    BY <1>14, <1>15, <1>16 DEF Space

-----------------------------------------------------------------------------
(***************************************************************************)
(* The heap.                                                               *)
(***************************************************************************)
Heap == [majors : Seq(Major), bestBet : Nat, inuse : Int, allocated : Int,
         taken : Nat, returned : Nat]

\* The majors are well, counted and not empty, lie in pages that were taken,
\* and in the order of their addresses.
Lined(h) ==
    /\ \A i \in 1 .. Len(h.majors) :
         /\ Well(h.majors[i]) /\ Counted(h.majors[i]) /\ Len(h.majors[i].minors) > 0
         /\ l_pageSize <= h.majors[i].base
         /\ h.majors[i].base + Size(h.majors[i]) <= (h.taken + 1) * l_pageSize
    /\ \A i, k \in 1 .. Len(h.majors) :
         i < k => h.majors[i].base + Size(h.majors[i]) <= h.majors[k].base

Listed(h) == h.bestBet # NULL => \E i \in 1 .. Len(h.majors) : h.majors[i].base = h.bestBet

Totals(h) ==
    /\ h.inuse = SumTo(Len(h.majors), [i \in 1 .. Len(h.majors) |-> Used(h.majors[i])])
    /\ h.allocated = SumTo(Len(h.majors), [i \in 1 .. Len(h.majors) |-> Size(h.majors[i])])

HeapOK(h) == h \in Heap /\ Lined(h) /\ Listed(h) /\ Totals(h)

Blocks(h) == UNION {BlocksIn(h.majors[i]) : i \in 1 .. Len(h.majors)}

\* How many pages the majors have.
Pages(h) == {h.majors[i].pages : i \in 1 .. Len(h.majors)}

\* Types of the parts of a heap.
LEMMA HeapParts ==
    ASSUME NEW h \in Heap
    PROVE  /\ h.majors \in Seq(Major) /\ Len(h.majors) \in Nat
           /\ \A i \in 1 .. Len(h.majors) : h.majors[i] \in Major
           /\ h.bestBet \in Nat /\ h.inuse \in Int /\ h.allocated \in Int
           /\ h.taken \in Nat /\ h.returned \in Nat
           /\ (h.taken + 1) * l_pageSize \in Nat
  <1>1. h.majors \in Seq(Major) /\ h.bestBet \in Nat /\ h.inuse \in Int /\ h.allocated \in Int
    BY DEF Heap
  <1>2. h.taken \in Nat /\ h.returned \in Nat
    BY DEF Heap
  <1>3. PICK t \in Nat : t = h.taken
    BY <1>2
  <1>4. (t + 1) * l_pageSize \in Nat
    BY Constants, SMTT(30)
  <1>5. Len(h.majors) \in Nat /\ \A i \in 1 .. Len(h.majors) : h.majors[i] \in Major
    BY <1>1
  <1>6. QED
    BY <1>1, <1>2, <1>3, <1>4, <1>5

\* Blocks are inside their major.
LEMMA Located ==
    ASSUME NEW maj \in Major, Well(maj), NEW b \in BlocksIn(maj)
    PROVE  /\ b \in Minor /\ maj.base + MAJOR <= b.at /\ End(b) <= maj.base + Size(maj)
           /\ b.req + ALIGNMENT + ALIGN_INFO <= b.size
           /\ maj.base < b.at /\ b.at > 0
  <1>1. PICK j \in 1 .. Len(maj.minors) : b = maj.minors[j]
    BY DEF BlocksIn
  <1>2. /\ b \in Minor /\ maj.base + MAJOR <= b.at /\ End(b) <= maj.base + Size(maj)
        /\ b.req + ALIGNMENT + ALIGN_INFO <= b.size
    BY <1>1, MajorParts DEF Well
  <1>3. PICK x \in Nat, y \in Nat : x = maj.base /\ y = b.at
    BY <1>2, MajorParts, MinorParts
  <1>4. x + MAJOR <= y => x < y /\ y > 0
    BY Constants
  <1>5. QED
    BY <1>2, <1>3, <1>4

\* Two majors share no byte.
LEMMA MajorsApart ==
    ASSUME NEW h \in Heap, Lined(h), NEW i \in 1 .. Len(h.majors), NEW k \in 1 .. Len(h.majors),
           i # k
    PROVE  /\ \A b \in BlocksIn(h.majors[i]), c \in BlocksIn(h.majors[k]) : Apart(b, c) /\ b # c
           /\ h.majors[i].base # h.majors[k].base
  <1>1. i \in Nat /\ k \in Nat /\ h.majors[i] \in Major /\ h.majors[k] \in Major
    BY HeapParts
  <1>2. PICK x \in Nat, y \in Nat, u \in Nat, v \in Nat :
          /\ x = h.majors[i].base /\ y = Size(h.majors[i])
          /\ u = h.majors[k].base /\ v = Size(h.majors[k])
    BY <1>1, MajorParts
  <1>3. x + y <= u \/ u + v <= x
    BY <1>1, <1>2 DEF Lined
  <1>4. Well(h.majors[i]) /\ Well(h.majors[k])
    BY DEF Lined
  <1>5. MAJOR <= y /\ MAJOR <= v
    BY <1>2, <1>4 DEF Well
  <1>6. x # u
    BY <1>3, <1>5, Constants
  <1>7. ASSUME NEW b \in BlocksIn(h.majors[i]), NEW c \in BlocksIn(h.majors[k])
        PROVE  Apart(b, c) /\ b # c
    <2>1. /\ b \in Minor /\ x < b.at /\ End(b) <= x + y
          /\ c \in Minor /\ u < c.at /\ End(c) <= u + v
      BY <1>1, <1>2, <1>4, Located
    <2>2. PICK ba \in Nat, be \in Nat, ca \in Nat, ce \in Nat :
            /\ ba = b.at /\ be = End(b) /\ ca = c.at /\ ce = End(c) /\ ba < be /\ ca < ce
      BY <2>1, MinorParts
    <2>3. be <= ca \/ ce <= ba
      BY <1>3, <2>1, <2>2
    <2>4. ba # ca
      BY <2>2, <2>3
    <2>5. QED
      BY <2>2, <2>3, <2>4 DEF Apart
  <1>8. QED
    BY <1>2, <1>6, <1>7

\* Two blocks of a major share no byte.
LEMMA MinorsApart ==
    ASSUME NEW maj \in Major, Well(maj), NEW j \in 1 .. Len(maj.minors),
           NEW k \in 1 .. Len(maj.minors), j # k
    PROVE  Apart(maj.minors[j], maj.minors[k])
  <1>1. j \in Nat /\ k \in Nat
    BY MajorParts
  <1>2. j < k \/ k < j
    BY <1>1
  <1>3. QED
    BY <1>2 DEF Well, Apart

\* All blocks of the heap are minors in their right place, and apart.
LEMMA BlocksApart ==
    ASSUME NEW h \in Heap, Lined(h)
    PROVE  /\ \A b \in Blocks(h) : /\ b \in Minor /\ b.at > 0
                                   /\ b.req + ALIGNMENT + ALIGN_INFO <= b.size
                                   /\ End(b) <= (h.taken + 1) * l_pageSize
           /\ \A b, c \in Blocks(h) : b # c => Apart(b, c)
  <1>1. ASSUME NEW b \in Blocks(h)
        PROVE  /\ b \in Minor /\ b.at > 0 /\ b.req + ALIGNMENT + ALIGN_INFO <= b.size
               /\ End(b) <= (h.taken + 1) * l_pageSize
    <2>1. PICK i \in 1 .. Len(h.majors) : b \in BlocksIn(h.majors[i])
      BY DEF Blocks
    <2>2. h.majors[i] \in Major /\ Well(h.majors[i])
      BY HeapParts DEF Lined
    <2>3. /\ b \in Minor /\ b.at > 0 /\ b.req + ALIGNMENT + ALIGN_INFO <= b.size
          /\ End(b) <= h.majors[i].base + Size(h.majors[i])
      BY <2>1, <2>2, Located
    <2>4. PICK x \in Nat, y \in Nat, z \in Nat :
            /\ x = End(b) /\ y = h.majors[i].base + Size(h.majors[i])
            /\ z = (h.taken + 1) * l_pageSize
      <3>1. End(b) \in Nat
        BY <2>3, MinorParts
      <3>2. h.majors[i].base \in Nat /\ Size(h.majors[i]) \in Nat
        BY <2>2, MajorParts
      <3>3. h.majors[i].base + Size(h.majors[i]) \in Nat
        BY <3>2
      <3>4. (h.taken + 1) * l_pageSize \in Nat
        BY HeapParts
      <3>5. QED
        BY <3>1, <3>3, <3>4
    <2>5. x <= y /\ y <= z
      BY <2>3, <2>4 DEF Lined
    <2>6. QED
      BY <2>3, <2>4, <2>5
  <1>2. ASSUME NEW b \in Blocks(h), NEW c \in Blocks(h), b # c PROVE Apart(b, c)
    <2>1. PICK i \in 1 .. Len(h.majors) : b \in BlocksIn(h.majors[i])
      BY DEF Blocks
    <2>2. PICK k \in 1 .. Len(h.majors) : c \in BlocksIn(h.majors[k])
      BY DEF Blocks
    <2>3. CASE i # k
      BY <2>1, <2>2, <2>3, MajorsApart
    <2>4. CASE i = k
      <3>1. h.majors[i] \in Major /\ Well(h.majors[i])
        BY HeapParts DEF Lined
      <3>2. PICK j \in 1 .. Len(h.majors[i].minors) : b = h.majors[i].minors[j]
        BY <2>1 DEF BlocksIn
      <3>3. PICK l \in 1 .. Len(h.majors[i].minors) : c = h.majors[i].minors[l]
        BY <2>2, <2>4 DEF BlocksIn
      <3>4. j # l
        BY <1>2, <3>2, <3>3
      <3>5. QED
        BY <3>1, <3>2, <3>3, <3>4, MinorsApart
    <2>5. QED
      BY <2>3, <2>4
  <1>3. QED
    BY <1>1, <1>2

\* A pointer is inside its block, with what was asked for behind it.
LEMMA PointerInside ==
    ASSUME NEW b \in Minor, b.req + ALIGNMENT + ALIGN_INFO <= b.size
    PROVE  /\ Pointer(b) \in Nat /\ b.at < Pointer(b) /\ Pointer(b) < End(b)
           /\ Pointer(b) + b.req <= End(b)
  <1>1. PICK at \in Nat, size \in Nat, req \in Nat :
          at = b.at /\ size = b.size /\ req = b.req /\ End(b) = at + MINOR + size
    BY MinorParts
  <1>2. PICK q \in Nat : q = at + MINOR + ALIGN_INFO
    BY Constants
  <1>3. PICK r \in Nat : r = q % ALIGNMENT /\ r < ALIGNMENT
    BY Constants, SMTT(30)
  <1>4. Pointer(b) = IF r = 0 THEN q ELSE q + ALIGNMENT - r
    BY <1>1, <1>2, <1>3 DEF Pointer, ALIGN
  <1>5. req + ALIGNMENT + ALIGN_INFO <= size
    BY <1>1
  <1>6. PICK p \in Nat : p = (IF r = 0 THEN q ELSE q + ALIGNMENT - r)
                          /\ p < q + ALIGNMENT /\ q <= p
    <2>1. CASE r = 0
      BY <2>1, Constants
    <2>2. CASE r # 0
      <3>1. q + ALIGNMENT - r \in Nat /\ q + ALIGNMENT - r < q + ALIGNMENT /\ q <= q + ALIGNMENT - r
        BY <1>3, <2>2, Constants
      <3>2. QED
        BY <2>2, <3>1
    <2>3. QED
      BY <2>1, <2>2
  <1>7. at < p /\ p < at + MINOR + size /\ p + req <= at + MINOR + size
    BY <1>2, <1>5, <1>6, Constants
  <1>8. QED
    BY <1>1, <1>4, <1>6, <1>7

\* No two blocks have the same pointer.
LEMMA PointerUnique ==
    ASSUME NEW h \in Heap, Lined(h), NEW b \in Blocks(h), NEW c \in Blocks(h),
           Pointer(b) = Pointer(c)
    PROVE  b = c
  <1>1. /\ b \in Minor /\ b.req + ALIGNMENT + ALIGN_INFO <= b.size
        /\ c \in Minor /\ c.req + ALIGNMENT + ALIGN_INFO <= c.size
    BY BlocksApart
  <1>2. PICK p \in Nat, ba \in Nat, be \in Nat, ca \in Nat, ce \in Nat :
          /\ p = Pointer(b) /\ ba = b.at /\ be = End(b) /\ ca = c.at /\ ce = End(c)
          /\ ba < p /\ p < be /\ ca < p /\ p < ce
    BY <1>1, PointerInside, MinorParts
  <1>3. ~(be <= ca) /\ ~(ce <= ba)
    BY <1>2
  <1>4. ~Apart(b, c)
    BY <1>2, <1>3 DEF Apart
  <1>5. QED
    BY <1>4, BlocksApart

\* The sums over the majors are over numbers.
LEMMA MajorSums ==
    ASSUME NEW h \in Heap, NEW n, n = Len(h.majors)
    PROVE  /\ n \in Nat
           /\ [i \in 1 .. n |-> Used(h.majors[i])] \in [1 .. n -> Int]
           /\ [i \in 1 .. n |-> Size(h.majors[i])] \in [1 .. n -> Int]
  <1>1. n \in Nat /\ \A i \in 1 .. n : h.majors[i] \in Major
    BY HeapParts
  <1>2. \A i \in 1 .. n : Used(h.majors[i]) \in Int /\ Size(h.majors[i]) \in Int
    <2> SUFFICES ASSUME NEW i \in 1 .. n
                 PROVE  Used(h.majors[i]) \in Int /\ Size(h.majors[i]) \in Int
      OBVIOUS
    <2>1. Used(h.majors[i]) \in Int
      BY <1>1, UsedTyped
    <2>2. Size(h.majors[i]) \in Nat
      BY <1>1, MajorParts
    <2>3. QED
      BY <2>1, <2>2
  <1>3. QED
    BY <1>1, <1>2

\* The i-th major of g has become m in h.
Replaced(g, h, i, m) ==
    /\ h.majors = [g.majors EXCEPT ![i] = m]
    /\ h.taken = g.taken /\ h.allocated = g.allocated
    /\ h.inuse = g.inuse + Used(m) - Used(g.majors[i])
    /\ h.bestBet # NULL => \E k \in 1 .. Len(g.majors) : g.majors[k].base = h.bestBet

\* A major may change inside.
LEMMA Replacing ==
    ASSUME NEW g, HeapOK(g), NEW h \in Heap, NEW i \in 1 .. Len(g.majors), NEW m \in Major,
           m.base = g.majors[i].base, m.pages = g.majors[i].pages,
           Well(m), Counted(m), Len(m.minors) > 0, Replaced(g, h, i, m)
    PROVE  /\ HeapOK(h)
           /\ Blocks(h) = (Blocks(g) \ BlocksIn(g.majors[i])) \cup BlocksIn(m)
           /\ Pages(h) = Pages(g)
  <1>0. /\ h.majors = [g.majors EXCEPT ![i] = m] /\ h.taken = g.taken
        /\ h.allocated = g.allocated /\ h.inuse = g.inuse + Used(m) - Used(g.majors[i])
        /\ h.bestBet # NULL => \E k \in 1 .. Len(g.majors) : g.majors[k].base = h.bestBet
    BY DEF Replaced
  <1>1. g \in Heap /\ Lined(g) /\ Listed(g) /\ Totals(g)
    BY DEF HeapOK
  <1>2. PICK n \in Nat : n = Len(g.majors)
    BY <1>1, HeapParts
  <1>3. PICK s \in Seq(Major) : s = g.majors
    BY <1>1, HeapParts
  <1>4. /\ Len(h.majors) = n /\ h.majors[i] = m
        /\ \A k \in 1 .. n : k # i => h.majors[k] = g.majors[k]
    <2>1. h.majors = [s EXCEPT ![i] = m] /\ i \in 1 .. Len(s)
      BY <1>0, <1>3
    <2>2. Len(h.majors) = Len(s) /\ h.majors[i] = m /\ \A k \in 1 .. Len(s) : k # i => h.majors[k] = s[k]
      BY <2>1
    <2>3. QED
      BY <1>2, <1>3, <2>2
  <1>5. Size(m) = Size(g.majors[i])
    BY DEF Size
  <1>6. \A k \in 1 .. n : /\ h.majors[k].base = g.majors[k].base
                          /\ Size(h.majors[k]) = Size(g.majors[k])
    BY <1>4, <1>5
  <1>7. Lined(h)
    <2>1. ASSUME NEW k \in 1 .. n
          PROVE  /\ Well(h.majors[k]) /\ Counted(h.majors[k]) /\ Len(h.majors[k].minors) > 0
                 /\ l_pageSize <= h.majors[k].base
                 /\ h.majors[k].base + Size(h.majors[k]) <= (h.taken + 1) * l_pageSize
      <3>1. Well(h.majors[k]) /\ Counted(h.majors[k]) /\ Len(h.majors[k].minors) > 0
        <4>1. CASE k = i
          BY <1>4, <4>1
        <4>2. CASE k # i
          BY <1>1, <1>2, <1>4, <4>2 DEF Lined
        <4>3. QED
          BY <4>1, <4>2
      <3>2. /\ l_pageSize <= h.majors[k].base
            /\ h.majors[k].base + Size(h.majors[k]) <= (h.taken + 1) * l_pageSize
        BY <1>0, <1>1, <1>2, <1>6 DEF Lined
      <3>3. QED
        BY <3>1, <3>2
    <2>2. ASSUME NEW k \in 1 .. n, NEW l \in 1 .. n, k < l
          PROVE  h.majors[k].base + Size(h.majors[k]) <= h.majors[l].base
      BY <1>1, <1>2, <1>6, <2>2 DEF Lined
    <2>3. QED
      BY <1>4, <2>1, <2>2 DEF Lined
  <1>8. Listed(h)
    BY <1>0, <1>2, <1>4, <1>6 DEF Listed
  <1>9. Totals(h)
    <2>1. PICK f : f = [k \in 1 .. n |-> Used(g.majors[k])]
      OBVIOUS
    <2>2. PICK e : e = [k \in 1 .. n |-> Used(h.majors[k])]
      OBVIOUS
    <2>3. f \in [1 .. n -> Int] /\ e \in [1 .. n -> Int]
      BY <1>1, <1>2, <1>4, <2>1, <2>2, MajorSums
    <2>4. SumTo(n, f) \in Int /\ SumTo(n, e) = SumTo(n, f) + e[i] - f[i]
      <3>1. i \in 1 .. n /\ \A k \in 1 .. n : k # i => e[k] = f[k]
        BY <1>2, <1>4, <2>1, <2>2
      <3>2. QED
        BY <2>3, <3>1, SumChange
    <2>5. e[i] = Used(m) /\ f[i] = Used(g.majors[i])
      BY <1>2, <1>4, <2>1, <2>2
    <2>6. g.inuse = SumTo(n, f)
      BY <1>1, <1>2, <2>1 DEF Totals
    <2>7. h.inuse = SumTo(n, e)
      BY <1>0, <2>4, <2>5, <2>6
    <2>8. [k \in 1 .. n |-> Size(h.majors[k])] = [k \in 1 .. n |-> Size(g.majors[k])]
      BY <1>6
    <2>9. g.allocated = SumTo(n, [k \in 1 .. n |-> Size(g.majors[k])])
      BY <1>1, <1>2 DEF Totals
    <2>10. h.allocated = SumTo(n, [k \in 1 .. n |-> Size(h.majors[k])])
      BY <1>0, <2>8, <2>9
    <2>11. QED
      BY <1>4, <2>2, <2>7, <2>10 DEF Totals
  <1>10. Blocks(h) = (Blocks(g) \ BlocksIn(g.majors[i])) \cup BlocksIn(m)
    <2>1. ASSUME NEW k \in 1 .. n, k # i, NEW b \in BlocksIn(g.majors[k])
          PROVE  b \in Blocks(g) /\ b \notin BlocksIn(g.majors[i]) /\ b \in Blocks(h)
      <3>1. b \notin BlocksIn(g.majors[i])
        BY <1>1, <1>2, <2>1, MajorsApart
      <3>2. b \in Blocks(g) /\ b \in Blocks(h)
        BY <1>2, <1>4, <2>1 DEF Blocks
      <3>3. QED
        BY <3>1, <3>2
    <2>2. ASSUME NEW b \in Blocks(h)
          PROVE  b \in (Blocks(g) \ BlocksIn(g.majors[i])) \cup BlocksIn(m)
      <3>1. PICK k \in 1 .. n : b \in BlocksIn(h.majors[k])
        BY <1>4 DEF Blocks
      <3>2. CASE k = i
        BY <1>4, <3>1, <3>2
      <3>3. CASE k # i
        BY <1>4, <2>1, <3>1, <3>3
      <3>4. QED
        BY <3>2, <3>3
    <2>3. ASSUME NEW b \in Blocks(g) \ BlocksIn(g.majors[i]) PROVE b \in Blocks(h)
      <3>1. PICK k \in 1 .. n : b \in BlocksIn(g.majors[k])
        BY <1>2 DEF Blocks
      <3>2. QED
        BY <2>1, <2>3, <3>1
    <2>4. ASSUME NEW b \in BlocksIn(m) PROVE b \in Blocks(h)
      BY <1>2, <1>4 DEF Blocks
    <2>5. QED
      BY <2>2, <2>3, <2>4
  <1>11. Pages(h) = Pages(g)
    <2>1. \A k \in 1 .. n : h.majors[k].pages = g.majors[k].pages
      BY <1>4
    <2>2. QED
      BY <1>2, <1>4, <2>1 DEF Pages
  <1>12. QED
    BY <1>7, <1>8, <1>9, <1>10, <1>11 DEF HeapOK

\* A major may be added at the end, in the pages taken for it.
LEMMA Adding ==
    ASSUME NEW g, HeapOK(g), NEW h \in Heap, NEW m \in Major,
           m.base = (g.taken + 1) * l_pageSize,
           Well(m), Counted(m), Len(m.minors) > 0,
           h.majors = Append(g.majors, m), h.taken = g.taken + m.pages,
           h.allocated = g.allocated + Size(m), h.inuse = g.inuse + Used(m),
           h.bestBet # NULL => \/ h.bestBet = m.base
                               \/ \E k \in 1 .. Len(g.majors) : g.majors[k].base = h.bestBet
    PROVE  /\ HeapOK(h) /\ Blocks(h) = Blocks(g) \cup BlocksIn(m)
           /\ Pages(h) \subseteq Pages(g) \cup {m.pages}
  <1>1. g \in Heap /\ Lined(g) /\ Listed(g) /\ Totals(g)
    BY DEF HeapOK
  <1>2. PICK n \in Nat : n = Len(g.majors)
    BY <1>1, HeapParts
  <1>3. /\ Len(h.majors) = n + 1 /\ h.majors[n + 1] = m
        /\ \A k \in 1 .. n : h.majors[k] = g.majors[k]
    <2>1. PICK s \in Seq(Major) : s = g.majors
      BY <1>1, HeapParts
    <2>2. /\ Len(h.majors) = Len(s) + 1 /\ h.majors[Len(s) + 1] = m
          /\ \A k \in 1 .. Len(s) : h.majors[k] = s[k]
      BY <2>1
    <2>3. QED
      BY <1>2, <2>1, <2>2
  <1>4. PICK t \in Nat, p \in Nat : t = g.taken /\ p = m.pages
    BY <1>1, HeapParts, MajorParts
  <1>5. PICK x \in Nat, y \in Nat, z \in Nat :
          /\ x = (t + 1) * l_pageSize /\ y = p * l_pageSize /\ z = (t + p + 1) * l_pageSize
          /\ x + y = z /\ l_pageSize <= x
    <2>1. /\ (t + 1) * l_pageSize \in Nat /\ p * l_pageSize \in Nat
          /\ (t + p + 1) * l_pageSize \in Nat /\ l_pageSize <= (t + 1) * l_pageSize
      BY Constants, SMTT(30)
    <2>2. (t + 1) * l_pageSize + p * l_pageSize = (t + p + 1) * l_pageSize
      BY Constants, SMTT(30)
    <2>3. QED
      BY <2>1, <2>2
  <1>6. m.base = x /\ Size(m) = y /\ (h.taken + 1) * l_pageSize = z /\ (g.taken + 1) * l_pageSize = x
    <2>1. h.taken + 1 = t + p + 1
      BY <1>4
    <2>2. QED
      BY <1>4, <1>5, <2>1 DEF Size
  <1>7. Lined(h)
    <2>1. ASSUME NEW k \in 1 .. n
          PROVE  /\ Well(h.majors[k]) /\ Counted(h.majors[k]) /\ Len(h.majors[k].minors) > 0
                 /\ l_pageSize <= h.majors[k].base
                 /\ h.majors[k].base + Size(h.majors[k]) <= x
                 /\ h.majors[k].base + Size(h.majors[k]) <= z
      <3>1. /\ Well(g.majors[k]) /\ Counted(g.majors[k]) /\ Len(g.majors[k].minors) > 0
            /\ l_pageSize <= g.majors[k].base
            /\ g.majors[k].base + Size(g.majors[k]) <= x
        BY <1>1, <1>2, <1>6 DEF Lined
      <3>2. g.majors[k].base \in Nat /\ Size(g.majors[k]) \in Nat
        BY <1>1, <1>2, HeapParts, MajorParts
      <3>3. g.majors[k].base + Size(g.majors[k]) <= z
        <4>1. PICK u \in Nat, v \in Nat : u = g.majors[k].base /\ v = Size(g.majors[k])
          BY <3>2
        <4>2. u + v <= x => u + v <= z
          BY <1>5
        <4>3. QED
          BY <3>1, <4>1, <4>2
      <3>4. QED
        BY <1>3, <3>1, <3>3
    <2>2. ASSUME NEW k \in 1 .. n + 1
          PROVE  /\ Well(h.majors[k]) /\ Counted(h.majors[k]) /\ Len(h.majors[k].minors) > 0
                 /\ l_pageSize <= h.majors[k].base
                 /\ h.majors[k].base + Size(h.majors[k]) <= (h.taken + 1) * l_pageSize
      <3>1. CASE k = n + 1
        <4>1. h.majors[k] = m
          BY <1>3, <3>1
        <4>2. l_pageSize <= x /\ x + y <= z
          BY <1>5
        <4>3. QED
          BY <1>6, <4>1, <4>2
      <3>2. CASE k # n + 1
        <4>1. k \in 1 .. n
          BY <3>2
        <4>2. QED
          BY <1>6, <2>1, <4>1
      <3>3. QED
        BY <3>1, <3>2
    <2>3. ASSUME NEW k \in 1 .. n + 1, NEW l \in 1 .. n + 1, k < l
          PROVE  h.majors[k].base + Size(h.majors[k]) <= h.majors[l].base
      <3>1. CASE l = n + 1
        <4>1. k \in 1 .. n
          BY <2>3, <3>1
        <4>2. QED
          BY <1>3, <1>6, <2>1, <3>1, <4>1
      <3>2. CASE l # n + 1
        <4>1. k \in 1 .. n /\ l \in 1 .. n
          BY <2>3, <3>2
        <4>2. QED
          BY <1>1, <1>2, <1>3, <2>3, <4>1 DEF Lined
      <3>3. QED
        BY <3>1, <3>2
    <2>4. QED
      BY <1>3, <2>2, <2>3 DEF Lined
  <1>8. Listed(h)
    <2>1. CASE h.bestBet = m.base
      <3>1. n + 1 \in 1 .. Len(h.majors) /\ h.majors[n + 1].base = h.bestBet
        BY <1>3, <2>1
      <3>2. QED
        BY <3>1 DEF Listed
    <2>2. CASE \E k \in 1 .. Len(g.majors) : g.majors[k].base = h.bestBet
      <3>1. PICK k \in 1 .. n : g.majors[k].base = h.bestBet
        BY <1>2, <2>2
      <3>2. k \in 1 .. Len(h.majors) /\ h.majors[k].base = h.bestBet
        BY <1>3, <3>1
      <3>3. QED
        BY <3>2 DEF Listed
    <2>3. QED
      BY <2>1, <2>2 DEF Listed
  <1>9. Totals(h)
    <2>1. PICK f : f = [k \in 1 .. n |-> Used(g.majors[k])]
      OBVIOUS
    <2>2. PICK e : e = [k \in 1 .. n + 1 |-> Used(h.majors[k])]
      OBVIOUS
    <2>3. PICK ff : ff = [k \in 1 .. n |-> Size(g.majors[k])]
      OBVIOUS
    <2>4. PICK ee : ee = [k \in 1 .. n + 1 |-> Size(h.majors[k])]
      OBVIOUS
    <2>5. /\ f \in [1 .. n -> Int] /\ ff \in [1 .. n -> Int]
          /\ e \in [1 .. n + 1 -> Int] /\ ee \in [1 .. n + 1 -> Int]
      <3>1. f \in [1 .. n -> Int] /\ ff \in [1 .. n -> Int]
        BY <1>1, <1>2, <2>1, <2>3, MajorSums
      <3>2. e \in [1 .. n + 1 -> Int] /\ ee \in [1 .. n + 1 -> Int]
        BY <1>3, <2>2, <2>4, MajorSums
      <3>3. QED
        BY <3>1, <3>2
    <2>6. PICK i \in 1 .. n + 1 : i = n + 1 /\ i - 1 = n /\ i .. n = {}
      OBVIOUS
    <2>7. /\ \A k \in 1 .. i - 1 : e[k] = f[k] /\ ee[k] = ff[k]
          /\ \A k \in i .. n : e[k + 1] = f[k] /\ ee[k + 1] = ff[k]
          /\ e[i] = Used(m) /\ ee[i] = Size(m)
      <3>1. ASSUME NEW k \in 1 .. n PROVE e[k] = f[k] /\ ee[k] = ff[k]
        BY <1>3, <2>1, <2>2, <2>3, <2>4
      <3>2. e[i] = Used(m) /\ ee[i] = Size(m)
        BY <1>3, <2>2, <2>4, <2>6
      <3>3. QED
        BY <2>6, <3>1, <3>2
    <2>8. SumTo(n + 1, e) = SumTo(n, f) + Used(m)
      BY <2>5, <2>7, SumInsert, ZenonT(40)
    <2>9. SumTo(n + 1, ee) = SumTo(n, ff) + Size(m)
      BY <2>5, <2>7, SumInsert, ZenonT(40)
    <2>10. g.inuse = SumTo(n, f) /\ g.allocated = SumTo(n, ff)
      BY <1>1, <1>2, <2>1, <2>3 DEF Totals
    <2>11. QED
      BY <1>3, <2>2, <2>4, <2>8, <2>9, <2>10 DEF Totals
  <1>10. Blocks(h) = Blocks(g) \cup BlocksIn(m)
    <2>1. ASSUME NEW b \in Blocks(h) PROVE b \in Blocks(g) \cup BlocksIn(m)
      <3>1. PICK k \in 1 .. n + 1 : b \in BlocksIn(h.majors[k])
        BY <1>3 DEF Blocks
      <3>2. k \in 1 .. n \/ k = n + 1
        OBVIOUS
      <3>3. QED
        BY <1>2, <1>3, <3>1, <3>2 DEF Blocks
    <2>2. ASSUME NEW b \in Blocks(g) PROVE b \in Blocks(h)
      <3>1. PICK k \in 1 .. n : b \in BlocksIn(g.majors[k])
        BY <1>2 DEF Blocks
      <3>2. k \in 1 .. Len(h.majors) /\ b \in BlocksIn(h.majors[k])
        BY <1>3, <3>1
      <3>3. QED
        BY <3>2 DEF Blocks
    <2>3. ASSUME NEW b \in BlocksIn(m) PROVE b \in Blocks(h)
      <3>1. n + 1 \in 1 .. Len(h.majors) /\ b \in BlocksIn(h.majors[n + 1])
        BY <1>3
      <3>2. QED
        BY <3>1 DEF Blocks
    <2>4. QED
      BY <2>1, <2>2, <2>3
  <1>11. Pages(h) \subseteq Pages(g) \cup {m.pages}
    <2>1. ASSUME NEW k \in 1 .. n + 1 PROVE h.majors[k].pages \in Pages(g) \cup {m.pages}
      <3>1. k \in 1 .. n \/ k = n + 1
        OBVIOUS
      <3>2. QED
        BY <1>2, <1>3, <3>1 DEF Pages
    <2>2. QED
      BY <1>3, <2>1 DEF Pages
  <1>12. QED
    BY <1>7, <1>8, <1>9, <1>10, <1>11 DEF HeapOK

\* A major may go.
LEMMA Dropping ==
    ASSUME NEW g, HeapOK(g), NEW h \in Heap, NEW i \in 1 .. Len(g.majors),
           h.majors = RemoveAt(g.majors, i), h.taken = g.taken,
           h.allocated = g.allocated - Size(g.majors[i]),
           h.inuse = g.inuse - Used(g.majors[i]),
           h.bestBet = NULL \/ (h.bestBet = g.bestBet /\ h.bestBet # g.majors[i].base)
    PROVE  /\ HeapOK(h) /\ Blocks(h) = Blocks(g) \ BlocksIn(g.majors[i])
           /\ Pages(h) \subseteq Pages(g)
  <1>1. g \in Heap /\ Lined(g) /\ Listed(g) /\ Totals(g)
    BY DEF HeapOK
  <1>2. PICK s \in Seq(Major) : s = g.majors
    BY <1>1, HeapParts
  <1>3. PICK t : t = h.majors
    OBVIOUS
  <1>4. PICK n \in Nat : /\ n = Len(h.majors) /\ n + 1 = Len(g.majors)
    <2>1. i \in 1 .. Len(s) /\ t = RemoveAt(s, i)
      BY <1>2, <1>3
    <2>2. Len(t) + 1 = Len(s) /\ t \in Seq(Major)
      BY <2>1, Removing
    <2>3. QED
      BY <1>2, <1>3, <2>2
  <1>5. /\ \A k \in 1 .. i - 1 : g.majors[k] = h.majors[k]
        /\ \A k \in i .. n : g.majors[k + 1] = h.majors[k]
    <2>1. i \in 1 .. Len(s) /\ t = RemoveAt(s, i)
      BY <1>2, <1>3
    <2>2. /\ \A k \in 1 .. i - 1 : s[k] = t[k]
          /\ \A k \in i .. Len(t) : s[k + 1] = t[k]
      BY <2>1, Removing
    <2>3. QED
      BY <1>2, <1>3, <1>4, <2>2
  <1>6. i \in 1 .. n + 1
    BY <1>4
  <1>7. ASSUME NEW j \in 1 .. n
        PROVE  \E k \in 1 .. n + 1 : /\ h.majors[j] = g.majors[k]
                                     /\ k = IF j < i THEN j ELSE j + 1
    <2>1. CASE j < i
      <3>1. j \in 1 .. n + 1 /\ j \in 1 .. i - 1
        BY <2>1
      <3>2. QED
        BY <1>5, <2>1, <3>1
    <2>2. CASE ~(j < i)
      <3>1. j + 1 \in 1 .. n + 1 /\ j \in i .. n
        BY <2>2
      <3>2. QED
        BY <1>5, <2>2, <3>1
    <2>3. QED
      BY <2>1, <2>2
  <1>8. ASSUME NEW k \in 1 .. n + 1, k # i PROVE \E j \in 1 .. n : h.majors[j] = g.majors[k]
    <2>1. CASE k < i
      <3>1. k \in 1 .. n /\ k \in 1 .. i - 1
        BY <1>6, <2>1
      <3>2. QED
        BY <1>5, <3>1
    <2>2. CASE k > i
      <3>1. PICK j \in i .. n : j \in 1 .. n /\ k = j + 1
        <4>1. k - 1 \in i .. n /\ k - 1 \in 1 .. n /\ k = (k - 1) + 1
          BY <1>6, <2>2
        <4>2. QED
          BY <4>1
      <3>2. QED
        BY <1>5, <3>1
    <2>3. QED
      BY <1>6, <1>8, <2>1, <2>2
  <1>9. Lined(h)
    <2>1. ASSUME NEW j \in 1 .. n
          PROVE  /\ Well(h.majors[j]) /\ Counted(h.majors[j]) /\ Len(h.majors[j].minors) > 0
                 /\ l_pageSize <= h.majors[j].base
                 /\ h.majors[j].base + Size(h.majors[j]) <= (h.taken + 1) * l_pageSize
      <3>1. PICK k \in 1 .. n + 1 : h.majors[j] = g.majors[k]
        BY <1>7
      <3>2. QED
        BY <1>1, <1>4, <3>1 DEF Lined
    <2>2. ASSUME NEW j \in 1 .. n, NEW k \in 1 .. n, j < k
          PROVE  h.majors[j].base + Size(h.majors[j]) <= h.majors[k].base
      <3>1. PICK x \in 1 .. n + 1 : h.majors[j] = g.majors[x] /\ x = IF j < i THEN j ELSE j + 1
        BY <1>7
      <3>2. PICK y \in 1 .. n + 1 : h.majors[k] = g.majors[y] /\ y = IF k < i THEN k ELSE k + 1
        BY <1>7
      <3>3. x < y
        BY <2>2, <3>1, <3>2
      <3>4. QED
        BY <1>1, <1>4, <3>1, <3>2, <3>3 DEF Lined
    <2>3. QED
      BY <1>4, <2>1, <2>2 DEF Lined
  <1>10. Listed(h)
    <2>1. SUFFICES ASSUME h.bestBet # NULL
                   PROVE  \E j \in 1 .. n : h.majors[j].base = h.bestBet
      BY <1>4 DEF Listed
    <2>2. PICK k \in 1 .. n + 1 : g.majors[k].base = h.bestBet
      BY <1>1, <1>4, <2>1 DEF Listed
    <2>3. k # i
      BY <2>1, <2>2
    <2>4. QED
      BY <1>8, <2>2, <2>3
  <1>11. Totals(h)
    <2>1. PICK e : e = [k \in 1 .. n + 1 |-> Used(g.majors[k])]
      OBVIOUS
    <2>2. PICK f : f = [k \in 1 .. n |-> Used(h.majors[k])]
      OBVIOUS
    <2>3. PICK ee : ee = [k \in 1 .. n + 1 |-> Size(g.majors[k])]
      OBVIOUS
    <2>4. PICK ff : ff = [k \in 1 .. n |-> Size(h.majors[k])]
      OBVIOUS
    <2>5. /\ f \in [1 .. n -> Int] /\ ff \in [1 .. n -> Int]
          /\ e \in [1 .. n + 1 -> Int] /\ ee \in [1 .. n + 1 -> Int]
      <3>1. f \in [1 .. n -> Int] /\ ff \in [1 .. n -> Int]
        BY <1>4, <2>2, <2>4, MajorSums
      <3>2. e \in [1 .. n + 1 -> Int] /\ ee \in [1 .. n + 1 -> Int]
        BY <1>1, <1>4, <2>1, <2>3, MajorSums
      <3>3. QED
        BY <3>1, <3>2
    <2>6. e[i] = Used(g.majors[i]) /\ ee[i] = Size(g.majors[i])
      BY <1>6, <2>1, <2>3
    <2>7. /\ \A k \in 1 .. i - 1 : e[k] = f[k] /\ ee[k] = ff[k]
          /\ \A k \in i .. n : e[k + 1] = f[k] /\ ee[k + 1] = ff[k]
      <3>1. ASSUME NEW k \in 1 .. i - 1 PROVE e[k] = f[k] /\ ee[k] = ff[k]
        <4>1. k \in 1 .. n /\ k \in 1 .. n + 1
          BY <1>6
        <4>2. QED
          BY <1>5, <2>1, <2>2, <2>3, <2>4, <4>1
      <3>2. ASSUME NEW k \in i .. n PROVE e[k + 1] = f[k] /\ ee[k + 1] = ff[k]
        <4>1. k \in 1 .. n /\ k + 1 \in 1 .. n + 1
          BY <1>6
        <4>2. QED
          BY <1>5, <2>1, <2>2, <2>3, <2>4, <4>1
      <3>3. QED
        BY <3>1, <3>2
    <2>8. SumTo(n, f) \in Int /\ SumTo(n + 1, e) = SumTo(n, f) + e[i] /\ e[i] \in Int
      <3>1. SumTo(n, f) \in Int /\ SumTo(n + 1, e) = SumTo(n, f) + e[i]
        BY <1>6, <2>5, <2>7, SumInsert
      <3>2. QED
        BY <1>6, <2>5, <3>1
    <2>9. SumTo(n, ff) \in Int /\ SumTo(n + 1, ee) = SumTo(n, ff) + ee[i] /\ ee[i] \in Int
      <3>1. SumTo(n, ff) \in Int /\ SumTo(n + 1, ee) = SumTo(n, ff) + ee[i]
        BY <1>6, <2>5, <2>7, SumInsert
      <3>2. QED
        BY <1>6, <2>5, <3>1
    <2>10. g.inuse = SumTo(n + 1, e) /\ g.allocated = SumTo(n + 1, ee)
      BY <1>1, <1>4, <2>1, <2>3 DEF Totals
    <2>11. h.inuse = SumTo(n, f)
      BY <2>6, <2>8, <2>10
    <2>12. h.allocated = SumTo(n, ff)
      BY <2>6, <2>9, <2>10
    <2>13. QED
      BY <1>4, <2>2, <2>4, <2>11, <2>12 DEF Totals
  <1>12. Blocks(h) = Blocks(g) \ BlocksIn(g.majors[i])
    <2>1. ASSUME NEW b \in Blocks(h) PROVE b \in Blocks(g) /\ b \notin BlocksIn(g.majors[i])
      <3>1. PICK j \in 1 .. n : b \in BlocksIn(h.majors[j])
        BY <1>4 DEF Blocks
      <3>2. PICK k \in 1 .. n + 1 : h.majors[j] = g.majors[k] /\ k = IF j < i THEN j ELSE j + 1
        BY <1>7
      <3>3. k # i
        BY <3>2
      <3>4. b \notin BlocksIn(g.majors[i])
        BY <1>1, <1>4, <3>1, <3>2, <3>3, MajorsApart
      <3>5. QED
        BY <1>4, <3>1, <3>2, <3>4 DEF Blocks
    <2>2. ASSUME NEW b \in Blocks(g) \ BlocksIn(g.majors[i]) PROVE b \in Blocks(h)
      <3>1. PICK k \in 1 .. n + 1 : b \in BlocksIn(g.majors[k])
        BY <1>4 DEF Blocks
      <3>2. PICK j \in 1 .. n : h.majors[j] = g.majors[k]
        BY <1>8, <2>2, <3>1
      <3>3. QED
        BY <1>4, <3>1, <3>2 DEF Blocks
    <2>3. QED
      BY <2>1, <2>2
  <1>13. Pages(h) \subseteq Pages(g)
    <2>1. ASSUME NEW j \in 1 .. n PROVE h.majors[j].pages \in Pages(g)
      <3>1. PICK k \in 1 .. n + 1 : h.majors[j] = g.majors[k]
        BY <1>7
      <3>2. QED
        BY <1>4, <3>1 DEF Pages
    <2>2. QED
      BY <1>4, <2>1 DEF Pages
  <1>14. QED
    BY <1>9, <1>10, <1>11, <1>12, <1>13 DEF HeapOK

-----------------------------------------------------------------------------
(***************************************************************************)
(* The search of malloc.                                                   *)
(***************************************************************************)
\* A best bet is found in the list, by its address.
LEMMA BetFound ==
    ASSUME HeapOK(heap), heap.bestBet # NULL, NEW n \in Nat, n = Len(heap.majors)
    PROVE  /\ IndexOf(heap.bestBet) \in 1 .. n
           /\ heap.majors[IndexOf(heap.bestBet)].base = heap.bestBet
  <1>1. \E i \in 1 .. Len(heap.majors) : heap.majors[i].base = heap.bestBet
    BY DEF HeapOK, Listed
  <1>2. QED
    BY <1>1 DEF IndexOf

\* The space of a major is a number.
LEMMA SpaceTyped == ASSUME NEW maj \in Major PROVE Space(maj) \in Int
  <1>1. Size(maj) \in Nat /\ maj.usage \in Int
    BY MajorParts
  <1>2. QED
    BY <1>1 DEF Space

\* So is the space of the best bet.
LEMMA BetSpaceTyped == ASSUME HeapOK(heap) PROVE BetSpace \in Int
  <1>1. CASE heap.bestBet = NULL
    BY <1>1 DEF BetSpace
  <1>2. CASE heap.bestBet # NULL
    <2>1. PICK n \in Nat : n = Len(heap.majors)
      BY HeapParts DEF HeapOK
    <2>2. heap.majors[IndexOf(heap.bestBet)] \in Major
      BY <1>2, <2>1, BetFound, HeapParts DEF HeapOK
    <2>3. Space(heap.majors[IndexOf(heap.bestBet)]) \in Int
      BY <2>2, SpaceTyped
    <2>4. QED
      BY <1>2, <2>3 DEF BetSpace
  <1>3. QED
    BY <1>1, <1>2

\* A route that leads past each of n majors.
Meets(r, n) == \A i \in 1 .. n : \E k \in 1 .. Len(r) : r[k] = i

\* The route leads past every major, from wherever it starts.
LEMMA Routed ==
    ASSUME HeapOK(heap), NEW size \in Nat, NEW n \in Nat, n = Len(heap.majors),
           NEW r, r = Route(size)
    PROVE  r \in Seq(1 .. n) /\ Len(r) \in Nat /\ Meets(r, n)
  <1>1. PICK all : all = [k \in 1 .. n |-> k]
    OBVIOUS
  <1>2. all \in Seq(1 .. n) /\ Len(all) = n /\ \A k \in 1 .. n : all[k] = k
    BY <1>1
  <1>3. CASE BetSpace > size + MINOR
    <2>1. heap.bestBet # NULL
      BY <1>3, Constants DEF BetSpace
    <2>2. PICK i \in 1 .. n : i = IndexOf(heap.bestBet)
      BY <2>1, BetFound
    <2>3. PICK a : a = SubSeq(all, i, n)
      OBVIOUS
    <2>4. a \in Seq(1 .. n) /\ Len(a) \in Nat
      <3>1. i \in Int /\ n \in Int /\ \A j \in i .. n : all[j] \in 1 .. n
        BY <1>2
      <3>2. a \in Seq(1 .. n)
        BY <2>3, <3>1, SubSeqProperties
      <3>3. QED
        BY <3>2
    <2>5. r = a \o all
      BY <1>1, <1>3, <2>2, <2>3 DEF Route
    <2>6. /\ r \in Seq(1 .. n) /\ Len(r) = Len(a) + n
          /\ \A k \in 1 .. Len(a) + n : r[k] = IF k <= Len(a) THEN a[k] ELSE all[k - Len(a)]
      <3>1. all \in Seq(1 .. n)
        BY <1>2
      <3>2. /\ r \in Seq(1 .. n) /\ Len(r) = Len(a) + Len(all)
            /\ \A k \in 1 .. Len(a) + Len(all) :
                 r[k] = IF k <= Len(a) THEN a[k] ELSE all[k - Len(a)]
        BY <2>4, <2>5, <3>1, ConcatProperties, SMTT(40)
      <3>3. QED
        BY <1>2, <3>2, Zenon
    <2>7. ASSUME NEW j \in 1 .. n PROVE \E k \in 1 .. Len(r) : r[k] = j
      <3>1. PICK k \in 1 .. Len(a) + n : k = Len(a) + j /\ ~(k <= Len(a)) /\ k - Len(a) = j
        <4>1. PICK m \in Nat : m = Len(a)
          BY <2>4
        <4>2. m + j \in 1 .. m + n /\ ~(m + j <= m) /\ (m + j) - m = j
          OBVIOUS
        <4>3. QED
          BY <4>1, <4>2
      <3>2. r[k] = all[j]
        BY <2>6, <3>1
      <3>3. QED
        BY <1>2, <2>6, <3>2
    <2>8. Len(r) \in Nat
      BY <2>4, <2>6
    <2>9. QED
      BY <2>6, <2>7, <2>8 DEF Meets
  <1>4. CASE ~(BetSpace > size + MINOR)
    <2>1. r = all
      BY <1>1, <1>4 DEF Route
    <2>2. QED
      BY <1>2, <2>1 DEF Meets
  <1>5. QED
    BY <1>3, <1>4

\* The walk ends at a hole when there is one anywhere.
LEMMA Walk ==
    ASSUME HeapOK(heap), NEW size \in Nat, NEW n \in Nat, n = Len(heap.majors),
           NEW w, w = Walked(size)
    PROVE  /\ w \in Seq(1 .. n) /\ Len(w) \in Nat
           /\ n > 0 => Len(w) > 0
           /\ Len(w) > 0 => /\ w[Len(w)] \in 1 .. n
                            /\ FirstHole(heap.majors[w[Len(w)]], size) = {} =>
                                 \A i \in 1 .. n : FirstHole(heap.majors[i], size) = {}
  <1>1. PICK r : r = Route(size)
    OBVIOUS
  <1>2. /\ r \in Seq(1 .. n) /\ Len(r) \in Nat /\ \A k \in 1 .. Len(r) : r[k] \in 1 .. n
        /\ \A i \in 1 .. n : \E k \in 1 .. Len(r) : r[k] = i
    <2>1. /\ r \in Seq(1 .. n) /\ Len(r) \in Nat
          /\ \A i \in 1 .. n : \E k \in 1 .. Len(r) : r[k] = i
      <3>1. n = Len(heap.majors) /\ r = Route(size) /\ HeapOK(heap)
        BY <1>1
      <3>2. r \in Seq(1 .. n) /\ Len(r) \in Nat
        BY <3>1, Routed
      <3>3. Meets(r, n)
        BY <3>1, Routed
      <3>4. QED
        BY <3>2, <3>3, Zenon DEF Meets
    <2>2. \A k \in 1 .. Len(r) : r[k] \in 1 .. n
      BY <2>1
    <2>3. QED
      BY <2>1, <2>2, Zenon
  <1>3. PICK stops : stops = {k \in 1 .. Len(r) : FirstHole(heap.majors[r[k]], size) # {}}
    OBVIOUS
  <1>4. w = IF stops = {} THEN r
            ELSE SubSeq(r, 1, CHOOSE k \in stops : \A j \in stops : k <= j)
    BY <1>1, <1>3 DEF Walked
  <1>5. n > 0 => Len(r) > 0
    <2>1. SUFFICES ASSUME n > 0 PROVE Len(r) > 0
      OBVIOUS
    <2>2. 1 \in 1 .. n
      BY <2>1
    <2>3. PICK k \in 1 .. Len(r) : r[k] = 1
      BY <1>2, <2>2
    <2>4. QED
      BY <1>2, <2>3
  <1>6. CASE stops = {}
    <2>1. w = r
      BY <1>4, <1>6
    <2>2. ASSUME NEW i \in 1 .. n PROVE FirstHole(heap.majors[i], size) = {}
      <3>1. PICK k \in 1 .. Len(r) : r[k] = i
        BY <1>2
      <3>2. QED
        BY <1>3, <1>6, <3>1
    <2>3. Len(r) > 0 => r[Len(r)] \in 1 .. n
      BY <1>2
    <2>4. QED
      BY <1>2, <1>5, <2>1, <2>2, <2>3
  <1>7. CASE stops # {}
    <2>1. PICK k : k = CHOOSE i \in stops : \A j \in stops : i <= j
      OBVIOUS
    <2>2. stops \in SUBSET Nat
      BY <1>2, <1>3
    <2>3. \E i \in stops : \A j \in stops : i <= j
      BY <1>7, <2>2, Least
    <2>4. k \in stops
      BY <2>1, <2>3
    <2>5. k \in 1 .. Len(r) /\ FirstHole(heap.majors[r[k]], size) # {} /\ r[k] \in 1 .. n
      BY <1>2, <1>3, <2>4
    <2>6. w = SubSeq(r, 1, k)
      BY <1>4, <1>7, <2>1
    <2>7. w \in Seq(1 .. n) /\ Len(w) = k /\ w[k] = r[k]
      <3>1. 1 \in Int /\ k \in Int /\ \A j \in 1 .. k : r[j] \in 1 .. n
        BY <1>2, <2>5
      <3>2. /\ w \in Seq(1 .. n) /\ Len(w) = IF 1 <= k THEN k - 1 + 1 ELSE 0
            /\ \A j \in 1 .. k - 1 + 1 : w[j] = r[1 + j - 1]
        BY <2>6, <3>1, SubSeqProperties
      <3>3. 1 <= k /\ k \in 1 .. k - 1 + 1 /\ 1 + k - 1 = k /\ k - 1 + 1 = k
        BY <1>2, <2>5
      <3>4. QED
        BY <3>2, <3>3
    <2>8. QED
      BY <1>2, <2>5, <2>7
  <1>8. QED
    BY <1>6, <1>7

\* Where no first hole is found, there is no hole.
LEMMA NoHole ==
    ASSUME NEW maj \in Major, Well(maj), Counted(maj), NEW size \in Nat,
           FirstHole(maj, size) = {}
    PROVE  \A i \in 0 .. Len(maj.minors) : ~HoleFits(maj, i, size)
  <1>1. SUFFICES ASSUME NEW i \in 0 .. Len(maj.minors), HoleFits(maj, i, size) PROVE FALSE
    OBVIOUS
  <1>2. PICK n \in Nat : n = Len(maj.minors)
    BY MajorParts
  <1>3. PICK S : S = {k \in 0 .. n : HoleFits(maj, k, size)}
    OBVIOUS
  <1>4. S \in SUBSET Nat /\ S # {}
    BY <1>1, <1>2, <1>3
  <1>5. PICK l \in S : \A k \in S : l <= k
    BY <1>4, Least
  <1>6. l \in 0 .. n /\ HoleFits(maj, l, size)
    BY <1>3, <1>5
  <1>7. ASSUME NEW k \in 0 .. l - 1 PROVE ~HoleFits(maj, k, size)
    <2>1. k \in 0 .. n /\ ~(l <= k)
      BY <1>6
    <2>2. QED
      BY <1>3, <1>5, <2>1
  <1>8. Space(maj) >= size + MINOR
    BY <1>2, <1>6, HoleCounts
  <1>9. l \in FirstHole(maj, size)
    BY <1>2, <1>6, <1>7, <1>8 DEF FirstHole
  <1>10. QED
    BY <1>9

\* Wherever the best bet moves, it is NULL or a listed major.
LEMMA BetMoves ==
    ASSUME HeapOK(heap), NEW size \in Nat, NEW bet, bet = BetAfter(size)
    PROVE  /\ bet.at \in Nat
           /\ bet.at # NULL => \E k \in 1 .. Len(heap.majors) : heap.majors[k].base = bet.at
  <1>1. PICK n \in Nat : n = Len(heap.majors)
    BY HeapParts DEF HeapOK
  <1>2. PICK w : w = Walked(size)
    OBVIOUS
  <1>3. PICK l \in Nat : l = Len(w)
    BY <1>1, <1>2, Walk
  <1>4. \A k \in 1 .. l : w[k] \in 1 .. n
    <2>1. w \in Seq(1 .. n)
      BY <1>1, <1>2, Walk, Zenon
    <2>2. QED
      BY <1>3, <2>1
  <1>5. PICK T : T = [at : {NULL} \cup {heap.majors[k].base : k \in 1 .. n}, space : Int]
    OBVIOUS
  <1>6. PICK a : a = [at |-> heap.bestBet, space |-> BetSpace]
    OBVIOUS
  <1>7. a \in T
    <2>1. heap.bestBet \in {NULL} \cup {heap.majors[k].base : k \in 1 .. n}
      BY <1>1 DEF HeapOK, Listed
    <2>2. QED
      BY <1>5, <1>6, <2>1, BetSpaceTyped
  <1>8. ASSUME NEW k \in 1 .. n, NEW b \in T PROVE Better(b, heap.majors[k]) \in T
    <2>1. heap.majors[k] \in Major
      BY <1>1, HeapParts DEF HeapOK
    <2>2. Space(heap.majors[k]) \in Int
      BY <2>1, SpaceTyped
    <2>3. [at |-> heap.majors[k].base, space |-> Space(heap.majors[k])] \in T
      BY <1>5, <2>2
    <2>4. QED
      BY <2>3 DEF Better
  <1>9. PICK F \in [1 .. l -> [T -> T]] :
          \A k \in 1 .. l : \A b \in T : F[k][b] = Better(b, heap.majors[w[k]])
    <2>1. [k \in 1 .. l |-> [b \in T |-> Better(b, heap.majors[w[k]])]] \in [1 .. l -> [T -> T]]
      BY <1>4, <1>8
    <2>2. QED
      BY <2>1
  <1>10. PICK s : s = CHOOSE g : g = [k \in 0 .. l |-> IF k = 0 THEN a
                                              ELSE Better(g[k - 1], heap.majors[w[k]])]
    OBVIOUS
  <1>11. bet = s[l]
    BY <1>2, <1>3, <1>6, <1>10 DEF BetAfter
  <1> DEFINE body(g) == [k \in 0 .. l |-> IF k = 0 THEN a ELSE Better(g[k - 1], heap.majors[w[k]])]
  <1>12. \E g : g = body(g)
    <2>1. PICK g : Steps(g, l, T, a, F)
      BY <1>7, StepsExist, Zenon
    <2>2. g \in [0 .. l -> T] /\ g[0] = a /\ \A k \in 1 .. l : g[k] = F[k][g[k - 1]]
      BY <2>1 DEF Steps
    <2>3. ASSUME NEW k \in 1 .. l PROVE g[k] = Better(g[k - 1], heap.majors[w[k]])
      <3>1. k - 1 \in 0 .. l /\ g[k - 1] \in T
        BY <2>2
      <3>2. QED
        BY <1>9, <2>2, <3>1, Zenon
    <2>4. ASSUME NEW k \in 0 .. l PROVE g[k] = body(g)[k]
      BY <2>2, <2>3
    <2>5. g = body(g)
      BY <2>2, <2>4
    <2>6. QED
      BY <2>5
  <1>13. s = body(s)
    BY <1>10, <1>12
  <1>14. s[0] = a /\ \A k \in 1 .. l : s[k] = Better(s[k - 1], heap.majors[w[k]])
    <2>1. s[0] = a
      BY <1>13
    <2>2. ASSUME NEW k \in 1 .. l PROVE s[k] = Better(s[k - 1], heap.majors[w[k]])
      <3>1. k \in 0 .. l /\ k # 0
        OBVIOUS
      <3>2. body(s)[k] = Better(s[k - 1], heap.majors[w[k]])
        BY <3>1
      <3>3. QED
        BY <1>13, <3>2, Zenon
    <2>3. QED
      BY <2>1, <2>2
  <1>15. \A k \in 0 .. l : s[k] \in T
    <2> DEFINE S == {k \in Nat : s[k] \in T}
    <2>1. 0 \in S
      BY <1>7, <1>14
    <2>2. ASSUME NEW k \in 1 .. l, k - 1 \in S PROVE k \in S
      <3>1. s[k - 1] \in T /\ w[k] \in 1 .. n
        BY <1>4, <2>2
      <3>2. Better(s[k - 1], heap.majors[w[k]]) \in T
        BY <1>8, <3>1
      <3>3. QED
        BY <1>14, <3>2
    <2> HIDE DEF S
    <2>3. \A k \in 0 .. l : k \in S
      BY <2>1, <2>2, Upwards
    <2>4. QED
      BY <2>3 DEF S
  <1>16. bet \in T
    BY <1>11, <1>15
  <1>17. bet.at \in {NULL} \cup {heap.majors[k].base : k \in 1 .. n}
    BY <1>5, <1>16
  <1>18. \A k \in 1 .. n : heap.majors[k].base \in Nat
    BY <1>1, HeapParts, MajorParts DEF HeapOK
  <1>19. bet.at \in Nat
    BY <1>17, <1>18 DEF NULL
  <1>20. QED
    BY <1>1, <1>17, <1>19

-----------------------------------------------------------------------------
(***************************************************************************)
(* What malloc makes of the heap.                                          *)
(***************************************************************************)
\* A major without blocks.
LEMMA NoBlocks ==
    ASSUME NEW maj \in Major, Len(maj.minors) = 0
    PROVE  Used(maj) = 0 /\ UsedWithHeaders(maj) = 0 /\ BlocksIn(maj) = {}
  <1>1. PICK f : f = [j \in 1 .. 0 |-> maj.minors[j].size]
    OBVIOUS
  <1>2. PICK e : e = [j \in 1 .. 0 |-> maj.minors[j].size + MINOR]
    OBVIOUS
  <1>3. f \in [1 .. 0 -> Int] /\ e \in [1 .. 0 -> Int] /\ 0 \in Nat
    BY <1>1, <1>2, UsedTyped
  <1>4. PICK s : Partial(s, 0, f) /\ SumTo(0, f) = s[0]
    BY <1>3, SumIs
  <1>5. PICK t : Partial(t, 0, e) /\ SumTo(0, e) = t[0]
    BY <1>3, SumIs
  <1>6. SumTo(0, f) = 0 /\ SumTo(0, e) = 0
    BY <1>4, <1>5 DEF Partial
  <1>7. Used(maj) = SumTo(0, f) /\ UsedWithHeaders(maj) = SumTo(0, e)
    BY <1>1, <1>2 DEF Used, UsedWithHeaders
  <1>8. BlocksIn(maj) = {}
    BY DEF BlocksIn
  <1>9. QED
    BY <1>6, <1>7, <1>8

\* A new major has the pages for both headers and the block.
LEMMA PagesEnough ==
    ASSUME NEW size \in Nat
    PROVE  PagesFor(size) \in Nat /\ size + MAJOR + MINOR <= PagesFor(size) * l_pageSize
  <1>1. PICK b \in Nat, q \in Nat, r \in Nat :
          /\ b = size + MAJOR + MINOR /\ q = b \div l_pageSize /\ r = b % l_pageSize
          /\ b = l_pageSize * q + r /\ r < l_pageSize
    <2>1. PICK b \in Nat : b = size + MAJOR + MINOR
      BY Constants
    <2>2. /\ b \div l_pageSize \in Nat /\ b % l_pageSize \in Nat
          /\ b = l_pageSize * (b \div l_pageSize) + (b % l_pageSize)
          /\ b % l_pageSize < l_pageSize
      BY Constants, SMTT(30)
    <2>3. QED
      BY <2>1, <2>2
  <1>2. PICK p \in Nat : p = (IF r = 0 THEN q ELSE q + 1) /\ b <= p * l_pageSize
    <2>1. CASE r = 0
      <3>1. b <= q * l_pageSize
        BY <1>1, <2>1, Constants, SMTT(30)
      <3>2. QED
        BY <2>1, <3>1
    <2>2. CASE r # 0
      <3>1. (q + 1) * l_pageSize = l_pageSize * q + l_pageSize
        BY Constants, SMTT(30)
      <3>2. b <= (q + 1) * l_pageSize /\ q + 1 \in Nat
        BY <1>1, <3>1, Constants, SMTT(30)
      <3>3. QED
        BY <2>2, <3>2
    <2>3. QED
      BY <2>1, <2>2
  <1>3. PagesFor(size) = IF p < l_pageCount THEN l_pageCount ELSE p
    BY <1>1, <1>2 DEF PagesFor
  <1>4. CASE p < l_pageCount
    <2>1. p * l_pageSize <= l_pageCount * l_pageSize
      BY <1>4, Constants, SMTT(30)
    <2>2. PICK x \in Nat, y \in Nat : x = p * l_pageSize /\ y = l_pageCount * l_pageSize
      BY Constants, SMTT(30)
    <2>3. b <= y
      BY <1>2, <2>1, <2>2
    <2>4. QED
      BY <1>1, <1>3, <1>4, <2>2, <2>3, Constants
  <1>5. CASE ~(p < l_pageCount)
    BY <1>1, <1>2, <1>3, <1>5
  <1>6. QED
    BY <1>4, <1>5

\* The block fits into a new major.
LEMMA NewMajor ==
    ASSUME heap \in Heap, NEW size \in Nat, NEW maj, maj = allocate_new_page(size)
    PROVE  /\ maj \in Major /\ maj.base = (heap.taken + 1) * l_pageSize
           /\ maj.pages = PagesFor(size)
           /\ maj.usage = MAJOR /\ Len(maj.minors) = 0
           /\ Well(maj) /\ Counted(maj) /\ HoleFits(maj, 0, size)
           /\ BlocksIn(maj) = {} /\ Used(maj) = 0
  <1>1. PICK x \in Nat : x = (heap.taken + 1) * l_pageSize
    BY HeapParts
  <1>2. PICK p \in Nat : p = PagesFor(size)
    BY PagesEnough
  <1>3. maj = [base |-> x, pages |-> p, usage |-> MAJOR, minors |-> << >>]
    BY <1>1, <1>2 DEF allocate_new_page
  <1>4. << >> \in Seq(Minor) /\ MAJOR \in Int
    BY Constants
  <1>5. maj \in Major
    BY <1>3, <1>4 DEF Major
  <1>6. maj.base = x /\ maj.pages = p /\ maj.usage = MAJOR /\ maj.minors = << >> /\ Len(maj.minors) = 0
    BY <1>3
  <1>7. PICK y \in Nat : y = p * l_pageSize /\ size + MAJOR + MINOR <= y
    <2>1. p * l_pageSize \in Nat
      BY Constants, SMTT(30)
    <2>2. QED
      BY <1>2, <2>1, PagesEnough
  <1>8. Size(maj) = y
    BY <1>6, <1>7 DEF Size
  <1>9. Well(maj)
    <2>1. MAJOR <= y
      BY <1>7, Constants
    <2>2. QED
      BY <1>6, <1>8, <2>1 DEF Well
  <1>10. Used(maj) = 0 /\ UsedWithHeaders(maj) = 0 /\ BlocksIn(maj) = {}
    BY <1>5, <1>6, NoBlocks
  <1>11. Counted(maj)
    BY <1>6, <1>10, Constants DEF Counted
  <1>12. HoleFits(maj, 0, size)
    <2>1. HoleStart(maj, 0) = x + MAJOR /\ HoleEnd(maj, 0) = x + y
      BY <1>6, <1>8 DEF HoleStart, HoleEnd
    <2>2. (x + y) - (x + MAJOR) >= size + MINOR
      BY <1>7, Constants
    <2>3. QED
      BY <2>1, <2>2 DEF HoleFits
  <1>13. QED
    BY <1>1, <1>2, <1>5, <1>6, <1>9, <1>10, <1>11, <1>12

\* What malloc promises: one more block, apart from all others.
Grows(h, req) ==
    \E b \in Minor : /\ b.req = req /\ b \notin Blocks(heap)
                     /\ Blocks(h) = Blocks(heap) \cup {b}

\* Nothing in the heap holds a block of the size.
Full(size) ==
    \A i \in 1 .. Len(heap.majors) :
        \A k \in 0 .. Len(heap.majors[i].minors) : ~HoleFits(heap.majors[i], k, size)

\* l_bestBet may be bet.
MayBet(bet) == bet # NULL => \E k \in 1 .. Len(heap.majors) : heap.majors[k].base = bet

\* h is the heap with the block placed in hole i of a listed major.
Inside(h, last, i, size, req, bet) ==
    h = [heap EXCEPT !.majors[last] = Placed(@, i, size, req),
                     !.bestBet = bet, !.inuse = @ + size]

\* h is the heap with the block placed in a new major.
Behind(h, new, size, req, bet) ==
    h = [majors |-> Append(heap.majors, Placed(new, 0, size, req)),
         bestBet |-> bet, inuse |-> heap.inuse + size,
         allocated |-> heap.allocated + Size(new),
         taken |-> heap.taken + new.pages, returned |-> heap.returned]

\* A block is placed in a hole of a listed major.
LEMMA GrowsInside ==
    ASSUME HeapOK(heap), NEW req \in Nat, NEW size \in Nat, size = req + ALIGNMENT + ALIGN_INFO,
           NEW last \in 1 .. Len(heap.majors), NEW i \in FirstHole(heap.majors[last], size),
           NEW bet \in Nat, MayBet(bet), NEW h, Inside(h, last, i, size, req, bet)
    PROVE  /\ HeapOK(h) /\ Grows(h, req) /\ h.taken = heap.taken
           /\ h.allocated = heap.allocated /\ Pages(h) = Pages(heap)
  <1>1. heap \in Heap /\ Lined(heap)
    BY DEF HeapOK
  <1>2. PICK s \in Seq(Major) : s = heap.majors
    BY <1>1, HeapParts
  <1>3. PICK maj \in Major : maj = heap.majors[last] /\ Well(maj) /\ Counted(maj)
    BY <1>1, HeapParts DEF Lined
  <1>4. PICK m : m = Placed(maj, i, size, req)
    OBVIOUS
  <1>5. PICK b : b = [at |-> HoleStart(maj, i), size |-> size, req |-> req]
    OBVIOUS
  <1>6. i \in 0 .. Len(maj.minors) /\ HoleFits(maj, i, size)
    BY <1>3 DEF FirstHole
  <1>7. /\ m \in Major /\ m.base = maj.base /\ m.pages = maj.pages
        /\ m.usage = maj.usage + size + MINOR /\ Len(m.minors) = Len(maj.minors) + 1
        /\ Well(m) /\ b \in Minor
        /\ BlocksIn(m) = BlocksIn(maj) \cup {b}
        /\ \A c \in BlocksIn(maj) : Apart(b, c)
        /\ Used(m) = Used(maj) + size
        /\ UsedWithHeaders(m) = UsedWithHeaders(maj) + size + MINOR
    BY <1>3, <1>4, <1>5, <1>6, Placing, SMTT(40)
  <1>8. Counted(m)
    <2>1. PICK u \in Int : u = UsedWithHeaders(maj)
      BY UsedTyped
    <2>2. maj.usage = MAJOR + u
      BY <1>3, <2>1 DEF Counted
    <2>3. MAJOR + u + size + MINOR = MAJOR + (u + size + MINOR)
      BY <2>1, Constants
    <2>4. QED
      BY <1>7, <2>1, <2>2, <2>3 DEF Counted
  <1>9. Len(m.minors) > 0
    BY <1>7, MajorParts
  <1>10. /\ h.majors = [heap.majors EXCEPT ![last] = m] /\ h.bestBet = bet
         /\ h.inuse = heap.inuse + size /\ h.taken = heap.taken /\ h.returned = heap.returned
         /\ h.allocated = heap.allocated
    BY <1>1, <1>3, <1>4 DEF Heap, Inside
  <1>11. h \in Heap
    <2>1. [s EXCEPT ![last] = m] \in Seq(Major)
      BY <1>2, <1>7
    <2>2. h.majors \in Seq(Major)
      BY <1>2, <1>10, <2>1
    <2>3. heap.inuse \in Int /\ heap.inuse + size \in Int
      BY <1>1, HeapParts
    <2>4. QED
      BY <1>1, <1>10, <2>2, <2>3 DEF Heap, Inside
  <1>12. h.inuse = heap.inuse + Used(m) - Used(maj)
    <2>1. PICK u \in Int, v \in Int : u = Used(maj) /\ v = heap.inuse
      BY <1>1, UsedTyped, HeapParts
    <2>2. v + size = v + (u + size) - u
      BY <2>1
    <2>3. QED
      BY <1>7, <1>10, <2>1, <2>2
  <1>13. /\ HeapOK(h)
         /\ Blocks(h) = (Blocks(heap) \ BlocksIn(heap.majors[last])) \cup BlocksIn(m)
         /\ Pages(h) = Pages(heap)
    <2>1. m.base = heap.majors[last].base /\ m.pages = heap.majors[last].pages
      BY <1>3, <1>7
    <2>2. h.inuse = heap.inuse + Used(m) - Used(heap.majors[last])
      BY <1>3, <1>12, Zenon
    <2>3. h.bestBet # NULL => \E k \in 1 .. Len(heap.majors) : heap.majors[k].base = h.bestBet
      BY <1>10 DEF MayBet
    <2>4. m \in Major /\ Well(m)
      BY <1>7
    <2>5. h.majors = [heap.majors EXCEPT ![last] = m] /\ h.taken = heap.taken
          /\ h.allocated = heap.allocated
      BY <1>10
    <2>6. Replaced(heap, h, last, m)
      BY <2>2, <2>3, <2>5 DEF Replaced
    <2>7. QED
      BY <1>8, <1>9, <1>11, <2>1, <2>4, <2>6, Replacing
  <1>14. BlocksIn(maj) \subseteq Blocks(heap)
    BY <1>3 DEF Blocks
  <1>15. Blocks(h) = Blocks(heap) \cup {b}
    BY <1>3, <1>7, <1>13, <1>14
  <1>16. b \notin Blocks(heap)
    <2>1. SUFFICES ASSUME NEW k \in 1 .. Len(heap.majors), b \in BlocksIn(heap.majors[k])
                   PROVE  FALSE
      BY DEF Blocks
    <2>2. CASE k = last
      <3>1. Apart(b, b)
        BY <1>3, <1>7, <2>1, <2>2
      <3>2. b.at < End(b) /\ b.at \in Nat /\ End(b) \in Nat
        BY <1>7, MinorParts
      <3>3. QED
        BY <3>1, <3>2 DEF Apart
    <2>3. CASE k # last
      <3>1. /\ Len(h.majors) = Len(s) /\ h.majors[last] = m /\ h.majors[k] = s[k]
            /\ k \in 1 .. Len(s) /\ last \in 1 .. Len(s)
        BY <1>2, <1>10, <2>3
      <3>2. b \in BlocksIn(h.majors[k]) /\ b \in BlocksIn(h.majors[last])
        BY <1>2, <1>7, <2>1, <3>1
      <3>3. h \in Heap /\ Lined(h)
        BY <1>13 DEF HeapOK
      <3>4. QED
        BY <2>3, <3>1, <3>2, <3>3, MajorsApart
    <2>4. QED
      BY <2>2, <2>3
  <1>17. QED
    BY <1>5, <1>7, <1>10, <1>13, <1>15, <1>16 DEF Grows

\* A block is placed in a new major.
LEMMA GrowsBehind ==
    ASSUME HeapOK(heap), NEW req \in Nat, NEW size \in Nat, size = req + ALIGNMENT + ALIGN_INFO,
           NEW new, new = allocate_new_page(size), NEW bet \in Nat,
           bet = new.base \/ MayBet(bet), NEW h, Behind(h, new, size, req, bet)
    PROVE  /\ HeapOK(h) /\ Grows(h, req) /\ h.allocated >= heap.allocated
           /\ Pages(h) \subseteq Pages(heap) \cup {PagesFor(size)}
           /\ h.majors[Len(h.majors)].minors[1].size = size
  <1>1. heap \in Heap /\ Lined(heap)
    BY DEF HeapOK
  <1>2. PICK s \in Seq(Major) : s = heap.majors
    BY <1>1, HeapParts
  <1>3. /\ new \in Major /\ new.base = (heap.taken + 1) * l_pageSize
        /\ new.pages = PagesFor(size)
        /\ new.usage = MAJOR /\ Len(new.minors) = 0
        /\ Well(new) /\ Counted(new) /\ HoleFits(new, 0, size)
        /\ BlocksIn(new) = {} /\ Used(new) = 0
    BY <1>1, NewMajor
  <1>4. PICK m : m = Placed(new, 0, size, req)
    OBVIOUS
  <1>5. PICK b : b = [at |-> HoleStart(new, 0), size |-> size, req |-> req]
    OBVIOUS
  <1>6. 0 \in 0 .. Len(new.minors)
    BY <1>3
  <1>7. /\ m \in Major /\ m.base = new.base /\ m.pages = new.pages
        /\ m.usage = new.usage + size + MINOR /\ Len(m.minors) = Len(new.minors) + 1
        /\ Well(m) /\ b \in Minor
        /\ BlocksIn(m) = BlocksIn(new) \cup {b}
        /\ Used(m) = Used(new) + size
        /\ UsedWithHeaders(m) = UsedWithHeaders(new) + size + MINOR
        /\ m.minors[1] = b
    BY <1>3, <1>4, <1>5, <1>6, Placing
  <1>8. Counted(m)
    <2>1. PICK u \in Int : u = UsedWithHeaders(new)
      BY <1>3, UsedTyped
    <2>2. new.usage = MAJOR + u
      BY <1>3, <2>1 DEF Counted
    <2>3. MAJOR + u + size + MINOR = MAJOR + (u + size + MINOR)
      BY <2>1, Constants
    <2>4. QED
      BY <1>7, <2>1, <2>2, <2>3 DEF Counted
  <1>9. Len(m.minors) > 0
    BY <1>3, <1>7
  <1>10. Size(m) = Size(new) /\ Size(new) \in Nat /\ new.pages \in Nat /\ m.pages \in Nat
    BY <1>3, <1>7, MajorParts DEF Size
  <1>11. /\ h.majors = Append(heap.majors, m) /\ h.bestBet = bet
         /\ h.inuse = heap.inuse + Used(m) /\ h.taken = heap.taken + m.pages
         /\ h.returned = heap.returned /\ h.allocated = heap.allocated + Size(m)
    <2>1. Used(m) = size
      BY <1>3, <1>7
    <2>2. QED
      BY <1>4, <1>7, <1>10, <2>1 DEF Behind
  <1>12. h \in Heap
    <2>1. Append(s, m) \in Seq(Major)
      BY <1>7
    <2>2. heap.majors = s
      BY <1>2
    <2>3. /\ heap.inuse + size \in Int /\ heap.allocated + Size(new) \in Int
          /\ heap.taken + new.pages \in Nat /\ heap.returned \in Nat
      <3>1. PICK u \in Int, v \in Int, t \in Nat :
              u = heap.inuse /\ v = heap.allocated /\ t = heap.taken /\ heap.returned \in Nat
        BY <1>1, HeapParts
      <3>2. PICK y \in Nat, p \in Nat : y = Size(new) /\ p = new.pages
        BY <1>10
      <3>3. u + size \in Int /\ v + y \in Int /\ t + p \in Nat
        OBVIOUS
      <3>4. QED
        BY <3>1, <3>2, <3>3
    <2>4. QED
      BY <1>4, <2>1, <2>2, <2>3 DEF Heap, Behind
  <1>13. /\ HeapOK(h) /\ Blocks(h) = Blocks(heap) \cup BlocksIn(m)
         /\ Pages(h) \subseteq Pages(heap) \cup {m.pages}
    <2>1. m.base = (heap.taken + 1) * l_pageSize
      BY <1>3, <1>7
    <2>2. h.bestBet # NULL =>
            \/ h.bestBet = m.base
            \/ \E k \in 1 .. Len(heap.majors) : heap.majors[k].base = h.bestBet
      BY <1>7, <1>11 DEF MayBet
    <2>3. m \in Major /\ Well(m)
      BY <1>7
    <2>4. /\ h.majors = Append(heap.majors, m) /\ h.taken = heap.taken + m.pages
          /\ h.allocated = heap.allocated + Size(m) /\ h.inuse = heap.inuse + Used(m)
      BY <1>11
    <2>5. QED
      BY <1>8, <1>9, <1>12, <2>1, <2>2, <2>3, <2>4, Adding, Zenon
  <1>14. b \notin Blocks(heap)
    <2>1. SUFFICES ASSUME b \in Blocks(heap) PROVE FALSE
      OBVIOUS
    <2>2. PICK x \in Nat : x = new.base /\ x = (heap.taken + 1) * l_pageSize
      BY <1>3, MajorParts
    <2>3. End(b) <= x
      BY <1>1, <2>1, <2>2, BlocksApart
    <2>4. b.at = x + MAJOR
      BY <1>5, <2>2 DEF HoleStart
    <2>5. b.at < End(b) /\ b.at \in Nat /\ End(b) \in Nat
      BY <1>7, MinorParts
    <2>6. QED
      BY <2>3, <2>4, <2>5, Constants
  <1>15. Grows(h, req)
    <2>1. b \in Minor /\ b.req = req
      BY <1>5, <1>7
    <2>2. Blocks(h) = Blocks(heap) \cup {b}
      BY <1>3, <1>7, <1>13
    <2>3. QED
      BY <1>14, <2>1, <2>2 DEF Grows
  <1>16. h.majors[Len(h.majors)].minors[1].size = size
    <2>1. h.majors = Append(s, m)
      BY <1>2, <1>11
    <2>2. h.majors[Len(h.majors)] = m
      BY <1>7, <2>1
    <2>3. QED
      BY <1>5, <1>7, <2>2
  <1>17. h.allocated >= heap.allocated
    <2>1. PICK v \in Int, y \in Nat : v = heap.allocated /\ y = Size(m)
      BY <1>1, <1>10, HeapParts
    <2>2. v + y >= v
      OBVIOUS
    <2>3. QED
      BY <1>11, <2>1, <2>2
  <1>18. QED
    BY <1>3, <1>7, <1>13, <1>15, <1>16, <1>17

\* malloc keeps the heap in order and adds one block; it takes pages only
\* when nothing in the heap holds the block.
LEMMA Growing ==
    ASSUME HeapOK(heap), NEW req \in Nat, NEW h, h = Grown(req)
    PROVE  /\ HeapOK(h) /\ Grows(h, req)
           /\ h.taken > heap.taken => Full(h.majors[Len(h.majors)].minors[1].size)
           /\ h.allocated >= heap.allocated
           /\ Pages(h) \subseteq Pages(heap) \cup {PagesFor(req + ALIGNMENT + ALIGN_INFO)}
  <1>1. PICK size \in Nat : size = req + ALIGNMENT + ALIGN_INFO
    BY Constants
  <1>2. PICK n \in Nat : n = Len(heap.majors)
    BY HeapParts DEF HeapOK
  <1>3. PICK w : w = Walked(size)
    OBVIOUS
  <1>4. PICK last : last = IF w = << >> THEN 0 ELSE w[Len(w)]
    OBVIOUS
  <1>5. PICK holes : holes = IF last = 0 THEN {} ELSE FirstHole(heap.majors[last], size)
    OBVIOUS
  <1>6. PICK new : new = allocate_new_page(size)
    OBVIOUS
  <1>7. PICK bet : bet = BetAfter(size)
    OBVIOUS
  <1>8. bet.at \in Nat /\ MayBet(bet.at)
    BY <1>7, BetMoves DEF MayBet
  <1>9. heap \in Heap /\ Lined(heap)
    BY DEF HeapOK
  <1>10. CASE holes # {}
    <2>1. PICK i : i = CHOOSE k \in holes : TRUE
      OBVIOUS
    <2>2. i \in holes /\ last # 0 /\ w # << >> /\ holes = FirstHole(heap.majors[last], size)
      BY <1>4, <1>5, <1>10, <2>1
    <2>3. last \in 1 .. n
      <3>1. w \in Seq(1 .. n) /\ Len(w) \in Nat
        BY <1>2, <1>3, Walk
      <3>2. Len(w) > 0
        BY <2>2, <3>1
      <3>3. w[Len(w)] \in 1 .. n
        BY <3>1, <3>2
      <3>4. QED
        BY <1>4, <2>2, <3>3
    <2>4. Inside(h, last, i, size, req, bet.at)
      BY <1>1, <1>3, <1>4, <1>5, <1>7, <1>10, <2>1 DEF Grown, Inside
    <2>5. /\ HeapOK(h) /\ Grows(h, req) /\ h.taken = heap.taken
          /\ h.allocated = heap.allocated /\ Pages(h) = Pages(heap)
      <3>1. last \in 1 .. Len(heap.majors) /\ i \in FirstHole(heap.majors[last], size)
        BY <1>2, <2>2, <2>3
      <3>2. QED
        BY <1>1, <1>8, <2>4, <3>1, GrowsInside
    <2>6. heap.taken \in Nat /\ heap.allocated \in Int
      BY <1>9, HeapParts
    <2>7. QED
      BY <2>5, <2>6
  <1>11. CASE holes = {}
    <2>1. PICK b : b = IF Space(new) > bet.space
                            /\ ~(last # 0 /\ Space(heap.majors[last]) < size + MINOR)
                       THEN new.base ELSE bet.at
      OBVIOUS
    <2>2. Behind(h, new, size, req, b)
      BY <1>1, <1>3, <1>4, <1>5, <1>6, <1>7, <1>11, <2>1 DEF Grown, Behind
    <2>3. new.base \in Nat
      BY <1>6, <1>9, NewMajor, MajorParts
    <2>4. b \in Nat /\ (b = new.base \/ MayBet(b))
      BY <1>8, <2>1, <2>3
    <2>5. /\ HeapOK(h) /\ Grows(h, req) /\ h.allocated >= heap.allocated
          /\ h.majors[Len(h.majors)].minors[1].size = size
          /\ Pages(h) \subseteq Pages(heap) \cup {PagesFor(size)}
      BY <1>1, <1>6, <2>2, <2>4, GrowsBehind
    <2>6. \A i \in 1 .. n : FirstHole(heap.majors[i], size) = {}
      <3>1. SUFFICES ASSUME n > 0 PROVE \A i \in 1 .. n : FirstHole(heap.majors[i], size) = {}
        OBVIOUS
      <3>2. w \in Seq(1 .. n) /\ Len(w) \in Nat /\ Len(w) > 0
        BY <1>2, <1>3, <3>1, Walk
      <3>3. w # << >>
        BY <3>2
      <3>4. last = w[Len(w)] /\ w[Len(w)] \in 1 .. n
        BY <1>4, <3>2, <3>3
      <3>5. FirstHole(heap.majors[w[Len(w)]], size) = {}
        BY <1>5, <1>11, <3>4
      <3>6. QED
        BY <1>2, <1>3, <3>2, <3>5, Walk
    <2>7. Full(size)
      <3>1. SUFFICES ASSUME NEW i \in 1 .. n
                     PROVE  \A k \in 0 .. Len(heap.majors[i].minors) :
                              ~HoleFits(heap.majors[i], k, size)
        BY <1>2 DEF Full
      <3>2. heap.majors[i] \in Major /\ Well(heap.majors[i]) /\ Counted(heap.majors[i])
        BY <1>2, <1>9, HeapParts DEF Lined
      <3>3. QED
        BY <2>6, <3>2, NoHole
    <2>8. QED
      BY <1>1, <2>5, <2>7
  <1>12. QED
    BY <1>10, <1>11

\* The pointers of the blocks, as Added collects them.
LEMMA PointersOf ==
    ASSUME NEW h
    PROVE  UNION {{Pointer(h.majors[i].minors[j]) : j \in 1 .. Len(h.majors[i].minors)} :
                    i \in 1 .. Len(h.majors)} = {Pointer(b) : b \in Blocks(h)}
  <1>1. ASSUME NEW i \in 1 .. Len(h.majors), NEW j \in 1 .. Len(h.majors[i].minors)
        PROVE  h.majors[i].minors[j] \in Blocks(h)
    BY DEF Blocks, BlocksIn
  <1>2. ASSUME NEW b \in Blocks(h)
        PROVE  \E i \in 1 .. Len(h.majors) : \E j \in 1 .. Len(h.majors[i].minors) :
                 b = h.majors[i].minors[j]
    BY DEF Blocks, BlocksIn
  <1>3. QED
    BY <1>1, <1>2

\* malloc returns the pointer of the block it added.
LEMMA PointerAdded ==
    ASSUME NEW h, HeapOK(h), NEW b \in Minor, b \notin Blocks(heap),
           Blocks(h) = Blocks(heap) \cup {b}
    PROVE  /\ Added(h) = Pointer(b)
           /\ \A c \in Blocks(heap) : Pointer(c) # Pointer(b)
           /\ Pointer(b) # NULL /\ Pointer(b) \in Nat
  <1>1. h \in Heap /\ Lined(h)
    BY DEF HeapOK
  <1>2. \A c \in Blocks(heap) : Pointer(c) # Pointer(b)
    <2>1. SUFFICES ASSUME NEW c \in Blocks(heap), Pointer(c) = Pointer(b) PROVE FALSE
      OBVIOUS
    <2>2. b \in Blocks(h) /\ c \in Blocks(h)
      OBVIOUS
    <2>3. b = c
      BY <1>1, <2>1, <2>2, PointerUnique
    <2>4. QED
      BY <2>3
  <1>3. b \in Blocks(h)
    OBVIOUS
  <1>4. b.req + ALIGNMENT + ALIGN_INFO <= b.size
    BY <1>1, <1>3, BlocksApart
  <1>5. Pointer(b) \in Nat /\ b.at < Pointer(b) /\ b.at \in Nat
    BY <1>4, PointerInside, MinorParts
  <1>6. Pointer(b) # NULL
    BY <1>5 DEF NULL
  <1>7. PICK P : P = {Pointer(c) : c \in Blocks(h)}
    OBVIOUS
  <1>8. PICK Q : Q = {Pointer(c) : c \in Blocks(heap)}
    OBVIOUS
  <1>9. Added(h) = CHOOSE p \in P : p \notin Q
    BY <1>7, <1>8, PointersOf DEF Added
  <1>10. Pointer(b) \in P /\ Pointer(b) \notin Q
    BY <1>2, <1>7, <1>8
  <1>11. \A p \in P : p \notin Q => p = Pointer(b)
    BY <1>7, <1>8
  <1>12. QED
    BY <1>2, <1>5, <1>6, <1>9, <1>10, <1>11

-----------------------------------------------------------------------------
(***************************************************************************)
(* What free and realloc make of the heap.                                 *)
(***************************************************************************)
\* UNALIGN finds the blocks with the pointer and nothing else.
LEMMA FoundIs ==
    ASSUME NEW p
    PROVE  /\ \A ij \in Found(p) :
                /\ ij[1] \in 1 .. Len(heap.majors)
                /\ ij[2] \in 1 .. Len(heap.majors[ij[1]].minors)
                /\ Pointer(heap.majors[ij[1]].minors[ij[2]]) = p
                /\ heap.majors[ij[1]].minors[ij[2]] \in Blocks(heap)
           /\ \A b \in Blocks(heap) :
                Pointer(b) = p => \E ij \in Found(p) : heap.majors[ij[1]].minors[ij[2]] = b
  <1>1. ASSUME NEW ij \in Found(p)
        PROVE  /\ ij[1] \in 1 .. Len(heap.majors)
               /\ ij[2] \in 1 .. Len(heap.majors[ij[1]].minors)
               /\ Pointer(heap.majors[ij[1]].minors[ij[2]]) = p
               /\ heap.majors[ij[1]].minors[ij[2]] \in Blocks(heap)
    <2>1. PICK i \in 1 .. Len(heap.majors) :
            ij \in {<< i, j >> : j \in {k \in 1 .. Len(heap.majors[i].minors) :
                                          Pointer(heap.majors[i].minors[k]) = p}}
      BY DEF Found
    <2>2. PICK j \in 1 .. Len(heap.majors[i].minors) :
            ij = << i, j >> /\ Pointer(heap.majors[i].minors[j]) = p
      BY <2>1
    <2>3. ij[1] = i /\ ij[2] = j
      BY <2>2
    <2>4. heap.majors[i].minors[j] \in Blocks(heap)
      BY DEF Blocks, BlocksIn
    <2>5. QED
      BY <2>2, <2>3, <2>4
  <1>2. ASSUME NEW b \in Blocks(heap), Pointer(b) = p
        PROVE  \E ij \in Found(p) : heap.majors[ij[1]].minors[ij[2]] = b
    <2>1. PICK i \in 1 .. Len(heap.majors) : b \in BlocksIn(heap.majors[i])
      BY DEF Blocks
    <2>2. PICK j \in 1 .. Len(heap.majors[i].minors) : b = heap.majors[i].minors[j]
      BY <2>1 DEF BlocksIn
    <2>3. << i, j >> \in {<< i, l >> : l \in {k \in 1 .. Len(heap.majors[i].minors) :
                                                Pointer(heap.majors[i].minors[k]) = p}}
      BY <1>2, <2>2
    <2>4. << i, j >> \in Found(p)
      BY <2>3 DEF Found
    <2>5. << i, j >>[1] = i /\ << i, j >>[2] = j
      OBVIOUS
    <2>6. QED
      BY <2>2, <2>4, <2>5
  <1>3. QED
    BY <1>1, <1>2

\* The blocks of the heap without those with the pointer p.
Without(p) == {b \in Blocks(heap) : Pointer(b) # p}

\* Taking away the one block with the pointer.
LEMMA OneLess ==
    ASSUME HeapOK(heap), NEW b \in Blocks(heap)
    PROVE  Blocks(heap) \ {b} = Without(Pointer(b))
  <1>1. heap \in Heap /\ Lined(heap)
    BY DEF HeapOK
  <1>2. ASSUME NEW c \in Blocks(heap), c # b PROVE Pointer(c) # Pointer(b)
    BY <1>1, <1>2, PointerUnique
  <1>3. QED
    BY <1>2 DEF Without

\* h is the heap with the i-th major dropped, and the counters set.
Dropped(h, i, size) == h = [Emptied(i) EXCEPT !.inuse = heap.inuse - size]

\* h is the heap with left as the i-th major, and the counters set.
Left(h, i, left, bet, size) ==
    h = [heap EXCEPT !.majors[i] = left, !.bestBet = bet, !.inuse = @ - size]

\* free drops a major with its last block.
LEMMA FreesLast ==
    ASSUME HeapOK(heap), NEW i \in 1 .. Len(heap.majors), NEW b,
           BlocksIn(heap.majors[i]) = {b}, Used(heap.majors[i]) = b.size,
           NEW h, Dropped(h, i, b.size)
    PROVE  /\ HeapOK(h) /\ Blocks(h) = Blocks(heap) \ {b} /\ h.taken = heap.taken
           /\ h.returned = heap.returned + liballoc_free_(heap.majors[i].pages)
           /\ Pages(h) \subseteq Pages(heap)
  <1>1. heap \in Heap /\ Lined(heap)
    BY DEF HeapOK
  <1>2. PICK s \in Seq(Major) : s = heap.majors
    BY <1>1, HeapParts
  <1>3. PICK maj \in Major : maj = heap.majors[i]
    BY <1>1, HeapParts
  <1>4. PICK p \in Nat : p = liballoc_free_(maj.pages)
    <2>1. PICK q \in Nat : q = maj.pages
      BY MajorParts
    <2>2. q \div l_pageSize \in Nat
      BY Constants, SMTT(30)
    <2>3. QED
      BY <2>1, <2>2 DEF liballoc_free_
  <1>5. PICK bet : bet = IF heap.bestBet = maj.base THEN NULL ELSE heap.bestBet
    OBVIOUS
  <1>6. /\ h.majors = RemoveAt(heap.majors, i) /\ h.bestBet = bet
        /\ h.inuse = heap.inuse - b.size /\ h.allocated = heap.allocated - Size(maj)
        /\ h.taken = heap.taken /\ h.returned = heap.returned + p
    BY <1>1, <1>3, <1>4, <1>5 DEF Dropped, Emptied, Heap
  <1>7. h \in Heap
    <2>1. PICK t : t = RemoveAt(s, i)
      OBVIOUS
    <2>2. t \in Seq(Major)
      BY <1>2, <2>1, Removing
    <2>3. h.majors = t
      BY <1>2, <1>6, <2>1
    <2>4. heap.inuse \in Int /\ heap.allocated \in Int /\ heap.returned \in Nat /\ heap.taken \in Nat
          /\ heap.bestBet \in Nat
      BY <1>1, HeapParts
    <2>5. Size(maj) \in Nat /\ Used(maj) \in Int /\ b.size \in Int
      BY <1>3, MajorParts, UsedTyped
    <2>6. /\ heap.inuse - b.size \in Int /\ heap.allocated - Size(maj) \in Int
          /\ heap.returned + p \in Nat /\ bet \in Nat
      <3>0. PICK y \in Nat : y = Size(maj)
        BY <2>5
      <3>1. PICK u \in Int, v \in Int, x \in Int, z \in Nat :
              u = heap.inuse /\ v = b.size /\ x = heap.allocated /\ z = heap.returned
        BY <2>4, <2>5
      <3>2. u - v \in Int /\ x - y \in Int /\ z + p \in Nat
        OBVIOUS
      <3>3. bet \in Nat
        BY <1>5, <2>4 DEF NULL
      <3>4. QED
        BY <3>0, <3>1, <3>2, <3>3
    <2>7. h = [majors |-> t, bestBet |-> bet, inuse |-> heap.inuse - b.size,
               allocated |-> heap.allocated - Size(maj), taken |-> heap.taken,
               returned |-> heap.returned + p]
      BY <1>1, <1>3, <1>4, <1>5, <2>1, <2>3, <1>2 DEF Dropped, Emptied, Heap
    <2>8. QED
      BY <2>2, <2>4, <2>6, <2>7 DEF Heap
  <1>8. /\ HeapOK(h) /\ Blocks(h) = Blocks(heap) \ BlocksIn(heap.majors[i])
        /\ Pages(h) \subseteq Pages(heap)
    <2>1. h.bestBet = NULL \/ (h.bestBet = heap.bestBet /\ h.bestBet # heap.majors[i].base)
      BY <1>3, <1>5, <1>6
    <2>2. /\ h.majors = RemoveAt(heap.majors, i) /\ h.taken = heap.taken
          /\ h.allocated = heap.allocated - Size(heap.majors[i])
          /\ h.inuse = heap.inuse - Used(heap.majors[i])
      BY <1>3, <1>6
    <2>3. QED
      BY <1>7, <2>1, <2>2, Dropping
  <1>9. QED
    BY <1>3, <1>4, <1>6, <1>8

\* left is the major maj without the block b.
LeftOver(left, maj, b) ==
    /\ left \in Major /\ Well(left) /\ Counted(left) /\ Len(left.minors) > 0
    /\ left.base = maj.base /\ left.pages = maj.pages
    /\ BlocksIn(left) = BlocksIn(maj) \ {b} /\ b \in BlocksIn(maj)
    /\ b.size \in Nat /\ Used(maj) = Used(left) + b.size

\* h is the heap whose i-th major has become left, with b freed and bet chosen.
FreesFrom(h, i, left, bet, b) ==
    /\ i \in 1 .. Len(heap.majors) /\ LeftOver(left, heap.majors[i], b)
    /\ bet \in Nat /\ MayBet(bet) /\ Left(h, i, left, bet, b.size)

\* free takes one of several blocks out of its major.
LEMMA FreesOne ==
    ASSUME HeapOK(heap), NEW h, NEW i, NEW left, NEW bet, NEW b, FreesFrom(h, i, left, bet, b)
    PROVE  /\ HeapOK(h) /\ Blocks(h) = Blocks(heap) \ {b} /\ h.taken = heap.taken
           /\ h.allocated = heap.allocated /\ Pages(h) = Pages(heap)
  <1>a. /\ i \in 1 .. Len(heap.majors) /\ LeftOver(left, heap.majors[i], b)
        /\ bet \in Nat /\ MayBet(bet) /\ Left(h, i, left, bet, b.size)
    BY DEF FreesFrom
  <1>0. /\ left \in Major /\ Well(left) /\ Counted(left) /\ Len(left.minors) > 0
        /\ left.base = heap.majors[i].base /\ left.pages = heap.majors[i].pages
        /\ BlocksIn(left) = BlocksIn(heap.majors[i]) \ {b} /\ b \in BlocksIn(heap.majors[i])
        /\ b.size \in Nat /\ Used(heap.majors[i]) = Used(left) + b.size
    BY <1>a DEF LeftOver
  <1>1. heap \in Heap /\ Lined(heap)
    BY DEF HeapOK
  <1>2. PICK s \in Seq(Major) : s = heap.majors
    BY <1>1, HeapParts
  <1>3. /\ h.majors = [heap.majors EXCEPT ![i] = left] /\ h.bestBet = bet
        /\ h.inuse = heap.inuse - b.size /\ h.taken = heap.taken
        /\ h.returned = heap.returned /\ h.allocated = heap.allocated
    BY <1>a, <1>1 DEF Heap, Left
  <1>4. PICK u \in Int, v \in Int, x \in Nat :
          u = heap.inuse /\ v = Used(left) /\ x = b.size
    BY <1>0, <1>1, HeapParts, UsedTyped
  <1>5. h \in Heap
    <2>1. [s EXCEPT ![i] = left] \in Seq(Major)
      BY <1>a, <1>0, <1>2
    <2>2. h.majors \in Seq(Major)
      BY <1>2, <1>3, <2>1
    <2>3. u - x \in Int
      BY <1>4
    <2>4. heap.inuse - b.size \in Int
      BY <1>4, <2>3
    <2>5. QED
      BY <1>a, <1>1, <1>3, <2>2, <2>4 DEF Heap, Left
  <1>6. Replaced(heap, h, i, left)
    <2>1. u - x = u + v - (v + x)
      OBVIOUS
    <2>2. h.inuse = heap.inuse + Used(left) - Used(heap.majors[i])
      BY <1>0, <1>3, <1>4, <2>1
    <2>3. h.bestBet # NULL => \E k \in 1 .. Len(heap.majors) : heap.majors[k].base = h.bestBet
      BY <1>a, <1>3 DEF MayBet
    <2>4. QED
      BY <1>3, <2>2, <2>3 DEF Replaced
  <1>7. /\ HeapOK(h)
        /\ Blocks(h) = (Blocks(heap) \ BlocksIn(heap.majors[i])) \cup BlocksIn(left)
        /\ Pages(h) = Pages(heap)
    BY <1>a, <1>0, <1>5, <1>6, Replacing
  <1>8. BlocksIn(heap.majors[i]) \subseteq Blocks(heap)
    BY <1>a DEF Blocks
  <1>9. Blocks(h) = Blocks(heap) \ {b}
    BY <1>0, <1>7, <1>8
  <1>10. QED
    BY <1>3, <1>7, <1>9

\* free takes away the block with the pointer, and nothing else.
LEMMA Freeing ==
    ASSUME HeapOK(heap), NEW p, NEW h, h = Freed(p)
    PROVE  /\ HeapOK(h) /\ Blocks(h) = Without(p) /\ h.taken = heap.taken
           /\ \/ h.allocated = heap.allocated
              \/ \E i \in 1 .. Len(heap.majors) :
                   h.returned = heap.returned + liballoc_free_(heap.majors[i].pages)
           /\ Pages(h) \subseteq Pages(heap)
  <1>1. heap \in Heap /\ Lined(heap)
    BY DEF HeapOK
  <1>2. CASE Found(p) = {}
    <2>1. h = heap
      BY <1>2 DEF Freed
    <2>2. \A b \in Blocks(heap) : Pointer(b) # p
      BY <1>2, FoundIs
    <2>3. QED
      BY <2>1, <2>2 DEF Without
  <1>3. CASE Found(p) # {}
    <2>1. PICK ij : ij = CHOOSE kl \in Found(p) : TRUE
      OBVIOUS
    <2>2. PICK i, j : i = ij[1] /\ j = ij[2]
      OBVIOUS
    <2>3. ij \in Found(p)
      BY <1>3, <2>1
    <2>4. i \in 1 .. Len(heap.majors)
      BY <2>2, <2>3, FoundIs
    <2>5. PICK maj \in Major : maj = heap.majors[i] /\ Well(maj) /\ Counted(maj)
      BY <1>1, <2>4, HeapParts DEF Lined
    <2>6. j \in 1 .. Len(maj.minors)
      BY <2>2, <2>3, <2>5, FoundIs
    <2>7. PICK b : b = maj.minors[j]
      OBVIOUS
    <2>8. Pointer(b) = p /\ b \in Blocks(heap)
      BY <2>2, <2>3, <2>5, <2>7, FoundIs
    <2>9. h = [Unlinked(i, j) EXCEPT !.inuse = heap.inuse - b.size]
      BY <1>3, <2>1, <2>2, <2>5, <2>7 DEF Freed
    <2>10. PICK left : TakenOut(left, maj, j, b)
      BY DEF TakenOut
    <2>11. /\ left \in Major /\ left.base = maj.base /\ left.pages = maj.pages
           /\ left.usage = maj.usage - b.size - MINOR /\ Len(left.minors) + 1 = Len(maj.minors)
           /\ Well(left) /\ b \in Minor
           /\ BlocksIn(left) = BlocksIn(maj) \ {b}
           /\ Used(maj) = Used(left) + b.size
           /\ UsedWithHeaders(maj) = UsedWithHeaders(left) + b.size + MINOR
      BY <2>5, <2>6, <2>7, <2>10, Unlinking
    <2>12. b \in BlocksIn(maj)
      BY <2>6, <2>7 DEF BlocksIn
    <2>13. b.size \in Nat /\ Used(left) \in Int /\ UsedWithHeaders(left) \in Int
      BY <2>11, MinorParts, UsedTyped
    <2>14. Counted(left)
      <3>1. PICK u \in Int, x \in Nat : u = UsedWithHeaders(left) /\ x = b.size
        BY <2>13
      <3>2. maj.usage = MAJOR + (u + x + MINOR)
        BY <2>5, <2>11, <3>1 DEF Counted
      <3>3. MAJOR + (u + x + MINOR) - x - MINOR = MAJOR + u
        BY <3>1, Constants
      <3>4. left.usage = MAJOR + (u + x + MINOR) - x - MINOR
        <4>1. left.usage = maj.usage - x - MINOR
          BY <2>11, <3>1
        <4>2. PICK y \in Int : y = maj.usage
          BY MajorParts
        <4>3. y = MAJOR + (u + x + MINOR) /\ left.usage = y - x - MINOR
          BY <3>2, <4>1, <4>2
        <4>4. QED
          BY <4>3, Constants
      <3>5. QED
        BY <3>1, <3>3, <3>4 DEF Counted
    <2>15. CASE left.minors = << >>
      <3>1. Dropped(h, i, b.size)
        BY <2>5, <2>7, <2>9, <2>10, <2>15 DEF Dropped, Unlinked, TakenOut
      <3>2. Len(left.minors) = 0
        BY <2>15
      <3>3. Used(left) = 0 /\ BlocksIn(left) = {}
        BY <2>11, <3>2, NoBlocks
      <3>4. BlocksIn(heap.majors[i]) = {b}
        BY <2>5, <2>11, <2>12, <3>3
      <3>5. Used(heap.majors[i]) = b.size
        BY <2>5, <2>11, <2>13, <3>3
      <3>6. /\ HeapOK(h) /\ Blocks(h) = Blocks(heap) \ {b} /\ h.taken = heap.taken
            /\ h.returned = heap.returned + liballoc_free_(heap.majors[i].pages)
            /\ Pages(h) \subseteq Pages(heap)
        BY <2>4, <3>1, <3>4, <3>5, FreesLast
      <3>7. QED
        BY <2>4, <2>8, <3>6, OneLess
    <2>16. CASE left.minors # << >>
      <3>1. PICK space : space = IF heap.bestBet = maj.base THEN Space(left) ELSE BetSpace
        OBVIOUS
      <3>2. PICK bet : bet = IF heap.bestBet # NULL /\ Space(left) > space
                             THEN left.base ELSE heap.bestBet
        OBVIOUS
      <3>3. Unlinked(i, j) = [heap EXCEPT !.majors[i] = left, !.bestBet = bet]
        BY <2>5, <2>7, <2>10, <2>16, <3>1, <3>2 DEF Unlinked, TakenOut
      <3>4. Left(h, i, left, bet, b.size)
        BY <1>1, <2>9, <3>3 DEF Left, Heap
      <3>5. bet \in Nat /\ MayBet(bet)
        <4>1. heap.bestBet \in Nat /\ MayBet(heap.bestBet)
          BY <1>1, HeapParts DEF HeapOK, Listed, MayBet
        <4>2. left.base \in Nat /\ MayBet(left.base)
          BY <2>4, <2>5, <2>11, MajorParts DEF MayBet
        <4>3. QED
          BY <3>2, <4>1, <4>2
      <3>6. Len(left.minors) > 0
        <4>1. left.minors \in Seq(Minor)
          BY <2>11, MajorParts
        <4>2. QED
          BY <2>16, <4>1
      <3>7. /\ HeapOK(h) /\ Blocks(h) = Blocks(heap) \ {b} /\ h.taken = heap.taken
            /\ h.allocated = heap.allocated /\ Pages(h) = Pages(heap)
        <4>1. LeftOver(left, heap.majors[i], b)
          BY <2>5, <2>11, <2>12, <2>13, <2>14, <3>6 DEF LeftOver
        <4>2. FreesFrom(h, i, left, bet, b)
          BY <2>4, <3>4, <3>5, <4>1 DEF FreesFrom
        <4>3. QED
          BY <4>2, FreesOne, Zenon
      <3>8. QED
        BY <2>8, <3>7, OneLess
    <2>17. QED
      BY <2>15, <2>16
  <1>4. QED
    BY <1>2, <1>3

\* h is the heap with the size recorded in the j-th minor of the i-th major.
Recorded(h, i, j, req) == h = [heap EXCEPT !.majors[i].minors[j].req = req]

\* c is the block b with the size recorded.
Asks(c, b, req) == c = [b EXCEPT !.req = req]

\* h is the heap with the size recorded in the block b at p, which becomes c.
Shrinks(h, p, ij, req, b, c) ==
    /\ ij \in Found(p) /\ b = heap.majors[ij[1]].minors[ij[2]]
    /\ req \in Nat /\ req <= b.req
    /\ Recorded(h, ij[1], ij[2], req) /\ Asks(c, b, req)

\* realloc in place changes what a block says it was asked for, and nothing else.
LEMMA Shrinking ==
    ASSUME HeapOK(heap), NEW h, NEW p, NEW ij, NEW req, NEW b, NEW c,
           Shrinks(h, p, ij, req, b, c)
    PROVE  /\ HeapOK(h) /\ h.taken = heap.taken /\ h.allocated = heap.allocated
           /\ Pages(h) = Pages(heap)
           /\ Blocks(h) = Without(p) \cup {c}
           /\ b \in Minor /\ Pointer(b) = p
  <1>1. heap \in Heap /\ Lined(heap)
    BY DEF HeapOK
  <1>a. /\ ij \in Found(p) /\ b = heap.majors[ij[1]].minors[ij[2]]
        /\ req \in Nat /\ req <= b.req
        /\ Recorded(h, ij[1], ij[2], req) /\ Asks(c, b, req)
    BY DEF Shrinks
  <1>2. PICK i, j : i = ij[1] /\ j = ij[2]
    OBVIOUS
  <1>3. i \in 1 .. Len(heap.majors)
    BY <1>a, <1>2, FoundIs
  <1>4. PICK maj \in Major : /\ maj = heap.majors[i] /\ Well(maj) /\ Counted(maj)
                             /\ Len(maj.minors) > 0
    BY <1>1, <1>3, HeapParts DEF Lined
  <1>5. j \in 1 .. Len(maj.minors) /\ b = maj.minors[j]
    BY <1>a, <1>2, <1>4, FoundIs
  <1>6. Pointer(b) = p /\ b \in Blocks(heap)
    BY <1>a, <1>2, FoundIs
  <1>7. PICK m : Noted(m, maj, j, req)
    BY DEF Noted
  <1>8. /\ m \in Major /\ m.base = maj.base /\ m.pages = maj.pages
        /\ m.usage = maj.usage /\ Len(m.minors) = Len(maj.minors)
        /\ Well(m) /\ b \in Minor
        /\ BlocksIn(m) = (BlocksIn(maj) \ {b}) \cup {c}
        /\ Used(m) = Used(maj) /\ UsedWithHeaders(m) = UsedWithHeaders(maj)
    BY <1>a, <1>4, <1>5, <1>7, Recording, SMTT(40) DEF Asks
  <1>9. Counted(m) /\ Len(m.minors) > 0
    BY <1>4, <1>8 DEF Counted
  <1>10. /\ h.majors = [heap.majors EXCEPT ![i] = m] /\ h.bestBet = heap.bestBet
         /\ h.inuse = heap.inuse /\ h.taken = heap.taken
         /\ h.returned = heap.returned /\ h.allocated = heap.allocated
    BY <1>a, <1>1, <1>2, <1>4, <1>7, SMTT(40) DEF Heap, Recorded, Noted
  <1>11. h \in Heap
    <2>1. PICK s \in Seq(Major) : s = heap.majors
      BY <1>1, HeapParts
    <2>2. [s EXCEPT ![i] = m] \in Seq(Major)
      BY <1>3, <1>8, <2>1
    <2>3. h.majors \in Seq(Major)
      BY <1>10, <2>1, <2>2
    <2>4. QED
      BY <1>a, <1>1, <1>10, <2>3 DEF Heap, Recorded
  <1>12. Replaced(heap, h, i, m)
    <2>1. PICK u \in Int, v \in Int : u = Used(maj) /\ v = heap.inuse
      BY <1>1, UsedTyped, HeapParts
    <2>2. v = v + u - u
      BY <2>1
    <2>3. h.inuse = heap.inuse + Used(m) - Used(heap.majors[i])
      BY <1>4, <1>8, <1>10, <2>1, <2>2
    <2>4. h.bestBet # NULL => \E k \in 1 .. Len(heap.majors) : heap.majors[k].base = h.bestBet
      BY <1>10 DEF HeapOK, Listed
    <2>5. QED
      BY <1>10, <2>3, <2>4 DEF Replaced
  <1>13. /\ HeapOK(h)
         /\ Blocks(h) = (Blocks(heap) \ BlocksIn(heap.majors[i])) \cup BlocksIn(m)
         /\ Pages(h) = Pages(heap)
    <2>1. m.base = heap.majors[i].base /\ m.pages = heap.majors[i].pages /\ m \in Major /\ Well(m)
      BY <1>4, <1>8
    <2>2. QED
      BY <1>3, <1>9, <1>11, <1>12, <2>1, Replacing
  <1>14. BlocksIn(maj) \subseteq Blocks(heap) /\ b \in BlocksIn(maj)
    BY <1>3, <1>4, <1>5 DEF Blocks, BlocksIn
  <1>15. Blocks(h) = (Blocks(heap) \ {b}) \cup {c}
    BY <1>4, <1>8, <1>13, <1>14
  <1>16. Blocks(heap) \ {b} = Without(p)
    BY <1>6, OneLess
  <1>17. QED
    BY <1>6, <1>8, <1>10, <1>13, <1>15, <1>16

-----------------------------------------------------------------------------
(***************************************************************************)
(* The owners, and the invariant.                                          *)
(***************************************************************************)
\* What an owner may know of its block.
OwnRec == [pc : {"none", "live", "grow", "copy", "dead"},
           ptr : Nat, want : Nat, new : Nat, target : Nat]

\* Only a realloc that copies has a second pointer, and whoever has called
\* nothing yet has none.
Phased(r) ==
    /\ r.pc # "copy" => r.new = NULL
    /\ r.pc = "none" => r.ptr = NULL

\* The pointers an owner believes to be its own.
Ptrs(r) == IF r.pc = "dead" THEN {} ELSE {r.ptr, r.new} \ {NULL}

\* The pointer p leads to one of the blocks B, which records the size w.
Leads(p, w, B) == p # NULL => \E b \in B : Pointer(b) = p /\ b.req = w

\* The owner has the blocks it believes to have.
Provided(r, B) ==
    /\ r.pc # "dead" => Leads(r.ptr, r.want, B) /\ Leads(r.new, r.target, B)
    /\ r.pc = "copy" => r.ptr # r.new

Orderly ==
    /\ \A o \in Owner : Provided(own[o], Blocks(heap))
    /\ \A o, q \in Owner : o # q => Ptrs(own[o]) \cap Ptrs(own[q]) = {}

IInv ==
    /\ HeapOK(heap)
    /\ own \in [Owner -> OwnRec]
    /\ stolen \in BOOLEAN /\ halted \in BOOLEAN
    /\ \A o \in Owner : Phased(own[o])
    /\ ~stolen => Orderly

\* The bytes of a block, those behind a pointer and those an owner may use.
Bytes(b) == b.at .. End(b) - 1

BytesAt(p, B) == UNION {Bytes(b) : b \in {c \in B : Pointer(c) = p}}

ClaimOf(r, B) == IF r.pc = "dead" THEN {} ELSE BytesAt(r.ptr, B) \cup BytesAt(r.new, B)

\* The blocks with pointers in P are the same in B and in C.
Same(P, B, C) == \A b \in B \cup C : Pointer(b) \in P => b \in B /\ b \in C

\* With the heap h and the record r of o nobody else is disturbed, and o has
\* got something or given something back.
Moves(o, r, h) ==
    /\ Provided(r, Blocks(h))
    /\ \A q \in Owner \ {o} : /\ Same(Ptrs(own[q]), Blocks(heap), Blocks(h))
                              /\ Ptrs(r) \cap Ptrs(own[q]) = {}
    /\ \/ ClaimOf(own[o], Blocks(heap)) \subseteq ClaimOf(r, Blocks(h))
       \/ ClaimOf(r, Blocks(h)) \subseteq ClaimOf(own[o], Blocks(heap))

\* A step of o.
Stepped(o, r) ==
    /\ own' = [own EXCEPT ![o] = r] /\ r \in OwnRec /\ Phased(r) /\ HeapOK(heap')
    /\ stolen' \in BOOLEAN /\ halted' = halted
    /\ ~stolen' => Moves(o, r, heap')

\* No block has a NULL pointer.
LEMMA NotNull ==
    ASSUME NEW h, HeapOK(h)
    PROVE  /\ \A b \in Blocks(h) : Pointer(b) # NULL
           /\ BytesAt(NULL, Blocks(h)) = {}
  <1>1. h \in Heap /\ Lined(h)
    BY DEF HeapOK
  <1>2. ASSUME NEW b \in Blocks(h) PROVE Pointer(b) # NULL
    <2>1. b \in Minor /\ b.req + ALIGNMENT + ALIGN_INFO <= b.size
      BY <1>1, BlocksApart
    <2>2. b.at \in Nat /\ Pointer(b) \in Nat /\ b.at < Pointer(b)
      BY <2>1, PointerInside, MinorParts
    <2>3. QED
      BY <2>2 DEF NULL
  <1>3. QED
    BY <1>2 DEF BytesAt

\* More blocks, more bytes.
LEMMA MoreBytes ==
    ASSUME NEW B, NEW C, B \subseteq C, NEW p PROVE BytesAt(p, B) \subseteq BytesAt(p, C)
  BY DEF BytesAt

\* A pointer an owner believes to be its own leads to a block.
LEMMA PtrsLead ==
    ASSUME NEW r, NEW B, Provided(r, B), NEW p \in Ptrs(r)
    PROVE  \E b \in B : Pointer(b) = p
  BY DEF Provided, Ptrs, Leads

\* The blocks a pointer leads to are still there when there are more.
LEMMA LeadsOn ==
    ASSUME NEW p, NEW w, NEW B, NEW C, Leads(p, w, B), B \subseteq C
    PROVE  Leads(p, w, C)
  BY DEF Leads

\* What malloc does for the heap and the pointer.
LEMMA Mallocs ==
    ASSUME HeapOK(heap), NEW req \in Nat, NEW h, h = Grown(req)
    PROVE  \E b \in Minor :
             /\ HeapOK(h) /\ b.req = req /\ Blocks(h) = Blocks(heap) \cup {b}
             /\ Added(h) = Pointer(b) /\ Pointer(b) \in Nat /\ Pointer(b) # NULL
             /\ \A c \in Blocks(heap) : Pointer(c) # Pointer(b)
  <1>1. HeapOK(h) /\ Grows(h, req)
    BY Growing
  <1>2. PICK b \in Minor : /\ b.req = req /\ b \notin Blocks(heap)
                           /\ Blocks(h) = Blocks(heap) \cup {b}
    BY <1>1 DEF Grows
  <1>3. /\ Added(h) = Pointer(b) /\ Pointer(b) # NULL /\ Pointer(b) \in Nat
        /\ \A c \in Blocks(heap) : Pointer(c) # Pointer(b)
    BY <1>1, <1>2, PointerAdded
  <1>4. QED
    BY <1>1, <1>2, <1>3

\* malloc disturbs nobody, whether it is called for a first block or by realloc.
LEMMA MallocMoves ==
    ASSUME IInv, ~stolen, NEW o \in Owner, NEW req \in Nat, NEW h, h = Grown(req), NEW r,
           \/ /\ own[o].pc = "none" /\ r.pc = "live" /\ r.ptr = Added(h) /\ r.want = req
              /\ r.new = NULL
           \/ /\ own[o].pc = "grow" /\ r.pc = "copy" /\ r.ptr = own[o].ptr
              /\ r.want = own[o].want /\ r.new = Added(h) /\ r.target = req
    PROVE  HeapOK(h) /\ Added(h) \in Nat /\ Moves(o, r, h)
  <1>1. HeapOK(heap) /\ Orderly /\ Phased(own[o])
    BY DEF IInv
  <1>2. PICK b \in Minor :
          /\ HeapOK(h) /\ b.req = req /\ Blocks(h) = Blocks(heap) \cup {b}
          /\ Added(h) = Pointer(b) /\ Pointer(b) \in Nat /\ Pointer(b) # NULL
          /\ \A c \in Blocks(heap) : Pointer(c) # Pointer(b)
    BY <1>1, Mallocs
  <1>3. Provided(own[o], Blocks(heap))
    BY <1>1 DEF Orderly
  <1>4. Leads(Pointer(b), req, Blocks(h)) /\ Leads(NULL, r.target, Blocks(h))
    BY <1>2 DEF Leads
  <1>5. BytesAt(NULL, Blocks(heap)) = {} /\ BytesAt(NULL, Blocks(h)) = {}
    BY <1>1, <1>2, NotNull
  <1>6. ASSUME NEW q \in Owner \ {o}
        PROVE  /\ Same(Ptrs(own[q]), Blocks(heap), Blocks(h))
               /\ Pointer(b) \notin Ptrs(own[q])
    <2>1. Provided(own[q], Blocks(heap))
      BY <1>1 DEF Orderly
    <2>2. Pointer(b) \notin Ptrs(own[q])
      BY <1>2, <2>1, PtrsLead
    <2>3. QED
      BY <1>2, <2>2 DEF Same
  <1>7. CASE own[o].pc = "none"
    <2>1. /\ r.pc = "live" /\ r.ptr = Pointer(b) /\ r.want = req /\ r.new = NULL
          /\ own[o].ptr = NULL /\ own[o].new = NULL
      BY <1>1, <1>2, <1>7 DEF Phased
    <2>2. Provided(r, Blocks(h))
      BY <1>4, <2>1 DEF Provided
    <2>3. Ptrs(r) \subseteq {Pointer(b)}
      BY <2>1 DEF Ptrs
    <2>4. ClaimOf(own[o], Blocks(heap)) = {}
      BY <1>5, <2>1 DEF ClaimOf
    <2>5. QED
      BY <1>2, <1>6, <2>2, <2>3, <2>4 DEF Moves
  <1>8. CASE own[o].pc = "grow"
    <2>1. /\ r.pc = "copy" /\ r.ptr = own[o].ptr /\ r.want = own[o].want
          /\ r.new = Pointer(b) /\ r.target = req /\ own[o].new = NULL
      BY <1>1, <1>2, <1>8 DEF Phased
    <2>2. Leads(own[o].ptr, own[o].want, Blocks(heap))
      BY <1>3, <1>8 DEF Provided
    <2>3. Leads(own[o].ptr, own[o].want, Blocks(h))
      BY <1>2, <2>2, LeadsOn
    <2>4. own[o].ptr # Pointer(b)
      BY <1>2, <2>2 DEF Leads
    <2>5. Provided(r, Blocks(h))
      BY <1>4, <2>1, <2>3, <2>4 DEF Provided
    <2>6. Ptrs(r) \subseteq Ptrs(own[o]) \cup {Pointer(b)}
      BY <1>8, <2>1 DEF Ptrs
    <2>7. \A q \in Owner \ {o} : Ptrs(r) \cap Ptrs(own[q]) = {}
      <3>1. \A q \in Owner \ {o} : Ptrs(own[o]) \cap Ptrs(own[q]) = {}
        BY <1>1 DEF Orderly
      <3>2. QED
        BY <1>6, <2>6, <3>1
    <2>8. ClaimOf(own[o], Blocks(heap)) \subseteq ClaimOf(r, Blocks(h))
      <3>1. BytesAt(own[o].ptr, Blocks(heap)) \subseteq BytesAt(own[o].ptr, Blocks(h))
        BY <1>2, MoreBytes
      <3>2. ClaimOf(own[o], Blocks(heap)) \subseteq BytesAt(own[o].ptr, Blocks(heap))
        BY <1>5, <1>8, <2>1 DEF ClaimOf
      <3>3. BytesAt(own[o].ptr, Blocks(h)) \subseteq ClaimOf(r, Blocks(h))
        BY <2>1 DEF ClaimOf
      <3>4. QED
        BY <3>1, <3>2, <3>3
    <2>9. QED
      BY <1>2, <1>6, <2>5, <2>7, <2>8 DEF Moves
  <1>9. QED
    BY <1>7, <1>8

\* free disturbs nobody when the block is nobody else's, whether it is called
\* by the owner, for a dead process, or by realloc after the copy.
LEMMA FreeMoves ==
    ASSUME IInv, ~stolen, NEW o \in Owner, NEW h, h = Freed(own[o].ptr), NEW r,
           \/ r.pc = "none" /\ r.ptr = NULL /\ r.new = NULL
           \/ r.pc = "dead"
           \/ /\ own[o].pc = "copy" /\ r.pc = "live" /\ r.ptr = own[o].new
              /\ r.want = own[o].target /\ r.new = NULL
    PROVE  HeapOK(h) /\ (~Belongs(o, own[o].ptr) => Moves(o, r, h))
  <1>1. HeapOK(heap) /\ Orderly /\ Phased(own[o])
    BY DEF IInv
  <1>2. PICK p : p = own[o].ptr
    OBVIOUS
  <1>3. HeapOK(h) /\ Blocks(h) = Without(p)
    BY <1>1, <1>2, Freeing
  <1>4. SUFFICES ASSUME ~Belongs(o, p) PROVE Moves(o, r, h)
    BY <1>2, <1>3
  <1>5. BytesAt(NULL, Blocks(h)) = {}
    BY <1>3, NotNull
  <1>6. Blocks(h) \subseteq Blocks(heap)
    BY <1>3 DEF Without
  <1>7. ASSUME NEW q \in Owner \ {o} PROVE Same(Ptrs(own[q]), Blocks(heap), Blocks(h))
    <2>1. p \notin Ptrs(own[q])
      BY <1>4 DEF Belongs, Ptrs
    <2>2. QED
      BY <1>3, <2>1 DEF Same, Without
  <1>8. CASE r.pc = "none" \/ r.pc = "dead"
    <2>1. Ptrs(r) = {} /\ ClaimOf(r, Blocks(h)) = {}
      BY <1>5, <1>8 DEF Ptrs, ClaimOf
    <2>2. Provided(r, Blocks(h))
      BY <1>8 DEF Provided, Leads
    <2>3. QED
      BY <1>7, <2>1, <2>2 DEF Moves
  <1>9. CASE r.pc = "live"
    <2>1. /\ own[o].pc = "copy" /\ r.ptr = own[o].new /\ r.want = own[o].target
          /\ r.new = NULL
      BY <1>9
    <2>2. Leads(own[o].new, own[o].target, Blocks(heap)) /\ own[o].new # p
      BY <1>1, <1>2, <2>1 DEF Orderly, Provided
    <2>3. Leads(own[o].new, own[o].target, Blocks(h))
      BY <1>3, <2>2 DEF Leads, Without
    <2>4. Provided(r, Blocks(h))
      BY <1>9, <2>1, <2>3 DEF Provided, Leads
    <2>5. Ptrs(r) \subseteq Ptrs(own[o])
      BY <1>9, <2>1 DEF Ptrs
    <2>6. \A q \in Owner \ {o} : Ptrs(r) \cap Ptrs(own[q]) = {}
      BY <1>1, <2>5 DEF Orderly
    <2>7. ClaimOf(r, Blocks(h)) \subseteq ClaimOf(own[o], Blocks(heap))
      <3>1. BytesAt(own[o].new, Blocks(h)) \subseteq BytesAt(own[o].new, Blocks(heap))
        BY <1>6, MoreBytes
      <3>2. ClaimOf(r, Blocks(h)) \subseteq BytesAt(own[o].new, Blocks(h))
        BY <1>5, <1>9, <2>1 DEF ClaimOf
      <3>3. BytesAt(own[o].new, Blocks(heap)) \subseteq ClaimOf(own[o], Blocks(heap))
        BY <2>1 DEF ClaimOf
      <3>4. QED
        BY <3>1, <3>2, <3>3
    <2>8. QED
      BY <1>7, <2>4, <2>6, <2>7 DEF Moves
  <1>10. QED
    BY <1>8, <1>9

\* realloc in place disturbs nobody.
LEMMA ShrinkMoves ==
    ASSUME IInv, ~stolen, NEW o \in Owner, own[o].pc = "live", NEW p, p = own[o].ptr,
           NEW ij \in Found(p), NEW req \in Nat, req <= heap.majors[ij[1]].minors[ij[2]].req,
           NEW h, Recorded(h, ij[1], ij[2], req), NEW r,
           r.pc = "live", r.ptr = own[o].ptr, r.want = req, r.new = own[o].new
    PROVE  HeapOK(h) /\ Moves(o, r, h)
  <1>1. HeapOK(heap) /\ Orderly /\ Phased(own[o])
    BY DEF IInv
  <1>2. PICK b : b = heap.majors[ij[1]].minors[ij[2]]
    OBVIOUS
  <1>3. PICK c : Asks(c, b, req)
    BY DEF Asks
  <1>4. HeapOK(h) /\ Blocks(h) = Without(p) \cup {c} /\ b \in Minor /\ Pointer(b) = p
    <2>1. Shrinks(h, p, ij, req, b, c)
      BY <1>2, <1>3 DEF Shrinks
    <2>2. HeapOK(heap)
      BY <1>1
    <2>3. QED
      BY ONLY <2>1, <2>2, Shrinking, Zenon
  <1>5. c.req = req /\ Pointer(c) = p /\ Bytes(c) = Bytes(b)
    BY <1>3, <1>4 DEF Minor, Pointer, Bytes, End, Asks
  <1>6. b \in Blocks(heap)
    BY <1>2, FoundIs
  <1>7. p # NULL
    BY <1>1, <1>4, <1>6, NotNull
  <1>8. Ptrs(r) = Ptrs(own[o]) /\ p \in Ptrs(own[o]) /\ r.new = NULL
    BY <1>1, <1>7 DEF Ptrs, Phased
  <1>9. ASSUME NEW q \in Owner \ {o}
        PROVE  Same(Ptrs(own[q]), Blocks(heap), Blocks(h)) /\ Ptrs(r) \cap Ptrs(own[q]) = {}
    <2>1. Ptrs(own[o]) \cap Ptrs(own[q]) = {}
      BY <1>1 DEF Orderly
    <2>2. p \notin Ptrs(own[q])
      BY <1>8, <2>1
    <2>3. Same(Ptrs(own[q]), Blocks(heap), Blocks(h))
      BY <1>4, <1>5, <2>2 DEF Same, Without
    <2>4. QED
      BY <1>8, <2>1, <2>3
  <1>10. Provided(r, Blocks(h))
    <2>1. c \in Blocks(h)
      BY <1>4
    <2>2. Leads(r.ptr, r.want, Blocks(h)) /\ Leads(r.new, r.target, Blocks(h))
      BY <1>5, <1>8, <2>1 DEF Leads
    <2>3. QED
      BY <2>2 DEF Provided
  <1>11. ClaimOf(own[o], Blocks(heap)) \subseteq ClaimOf(r, Blocks(h))
    <2>1. BytesAt(NULL, Blocks(heap)) = {} /\ own[o].new = NULL
      BY <1>1, <1>8, NotNull
    <2>2. ClaimOf(own[o], Blocks(heap)) \subseteq BytesAt(p, Blocks(heap))
      BY <2>1 DEF ClaimOf
    <2>3. BytesAt(p, Blocks(heap)) \subseteq Bytes(b)
      <3>1. heap \in Heap /\ Lined(heap)
        BY <1>1 DEF HeapOK
      <3>2. ASSUME NEW d \in Blocks(heap), Pointer(d) = p PROVE d = b
        BY <1>4, <1>6, <3>1, <3>2, PointerUnique
      <3>3. QED
        BY <3>2 DEF BytesAt
    <2>4. Bytes(c) \subseteq BytesAt(p, Blocks(h))
      BY <1>4, <1>5 DEF BytesAt
    <2>5. BytesAt(p, Blocks(h)) \subseteq ClaimOf(r, Blocks(h))
      BY DEF ClaimOf
    <2>6. QED
      BY <1>5, <2>2, <2>3, <2>4, <2>5
  <1>12. QED
    BY <1>4, <1>9, <1>10, <1>11 DEF Moves

\* A realloc that finds the block too small has only read.
LEMMA ReadMoves ==
    ASSUME IInv, ~stolen, NEW o \in Owner, own[o].pc = "live", NEW r,
           r.pc = "grow", r.ptr = own[o].ptr, r.want = own[o].want, r.new = own[o].new
    PROVE  Moves(o, r, heap)
  <1>1. Orderly /\ Phased(own[o])
    BY DEF IInv
  <1>2. Ptrs(r) = Ptrs(own[o]) /\ ClaimOf(r, Blocks(heap)) = ClaimOf(own[o], Blocks(heap))
    BY DEF Ptrs, ClaimOf
  <1>3. Provided(r, Blocks(heap))
    BY <1>1 DEF Orderly, Provided, Leads, Phased
  <1>4. ASSUME NEW q \in Owner \ {o}
        PROVE  Same(Ptrs(own[q]), Blocks(heap), Blocks(heap)) /\ Ptrs(r) \cap Ptrs(own[q]) = {}
    BY <1>1, <1>2 DEF Orderly, Same
  <1>5. QED
    BY <1>2, <1>3, <1>4 DEF Moves

\* Such a step keeps the invariant.
LEMMA Kept ==
    ASSUME IInv, ~stolen, NEW o \in Owner, NEW r, Stepped(o, r)
    PROVE  IInv'
  <1>1. own' = [own EXCEPT ![o] = r] /\ r \in OwnRec /\ Phased(r)
    BY DEF Stepped
  <1>2. HeapOK(heap') /\ stolen' \in BOOLEAN /\ halted' \in BOOLEAN
    BY DEF Stepped, IInv
  <1>3. own \in [Owner -> OwnRec] /\ (\A q \in Owner : Phased(own[q])) /\ Orderly
    BY DEF IInv
  <1>4. own'[o] = r /\ (\A q \in Owner : q # o => own'[q] = own[q]) /\ own' \in [Owner -> OwnRec]
    BY <1>1, <1>3
  <1>5. \A q \in Owner : Phased(own'[q])
    BY <1>1, <1>3, <1>4
  <1>6. ASSUME ~stolen'
        PROVE  /\ \A q \in Owner : Provided(own'[q], Blocks(heap'))
               /\ \A q, s \in Owner : q # s => Ptrs(own'[q]) \cap Ptrs(own'[s]) = {}
    <2>1. Moves(o, r, heap')
      BY <1>6 DEF Stepped
    <2>2. PICK h : h = heap'
      OBVIOUS
    <2>3. Provided(r, Blocks(h))
      BY <2>1, <2>2 DEF Moves
    <2>4. \A q \in Owner \ {o} : /\ Same(Ptrs(own[q]), Blocks(heap), Blocks(h))
                                 /\ Ptrs(r) \cap Ptrs(own[q]) = {}
      BY <2>1, <2>2 DEF Moves
    <2>5. ASSUME NEW q \in Owner, q # o PROVE Provided(own[q], Blocks(h))
      <3>1. Provided(own[q], Blocks(heap)) /\ Same(Ptrs(own[q]), Blocks(heap), Blocks(h))
        BY <1>3, <2>4, <2>5 DEF Orderly
      <3>2. ASSUME own[q].pc # "dead"
            PROVE  /\ Leads(own[q].ptr, own[q].want, Blocks(h))
                   /\ Leads(own[q].new, own[q].target, Blocks(h))
        <4>1. /\ Leads(own[q].ptr, own[q].want, Blocks(heap))
              /\ Leads(own[q].new, own[q].target, Blocks(heap))
          BY <3>1, <3>2 DEF Provided
        <4>2. Ptrs(own[q]) = {own[q].ptr, own[q].new} \ {NULL}
          BY <3>2 DEF Ptrs
        <4>3. QED
          BY <3>1, <4>1, <4>2 DEF Leads, Same
      <3>3. QED
        BY <3>1, <3>2 DEF Provided
    <2>6. \A q \in Owner : Provided(own'[q], Blocks(h))
      BY <1>4, <2>3, <2>5
    <2>7. ASSUME NEW q \in Owner, NEW s \in Owner, q # s
          PROVE  Ptrs(own'[q]) \cap Ptrs(own'[s]) = {}
      <3>1. CASE q = o
        BY <1>4, <2>4, <2>7, <3>1
      <3>2. CASE s = o
        <4>1. Ptrs(r) \cap Ptrs(own[q]) = {}
          BY <2>4, <2>7, <3>2
        <4>2. QED
          BY <1>4, <2>7, <3>2, <4>1
      <3>3. CASE q # o /\ s # o
        BY <1>3, <1>4, <2>7, <3>3 DEF Orderly
      <3>4. QED
        BY <3>1, <3>2, <3>3
    <2>8. QED
      BY <2>2, <2>6, <2>7
  <1>7. ~stolen' => Orderly'
    BY <1>6 DEF Orderly
  <1>8. QED
    BY <1>2, <1>4, <1>5, <1>7 DEF IInv

-----------------------------------------------------------------------------
(***************************************************************************)
(* The steps.                                                              *)
(***************************************************************************)
\* What is asked for is a number.
LEMMA Amounts == Amount \subseteq Nat
  BY SizesAssumption

\* malloc, and realloc of a NULL pointer.
LEMMA MallocSteps ==
    ASSUME IInv, NEW o \in Owner, NEW req \in Amount, liballoc_malloc(o, req)
    PROVE  ~stolen /\ \E r : Stepped(o, r)
  <1>1. ~stolen /\ own[o].pc = "none" /\ heap' = Grown(req) /\ UNCHANGED << stolen, halted >>
    BY DEF liballoc_malloc, Running
  <1>2. PICK r : r = [Nothing EXCEPT !.pc = "live", !.ptr = Added(heap'), !.want = req]
    OBVIOUS
  <1>3. own' = [own EXCEPT ![o] = r]
    BY <1>2 DEF liballoc_malloc
  <1>4. r = [pc |-> "live", ptr |-> Added(heap'), want |-> req, new |-> NULL, target |-> 0]
    BY <1>2 DEF Nothing
  <1>5. PICK h : h = heap'
    OBVIOUS
  <1>6. /\ r.pc = "live" /\ r.ptr = Added(h) /\ r.want = req /\ r.new = NULL
        /\ req \in Nat /\ h = Grown(req)
    BY <1>1, <1>4, <1>5, Amounts
  <1>7. HeapOK(h) /\ Added(h) \in Nat /\ Moves(o, r, h)
    BY <1>1, <1>6, MallocMoves
  <1>8. r \in OwnRec /\ Phased(r)
    BY <1>4, <1>5, <1>6, <1>7 DEF OwnRec, Phased, NULL
  <1>9. stolen' \in BOOLEAN /\ halted' = halted
    BY <1>1 DEF IInv
  <1>10. Stepped(o, r)
    BY <1>3, <1>5, <1>7, <1>8, <1>9 DEF Stepped
  <1>11. QED
    BY <1>1, <1>10

\* malloc on behalf of realloc.
LEMMA ReallocMallocSteps ==
    ASSUME IInv, NEW o \in Owner, realloc_malloc(o)
    PROVE  ~stolen /\ \E r : Stepped(o, r)
  <1>1. ~stolen /\ own[o].pc = "grow" /\ heap' = Grown(own[o].target)
        /\ UNCHANGED << stolen, halted >>
    BY DEF realloc_malloc, Running
  <1>2. PICK r : r = [own[o] EXCEPT !.pc = "copy", !.new = Added(heap')]
    OBVIOUS
  <1>3. own[o] \in OwnRec
    BY DEF IInv
  <1>4. own' = [own EXCEPT ![o] = r]
    BY <1>2 DEF realloc_malloc, IInv
  <1>5. PICK h : h = heap'
    OBVIOUS
  <1>6. PICK req \in Nat : req = own[o].target
    BY <1>3 DEF OwnRec
  <1>7. /\ r.pc = "copy" /\ r.ptr = own[o].ptr /\ r.want = own[o].want
        /\ r.new = Added(h) /\ r.target = req
    BY <1>2, <1>3, <1>5, <1>6 DEF OwnRec
  <1>8. HeapOK(h) /\ Added(h) \in Nat /\ Moves(o, r, h)
    BY <1>1, <1>5, <1>6, <1>7, MallocMoves
  <1>9. r \in OwnRec /\ Phased(r)
    BY <1>2, <1>3, <1>5, <1>7, <1>8 DEF OwnRec, Phased
  <1>10. stolen' \in BOOLEAN /\ halted' = halted
    BY <1>1 DEF IInv
  <1>11. Stepped(o, r)
    BY <1>4, <1>5, <1>8, <1>9, <1>10 DEF Stepped
  <1>12. QED
    BY <1>1, <1>11

\* free, by the owner.
LEMMA FreeSteps ==
    ASSUME IInv, NEW o \in Owner, liballoc_free(o)
    PROVE  ~stolen /\ \E r : Stepped(o, r)
  <1>1. ~stolen /\ heap' = Freed(own[o].ptr) /\ stolen' = (stolen \/ Belongs(o, own[o].ptr))
        /\ halted' = halted
    BY DEF liballoc_free, Running
  <1>2. PICK r : r = IF o \in Stack THEN [Nothing EXCEPT !.pc = "dead", !.ptr = own[o].ptr]
                                    ELSE Nothing
    OBVIOUS
  <1>3. own' = [own EXCEPT ![o] = r]
    BY <1>2 DEF liballoc_free
  <1>4. own[o] \in OwnRec /\ own[o].ptr \in Nat
    BY DEF IInv, OwnRec
  <1>5. r \in OwnRec /\ Phased(r) /\ (r.pc = "dead" \/ (r.pc = "none" /\ r.ptr = NULL /\ r.new = NULL))
    <2>1. CASE o \in Stack
      <3>1. r = [pc |-> "dead", ptr |-> own[o].ptr, want |-> 0, new |-> NULL, target |-> 0]
        BY <1>2, <2>1 DEF Nothing
      <3>2. QED
        BY <1>4, <3>1 DEF OwnRec, Phased, NULL
    <2>2. CASE o \notin Stack
      <3>1. r = [pc |-> "none", ptr |-> NULL, want |-> 0, new |-> NULL, target |-> 0]
        BY <1>2, <2>2 DEF Nothing
      <3>2. QED
        BY <3>1 DEF OwnRec, Phased, NULL
    <2>3. QED
      BY <2>1, <2>2
  <1>6. PICK h : h = heap'
    OBVIOUS
  <1>7. HeapOK(h) /\ (~Belongs(o, own[o].ptr) => Moves(o, r, h))
    BY <1>1, <1>5, <1>6, FreeMoves
  <1>8. Stepped(o, r)
    BY <1>1, <1>3, <1>5, <1>6, <1>7 DEF Stepped
  <1>9. QED
    BY <1>1, <1>8

\* free, for a dead process.
LEMMA FreeAgainSteps ==
    ASSUME IInv, NEW o \in Owner, free_again(o)
    PROVE  ~stolen /\ \E r : Stepped(o, r)
  <1>1. ~stolen /\ heap' = Freed(own[o].ptr) /\ stolen' = (stolen \/ Belongs(o, own[o].ptr))
        /\ halted' = halted /\ own' = own /\ own[o].pc = "dead"
    BY DEF free_again, Running
  <1>2. PICK r : r = own[o]
    OBVIOUS
  <1>3. own \in [Owner -> OwnRec] /\ r \in OwnRec /\ Phased(r) /\ r.pc = "dead"
    BY <1>1, <1>2 DEF IInv
  <1>4. own' = [own EXCEPT ![o] = r]
    BY <1>1, <1>2, <1>3
  <1>5. PICK h : h = heap'
    OBVIOUS
  <1>6. HeapOK(h) /\ (~Belongs(o, own[o].ptr) => Moves(o, r, h))
    BY <1>1, <1>3, <1>5, FreeMoves
  <1>7. Stepped(o, r)
    BY <1>1, <1>3, <1>4, <1>5, <1>6 DEF Stepped
  <1>8. QED
    BY <1>1, <1>7

\* free on behalf of realloc.
LEMMA ReallocFreeSteps ==
    ASSUME IInv, NEW o \in Owner, realloc_free(o)
    PROVE  ~stolen /\ \E r : Stepped(o, r)
  <1>1. ~stolen /\ heap' = Freed(own[o].ptr) /\ stolen' = (stolen \/ Belongs(o, own[o].ptr))
        /\ halted' = halted /\ own[o].pc = "copy"
    BY DEF realloc_free, Running
  <1>2. PICK r : r = [Nothing EXCEPT !.pc = "live", !.ptr = own[o].new, !.want = own[o].target]
    OBVIOUS
  <1>3. own' = [own EXCEPT ![o] = r]
    BY <1>2 DEF realloc_free
  <1>4. own[o].new \in Nat /\ own[o].target \in Nat
    BY DEF IInv, OwnRec
  <1>5. r = [pc |-> "live", ptr |-> own[o].new, want |-> own[o].target, new |-> NULL, target |-> 0]
    BY <1>2 DEF Nothing
  <1>6. r \in OwnRec /\ Phased(r)
    BY <1>4, <1>5 DEF OwnRec, Phased, NULL
  <1>7. PICK h : h = heap'
    OBVIOUS
  <1>8. HeapOK(h) /\ (~Belongs(o, own[o].ptr) => Moves(o, r, h))
    BY <1>1, <1>5, <1>7, FreeMoves
  <1>9. Stepped(o, r)
    BY <1>1, <1>3, <1>6, <1>7, <1>8 DEF Stepped
  <1>10. QED
    BY <1>1, <1>9

\* realloc in place records no more than the block was asked to be.
LEMMA InPlace ==
    ASSUME IInv, NEW o \in Owner, NEW req \in Amount, realloc_in_place(o, req)
    PROVE  \E ij \in Found(own[o].ptr) :
             /\ Recorded(heap', ij[1], ij[2], req)
             /\ req <= heap.majors[ij[1]].minors[ij[2]].req
  <1>1. req <= ReqOf(own[o].ptr)
    BY DEF realloc_in_place
  <1>2. PICK p : p = own[o].ptr
    OBVIOUS
  <1>3. PICK h : h = heap'
    OBVIOUS
  <1>4. PICK ij \in Found(p) : Recorded(h, ij[1], ij[2], req)
    BY <1>2, <1>3 DEF realloc_in_place, Recorded
  <1>5. req <= heap.majors[ij[1]].minors[ij[2]].req
    <2>1. PICK kl : kl = CHOOSE mn \in Found(p) : TRUE
      OBVIOUS
    <2>2. kl \in Found(p)
      BY <1>4, <2>1
    <2>3. heap \in Heap /\ Lined(heap)
      BY DEF IInv, HeapOK
    <2>4. heap.majors[ij[1]].minors[ij[2]] = heap.majors[kl[1]].minors[kl[2]]
      BY <1>4, <2>2, <2>3, FoundIs, PointerUnique, SMTT(40)
    <2>5. ReqOf(p) = heap.majors[kl[1]].minors[kl[2]].req
      BY <2>1 DEF ReqOf
    <2>6. QED
      BY <1>1, <1>2, <2>4, <2>5
  <1>6. QED
    BY <1>2, <1>3, <1>4, <1>5

\* realloc in place.
LEMMA InPlaceSteps ==
    ASSUME IInv, NEW o \in Owner, NEW req \in Amount, realloc_in_place(o, req)
    PROVE  ~stolen /\ \E r : Stepped(o, r)
  <1>1. ~stolen /\ own[o].pc = "live" /\ UNCHANGED << stolen, halted >>
    BY DEF realloc_in_place, Running
  <1>2. PICK p : p = own[o].ptr
    OBVIOUS
  <1>3. PICK h : h = heap'
    OBVIOUS
  <1>4. PICK ij \in Found(p) : /\ Recorded(h, ij[1], ij[2], req)
                               /\ req <= heap.majors[ij[1]].minors[ij[2]].req
    BY <1>2, <1>3, InPlace
  <1>5. req <= heap.majors[ij[1]].minors[ij[2]].req
    BY <1>4
  <1>6. PICK r : r = [own[o] EXCEPT !.want = req]
    OBVIOUS
  <1>7. own[o] \in OwnRec /\ own \in [Owner -> OwnRec] /\ Phased(own[o]) /\ req \in Nat
    BY Amounts DEF IInv
  <1>8. own' = [own EXCEPT ![o] = r]
    BY <1>6, <1>7 DEF realloc_in_place
  <1>9. r.pc = "live" /\ r.ptr = own[o].ptr /\ r.want = req /\ r.new = own[o].new
    BY <1>1, <1>6, <1>7 DEF OwnRec
  <1>10. r \in OwnRec /\ Phased(r)
    BY <1>6, <1>7, <1>9 DEF OwnRec, Phased
  <1>11. HeapOK(h) /\ Moves(o, r, h)
    BY <1>1, <1>2, <1>4, <1>5, <1>7, <1>9, ShrinkMoves
  <1>12. stolen' \in BOOLEAN /\ halted' = halted
    BY <1>1 DEF IInv
  <1>13. Stepped(o, r)
    BY <1>3, <1>8, <1>10, <1>11, <1>12 DEF Stepped
  <1>14. QED
    BY <1>1, <1>13

\* realloc finds the block too small.
LEMMA GrowSteps ==
    ASSUME IInv, NEW o \in Owner, NEW req \in Amount, realloc_grow(o, req)
    PROVE  ~stolen /\ \E r : Stepped(o, r)
  <1>1. ~stolen /\ own[o].pc = "live" /\ UNCHANGED << heap, stolen, halted >>
    BY DEF realloc_grow, Running
  <1>2. PICK r : r = [own[o] EXCEPT !.pc = "grow", !.target = req]
    OBVIOUS
  <1>3. own[o] \in OwnRec /\ own \in [Owner -> OwnRec] /\ Phased(own[o]) /\ req \in Nat
    BY Amounts DEF IInv
  <1>4. own' = [own EXCEPT ![o] = r]
    BY <1>2, <1>3 DEF realloc_grow
  <1>5. r.pc = "grow" /\ r.ptr = own[o].ptr /\ r.want = own[o].want /\ r.new = own[o].new
    BY <1>2, <1>3 DEF OwnRec
  <1>6. r \in OwnRec /\ Phased(r)
    BY <1>1, <1>2, <1>3, <1>5 DEF OwnRec, Phased
  <1>7. Moves(o, r, heap)
    BY <1>1, <1>5, ReadMoves
  <1>8. stolen' \in BOOLEAN /\ halted' = halted /\ HeapOK(heap)
    BY <1>1 DEF IInv
  <1>9. Stepped(o, r)
    BY <1>1, <1>4, <1>6, <1>7, <1>8 DEF Stepped
  <1>10. QED
    BY <1>1, <1>9

\* Every step is one of an owner, or leaves the heap and the owners alone.
LEMMA EveryStep ==
    ASSUME IInv, [Next]_vars
    PROVE  \/ ~stolen /\ \E o \in Owner : \E r : Stepped(o, r)
           \/ UNCHANGED << heap, own, stolen >> /\ halted' \in BOOLEAN
  <1>1. ASSUME NEW o \in Owner, NEW req \in Amount, liballoc_alloc_fails(o, req)
        PROVE  UNCHANGED << heap, own, stolen >> /\ halted' \in BOOLEAN
    BY <1>1 DEF liballoc_alloc_fails
  <1>2. CASE Stopped
    BY <1>2 DEF Stopped, vars, IInv
  <1>3. CASE UNCHANGED vars
    BY <1>3 DEF vars, IInv
  <1>4. CASE \E o \in Owner, req \in Amount :
               \/ liballoc_malloc(o, req)
               \/ liballoc_alloc_fails(o, req)
               \/ realloc_in_place(o, req)
               \/ realloc_grow(o, req)
    BY <1>1, <1>4, MallocSteps, InPlaceSteps, GrowSteps
  <1>5. CASE \E o \in Owner :
               \/ liballoc_free(o)
               \/ free_again(o)
               \/ realloc_malloc(o)
               \/ realloc_free(o)
    BY <1>5, FreeSteps, FreeAgainSteps, ReallocMallocSteps, ReallocFreeSteps
  <1>6. QED
    BY <1>2, <1>3, <1>4, <1>5 DEF Next

\* The empty heap.
LEMMA Empty ==
    ASSUME Init PROVE HeapOK(heap) /\ Blocks(heap) = {}
  <1>1. heap = [majors |-> << >>, bestBet |-> NULL, inuse |-> 0, allocated |-> 0,
                taken |-> 0, returned |-> 0]
    BY DEF Init
  <1>2. << >> \in Seq(Major) /\ Len(heap.majors) = 0 /\ heap.majors = << >>
    BY <1>1
  <1>3. heap \in Heap
    BY <1>1, <1>2 DEF Heap, NULL
  <1>4. Lined(heap)
    BY <1>2 DEF Lined
  <1>5. Listed(heap)
    BY <1>1 DEF Listed
  <1>6. PICK f : f = [i \in 1 .. 0 |-> Used(heap.majors[i])]
    OBVIOUS
  <1>7. PICK e : e = [i \in 1 .. 0 |-> Size(heap.majors[i])]
    OBVIOUS
  <1>8. f \in [1 .. 0 -> Int] /\ e \in [1 .. 0 -> Int] /\ 0 \in Nat
    BY <1>2, <1>3, <1>6, <1>7, MajorSums
  <1>9. PICK s : Partial(s, 0, f) /\ SumTo(0, f) = s[0]
    BY <1>8, SumIs
  <1>10. PICK t : Partial(t, 0, e) /\ SumTo(0, e) = t[0]
    BY <1>8, SumIs
  <1>11. SumTo(0, f) = 0 /\ SumTo(0, e) = 0
    BY <1>9, <1>10 DEF Partial
  <1>12. Totals(heap)
    <2>1. heap.inuse = 0 /\ heap.allocated = 0
      BY <1>1
    <2>2. QED
      BY <1>2, <1>6, <1>7, <1>11, <2>1 DEF Totals
  <1>13. Blocks(heap) = {}
    BY <1>2 DEF Blocks
  <1>14. QED
    BY <1>3, <1>4, <1>5, <1>12, <1>13 DEF HeapOK

\* The invariant holds of the initial state.
LEMMA Starts == Init => IInv
  <1>1. SUFFICES ASSUME Init PROVE IInv
    OBVIOUS
  <1>2. HeapOK(heap)
    BY <1>1, Empty
  <1>3. stolen = FALSE /\ halted = FALSE /\ own = [o \in Owner |-> Nothing]
    BY <1>1 DEF Init
  <1>4. Nothing = [pc |-> "none", ptr |-> NULL, want |-> 0, new |-> NULL, target |-> 0]
    BY DEF Nothing
  <1>5. Nothing \in OwnRec /\ Phased(Nothing) /\ Ptrs(Nothing) = {}
    BY <1>4 DEF OwnRec, Phased, Ptrs, NULL
  <1>6. \A B : Provided(Nothing, B)
    BY <1>4 DEF Provided, Leads
  <1>7. Orderly
    BY <1>3, <1>5, <1>6 DEF Orderly
  <1>8. QED
    BY <1>2, <1>3, <1>5, <1>7 DEF IInv

\* Every step keeps it.
LEMMA Continues == IInv /\ [Next]_vars => IInv'
  <1>1. SUFFICES ASSUME IInv, [Next]_vars PROVE IInv'
    OBVIOUS
  <1>2. CASE ~stolen /\ \E o \in Owner : \E r : Stepped(o, r)
    BY <1>1, <1>2, Kept
  <1>3. CASE UNCHANGED << heap, own, stolen >> /\ halted' \in BOOLEAN
    <2>1. Orderly => Orderly'
      BY <1>3 DEF Orderly
    <2>2. QED
      BY <1>1, <1>3, <2>1 DEF IInv
  <1>4. QED
    BY <1>1, <1>2, <1>3, EveryStep

\* The invariant holds in every reachable state.
LEMMA Always == Spec => []IInv
  BY Starts, Continues, PTL DEF Spec

-----------------------------------------------------------------------------
(***************************************************************************)
(* Theorems.                                                               *)
(***************************************************************************)
\* l_bestBet (liballoc.c) is NULL or leads to a listed major, whatever was
\* allocated, moved and freed before.
THEOREM BetIsListed == Spec => []BestBetIsListed
  <1>1. IInv => BestBetIsListed
    BY DEF IInv, HeapOK, Listed, BestBetIsListed
  <1>2. QED
    BY Always, <1>1, PTL

\* usage, l_inuse and l_allocated (liballoc.c) agree with the lists, after any
\* history of malloc, realloc and free, the slayer's repeated frees included.
THEOREM TotalsAgree == Spec => []TotalsMatchLists
  <1>1. ASSUME IInv PROVE TotalsMatchLists
    <2>1. Lined(heap) /\ Totals(heap)
      BY <1>1 DEF IInv, HeapOK
    <2>2. \A i \in 1 .. Len(heap.majors) :
            heap.majors[i].usage = MAJOR + UsedWithHeaders(heap.majors[i])
      BY <2>1 DEF Lined, Counted
    <2>3. QED
      BY <2>1, <2>2 DEF Totals, TotalsMatchLists
  <1>2. QED
    BY Always, <1>1, PTL

\* A pointer that leads to a block finds one that is long enough.
LEMMA LongEnough ==
    ASSUME HeapOK(heap), NEW p, NEW w, p # NULL, Leads(p, w, Blocks(heap))
    PROVE  \E ij \in Found(p) : LET min == heap.majors[ij[1]].minors[ij[2]]
                                IN  min.req = w /\ p + w <= End(min)
  <1>1. heap \in Heap /\ Lined(heap)
    BY DEF HeapOK
  <1>2. PICK b \in Blocks(heap) : Pointer(b) = p /\ b.req = w
    BY DEF Leads
  <1>3. b \in Minor /\ b.req + ALIGNMENT + ALIGN_INFO <= b.size
    BY <1>1, BlocksApart
  <1>4. Pointer(b) + b.req <= End(b)
    BY <1>3, PointerInside
  <1>5. PICK ij \in Found(p) : heap.majors[ij[1]].minors[ij[2]] = b
    BY <1>2, FoundIs
  <1>6. QED
    BY <1>2, <1>4, <1>5

\* Until a freed stack is freed under a new owner, every pointer that malloc and
\* realloc (liballoc.c) have returned and nobody has freed leads to a block that
\* records the size asked for last and is long enough for it.
THEOREM BlocksFit == Spec => []BlockFitsOwner
  <1>1. ASSUME IInv PROVE BlockFitsOwner
    <2>1. SUFFICES ASSUME ~stolen, NEW o \in Owner, own[o].pc # "dead",
                          NEW pw \in {<< own[o].ptr, own[o].want >>, << own[o].new, own[o].target >>},
                          pw[1] # NULL
                   PROVE  \E ij \in Found(pw[1]) :
                            LET min == heap.majors[ij[1]].minors[ij[2]]
                            IN  min.req = pw[2] /\ pw[1] + pw[2] <= End(min)
      BY DEF BlockFitsOwner
    <2>2. HeapOK(heap) /\ Provided(own[o], Blocks(heap))
      BY <1>1, <2>1 DEF IInv, Orderly
    <2>3. PICK p, w : p = pw[1] /\ w = pw[2]
      OBVIOUS
    <2>4. Leads(p, w, Blocks(heap))
      <3>1. \/ p = own[o].ptr /\ w = own[o].want
            \/ p = own[o].new /\ w = own[o].target
        BY <2>1, <2>3
      <3>2. QED
        BY <2>1, <2>2, <3>1 DEF Provided
    <2>5. p # NULL
      BY <2>1, <2>3
    <2>6. \E ij \in Found(p) : LET min == heap.majors[ij[1]].minors[ij[2]]
                               IN  min.req = w /\ p + w <= End(min)
      BY <2>2, <2>4, <2>5, LongEnough
    <2>7. QED
      BY <2>3, <2>6
  <1>2. QED
    BY Always, <1>1, PTL

\* What a step may do to the heap.
LEMMA HeapSteps ==
    ASSUME IInv, [Next]_vars
    PROVE  \/ \E req \in Amount : heap' = Grown(req)
           \/ \E o \in Owner : own[o].pc = "grow" /\ heap' = Grown(own[o].target)
           \/ \E p : heap' = Freed(p)
           \/ \E p : \E ij \in Found(p), req \in Nat :
                Recorded(heap', ij[1], ij[2], req) /\ req <= heap.majors[ij[1]].minors[ij[2]].req
           \/ heap' = heap
  <1>1. ASSUME NEW o \in Owner, NEW req \in Amount, realloc_in_place(o, req)
        PROVE  \E p : \E ij \in Found(p), n \in Nat :
                 Recorded(heap', ij[1], ij[2], n) /\ n <= heap.majors[ij[1]].minors[ij[2]].req
    BY <1>1, InPlace, Amounts
  <1>2. CASE \E o \in Owner, req \in Amount :
               \/ liballoc_malloc(o, req)
               \/ liballoc_alloc_fails(o, req)
               \/ realloc_in_place(o, req)
               \/ realloc_grow(o, req)
    BY <1>1, <1>2 DEF liballoc_malloc, liballoc_alloc_fails, realloc_grow
  <1>3. CASE \E o \in Owner :
               \/ liballoc_free(o)
               \/ free_again(o)
               \/ realloc_malloc(o)
               \/ realloc_free(o)
    BY <1>3 DEF liballoc_free, free_again, realloc_malloc, realloc_free
  <1>4. CASE Stopped \/ UNCHANGED vars
    BY <1>4 DEF Stopped, vars
  <1>5. QED
    BY <1>2, <1>3, <1>4 DEF Next

\* malloc (liballoc.c) takes pages only when no hole of any listed major is
\* large enough, wherever the search began.
THEOREM AsksLast == Spec => AsksOnlyWhenFull
  <1>1. ASSUME IInv, [Next]_vars, heap'.taken > heap.taken
        PROVE  Full(heap'.majors[Len(heap'.majors)].minors[1].size)
    <2>1. PICK h : h = heap'
      OBVIOUS
    <2>2. HeapOK(heap) /\ heap.taken \in Nat /\ ~(heap.taken > heap.taken)
      <3>1. HeapOK(heap) /\ heap \in Heap
        BY <1>1 DEF IInv, HeapOK
      <3>2. heap.taken \in Nat
        BY <3>1, HeapParts
      <3>3. QED
        BY <3>1, <3>2
    <2>3. ASSUME NEW req \in Nat, h = Grown(req)
          PROVE  Full(h.majors[Len(h.majors)].minors[1].size)
      BY <1>1, <2>1, <2>2, <2>3, Growing
    <2>4. ASSUME NEW p, h = Freed(p) PROVE FALSE
      <3>1. h.taken = heap.taken
        BY <2>2, <2>4, Freeing
      <3>2. QED
        BY <1>1, <2>1, <2>2, <3>1
    <2>5. ASSUME NEW p, NEW ij \in Found(p), NEW req \in Nat, Recorded(h, ij[1], ij[2], req),
                 req <= heap.majors[ij[1]].minors[ij[2]].req
          PROVE  FALSE
      <3>1. PICK b : b = heap.majors[ij[1]].minors[ij[2]]
        OBVIOUS
      <3>2. h.taken = heap.taken
        <4>1. PICK c : Asks(c, b, req)
          BY DEF Asks
        <4>2. Shrinks(h, p, ij, req, b, c)
          BY <2>5, <3>1, <4>1 DEF Shrinks
        <4>3. QED
          BY <2>2, <4>2, Shrinking, Zenon
      <3>3. QED
        BY <1>1, <2>1, <2>2, <3>2
    <2>6. \A o \in Owner : own[o].target \in Nat
      BY <1>1 DEF IInv, OwnRec
    <2>7. \/ \E req \in Nat : h = Grown(req)
          \/ \E p : h = Freed(p)
          \/ \E p : \E ij \in Found(p), req \in Nat :
               Recorded(h, ij[1], ij[2], req) /\ req <= heap.majors[ij[1]].minors[ij[2]].req
          \/ h = heap
      BY <1>1, <2>1, <2>6, HeapSteps, Amounts
    <2>8. QED
      BY <1>1, <2>1, <2>2, <2>3, <2>4, <2>5, <2>7
  <1>2. IInv /\ [Next]_vars =>
          [heap'.taken > heap.taken =>
             LET size == heap'.majors[Len(heap'.majors)].minors[1].size
             IN  \A i \in 1 .. Len(heap.majors) :
                   \A k \in 0 .. Len(heap.majors[i].minors) : ~HoleFits(heap.majors[i], k, size)]_vars
    BY <1>1 DEF Full
  <1>3. QED
    BY Always, <1>2, PTL DEF Spec, AsksOnlyWhenFull

-----------------------------------------------------------------------------
(***************************************************************************)
(* Liballoc implements HeapAbs.                                            *)
(***************************************************************************)
Claims == [o \in Owner |-> ClaimOf(own[o], Blocks(heap))]

ClaimsMatch == [o \in Owner |-> Claim(o)] = Claims

\* The claims of the refinement mapping, as the lemmas speak of them.
LEMMA ClaimsAre == ClaimsMatch
  <1>1. ASSUME NEW p PROVE Block(p) = BytesAt(p, Blocks(heap))
    <2>1. ASSUME NEW x \in Block(p) PROVE x \in BytesAt(p, Blocks(heap))
      <3>1. PICK ij \in Found(p) : x \in heap.majors[ij[1]].minors[ij[2]].at
                                           .. End(heap.majors[ij[1]].minors[ij[2]]) - 1
        BY <2>1 DEF Block
      <3>2. PICK b : b = heap.majors[ij[1]].minors[ij[2]]
        OBVIOUS
      <3>3. b \in Blocks(heap) /\ Pointer(b) = p
        BY <3>2, FoundIs
      <3>4. x \in Bytes(b)
        BY <3>1, <3>2 DEF Bytes
      <3>5. QED
        BY <3>3, <3>4 DEF BytesAt
    <2>2. ASSUME NEW x \in BytesAt(p, Blocks(heap)) PROVE x \in Block(p)
      <3>1. PICK b \in Blocks(heap) : Pointer(b) = p /\ x \in Bytes(b)
        BY <2>2 DEF BytesAt
      <3>2. PICK ij \in Found(p) : heap.majors[ij[1]].minors[ij[2]] = b
        BY <3>1, FoundIs
      <3>3. QED
        BY <3>1, <3>2 DEF Block, Bytes
    <2>3. QED
      BY <2>1, <2>2
  <1>2. \A o \in Owner : Claim(o) = ClaimOf(own[o], Blocks(heap))
    BY <1>1 DEF Claim, ClaimOf
  <1>3. QED
    BY <1>2 DEF Claims, ClaimsMatch

\* The byte x is in one of the blocks B with the pointer p or q.
Hits(x, p, q, B) == \E b \in B : x \in Bytes(b) /\ Pointer(b) \in {p, q}

\* Owners with different pointers share no byte.
LEMMA ClaimsApart ==
    ASSUME NEW h, HeapOK(h), NEW r, NEW s, Ptrs(r) \cap Ptrs(s) = {}
    PROVE  ClaimOf(r, Blocks(h)) \cap ClaimOf(s, Blocks(h)) = {}
  <1>1. SUFFICES ASSUME NEW x, x \in ClaimOf(r, Blocks(h)), x \in ClaimOf(s, Blocks(h))
                 PROVE  FALSE
    OBVIOUS
  <1>2. h \in Heap /\ Lined(h)
    BY DEF HeapOK
  <1>3. PICK b \in Blocks(h) : x \in Bytes(b) /\ Pointer(b) \in Ptrs(r)
    <2>1. r.pc # "dead" /\ Hits(x, r.ptr, r.new, Blocks(h))
      BY <1>1 DEF ClaimOf, BytesAt, Hits
    <2>2. QED
      BY <2>1, NotNull DEF Hits, Ptrs
  <1>4. PICK c \in Blocks(h) : x \in Bytes(c) /\ Pointer(c) \in Ptrs(s)
    <2>1. s.pc # "dead" /\ Hits(x, s.ptr, s.new, Blocks(h))
      BY <1>1 DEF ClaimOf, BytesAt, Hits
    <2>2. QED
      BY <2>1, NotNull DEF Hits, Ptrs
  <1>5. b # c
    BY <1>3, <1>4
  <1>6. Apart(b, c) /\ b \in Minor /\ c \in Minor
    BY <1>2, <1>5, BlocksApart
  <1>7. PICK ba \in Nat, be \in Nat, ca \in Nat, ce \in Nat :
          ba = b.at /\ be = End(b) /\ ca = c.at /\ ce = End(c)
    BY <1>6, MinorParts
  <1>8. x \in ba .. be - 1 /\ x \in ca .. ce - 1 /\ (be <= ca \/ ce <= ba)
    BY <1>3, <1>4, <1>6, <1>7 DEF Bytes, Apart
  <1>9. QED
    BY <1>8

\* A claim on blocks that are the same is the same.
LEMMA ClaimStays ==
    ASSUME NEW g, HeapOK(g), NEW h, HeapOK(h), NEW r, Same(Ptrs(r), Blocks(g), Blocks(h))
    PROVE  ClaimOf(r, Blocks(g)) = ClaimOf(r, Blocks(h))
  <1>1. CASE r.pc = "dead"
    BY <1>1 DEF ClaimOf
  <1>2. CASE r.pc # "dead"
    <2>1. Ptrs(r) = {r.ptr, r.new} \ {NULL}
      BY <1>2 DEF Ptrs
    <2>2. ASSUME NEW p \in {r.ptr, r.new} PROVE BytesAt(p, Blocks(g)) = BytesAt(p, Blocks(h))
      <3>1. CASE p = NULL
        BY <3>1, NotNull
      <3>2. CASE p # NULL
        <4>1. {c \in Blocks(g) : Pointer(c) = p} = {c \in Blocks(h) : Pointer(c) = p}
          BY <2>1, <3>2 DEF Same
        <4>2. QED
          BY <4>1 DEF BytesAt
      <3>3. QED
        BY <3>1, <3>2
    <2>3. QED
      BY <1>2, <2>2 DEF ClaimOf
  <1>3. QED
    BY <1>1, <1>2

\* A step of an owner is a step of the abstract heap.
LEMMA StepImplements ==
    ASSUME IInv, IInv', ~stolen, NEW o \in Owner, NEW r, Stepped(o, r)
    PROVE  Abs!Next
  <1>1. CASE stolen'
    <2>1. Abs!Steal
      BY <1>1 DEF Abs!Steal
    <2>2. QED
      BY <2>1 DEF Abs!Next
  <1>2. CASE ~stolen'
    <2>1. PICK c : c = [q \in Owner |-> Claim(q)]
      OBVIOUS
    <2>2. PICK d : d = [q \in Owner |-> Claim(q)]'
      OBVIOUS
    <2>3. c = Claims /\ d = Claims'
      <3>1. ClaimsMatch'
        BY ClaimsAre, PTL
      <3>2. QED
        BY <2>1, <2>2, <3>1, ClaimsAre DEF ClaimsMatch
    <2>4. PICK h : h = heap'
      OBVIOUS
    <2>5. own' = [own EXCEPT ![o] = r] /\ HeapOK(h) /\ Moves(o, r, h)
      BY <1>2, <2>4 DEF Stepped
    <2>6. HeapOK(heap) /\ own \in [Owner -> OwnRec]
      BY DEF IInv
    <2>7. own'[o] = r /\ \A q \in Owner : q # o => own'[q] = own[q]
      BY <2>5, <2>6
    <2>8. d = [q \in Owner |-> ClaimOf(own'[q], Blocks(h))]
      BY <2>3, <2>4 DEF Claims
    <2>9. c = [q \in Owner |-> ClaimOf(own[q], Blocks(heap))]
      BY <2>3 DEF Claims
    <2>10. ASSUME NEW q \in Owner, q # o PROVE d[q] = c[q] /\ d[o] \cap c[q] = {}
      <3>1. Same(Ptrs(own[q]), Blocks(heap), Blocks(h)) /\ Ptrs(r) \cap Ptrs(own[q]) = {}
        BY <2>5, <2>10 DEF Moves
      <3>2. ClaimOf(own[q], Blocks(heap)) = ClaimOf(own[q], Blocks(h))
        BY <2>5, <2>6, <3>1, ClaimStays
      <3>3. ClaimOf(r, Blocks(h)) \cap ClaimOf(own[q], Blocks(h)) = {}
        BY <2>5, <3>1, ClaimsApart
      <3>4. d[o] = ClaimOf(r, Blocks(h)) /\ d[q] = ClaimOf(own[q], Blocks(h))
        BY <2>7, <2>8, <2>10
      <3>5. c[q] = ClaimOf(own[q], Blocks(heap))
        BY <2>9
      <3>6. QED
        BY <3>2, <3>3, <3>4, <3>5
    <2>11. d = [c EXCEPT ![o] = d[o]]
      BY <2>8, <2>9, <2>10
    <2>12. c[o] \subseteq d[o] \/ d[o] \subseteq c[o]
      <3>1. d[o] = ClaimOf(r, Blocks(h)) /\ c[o] = ClaimOf(own[o], Blocks(heap))
        BY <2>7, <2>8, <2>9
      <3>2. QED
        BY <2>5, <3>1 DEF Moves
    <2>13. Abs!Resize(o)
      BY <1>2, <2>1, <2>2, <2>10, <2>11 DEF Abs!Resize
    <2>14. Abs!Take(o) \/ Abs!Give(o)
      BY <2>1, <2>2, <2>12, <2>13 DEF Abs!Take, Abs!Give
    <2>15. QED
      BY <2>14 DEF Abs!Next
  <1>3. QED
    BY <1>1, <1>2

\* The kernel heap keeps the promise of a heap: the bytes and the header of one
\* owner's block are nobody else's, however malloc, realloc and free (liballoc.c)
\* of several owners interleave, until a freed stack is freed under a new owner.
THEOREM Refinement == Spec => ImplementsHeapAbs
  <1>1. Init => Abs!Init
    <2>1. SUFFICES ASSUME Init PROVE Abs!Init
      OBVIOUS
    <2>2. Blocks(heap) = {}
      BY <2>1, Empty
    <2>3. \A r : ClaimOf(r, {}) = {}
      BY DEF ClaimOf, BytesAt
    <2>4. Claims = [o \in Owner |-> {}]
      BY <2>2, <2>3 DEF Claims
    <2>5. QED
      BY <2>1, <2>4, ClaimsAre DEF Abs!Init, Init, ClaimsMatch
  <1>2. IInv /\ IInv' /\ [Next]_vars => [Abs!Next]_(Abs!vars)
    <2>1. SUFFICES ASSUME IInv, IInv', [Next]_vars PROVE Abs!Next \/ UNCHANGED Abs!vars
      OBVIOUS
    <2>2. CASE ~stolen /\ \E o \in Owner : \E r : Stepped(o, r)
      BY <2>1, <2>2, StepImplements
    <2>3. CASE UNCHANGED << heap, own, stolen >>
      <3>1. Claims' = Claims
        BY <2>3 DEF Claims
      <3>2. ClaimsMatch'
        BY ClaimsAre, PTL
      <3>3. QED
        BY <2>3, <3>1, <3>2, ClaimsAre DEF Abs!vars, ClaimsMatch
    <2>4. QED
      BY <2>1, <2>2, <2>3, EveryStep
  <1>3. QED
    BY Always, <1>1, <1>2, PTL DEF Spec, ImplementsHeapAbs, Abs!Spec

-----------------------------------------------------------------------------
(***************************************************************************)
(* What becomes of emptied majors.                                         *)
(***************************************************************************)
\* Every major has fewer pages than a page has bytes, and a waiting realloc
\* has asked for one of the amounts.
Small ==
    /\ \A p \in Pages(heap) : p < l_pageSize
    /\ \A o \in Owner : own[o].pc = "grow" => own[o].target \in Amount

\* Who waits in realloc has asked for one of the amounts.
LEMMA Asked ==
    ASSUME IInv, Small, [Next]_vars
    PROVE  \A o \in Owner : own'[o].pc = "grow" => own'[o].target \in Amount
  <1>1. own \in [Owner -> OwnRec] /\ \A o \in Owner : own[o].pc = "grow" => own[o].target \in Amount
    BY DEF IInv, Small
  <1>2. ASSUME NEW q \in Owner, NEW r, own' = [own EXCEPT ![q] = r],
               r.pc = "grow" => r.target \in Amount
        PROVE  \A o \in Owner : own'[o].pc = "grow" => own'[o].target \in Amount
    BY <1>1, <1>2
  <1>3. ASSUME NEW q \in Owner, NEW req \in Amount, liballoc_malloc(q, req)
        PROVE  \A o \in Owner : own'[o].pc = "grow" => own'[o].target \in Amount
    <2>1. PICK r : r = [Nothing EXCEPT !.pc = "live", !.ptr = Added(heap'), !.want = req]
      OBVIOUS
    <2>2. own' = [own EXCEPT ![q] = r] /\ r.pc = "live"
      BY <1>3, <2>1 DEF liballoc_malloc, Nothing
    <2>3. QED
      BY <1>2, <2>2
  <1>4. ASSUME NEW q \in Owner, NEW req \in Amount, realloc_in_place(q, req)
        PROVE  \A o \in Owner : own'[o].pc = "grow" => own'[o].target \in Amount
    <2>1. PICK r : r = [own[q] EXCEPT !.want = req]
      OBVIOUS
    <2>2. own' = [own EXCEPT ![q] = r] /\ r.pc = "live"
      BY <1>1, <1>4, <2>1 DEF realloc_in_place, OwnRec
    <2>3. QED
      BY <1>2, <2>2
  <1>5. ASSUME NEW q \in Owner, NEW req \in Amount, realloc_grow(q, req)
        PROVE  \A o \in Owner : own'[o].pc = "grow" => own'[o].target \in Amount
    <2>1. PICK r : r = [own[q] EXCEPT !.pc = "grow", !.target = req]
      OBVIOUS
    <2>2. own' = [own EXCEPT ![q] = r] /\ r.target = req
      BY <1>1, <1>5, <2>1 DEF realloc_grow, OwnRec
    <2>3. QED
      BY <1>2, <2>2
  <1>6. ASSUME NEW q \in Owner, liballoc_free(q)
        PROVE  \A o \in Owner : own'[o].pc = "grow" => own'[o].target \in Amount
    <2>1. PICK r : r = IF q \in Stack THEN [Nothing EXCEPT !.pc = "dead", !.ptr = own[q].ptr]
                                      ELSE Nothing
      OBVIOUS
    <2>2. own' = [own EXCEPT ![q] = r] /\ r.pc \in {"none", "dead"}
      BY <1>6, <2>1 DEF liballoc_free, Nothing
    <2>3. QED
      BY <1>2, <2>2
  <1>7. ASSUME NEW q \in Owner, realloc_malloc(q)
        PROVE  \A o \in Owner : own'[o].pc = "grow" => own'[o].target \in Amount
    <2>1. PICK r : r = [own[q] EXCEPT !.pc = "copy", !.new = Added(heap')]
      OBVIOUS
    <2>2. own' = [own EXCEPT ![q] = r] /\ r.pc = "copy"
      BY <1>1, <1>7, <2>1 DEF realloc_malloc, OwnRec
    <2>3. QED
      BY <1>2, <2>2
  <1>8. ASSUME NEW q \in Owner, realloc_free(q)
        PROVE  \A o \in Owner : own'[o].pc = "grow" => own'[o].target \in Amount
    <2>1. PICK r : r = [Nothing EXCEPT !.pc = "live", !.ptr = own[q].new, !.want = own[q].target]
      OBVIOUS
    <2>2. own' = [own EXCEPT ![q] = r] /\ r.pc = "live"
      BY <1>8, <2>1 DEF realloc_free, Nothing
    <2>3. QED
      BY <1>2, <2>2
  <1>9. CASE own' = own
    BY <1>1, <1>9
  <1>10. CASE \E o \in Owner, req \in Amount :
                \/ liballoc_malloc(o, req)
                \/ liballoc_alloc_fails(o, req)
                \/ realloc_in_place(o, req)
                \/ realloc_grow(o, req)
    BY <1>3, <1>4, <1>5, <1>9, <1>10 DEF liballoc_alloc_fails
  <1>11. CASE \E o \in Owner :
                \/ liballoc_free(o)
                \/ free_again(o)
                \/ realloc_malloc(o)
                \/ realloc_free(o)
    BY <1>6, <1>7, <1>8, <1>9, <1>11 DEF free_again
  <1>12. CASE Stopped \/ UNCHANGED vars
    BY <1>9, <1>12 DEF Stopped, vars
  <1>13. QED
    BY <1>10, <1>11, <1>12 DEF Next

\* What a step does to the pages, when no request needs very many.
LEMMA PagesStep ==
    ASSUME IInv, Small, [Next]_vars, NEW h, h = heap',
           \A req \in Amount : PagesFor(req + ALIGNMENT + ALIGN_INFO) < l_pageSize
    PROVE  /\ \A p \in Pages(h) : p < l_pageSize
           /\ h.allocated < heap.allocated => h.taken = heap.taken /\ h.returned = heap.returned
  <1>1. HeapOK(heap) /\ heap \in Heap
    BY DEF IInv, HeapOK
  <1>2. heap.allocated \in Int /\ heap.returned \in Nat /\ ~(heap.allocated < heap.allocated)
    BY <1>1, HeapParts
  <1>3. \A p \in Pages(heap) : p < l_pageSize
    BY DEF Small
  <1>4. ASSUME NEW req \in Amount, h = Grown(req)
        PROVE  (\A p \in Pages(h) : p < l_pageSize) /\ ~(h.allocated < heap.allocated)
    <2>1. req \in Nat
      BY Amounts
    <2>2. /\ h.allocated >= heap.allocated /\ HeapOK(h)
          /\ Pages(h) \subseteq Pages(heap) \cup {PagesFor(req + ALIGNMENT + ALIGN_INFO)}
      BY <1>1, <1>4, <2>1, Growing
    <2>3. h.allocated \in Int
      BY <2>2, HeapParts DEF HeapOK
    <2>4. ~(h.allocated < heap.allocated)
      BY <1>2, <2>2, <2>3
    <2>5. QED
      BY <1>3, <2>2, <2>4
  <1>5. ASSUME NEW p, h = Freed(p)
        PROVE  /\ \A q \in Pages(h) : q < l_pageSize
               /\ h.allocated < heap.allocated => h.taken = heap.taken /\ h.returned = heap.returned
    <2>1. /\ h.taken = heap.taken /\ Pages(h) \subseteq Pages(heap)
          /\ \/ h.allocated = heap.allocated
             \/ \E i \in 1 .. Len(heap.majors) :
                  h.returned = heap.returned + liballoc_free_(heap.majors[i].pages)
      BY <1>1, <1>5, Freeing
    <2>2. ASSUME NEW i \in 1 .. Len(heap.majors)
          PROVE  heap.returned + liballoc_free_(heap.majors[i].pages) = heap.returned
      <3>1. PICK n \in Nat : n = heap.majors[i].pages /\ n < l_pageSize
        <4>1. heap.majors[i] \in Major /\ heap.majors[i].pages \in Pages(heap)
          BY <1>1, HeapParts DEF Pages
        <4>2. heap.majors[i].pages \in Nat
          BY <4>1, MajorParts
        <4>3. QED
          BY <1>3, <4>1, <4>2
      <3>2. n \div l_pageSize = 0
        BY <3>1, Constants, SMTT(30)
      <3>3. QED
        BY <1>2, <3>1, <3>2 DEF liballoc_free_
    <2>3. QED
      BY <1>2, <1>3, <2>1, <2>2
  <1>6. ASSUME NEW p, NEW ij \in Found(p), NEW req \in Nat, Recorded(h, ij[1], ij[2], req),
               req <= heap.majors[ij[1]].minors[ij[2]].req
        PROVE  (\A q \in Pages(h) : q < l_pageSize) /\ ~(h.allocated < heap.allocated)
    <2>1. PICK b : b = heap.majors[ij[1]].minors[ij[2]]
      OBVIOUS
    <2>2. h.allocated = heap.allocated /\ Pages(h) = Pages(heap)
      <3>1. PICK c : Asks(c, b, req)
        BY DEF Asks
      <3>2. Shrinks(h, p, ij, req, b, c)
        BY <1>6, <2>1, <3>1 DEF Shrinks
      <3>3. QED
        BY <1>1, <3>2, Shrinking, Zenon
    <2>3. QED
      BY <1>2, <1>3, <2>2
  <1>7. \/ \E req \in Amount : h = Grown(req)
        \/ \E p : h = Freed(p)
        \/ \E p : \E ij \in Found(p), req \in Nat :
             Recorded(h, ij[1], ij[2], req) /\ req <= heap.majors[ij[1]].minors[ij[2]].req
        \/ h = heap
    BY HeapSteps DEF Small
  <1>8. QED
    BY <1>2, <1>3, <1>4, <1>5, <1>6, <1>7

\* As long as nobody asks for a major of as many pages as a page has bytes, no
\* page of an emptied major comes back: compat.c:74 hands pmm_free the number
\* of pages as a length in bytes.
THEOREM SmallMajorsAreLost ==
    ASSUME \A req \in Amount : PagesFor(req + ALIGNMENT + ALIGN_INFO) < l_pageSize
    PROVE  Spec => EmptiedMajorsAreLost
  <1>1. Init => Small
    BY Empty DEF Init, Small, Pages, Nothing
  <1>2. IInv /\ Small /\ [Next]_vars => Small'
    <2>1. SUFFICES ASSUME IInv, Small, [Next]_vars PROVE Small'
      OBVIOUS
    <2>2. \A p \in Pages(heap') : p < l_pageSize
      BY <2>1, PagesStep
    <2>3. \A o \in Owner : own'[o].pc = "grow" => own'[o].target \in Amount
      BY <2>1, Asked
    <2>4. QED
      BY <2>2, <2>3 DEF Small
  <1>3. IInv /\ Small /\ [Next]_vars =>
          [heap'.allocated < heap.allocated =>
             heap'.taken - heap'.returned = heap.taken - heap.returned]_vars
    BY PagesStep
  <1>4. QED
    BY Always, <1>1, <1>2, <1>3, PTL DEF Spec, EmptiedMajorsAreLost
=============================================================================
