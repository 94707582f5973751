-------------------------- MODULE InterruptsProofs --------------------------
(***************************************************************************)
(* Proofs about Interrupts, for any set of processes, interrupt lines and  *)
(* exceptions, any depth of nesting, any width of a word and any symbol    *)
(* table whose functions do not overlap.                                   *)
(***************************************************************************)
EXTENDS Interrupts, SequenceTheorems, FiniteSetTheorems, WellFoundedInduction, TLAPS

-----------------------------------------------------------------------------
(***************************************************************************)
(* Loops, as recursive functions of the number of turns, and numbers.      *)
(***************************************************************************)

\* A nonempty set of numbers has a least one.
LEMMA Least ==
    ASSUME NEW S \in SUBSET Nat, S # {}
    PROVE  \E q \in S : \A r \in S : q <= r
  <1>1. PICK q \in S : \A r \in S : ~(<< r, q >> \in OpToRel(<, Nat))
    BY NatLessThanWellFounded, WFMin
  <1>2. \A r \in S : ~(r < q)
    BY <1>1 DEF OpToRel
  <1>3. QED
    BY <1>2

\* What holds at 0 and is passed on holds up to n.
LEMMA Upwards ==
    ASSUME NEW n \in Nat, NEW S, 0 \in S,
           \A k \in 1 .. n : k - 1 \in S => k \in S
    PROVE  \A k \in 0 .. n : k \in S
  <1> DEFINE bad == {k \in Nat : k \in 0 .. n /\ k \notin S}
  <1>1. ASSUME bad # {} PROVE FALSE
    <2>1. PICK m \in bad : \A j \in bad : m <= j
      <3>1. bad \in SUBSET Nat
        OBVIOUS
      <3>2. QED
        BY <1>1, <3>1, Least
    <2>2. m \in 1 .. n /\ m - 1 \in Nat /\ m - 1 \in 0 .. n /\ m \notin S
      OBVIOUS
    <2>3. m - 1 \notin bad
      BY <2>1, <2>2
    <2>4. m - 1 \in S
      BY <2>2, <2>3
    <2>5. QED
      BY <2>2, <2>4
  <1>2. QED
    BY <1>1

\* The values f of a loop that begins with x and takes n turns.
Turning(S, n, step) == step \in [1 .. n -> [S -> S]]

Runs(f, S, x, n, step) ==
    f \in [0 .. n -> S] /\ f[0] = x /\ \A i \in 1 .. n : f[i] = step[i][f[i - 1]]

\* Every loop has a course.
LEMMA Course ==
    ASSUME NEW S, NEW x \in S, NEW n \in Nat, NEW step, Turning(S, n, step)
    PROVE  \E f : Runs(f, S, x, n, step)
  <1> DEFINE R == {k \in Nat : k <= n => \E f \in [0 .. k -> S] :
                      f[0] = x /\ \A i \in 1 .. k : f[i] = step[i][f[i - 1]]}
  <1>0. step \in [1 .. n -> [S -> S]]
    BY DEF Turning
  <1>1. 0 \in R
    <2>1. PICK f : f = [i \in 0 .. 0 |-> x]
      OBVIOUS
    <2>2. f \in [0 .. 0 -> S] /\ f[0] = x /\ \A i \in 1 .. 0 : f[i] = step[i][f[i - 1]]
      BY <2>1
    <2>3. QED
      BY <2>2
  <1>2. ASSUME NEW k \in 1 .. n, k - 1 \in R PROVE k \in R
    <2>1. PICK h \in [0 .. k - 1 -> S] : h[0] = x /\ \A i \in 1 .. k - 1 : h[i] = step[i][h[i - 1]]
      BY <1>2
    <2>2. PICK y \in S : y = step[k][h[k - 1]]
      <3>1. h[k - 1] \in S /\ step[k] \in [S -> S]
        BY <1>0, <2>1
      <3>2. QED
        BY <3>1
    <2>3. PICK f : f = [i \in 0 .. k |-> IF i = k THEN y ELSE h[i]]
      OBVIOUS
    <2>4. f \in [0 .. k -> S] /\ f[k] = y /\ \A i \in 0 .. k - 1 : f[i] = h[i]
      BY <2>1, <2>3
    <2>5. ASSUME NEW i \in 1 .. k PROVE f[i] = step[i][f[i - 1]]
      <3>1. f[i - 1] = h[i - 1]
        BY <2>4
      <3>2. CASE i = k
        BY <2>2, <2>4, <3>1, <3>2
      <3>3. CASE i # k
        <4>1. i \in 1 .. k - 1 /\ f[i] = h[i]
          BY <2>4, <3>3
        <4>2. QED
          BY <2>1, <3>1, <4>1, Zenon
      <3>4. QED
        BY <3>2, <3>3
    <2>6. f[0] = x /\ k \in Nat
      BY <2>1, <2>4
    <2>7. QED
      BY <2>4, <2>5, <2>6
  <1>3. \A k \in 0 .. n : k \in R
    <2> HIDE DEF R
    <2>1. QED
      BY <1>1, <1>2, Upwards
  <1>4. n \in R
    BY <1>3
  <1>5. QED
    BY <1>4 DEF Runs

\* Two loops that begin with the same value and take the same turns agree.
SameTurns(f, h, n) ==
    f[0] = h[0] /\ \A i \in 1 .. n : f[i - 1] = h[i - 1] => f[i] = h[i]

\* By induction over the turns.
LEMMA SameCourse ==
    ASSUME NEW n \in Nat, NEW f, NEW h, SameTurns(f, h, n)
    PROVE  \A i \in 0 .. n : f[i] = h[i]
  <1> DEFINE R == {k \in Nat : f[k] = h[k]}
  <1>1. 0 \in R
    BY DEF SameTurns
  <1>2. ASSUME NEW k \in 1 .. n, k - 1 \in R PROVE k \in R
    <2>1. f[k - 1] = h[k - 1]
      BY <1>2
    <2>2. f[k] = h[k] /\ k \in Nat
      BY <2>1 DEF SameTurns
    <2>3. QED
      BY <2>2
  <1>3. \A k \in 0 .. n : k \in R
    <2> HIDE DEF R
    <2>1. QED
      BY <1>1, <1>2, Upwards
  <1>4. QED
    BY <1>3

\* Quotient and remainder.
LEMMA DivMod ==
    ASSUME NEW a \in Int, NEW b \in Nat \ {0}
    PROVE  \E q \in Int, r \in 0 .. b - 1 : q = a \div b /\ r = a % b /\ a = q * b + r
  <1>1. b > 0
    OBVIOUS
  <1>2. a \div b \in Int /\ a % b \in 0 .. b - 1
    BY <1>1
  <1>3. a = (a \div b) * b + (a % b)
    BY <1>1
  <1>4. QED
    BY <1>2, <1>3, Zenon

\* They are determined by what they are.
LEMMA DivUnique ==
    ASSUME NEW a \in Int, NEW b \in Nat \ {0}, NEW q \in Int, NEW r \in 0 .. b - 1,
           a = q * b + r
    PROVE  a \div b = q /\ a % b = r
  <1>1. PICK x \in Int, y \in 0 .. b - 1 : x = a \div b /\ y = a % b /\ a = x * b + y
    BY DivMod, Zenon
  <1>2. (x - q) * b = r - y
    BY <1>1, SMTT(30)
  <1>3. CASE x - q >= 1
    <2>1. (x - q) * b >= b
      BY <1>1, <1>3, SMTT(30)
    <2>2. QED
      BY <1>1, <1>2, <2>1
  <1>4. CASE x - q <= -1
    <2>1. (x - q) * b <= -b
      BY <1>1, <1>4, SMTT(30)
    <2>2. QED
      BY <1>1, <1>2, <2>1
  <1>5. QED
    BY <1>1, <1>2, <1>3, <1>4, SMTT(30)

\* Products grow with their factors.
LEMMA Grows ==
    ASSUME NEW a \in Nat, NEW b \in Nat, NEW c \in Nat, a <= b
    PROVE  a * c \in Nat /\ b * c \in Nat /\ a * c <= b * c
  <1>1. PICK d \in Nat : b = a + d
    <2>1. b - a \in Nat /\ b = a + (b - a)
      OBVIOUS
    <2>2. QED
      BY <2>1
  <1>2. PICK x \in Nat, y \in Nat : x = a * c /\ y = d * c
    <2>1. a * c \in Nat /\ d * c \in Nat
      BY SMTT(30)
    <2>2. QED
      BY <2>1
  <1>3. b * c = x + y
    BY <1>1, <1>2, SMTT(30)
  <1>4. QED
    BY <1>2, <1>3

\* Numbers that differ by a multiple have the same remainder.
LEMMA Congruent ==
    ASSUME NEW a \in Int, NEW b \in Int, NEW c \in Nat \ {0}, NEW q \in Int, a - b = q * c
    PROVE  a % c = b % c
  <1>1. PICK x \in Int, r \in 0 .. c - 1 : x = b \div c /\ r = b % c /\ b = x * c + r
    BY DivMod, Zenon
  <1>2. PICK y \in Int : y = q + x
    OBVIOUS
  <1>3. y * c = q * c + x * c
    BY <1>2, SMTT(30)
  <1>4. a = y * c + r
    <2>1. PICK s \in Int, t \in Int : s = q * c /\ t = x * c
      OBVIOUS
    <2>2. a - b = s
      BY <2>1
    <2>3. b = t + r /\ y * c = s + t
      BY <1>1, <1>3, <2>1
    <2>4. PICK z \in Int : z = y * c
      OBVIOUS
    <2>5. a = z + r
      BY <2>2, <2>3, <2>4
    <2>6. QED
      BY <2>4, <2>5
  <1>5. a % c = r
    BY <1>4, DivUnique, Zenon
  <1>6. QED
    BY <1>1, <1>5

-----------------------------------------------------------------------------
(***************************************************************************)
(* Powers.                                                                 *)
(***************************************************************************)

\* The loop of pow.
LEMMA PowCourse ==
    ASSUME NEW b \in Nat, NEW n \in Nat
    PROVE  \E f \in [0 .. n -> Nat] :
              f[0] = 1 /\ (\A i \in 1 .. n : f[i] = f[i - 1] * b) /\ pow(b, n) = f[n]
  <1> DEFINE body(h) == [i \in 0 .. n |-> IF i = 0 THEN 1 ELSE h[i - 1] * b]
  <1>1. PICK f : f = CHOOSE h : h = body(h)
    OBVIOUS
  <1>2. pow(b, n) = f[n]
    BY <1>1 DEF pow
  <1>3. \E h : h = body(h)
    <2>1. PICK step : step = [i \in 1 .. n |-> [y \in Nat |-> y * b]]
      OBVIOUS
    <2>2. Turning(Nat, n, step)
      BY <2>1 DEF Turning
    <2>3. PICK h \in [0 .. n -> Nat] : h[0] = 1 /\ \A i \in 1 .. n : h[i] = step[i][h[i - 1]]
      <3>1. PICK h : Runs(h, Nat, 1, n, step)
        BY <2>2, 1 \in Nat, Course, Zenon
      <3>2. QED
        BY <3>1 DEF Runs
    <2>4. ASSUME NEW i \in 1 .. n PROVE h[i] = h[i - 1] * b
      <3>1. h[i - 1] \in Nat
        <4>1. i - 1 \in 0 .. n
          OBVIOUS
        <4>2. QED
          BY <2>3, <4>1, Zenon
      <3>2. step[i][h[i - 1]] = h[i - 1] * b
        BY <2>1, <3>1
      <3>3. QED
        BY <2>3, <3>2
    <2>5. h = body(h)
      BY <2>3, <2>4
    <2>6. QED
      BY <2>5
  <1>4. f = body(f)
    BY <1>1, <1>3
  <1>5. f[0] = 1 /\ \A i \in 1 .. n : f[i] = f[i - 1] * b
    BY <1>4
  <1>6. f \in [0 .. n -> Nat]
    <2> DEFINE R == {k \in Nat : f[k] \in Nat}
    <2>1. 0 \in R
      BY <1>5
    <2>2. ASSUME NEW k \in 1 .. n, k - 1 \in R PROVE k \in R
      BY <1>5, <2>2
    <2>3. \A k \in 0 .. n : k \in R
      <3> HIDE DEF R
      <3>1. QED
        BY <2>1, <2>2, Upwards
    <2>4. QED
      BY <1>4, <2>3
  <1>7. QED
    BY <1>2, <1>5, <1>6

\* A power more is a factor more.
LEMMA Pow ==
    ASSUME NEW b \in Nat
    PROVE  /\ pow(b, 0) = 1
           /\ \A n \in Nat : pow(b, n) \in Nat /\ pow(b, n + 1) = pow(b, n) * b
  <1>1. pow(b, 0) = 1
    BY 0 \in Nat, PowCourse
  <1>2. ASSUME NEW n \in Nat PROVE pow(b, n) \in Nat /\ pow(b, n + 1) = pow(b, n) * b
    <2>1. PICK f \in [0 .. n -> Nat] :
              f[0] = 1 /\ (\A i \in 1 .. n : f[i] = f[i - 1] * b) /\ pow(b, n) = f[n]
      BY PowCourse
    <2>2. PICK h \in [0 .. n + 1 -> Nat] :
              h[0] = 1 /\ (\A i \in 1 .. n + 1 : h[i] = h[i - 1] * b) /\ pow(b, n + 1) = h[n + 1]
      BY n + 1 \in Nat, PowCourse
    <2>3. \A i \in 1 .. n : h[i] = h[i - 1] * b
      BY <2>2
    <2>4. \A i \in 0 .. n : f[i] = h[i]
      <3>1. SameTurns(f, h, n)
        BY <2>1, <2>2, <2>3 DEF SameTurns
      <3>2. QED
        BY <3>1, SameCourse
    <2>5. h[n + 1] = h[n] * b
      BY <2>2
    <2>6. QED
      BY <2>1, <2>2, <2>4, <2>5
  <1>3. QED
    BY <1>1, <1>2

\* Powers of 10 and 16 are positive, and grow.
LEMMA PowGrows ==
    ASSUME NEW b \in Nat \ {0}, NEW n \in Nat, NEW m \in 0 .. n
    PROVE  pow(b, m) \in Nat \ {0} /\ pow(b, n) \in Nat \ {0} /\ pow(b, m) <= pow(b, n)
  <1> DEFINE R == {k \in Nat : pow(b, k) \in Nat \ {0}}
  <1>1. 0 \in R
    BY Pow
  <1>2. ASSUME NEW k \in 1 .. n, k - 1 \in R PROVE k \in R
    <2>1. k - 1 \in Nat /\ k = (k - 1) + 1
      OBVIOUS
    <2>2. pow(b, k) = pow(b, k - 1) * b
      BY <2>1, Pow
    <2>3. PICK p \in Nat \ {0} : p = pow(b, k - 1)
      BY <1>2
    <2>4. p * b \in Nat \ {0}
      BY SMTT(30)
    <2>5. QED
      BY <2>2, <2>3, <2>4
  <1>3. \A k \in 0 .. n : k \in R
    <2> HIDE DEF R
    <2>1. QED
      BY <1>1, <1>2, Upwards
  <1> DEFINE T == {k \in Nat : k >= m => pow(b, m) <= pow(b, k)}
  <1>4. 0 \in T
    BY <1>3
  <1>5. ASSUME NEW k \in 1 .. n, k - 1 \in T PROVE k \in T
    <2>1. k - 1 \in Nat /\ k = (k - 1) + 1 /\ k \in 0 .. n /\ k - 1 \in 0 .. n
      OBVIOUS
    <2>2. pow(b, k) = pow(b, k - 1) * b
      BY <2>1, Pow
    <2>3. PICK p \in Nat \ {0} : p = pow(b, k - 1)
      BY <1>3, <2>1
    <2>4. p * b >= p
      BY SMTT(30)
    <2>5. PICK q \in Nat, r \in Nat : q = p * b /\ r = pow(b, m)
      BY <1>3
    <2>6. QED
      BY <1>5, <2>1, <2>2, <2>3, <2>4, <2>5
  <1>6. \A k \in 0 .. n : k \in T
    <2> HIDE DEF T
    <2>1. QED
      BY <1>4, <1>5, Upwards
  <1>7. QED
    BY <1>3, <1>6

\* The product of two powers.
LEMMA PowPlus ==
    ASSUME NEW b \in Nat, NEW m \in Nat, NEW n \in Nat
    PROVE  pow(b, m + n) = pow(b, m) * pow(b, n)
  <1> DEFINE R == {k \in Nat : pow(b, m + k) = pow(b, m) * pow(b, k)}
  <1>1. 0 \in R
    BY Pow
  <1>2. ASSUME NEW k \in 1 .. n, k - 1 \in R PROVE k \in R
    <2>1. k - 1 \in Nat /\ k = (k - 1) + 1 /\ m + (k - 1) \in Nat /\ m + k = (m + (k - 1)) + 1
      OBVIOUS
    <2>2. pow(b, k) = pow(b, k - 1) * b /\ pow(b, m + k) = pow(b, m + (k - 1)) * b
      BY <2>1, Pow
    <2>3. PICK p \in Nat, q \in Nat : p = pow(b, m) /\ q = pow(b, k - 1)
      BY <2>1, Pow
    <2>4. pow(b, m + (k - 1)) = p * q
      BY <1>2, <2>3
    <2>5. (p * q) * b = p * (q * b)
      BY SMTT(30)
    <2>6. QED
      BY <2>1, <2>2, <2>3, <2>4, <2>5
  <1>3. \A k \in 0 .. n : k \in R
    <2> HIDE DEF R
    <2>1. QED
      BY <1>1, <1>2, Upwards
  <1>4. QED
    BY <1>3

\* A word has two halves of HALF digits, whose first is a power less.
LEMMA Halves ==
    /\ Half \in Nat \ {0} /\ Half = pow(16, HALF)
    /\ Half = pow(16, HALF - 1) * 16 /\ pow(16, HALF - 1) \in Nat \ {0}
    /\ Half \div 16 = pow(16, HALF - 1)
    /\ Word \in Nat \ {0} /\ Word = Half * Half /\ Word = pow(16, 2 * HALF)
    /\ Half * 16 <= Word
  <1>1. HALF \in Nat \ {0} /\ HALF - 1 \in Nat /\ HALF = (HALF - 1) + 1 /\ 2 * HALF = HALF + HALF
    BY TextAssumption
  <1>2. Half = pow(16, HALF) /\ Word = Half * Half
    BY DEF Half, Word
  <1>3. Half \in Nat \ {0} /\ pow(16, HALF - 1) \in Nat \ {0}
    <2>1. 16 \in Nat \ {0} /\ HALF - 1 \in 0 .. HALF /\ HALF \in Nat
      BY <1>1
    <2>2. QED
      BY <1>2, <2>1, PowGrows
  <1>4. Half = pow(16, HALF - 1) * 16
    <2>1. 16 \in Nat
      OBVIOUS
    <2>2. pow(16, (HALF - 1) + 1) = pow(16, HALF - 1) * 16
      BY <1>1, <2>1, Pow
    <2>3. QED
      BY <1>1, <1>2, <2>2
  <1>5. Word = pow(16, 2 * HALF)
    <2>1. 16 \in Nat /\ HALF \in Nat
      BY <1>1
    <2>2. pow(16, HALF + HALF) = pow(16, HALF) * pow(16, HALF)
      BY <2>1, PowPlus, Zenon
    <2>3. QED
      BY <1>1, <1>2, <2>2
  <1>6. PICK p \in Nat \ {0}, h \in Nat \ {0} : p = pow(16, HALF - 1) /\ h = Half /\ h = p * 16
    BY <1>3, <1>4
  <1>7. Half \div 16 = p
    BY <1>6
  <1>8. h * h \in Nat \ {0} /\ h * 16 <= h * h
    <2>1. h * h \in Nat \ {0}
      BY SMTT(30)
    <2>2. 16 <= h /\ 16 \in Nat
      BY <1>6
    <2>3. 16 * h <= h * h
      BY <2>2, Grows
    <2>4. QED
      BY <2>1, <2>3
  <1>9. QED
    BY <1>2, <1>3, <1>4, <1>5, <1>6, <1>7, <1>8

-----------------------------------------------------------------------------
(***************************************************************************)
(* The digits of itoa.                                                     *)
(***************************************************************************)
Base == {10, 16}

\* C's quotient and remainder of a number that is not negative.
LEMMA QuotIs ==
    ASSUME NEW b \in Base, NEW v \in Nat
    PROVE  /\ Quot(v, b) = v \div b /\ Quot(v, b) \in Nat /\ Quot(v, b) <= v
           /\ v > 0 => Quot(v, b) < v
           /\ Rem(v, b) \in 0 .. b - 1 /\ v = Quot(v, b) * b + Rem(v, b)
  <1>1. Quot(v, b) = v \div b
    BY DEF Quot
  <1>2. CASE b = 10
    <2>1. /\ v \div 10 \in Nat /\ v \div 10 <= v /\ (v > 0 => v \div 10 < v)
          /\ v - 10 * (v \div 10) \in 0 .. 9 /\ v = (v \div 10) * 10 + (v - 10 * (v \div 10))
      BY SMTT(30)
    <2>2. QED
      BY <1>1, <1>2, <2>1 DEF Rem
  <1>3. CASE b = 16
    <2>1. /\ v \div 16 \in Nat /\ v \div 16 <= v /\ (v > 0 => v \div 16 < v)
          /\ v - 16 * (v \div 16) \in 0 .. 15 /\ v = (v \div 16) * 16 + (v - 16 * (v \div 16))
      BY SMTT(30)
    <2>2. QED
      BY <1>1, <1>3, <2>1 DEF Rem
  <1>4. QED
    BY <1>2, <1>3 DEF Base

\* A course of the loop of itoa.
Divides(f, v, b, n) ==
    f \in [0 .. n -> Nat] /\ f[0] = v /\ \A i \in 1 .. n : f[i] = Quot(f[i - 1], b)

\* After is the last value of the loop.
LEMMA AfterCourse ==
    ASSUME NEW b \in Base, NEW v \in Nat, NEW n \in Nat
    PROVE  \E f : Divides(f, v, b, n) /\ After(v, b, n) = f[n]
  <1> DEFINE body(h) == [i \in 0 .. n |-> IF i = 0 THEN v ELSE Quot(h[i - 1], b)]
  <1>1. PICK f : f = CHOOSE h : h = body(h)
    OBVIOUS
  <1>2. After(v, b, n) = f[n]
    BY <1>1 DEF After
  <1>3. \E h : h = body(h)
    <2>1. PICK step : step = [i \in 1 .. n |-> [y \in Nat |-> Quot(y, b)]]
      OBVIOUS
    <2>2. Turning(Nat, n, step)
      BY <2>1, QuotIs DEF Turning
    <2>3. PICK h \in [0 .. n -> Nat] : h[0] = v /\ \A i \in 1 .. n : h[i] = step[i][h[i - 1]]
      <3>1. PICK h : Runs(h, Nat, v, n, step)
        BY <2>2, Course, Zenon
      <3>2. QED
        BY <3>1 DEF Runs
    <2>4. ASSUME NEW i \in 1 .. n PROVE h[i] = Quot(h[i - 1], b)
      <3>1. h[i - 1] \in Nat
        <4>1. i - 1 \in 0 .. n
          OBVIOUS
        <4>2. QED
          BY <2>3, <4>1, Zenon
      <3>2. step[i][h[i - 1]] = Quot(h[i - 1], b)
        BY <2>1, <3>1
      <3>3. QED
        BY <2>3, <3>2
    <2>5. h = body(h)
      BY <2>3, <2>4
    <2>6. QED
      BY <2>5
  <1>4. f = body(f)
    BY <1>1, <1>3
  <1>5. f[0] = v /\ \A i \in 1 .. n : f[i] = Quot(f[i - 1], b)
    BY <1>4
  <1>6. f \in [0 .. n -> Nat]
    <2> DEFINE R == {k \in Nat : f[k] \in Nat}
    <2>1. 0 \in R
      BY <1>5
    <2>2. ASSUME NEW k \in 1 .. n, k - 1 \in R PROVE k \in R
      <3>1. f[k - 1] \in Nat /\ f[k] = Quot(f[k - 1], b)
        BY <1>5, <2>2
      <3>2. QED
        BY <3>1, QuotIs
    <2>3. \A k \in 0 .. n : k \in R
      <3> HIDE DEF R
      <3>1. QED
        BY <2>1, <2>2, Upwards
    <2>4. QED
      BY <1>4, <2>3
  <1>7. QED
    BY <1>2, <1>5, <1>6, Zenon DEF Divides

\* A turn more is a division more.
LEMMA AfterIs ==
    ASSUME NEW b \in Base, NEW v \in Nat
    PROVE  /\ After(v, b, 0) = v
           /\ \A n \in Nat : /\ After(v, b, n) \in Nat
                             /\ After(v, b, n + 1) = Quot(After(v, b, n), b)
  <1>1. After(v, b, 0) = v
    <2>1. \E f : Divides(f, v, b, 0) /\ After(v, b, 0) = f[0]
      BY 0 \in Nat, AfterCourse, Zenon
    <2>2. QED
      BY <2>1, Zenon DEF Divides
  <1>2. ASSUME NEW n \in Nat
        PROVE  After(v, b, n) \in Nat /\ After(v, b, n + 1) = Quot(After(v, b, n), b)
    <2>0. n + 1 \in Nat /\ n + 1 \in 1 .. n + 1 /\ (n + 1) - 1 = n /\ n \in 0 .. n
      OBVIOUS
    <2>1. PICK f : Divides(f, v, b, n) /\ After(v, b, n) = f[n]
      BY AfterCourse, Zenon
    <2>2. PICK h : Divides(h, v, b, n + 1) /\ After(v, b, n + 1) = h[n + 1]
      BY <2>0, AfterCourse, Zenon
    <2>3. \A i \in 1 .. n : h[i] = Quot(h[i - 1], b)
      BY <2>2 DEF Divides
    <2>4. \A i \in 0 .. n : f[i] = h[i]
      <3>1. SameTurns(f, h, n)
        BY <2>1, <2>2, <2>3 DEF SameTurns, Divides
      <3>2. QED
        BY <3>1, SameCourse
    <2>5. h[n + 1] = Quot(h[n], b)
      <3>1. h[n + 1] = Quot(h[(n + 1) - 1], b)
        BY <2>0, <2>2, Zenon DEF Divides
      <3>2. QED
        BY <2>0, <3>1, Zenon
    <2>6. f[n] \in Nat
      BY <2>0, <2>1, Zenon DEF Divides
    <2>7. QED
      BY <2>0, <2>1, <2>2, <2>4, <2>5, <2>6, Zenon
  <1>3. QED
    BY <1>1, <1>2

\* What one turn takes off.
LEMMA AfterStep ==
    ASSUME NEW b \in Base, NEW v \in Nat, NEW n \in Nat
    PROVE  /\ After(v, b, n) \in Nat /\ After(v, b, n + 1) \in Nat
           /\ After(v, b, n + 1) <= After(v, b, n)
           /\ After(v, b, n) > 0 => After(v, b, n + 1) < After(v, b, n)
           /\ Rem(After(v, b, n), b) \in 0 .. b - 1
           /\ After(v, b, n) = After(v, b, n + 1) * b + Rem(After(v, b, n), b)
  <1>1. PICK x \in Nat : x = After(v, b, n)
    BY AfterIs
  <1>2. After(v, b, n + 1) = Quot(x, b)
    BY <1>1, AfterIs
  <1>3. QED
    BY <1>1, <1>2, QuotIs

\* The value after m turns, up to the digits that were taken off.
LEMMA AfterBounds ==
    ASSUME NEW b \in Base, NEW v \in Nat, NEW m \in Nat
    PROVE  /\ After(v, b, m) * pow(b, m) <= v /\ v < (After(v, b, m) + 1) * pow(b, m)
           /\ After(v, b, m) <= v
  <1>0. b \in Nat \ {0}
    BY DEF Base
  <1> DEFINE R == {k \in Nat : /\ After(v, b, k) * pow(b, k) <= v
                               /\ v < (After(v, b, k) + 1) * pow(b, k)
                               /\ After(v, b, k) <= v}
  <1>1. 0 \in R
    <2>1. After(v, b, 0) = v /\ pow(b, 0) = 1
      BY <1>0, AfterIs, Pow
    <2>2. v * 1 <= v /\ v < (v + 1) * 1
      OBVIOUS
    <2>3. QED
      BY <2>1, <2>2
  <1>2. ASSUME NEW k \in 1 .. m, k - 1 \in R PROVE k \in R
    <2>1. k - 1 \in Nat /\ k = (k - 1) + 1
      OBVIOUS
    <2>2. pow(b, k) = pow(b, k - 1) * b /\ pow(b, k - 1) \in Nat
      BY <1>0, <2>1, Pow
    <2>3. PICK x \in Nat, y \in Nat, r \in 0 .. b - 1, p \in Nat :
             /\ x = After(v, b, k - 1) /\ y = After(v, b, k) /\ p = pow(b, k - 1)
             /\ x = y * b + r /\ y <= x
      <3>1. /\ After(v, b, k - 1) \in Nat /\ After(v, b, k) \in Nat
            /\ Rem(After(v, b, k - 1), b) \in 0 .. b - 1
            /\ After(v, b, k - 1) = After(v, b, k) * b + Rem(After(v, b, k - 1), b)
            /\ After(v, b, k) <= After(v, b, k - 1)
        BY <2>1, AfterStep
      <3>2. QED
        BY <2>2, <3>1
    <2>4. x * p <= v /\ v < (x + 1) * p /\ x <= v
      BY <1>2, <2>3
    <2>5. y * (p * b) <= x * p
      <3>1. y * b \in Nat /\ y * b <= x
        <4>1. PICK z \in Int : z = y * b
          BY <1>0
        <4>2. z \in Nat
          BY <1>0, <4>1, SMTT(30)
        <4>3. QED
          BY <2>3, <4>1, <4>2
      <3>2. (y * b) * p <= x * p
        BY <3>1, Grows
      <3>3. (y * b) * p = y * (p * b)
        BY <1>0, SMTT(30)
      <3>4. QED
        BY <3>2, <3>3
    <2>6. (x + 1) * p <= (y + 1) * (p * b)
      <3>1. (y + 1) * b = y * b + b /\ y * b \in Int
        BY <1>0, SMTT(30)
      <3>2. PICK z \in Int : z = y * b
        BY <3>1
      <3>3. x + 1 <= (y + 1) * b /\ (y + 1) * b \in Nat
        BY <1>0, <2>3, <3>1, <3>2
      <3>4. (x + 1) * p <= ((y + 1) * b) * p
        <4>1. PICK w \in Nat : w = (y + 1) * b
          BY <3>3
        <4>2. x + 1 \in Nat /\ x + 1 <= w
          BY <3>3, <4>1
        <4>3. (x + 1) * p <= w * p
          BY <4>2, Grows
        <4>4. QED
          BY <4>1, <4>3
      <3>5. ((y + 1) * b) * p = (y + 1) * (p * b)
        BY <1>0, SMTT(30)
      <3>6. QED
        BY <3>4, <3>5
    <2>7. PICK c \in Int, d \in Int, e \in Int, g \in Int :
             c = x * p /\ d = (x + 1) * p /\ e = y * (p * b) /\ g = (y + 1) * (p * b)
      BY <1>0
    <2>8. e <= v /\ v < g /\ y <= v
      BY <2>3, <2>4, <2>5, <2>6, <2>7
    <2>9. QED
      BY <2>2, <2>3, <2>7, <2>8
  <1>3. \A k \in 0 .. m : k \in R
    <2> HIDE DEF R
    <2>1. QED
      BY <1>1, <1>2, Upwards
  <1>4. m \in R
    BY <1>3
  <1>5. QED
    BY <1>4

\* Later values are not larger.
LEMMA AfterFalls ==
    ASSUME NEW b \in Base, NEW v \in Nat, NEW m \in Nat, NEW i \in 0 .. m
    PROVE  After(v, b, m) <= After(v, b, i)
  <1> DEFINE R == {k \in Nat : k >= i => After(v, b, k) <= After(v, b, i)}
  <1>1. 0 \in R
    <2>1. After(v, b, 0) \in Nat
      BY AfterIs
    <2>2. QED
      BY <2>1
  <1>2. ASSUME NEW k \in 1 .. m, k - 1 \in R PROVE k \in R
    <2>1. k - 1 \in Nat /\ k = (k - 1) + 1 /\ k \in Nat /\ i \in Nat
      OBVIOUS
    <2>2. PICK x \in Nat, y \in Nat, z \in Nat :
             x = After(v, b, k - 1) /\ y = After(v, b, k) /\ z = After(v, b, i) /\ y <= x
      <3>1. After(v, b, k - 1) \in Nat /\ After(v, b, k) \in Nat /\ After(v, b, k) <= After(v, b, k - 1)
        BY <2>1, AfterStep
      <3>2. After(v, b, i) \in Nat
        BY <2>1, AfterIs
      <3>3. QED
        BY <3>1, <3>2
    <2>3. CASE k = i
      BY <2>1, <2>2, <2>3
    <2>4. CASE k # i
      <3>1. k >= i => x <= z
        BY <1>2, <2>1, <2>2, <2>4
      <3>2. QED
        BY <2>1, <2>2, <3>1
    <2>5. QED
      BY <2>3, <2>4
  <1>3. \A k \in 0 .. m : k \in R
    <2> HIDE DEF R
    <2>1. QED
      BY <1>1, <1>2, Upwards
  <1>4. m \in R
    BY <1>3
  <1>5. QED
    BY <1>4

\* The loop ends, with the last digit that is not zero.
LEMMA TurnsIs ==
    ASSUME NEW b \in Base, NEW v \in Nat
    PROVE  /\ Turns(v, b) \in Nat \ {0} /\ After(v, b, Turns(v, b)) = 0
           /\ \A i \in 1 .. Turns(v, b) - 1 : After(v, b, i) # 0
  <1> DEFINE P(n) == After(v, b, n) = 0 /\ \A i \in 1 .. n - 1 : After(v, b, i) # 0
  <1>1. Turns(v, b) = CHOOSE n \in 1 .. v + 1 : P(n)
    BY DEF Turns
  <1>2. \E n \in 1 .. v + 1 : P(n)
    <2> DEFINE R == {k \in Nat : After(v, b, k) = 0 \/ After(v, b, k) + k <= v}
    <2>1. 0 \in R
      BY AfterIs
    <2>2. ASSUME NEW k \in 1 .. v + 1, k - 1 \in R PROVE k \in R
      <3>1. k - 1 \in Nat /\ k = (k - 1) + 1 /\ k \in Nat
        OBVIOUS
      <3>2. PICK x \in Nat, y \in Nat :
               /\ x = After(v, b, k - 1) /\ y = After(v, b, k) /\ y <= x /\ (x > 0 => y < x)
        BY <3>1, AfterStep
      <3>3. x = 0 \/ x + (k - 1) <= v
        BY <2>2, <3>2
      <3>4. y = 0 \/ y + k <= v
        BY <3>1, <3>2, <3>3
      <3>5. QED
        BY <3>1, <3>2, <3>4
    <2>3. \A k \in 0 .. v + 1 : k \in R
      <3>1. v + 1 \in Nat
        OBVIOUS
      <3> HIDE DEF R
      <3>2. QED
        BY <2>1, <2>2, <3>1, Upwards
    <2>4. After(v, b, v + 1) = 0
      <3>1. v + 1 \in R /\ After(v, b, v + 1) \in Nat
        BY <2>3, v + 1 \in Nat, AfterIs
      <3>2. QED
        BY <3>1
    <2> DEFINE S == {k \in Nat : k >= 1 /\ After(v, b, k) = 0}
    <2>5. PICK n \in S : \A k \in S : n <= k
      <3>1. S \in SUBSET Nat /\ v + 1 \in S
        BY <2>4
      <3>2. QED
        BY <3>1, Least
    <2>6. n \in 1 .. v + 1 /\ P(n)
      <3>1. v + 1 \in S
        BY <2>4
      <3>2. n \in 1 .. v + 1
        BY <2>5, <3>1
      <3>3. ASSUME NEW i \in 1 .. n - 1 PROVE After(v, b, i) # 0
        BY <2>5
      <3>4. QED
        BY <2>5, <3>2, <3>3
    <2>7. QED
      BY <2>6
  <1> HIDE DEF P
  <1>3. Turns(v, b) \in 1 .. v + 1 /\ P(Turns(v, b))
    BY <1>1, <1>2, Zenon
  <1>4. QED
    BY <1>3 DEF P

\* The text t is that of the digits of v.
Spells(t, v, b) ==
    /\ t \in Seq(48 .. 57 \cup 97 .. 102) /\ Len(t) = Turns(v, b)
    /\ \A j \in 1 .. Len(t) : t[j] = Digit(Rem(After(v, b, Len(t) - j), b))

\* What the loop of itoa writes, and strrev turns around.
LEMMA LoopSpells ==
    ASSUME NEW b \in Base, NEW v \in Nat
    PROVE  Spells(itoa_loop(v, b), v, b)
  <1>1. PICK n \in Nat \ {0} : n = Turns(v, b)
    BY TurnsIs
  <1>2. PICK s : s = [i \in 1 .. n |-> Digit(Rem(After(v, b, i - 1), b))]
    OBVIOUS
  <1>3. ASSUME NEW i \in 1 .. n
        PROVE  Digit(Rem(After(v, b, i - 1), b)) \in 48 .. 57 \cup 97 .. 102
    <2>1. i - 1 \in Nat
      OBVIOUS
    <2>2. Rem(After(v, b, i - 1), b) \in 0 .. b - 1
      BY <2>1, AfterStep
    <2>3. PICK d \in 0 .. 15 : d = Rem(After(v, b, i - 1), b)
      BY <2>2 DEF Base
    <2>4. QED
      BY <2>3 DEF Digit
  <1>4. s \in Seq(48 .. 57 \cup 97 .. 102) /\ Len(s) = n
    BY <1>2, <1>3
  <1>5. itoa_loop(v, b) = strrev(<< >> \o s)
    <2>1. Stored(v, b) = s
      BY <1>1, <1>2, Zenon DEF Stored
    <2>2. ~(v < 0)
      OBVIOUS
    <2>3. QED
      BY <2>1, <2>2, Zenon DEF itoa_loop
  <1>6. << >> \o s = s
    BY <1>4
  <1>7. PICK t : t = [i \in 1 .. n |-> s[(n - i) + 1]]
    OBVIOUS
  <1>8. itoa_loop(v, b) = t
    BY <1>4, <1>5, <1>6, <1>7 DEF strrev, Reverse
  <1>9. t \in Seq(48 .. 57 \cup 97 .. 102) /\ Len(t) = n
    <2>1. \A i \in 1 .. n : (n - i) + 1 \in 1 .. n
      OBVIOUS
    <2>2. \A i \in 1 .. n : t[i] \in 48 .. 57 \cup 97 .. 102
      BY <1>2, <1>3, <1>7, <2>1
    <2>3. QED
      BY <1>7, <2>2
  <1>10. ASSUME NEW j \in 1 .. n PROVE t[j] = Digit(Rem(After(v, b, n - j), b))
    <2>1. (n - j) + 1 \in 1 .. n /\ ((n - j) + 1) - 1 = n - j
      OBVIOUS
    <2>2. QED
      BY <1>2, <1>7, <2>1
  <1>11. QED
    BY <1>1, <1>8, <1>9, <1>10 DEF Spells

-----------------------------------------------------------------------------
(***************************************************************************)
(* Reading hexadecimal text.                                               *)
(***************************************************************************)

\* A digit reads back.
LEMMA DigitBack ==
    ASSUME NEW d \in 0 .. 15
    PROVE  Digit(d) \in Nat /\ HexDigit(Digit(d)) = d /\ (d < 10 => Digit(d) - 48 = d)
  <1>1. CASE d < 10
    <2>1. Digit(d) = d + 48
      BY <1>1 DEF Digit
    <2>2. PICK c \in Nat : c = d + 48 /\ c \in 48 .. 57 /\ c - 48 = d
      BY <1>1
    <2>3. HexDigit(c) = (c - 48) % 16
      BY <2>2 DEF HexDigit
    <2>4. d % 16 = d
      BY SMTT(30)
    <2>5. QED
      BY <2>1, <2>2, <2>3, <2>4
  <1>2. CASE ~(d < 10)
    <2>1. Digit(d) = d - 10 + 97
      BY <1>2 DEF Digit
    <2>2. PICK c \in Nat : c = d - 10 + 97 /\ c \in 97 .. 102 /\ c \notin 48 .. 57 /\ c - 97 + 10 = d
      BY <1>2
    <2>3. HexDigit(c) = (c - 97 + 10) % 16
      BY <2>2 DEF HexDigit
    <2>4. d % 16 = d
      BY SMTT(30)
    <2>5. QED
      BY <1>2, <2>1, <2>2, <2>3, <2>4
  <1>3. QED
    BY <1>1, <1>2

\* Every character counts as a digit.
LEMMA HexDigitIs ==
    ASSUME NEW c \in Nat
    PROVE  HexDigit(c) \in 0 .. 15
  <1>1. PICK e \in Int : HexDigit(c) = e % 16
    <2>1. (IF c \in 48 .. 57 THEN c - 48 ELSE IF c \in 97 .. 102 THEN c - 97 + 10 ELSE c) \in Int
      OBVIOUS
    <2>2. QED
      BY <2>1, Zenon DEF HexDigit
  <1>2. QED
    BY <1>1

\* A course of the loop of hex2int.
Reads(f, s) ==
    /\ f \in [0 .. Len(s) -> Nat] /\ f[0] = 0
    /\ \A i \in 1 .. Len(s) : f[i] = (f[i - 1] * 16 + HexDigit(s[i])) % Word

\* hex2int returns the last value of its loop.
LEMMA HexCourse ==
    ASSUME NEW s \in Seq(Nat)
    PROVE  \E f : Reads(f, s) /\ hex2int(s) = f[Len(s)]
  <1> DEFINE n == Len(s)
  <1> DEFINE body(h) == [i \in 0 .. n |-> IF i = 0 THEN 0 ELSE (h[i - 1] * 16 + HexDigit(s[i])) % Word]
  <1>0. n \in Nat /\ Word \in Nat \ {0}
    BY Halves
  <1>1. PICK f : f = CHOOSE h : h = body(h)
    OBVIOUS
  <1>2. hex2int(s) = f[n]
    BY <1>1 DEF hex2int
  <1>7. ASSUME NEW y \in Nat, NEW i \in 1 .. n
        PROVE  (y * 16 + HexDigit(s[i])) % Word \in Nat
    <2>1. HexDigit(s[i]) \in 0 .. 15
      BY HexDigitIs, SMTT(60)
    <2>2. PICK e \in 0 .. 15, a \in Int : e = HexDigit(s[i]) /\ a = y * 16 + e
      BY <2>1
    <2>3. a % Word \in 0 .. Word - 1
      BY <1>0
    <2>4. QED
      BY <1>0, <2>2, <2>3
  <1>3. \E h : h = body(h)
    <2>1. PICK step : step = [i \in 1 .. n |-> [y \in Nat |-> (y * 16 + HexDigit(s[i])) % Word]]
      OBVIOUS
    <2>2. Turning(Nat, n, step)
      BY <1>7, <2>1, Zenon DEF Turning
    <2>3. PICK h \in [0 .. n -> Nat] : h[0] = 0 /\ \A i \in 1 .. n : h[i] = step[i][h[i - 1]]
      <3>1. PICK h : Runs(h, Nat, 0, n, step)
        BY <1>0, <2>2, 0 \in Nat, Course, Zenon
      <3>2. QED
        BY <3>1 DEF Runs
    <2>4. ASSUME NEW i \in 1 .. n PROVE h[i] = (h[i - 1] * 16 + HexDigit(s[i])) % Word
      <3>1. h[i - 1] \in Nat
        <4>1. i - 1 \in 0 .. n
          OBVIOUS
        <4>2. QED
          BY <2>3, <4>1, Zenon
      <3>2. step[i][h[i - 1]] = (h[i - 1] * 16 + HexDigit(s[i])) % Word
        BY <2>1, <3>1
      <3>3. QED
        BY <2>3, <3>2
    <2>5. h = body(h)
      BY <2>3, <2>4
    <2>6. QED
      BY <2>5
  <1>4. f = body(f)
    BY <1>1, <1>3
  <1>5. f[0] = 0 /\ \A i \in 1 .. n : f[i] = (f[i - 1] * 16 + HexDigit(s[i])) % Word
    <2>1. 0 \in 0 .. n /\ \A i \in 1 .. n : i \in 0 .. n /\ i # 0
      BY <1>0
    <2>2. \A i \in 0 .. n : f[i] = IF i = 0 THEN 0 ELSE (f[i - 1] * 16 + HexDigit(s[i])) % Word
      BY <1>4, Zenon
    <2>3. QED
      BY <2>1, <2>2, Zenon
  <1>6. f \in [0 .. n -> Nat]
    <2> DEFINE R == {k \in Nat : f[k] \in Nat}
    <2>1. 0 \in R
      BY <1>5
    <2>2. ASSUME NEW k \in 1 .. n, k - 1 \in R PROVE k \in R
      <3>1. f[k - 1] \in Nat /\ f[k] = (f[k - 1] * 16 + HexDigit(s[k])) % Word
        BY <1>5, <2>2
      <3>2. QED
        BY <1>7, <3>1
    <2>3. \A k \in 0 .. n : k \in R
      <3> HIDE DEF R
      <3>1. QED
        BY <1>0, <2>1, <2>2, Upwards
    <2>4. QED
      BY <1>4, <2>3
  <1>8. QED
    BY <1>2, <1>5, <1>6 DEF Reads

\* Zeros in front are nothing.
ZerosFirst(s, k) == k \in 0 .. Len(s) /\ \A i \in 1 .. k : s[i] = 48

\* The value is still 0 behind them.
LEMMA ReadsZeros ==
    ASSUME NEW s \in Seq(Nat), NEW f, Reads(f, s), NEW k \in Nat, ZerosFirst(s, k)
    PROVE  f[k] = 0
  <1> DEFINE R == {i \in Nat : f[i] = 0}
  <1>1. 0 \in R
    BY DEF Reads
  <1>2. ASSUME NEW i \in 1 .. k, i - 1 \in R PROVE i \in R
    <2>1. i \in 1 .. Len(s) /\ f[i - 1] = 0 /\ s[i] = 48
      BY <1>2 DEF ZerosFirst
    <2>2. f[i] = (0 * 16 + HexDigit(48)) % Word
      BY <2>1 DEF Reads
    <2>3. HexDigit(48) = 0
      BY DEF HexDigit
    <2>4. 0 % Word = 0
      <3>1. PICK w \in Nat \ {0} : w = Word
        BY Halves
      <3>2. 0 \in 0 .. w - 1 /\ 0 = 0 * w + 0
        OBVIOUS
      <3>3. QED
        BY <3>1, <3>2, DivUnique
    <2>5. QED
      BY <2>2, <2>3, <2>4
  <1>3. \A i \in 0 .. k : i \in R
    <2> HIDE DEF R
    <2>1. k \in Nat
      OBVIOUS
    <2>2. QED
      BY <1>1, <1>2, <2>1, Upwards
  <1>4. QED
    BY <1>3

\* From place p on, the n characters of s are the last digits of v.
Shows(s, p, n, v, b) ==
    /\ p + n <= Len(s)
    /\ \A j \in 1 .. n : s[p + j] = Digit(Rem(After(v, b, n - j), b))

\* What is read of a number in the middle of a text.
Fits(f, p, n, v) == f[p] * pow(16, n) + v < Word

Arrives(f, p, n, v) == f[p + n] = f[p] * pow(16, n) + v

\* By induction over the digits: what was read before moves up a place with each.
LEMMA Reading ==
    ASSUME NEW s \in Seq(Nat), NEW f, Reads(f, s), NEW p \in Nat, NEW n \in Nat, NEW v \in Nat,
           Shows(s, p, n, v, 16), After(v, 16, n) = 0, Fits(f, p, n, v)
    PROVE  Arrives(f, p, n, v)
  <1>0. 16 \in Base /\ 16 \in Nat /\ 16 \in Nat \ {0} /\ Word \in Nat \ {0}
    BY Halves DEF Base
  <1>1. PICK x \in Nat : x = f[p]
    <2>1. p \in 0 .. Len(s)
      BY DEF Shows
    <2>2. QED
      BY <2>1 DEF Reads
  <1> DEFINE R == {j \in Nat : f[p + j] = x * pow(16, j) + After(v, 16, n - j)}
  <1>2. 0 \in R
    <2>1. pow(16, 0) = 1 /\ n - 0 = n /\ p + 0 = p
      BY <1>0, Pow
    <2>2. QED
      BY <1>1, <2>1
  <1>3. ASSUME NEW j \in 1 .. n, j - 1 \in R PROVE j \in R
    <2>1. /\ p + j \in 1 .. Len(s) /\ (p + j) - 1 = p + (j - 1) /\ n - j \in Nat
          /\ n - (j - 1) = (n - j) + 1 /\ j - 1 \in Nat /\ j = (j - 1) + 1 /\ j \in 0 .. n
      BY DEF Shows
    <2>2. PICK y \in Nat, z \in Nat, r \in 0 .. 15 :
             /\ y = After(v, 16, n - j) /\ z = After(v, 16, n - (j - 1))
             /\ r = Rem(After(v, 16, n - j), 16) /\ y = z * 16 + r
      <3>1. /\ After(v, 16, n - j) \in Nat /\ After(v, 16, (n - j) + 1) \in Nat
            /\ Rem(After(v, 16, n - j), 16) \in 0 .. 16 - 1
            /\ After(v, 16, n - j) = After(v, 16, (n - j) + 1) * 16 + Rem(After(v, 16, n - j), 16)
        BY <1>0, <2>1, AfterStep, Zenon
      <3>2. After(v, 16, n - (j - 1)) = After(v, 16, (n - j) + 1)
        BY <2>1, Zenon
      <3>3. PICK y \in Nat, z \in Nat, r \in 0 .. 16 - 1 :
               y = After(v, 16, n - j) /\ z = After(v, 16, (n - j) + 1) /\ r = Rem(After(v, 16, n - j), 16)
        BY <3>1, Zenon
      <3>4. r \in 0 .. 15 /\ y = z * 16 + r
        BY <3>1, <3>3
      <3>5. QED
        BY <3>2, <3>3, <3>4, Zenon
    <2>3. HexDigit(s[p + j]) = r
      BY <2>2, DigitBack DEF Shows
    <2>4. PICK q \in Nat, t \in Nat :
             q = pow(16, j - 1) /\ t = pow(16, n) /\ pow(16, j) = q * 16 /\ pow(16, j) <= t
      <3>1. pow(16, j) <= pow(16, n)
        BY <1>0, <2>1, PowGrows
      <3>2. pow(16, j - 1) \in Nat /\ pow(16, (j - 1) + 1) = pow(16, j - 1) * 16 /\ pow(16, n) \in Nat
        BY <1>0, <2>1, Pow
      <3>3. QED
        BY <2>1, <3>1, <3>2
    <2>5. f[p + (j - 1)] = x * q + z
      BY <1>3, <2>2, <2>4
    <2>6. f[p + j] = (f[p + (j - 1)] * 16 + r) % Word
      BY <2>1, <2>3 DEF Reads
    <2>7. (x * q + z) * 16 + r = x * (q * 16) + y
      <3>1. PICK c \in Int : c = x * q
        OBVIOUS
      <3>2. x * (q * 16) = c * 16
        BY <3>1, SMTT(30)
      <3>3. QED
        BY <2>2, <3>1, <3>2, SMTT(60)
    <2>8. x * (q * 16) + y \in 0 .. Word - 1
      <3>1. y <= v
        BY <1>0, <2>1, <2>2, AfterBounds, SMTT(60)
      <3>2. PICK g \in Nat : g = q * 16 /\ g <= t
        BY <2>4
      <3>3. g * x \in Nat /\ t * x \in Nat /\ g * x <= t * x
        BY <3>2, Grows
      <3>4. g * x = x * g /\ t * x = x * t
        BY SMTT(30)
      <3>5. PICK c \in Nat, d \in Nat : c = x * g /\ d = x * t /\ c <= d
        BY <3>3, <3>4
      <3>6. d + v < Word
        BY <1>1, <2>4, <3>5 DEF Fits
      <3>7. QED
        BY <1>0, <3>1, <3>2, <3>5, <3>6
    <2>9. PICK w \in Nat \ {0}, a \in Nat : w = Word /\ a = x * (q * 16) + y /\ a \in 0 .. w - 1
      BY <1>0, <2>8
    <2>10. a % w = a
      <3>1. 0 \in Int /\ a = 0 * w + a /\ a \in Int
        OBVIOUS
      <3>2. QED
        BY <2>9, <3>1, DivUnique
    <2>11. f[p + j] = a
      BY <2>5, <2>6, <2>7, <2>9, <2>10
    <2>12. QED
      BY <2>1, <2>2, <2>4, <2>9, <2>11
  <1>4. \A j \in 0 .. n : j \in R
    <2> HIDE DEF R
    <2>1. QED
      BY <1>2, <1>3, Upwards
  <1>5. n \in R
    BY <1>4
  <1>6. After(v, 16, n - n) = v
    BY <1>0, AfterIs
  <1>7. QED
    BY <1>1, <1>5, <1>6 DEF Arrives

\* How many digits a number has.
LEMMA TurnsAtMost ==
    ASSUME NEW b \in Base, NEW v \in Nat, NEW k \in Nat \ {0}, v < pow(b, k)
    PROVE  Turns(v, b) <= k
  <1>0. b \in Nat \ {0} /\ k \in 0 .. k /\ k \in Nat
    BY DEF Base
  <1>1. PICK p \in Nat \ {0}, a \in Nat : p = pow(b, k) /\ a = After(v, b, k) /\ a * p <= v
    <2>1. pow(b, k) \in Nat \ {0}
      BY <1>0, PowGrows
    <2>2. After(v, b, k) \in Nat
      BY <1>0, AfterIs
    <2>3. QED
      BY <1>0, <2>1, <2>2, AfterBounds
  <1>2. a = 0
    <2>1. CASE a >= 1
      <3>1. 1 * p <= a * p
        BY <2>1, Grows
      <3>2. QED
        BY <1>1, <3>1
    <2>2. QED
      BY <2>1
  <1>3. PICK n \in Nat \ {0} : n = Turns(v, b) /\ \A i \in 1 .. n - 1 : After(v, b, i) # 0
    BY TurnsIs
  <1>4. k \notin 1 .. n - 1
    BY <1>1, <1>2, <1>3
  <1>5. QED
    BY <1>3, <1>4

\* A number that reaches a power has a digit for it.
LEMMA TurnsAtLeast ==
    ASSUME NEW b \in Base, NEW v \in Nat, NEW k \in Nat \ {0}, v >= pow(b, k - 1)
    PROVE  Turns(v, b) >= k
  <1>0. b \in Nat \ {0} /\ k - 1 \in 0 .. k /\ k \in Nat /\ k - 1 \in Nat
    BY DEF Base
  <1>1. PICK p \in Nat \ {0}, a \in Nat : p = pow(b, k - 1) /\ a = After(v, b, k - 1) /\ v < (a + 1) * p
    <2>1. pow(b, k - 1) \in Nat \ {0}
      BY <1>0, PowGrows
    <2>2. After(v, b, k - 1) \in Nat
      BY <1>0, AfterIs
    <2>3. QED
      BY <1>0, <2>1, <2>2, AfterBounds
  <1>2. a # 0
    BY <1>1
  <1>3. PICK n \in Nat \ {0} : n = Turns(v, b) /\ After(v, b, n) = 0
    BY TurnsIs
  <1>4. CASE n <= k - 1
    <2>1. n \in 0 .. k - 1
      BY <1>4
    <2>2. After(v, b, k - 1) <= After(v, b, n)
      BY <1>0, <2>1, AfterFalls
    <2>3. QED
      BY <1>1, <1>2, <1>3, <2>2
  <1>5. QED
    BY <1>0, <1>3, <1>4

\* A number's text, within a longer text.
Within(t, s, p) == p + Len(t) <= Len(s) /\ \A j \in 1 .. Len(t) : s[p + j] = t[j]

\* It shows all the digits of the number, which leaves nothing.
LEMMA SpellsShows ==
    ASSUME NEW b \in Base, NEW v \in Nat, NEW t, Spells(t, v, b), NEW s, NEW p \in Nat,
           Within(t, s, p)
    PROVE  Shows(s, p, Len(t), v, b) /\ After(v, b, Len(t)) = 0
  <1>1. \A j \in 1 .. Len(t) : s[p + j] = Digit(Rem(After(v, b, Len(t) - j), b))
    BY DEF Spells, Within
  <1>2. QED
    BY <1>1, TurnsIs DEF Shows, Spells, Within

\* Words as signed numbers.
LEMMA Signs ==
    ASSUME NEW u \in 0 .. Word - 1
    PROVE  /\ Signed(u) \in Int /\ Unsigned(Signed(u)) = u
           /\ u < Word \div 2 => Signed(u) = u /\ u \in Nat
           /\ ~(u < Word \div 2) => Signed(u) < 0
           /\ Signed(u) >= 0 => u < Word \div 2
  <1>1. PICK w \in Nat \ {0}, h \in Nat : w = Word /\ h = Word \div 2
    <2>1. Word \in Nat \ {0}
      BY Halves
    <2>2. Word \div 2 \in Nat
      BY <2>1
    <2>3. QED
      BY <2>1, <2>2
  <1>2. u \in Nat /\ u \in 0 .. w - 1
    BY <1>1
  <1>3. CASE u < h
    <2>1. Signed(u) = u
      BY <1>1, <1>2, <1>3 DEF Signed
    <2>2. u = 0 * w + u /\ 0 \in Int
      BY <1>2
    <2>3. u % w = u
      BY <1>2, <2>2, DivUnique
    <2>4. QED
      BY <1>1, <1>2, <1>3, <2>1, <2>3 DEF Unsigned
  <1>4. CASE ~(u < h)
    <2>1. Signed(u) = u - w
      BY <1>1, <1>2, <1>4 DEF Signed
    <2>2. u - w = (-1) * w + u /\ -1 \in Int /\ u - w \in Int
      BY <1>2
    <2>3. (u - w) % w = u
      BY <1>2, <2>2, DivUnique
    <2>4. QED
      BY <1>1, <1>2, <1>4, <2>1, <2>3 DEF Unsigned
  <1>5. QED
    BY <1>3, <1>4

\* A text followed by another.
Follows(s, a, c) ==
    /\ Len(s) = Len(a) + Len(c)
    /\ \A i \in 1 .. Len(a) : s[i] = a[i]
    /\ \A j \in 1 .. Len(c) : s[Len(a) + j] = c[j]

\* The characters of two texts, one after the other.
LEMMA Joined ==
    ASSUME NEW S, NEW a \in Seq(S), NEW c \in Seq(S)
    PROVE  a \o c \in Seq(S) /\ Follows(a \o c, a, c)
  <1>0. PICK s : s = a \o c
    OBVIOUS
  <1>1. PICK m \in Nat, n \in Nat : m = Len(a) /\ n = Len(c)
    OBVIOUS
  <1>2. /\ s \in Seq(S) /\ Len(s) = m + n
        /\ \A i \in 1 .. m + n : s[i] = IF i <= m THEN a[i] ELSE c[i - m]
    BY <1>0, <1>1, ConcatProperties, Zenon
  <1>3. \A i \in 1 .. m : s[i] = a[i]
    BY <1>2
  <1>4. ASSUME NEW j \in 1 .. n PROVE s[m + j] = c[j]
    <2>1. m + j \in 1 .. m + n /\ ~(m + j <= m) /\ (m + j) - m = j
      OBVIOUS
    <2>2. QED
      BY <1>2, <2>1
  <1>5. QED
    BY <1>0, <1>1, <1>2, <1>3, <1>4, Zenon DEF Follows

\* Zeros make it 2 * HALF characters.
Padded(s, hex) == s = Zeros(IF Len(hex) < 2 * HALF THEN 2 * HALF - Len(hex) ELSE 0) \o hex

Filled(s, hex, k) ==
    /\ s \in Seq(Nat) /\ Len(s) = 2 * HALF /\ k \in Nat /\ k + Len(hex) = 2 * HALF
    /\ ZerosFirst(s, k) /\ Within(hex, s, k)

\* The text of a slot {a}: zeros in front, the number behind.
LEMMA Padding ==
    ASSUME NEW hex \in Seq(Nat), Len(hex) <= 2 * HALF, NEW s, Padded(s, hex)
    PROVE  \E k \in Nat : Filled(s, hex, k)
  <1>1. PICK n \in Nat, m \in Nat : n = Len(hex) /\ m = 2 * HALF /\ n <= m
    BY TextAssumption
  <1>2. PICK k \in Nat : k = m - n
    BY <1>1
  <1>3. (IF Len(hex) < 2 * HALF THEN 2 * HALF - Len(hex) ELSE 0) = k
    BY <1>1, <1>2
  <1>4. PICK z : z = Zeros(k)
    OBVIOUS
  <1>5. z \in Seq(Nat) /\ Len(z) = k /\ \A i \in 1 .. k : z[i] = 48
    BY <1>4 DEF Zeros
  <1>6. s = z \o hex
    BY <1>3, <1>4, Zenon DEF Padded
  <1>7. s \in Seq(Nat) /\ Follows(s, z, hex)
    <2>1. z \in Seq(Nat)
      BY <1>5
    <2>2. z \o hex \in Seq(Nat) /\ Follows(z \o hex, z, hex)
      BY <2>1, Joined, Zenon
    <2>3. QED
      BY <1>6, <2>2, Zenon
  <1>8. Len(s) = k + n /\ k + n = m /\ k \in 0 .. m
    BY <1>1, <1>2, <1>5, <1>7, SMTT(60) DEF Follows
  <1>9. ZerosFirst(s, k)
    <2>1. \A i \in 1 .. k : s[i] = z[i]
      BY <1>5, <1>7 DEF Follows
    <2>2. QED
      BY <1>5, <1>8, <2>1 DEF ZerosFirst
  <1>10. Within(hex, s, k)
    <2>1. \A j \in 1 .. Len(hex) : s[k + j] = hex[j]
      BY <1>5, <1>7 DEF Follows
    <2>2. QED
      BY <1>1, <1>8, <2>1 DEF Within
  <1>11. QED
    BY <1>1, <1>7, <1>8, <1>9, <1>10 DEF Filled

\* A text of digits is a text of characters.
LEMMA SpellsTyped ==
    ASSUME NEW b \in Base, NEW v \in Nat, NEW t, Spells(t, v, b)
    PROVE  t \in Seq(Nat) /\ Len(t) = Turns(v, b) /\ Len(t) \in Nat \ {0}
  <1>1. t \in Seq(48 .. 57 \cup 97 .. 102) /\ Len(t) = Turns(v, b)
    BY DEF Spells
  <1>2. t \in Seq(Nat)
    BY <1>1, SMTT(60)
  <1>3. QED
    BY <1>1, <1>2, TurnsIs

\* The text of an address in the lower half of the address space.
LEMMA LowText ==
    ASSUME NEW u \in Nat, u < Word, NEW hex, Spells(hex, u, 16), NEW s, Padded(s, hex)
    PROVE  Len(s) = 2 * HALF /\ hex2int(s) = u
  <1>0. 16 \in Base /\ 16 \in Nat /\ 16 \in Nat \ {0} /\ 2 * HALF \in Nat \ {0} /\ Word = pow(16, 2 * HALF)
    BY Halves, TextAssumption DEF Base
  <1>1. PICK n \in Nat \ {0} : n = Len(hex) /\ n = Turns(u, 16)
    BY <1>0, SpellsTyped
  <1>2. hex \in Seq(Nat) /\ n <= 2 * HALF
    BY <1>0, <1>1, SpellsTyped, TurnsAtMost
  <1>3. PICK k \in Nat : Filled(s, hex, k)
    BY <1>1, <1>2, Padding, Zenon
  <1>4. s \in Seq(Nat) /\ Len(s) = 2 * HALF /\ k + n = 2 * HALF /\ ZerosFirst(s, k) /\ Within(hex, s, k)
    BY <1>1, <1>3 DEF Filled
  <1>5. PICK f : Reads(f, s) /\ hex2int(s) = f[Len(s)]
    BY <1>4, HexCourse, Zenon
  <1>6. f[k] = 0
    BY <1>4, <1>5, ReadsZeros, Zenon
  <1>7. Shows(s, k, n, u, 16) /\ After(u, 16, n) = 0
    BY <1>0, <1>1, <1>4, SpellsShows, ZenonT(60)
  <1>8. PICK p \in Nat : p = pow(16, n)
    BY <1>0, Pow
  <1>9. f[k] * pow(16, n) + u = u
    BY <1>6, <1>8
  <1>10. Fits(f, k, n, u)
    BY <1>9 DEF Fits
  <1>11. Arrives(f, k, n, u)
    <2>1. n \in Nat
      OBVIOUS
    <2>2. QED
      BY <1>4, <1>5, <1>7, <1>10, <2>1, Reading, Zenon
  <1>12. QED
    BY <1>4, <1>5, <1>9, <1>11, Zenon DEF Arrives

\* The text of one in the upper half: each half has HALF digits, the lower one
\* without the zeros in front.
TwoHalves(hex, u) == hex = itoa_loop(u \div Half, 16) \o itoa_loop(u % Half, 16)

\* The two halves, read one after the other.
LEMMA HighText ==
    ASSUME NEW u \in 0 .. Word - 1, ~(u < Word \div 2), NEW hex, NEW s,
           TwoHalves(hex, u), Padded(s, hex)
    PROVE  Len(s) = 2 * HALF /\ (u % Half >= Half \div 16 => hex2int(s) = u)
  <1>0. 16 \in Base /\ 16 \in Nat /\ 16 \in Nat \ {0} /\ HALF \in Nat \ {0} /\ 2 * HALF = HALF + HALF
    BY TextAssumption DEF Base
  <1>1. PICK h \in Nat \ {0}, w \in Nat \ {0}, p \in Nat \ {0} :
           h = Half /\ w = Word /\ p = pow(16, HALF - 1) /\ w = h * h /\ h = p * 16 /\ Half \div 16 = p
    BY Halves
  <1>2. PICK q \in Int, r \in 0 .. h - 1 : q = u \div h /\ r = u % h /\ u = q * h + r
    <2>1. u \in Int
      OBVIOUS
    <2>2. QED
      BY <2>1, DivMod, Zenon
  <1>3. q \in Nat /\ q < h /\ q >= p
    <2>1. u \in 0 .. w - 1
      BY <1>1
    <2>2. CASE q >= h
      <3>1. q \in Nat
        BY <2>2
      <3>2. h * h <= q * h
        BY <2>2, <3>1, Grows
      <3>3. PICK a \in Int, c \in Int : a = h * h /\ c = q * h
        OBVIOUS
      <3>4. QED
        BY <1>1, <1>2, <2>1, <3>2, <3>3
    <2>3. CASE q < p
      <3>1. u >= w \div 2
        BY <1>1, <2>1
      <3>2. PICK e \in Nat : e = h * p /\ w = e * 16 /\ w \div 2 = e * 8
        <4>1. h * p \in Nat
          BY SMTT(30)
        <4>2. PICK e \in Nat : e = h * p
          BY <4>1
        <4>3. w = e * 16
          <5>1. h * (p * 16) = (h * p) * 16
            BY SMTT(30)
          <5>2. QED
            BY <1>1, <4>2, <5>1
        <4>4. QED
          BY <4>2, <4>3
      <3>3. q * h <= e - h
        <4>1. q <= p - 1
          BY <2>3
        <4>2. (p - 1) * h = e - h
          BY <3>2, SMTT(30)
        <4>3. CASE q >= 0
          <5>1. q * h <= (p - 1) * h
            BY <4>1, <4>3, p - 1 \in Nat, q \in Nat, Grows
          <5>2. QED
            BY <4>2, <5>1
        <4>4. CASE q < 0
          <5>1. q * h < 0
            BY <4>4, SMTT(30)
          <5>2. e >= h
            <6>1. 1 * h <= p * h
              BY Grows
            <6>2. p * h = h * p
              BY SMTT(30)
            <6>3. QED
              BY <3>2, <6>1, <6>2
          <5>3. PICK c \in Int : c = q * h
            OBVIOUS
          <5>4. QED
            BY <5>1, <5>2, <5>3
        <4>5. QED
          BY <4>3, <4>4
      <3>4. PICK c \in Int : c = q * h
        OBVIOUS
      <3>5. QED
        BY <1>2, <3>1, <3>2, <3>3, <3>4
    <2>4. QED
      BY <2>2, <2>3
  <1>4. PICK a : a = itoa_loop(q, 16)
    OBVIOUS
  <1>5. PICK c : c = itoa_loop(r, 16)
    OBVIOUS
  <1>6. Spells(a, q, 16) /\ Spells(c, r, 16) /\ r \in Nat /\ hex = a \o c
    <2>1. r \in Nat
      BY <1>2
    <2>2. Spells(a, q, 16) /\ Spells(c, r, 16)
      BY <1>0, <1>3, <1>4, <1>5, <2>1, LoopSpells, Zenon
    <2>3. hex = a \o c
      BY <1>1, <1>2, <1>4, <1>5, Zenon DEF TwoHalves
    <2>4. QED
      BY <2>1, <2>2, <2>3
  <1>7. a \in Seq(Nat) /\ Len(a) = HALF
    <2>1. Turns(q, 16) <= HALF /\ Turns(q, 16) >= HALF
      <3>1. q < pow(16, HALF) /\ q >= pow(16, HALF - 1)
        BY <1>1, <1>3, Halves
      <3>2. QED
        BY <1>0, <1>3, <3>1, TurnsAtMost, TurnsAtLeast
    <2>2. QED
      BY <1>0, <1>3, <1>6, <2>1, SpellsTyped
  <1>8. c \in Seq(Nat) /\ Len(c) <= HALF /\ (r >= p => Len(c) = HALF)
    <2>1. Turns(r, 16) <= HALF
      <3>1. r < pow(16, HALF)
        BY <1>1, Halves
      <3>2. QED
        BY <1>0, <1>6, <3>1, TurnsAtMost
    <2>2. r >= p => Turns(r, 16) >= HALF
      BY <1>0, <1>1, <1>6, TurnsAtLeast
    <2>3. QED
      BY <1>0, <1>6, <2>1, <2>2, SpellsTyped
  <1>9. hex \in Seq(Nat) /\ Len(hex) = HALF + Len(c) /\ Follows(hex, a, c)
    <2>1. a \o c \in Seq(Nat) /\ Follows(a \o c, a, c)
      BY <1>7, <1>8, Joined, Zenon
    <2>2. QED
      BY <1>6, <1>7, <2>1 DEF Follows
  <1>10. Len(hex) <= 2 * HALF
    BY <1>0, <1>8, <1>9
  <1>11. PICK k \in Nat : Filled(s, hex, k)
    BY <1>9, <1>10, Padding, Zenon
  <1>12. /\ s \in Seq(Nat) /\ Len(s) = HALF + HALF /\ k + (HALF + Len(c)) = HALF + HALF
         /\ \A j \in 1 .. HALF + Len(c) : s[k + j] = hex[j]
    BY <1>0, <1>9, <1>11 DEF Filled, Within
  <1>13. ASSUME r >= p PROVE hex2int(s) = u
    <2>1. Len(c) = HALF /\ k = 0
      BY <1>0, <1>8, <1>12, <1>13, SMTT(60)
    <2>2. ASSUME NEW j \in 1 .. HALF + HALF PROVE s[j] = hex[j]
      <3>1. s[k + j] = hex[j] /\ k + j = j
        BY <1>12, <2>1
      <3>2. QED
        BY <3>1
    <2>3. \A j \in 1 .. HALF : s[0 + j] = a[j]
      <3>1. \A j \in 1 .. HALF : j \in 1 .. HALF + HALF /\ 0 + j = j /\ hex[j] = a[j]
        BY <1>0, <1>7, <1>9 DEF Follows
      <3>2. QED
        BY <2>2, <3>1
    <2>4. \A j \in 1 .. HALF : s[HALF + j] = c[j]
      <3>1. \A j \in 1 .. HALF : HALF + j \in 1 .. HALF + HALF /\ hex[HALF + j] = c[j]
        BY <1>0, <1>7, <1>9, <2>1, SMTT(60) DEF Follows
      <3>2. QED
        BY <2>2, <3>1
    <2>5. PICK f : Reads(f, s) /\ hex2int(s) = f[Len(s)]
      BY <1>12, HexCourse, Zenon
    <2>6. f[0] = 0 /\ pow(16, HALF) = h
      BY <1>1, <2>5, Halves DEF Reads
    <2>7. f[0] * pow(16, HALF) + q = q /\ q < Word
      <3>1. h <= w
        <4>1. 1 * h <= h * h
          BY Grows
        <4>2. QED
          BY <1>1, <4>1
      <3>2. QED
        BY <1>1, <1>3, <2>6, <3>1
    <2>8. f[HALF] = q
      <3>1. Within(a, s, 0) /\ 0 \in Nat /\ 0 + HALF = HALF /\ HALF \in Nat
        BY <1>0, <1>7, <1>12, <2>3 DEF Within
      <3>2. Shows(s, 0, HALF, q, 16) /\ After(q, 16, HALF) = 0
        BY <1>0, <1>3, <1>6, <1>7, <3>1, SpellsShows, Zenon
      <3>3. Fits(f, 0, HALF, q)
        BY <2>7 DEF Fits
      <3>4. Arrives(f, 0, HALF, q)
        BY <1>3, <1>12, <2>5, <3>1, <3>2, <3>3, Reading, Zenon
      <3>5. QED
        BY <2>7, <3>1, <3>4 DEF Arrives
    <2>9. f[HALF] * pow(16, HALF) + r = u
      BY <1>2, <2>6, <2>8
    <2>10. f[HALF + HALF] = u
      <3>1. Within(c, s, HALF) /\ HALF \in Nat
        BY <1>0, <1>12, <2>1, <2>4 DEF Within
      <3>2. Shows(s, HALF, HALF, r, 16) /\ After(r, 16, HALF) = 0
        BY <1>0, <1>6, <2>1, <3>1, SpellsShows, Zenon
      <3>3. Fits(f, HALF, HALF, r)
        <4>1. u < Word
          BY Halves
        <4>2. QED
          BY <2>9, <4>1 DEF Fits
      <3>4. Arrives(f, HALF, HALF, r)
        BY <1>6, <1>12, <2>5, <3>1, <3>2, <3>3, Reading, Zenon
      <3>5. QED
        BY <2>9, <3>4 DEF Arrives
    <2>11. QED
      BY <1>12, <2>5, <2>10, Zenon
  <1>14. u % Half = r /\ Half \div 16 = p /\ 2 * HALF = HALF + HALF
    BY <1>0, <1>1, <1>2
  <1>15. QED
    BY <1>12, <1>13, <1>14

\* An address is printed with 2 * HALF characters, which read back as it
\* unless the lower half of a negative number begins with a zero.
LEMMA AddressReadsBack ==
    ASSUME NEW u \in 0 .. Word - 1
    PROVE  /\ Len(Slot("a", fmtvald(u))) = 2 * HALF
           /\ Exact(u) => hex2int(Slot("a", fmtvald(u))) = u
  <1>0. 16 \in Base /\ 16 # 10
    BY DEF Base
  <1>1. PICK v \in Int : v = Signed(u)
    BY Signs
  <1>2. PICK hex : hex = itoa(v, 16)
    OBVIOUS
  <1>3. PICK s : s = Slot("a", fmtvald(u))
    OBVIOUS
  <1>4. fmtvald(u).type # "FMT_STRING" /\ fmtvald(u).value = v
    BY <1>1 DEF fmtvald
  <1>5. Padded(s, hex)
    <2>1. s = Zeros(IF Len(hex) < 2 * HALF THEN 2 * HALF - Len(hex) ELSE 0) \o hex
      BY <1>2, <1>3, <1>4, Zenon DEF Slot
    <2>2. QED
      BY <2>1 DEF Padded
  <1>6. CASE u < Word \div 2
    <2>1. u \in Nat /\ v = u /\ u < Word
      BY <1>1, <1>6, Signs, Halves
    <2>2. hex = itoa_loop(u, 16)
      <3>1. ~(u < 0)
        BY <2>1
      <3>2. QED
        BY <1>2, <2>1, <3>1, Zenon DEF itoa
    <2>3. Spells(hex, u, 16)
      BY <1>0, <2>1, <2>2, LoopSpells, Zenon
    <2>4. QED
      BY <1>3, <1>5, <2>1, <2>3, LowText, Zenon
  <1>7. CASE ~(u < Word \div 2)
    <2>1. v < 0 /\ Unsigned(v) = u
      BY <1>1, <1>7, Signs
    <2>2. TwoHalves(hex, u)
      BY <1>0, <1>2, <2>1, Zenon DEF itoa, TwoHalves
    <2>3. Len(s) = 2 * HALF /\ (u % Half >= Half \div 16 => hex2int(s) = u)
      BY <1>5, <1>7, <2>2, HighText, Zenon
    <2>4. QED
      BY <1>3, <1>7, <2>3, Zenon DEF Exact
  <1>8. QED
    BY <1>6, <1>7

-----------------------------------------------------------------------------
(***************************************************************************)
(* Reading decimal text.                                                   *)
(***************************************************************************)
Adds(f, s) ==
    /\ f \in [0 .. Len(s) -> Int] /\ f[0] = 0
    /\ \A i \in 1 .. Len(s) : f[i] = f[i - 1] + (s[i] - 48) * pow(10, Len(s) - i)

\* atoi returns the last sum of its loop, if no sign comes first.
LEMMA AtoiCourse ==
    ASSUME NEW s \in Seq(Nat), ~(s # << >> /\ s[1] = 45)
    PROVE  \E f : Adds(f, s) /\ atoi(s) = f[Len(s)]
  <1> DEFINE n == Len(s)
  <1> DEFINE body(h) == [i \in 0 .. n |-> IF i = 0 THEN 0 ELSE h[i - 1] + (s[i] - 48) * pow(10, n - i)]
  <1>0. n \in Nat /\ 10 \in Nat
    OBVIOUS
  <1>1. PICK f : f = CHOOSE h : h = body(h)
    OBVIOUS
  <1>2. atoi(s) = f[n]
    BY <1>1, ZenonT(60) DEF atoi
  <1>7. ASSUME NEW y \in Int, NEW i \in 1 .. n
        PROVE  y + (s[i] - 48) * pow(10, n - i) \in Int
    <2>1. n - i \in Nat /\ s[i] \in Nat
      BY <1>0
    <2>2. PICK p \in Nat, c \in Int : p = pow(10, n - i) /\ c = s[i] - 48
      <3>1. pow(10, n - i) \in Nat
        BY <1>0, <2>1, Pow, Zenon
      <3>2. s[i] - 48 \in Int
        BY <2>1
      <3>3. QED
        BY <3>1, <3>2, Zenon
    <2>3. y + c * p \in Int
      OBVIOUS
    <2>4. QED
      BY <2>2, <2>3
  <1>3. \E h : h = body(h)
    <2>1. PICK step : step = [i \in 1 .. n |-> [y \in Int |-> y + (s[i] - 48) * pow(10, n - i)]]
      OBVIOUS
    <2>2. Turning(Int, n, step)
      BY <1>7, <2>1, Zenon DEF Turning
    <2>3. PICK h \in [0 .. n -> Int] : h[0] = 0 /\ \A i \in 1 .. n : h[i] = step[i][h[i - 1]]
      <3>1. PICK h : Runs(h, Int, 0, n, step)
        BY <1>0, <2>2, 0 \in Int, Course, Zenon
      <3>2. QED
        BY <3>1 DEF Runs
    <2>4. ASSUME NEW i \in 1 .. n PROVE h[i] = h[i - 1] + (s[i] - 48) * pow(10, n - i)
      <3>1. h[i - 1] \in Int
        <4>1. i - 1 \in 0 .. n
          OBVIOUS
        <4>2. QED
          BY <2>3, <4>1, Zenon
      <3>2. step[i][h[i - 1]] = h[i - 1] + (s[i] - 48) * pow(10, n - i)
        BY <2>1, <3>1, Zenon
      <3>3. QED
        BY <2>3, <3>2
    <2>5. h = body(h)
      BY <2>3, <2>4
    <2>6. QED
      BY <2>5
  <1>4. f = body(f)
    BY <1>1, <1>3
  <1>5. f[0] = 0 /\ \A i \in 1 .. n : f[i] = f[i - 1] + (s[i] - 48) * pow(10, n - i)
    <2>1. 0 \in 0 .. n /\ \A i \in 1 .. n : i \in 0 .. n /\ i # 0
      BY <1>0
    <2>2. \A i \in 0 .. n : f[i] = IF i = 0 THEN 0 ELSE f[i - 1] + (s[i] - 48) * pow(10, n - i)
      BY <1>4, Zenon
    <2>3. QED
      BY <2>1, <2>2, Zenon
  <1>6. f \in [0 .. n -> Int]
    <2> DEFINE R == {k \in Nat : f[k] \in Int}
    <2>1. 0 \in R
      BY <1>5
    <2>2. ASSUME NEW k \in 1 .. n, k - 1 \in R PROVE k \in R
      <3>1. f[k - 1] \in Int /\ f[k] = f[k - 1] + (s[k] - 48) * pow(10, n - k) /\ k \in Nat
        BY <1>5, <2>2
      <3>2. f[k] \in Int
        BY <1>7, <3>1, Zenon
      <3>3. QED
        BY <3>1, <3>2
    <2>3. \A k \in 0 .. n : k \in R
      <3> HIDE DEF R
      <3>1. QED
        BY <1>0, <2>1, <2>2, Upwards
    <2>4. QED
      BY <1>4, <2>3
  <1>8. QED
    BY <1>2, <1>5, <1>6 DEF Adds

\* A decimal number reads back.
LEMMA DecimalReadsBack ==
    ASSUME NEW v \in Nat
    PROVE  itoa(v, 10) \in Seq(Nat) /\ atoi(itoa(v, 10)) = v
  <1>0. 10 \in Base /\ 10 \in Nat /\ ~(v < 0)
    BY DEF Base
  <1>1. PICK s : s = itoa(v, 10)
    OBVIOUS
  <1>2. Spells(s, v, 10)
    BY <1>0, <1>1, LoopSpells, Zenon DEF itoa
  <1>3. PICK n \in Nat \ {0} : s \in Seq(Nat) /\ n = Len(s) /\ n = Turns(v, 10)
    BY <1>0, <1>2, SpellsTyped
  <1>4. /\ \A j \in 1 .. n : s[j] = Digit(Rem(After(v, 10, n - j), 10))
        /\ After(v, 10, n) = 0
    BY <1>0, <1>2, <1>3, TurnsIs DEF Spells
  <1>5. s[1] # 45
    <2>1. s \in Seq(48 .. 57 \cup 97 .. 102) /\ 1 \in 1 .. Len(s)
      BY <1>2, <1>3 DEF Spells
    <2>2. s[1] \in 48 .. 57 \cup 97 .. 102
      BY <2>1
    <2>3. QED
      BY <2>2
  <1>6. PICK f : Adds(f, s) /\ atoi(s) = f[Len(s)]
    BY <1>3, <1>5, AtoiCourse
  <1> DEFINE R == {i \in Nat : f[i] = After(v, 10, n - i) * pow(10, n - i)}
  <1>7. 0 \in R
    <2>1. f[0] = 0 /\ n - 0 = n
      BY <1>6 DEF Adds
    <2>2. PICK p \in Nat : p = pow(10, n)
      BY <1>0, Pow
    <2>3. QED
      BY <1>4, <2>1, <2>2
  <1>8. ASSUME NEW i \in 1 .. n, i - 1 \in R PROVE i \in R
    <2>1. n - i \in Nat /\ n - (i - 1) = (n - i) + 1 /\ i \in Nat /\ i - 1 \in Nat
      OBVIOUS
    <2>2. PICK m \in Nat : m = n - i
      BY <2>1
    <2>3. PICK y \in Nat, z \in Nat, d \in 0 .. 9 :
             y = After(v, 10, m) /\ z = After(v, 10, m + 1) /\ d = Rem(After(v, 10, m), 10)
             /\ y = z * 10 + d
      <3>1. /\ After(v, 10, m) \in Nat /\ After(v, 10, m + 1) \in Nat
            /\ Rem(After(v, 10, m), 10) \in 0 .. 10 - 1
            /\ After(v, 10, m) = After(v, 10, m + 1) * 10 + Rem(After(v, 10, m), 10)
        BY <1>0, AfterStep, Zenon
      <3>2. 10 - 1 = 9
        OBVIOUS
      <3>3. QED
        BY <3>1, <3>2
    <2>4. s[i] - 48 = d
      <3>1. s[i] = Digit(d)
        BY <1>4, <2>2, <2>3, Zenon
      <3>2. d \in 0 .. 15 /\ d < 10
        OBVIOUS
      <3>3. QED
        BY <3>1, <3>2, DigitBack
    <2>5. PICK p \in Nat, q \in Nat : p = pow(10, m) /\ q = pow(10, m + 1) /\ q = p * 10
      BY <1>0, m + 1 \in Nat, Pow
    <2>6. f[i - 1] = z * q
      BY <1>8, <2>1, <2>2, <2>3, <2>5
    <2>7. f[i] = z * q + d * p
      <3>1. f[i] = f[i - 1] + (s[i] - 48) * pow(10, n - i)
        BY <1>3, <1>6 DEF Adds
      <3>2. QED
        BY <2>2, <2>4, <2>5, <2>6, <3>1, Zenon
    <2>8. z * (p * 10) + d * p = (z * 10 + d) * p
      BY SMTT(30)
    <2>9. f[i] = y * p
      BY <2>3, <2>5, <2>7, <2>8
    <2>10. QED
      BY <2>1, <2>2, <2>3, <2>5, <2>9
  <1>9. \A i \in 0 .. n : i \in R
    <2> HIDE DEF R
    <2>1. n \in Nat
      OBVIOUS
    <2>2. QED
      BY <1>7, <1>8, <2>1, Upwards
  <1>10. n \in R /\ n - n = 0
    BY <1>9
  <1>11. f[n] = After(v, 10, 0) * pow(10, 0)
    BY <1>10
  <1>12. After(v, 10, 0) = v /\ pow(10, 0) = 1
    BY <1>0, AfterIs, Pow
  <1>13. f[n] = v
    BY <1>11, <1>12
  <1>14. QED
    BY <1>1, <1>3, <1>6, <1>13

\* What the prefix of an amount of memory stands for.
LEMMA ScaleIs ==
    ASSUME NEW u \in Nat
    PROVE  Scale(u) \in Nat \ {0} /\ Unit(u) \in Seq(Nat)
  <1>1. PICK k \in Nat \ {0}, m \in Nat \ {0}, g \in Nat \ {0} :
           k = KILO /\ m = KILO * KILO /\ g = KILO * KILO * KILO
    <2>1. PICK k \in Nat \ {0} : k = KILO
      BY TextAssumption
    <2>2. k * k \in Nat \ {0}
      BY SMTT(30)
    <2>3. PICK m \in Nat \ {0} : m = k * k
      BY <2>2
    <2>4. m * k \in Nat \ {0}
      BY SMTT(30)
    <2>5. QED
      BY <2>1, <2>3, <2>4
  <1>2. PICK p \in 0 .. 3 : p = Prefix(u)
    BY DEF Prefix
  <1>3. Scale(u) = << 1, k, m, g >>[p + 1]
    BY <1>1, <1>2 DEF Scale
  <1>4. Unit(u) = << << 66 >>, << 75, 66 >>, << 77, 66 >>, << 71, 66 >> >>[p + 1]
    BY <1>2, Zenon DEF Unit
  <1>5. p = 0 \/ p = 1 \/ p = 2 \/ p = 3
    OBVIOUS
  <1>6. Scale(u) \in Nat \ {0}
    BY <1>3, <1>5
  <1>7. Unit(u) \in Seq(Nat)
    <2>1. Unit(u) = << 66 >> \/ Unit(u) = << 75, 66 >> \/ Unit(u) = << 77, 66 >> \/ Unit(u) = << 71, 66 >>
      BY <1>4, <1>5
    <2>2. << 66 >> \in Seq(Nat) /\ << 75, 66 >> \in Seq(Nat) /\ << 77, 66 >> \in Seq(Nat) /\ << 71, 66 >> \in Seq(Nat)
      OBVIOUS
    <2>3. QED
      BY <2>1, <2>2
  <1>8. QED
    BY <1>6, <1>7

\* The characters before the last ones.
LEMMA Before ==
    ASSUME NEW a \in Seq(Nat), NEW c \in Seq(Nat)
    PROVE  SubSeq(a \o c, 1, Len(a \o c) - Len(c)) = a
  <1>1. PICK s : s = a \o c
    OBVIOUS
  <1>2. PICK m \in Nat, n \in Nat : m = Len(a) /\ n = Len(c)
    OBVIOUS
  <1>3. s \in Seq(Nat) /\ Follows(s, a, c)
    BY <1>1, Joined, Zenon
  <1>4. Len(s) = m + n /\ Len(s) - n = m /\ \A i \in 1 .. m : s[i] = a[i]
    BY <1>2, <1>3 DEF Follows
  <1>5. PICK t : t = SubSeq(s, 1, m)
    OBVIOUS
  <1>6. t \in Seq(Nat) /\ Len(t) = m /\ \A i \in 1 .. m : t[i] = s[i]
    BY <1>3, <1>4, <1>5
  <1>7. t = a
    <2>1. Len(t) = Len(a) /\ \A i \in 1 .. Len(t) : t[i] = a[i]
      BY <1>2, <1>4, <1>6
    <2>2. QED
      BY <1>6, <2>1, SeqEqual
  <1>8. QED
    BY <1>1, <1>2, <1>4, <1>5, <1>7

\* An amount of memory reads back to the unit.
LEMMA AmountReadsBack ==
    ASSUME NEW u \in Nat, u < Word \div 2
    PROVE  LET text == Slot("M", fmtvald(u))
               n == atoi(SubSeq(text, 1, Len(text) - Len(Unit(u))))
           IN  n * Scale(u) <= u /\ u < (n + 1) * Scale(u)
  <1>1. Signed(u) = u
    <2>1. Word \in Nat \ {0}
      BY Halves
    <2>2. u \in 0 .. Word - 1
      BY <2>1
    <2>3. QED
      BY <2>2, Signs
  <1>2. fmtvald(u).type # "FMT_STRING" /\ fmtvald(u).value = u
    BY <1>1 DEF fmtvald
  <1>3. PICK k \in Nat \ {0} : k = Scale(u) /\ Unit(u) \in Seq(Nat)
    BY ScaleIs
  <1>4. PICK q \in Int, r \in 0 .. k - 1 : q = u \div k /\ r = u % k /\ u = q * k + r
    BY u \in Int, DivMod, Zenon
  <1>5. Quot(u, k) = q
    BY <1>4 DEF Quot
  <1>6. q \in Nat
    <2>1. CASE q <= -1
      <3>1. q * k <= -k
        BY <2>1, SMTT(30)
      <3>2. PICK c \in Int : c = q * k
        OBVIOUS
      <3>3. QED
        BY <1>4, <3>1, <3>2
    <2>2. QED
      BY <2>1
  <1>7. PICK text : text = Slot("M", fmtvald(u))
    OBVIOUS
  <1>8. text = itoa(q, 10) \o Unit(u)
    BY <1>2, <1>3, <1>5, <1>7, "M" # "a", "M" # "x" DEF Slot
  <1>9. itoa(q, 10) \in Seq(Nat) /\ atoi(itoa(q, 10)) = q
    BY <1>6, DecimalReadsBack
  <1>10. SubSeq(text, 1, Len(text) - Len(Unit(u))) = itoa(q, 10)
    BY <1>3, <1>8, <1>9, Before, Zenon
  <1>11. q * k <= u /\ u < (q + 1) * k
    <2>1. (q + 1) * k = q * k + k
      BY SMTT(30)
    <2>2. PICK c \in Int : c = q * k
      OBVIOUS
    <2>3. QED
      BY <1>4, <2>1, <2>2
  <1>12. QED
    BY <1>3, <1>7, <1>9, <1>10, <1>11, Zenon

-----------------------------------------------------------------------------
(***************************************************************************)
(* The symbol table.                                                       *)
(***************************************************************************)

\* What a turn of hex2int leaves, up to whole words.
Turned(f, s, i) == \E q \in Int : f[i] = (f[i - 1] * 16 + HexDigit(s[i])) - q * Word

\* A remainder differs by a multiple.
LEMMA ReadTurn ==
    ASSUME NEW s \in Seq(Nat), NEW f, Reads(f, s), NEW i \in 1 .. Len(s)
    PROVE  Turned(f, s, i)
  <1>1. PICK x \in Nat, d \in 0 .. 15, w \in Nat \ {0} : x = f[i - 1] /\ d = HexDigit(s[i]) /\ w = Word
    <2>1. f[i - 1] \in Nat
      <3>1. i - 1 \in 0 .. Len(s)
        OBVIOUS
      <3>2. QED
        BY <3>1, Zenon DEF Reads
    <2>2. HexDigit(s[i]) \in 0 .. 15
      BY HexDigitIs, SMTT(60)
    <2>3. Word \in Nat \ {0}
      BY Halves
    <2>4. QED
      BY <2>1, <2>2, <2>3, Zenon
  <1>2. f[i] = (x * 16 + d) % w
    BY <1>1 DEF Reads
  <1>3. PICK a \in Int : a = x * 16 + d
    OBVIOUS
  <1>4. PICK q \in Int, r \in 0 .. w - 1 : q = a \div w /\ r = a % w /\ a = q * w + r
    BY DivMod, Zenon
  <1>5. PICK c \in Int : c = q * w
    OBVIOUS
  <1>6. r = a - q * w
    BY <1>4, <1>5
  <1>7. QED
    BY <1>1, <1>2, <1>3, <1>4, <1>6, Zenon DEF Turned

\* A text reads as a number.
LEMMA HexTyped ==
    ASSUME NEW s \in Seq(Nat)
    PROVE  hex2int(s) \in Nat
  <1>1. PICK f : Reads(f, s) /\ hex2int(s) = f[Len(s)]
    BY HexCourse, Zenon
  <1>2. QED
    BY <1>1 DEF Reads

\* Without its first digit an address keeps its lower half.
LEMMA TailReads ==
    ASSUME NEW s \in Seq(Nat), Len(s) = 2 * HALF
    PROVE  /\ Tail(s) \in Seq(Nat)
           /\ hex2int(Tail(s)) % Half = hex2int(s) % Half
  <1>0. 16 \in Nat /\ 16 \in Nat \ {0} /\ HALF \in Nat \ {0} /\ 2 * HALF = HALF + HALF /\ HALF - 1 \in Nat
    BY TextAssumption
  <1>1. PICK n \in Nat : n = 2 * HALF - 1 /\ Len(s) = n + 1 /\ n = HALF + (HALF - 1)
    BY <1>0
  <1>2. PICK t : t = Tail(s)
    OBVIOUS
  <1>3. t \in Seq(Nat) /\ Len(t) = n /\ \A i \in 1 .. n : t[i] = s[i + 1]
    BY <1>1, <1>2
  <1>4. PICK f : Reads(f, s) /\ hex2int(s) = f[Len(s)]
    BY HexCourse, Zenon
  <1>5. PICK g : Reads(g, t) /\ hex2int(t) = g[Len(t)]
    BY <1>3, HexCourse, Zenon
  <1>6. PICK d \in Nat, w \in Nat \ {0} : d = HexDigit(s[1]) /\ w = Word
    <2>1. 1 \in 1 .. Len(s)
      BY <1>1
    <2>2. s[1] \in Nat
      BY <2>1
    <2>3. HexDigit(s[1]) \in 0 .. 15
      BY <2>2, HexDigitIs
    <2>4. HexDigit(s[1]) \in Nat
      <3>1. \A c \in 0 .. 15 : c \in Nat
        OBVIOUS
      <3>2. QED
        BY <2>3, <3>1, Zenon
    <2>5. Word \in Nat \ {0}
      BY Halves
    <2>6. QED
      BY <2>4, <2>5, Zenon
  <1> DEFINE R == {i \in Nat : \E q \in Int : f[i + 1] - g[i] = d * pow(16, i) + q * w}
  <1>7. 0 \in R
    <2>1. 1 \in 1 .. Len(s) /\ f[1 - 1] = 0 /\ g[0] = 0
      BY <1>1, <1>4, <1>5 DEF Reads
    <2>2. PICK q \in Int : f[1] = (f[1 - 1] * 16 + HexDigit(s[1])) - q * Word
      BY <1>4, <2>1, ReadTurn DEF Turned
    <2>3. pow(16, 0) = 1
      BY <1>0, Pow
    <2>4. f[1] = d - q * w
      BY <1>6, <2>1, <2>2
    <2>5. PICK p \in Int : p = -q
      OBVIOUS
    <2>6. -(q * w) = p * w
      BY <2>5, SMTT(30)
    <2>7. PICK c \in Int, e \in Int : c = q * w /\ e = p * w /\ e = -c
      BY <2>6
    <2>8. f[1] - g[0] = d * 1 + e
      BY <2>1, <2>4, <2>7
    <2>9. 0 + 1 = 1 /\ 0 \in Nat
      OBVIOUS
    <2>10. f[0 + 1] - g[0] = d * pow(16, 0) + p * w
      BY <2>3, <2>7, <2>8, <2>9, Zenon
    <2>11. QED
      BY <2>9, <2>10, Zenon
  <1>8. ASSUME NEW i \in 1 .. n, i - 1 \in R PROVE i \in R
    <2>1. /\ i \in Nat /\ i - 1 \in Nat /\ (i - 1) + 1 = i /\ i + 1 \in 1 .. Len(s) /\ (i + 1) - 1 = i
          /\ i \in 1 .. Len(t)
      BY <1>1, <1>3
    <2>2. PICK q \in Int : f[i] - g[i - 1] = d * pow(16, i - 1) + q * w
      BY <1>8, <2>1
    <2>3. PICK c \in 0 .. 15 : c = HexDigit(s[i + 1]) /\ c = HexDigit(t[i])
      <3>1. s[i + 1] \in Nat /\ t[i] = s[i + 1]
        BY <1>3, <2>1
      <3>2. QED
        BY <3>1, HexDigitIs
    <2>4. PICK x \in Int : f[i + 1] = (f[i] * 16 + c) - x * w
      <3>1. Turned(f, s, i + 1)
        BY <1>4, <2>1, ReadTurn, Zenon
      <3>2. QED
        BY <1>6, <2>1, <2>3, <3>1, Zenon DEF Turned
    <2>5. PICK y \in Int : g[i] = (g[i - 1] * 16 + c) - y * w
      <3>1. Turned(g, t, i)
        BY <1>3, <1>5, <2>1, ReadTurn, Zenon
      <3>2. QED
        BY <1>6, <2>3, <3>1, Zenon DEF Turned
    <2>6. PICK a \in Nat, b \in Nat, p \in Nat :
             a = f[i] /\ b = g[i - 1] /\ p = pow(16, i - 1) /\ pow(16, i) = p * 16
      <3>1. f[i] \in Nat /\ g[i - 1] \in Nat
        <4>1. i \in 0 .. Len(s) /\ i - 1 \in 0 .. Len(t)
          BY <1>1, <1>3
        <4>2. QED
          BY <1>4, <1>5, <4>1 DEF Reads
      <3>2. pow(16, i - 1) \in Nat /\ pow(16, (i - 1) + 1) = pow(16, i - 1) * 16
        BY <1>0, <2>1, Pow
      <3>3. QED
        BY <2>1, <3>1, <3>2
    <2>7. PICK z \in Int : z = 16 * q + (y - x)
      OBVIOUS
    <2>8. z * w = 16 * (q * w) + (y * w - x * w)
      BY <2>7, SMTT(30)
    <2>9. d * (p * 16) = 16 * (d * p)
      BY SMTT(30)
    <2>10. PICK dp \in Int, qw \in Int, xw \in Int, yw \in Int :
              dp = d * p /\ qw = q * w /\ xw = x * w /\ yw = y * w
      OBVIOUS
    <2>11. a - b = dp + qw
      BY <2>2, <2>6, <2>10
    <2>12. f[i + 1] - g[i] = 16 * dp + (16 * qw + (yw - xw))
      <3>1. f[i + 1] = (a * 16 + c) - xw /\ g[i] = (b * 16 + c) - yw
        BY <2>4, <2>5, <2>6, <2>10, Zenon
      <3>2. ((a * 16 + c) - xw) - ((b * 16 + c) - yw) = 16 * dp + (16 * qw + (yw - xw))
        BY <2>11
      <3>3. QED
        BY <3>1, <3>2, Zenon
    <2>13. f[i + 1] - g[i] = d * pow(16, i) + z * w
      BY <2>6, <2>8, <2>9, <2>10, <2>12
    <2>14. QED
      BY <2>1, <2>13
  <1>9. \A i \in 0 .. n : i \in R
    <2> HIDE DEF R
    <2>1. QED
      BY <1>7, <1>8, Upwards
  <1>10. PICK q \in Int : f[n + 1] - g[n] = d * pow(16, n) + q * w
    <2>1. n \in R
      <3>1. n \in 0 .. n
        OBVIOUS
      <3> HIDE DEF R
      <3>2. QED
        BY <1>9, <3>1, Zenon
    <2>2. QED
      BY <2>1
  <1>11. PICK h \in Nat \ {0}, p \in Nat : h = Half /\ p = pow(16, HALF - 1) /\ pow(16, n) = h * p /\ w = h * h
    <2>1. pow(16, HALF + (HALF - 1)) = pow(16, HALF) * pow(16, HALF - 1)
      BY <1>0, PowPlus, Zenon
    <2>2. QED
      BY <1>1, <1>6, <2>1, Halves
  <1>12. PICK z \in Int : z = d * p + q * h
    OBVIOUS
  <1>13. d * (h * p) + q * (h * h) = z * h
    BY <1>12, SMTT(30)
  <1>14. PICK a \in Int, b \in Int : a = f[n + 1] /\ b = g[n]
    BY <1>1, <1>3, <1>4, <1>5 DEF Reads
  <1>15. a - b = z * h
    BY <1>10, <1>11, <1>13, <1>14
  <1>16. a % h = b % h
    BY <1>15, Congruent, ZenonT(60)
  <1>17. QED
    BY <1>1, <1>2, <1>3, <1>4, <1>5, <1>11, <1>14, <1>16, Zenon

\* An int is what it is cut from, up to whole halves.
LEMMA AsIntIs ==
    ASSUME NEW u \in Int
    PROVE  AsInt(u) \in Int /\ \E q \in Int : AsInt(u) = u + q * Half
  <1>1. PICK h \in Nat \ {0} : h = Half
    BY Halves
  <1>2. PICK q \in Int, r \in 0 .. h - 1 : q = u \div h /\ r = u % h /\ u = q * h + r
    BY DivMod, Zenon
  <1>3. PICK x \in Int, y \in Int : x = -q /\ y = -q - 1
    OBVIOUS
  <1>4. x * h = -(q * h) /\ y * h = -(q * h) - h
    BY <1>3, SMTT(30)
  <1>5. PICK c \in Int, xh \in Int, yh \in Int : c = q * h /\ xh = x * h /\ yh = y * h
    OBVIOUS
  <1>6. r = u + xh /\ r - h = u + yh
    BY <1>2, <1>4, <1>5
  <1>7. AsInt(u) = r \/ AsInt(u) = r - h
    BY <1>1, <1>2, Zenon DEF AsInt
  <1>8. QED
    BY <1>1, <1>5, <1>6, <1>7

\* Only the lower half counts.
Shifted(a, b, q) == a = b + q * Half

\* Numbers that differ by whole halves are the same int.
LEMMA AsIntSame ==
    ASSUME NEW a \in Int, NEW b \in Int, NEW q \in Int, Shifted(a, b, q)
    PROVE  AsInt(a) = AsInt(b)
  <1>1. PICK h \in Nat \ {0} : h = Half
    BY Halves
  <1>2. PICK c \in Int : c = q * h
    OBVIOUS
  <1>3. a - b = q * h
    BY <1>1, <1>2 DEF Shifted
  <1>4. a % h = b % h
    BY <1>3, Congruent, ZenonT(60)
  <1>5. QED
    BY <1>1, <1>4, Zenon DEF AsInt

\* Whole words are whole halves.
LEMMA UnsignedIs ==
    ASSUME NEW a \in Int
    PROVE  Unsigned(a) \in Nat /\ \E q \in Int : Unsigned(a) = a + q * Half
  <1>1. PICK h \in Nat \ {0}, w \in Nat \ {0} : h = Half /\ w = Word /\ w = h * h
    BY Halves
  <1>2. PICK q \in Int, r \in 0 .. w - 1 : q = a \div w /\ r = a % w /\ a = q * w + r
    BY DivMod, Zenon
  <1>3. PICK z \in Int : z = -(q * h)
    OBVIOUS
  <1>4. z * h = -(q * w)
    <2>1. z * h = -(q * (h * h))
      BY <1>3, SMTT(30)
    <2>2. QED
      BY <1>1, <2>1, Zenon
  <1>5. PICK c \in Int, d \in Int : c = q * w /\ d = z * h /\ d = -c
    BY <1>4
  <1>6. r = a + d
    BY <1>2, <1>5
  <1>7. Unsigned(a) = r /\ r \in Nat
    BY <1>1, <1>2 DEF Unsigned
  <1>8. QED
    BY <1>1, <1>5, <1>6, <1>7, Zenon

-----------------------------------------------------------------------------
\* The lines of the table.
LEMMA SymbolIs ==
    ASSUME NEW i \in 1 .. Len(Symbols)
    PROVE  /\ Symbols[i] \in Seq(Seq(Nat)) /\ Len(Symbols[i]) \in {3, 4}
           /\ (i \in Sized <=> Len(Symbols[i]) = 4)
           /\ Symbols[i][1] \in Seq(Nat) /\ Len(Symbols[i][1]) = 2 * HALF
           /\ First[i] = hex2int(Symbols[i][1]) /\ First[i] \in Nat
           /\ Unsigned(AsInt(First[i])) = First[i]
  <1>1. /\ Symbols \in Seq(Seq(Seq(Nat))) /\ Len(Symbols[i]) \in {3, 4}
        /\ Symbols[i][1] \in HexWord /\ Unsigned(AsInt(First[i])) = First[i]
    BY SymbolsAssumption, Zenon
  <1>2. Symbols[i] \in Seq(Seq(Nat))
    BY <1>1
  <1>3. Symbols[i][1] \in Seq(Nat) /\ Len(Symbols[i][1]) = 2 * HALF
    <2>1. Symbols[i][1] \in Seq(48 .. 57 \cup 97 .. 102) /\ Len(Symbols[i][1]) = 2 * HALF
      BY <1>1, Zenon DEF HexWord
    <2>2. QED
      BY <1>1, <1>2, <2>1
  <1>4. First[i] = hex2int(Symbols[i][1])
    BY Zenon DEF First
  <1>5. First[i] \in Nat
    BY <1>3, <1>4, HexTyped, Zenon
  <1>6. i \in Sized <=> Len(Symbols[i]) = 4
    BY DEF Sized
  <1>7. QED
    BY <1>1, <1>2, <1>3, <1>4, <1>5, <1>6, Zenon

\* The lines with a size.
LEMMA SizedIs ==
    ASSUME NEW i \in Sized
    PROVE  /\ i \in 1 .. Len(Symbols) /\ Symbols[i][2] \in Seq(Nat)
           /\ Symbols[i][2][1] \notin {84, 116}
           /\ hex2int(Symbols[i][2]) \in Nat
           /\ Behind[i] = First[i] + hex2int(Symbols[i][2])
           /\ Behind[i] \in Nat /\ Unsigned(AsInt(Behind[i])) = Behind[i]
  <1>1. i \in 1 .. Len(Symbols) /\ Len(Symbols[i]) = 4
    BY DEF Sized
  <1>2. Symbols[i][2] \in HexWord
    BY <1>1, SymbolsAssumption, Zenon
  <1>3. PICK w : w = Symbols[i][2]
    OBVIOUS
  <1>4. w \in Seq(48 .. 57 \cup 97 .. 102) /\ Len(w) = 2 * HALF
    BY <1>2, <1>3, Zenon DEF HexWord
  <1>5. w \in Seq(Nat)
    BY <1>4, SMTT(60)
  <1>6. w[1] \in 48 .. 57 \cup 97 .. 102
    <2>1. 1 \in 1 .. Len(w)
      BY <1>4, TextAssumption
    <2>2. QED
      BY <1>4, <2>1, SMTT(60)
  <1>7. hex2int(w) \in Nat
    BY <1>5, HexTyped
  <1>8. Behind[i] = First[i] + hex2int(w)
    BY <1>3, Zenon DEF Behind
  <1>9. First[i] \in Nat
    BY <1>1, SymbolIs, Zenon
  <1>10. Behind[i] \in Nat
    BY <1>7, <1>8, <1>9
  <1>11. Unsigned(AsInt(Behind[i])) = Behind[i]
    BY SymbolsAssumption, Zenon
  <1>12. w[1] \notin {84, 116}
    BY <1>6
  <1>13. QED
    BY <1>1, <1>3, <1>5, <1>7, <1>8, <1>10, <1>11, <1>12, Zenon

\* What the loop makes of a line: its address in an int is the one of the
\* table, though the first digit is missing.
LEMMA LineRead ==
    ASSUME NEW i \in 1 .. Len(Symbols)
    PROVE  LET line == AsRead(Symbols, i)
           IN  /\ Len(line) = Len(Symbols[i])
               /\ \A k \in 2 .. Len(line) : strtok(line, k) = Symbols[i][k]
               /\ AsInt(hex2int(strtok(line, 1))) = AsInt(First[i])
  <1>1. PICK s : s = Symbols[i]
    OBVIOUS
  <1>2. /\ s \in Seq(Seq(Nat)) /\ Len(s) \in {3, 4} /\ s[1] \in Seq(Nat) /\ Len(s[1]) = 2 * HALF
        /\ First[i] = hex2int(s[1]) /\ First[i] \in Nat
    BY <1>1, SymbolIs, Zenon
  <1>3. PICK line : line = AsRead(Symbols, i)
    OBVIOUS
  <1>4. CASE i = 1
    <2>1. line = s
      BY <1>1, <1>3, <1>4 DEF AsRead
    <2>2. strtok(line, 1) = s[1] /\ \A k \in 2 .. Len(line) : strtok(line, k) = s[k]
      BY <1>2, <2>1 DEF strtok
    <2>3. QED
      BY <1>1, <1>2, <1>3, <2>1, <2>2, Zenon
  <1>5. CASE i # 1
    <2>1. line = [s EXCEPT ![1] = Tail(s[1])]
      BY <1>1, <1>3, <1>5, Zenon DEF AsRead
    <2>2. Tail(s[1]) \in Seq(Nat) /\ hex2int(Tail(s[1])) % Half = hex2int(s[1]) % Half
      BY <1>2, TailReads, Zenon
    <2>3. Len(line) = Len(s) /\ line[1] = Tail(s[1]) /\ \A k \in 2 .. Len(s) : line[k] = s[k]
      BY <1>2, <2>1, <2>2
    <2>4. strtok(line, 1) = Tail(s[1]) /\ \A k \in 2 .. Len(line) : strtok(line, k) = s[k]
      BY <1>2, <2>3 DEF strtok
    <2>5. AsInt(hex2int(Tail(s[1]))) = AsInt(hex2int(s[1]))
      BY <2>2, Zenon DEF AsInt
    <2>6. QED
      BY <1>1, <1>2, <1>3, <2>3, <2>4, <2>5, Zenon
  <1>6. QED
    BY <1>4, <1>5

\* A line with a size covers its function, and the address behind it.
LEMMA SizedCovers ==
    ASSUME NEW i \in Sized, NEW ptr \in Nat
    PROVE  LET line == AsRead(Symbols, i)
           IN  /\ Covers(line, ptr) <=> First[i] <= ptr /\ Behind[i] >= ptr
               /\ Function(line) = Symbols[i][4]
  <1>1. PICK line : line = AsRead(Symbols, i)
    OBVIOUS
  <1>2. i \in 1 .. Len(Symbols) /\ Len(Symbols[i]) = 4
    BY SizedIs, SymbolIs
  <1>3. /\ Len(line) = 4 /\ strtok(line, 2) = Symbols[i][2] /\ strtok(line, 4) = Symbols[i][4]
        /\ AsInt(hex2int(strtok(line, 1))) = AsInt(First[i])
    <2>1. /\ Len(line) = Len(Symbols[i])
          /\ \A k \in 2 .. Len(line) : strtok(line, k) = Symbols[i][k]
          /\ AsInt(hex2int(strtok(line, 1))) = AsInt(First[i])
      BY <1>1, <1>2, LineRead, Zenon
    <2>2. 2 \in 2 .. 4 /\ 4 \in 2 .. 4
      OBVIOUS
    <2>3. QED
      BY <1>2, <2>1, <2>2, Zenon
  <1>4. ~Sizeless(line)
    <2>1. PICK c : c = Symbols[i][2][1]
      OBVIOUS
    <2>2. c \notin {84, 116}
      BY <2>1, SizedIs, Zenon
    <2>3. strtok(line, 2)[1] = c
      BY <1>3, <2>1, Zenon
    <2>4. QED
      BY <2>2, <2>3 DEF Sizeless
  <1>5. Function(line) = Symbols[i][4]
    BY <1>3, <1>4, Zenon DEF Function
  <1>6. PICK a \in Nat, n \in Nat, e \in Nat :
           /\ a = First[i] /\ n = hex2int(Symbols[i][2]) /\ e = Behind[i] /\ e = a + n
           /\ Unsigned(AsInt(a)) = a /\ Unsigned(AsInt(e)) = e
    <2>1. First[i] \in Nat /\ Unsigned(AsInt(First[i])) = First[i]
      BY <1>2, SymbolIs, Zenon
    <2>2. /\ hex2int(Symbols[i][2]) \in Nat /\ Behind[i] = First[i] + hex2int(Symbols[i][2])
          /\ Behind[i] \in Nat /\ Unsigned(AsInt(Behind[i])) = Behind[i]
      BY SizedIs, Zenon
    <2>3. QED
      BY <2>1, <2>2, Zenon
  <1>7. PICK x \in Int, p \in Int : x = AsInt(a) /\ x = a + p * Half
    BY AsIntIs
  <1>8. PICK y \in Int, q \in Int : y = AsInt(n) /\ y = n + q * Half
    BY AsIntIs
  <1>9. PICK z \in Nat, r \in Int : z = Unsigned(x + y) /\ z = (x + y) + r * Half
    BY x + y \in Int, UnsignedIs
  <1>10. AsInt(z) = AsInt(e)
    <2>1. PICK h \in Nat \ {0} : h = Half
      BY Halves
    <2>2. PICK m \in Int : m = (p + q) + r
      OBVIOUS
    <2>3. m * h = (p * h + q * h) + r * h
      BY <2>2, SMTT(30)
    <2>4. PICK ph \in Int, qh \in Int, rh \in Int, mh \in Int :
             ph = p * h /\ qh = q * h /\ rh = r * h /\ mh = m * h
      OBVIOUS
    <2>5. x = a + ph /\ y = n + qh /\ z = (x + y) + rh /\ mh = (ph + qh) + rh
      BY <1>7, <1>8, <1>9, <2>1, <2>3, <2>4, Zenon
    <2>6. z = e + mh
      BY <1>6, <2>5
    <2>7. Shifted(z, e, m) /\ z \in Int /\ e \in Int
      BY <2>1, <2>4, <2>6 DEF Shifted
    <2>8. QED
      BY <2>7, AsIntSame, Zenon
  <1>11. Covers(line, ptr) <=> a <= ptr /\ e >= ptr
    <2>1. Covers(line, ptr) <=> Unsigned(x) <= ptr /\ Unsigned(AsInt(Unsigned(x + y))) >= ptr
      BY <1>3, <1>4, <1>6, <1>7, <1>8, Zenon DEF Covers
    <2>2. QED
      BY <1>6, <1>7, <1>9, <1>10, <2>1, Zenon
  <1>12. QED
    BY <1>1, <1>5, <1>6, <1>11, Zenon

\* A line of the text without a size covers its address only, and any other
\* line has no name where the loop looks for it.
LEMMA UnsizedCovers ==
    ASSUME NEW i \in 1 .. Len(Symbols), i \notin Sized, NEW ptr \in Nat
    PROVE  LET line == AsRead(Symbols, i)
           IN  /\ Sizeless(Symbols[i]) /\ Covers(line, ptr) => ptr = First[i]
               /\ ~Sizeless(Symbols[i]) => Function(line) = << >>
  <1>1. PICK line : line = AsRead(Symbols, i)
    OBVIOUS
  <1>2. Len(Symbols[i]) = 3
    BY SymbolIs
  <1>3. /\ Len(line) = 3 /\ strtok(line, 2) = Symbols[i][2]
        /\ AsInt(hex2int(strtok(line, 1))) = AsInt(First[i])
    <2>1. /\ Len(line) = Len(Symbols[i])
          /\ \A k \in 2 .. Len(line) : strtok(line, k) = Symbols[i][k]
          /\ AsInt(hex2int(strtok(line, 1))) = AsInt(First[i])
      BY <1>1, LineRead, Zenon
    <2>2. 2 \in 2 .. 3
      OBVIOUS
    <2>3. QED
      BY <1>2, <2>1, <2>2, Zenon
  <1>4. Sizeless(line) <=> Sizeless(Symbols[i])
    <2>1. strtok(Symbols[i], 2) = Symbols[i][2]
      BY <1>2 DEF strtok
    <2>2. strtok(line, 2) = strtok(Symbols[i], 2)
      BY <1>3, <2>1, Zenon
    <2>3. QED
      BY <2>2 DEF Sizeless
  <1>5. ASSUME ~Sizeless(Symbols[i]) PROVE Function(line) = << >>
    <2>1. strtok(line, 4) = << >>
      BY <1>3 DEF strtok
    <2>2. QED
      BY <1>4, <1>5, <2>1, Zenon DEF Function
  <1>6. ASSUME Sizeless(Symbols[i]), Covers(line, ptr) PROVE ptr = First[i]
    <2>1. PICK a \in Nat : a = First[i] /\ Unsigned(AsInt(a)) = a
      BY SymbolIs
    <2>2. PICK x \in Int, p \in Int : x = AsInt(a) /\ x = a + p * Half
      BY a \in Int, AsIntIs, Zenon
    <2>3. Unsigned(x) <= ptr /\ Unsigned(AsInt(Unsigned(x + 0))) >= ptr
      BY <1>3, <1>4, <1>6, <2>1, <2>2, Zenon DEF Covers
    <2>4. Unsigned(x) = a /\ x + 0 = x
      BY <2>1, <2>2
    <2>5. QED
      <3>1. a <= ptr /\ Unsigned(AsInt(a)) >= ptr
        BY <2>3, <2>4, Zenon
      <3>2. a <= ptr /\ a >= ptr
        BY <2>1, <3>1, Zenon
      <3>3. QED
        BY <2>1, <3>2
  <1>7. QED
    BY <1>1, <1>5, <1>6, Zenon

\* Copying nothing changes nothing; into an empty buffer it is the copy.
LEMMA Copied ==
    ASSUME NEW b \in Seq(Nat), NEW name \in Seq(Nat)
    PROVE  /\ memcpy(b, name) \in Seq(Nat)
           /\ name = << >> => memcpy(b, name) = b
           /\ b = << >> => memcpy(b, name) = name
  <1>1. PICK n \in Nat, m \in Nat : n = Len(b) /\ m = Len(name)
    OBVIOUS
  <1>2. PICK rest : rest = SubSeq(b, m + 1, n)
    OBVIOUS
  <1>3. rest \in Seq(Nat)
    BY <1>1, <1>2
  <1>4. memcpy(b, name) = name \o rest
    BY <1>1, <1>2, Zenon DEF memcpy
  <1>5. name \o rest \in Seq(Nat)
    BY <1>3, Joined, Zenon
  <1>6. ASSUME name = << >> PROVE name \o rest = b
    <2>1. rest = b
      <3>1. m = 0
        BY <1>1, <1>6
      <3>2. rest \in Seq(Nat) /\ Len(rest) = Len(b) /\ \A i \in 1 .. Len(rest) : rest[i] = b[i]
        BY <1>1, <1>2, <3>1
      <3>3. QED
        BY <3>2, SeqEqual
    <2>2. << >> \o rest = rest
      BY <1>3, ConcatEmptySeq
    <2>3. QED
      BY <1>6, <2>1, <2>2, Zenon
  <1>7. ASSUME b = << >> PROVE name \o rest = name
    <2>1. rest = << >>
      <3>1. n = 0
        BY <1>1, <1>7
      <3>2. Len(rest) = 0
        BY <1>1, <1>2, <3>1
      <3>3. QED
        BY <1>3, <3>2
    <2>2. name \o << >> = name
      BY ConcatEmptySeq
    <2>3. QED
      BY <2>1, <2>2, Zenon
  <1>8. QED
    BY <1>4, <1>5, <1>6, <1>7, Zenon

\* A name is a text.
LEMMA FunctionTyped ==
    ASSUME NEW i \in 1 .. Len(Symbols)
    PROVE  Function(AsRead(Symbols, i)) \in Seq(Nat)
  <1>1. PICK line : line = AsRead(Symbols, i)
    OBVIOUS
  <1>2. PICK s \in Seq(Seq(Nat)) : s = Symbols[i] /\ Len(s) \in {3, 4}
    BY SymbolIs
  <1>3. Len(line) = Len(s) /\ \A k \in 2 .. Len(line) : strtok(line, k) = s[k]
    BY <1>1, <1>2, LineRead, Zenon
  <1>4. strtok(line, 3) \in Seq(Nat)
    <2>1. 3 \in 2 .. Len(line) /\ 3 \in 1 .. Len(s)
      <3>1. \A n \in {3, 4} : 3 \in 2 .. n /\ 3 \in 1 .. n
        OBVIOUS
      <3>2. QED
        BY <1>2, <1>3, <3>1, Zenon
    <2>2. QED
      BY <1>3, <2>1
  <1>5. strtok(line, 4) \in Seq(Nat)
    <2>1. CASE Len(s) = 4
      <3>1. 4 \in 2 .. Len(line) /\ 4 \in 1 .. Len(s)
        BY <1>3, <2>1
      <3>2. QED
        BY <1>3, <3>1
    <2>2. CASE Len(s) = 3
      <3>1. strtok(line, 4) = << >>
        BY <1>3, <2>2 DEF strtok
      <3>2. << >> \in Seq(Nat)
        OBVIOUS
      <3>3. QED
        BY <3>1, <3>2, Zenon
    <2>3. QED
      BY <1>2, <2>1, <2>2
  <1>6. QED
    BY <1>1, <1>4, <1>5, Zenon DEF Function

\* A line leaves a text in the buffer.
LEMMA SearchedTyped ==
    ASSUME NEW i \in 1 .. Len(Symbols), NEW b \in Seq(Nat), NEW ptr
    PROVE  Searched(b, AsRead(Symbols, i), ptr) \in Seq(Nat)
  <1>1. Function(AsRead(Symbols, i)) \in Seq(Nat)
    BY FunctionTyped, Zenon
  <1>2. memcpy(b, Function(AsRead(Symbols, i))) \in Seq(Nat)
    BY <1>1, Copied, Zenon
  <1>3. QED
    BY <1>2, Zenon DEF Searched

\* The loop of find_symbols.
Searches(f, n, ptr) ==
    /\ f \in [0 .. n -> Seq(Nat)] /\ f[0] = << >>
    /\ \A i \in 1 .. n : f[i] = Searched(f[i - 1], AsRead(Symbols, i), ptr)

\* find_symbols returns what its loop leaves in the buffer.
LEMMA FindCourse ==
    ASSUME NEW ptr, NEW n \in Nat, Len(Symbols) = n + 1
    PROVE  \E f : Searches(f, n, ptr) /\ find_symbols(Symbols, ptr) = f[n]
  <1> DEFINE body(h) ==
        [i \in 0 .. n |-> IF i = 0 THEN << >> ELSE Searched(h[i - 1], AsRead(Symbols, i), ptr)]
  <1>0. Symbols # << >> /\ Len(Symbols) - 1 = n /\ \A i \in 1 .. n : i \in 1 .. Len(Symbols)
    OBVIOUS
  <1>1. PICK f : f = CHOOSE h : h = body(h)
    OBVIOUS
  <1>2. find_symbols(Symbols, ptr) = f[n]
    BY <1>0, <1>1, Zenon DEF find_symbols
  <1>7. ASSUME NEW y \in Seq(Nat), NEW i \in 1 .. n
        PROVE  Searched(y, AsRead(Symbols, i), ptr) \in Seq(Nat)
    BY <1>0, SearchedTyped, Zenon
  <1>3. \E h : h = body(h)
    <2>1. PICK step : step = [i \in 1 .. n |-> [y \in Seq(Nat) |-> Searched(y, AsRead(Symbols, i), ptr)]]
      OBVIOUS
    <2>2. Turning(Seq(Nat), n, step)
      BY <1>7, <2>1, Zenon DEF Turning
    <2>3. PICK h \in [0 .. n -> Seq(Nat)] : h[0] = << >> /\ \A i \in 1 .. n : h[i] = step[i][h[i - 1]]
      <3>1. << >> \in Seq(Nat)
        OBVIOUS
      <3>2. PICK h : Runs(h, Seq(Nat), << >>, n, step)
        BY <2>2, <3>1, Course, Zenon
      <3>3. QED
        BY <3>2, Zenon DEF Runs
    <2>4. ASSUME NEW i \in 1 .. n PROVE h[i] = Searched(h[i - 1], AsRead(Symbols, i), ptr)
      <3>1. i - 1 \in 0 .. n
        OBVIOUS
      <3>2. h[i - 1] \in Seq(Nat)
        BY <2>3, <3>1, Zenon
      <3>3. step[i][h[i - 1]] = Searched(h[i - 1], AsRead(Symbols, i), ptr)
        BY <2>1, <3>2, Zenon
      <3>4. QED
        BY <2>3, <3>3, Zenon
    <2>5. h = body(h)
      <3>1. \A i \in 0 .. n : h[i] = IF i = 0 THEN << >> ELSE Searched(h[i - 1], AsRead(Symbols, i), ptr)
        <4>1. \A i \in 0 .. n : i = 0 \/ i \in 1 .. n
          OBVIOUS
        <4>2. 0 \notin 1 .. n
          OBVIOUS
        <4>3. QED
          BY <2>3, <2>4, <4>1, <4>2, Zenon
      <3>2. QED
        BY <2>3, <3>1, Zenon
    <2>6. QED
      BY <2>5
  <1>4. f = body(f)
    BY <1>1, <1>3
  <1>5. f[0] = << >> /\ \A i \in 1 .. n : f[i] = Searched(f[i - 1], AsRead(Symbols, i), ptr)
    <2>1. 0 \in 0 .. n /\ \A i \in 1 .. n : i \in 0 .. n /\ i # 0
      OBVIOUS
    <2>2. \A i \in 0 .. n : f[i] = IF i = 0 THEN << >> ELSE Searched(f[i - 1], AsRead(Symbols, i), ptr)
      BY <1>4, Zenon
    <2>3. QED
      BY <2>1, <2>2, Zenon
  <1>6. f \in [0 .. n -> Seq(Nat)]
    <2> DEFINE R == {k \in Nat : f[k] \in Seq(Nat)}
    <2>1. 0 \in R
      <3>1. << >> \in Seq(Nat) /\ 0 \in Nat
        OBVIOUS
      <3>2. QED
        BY <1>5, <3>1, Zenon
    <2>2. ASSUME NEW k \in 1 .. n, k - 1 \in R PROVE k \in R
      <3>1. f[k - 1] \in Seq(Nat) /\ f[k] = Searched(f[k - 1], AsRead(Symbols, k), ptr) /\ k \in Nat
        BY <1>5, <2>2
      <3>2. f[k] \in Seq(Nat)
        BY <1>7, <3>1, Zenon
      <3>3. QED
        BY <3>1, <3>2
    <2>3. \A k \in 0 .. n : k \in R
      <3> HIDE DEF R
      <3>1. QED
        BY <2>1, <2>2, Upwards
    <2>4. QED
      BY <1>4, <2>3
  <1>8. QED
    BY <1>2, <1>5, <1>6, Zenon DEF Searches

\* No other line of the table changes the buffer.
LEMMA OthersPass ==
    ASSUME NEW ptr \in Nat, NEW l \in FunctionsAt(ptr), FunctionsBefore(ptr) = {},
           NEW i \in 1 .. Len(Symbols), i # l, NEW b \in Seq(Nat)
    PROVE  Searched(b, AsRead(Symbols, i), ptr) = b
  <1>1. PICK line : line = AsRead(Symbols, i)
    OBVIOUS
  <1>2. l \in Sized /\ ptr \in First[l] .. Behind[l] - 1
    BY DEF FunctionsAt
  <1>3. PICK fl \in Nat, el \in Nat, fi \in Nat : fl = First[l] /\ el = Behind[l] /\ fi = First[i]
    <2>1. First[l] \in Nat /\ Behind[l] \in Nat
      BY <1>2, SizedIs, SymbolIs, Zenon
    <2>2. First[i] \in Nat
      BY SymbolIs, Zenon
    <2>3. QED
      BY <2>1, <2>2, Zenon
  <1>4. fl <= ptr /\ ptr < el
    BY <1>2, <1>3
  <1>5. CASE i \in Sized
    <2>1. PICK ei \in Nat : ei = Behind[i]
      BY <1>5, SizedIs
    <2>2. fi \notin fl .. el - 1 /\ fl \notin fi .. ei - 1
      <3>1. l \in 1 .. Len(Symbols) /\ l \in Sized \ {i} /\ i \in Sized \ {l}
        BY <1>2, <1>5, SizedIs
      <3>2. First[i] \notin First[l] .. Behind[l] - 1 /\ First[l] \notin First[i] .. Behind[i] - 1
        BY <1>2, <1>5, <3>1, SymbolsAssumption, Zenon
      <3>3. QED
        BY <1>3, <2>1, <3>2
    <2>3. ptr # ei
      BY <1>5, <2>1 DEF FunctionsBefore
    <2>4. ~(fi <= ptr /\ ei >= ptr)
      BY <1>4, <2>2, <2>3
    <2>5. ~Covers(line, ptr)
      BY <1>1, <1>3, <1>5, <2>1, <2>4, SizedCovers, Zenon
    <2>6. QED
      BY <1>1, <2>5, Zenon DEF Searched
  <1>6. CASE i \notin Sized /\ Sizeless(Symbols[i])
    <2>1. fi \notin fl .. el - 1
      <3>1. l \in Sized \ {i}
        BY <1>2, <1>6
      <3>2. First[i] \notin First[l] .. Behind[l] - 1
        BY <1>6, <3>1, SymbolsAssumption, Zenon
      <3>3. QED
        BY <1>3, <3>2
    <2>2. ptr # fi
      BY <1>4, <2>1
    <2>3. ~Covers(line, ptr)
      BY <1>1, <1>3, <1>6, <2>2, UnsizedCovers, Zenon
    <2>4. QED
      BY <1>1, <2>3, Zenon DEF Searched
  <1>7. CASE i \notin Sized /\ ~Sizeless(Symbols[i])
    <2>1. Function(line) = << >> /\ Function(line) \in Seq(Nat)
      BY <1>1, <1>7, UnsizedCovers, FunctionTyped, Zenon
    <2>2. memcpy(b, Function(line)) = b
      BY <2>1, Copied, Zenon
    <2>3. QED
      BY <1>1, <2>2, Zenon DEF Searched
  <1>8. QED
    BY <1>5, <1>6, <1>7

\* The function of an address is found, if it is not the last of the table and
\* none ends right before the address.
LEMMA Found ==
    ASSUME NEW ptr \in Nat, NEW l \in FunctionsAt(ptr), FunctionsBefore(ptr) = {},
           l # Len(Symbols)
    PROVE  find_symbols(Symbols, ptr) = Symbols[l][4]
  <1>1. l \in Sized /\ ptr \in First[l] .. Behind[l] - 1
    BY DEF FunctionsAt
  <1>2. l \in 1 .. Len(Symbols) /\ Len(Symbols) \in Nat
    BY <1>1, SizedIs, SymbolsAssumption, SMTT(60)
  <1>3. PICK n \in Nat : Len(Symbols) = n + 1 /\ l \in 1 .. n
    <2>1. Len(Symbols) - 1 \in Nat /\ Len(Symbols) = (Len(Symbols) - 1) + 1 /\ l \in 1 .. Len(Symbols) - 1
      BY <1>2
    <2>2. QED
      BY <2>1
  <1>4. PICK f : Searches(f, n, ptr) /\ find_symbols(Symbols, ptr) = f[n]
    BY <1>3, FindCourse, Zenon
  <1>5. PICK name \in Seq(Nat) : name = Symbols[l][4] /\ name = Function(AsRead(Symbols, l))
    <2>1. Function(AsRead(Symbols, l)) = Symbols[l][4]
      BY <1>1, SizedCovers, Zenon
    <2>2. Function(AsRead(Symbols, l)) \in Seq(Nat)
      BY <1>2, FunctionTyped, Zenon
    <2>3. QED
      BY <2>1, <2>2, Zenon
  <1>6. \A i \in 1 .. n : i \in 1 .. Len(Symbols)
    BY <1>3
  <1> DEFINE R == {i \in Nat : f[i] = IF i < l THEN << >> ELSE name}
  <1>7. 0 \in R
    <2>1. 0 < l /\ f[0] = << >> /\ 0 \in Nat
      BY <1>3, <1>4 DEF Searches
    <2>2. QED
      BY <2>1, Zenon
  <1>8. ASSUME NEW i \in 1 .. n, i - 1 \in R PROVE i \in R
    <2>1. f[i] = Searched(f[i - 1], AsRead(Symbols, i), ptr) /\ f[i - 1] \in Seq(Nat)
      <3>1. i - 1 \in 0 .. n
        OBVIOUS
      <3>2. QED
        BY <1>4, <3>1, Zenon DEF Searches
    <2>2. f[i - 1] = (IF i - 1 < l THEN << >> ELSE name)
      BY <1>8, Zenon
    <2>3. CASE i = l
      <3>1. f[i - 1] = << >>
        <4>1. i - 1 < l
          BY <1>3, <2>3
        <4>2. QED
          BY <2>2, <4>1, Zenon
      <3>2. Covers(AsRead(Symbols, l), ptr)
        <4>1. First[l] <= ptr /\ Behind[l] >= ptr
          <5>1. First[l] \in Nat /\ Behind[l] \in Nat
            BY <1>1, <1>2, SizedIs, SymbolIs, Zenon
          <5>2. QED
            BY <1>1, <5>1
        <4>2. QED
          BY <1>1, <4>1, SizedCovers, Zenon
      <3>3. f[i] = memcpy(f[i - 1], name)
        BY <1>5, <2>1, <2>3, <3>2, Zenon DEF Searched
      <3>4. f[i] = name
        BY <2>1, <3>1, <3>3, Copied, Zenon
      <3>5. ~(i < l) /\ i \in Nat
        BY <1>3, <2>3
      <3>6. QED
        BY <3>4, <3>5, Zenon
    <2>4. CASE i # l
      <3>1. f[i] = f[i - 1]
        BY <1>6, <2>1, <2>4, OthersPass, Zenon
      <3>2. i - 1 < l <=> i < l
        BY <1>3, <2>4
      <3>3. i \in Nat
        OBVIOUS
      <3>4. QED
        BY <2>2, <3>1, <3>2, <3>3, Zenon
    <2>5. QED
      BY <2>3, <2>4
  <1>9. \A i \in 0 .. n : i \in R
    <2> HIDE DEF R
    <2>1. QED
      BY <1>7, <1>8, Upwards
  <1>10. f[n] = name
    <2>1. n \in 0 .. n /\ ~(n < l)
      BY <1>3
    <2>2. QED
      BY <1>9, <2>1, Zenon
  <1>11. QED
    BY <1>4, <1>5, <1>10, Zenon

-----------------------------------------------------------------------------
(***************************************************************************)
(* The lines.                                                              *)
(***************************************************************************)

\* A slot reads back as its argument; the name of a function stands behind its
\* address, the first argument.
SlotReads(mode, arg, text, i, first) ==
    LET u == IF arg.type = "FMT_DECIMAL" THEN Unsigned(arg.value) ELSE 0
    IN  /\ mode = "a" => Len(text) = 2 * HALF /\ (Exact(u) => hex2int(text) = u)
        /\ mode = "M" =>
             LET n == atoi(SubSeq(text, 1, Len(text) - Len(Unit(arg.value))))
             IN  n * Scale(arg.value) <= u /\ u < (n + 1) * Scale(arg.value)
        /\ mode = "" /\ arg.type = "FMT_DECIMAL" /\ arg.value >= 0 => atoi(text) = u
        /\ mode = "" /\ arg.type = "FMT_STRING" /\ i = 2 =>
             LET rip == Unsigned(first.value)
             IN  \A line \in FunctionsAt(rip) :
                   FunctionsBefore(rip) = {} /\ line # Len(Symbols) =>
                       text = Symbols[line][4]

Legible(line) ==
    \A i \in 1 .. Len(line.format) :
        SlotReads(line.format[i], line.args[i], PRINT_FORMAT(line.format, line.args)[i], i,
                  line.args[1])

\* What the property says of the line that was printed last.
LEMMA PrintedIsLegible ==
    ASSUME printed # << >> => Legible(printed)
    PROVE  PrintedReadsBack
  BY DEF PrintedReadsBack, Legible, SlotReads

\* Pids and addresses.
Address == 0 .. Word - 1

\* A slot {a}.
LEMMA SlotAddress ==
    ASSUME NEW a \in Address, NEW i, NEW first
    PROVE  SlotReads("a", fmtvald(a), Slot("a", fmtvald(a)), i, first)
  <1>1. PICK text : text = Slot("a", fmtvald(a))
    OBVIOUS
  <1>2. Len(text) = 2 * HALF /\ (Exact(a) => hex2int(text) = a)
    BY <1>1, AddressReadsBack, Zenon DEF Address
  <1>3. PICK arg : arg = fmtvald(a)
    OBVIOUS
  <1>4. arg.type = "FMT_DECIMAL" /\ Unsigned(arg.value) = a
    <2>1. Unsigned(Signed(a)) = a
      BY Signs, Zenon DEF Address
    <2>2. QED
      BY <1>3, <2>1 DEF fmtvald
  <1>5. "a" # "M" /\ "a" # ""
    OBVIOUS
  <1>6. SlotReads("a", arg, text, i, first)
    BY <1>2, <1>4, <1>5, Zenon DEF SlotReads
  <1>7. QED
    BY <1>1, <1>3, <1>6, Zenon

\* A slot {M}.
LEMMA SlotAmount ==
    ASSUME NEW u \in Nat, u < Word \div 2, NEW i, NEW first
    PROVE  SlotReads("M", fmtvald(u), Slot("M", fmtvald(u)), i, first)
  <1>1. PICK text : text = Slot("M", fmtvald(u))
    OBVIOUS
  <1>2. PICK n : n = atoi(SubSeq(text, 1, Len(text) - Len(Unit(u))))
    OBVIOUS
  <1>3. n * Scale(u) <= u /\ u < (n + 1) * Scale(u)
    BY <1>1, <1>2, AmountReadsBack, Zenon
  <1>4. PICK arg : arg = fmtvald(u)
    OBVIOUS
  <1>5. arg.type = "FMT_DECIMAL" /\ arg.value = u /\ Unsigned(arg.value) = u
    <2>1. u \in 0 .. Word - 1
      BY Halves
    <2>2. Signed(u) = u /\ Unsigned(Signed(u)) = u
      BY <2>1, Signs
    <2>3. QED
      BY <1>4, <2>2 DEF fmtvald
  <1>6. "M" # "a" /\ "M" # ""
    OBVIOUS
  <1>7. SlotReads("M", arg, text, i, first)
    BY <1>2, <1>3, <1>5, <1>6, Zenon DEF SlotReads
  <1>8. QED
    BY <1>1, <1>4, <1>7, Zenon

\* A slot {} with a number.
LEMMA SlotNumber ==
    ASSUME NEW a \in Address, NEW i, NEW first
    PROVE  SlotReads("", fmtvald(a), Slot("", fmtvald(a)), i, first)
  <1>1. PICK text : text = Slot("", fmtvald(a))
    OBVIOUS
  <1>2. PICK arg : arg = fmtvald(a)
    OBVIOUS
  <1>3. arg.type = "FMT_DECIMAL" /\ "FMT_DECIMAL" # "FMT_STRING" /\ arg.value = Signed(a)
    BY <1>2 DEF fmtvald
  <1>4. Unsigned(arg.value) = a
    BY <1>3, Signs, Zenon DEF Address
  <1>5. "" # "a" /\ "" # "M" /\ "" # "x"
    OBVIOUS
  <1>6. text = itoa(arg.value, 10)
    BY <1>1, <1>2, <1>3, <1>5, Zenon DEF Slot
  <1>7. ASSUME arg.value >= 0 PROVE atoi(text) = a
    <2>1. a \in Nat /\ Signed(a) = a
      BY <1>3, <1>7, Signs, Zenon DEF Address
    <2>2. QED
      BY <1>3, <1>6, <2>1, DecimalReadsBack, Zenon
  <1>8. SlotReads("", arg, text, i, first)
    BY <1>3, <1>4, <1>5, <1>7, Zenon DEF SlotReads
  <1>9. QED
    BY <1>1, <1>2, <1>8, Zenon

\* A slot {} with a text that is no name.
LEMMA SlotMessage ==
    ASSUME NEW s, NEW first
    PROVE  SlotReads("", fmtvals(s), Slot("", fmtvals(s)), 1, first)
  <1>1. PICK arg : arg = fmtvals(s)
    OBVIOUS
  <1>2. arg.type # "FMT_DECIMAL" /\ "" # "a" /\ "" # "M" /\ 1 # 2
    BY <1>1 DEF fmtvals
  <1>3. QED
    BY <1>1, <1>2, Zenon DEF SlotReads

\* A slot {} with the name of the function of an address.
LEMMA SlotName ==
    ASSUME NEW a \in Address
    PROVE  LET arg == fmtvals(find_symbols(Symbols, a))
           IN  SlotReads("", arg, Slot("", arg), 2, fmtvald(a))
  <1>1. PICK name : name = find_symbols(Symbols, a)
    OBVIOUS
  <1>2. PICK arg : arg = fmtvals(name)
    OBVIOUS
  <1>3. arg.type = "FMT_STRING" /\ arg.type # "FMT_DECIMAL" /\ arg.str = name /\ "" # "a" /\ "" # "M"
    BY <1>2 DEF fmtvals
  <1>4. Slot("", arg) = name
    BY <1>3, Zenon DEF Slot
  <1>5. Unsigned(fmtvald(a).value) = a
    <2>1. Unsigned(Signed(a)) = a
      BY Signs, Zenon DEF Address
    <2>2. QED
      BY <2>1 DEF fmtvald
  <1>6. a \in Nat
    BY Halves DEF Address
  <1>7. ASSUME NEW l \in FunctionsAt(a), FunctionsBefore(a) = {}, l # Len(Symbols)
        PROVE  name = Symbols[l][4]
    BY <1>1, <1>6, <1>7, Found, Zenon
  <1>8. SlotReads("", arg, name, 2, fmtvald(a))
    BY <1>3, <1>5, <1>7, Zenon DEF SlotReads
  <1>9. QED
    BY <1>1, <1>2, <1>4, <1>8, Zenon

\* Lines of one slot and of two.
LEMMA OneSlot ==
    ASSUME NEW m, NEW x, SlotReads(m, x, Slot(m, x), 1, x)
    PROVE  Legible(Line(<< m >>, << x >>))
  <1>1. PICK line : line = Line(<< m >>, << x >>)
    OBVIOUS
  <1>2. line.format = << m >> /\ line.args = << x >>
    BY <1>1 DEF Line
  <1>3. 1 .. Len(line.format) = {1} /\ line.format[1] = m /\ line.args[1] = x
    BY <1>2
  <1>4. PRINT_FORMAT(line.format, line.args)[1] = Slot(m, x)
    <2>1. 1 \in 1 .. Len(line.format) /\ 1 <= Len(line.args)
      BY <1>2
    <2>2. QED
      BY <1>3, <2>1, Zenon DEF PRINT_FORMAT
  <1>5. QED
    BY <1>1, <1>3, <1>4, Zenon DEF Legible

\* Each slot reads back, the second one also as the name of the first.
LEMMA TwoSlots ==
    ASSUME NEW m, NEW x, NEW k, NEW y,
           SlotReads(m, x, Slot(m, x), 1, x), SlotReads(k, y, Slot(k, y), 2, x)
    PROVE  Legible(Line(<< m, k >>, << x, y >>))
  <1>1. PICK line : line = Line(<< m, k >>, << x, y >>)
    OBVIOUS
  <1>2. line.format = << m, k >> /\ line.args = << x, y >>
    BY <1>1 DEF Line
  <1>3. /\ 1 .. Len(line.format) = {1, 2} /\ line.format[1] = m /\ line.args[1] = x
        /\ line.format[2] = k /\ line.args[2] = y
    BY <1>2
  <1>4. PRINT_FORMAT(line.format, line.args)[1] = Slot(m, x)
    <2>1. 1 \in 1 .. Len(line.format) /\ 1 <= Len(line.args)
      BY <1>2
    <2>2. QED
      BY <1>3, <2>1, Zenon DEF PRINT_FORMAT
  <1>5. PRINT_FORMAT(line.format, line.args)[2] = Slot(k, y)
    <2>1. 2 \in 1 .. Len(line.format) /\ 2 <= Len(line.args)
      BY <1>2
    <2>2. QED
      BY <1>3, <2>1, Zenon DEF PRINT_FORMAT
  <1>6. QED
    BY <1>1, <1>3, <1>4, <1>5, Zenon DEF Legible

\* The lines the kernel prints: exception, number, registers, address with its
\* function, caller without one, and the memory of the machine.
Message == {Line(<< "" >>, << fmtvals(<< 64 + n >>) >>) : n \in Nat}

Number == {Line(<< "" >>, << fmtvald(a) >>) : a \in Address}

Registers == {Line(<< "a", "a" >>, << fmtvald(ab[1]), fmtvald(ab[2]) >>) : ab \in Address \X Address}

Named == {Line(<< "a", "" >>, << fmtvald(a), fmtvals(find_symbols(Symbols, a)) >>) : a \in Address}

Nameless == {Line(<< "a" >>, << fmtvald(a) >>) : a \in Address}

Amount == {Line(<< "M", "" >>, << fmtvald(n * PAGE_SIZE), fmtvald(n) >>) : n \in Pages}

Lines == Message \cup Number \cup Registers \cup Named \cup Nameless \cup Amount

\* Every one of them reads back.
LEMMA LinesAreLegible ==
    ASSUME NEW line \in Lines
    PROVE  Legible(line)
  <1>1. CASE line \in Message
    BY <1>1, SlotMessage, OneSlot, Zenon DEF Message
  <1>2. CASE line \in Number
    BY <1>2, SlotNumber, OneSlot, Zenon DEF Number
  <1>3. CASE line \in Registers
    <2>1. PICK a \in Address, b \in Address : line = Line(<< "a", "a" >>, << fmtvald(a), fmtvald(b) >>)
      BY <1>3 DEF Registers
    <2>2. QED
      BY <2>1, SlotAddress, TwoSlots, Zenon
  <1>4. CASE line \in Named
    <2>1. PICK a \in Address :
             line = Line(<< "a", "" >>, << fmtvald(a), fmtvals(find_symbols(Symbols, a)) >>)
      BY <1>4 DEF Named
    <2>2. SlotReads("a", fmtvald(a), Slot("a", fmtvald(a)), 1, fmtvald(a))
      BY SlotAddress, Zenon
    <2>3. PICK arg : arg = fmtvals(find_symbols(Symbols, a))
      OBVIOUS
    <2>4. SlotReads("", arg, Slot("", arg), 2, fmtvald(a))
      BY <2>3, SlotName, Zenon
    <2>5. QED
      BY <2>1, <2>2, <2>3, <2>4, TwoSlots, Zenon
  <1>5. CASE line \in Nameless
    BY <1>5, SlotAddress, OneSlot, Zenon DEF Nameless
  <1>6. CASE line \in Amount
    <2>1. PICK n \in Pages : line = Line(<< "M", "" >>, << fmtvald(n * PAGE_SIZE), fmtvald(n) >>)
      BY <1>6 DEF Amount
    <2>2. PICK size \in Nat \ {0}, w \in Nat \ {0} :
             size = PAGE_SIZE /\ w = Word /\ n \in Nat /\ n * size < Word \div 2
      BY WordAssumption, Halves
    <2>3. PICK u \in Nat : u = n * size /\ n <= u
      <3>1. n * size \in Nat /\ n <= n * size
        BY SMTT(30), <2>2
      <3>2. QED
        BY <3>1
    <2>4. u < Word \div 2 /\ n \in Address
      BY <2>2, <2>3 DEF Address
    <2>5. SlotReads("M", fmtvald(u), Slot("M", fmtvald(u)), 1, fmtvald(u))
      BY <2>4, SlotAmount, Zenon
    <2>6. SlotReads("", fmtvald(n), Slot("", fmtvald(n)), 2, fmtvald(u))
      BY <2>4, SlotNumber, Zenon
    <2>7. line = Line(<< "M", "" >>, << fmtvald(u), fmtvald(n) >>)
      BY <2>1, <2>2, <2>3, Zenon
    <2>8. QED
      BY <2>5, <2>6, <2>7, TwoSlots, Zenon
  <1>7. QED
    BY <1>1, <1>2, <1>3, <1>4, <1>5, <1>6, Zenon DEF Lines

\* The name of an address of the report is what find_symbols finds.
LEMMA NameOfIs ==
    ASSUME NEW site \in Site
    PROVE  /\ NameOf[site.rip] = find_symbols(Symbols, site.rip)
           /\ \A i \in 1 .. Len(site.callers) :
                NameOf[site.callers[i]] = find_symbols(Symbols, site.callers[i])
  <1> DEFINE D == UNION {{s.rip} \cup ToSet(s.callers) : s \in Site}
  <1>1. NameOf = [rip \in D |-> find_symbols(Symbols, rip)]
    BY Zenon DEF NameOf
  <1>2. site.rip \in D
    OBVIOUS
  <1>3. ASSUME NEW i \in 1 .. Len(site.callers) PROVE site.callers[i] \in D
    <2>1. site.callers \in Seq(0 .. Word - 1)
      BY WordAssumption
    <2>2. i \in DOMAIN site.callers
      BY <2>1
    <2>3. site.callers[i] \in ToSet(site.callers)
      BY <2>2 DEF ToSet
    <2>4. QED
      BY <2>3
  <1> HIDE DEF D
  <1>4. QED
    BY <1>1, <1>2, <1>3, Zenon

\* A report is made of such lines.
LEMMA ReportTyped ==
    ASSUME NEW site \in Site, NEW intno \in Nat, current_pid \in Process
    PROVE  Report(site, intno) \in Seq(Lines)
  <1>0. site.rip \in Address /\ site.cr2 \in Address /\ site.callers \in Seq(Address)
    BY WordAssumption, Zenon DEF Address
  <1>1. current_pid \in Address /\ 0 \in Address
    <2>1. 0 \in Address
      BY Halves DEF Address
    <2>2. QED
      BY <2>1, WordAssumption DEF Address, Process
  <1>2. PICK a : a = << Line(<< "" >>, << fmtvals(<< 64 + intno >>) >>),
                        Line(<< "" >>, << fmtvald(0) >>),
                        Line(<< "a", "a" >>, << fmtvald(site.rip), fmtvald(site.cr2) >>),
                        Line(<< "a", "" >>, << fmtvald(site.rip), fmtvals(NameOf[site.rip]) >>) >>
    OBVIOUS
  <1>3. a \in Seq(Lines)
    <2>1. Line(<< "" >>, << fmtvals(<< 64 + intno >>) >>) \in Lines
      BY Zenon DEF Lines, Message
    <2>2. Line(<< "" >>, << fmtvald(0) >>) \in Lines
      BY <1>1, Zenon DEF Lines, Number
    <2>3. Line(<< "a", "a" >>, << fmtvald(site.rip), fmtvald(site.cr2) >>) \in Lines
      <3>1. PICK ab \in Address \X Address : ab[1] = site.rip /\ ab[2] = site.cr2
        <4>1. PICK x \in Address, y \in Address : x = site.rip /\ y = site.cr2
          BY <1>0
        <4>2. << x, y >> \in Address \X Address /\ << x, y >>[1] = x /\ << x, y >>[2] = y
          OBVIOUS
        <4>3. QED
          BY <4>1, <4>2, Zenon
      <3>2. Line(<< "a", "a" >>, << fmtvald(ab[1]), fmtvald(ab[2]) >>) \in Registers
        BY Zenon DEF Registers
      <3>3. QED
        BY <3>1, <3>2, Zenon DEF Lines
    <2>4. Line(<< "a", "" >>, << fmtvald(site.rip), fmtvals(NameOf[site.rip]) >>) \in Lines
      BY <1>0, NameOfIs, Zenon DEF Lines, Named
    <2>5. \A x \in Lines, y \in Lines, z \in Lines, t \in Lines : << x, y, z, t >> \in Seq(Lines)
      OBVIOUS
    <2>6. QED
      BY <1>2, <2>1, <2>2, <2>3, <2>4, <2>5, Zenon
  <1>4. PICK b : b = IF is_scheduler THEN << Line(<< "" >>, << fmtvald(current_pid) >>) >> ELSE << >>
    OBVIOUS
  <1>5. b \in Seq(Lines)
    <2>1. Line(<< "" >>, << fmtvald(current_pid) >>) \in Lines
      BY <1>1, Zenon DEF Lines, Number
    <2>2. << >> \in Seq(Lines) /\ \A x \in Lines : << x >> \in Seq(Lines)
      OBVIOUS
    <2>3. QED
      BY <1>4, <2>1, <2>2, Zenon
  <1>6. PICK c : c = backtrace(site.callers)
    OBVIOUS
  <1>7. c \in Seq(Lines)
    <2>1. PICK n \in Nat : n = Len(site.callers)
      BY <1>0
    <2>2. ASSUME NEW i \in 1 .. n
          PROVE  (IF NameOf[site.callers[i]] = << >> THEN Line(<< "a" >>, << fmtvald(site.callers[i]) >>)
                  ELSE Line(<< "a", "" >>, << fmtvald(site.callers[i]), fmtvals(NameOf[site.callers[i]]) >>))
                 \in Lines
      <3>1. PICK x \in Address : x = site.callers[i]
        BY <1>0, <2>1
      <3>2. NameOf[x] = find_symbols(Symbols, x)
        BY <2>1, <3>1, NameOfIs, Zenon
      <3>3. Line(<< "a" >>, << fmtvald(x) >>) \in Lines
        BY Zenon DEF Lines, Nameless
      <3>4. Line(<< "a", "" >>, << fmtvald(x), fmtvals(NameOf[x]) >>) \in Lines
        BY <3>2, Zenon DEF Lines, Named
      <3>5. QED
        BY <3>1, <3>3, <3>4, Zenon
    <2>3. c \in [1 .. n -> Lines]
      BY <1>6, <2>1, <2>2, Zenon DEF backtrace
    <2>4. QED
      BY <2>3
  <1>8. Report(site, intno) = (a \o b) \o c
    BY <1>2, <1>4, <1>6, Zenon DEF Report
  <1>9. a \o b \in Seq(Lines)
    BY <1>3, <1>5, Joined, Zenon
  <1>10. (a \o b) \o c \in Seq(Lines)
    BY <1>7, <1>9, Joined, Zenon
  <1>11. QED
    BY <1>8, <1>10, Zenon

-----------------------------------------------------------------------------
USE UserAssumption, IrqAssumption, ExceptionAssumption

(***************************************************************************)
(* The invariant, as long as no switch was made from inside entry or exit  *)
(* code.                                                                   *)
(***************************************************************************)
Entered == {"handler", "scheduled", "answered", "report", "halted"}

ContextType == [at : Place \cup Entered, stack : Stack, depth : Nat, owner : Process,
                work : 0 .. 1, flag : BOOLEAN, intno : Nat]

TaskType == [state : {"TASK_RUNNING", "TASK_WAITINGFORDEATH"}, regs : ContextType]

CpuTyped ==
    /\ cpu \in ContextType
    /\ frames \in [Stack -> Seq(ContextType)]

\* Pids are given in order, process 0 never exits, GS follows the current
\* process, and a process that does not exist yet has not computed.
Pids ==
    /\ \E n \in Nat : DOMAIN process = 0 .. n
    /\ process \in [DOMAIN process -> TaskType]
    /\ DOMAIN process \subseteq Process
    /\ current_pid \in DOMAIN process /\ gs = current_pid
    /\ process[0].state = "TASK_RUNNING"
    /\ work \in [Process -> 0 .. 1]
    /\ \A p \in Process \ DOMAIN process : work[p] = 0

StackOf(at, p) ==
    CASE at = "kernel" -> << "kernel", 0 >>
      [] at \in {"body", "dying"} -> SysStack(p)
      [] OTHER -> UserStack(p)

\* c is the latest context of the code of process p.
Latest(c, p) ==
    /\ c.at \in Place /\ c.owner = p /\ c.work = work[p] /\ c.depth = 0
    /\ c.stack = StackOf(c.at, p)
    /\ c.at = "kernel" <=> p = 0

\* The CPU serves an interrupt it has not answered yet.
Serving(c) == c.at \in {"handler", "scheduled"} /\ c.intno >= 32

\* The innermost frame is the current process, the others are handlers that
\* serve nothing; each stands one frame below the next.
Nested ==
    /\ cpu.at \in Place => Latest(cpu, current_pid)
    /\ cpu.at \notin Place =>
         LET stack == frames[cpu.stack] IN
            /\ cpu.depth > 0 /\ Len(stack) = cpu.depth
            /\ Latest(stack[1], current_pid)
            /\ \A i \in 2 .. cpu.depth :
                 /\ stack[i].at \in {"handler", "answered", "report"}
                 /\ ~Serving(stack[i]) /\ stack[i].stack = cpu.stack /\ stack[i].depth = i - 1

\* Whoever can be switched to will go on where it stopped.
Suspended ==
    \A p \in DOMAIN process \ {current_pid} : Running(p) => Latest(process[p].regs, p)

\* Only stacks of system calls are freed, of processes that never run again.
FreedOK ==
    \A s \in freed : \E p \in User :
        s = SysStack(p) /\ p # current_pid /\ ~Running(p) /\ p \in DOMAIN process

\* One line is in service while an interrupt is served, and else none.
Service ==
    /\ Serving(cpu) =>
         /\ pic = [master |-> {MasterLine(cpu.intno - 32)},
                   slave |-> IF cpu.intno >= 40 THEN {cpu.intno - 32} ELSE {}]
         /\ cpu.flag => cpu.at = "scheduled" /\ cpu.intno = 32
    /\ ~Serving(cpu) /\ cpu.at # "halted" => pic = [master |-> {}, slave |-> {}]
    /\ cpu.at = "scheduled" => cpu.intno >= 32
    /\ cpu.at = "halted" => ~cpu.flag

\* Once there is a fault nothing but the report goes on.
Faulted == has_fault => cpu.at \in {"report", "handler", "halted"}

Core == CpuTyped /\ Pids /\ Nested /\ Suspended /\ FreedOK /\ Service /\ Faulted

IInv ==
    /\ strayed \in BOOLEAN /\ has_fault \in BOOLEAN
    /\ ~strayed => Core

-----------------------------------------------------------------------------
(***************************************************************************)
(* Contexts, stacks and frames.                                            *)
(***************************************************************************)

\* The fields of a context.
LEMMA Fields ==
    ASSUME NEW c \in ContextType
    PROVE  /\ c.at \in Place \cup Entered /\ c.stack \in Stack /\ c.depth \in Nat
           /\ c.owner \in Process /\ c.work \in 0 .. 1 /\ c.flag \in BOOLEAN /\ c.intno \in Nat
  BY DEF ContextType

\* Process code and handlers stand at different places.
LEMMA Apart == Place \cap Entered = {}
  BY DEF Place, Entered

\* What the CPU takes when it enters a gate is a context.
LEMMA ContextTyped ==
    ASSUME NEW s \in Stack, NEW d \in Nat, NEW n \in Nat, NEW b \in BOOLEAN
    PROVE  [Context("handler", s, d, 0, b) EXCEPT !.intno = n] \in ContextType
  BY DEF Context, ContextType, Process, Entered

\* A frame on top of the first d - 1 ones.
LEMMA OnTop ==
    ASSUME NEW T, NEW s \in Seq(T), NEW c \in T, NEW d \in Nat \ {0}, d - 1 <= Len(s),
           NEW t, t = Append(SubSeq(s, 1, d - 1), c)
    PROVE  /\ t \in Seq(T) /\ Len(t) = d /\ t[d] = c
           /\ \A i \in 1 .. d - 1 : t[i] = s[i]
  <1>1. /\ SubSeq(s, 1, d - 1) \in Seq(T) /\ Len(SubSeq(s, 1, d - 1)) = d - 1
        /\ \A i \in 1 .. d - 1 : SubSeq(s, 1, d - 1)[i] = s[i]
    OBVIOUS
  <1>2. QED
    BY <1>1

\* The frames after a frame was written.
LEMMA Written ==
    ASSUME CpuTyped, NEW s \in Stack, NEW d \in Nat \ {0}, d - 1 <= Len(frames[s]),
           NEW c \in ContextType, frames' = WithFrame(s, d, c)
    PROVE  /\ frames' \in [Stack -> Seq(ContextType)]
           /\ Len(frames'[s]) = d /\ frames'[s][d] = c
           /\ \A i \in 1 .. d - 1 : frames'[s][i] = frames[s][i]
  <1>1. frames[s] \in Seq(ContextType) /\ frames \in [Stack -> Seq(ContextType)]
    BY DEF CpuTyped
  <1>2. frames' = [frames EXCEPT ![s] = Append(SubSeq(frames[s], 1, d - 1), c)]
    BY <1>1 DEF WithFrame
  <1>3. PICK t : t = Append(SubSeq(frames[s], 1, d - 1), c)
    OBVIOUS
  <1>4. /\ t \in Seq(ContextType) /\ Len(t) = d /\ t[d] = c
        /\ \A i \in 1 .. d - 1 : t[i] = frames[s][i]
    BY <1>1, <1>3, OnTop
  <1>5. frames' = [frames EXCEPT ![s] = t]
    BY <1>2, <1>3
  <1>6. QED
    BY <1>1, <1>4, <1>5

\* A process whose code is not the kernel's is a user's, with stacks of its own.
LEMMA StackTyped ==
    ASSUME NEW p \in Process, NEW at, at = "kernel" <=> p = 0
    PROVE  StackOf(at, p) \in Stack
  BY DEF StackOf, Stack, Process

\* The running process has its stack.
LEMMA NotFreed ==
    ASSUME Pids, FreedOK, NEW at
    PROVE  StackOf(at, current_pid) \notin freed
  <1>1. ASSUME NEW p \in User, StackOf(at, current_pid) = SysStack(p) PROVE p = current_pid
    BY <1>1 DEF StackOf, SysStack, UserStack
  <1>2. QED
    BY <1>1 DEF FreedOK

-----------------------------------------------------------------------------
(***************************************************************************)
(* What the steps of handlers have in common.                              *)
(***************************************************************************)
Tasks == << process, current_pid, gs, work, freed >>

\* What is said of processes alone, in a step that changes none.
LEMMA TasksStay ==
    ASSUME Pids, Suspended, FreedOK, UNCHANGED Tasks
    PROVE  Pids' /\ Suspended' /\ FreedOK'
  BY DEF Tasks, Pids, Suspended, FreedOK, Running, Latest

\* Entering a gate from process code, or from a handler that serves nothing.
LEMMA Entering ==
    ASSUME Core, NEW n \in Nat, interrupt(n), UNCHANGED Tasks,
           ~Serving(cpu), cpu.at \notin {"scheduled", "halted"}
    PROVE  /\ CpuTyped' /\ Nested'
           /\ cpu'.at = "handler" /\ cpu'.intno = n /\ cpu'.flag = FlagBehind(n)
  <1>1. CpuTyped /\ Nested /\ Pids
    BY DEF Core
  <1>2. cpu \in ContextType /\ frames \in [Stack -> Seq(ContextType)]
    BY <1>1 DEF CpuTyped
  <1>3. PICK s \in Stack, d \in Nat \ {0} : s = FrameAt[1] /\ d = FrameAt[2]
    <2>1. cpu.stack \in Stack /\ IntStack \in Stack /\ cpu.depth \in Nat
      BY <1>2, Fields DEF Stack
    <2>2. FrameAt[1] \in Stack /\ FrameAt[2] \in Nat \ {0}
      BY <2>1 DEF FrameAt
    <2>3. QED
      BY <2>2
  <1>4. FlagBehind(n) \in BOOLEAN
    BY <1>2, Fields DEF FlagBehind
  <1>5. cpu' = [Context("handler", s, d, 0, FlagBehind(n)) EXCEPT !.intno = n]
    BY <1>3 DEF interrupt
  <1>6. /\ cpu' \in ContextType /\ cpu'.at = "handler" /\ cpu'.intno = n
        /\ cpu'.flag = FlagBehind(n) /\ cpu'.stack = s /\ cpu'.depth = d
    BY <1>4, <1>5, ContextTyped DEF Context
  <1>7. frames' = WithFrame(s, d, cpu)
    BY <1>3 DEF interrupt
  <1>8. CASE cpu.at \in Place
    <2>1. d = 1
      BY <1>1, <1>3, <1>8 DEF FrameAt, Nested, Latest
    <2>2. d - 1 <= Len(frames[s])
      BY <1>2, <2>1
    <2>3. /\ frames' \in [Stack -> Seq(ContextType)] /\ Len(frames'[s]) = d
          /\ frames'[s][d] = cpu
      BY <1>1, <1>2, <1>7, <2>2, Written
    <2>4. Latest(cpu, current_pid)
      BY <1>1, <1>8 DEF Nested
    <2>5. Latest(frames[s][1], current_pid)'
      BY <2>1, <2>3, <2>4 DEF Latest, Tasks
    <2>6. QED
      BY <1>6, <2>1, <2>3, <2>5 DEF CpuTyped, Nested, Place
  <1>9. CASE cpu.at \notin Place
    <2>1. s = cpu.stack /\ d = cpu.depth + 1
      BY <1>3, <1>9 DEF FrameAt, Place
    <2>2. /\ cpu.depth > 0 /\ Len(frames[s]) = cpu.depth
          /\ Latest(frames[s][1], current_pid)
          /\ \A i \in 2 .. cpu.depth :
               /\ frames[s][i].at \in {"handler", "answered", "report"}
               /\ ~Serving(frames[s][i]) /\ frames[s][i].stack = s
               /\ frames[s][i].depth = i - 1
      BY <1>1, <1>9, <2>1 DEF Nested
    <2>3. cpu.at \in {"handler", "answered", "report"} /\ cpu.depth \in Nat
      BY <1>2, <1>9, Fields DEF Entered
    <2>4. d - 1 <= Len(frames[s])
      BY <2>1, <2>2, <2>3
    <2>5. /\ frames' \in [Stack -> Seq(ContextType)] /\ Len(frames'[s]) = d
          /\ frames'[s][d] = cpu /\ \A i \in 1 .. d - 1 : frames'[s][i] = frames[s][i]
      BY <1>1, <1>2, <1>7, <2>4, Written
    <2>6. Latest(frames[s][1], current_pid)'
      <3>1. 1 \in 1 .. d - 1
        BY <2>1, <2>2, <2>3
      <3>2. frames'[s][1] = frames[s][1]
        BY <2>5, <3>1, Zenon
      <3>3. QED
        BY <2>2, <3>2 DEF Latest, Tasks
    <2>7. ASSUME NEW i \in 2 .. d
          PROVE  /\ frames'[s][i].at \in {"handler", "answered", "report"}
                 /\ ~Serving(frames'[s][i]) /\ frames'[s][i].stack = s
                 /\ frames'[s][i].depth = i - 1
      <3>1. CASE i = d
        BY <2>1, <2>3, <2>5, <3>1
      <3>2. CASE i # d
        <4>1. i \in 2 .. cpu.depth /\ i \in 1 .. d - 1
          BY <2>1, <2>3, <3>2
        <4>2. QED
          BY <2>2, <2>5, <4>1
      <3>3. QED
        BY <3>1, <3>2
    <2>8. QED
      BY <1>6, <2>1, <2>3, <2>5, <2>6, <2>7 DEF CpuTyped, Nested, Place, Serving
  <1>10. QED
    BY <1>8, <1>9

\* A handler goes on, on the stack it is on.
LEMMA Staying ==
    ASSUME Core, UNCHANGED Tasks, frames' = frames, cpu.at \in Entered,
           NEW at \in Entered, NEW b \in BOOLEAN, cpu' = [cpu EXCEPT !.at = at, !.flag = b]
    PROVE  /\ CpuTyped' /\ Pids' /\ Nested' /\ Suspended' /\ FreedOK'
           /\ cpu'.at = at /\ cpu'.flag = b /\ cpu'.intno = cpu.intno
  <1>1. CpuTyped /\ Pids /\ Nested /\ Suspended /\ FreedOK
    BY DEF Core
  <1>2. Pids' /\ Suspended' /\ FreedOK'
    BY <1>1, TasksStay
  <1>3. cpu \in ContextType
    BY <1>1 DEF CpuTyped
  <1>4. /\ cpu' \in ContextType /\ cpu'.at = at /\ cpu'.flag = b /\ cpu'.intno = cpu.intno
        /\ cpu'.stack = cpu.stack /\ cpu'.depth = cpu.depth
    BY <1>3 DEF ContextType
  <1>5. CpuTyped'
    BY <1>1, <1>4 DEF CpuTyped
  <1>6. Nested'
    <2>1. cpu.at \notin Place /\ cpu'.at \notin Place
      BY <1>4, Apart
    <2>2. QED
      BY <1>1, <1>4, <2>1 DEF Nested, Latest, Tasks, Serving
  <1>7. QED
    BY <1>2, <1>4, <1>5, <1>6

-----------------------------------------------------------------------------
(***************************************************************************)
(* Every step preserves the invariant.                                     *)
(***************************************************************************)

\* An interrupt is served at once: no other one is in service where interrupts
\* are enabled, but the timer's, which nothing goes before.
LEMMA Core_irq_comes ==
    ASSUME Core, NEW irq \in Irq, irq_comes(irq)
    PROVE  Core'
  <1>1. CpuTyped /\ Pids /\ Nested /\ Suspended /\ FreedOK /\ Service /\ Faulted
    BY DEF Core
  <1>2. irq \in 0 .. 15 /\ 32 + irq \in Nat
    OBVIOUS
  <1>3. cpu.flag /\ interrupt(32 + irq) /\ UNCHANGED Tasks /\ has_fault' = has_fault
    BY DEF irq_comes, Tasks
  <1>4. ~Serving(cpu) /\ cpu.at \notin {"scheduled", "halted"}
    <2>1. ASSUME Serving(cpu) PROVE FALSE
      <3>1. cpu.intno = 32 /\ pic.master = {MasterLine(cpu.intno - 32)}
        BY <1>1, <1>3, <2>1 DEF Service
      <3>2. pic.master = {0}
        BY <3>1 DEF MasterLine
      <3>3. MasterLine(irq) < 0
        BY <3>2 DEF irq_comes
      <3>4. QED
        BY <1>2, <3>3 DEF MasterLine
    <2>2. QED
      BY <1>1, <1>3, <2>1 DEF Service, Serving
  <1>5. /\ CpuTyped' /\ Nested' /\ cpu'.at = "handler" /\ cpu'.intno = 32 + irq
        /\ cpu'.flag = FlagBehind(32 + irq)
    BY <1>2, <1>3, <1>4, Entering
  <1>6. Pids' /\ Suspended' /\ FreedOK'
    BY <1>1, <1>3, TasksStay
  <1>7. ~cpu'.flag
    BY <1>2, <1>5 DEF FlagBehind
  <1>8. Service'
    <2>1. pic = [master |-> {}, slave |-> {}]
      BY <1>1, <1>4 DEF Service
    <2>2. pic' = [master |-> {MasterLine(irq)}, slave |-> IF irq >= 8 THEN {irq} ELSE {}]
      BY <2>1 DEF irq_comes
    <2>3. cpu'.intno - 32 = irq /\ (cpu'.intno >= 40 <=> irq >= 8) /\ cpu'.intno >= 32
      BY <1>2, <1>5
    <2>4. QED
      BY <1>5, <1>7, <2>2, <2>3 DEF Service, Serving
  <1>9. Faulted'
    BY <1>5 DEF Faulted
  <1>10. QED
    BY <1>5, <1>6, <1>8, <1>9 DEF Core

\* An exception in process code, where nothing is in service.
LEMMA Core_exception ==
    ASSUME Core, NEW n \in 0 .. 31, NEW held, exception(n, held), cpu.at \in Place
    PROVE  Core'
  <1>1. CpuTyped /\ Pids /\ Nested /\ Suspended /\ FreedOK /\ Service /\ Faulted
    BY DEF Core
  <1>2. interrupt(n) /\ UNCHANGED Tasks /\ has_fault' = has_fault /\ pic' = pic
    BY DEF exception, Tasks
  <1>3. ~Serving(cpu) /\ cpu.at \notin {"scheduled", "halted"}
    BY DEF Serving, Place
  <1>4. /\ CpuTyped' /\ Nested' /\ cpu'.at = "handler" /\ cpu'.intno = n
    BY <1>2, <1>3, Entering
  <1>5. Pids' /\ Suspended' /\ FreedOK'
    BY <1>1, <1>2, TasksStay
  <1>6. Service'
    BY <1>1, <1>2, <1>3, <1>4 DEF Service, Serving
  <1>7. Faulted'
    BY <1>4 DEF Faulted
  <1>8. QED
    BY <1>4, <1>5, <1>6, <1>7 DEF Core

\* The steps of interrupts_handler that do not switch.
LEMMA Core_handler_goes_on ==
    ASSUME Core, cpu.at = "handler",
           \/ has_fault /\ double_fault
           \/ cpu.intno < 32 /\ panic
           \/ ~has_fault /\ cpu.intno >= 32 /\ irq_ignored
           \/ /\ ~has_fault /\ cpu.intno = 32 /\ yield_task
              /\ UNCHANGED << frames, gs, process, current_pid >>
    PROVE  Core'
  <1>1. CpuTyped /\ Pids /\ Nested /\ Suspended /\ FreedOK /\ Service /\ Faulted
    BY DEF Core
  <1>2. cpu \in ContextType /\ cpu.flag \in BOOLEAN /\ cpu.intno \in Nat
    BY <1>1, Fields DEF CpuTyped
  <1>3. UNCHANGED Tasks /\ frames' = frames /\ pic' = pic
    BY DEF Tasks, double_fault, panic, irq_ignored, yield_task
  <1>4. cpu.at \in Entered
    BY DEF Entered
  <1>5. CASE has_fault /\ double_fault
    <2>1. cpu' = [cpu EXCEPT !.at = "halted", !.flag = FALSE]
      BY <1>5 DEF double_fault
    <2>2. /\ CpuTyped' /\ Pids' /\ Nested' /\ Suspended' /\ FreedOK'
          /\ cpu'.at = "halted" /\ cpu'.flag = FALSE
      BY <1>3, <1>4, <2>1, Staying DEF Entered
    <2>3. QED
      BY <2>2 DEF Core, Service, Serving, Faulted
  <1>6. CASE cpu.intno < 32 /\ panic
    <2>1. cpu' = [cpu EXCEPT !.at = "report", !.flag = cpu.flag]
      BY <1>2, <1>6 DEF panic, ContextType
    <2>2. /\ CpuTyped' /\ Pids' /\ Nested' /\ Suspended' /\ FreedOK' /\ cpu'.at = "report"
      BY <1>2, <1>3, <1>4, <2>1, Staying DEF Entered
    <2>3. pic = [master |-> {}, slave |-> {}]
      BY <1>1, <1>2, <1>6 DEF Service, Serving
    <2>4. QED
      BY <1>3, <2>2, <2>3 DEF Core, Service, Serving, Faulted
  <1>7. CASE ~has_fault /\ cpu.intno >= 32 /\ irq_ignored
    <2>1. cpu' = [cpu EXCEPT !.at = "scheduled", !.flag = cpu.flag]
      BY <1>2, <1>7 DEF irq_ignored, ContextType
    <2>2. /\ CpuTyped' /\ Pids' /\ Nested' /\ Suspended' /\ FreedOK'
          /\ cpu'.at = "scheduled" /\ cpu'.flag = cpu.flag /\ cpu'.intno = cpu.intno
      BY <1>2, <1>3, <1>4, <2>1, Staying DEF Entered
    <2>3. has_fault' = has_fault
      BY <1>7 DEF irq_ignored
    <2>4. QED
      BY <1>1, <1>3, <1>7, <2>2, <2>3 DEF Core, Service, Serving, Faulted
  <1>8. CASE /\ ~has_fault /\ cpu.intno = 32 /\ yield_task
             /\ UNCHANGED << frames, gs, process, current_pid >>
    <2>1. cpu' = [cpu EXCEPT !.at = "scheduled", !.flag = TRUE] /\ has_fault' = has_fault
      BY <1>8 DEF yield_task
    <2>2. /\ CpuTyped' /\ Pids' /\ Nested' /\ Suspended' /\ FreedOK'
          /\ cpu'.at = "scheduled" /\ cpu'.flag = TRUE /\ cpu'.intno = cpu.intno
      BY <1>3, <1>4, <2>1, Staying DEF Entered
    <2>3. QED
      BY <1>1, <1>3, <1>8, <2>1, <2>2 DEF Core, Service, Serving, Faulted
  <1>9. QED
    BY <1>5, <1>6, <1>7, <1>8

\* The lines of the report, its end, and the answer to the PIC.
LEMMA Core_report ==
    ASSUME Core, report_line \/ arch_hlt \/ pic_sendEOI
    PROVE  Core'
  <1>1. CpuTyped /\ Pids /\ Nested /\ Suspended /\ FreedOK /\ Service /\ Faulted
    BY DEF Core
  <1>2. cpu \in ContextType /\ cpu.flag \in BOOLEAN /\ cpu.intno \in Nat
    BY <1>1, Fields DEF CpuTyped
  <1>3. UNCHANGED Tasks /\ frames' = frames /\ has_fault' = has_fault
    BY DEF Tasks, report_line, arch_hlt, pic_sendEOI, arch_serial_puts
  <1>4. cpu.at \in Entered
    BY DEF Entered, report_line, arch_hlt, pic_sendEOI
  <1>5. CASE report_line
    <2>1. cpu.at = "report" /\ cpu' = [cpu EXCEPT !.at = "report", !.flag = TRUE] /\ pic' = pic
      BY <1>2, <1>5 DEF report_line, arch_serial_puts, ContextType
    <2>2. /\ CpuTyped' /\ Pids' /\ Nested' /\ Suspended' /\ FreedOK' /\ cpu'.at = "report"
      BY <1>3, <1>4, <2>1, Staying DEF Entered
    <2>3. QED
      BY <1>1, <2>1, <2>2 DEF Core, Service, Serving, Faulted
  <1>6. CASE arch_hlt
    <2>1. cpu' = [cpu EXCEPT !.at = "halted", !.flag = FALSE]
      BY <1>6 DEF arch_hlt
    <2>2. /\ CpuTyped' /\ Pids' /\ Nested' /\ Suspended' /\ FreedOK'
          /\ cpu'.at = "halted" /\ cpu'.flag = FALSE
      BY <1>3, <1>4, <2>1, Staying DEF Entered
    <2>3. QED
      BY <2>2 DEF Core, Service, Serving, Faulted
  <1>7. CASE pic_sendEOI
    <2>1. cpu.at = "scheduled" /\ cpu' = [cpu EXCEPT !.at = "answered", !.flag = cpu.flag]
      BY <1>2, <1>7 DEF pic_sendEOI, ContextType
    <2>2. /\ CpuTyped' /\ Pids' /\ Nested' /\ Suspended' /\ FreedOK' /\ cpu'.at = "answered"
      BY <1>2, <1>3, <1>4, <2>1, Staying DEF Entered
    <2>3. pic' = [master |-> {}, slave |-> {}]
      <3>1. PICK m \in Int : m = MasterLine(cpu.intno - 32)
        BY <1>2 DEF MasterLine
      <3>2. pic = [master |-> {m}, slave |-> IF cpu.intno >= 40 THEN {cpu.intno - 32} ELSE {}]
        BY <1>1, <2>1, <3>1 DEF Service, Serving
      <3>3. /\ Answered({m}) = {} /\ Answered({cpu.intno - 32}) = {}
        BY <1>2, <3>1 DEF Answered
      <3>4. QED
        BY <1>7, <3>2, <3>3 DEF pic_sendEOI
    <2>4. ~has_fault
      BY <1>1, <2>1 DEF Faulted
    <2>5. QED
      BY <1>3, <2>2, <2>3, <2>4 DEF Core, Service, Serving, Faulted
  <1>8. QED
    BY <1>5, <1>6, <1>7

\* Back to the handler below, or to the code of the current process.
LEMMA Core_iretq ==
    ASSUME Core, iretq
    PROVE  Core'
  <1>1. CpuTyped /\ Pids /\ Nested /\ Suspended /\ FreedOK /\ Service /\ Faulted
    BY DEF Core
  <1>2. /\ cpu.at = "answered" /\ UNCHANGED Tasks /\ has_fault' = has_fault /\ pic' = pic
        /\ cpu.at \notin Place
    BY DEF iretq, Tasks, Place
  <1>3. PICK s \in Stack, d \in Nat : s = cpu.stack /\ d = cpu.depth
    BY <1>1, Fields DEF CpuTyped
  <1>4. /\ d > 0 /\ Len(frames[s]) = d /\ frames[s] \in Seq(ContextType)
        /\ Latest(frames[s][1], current_pid)
        /\ \A i \in 2 .. d :
             /\ frames[s][i].at \in {"handler", "answered", "report"}
             /\ ~Serving(frames[s][i]) /\ frames[s][i].stack = s
             /\ frames[s][i].depth = i - 1
    BY <1>1, <1>2, <1>3 DEF Nested, CpuTyped
  <1>5. cpu' = frames[s][d] /\ frames' = [frames EXCEPT ![s] = SubSeq(frames[s], 1, d - 1)]
    BY <1>1, <1>3 DEF iretq, CpuTyped
  <1>6. cpu' \in ContextType
    BY <1>4, <1>5
  <1>7. PICK t \in Seq(ContextType) :
          /\ t = SubSeq(frames[s], 1, d - 1) /\ Len(t) = d - 1
          /\ \A i \in 1 .. d - 1 : t[i] = frames[s][i]
    <2>1. PICK f \in Seq(ContextType) : f = frames[s] /\ Len(f) = d
      BY <1>4
    <2>2. /\ SubSeq(f, 1, d - 1) \in Seq(ContextType) /\ Len(SubSeq(f, 1, d - 1)) = d - 1
          /\ \A i \in 1 .. d - 1 : SubSeq(f, 1, d - 1)[i] = f[i]
      BY <1>4, <2>1
    <2>3. QED
      BY <2>1, <2>2
  <1>8. frames' \in [Stack -> Seq(ContextType)] /\ frames'[s] = t
    BY <1>1, <1>5, <1>7 DEF CpuTyped
  <1>9. CpuTyped'
    BY <1>6, <1>8 DEF CpuTyped
  <1>10. Pids' /\ Suspended' /\ FreedOK'
    BY <1>1, <1>2, TasksStay
  <1>11. pic' = [master |-> {}, slave |-> {}] /\ ~has_fault'
    BY <1>1, <1>2 DEF Service, Serving, Faulted
  <1>12. CASE d = 1
    <2>1. Latest(cpu, current_pid)'
      BY <1>2, <1>4, <1>5, <1>12 DEF Latest, Tasks
    <2>2. cpu'.at \in Place
      BY <2>1 DEF Latest
    <2>3. QED
      BY <1>9, <1>10, <1>11, <2>1, <2>2 DEF Core, Nested, Service, Serving, Faulted, Place
  <1>13. CASE d > 1
    <2>1. /\ cpu'.at \in {"handler", "answered", "report"} /\ ~Serving(cpu') /\ cpu'.stack = s
          /\ cpu'.depth = d - 1
      BY <1>4, <1>5, <1>13
    <2>2. Latest(frames[s][1], current_pid)'
      <3>1. frames'[s][1] = frames[s][1]
        BY <1>7, <1>8, <1>13
      <3>2. QED
        BY <1>2, <1>4, <3>1 DEF Latest, Tasks
    <2>3. ASSUME NEW i \in 2 .. d - 1
          PROVE  /\ frames'[s][i].at \in {"handler", "answered", "report"}
                 /\ ~Serving(frames'[s][i]) /\ frames'[s][i].stack = s
                 /\ frames'[s][i].depth = i - 1
      BY <1>4, <1>7, <1>8
    <2>4. Nested'
      <3>1. cpu'.at \notin Place /\ cpu'.depth > 0
        BY <1>13, <2>1 DEF Place
      <3>2. Len(frames'[cpu'.stack]) = cpu'.depth
        BY <1>7, <1>8, <2>1
      <3>3. Latest(frames[cpu.stack][1], current_pid)'
        BY <2>1, <2>2 DEF Latest
      <3>4. \A i \in 2 .. cpu'.depth :
              LET c == frames'[cpu'.stack][i] IN
                /\ c.at \in {"handler", "answered", "report"}
                /\ ~Serving(c) /\ c.stack = cpu'.stack /\ c.depth = i - 1
        BY <2>1, <2>3
      <3>5. QED
        BY <3>1, <3>2, <3>3, <3>4 DEF Nested, Serving
    <2>5. QED
      BY <1>9, <1>10, <1>11, <2>1, <2>4 DEF Core, Service, Serving, Faulted
  <1>14. QED
    BY <1>4, <1>12, <1>13

\* A process that runs again goes on with its latest context: the next process
\* is one that runs, and the frame it takes over is the innermost one.
LEMMA Core_switch ==
    ASSUME Core, cpu.at = "handler", ~has_fault, cpu.intno = 32, yield_task,
           arch_context_save(current_pid), current_pid' = next_pid,
           arch_context_switch(next_pid), ~Strays
    PROVE  Core'
  <1>1. CpuTyped /\ Pids /\ Nested /\ Suspended /\ FreedOK /\ Service /\ Faulted
    BY DEF Core
  <1>2. /\ cpu' = [cpu EXCEPT !.at = "scheduled", !.flag = TRUE]
        /\ pic' = pic /\ has_fault' = has_fault /\ work' = work /\ freed' = freed
    BY DEF yield_task
  <1>3. PICK s \in Stack, d \in Nat : s = cpu.stack /\ d = cpu.depth
    BY <1>1, Fields DEF CpuTyped
  <1>4. /\ d > 0 /\ Len(frames[s]) = d /\ frames[s] \in Seq(ContextType)
        /\ Latest(frames[s][1], current_pid)
        /\ \A i \in 2 .. d : frames[s][i].at \in {"handler", "answered", "report"}
    BY <1>1, <1>3 DEF Nested, CpuTyped, Place
  <1>5. d = 1
    <2>1. frames[s][d].at \in Place
      BY <1>3 DEF Strays
    <2>2. QED
      BY <1>4, <2>1 DEF Place
  <1>6. PICK p \in DOMAIN process : p = next_pid /\ Running(p)
    <2> DEFINE later == {q \in DOMAIN process : Running(q) /\ q > current_pid}
               all == {q \in DOMAIN process : Running(q)}
               of == IF later # {} THEN later ELSE all
    <2>1. 0 \in all
      BY <1>1 DEF Pids, Running
    <2>2. of # {} /\ of \subseteq all /\ of \subseteq Nat
      BY <1>1, <2>1 DEF Pids
    <2>3. \E q \in of : \A r \in of : q <= r
      BY <2>2, Least
    <2>4. next_pid \in of
      BY <2>3 DEF next_pid
    <2>5. QED
      BY <2>2, <2>4
  <1>7. PICK k \in DOMAIN process : k = current_pid
    BY <1>1 DEF Pids
  <1>8. PICK c \in ContextType : c = frames[s][1] /\ Latest(c, k)
    BY <1>4, <1>7
  <1>9. process' = [process EXCEPT ![k].regs = c]
    BY <1>3, <1>5, <1>7, <1>8 DEF arch_context_save
  <1>10. /\ DOMAIN process' = DOMAIN process
         /\ process' \in [DOMAIN process -> TaskType]
         /\ process'[k].regs = c /\ process'[k].state = process[k].state
         /\ \A q \in DOMAIN process \ {k} : process'[q] = process[q]
    BY <1>1, <1>9 DEF Pids, TaskType
  <1>11. \A q : Running(q)' <=> Running(q)
    BY <1>10 DEF Running
  <1>12. process'[p].regs \in ContextType /\ Latest(process'[p].regs, p)
    <2>1. CASE p = k
      BY <1>8, <1>10, <2>1
    <2>2. CASE p # k
      BY <1>1, <1>6, <1>7, <1>10, <2>2 DEF Suspended, TaskType
    <2>3. QED
      BY <2>1, <2>2
  <1>13. frames' = WithFrame(s, 1, process'[p].regs) /\ gs' = p /\ current_pid' = p
    BY <1>3, <1>5, <1>6 DEF arch_context_switch
  <1>14. /\ frames' \in [Stack -> Seq(ContextType)] /\ Len(frames'[s]) = 1
         /\ frames'[s][1] = process'[p].regs
    <2>1. d \in Nat \ {0} /\ d - 1 <= Len(frames[s])
      BY <1>4
    <2>2. PICK r \in ContextType : r = process'[p].regs
      BY <1>12
    <2>3. frames' = WithFrame(s, d, r)
      BY <1>5, <1>13, <2>2
    <2>4. /\ frames' \in [Stack -> Seq(ContextType)] /\ Len(frames'[s]) = d
          /\ frames'[s][d] = r
      BY <1>1, <2>1, <2>3, Written
    <2>5. QED
      BY <1>5, <2>2, <2>4
  <1>15. /\ cpu' \in ContextType /\ cpu'.at = "scheduled" /\ cpu'.stack = s /\ cpu'.depth = 1
         /\ cpu'.intno = 32 /\ cpu'.flag
    BY <1>1, <1>2, <1>3, <1>5 DEF CpuTyped, ContextType, Entered
  <1>16. CpuTyped'
    BY <1>14, <1>15 DEF CpuTyped
  <1>17. Pids'
    BY <1>1, <1>2, <1>7, <1>10, <1>13 DEF Pids
  <1>18. Nested'
    <2>1. Latest(frames[s][1], current_pid)'
      BY <1>2, <1>12, <1>13, <1>14 DEF Latest
    <2>2. QED
      BY <1>14, <1>15, <2>1 DEF Nested, Place
  <1>19. Suspended'
    <2>1. ASSUME NEW q \in DOMAIN process \ {p}, Running(q) PROVE Latest(process'[q].regs, q)
      <3>1. CASE q = k
        BY <1>8, <1>10, <3>1
      <3>2. CASE q # k
        BY <1>1, <1>7, <1>10, <2>1, <3>2 DEF Suspended
      <3>3. QED
        BY <3>1, <3>2
    <2>2. QED
      BY <1>2, <1>10, <1>11, <1>13, <2>1 DEF Suspended, Latest
  <1>20. FreedOK'
    BY <1>1, <1>2, <1>6, <1>10, <1>11, <1>13 DEF FreedOK
  <1>21. Service' /\ Faulted'
    BY <1>1, <1>2, <1>15 DEF Service, Serving, Faulted
  <1>22. QED
    BY <1>16, <1>17, <1>18, <1>19, <1>20, <1>21 DEF Core

\* A step of process code that changes no process.
LEMMA CodeStays ==
    ASSUME Core, cpu.at \in Place, UNCHANGED << Tasks, frames, pic, has_fault >>,
           cpu' \in ContextType, cpu'.at \in Place, Latest(cpu', current_pid)
    PROVE  Core'
  <1>1. CpuTyped /\ Pids /\ Nested /\ Suspended /\ FreedOK /\ Service /\ Faulted
    BY DEF Core
  <1>2. Pids' /\ Suspended' /\ FreedOK'
    BY <1>1, TasksStay
  <1>3. CpuTyped' /\ Nested'
    BY <1>1 DEF CpuTyped, Nested, Latest, Tasks
  <1>4. Service' /\ Faulted'
    BY <1>1 DEF Service, Serving, Faulted, Place
  <1>5. QED
    BY <1>2, <1>3, <1>4 DEF Core

\* The kernel's messages, its switch to scheduling, and a system call's wait.
LEMMA Core_kernel ==
    ASSUME Core, kernel_splash \/ sched_init \/ (cpu.at = "body" /\ rcv_waits)
    PROVE  Core'
  <1>1. cpu \in ContextType /\ Nested
    BY DEF Core, CpuTyped
  <1>2. cpu.at \in Place /\ UNCHANGED << Tasks, frames, pic, has_fault >>
    BY DEF kernel_splash, sched_init, rcv_waits, Place, Tasks, arch_serial_puts
  <1>3. cpu' = cpu \/ cpu' = [cpu EXCEPT !.flag = TRUE]
    BY DEF kernel_splash, sched_init, rcv_waits, arch_serial_puts
  <1>4. /\ cpu' \in ContextType /\ cpu'.at = cpu.at /\ cpu'.owner = cpu.owner
        /\ cpu'.work = cpu.work /\ cpu'.depth = cpu.depth /\ cpu'.stack = cpu.stack
    BY <1>1, <1>3 DEF ContextType
  <1>5. Latest(cpu', current_pid)
    BY <1>1, <1>2, <1>4 DEF Nested, Latest
  <1>6. QED
    BY <1>2, <1>4, <1>5, CodeStays

\* To the kernel's stack of the process GS points to, and back.
LEMMA Core_syscall ==
    ASSUME Core, syscall_handle \/ (cpu.at = "body" /\ syscall_return)
    PROVE  Core'
  <1>1. cpu \in ContextType /\ Nested /\ Pids
    BY DEF Core, CpuTyped
  <1>2. cpu.at \in {"entry", "body"} /\ UNCHANGED << Tasks, frames, pic, has_fault >>
    BY DEF syscall_handle, syscall_return, Tasks
  <1>3. Latest(cpu, current_pid) /\ gs = current_pid /\ current_pid \in Process
    BY <1>1, <1>2 DEF Nested, Pids, Place
  <1>4. PICK p \in Process : p = current_pid /\ p # 0
    BY <1>2, <1>3 DEF Latest
  <1>5. PICK at \in {"body", "exit"} : cpu' = [cpu EXCEPT !.at = at, !.stack = StackOf(at, p)]
    BY <1>3, <1>4 DEF syscall_handle, syscall_return, StackOf
  <1>6. StackOf(at, p) \in Stack
    BY <1>4, StackTyped
  <1>7. /\ cpu' \in ContextType /\ cpu'.at = at /\ cpu'.owner = cpu.owner
        /\ cpu'.work = cpu.work /\ cpu'.depth = cpu.depth /\ cpu'.stack = StackOf(at, p)
    BY <1>1, <1>5, <1>6 DEF ContextType, Place
  <1>8. Latest(cpu', current_pid)
    BY <1>3, <1>4, <1>7 DEF Latest, Place
  <1>9. QED
    BY <1>2, <1>7, <1>8, CodeStays DEF Place

\* A program goes on: its mark changes with the context it is in.
LEMMA Core_user_code ==
    ASSUME Core, NEW to \in {"user", "entry"}, user_code(to)
    PROVE  Core'
  <1>1. CpuTyped /\ Pids /\ Nested /\ Suspended /\ FreedOK /\ Service /\ Faulted
    BY DEF Core
  <1>2. /\ cpu.at \in {"user", "exit"}
        /\ UNCHANGED << process, current_pid, gs, freed, frames, pic, has_fault >>
    BY DEF user_code
  <1>3. cpu \in ContextType /\ Latest(cpu, current_pid) /\ current_pid \in Process
    BY <1>1, <1>2 DEF Nested, CpuTyped, Pids, Place
  <1>4. PICK p \in Process : p = current_pid /\ p # 0 /\ cpu.owner = p /\ cpu.work = work[p]
    BY <1>2, <1>3 DEF Latest
  <1>5. PICK w \in 0 .. 1 : w = (work[p] + 1) % 2
    BY <1>1 DEF Pids
  <1>6. /\ cpu' = [cpu EXCEPT !.at = to, !.work = w] /\ work' = [work EXCEPT ![p] = w]
    BY <1>1, <1>3, <1>4, <1>5 DEF user_code, Pids, ContextType
  <1>7. /\ cpu' \in ContextType /\ cpu'.at = to /\ cpu'.owner = p /\ cpu'.work = w
        /\ cpu'.depth = cpu.depth /\ cpu'.stack = cpu.stack
    BY <1>3, <1>4, <1>6 DEF ContextType, Place
  <1>8. /\ work' \in [Process -> 0 .. 1] /\ work'[p] = w
        /\ \A q \in Process \ {p} : work'[q] = work[q]
    BY <1>1, <1>6 DEF Pids
  <1>9. CpuTyped' /\ Pids'
    BY <1>1, <1>2, <1>4, <1>7, <1>8 DEF CpuTyped, Pids
  <1>10. Nested'
    <2>1. StackOf(cpu.at, p) = StackOf(to, p)
      BY <1>2 DEF StackOf
    <2>2. Latest(cpu, current_pid)'
      BY <1>2, <1>3, <1>4, <1>7, <1>8, <2>1 DEF Latest, Place
    <2>3. QED
      BY <1>7, <2>2 DEF Nested, Place
  <1>11. Suspended'
    <2>1. ASSUME NEW q \in DOMAIN process \ {p}, Running(q) PROVE Latest(process[q].regs, q)'
      <3>1. Latest(process[q].regs, q) /\ q \in Process \ {p}
        BY <1>1, <1>4, <2>1 DEF Suspended, Pids
      <3>2. QED
        BY <1>2, <1>8, <3>1 DEF Latest
    <2>2. QED
      BY <1>2, <1>4, <2>1 DEF Suspended, Running
  <1>12. FreedOK'
    BY <1>1, <1>2 DEF FreedOK, Running
  <1>13. Service' /\ Faulted'
    BY <1>1, <1>2, <1>7 DEF Service, Serving, Faulted
  <1>14. QED
    BY <1>9, <1>10, <1>11, <1>12, <1>13 DEF Core

\* A process of its own number starts at its first mark.
LEMMA Core_sched_push_process ==
    ASSUME Core, NEW p \in User, sched_push_process(p)
    PROVE  Core'
  <1>1. CpuTyped /\ Pids /\ Nested /\ Suspended /\ FreedOK /\ Service /\ Faulted
    BY DEF Core
  <1>2. /\ cpu.at = "kernel" /\ p = Cardinality(DOMAIN process)
        /\ UNCHANGED << cpu, frames, current_pid, gs, work, freed, pic, has_fault >>
    BY DEF sched_push_process
  <1>3. PICK n \in Nat : DOMAIN process = 0 .. n
    BY <1>1 DEF Pids
  <1>4. p = n + 1
    <2>1. Cardinality(0 .. n) = n - 0 + 1
      BY FS_Interval
    <2>2. QED
      BY <1>2, <1>3, <2>1
  <1>5. p \notin DOMAIN process /\ p \in Process
    BY <1>3, <1>4 DEF Process
  <1>6. Start(p) \in ContextType /\ Latest(Start(p), p)
    <2>1. work[p] = 0 /\ p # 0 /\ UserStack(p) \in Stack
      BY <1>1, <1>5 DEF Pids, Stack
    <2>2. QED
      BY <1>5, <2>1 DEF Start, Context, ContextType, Latest, StackOf, Place
  <1>7. /\ DOMAIN process' = DOMAIN process \cup {p}
        /\ process'[p] = [state |-> "TASK_RUNNING", regs |-> Start(p)]
        /\ \A q \in DOMAIN process : process'[q] = process[q]
        /\ process' \in [DOMAIN process' -> TaskType]
    <2>1. process' = [q \in DOMAIN process \cup {p} |->
                        IF q = p THEN [state |-> "TASK_RUNNING", regs |-> Start(p)]
                        ELSE process[q]]
      BY DEF sched_push_process
    <2>2. [state |-> "TASK_RUNNING", regs |-> Start(p)] \in TaskType
      BY <1>6 DEF TaskType
    <2>3. \A q \in DOMAIN process : process[q] \in TaskType
      BY <1>1 DEF Pids
    <2>4. QED
      BY <1>5, <2>1, <2>2, <2>3
  <1>8. Pids'
    <2>1. DOMAIN process' = 0 .. n + 1
      BY <1>3, <1>4, <1>7
    <2>2. process'[0] = process[0]
      BY <1>3, <1>7
    <2>3. QED
      BY <1>1, <1>2, <1>5, <1>7, <2>1, <2>2 DEF Pids
  <1>9. Suspended'
    <2>1. ASSUME NEW q \in DOMAIN process', q # current_pid, Running(q)'
          PROVE  Latest(process[q].regs, q)'
      <3>1. CASE q = p
        BY <1>2, <1>6, <1>7, <3>1 DEF Latest
      <3>2. CASE q # p
        <4>1. q \in DOMAIN process /\ process'[q] = process[q] /\ Running(q)
          BY <1>7, <2>1, <3>2 DEF Running
        <4>2. QED
          BY <1>1, <1>2, <2>1, <4>1 DEF Suspended, Latest
      <3>3. QED
        BY <3>1, <3>2
    <2>2. QED
      BY <1>2, <2>1 DEF Suspended
  <1>10. CpuTyped' /\ Nested' /\ Service' /\ Faulted'
    BY <1>1, <1>2 DEF CpuTyped, Nested, Latest, Service, Faulted
  <1>11. FreedOK'
    BY <1>1, <1>2, <1>7 DEF FreedOK, Running
  <1>12. QED
    BY <1>8, <1>9, <1>10, <1>11 DEF Core

\* The slayer runs as process 0 and frees the stack of one that has exited.
LEMMA Core_task_slayer ==
    ASSUME Core, NEW p \in User, task_slayer(p)
    PROVE  Core'
  <1>1. CpuTyped /\ Pids /\ Nested /\ Suspended /\ FreedOK /\ Service /\ Faulted
    BY DEF Core
  <1>2. /\ cpu.at = "kernel" /\ freed' = freed \cup {SysStack(p)} /\ p \in DOMAIN process
        /\ process[p].state = "TASK_WAITINGFORDEATH"
        /\ UNCHANGED << cpu, frames, process, current_pid, gs, work, pic, has_fault >>
    BY DEF task_slayer
  <1>3. current_pid = 0
    BY <1>1, <1>2 DEF Nested, Latest, Place
  <1>4. FreedOK'
    BY <1>1, <1>2, <1>3 DEF FreedOK, Running
  <1>5. CpuTyped' /\ Pids' /\ Nested' /\ Suspended' /\ Service' /\ Faulted'
    BY <1>1, <1>2 DEF CpuTyped, Pids, Nested, Latest, Suspended, Running, Service, Faulted
  <1>6. QED
    BY <1>4, <1>5 DEF Core

\* A process that exits stays on its stack, which nobody frees before the next
\* switch.
LEMMA Core_syscall_exit ==
    ASSUME Core, cpu.at = "body", syscall_exit
    PROVE  Core'
  <1>1. CpuTyped /\ Pids /\ Nested /\ Suspended /\ FreedOK /\ Service /\ Faulted
    BY DEF Core
  <1>2. /\ process' = [process EXCEPT ![current_pid].state = "TASK_WAITINGFORDEATH"]
        /\ cpu' = [cpu EXCEPT !.at = "dying"]
        /\ UNCHANGED << frames, current_pid, gs, work, freed, pic, has_fault >>
    BY DEF syscall_exit
  <1>3. PICK k \in DOMAIN process : k = current_pid /\ k # 0 /\ Latest(cpu, k)
    BY <1>1 DEF Pids, Nested, Latest, Place
  <1>4. /\ DOMAIN process' = DOMAIN process
        /\ process' \in [DOMAIN process -> TaskType]
        /\ process'[k].state = "TASK_WAITINGFORDEATH"
        /\ \A q \in DOMAIN process \ {k} : process'[q] = process[q]
    BY <1>1, <1>2, <1>3 DEF Pids, TaskType
  <1>5. /\ cpu' \in ContextType /\ cpu'.at = "dying" /\ cpu'.owner = cpu.owner
        /\ cpu'.work = cpu.work /\ cpu'.depth = cpu.depth /\ cpu'.stack = cpu.stack
    BY <1>1, <1>2 DEF CpuTyped, ContextType, Place
  <1>6. Pids'
    <2>1. process'[0] = process[0]
      BY <1>1, <1>3, <1>4 DEF Pids
    <2>2. QED
      BY <1>1, <1>2, <1>4, <2>1 DEF Pids
  <1>7. Nested'
    <2>1. StackOf("dying", k) = StackOf("body", k)
      BY DEF StackOf
    <2>2. Latest(cpu, k)'
      BY <1>2, <1>3, <1>5, <2>1 DEF Latest, Place
    <2>3. QED
      BY <1>2, <1>3, <1>5, <2>2 DEF Nested, Place
  <1>8. Suspended'
    BY <1>1, <1>2, <1>3, <1>4 DEF Suspended, Running, Latest
  <1>9. FreedOK'
    <2>1. ASSUME NEW q \in DOMAIN process, ~Running(q) PROVE ~Running(q)'
      BY <1>3, <1>4, <2>1 DEF Running
    <2>2. QED
      BY <1>1, <1>2, <1>4, <2>1 DEF FreedOK
  <1>10. CpuTyped' /\ Service' /\ Faulted'
    BY <1>1, <1>2, <1>5 DEF CpuTyped, Service, Serving, Faulted
  <1>11. QED
    BY <1>6, <1>7, <1>8, <1>9, <1>10 DEF Core

\* Every branch of a system call.
LEMMA Core_syscall_handler ==
    ASSUME Core, NEW call \in Sys, syscall_handler(call)
    PROVE  Core'
  <1>1. cpu.at = "body" /\ cpu.at \in Place
    BY DEF syscall_handler, Place
  <1>2. ASSUME NEW n \in {1, 14}, NEW held \in BOOLEAN, exception(n, held) PROVE Core'
    BY <1>1, <1>2, Core_exception
  <1>3. ASSUME rcv_waits PROVE Core'
    BY <1>1, <1>3, Core_kernel
  <1>4. ASSUME syscall_exit PROVE Core'
    BY <1>1, <1>4, Core_syscall_exit
  <1>5. ASSUME syscall_return PROVE Core'
    BY <1>1, <1>5, Core_syscall
  <1>6. QED
    BY <1>2, <1>3, <1>4, <1>5 DEF syscall_handler, syscall_log_faults, assert_fails

\* A step of a handler, when it does not stray.
LEMMA Core_Handler ==
    ASSUME Core, has_fault \in BOOLEAN, Handler, ~strayed, ~strayed'
    PROVE  Core'
  <1>1. CASE interrupts_handler
    <2>1. cpu.at = "handler" /\ cpu.intno \in Nat
      BY <1>1, Fields DEF interrupts_handler, Core, CpuTyped
    <2>2. \/ has_fault /\ double_fault
          \/ cpu.intno < 32 /\ panic
          \/ ~has_fault /\ cpu.intno >= 32 /\ irq_ignored
          \/ ~has_fault /\ cpu.intno = 32 /\ yield_task
      BY <1>1, <2>1 DEF interrupts_handler
    <2>3. CASE ~has_fault /\ cpu.intno = 32 /\ yield_task
      <3>1. \/ UNCHANGED << frames, gs, process, current_pid >>
            \/ /\ arch_context_save(current_pid) /\ current_pid' = next_pid
               /\ arch_context_switch(next_pid) /\ strayed' = Strays
        BY <2>3 DEF yield_task
      <3>2. QED
        BY <2>1, <2>3, <3>1, Core_handler_goes_on, Core_switch
    <2>4. QED
      BY <2>1, <2>2, <2>3, Core_handler_goes_on
  <1>2. QED
    BY <1>1, Core_report, Core_iretq DEF Handler

\* A step of process code or of a device.
LEMMA Core_Code ==
    ASSUME Core, Code
    PROVE  Core'
  <1>1. ASSUME NEW n \in Exception, fault_in_code(n) PROVE Core'
    <2>1. exception(n, FALSE) /\ cpu.at \in Place /\ n \in 0 .. 31
      BY <1>1 DEF fault_in_code, Place
    <2>2. QED
      BY <2>1, Core_exception
  <1>2. ASSUME NEW irq \in Irq, irq_comes(irq) PROVE Core'
    BY <1>2, Core_irq_comes
  <1>3. ASSUME kernel_splash \/ sched_init \/ syscall_handle PROVE Core'
    BY <1>3, Core_kernel, Core_syscall
  <1>4. ASSUME NEW p \in User, sched_push_process(p) \/ task_slayer(p) PROVE Core'
    BY <1>4, Core_sched_push_process, Core_task_slayer
  <1>5. ASSUME NEW to \in {"user", "entry"}, user_code(to) PROVE Core'
    BY <1>5, Core_user_code
  <1>6. ASSUME NEW call \in Sys, syscall_handler(call) PROVE Core'
    BY <1>6, Core_syscall_handler
  <1>7. QED
    BY <1>1, <1>2, <1>3, <1>4, <1>5, <1>6 DEF Code

\* The kernel as start-up leaves it.
LEMMA Initially == Init => IInv
  <1> SUFFICES ASSUME Init PROVE IInv
    OBVIOUS
  <1>1. /\ cpu \in ContextType /\ cpu.at = "kernel" /\ cpu.stack = << "kernel", 0 >>
        /\ cpu.depth = 0 /\ cpu.owner = 0 /\ cpu.work = 0
    BY DEF Init, Context, ContextType, Place, Process, Stack
  <1>2. CpuTyped
    <2>1. << >> \in Seq(ContextType)
      OBVIOUS
    <2>2. [s \in Stack |-> << >>] \in [Stack -> Seq(ContextType)]
      BY <2>1, Zenon
    <2>3. QED
      BY <1>1, <2>2 DEF Init, CpuTyped
  <1>3. /\ DOMAIN process = 0 .. 0 /\ process[0] = [state |-> "TASK_RUNNING", regs |-> cpu]
        /\ process \in [DOMAIN process -> TaskType]
    <2>1. [state |-> "TASK_RUNNING", regs |-> cpu] \in TaskType
      BY <1>1 DEF TaskType
    <2>2. process = [p \in {0} |-> [state |-> "TASK_RUNNING", regs |-> cpu]]
      BY DEF Init
    <2>3. DOMAIN process = {0} /\ 0 .. 0 = {0}
      BY <2>2
    <2>4. QED
      BY <2>1, <2>2, <2>3
  <1>4. Pids
    BY <1>3 DEF Init, Pids, Process
  <1>5. Nested
    BY <1>1 DEF Init, Nested, Latest, StackOf, Place, Process
  <1>6. Suspended /\ FreedOK /\ Service /\ Faulted
    BY <1>1, <1>3 DEF Init, Suspended, FreedOK, Service, Serving, Faulted
  <1>7. QED
    BY <1>2, <1>4, <1>5, <1>6 DEF Init, IInv, Core

\* A step of a handler or of code leaves Booleans behind.
LEMMA Flags ==
    ASSUME strayed \in BOOLEAN, has_fault \in BOOLEAN, Handler \/ Code
    PROVE  strayed' \in BOOLEAN /\ has_fault' \in BOOLEAN
  <1>1. CASE interrupts_handler
    <2>1. \/ has_fault' = has_fault \/ has_fault' = TRUE
      BY <1>1 DEF interrupts_handler, double_fault, panic, yield_task, irq_ignored
    <2>2. \/ strayed' = strayed \/ strayed' = Strays
      BY <1>1 DEF interrupts_handler, double_fault, panic, yield_task, irq_ignored
    <2>3. Strays \in BOOLEAN
      BY DEF Strays
    <2>4. QED
      BY <2>1, <2>2, <2>3
  <1>2. CASE Code \/ report_line \/ arch_hlt \/ pic_sendEOI \/ iretq
    <2>1. UNCHANGED << strayed, has_fault >>
      BY <1>2 DEF Code, irq_comes, fault_in_code, exception, kernel_splash, sched_init,
           sched_push_process, task_slayer, user_code, syscall_handle, syscall_handler,
           syscall_return, syscall_exit, rcv_waits, syscall_log_faults, assert_fails,
           report_line, arch_hlt, pic_sendEOI, iretq
    <2>2. QED
      BY <2>1
  <1>3. QED
    BY <1>1, <1>2 DEF Handler

\* Whatever the CPU executes next.
LEMMA Inductive == IInv /\ [Next]_vars => IInv'
  <1> SUFFICES ASSUME IInv, [Next]_vars PROVE IInv'
    OBVIOUS
  <1>1. CASE UNCHANGED vars
    BY <1>1 DEF vars, IInv, Core, CpuTyped, Pids, Nested, Latest, Suspended, Running, FreedOK,
         Service, Serving, Faulted
  <1>2. CASE ~strayed /\ (Handler \/ Code)
    <2>1. Core
      BY <1>2 DEF IInv
    <2>2. strayed' \in BOOLEAN /\ has_fault' \in BOOLEAN
      BY <1>2, Flags DEF IInv
    <2>3. ASSUME ~strayed' PROVE Core'
      BY <1>2, <2>1, <2>3, Core_Handler, Core_Code DEF IInv
    <2>4. QED
      BY <2>2, <2>3 DEF IInv
  <1>3. QED
    BY <1>1, <1>2 DEF Next, Stopped

\* The invariant holds in every state of every behaviour.
LEMMA Always == Spec => []IInv
  BY Initially, Inductive, PTL DEF Spec

-----------------------------------------------------------------------------
\* What is printed, and what is still to be printed, are such lines.
Printing == fault \in Seq(Lines) /\ (printed = << >> \/ printed \in Lines)

\* Whatever the CPU executes next.
LEMMA PrintingStays ==
    ASSUME IInv, Printing, [Next]_vars
    PROVE  Printing'
  <1>1. CASE UNCHANGED << fault, printed >>
    BY <1>1 DEF Printing
  <1>2. CASE panic /\ ~strayed
    <2>1. current_pid \in Process /\ cpu.intno \in Nat
      BY <1>2, Fields DEF IInv, Core, CpuTyped, Pids
    <2>2. PICK site \in Site : fault' = Report(site, cpu.intno)
      BY <1>2 DEF panic
    <2>3. fault' \in Seq(Lines)
      BY <2>1, <2>2, ReportTyped, Zenon
    <2>4. printed' = printed
      BY <1>2 DEF panic
    <2>5. QED
      BY <2>3, <2>4 DEF Printing
  <1>3. CASE report_line
    <2>1. fault \in Seq(Lines) /\ fault # << >> /\ printed' = Head(fault) /\ fault' = Tail(fault)
      BY <1>3 DEF report_line, arch_serial_puts, Printing
    <2>2. Head(fault) \in Lines /\ Tail(fault) \in Seq(Lines)
      BY <2>1, HeadTailProperties
    <2>3. QED
      BY <2>1, <2>2, Zenon DEF Printing
  <1>4. CASE kernel_splash
    <2>1. PICK n \in Pages :
             printed' = Line(<< "M", "" >>, << fmtvald(n * PAGE_SIZE), fmtvald(n) >>)
      BY <1>4 DEF kernel_splash, arch_serial_puts
    <2>2. printed' \in Lines
      BY <2>1, Zenon DEF Lines, Amount
    <2>3. fault' = fault
      BY <1>4 DEF kernel_splash
    <2>4. QED
      BY <2>2, <2>3 DEF Printing
  <1>5. CASE sched_init
    BY <1>5 DEF sched_init, Printing
  <1>6. CASE ~strayed /\ interrupts_handler
    BY <1>1, <1>2, <1>6 DEF interrupts_handler, double_fault, yield_task, irq_ignored
  <1>7. CASE arch_hlt \/ pic_sendEOI \/ iretq
    BY <1>1, <1>7 DEF arch_hlt, pic_sendEOI, iretq
  <1>8. ASSUME NEW irq \in Irq, irq_comes(irq) PROVE Printing'
    BY <1>1, <1>8 DEF irq_comes
  <1>9. ASSUME NEW intno \in Exception, fault_in_code(intno) PROVE Printing'
    BY <1>1, <1>9 DEF fault_in_code, exception
  <1>10. ASSUME NEW p \in User, sched_push_process(p) \/ task_slayer(p) PROVE Printing'
    BY <1>1, <1>10 DEF sched_push_process, task_slayer
  <1>11. ASSUME NEW to \in {"user", "entry"}, user_code(to) PROVE Printing'
    BY <1>1, <1>11 DEF user_code
  <1>12. CASE syscall_handle
    BY <1>1, <1>12 DEF syscall_handle
  <1>13. ASSUME NEW call \in Sys, syscall_handler(call) PROVE Printing'
    BY <1>1, <1>13 DEF syscall_handler, exception, syscall_log_faults, assert_fails, rcv_waits,
         syscall_exit, syscall_return
  <1>14. CASE ~strayed /\ Handler
    BY <1>3, <1>6, <1>7, <1>14 DEF Handler
  <1>15. CASE Code
    BY <1>4, <1>5, <1>8, <1>9, <1>10, <1>11, <1>12, <1>13, <1>15 DEF Code
  <1>16. CASE UNCHANGED vars
    BY <1>1, <1>16 DEF vars
  <1>17. QED
    BY <1>14, <1>15, <1>16 DEF Next, Stopped

-----------------------------------------------------------------------------
(***************************************************************************)
(* Results.                                                                *)
(***************************************************************************)

\* Unless a switch was made from inside entry or exit code, the code that runs
\* is the current process's, from its latest context and on a stack that is its
\* own and not freed: the switch at interrupt.c:211 and sched.c swaps whole
\* contexts, on the one stack all interrupts of user mode share.
THEOREM ProcessesResume == Spec => []ResumesItself
  <1>1. ASSUME IInv, ~strayed, cpu.at \in Place
        PROVE  /\ cpu.owner = current_pid /\ cpu.work = work[current_pid]
               /\ cpu.at # "kernel" =>
                    cpu.stack = IF cpu.at \in {"body", "dying"} THEN SysStack(current_pid)
                                ELSE UserStack(current_pid)
               /\ cpu.stack \notin freed
    <2>1. Latest(cpu, current_pid) /\ Pids /\ FreedOK
      BY <1>1 DEF IInv, Core, Nested
    <2>2. cpu.stack = StackOf(cpu.at, current_pid)
      BY <2>1 DEF Latest
    <2>3. cpu.stack \notin freed
      BY <2>1, <2>2, NotFreed
    <2>4. QED
      BY <2>1, <2>2, <2>3 DEF Latest, StackOf
  <1>2. IInv => ResumesItself
    BY <1>1 DEF ResumesItself
  <1>3. QED
    BY Always, <1>2, PTL

\* Unless ..., no interrupt line is in service while process code runs: the one
\* EOI of pic_sendEOI, or the two of them, answers what was raised (pic.c:53).
THEOREM LinesAreAnswered == Spec => []EveryLineIsAnswered
  <1>1. IInv => EveryLineIsAnswered
    BY DEF IInv, Core, Service, Serving, EveryLineIsAnswered, Place
  <1>2. QED
    BY Always, <1>1, PTL

\* After a fault no process runs, nothing is scheduled and no stack is freed,
\* although every character of the report enables interrupts (interrupt.c:130).
THEOREM FaultFreezes == Spec => NothingRunsAfterFault
  <1>1. ASSUME IInv, has_fault, [Next]_vars
        PROVE  UNCHANGED << process, current_pid, tick, work, freed >>
    <2>1. CASE UNCHANGED vars
      BY <2>1 DEF vars
    <2>2. CASE ~strayed /\ Handler
      <3>1. cpu.at \in {"report", "handler", "halted"}
        BY <1>1, <2>2 DEF IInv, Core, Faulted
      <3>2. QED
        BY <1>1, <2>2, <3>1 DEF Handler, interrupts_handler, double_fault, report_line,
             arch_hlt, pic_sendEOI, iretq
    <2>3. CASE ~strayed /\ Code
      <3>1. cpu.at \in {"report", "handler", "halted"}
        BY <1>1, <2>3 DEF IInv, Core, Faulted
      <3>2. QED
        BY <2>3, <3>1 DEF Code, irq_comes, fault_in_code, kernel_splash, sched_init,
             sched_push_process, task_slayer, user_code, syscall_handle, syscall_handler
    <2>4. QED
      BY <1>1, <2>1, <2>2, <2>3 DEF Next, Stopped
  <1>2. IInv /\ [Next]_vars =>
          [has_fault => UNCHANGED << process, current_pid, tick, work, freed >>]_vars
    BY <1>1
  <1>3. QED
    BY Always, <1>2, PTL DEF Spec, NothingRunsAfterFault

\* What the kernel prints, its first message and the report of a fault, reads
\* back as what it stands for, for every width of a word and every symbol table
\* whose functions do not overlap: an address by hex2int (unless itoa.c:44 left
\* out zeros inside it), a number by atoi, an amount of memory to the unit, and
\* a function by its name, though the loop of find_symbols drops a digit of
\* every address but the first (symbols.c).
THEOREM ReportReadsBack == Spec => []PrintedReadsBack
  <1>1. Init => Printing
    <2>1. << >> \in Seq(Lines)
      OBVIOUS
    <2>2. QED
      BY <2>1 DEF Init, Printing
  <1>2. IInv /\ Printing /\ [Next]_vars => Printing'
    BY PrintingStays
  <1>3. Printing => PrintedReadsBack
    BY LinesAreLegible, PrintedIsLegible, Zenon DEF Printing
  <1>4. QED
    BY Always, <1>1, <1>2, <1>3, PTL DEF Spec
=============================================================================
