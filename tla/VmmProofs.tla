----------------------------- MODULE VmmProofs -----------------------------
(***************************************************************************)
(* Proofs about virtual memory, for tables of any size, any memory map and *)
(* any programs that are linked into the lower half.                       *)
(***************************************************************************)
EXTENDS Vmm, NaturalsInduction, WellFoundedInduction, SequenceTheorems, TLAPS

-----------------------------------------------------------------------------
(***************************************************************************)
(* Numbers.                                                                *)
(***************************************************************************)
\* A set of numbers that is not empty has a least one.
LEMMA Least ==
    ASSUME NEW S \in SUBSET Nat, S # {}
    PROVE  \E i \in S : \A j \in S : i <= j
  <1>1. PICK i \in S : \A j \in S : ~(<< j, i >> \in OpToRel(<, Nat))
    BY NatLessThanWellFounded, WFMin
  <1>2. \A j \in S : ~(j < i)
    BY <1>1 DEF OpToRel
  <1>3. QED
    BY <1>2

\* What holds at 0 and is passed on holds up to n.
LEMMA Upwards ==
    ASSUME NEW n \in Nat, NEW S, 0 \in S,
           \A k \in 1 .. n : k - 1 \in S => k \in S
    PROVE  \A k \in 0 .. n : k \in S
  <1> DEFINE bad == {k \in Nat : k \in 0 .. n /\ k \notin S}
  <1>1. ASSUME bad # {} PROVE FALSE
    <2>1. PICK m \in bad : \A j \in bad : m <= j
      <3>1. bad \in SUBSET Nat
        OBVIOUS
      <3>2. QED
        BY <1>1, <3>1, Least
    <2>2. m \in Nat /\ m \in 0 .. n /\ m \notin S /\ m # 0
      OBVIOUS
    <2>3. m \in 1 .. n /\ m - 1 \in Nat /\ m - 1 \in 0 .. n
      BY <2>2
    <2>4. m - 1 \notin bad
      BY <2>1, <2>3
    <2>5. QED
      BY <2>2, <2>3, <2>4
  <1>2. QED
    BY <1>1

\* Quotient and remainder.
LEMMA DivMod ==
    ASSUME NEW a \in Int, NEW b \in Nat \ {0}
    PROVE  \E q \in Int, r \in 0 .. b - 1 : q = a \div b /\ r = a % b /\ a = q * b + r
  <1>1. b > 0
    OBVIOUS
  <1>2. a \div b \in Int /\ a % b \in 0 .. b - 1
    BY <1>1
  <1>3. a = (a \div b) * b + (a % b)
    BY <1>1
  <1>4. QED
    BY <1>2, <1>3, Zenon

\* They are determined by what they are.
LEMMA DivUnique ==
    ASSUME NEW a \in Int, NEW b \in Nat \ {0}, NEW q \in Int, NEW r \in 0 .. b - 1,
           a = q * b + r
    PROVE  a \div b = q /\ a % b = r
  <1>1. PICK x \in Int, y \in 0 .. b - 1 : x = a \div b /\ y = a % b /\ a = x * b + y
    BY DivMod, Zenon
  <1>2. (x - q) * b = r - y
    BY <1>1, SMTT(30)
  <1>3. CASE x - q >= 1
    <2>1. (x - q) * b >= b
      BY <1>1, <1>3, SMTT(30)
    <2>2. QED
      BY <1>1, <1>2, <2>1
  <1>4. CASE x - q <= -1
    <2>1. (x - q) * b <= -b
      BY <1>1, <1>4, SMTT(30)
    <2>2. QED
      BY <1>1, <1>2, <2>1
  <1>5. QED
    BY <1>1, <1>2, <1>3, <1>4, SMTT(30)

\* Quotients of natural numbers are natural and monotonic.
LEMMA DivLess ==
    ASSUME NEW a \in Nat, NEW b \in Nat \ {0}, NEW q \in Nat, a < q * b
    PROVE  a \div b \in Nat /\ a \div b < q
  <1>1. PICK x \in Int, y \in 0 .. b - 1 : x = a \div b /\ y = a % b /\ a = x * b + y
    <2>1. a \in Int
      OBVIOUS
    <2>2. QED
      BY <2>1, DivMod, Zenon
  <1>2. x >= 0
    <2>1. SUFFICES ASSUME x <= -1 PROVE FALSE
      BY <1>1
    <2>2. x * b <= -b
      BY <1>1, <2>1, SMTT(30)
    <2>3. QED
      BY <1>1, <2>2
  <1>3. x < q
    <2>1. SUFFICES ASSUME x >= q PROVE FALSE
      BY <1>1
    <2>2. x * b >= q * b
      BY <1>1, <2>1, SMTT(30)
    <2>3. QED
      BY <1>1, <2>2
  <1>4. QED
    BY <1>1, <1>2, <1>3

\* A step of Horner's rule, multiplied out.
LEMMA Horner ==
    ASSUME NEW x \in Int, NEW y \in Int, NEW z \in Int, NEW w \in Int, NEW u \in Int
    PROVE  (x * z + y) * w + u = x * (z * w) + (y * w + u)
  BY SMTT(30)

\* A digit in front of a number with fewer digits.
LEMMA Prepend ==
    ASSUME NEW b \in Nat \ {0}, NEW c \in Nat \ {0},
           NEW d \in 0 .. b - 1, NEW r \in 0 .. c - 1
    PROVE  d * c + r \in 0 .. b * c - 1
  <1>1. d * c >= 0
    BY SMTT(30)
  <1>2. d * c <= (b - 1) * c
    BY SMTT(30)
  <1>3. (b - 1) * c = b * c - c
    BY SMTT(30)
  <1>4. PICK x, y \in Int : x = d * c /\ y = b * c
    OBVIOUS
  <1>5. QED
    BY <1>1, <1>2, <1>3, <1>4

-----------------------------------------------------------------------------
(***************************************************************************)
(* Pages and their indices in the four tables.                             *)
(***************************************************************************)
Index == 0 .. ENTRIES - 1

VPage == 0 .. VPages - 1

Ix(page, level) == PMLX_GET_INDEX(page, level)

\* The page with these indices.
PageAt(a, b, c, i) == ((a * ENTRIES + b) * ENTRIES + c) * ENTRIES + i

\* A page number is made of its four indices.
LEMMA Digits ==
    ASSUME NEW page \in VPage
    PROVE  /\ Ix(page, 3) \in Index /\ Ix(page, 2) \in Index
           /\ Ix(page, 1) \in Index /\ Ix(page, 0) \in Index
           /\ page = PageAt(Ix(page, 3), Ix(page, 2), Ix(page, 1), Ix(page, 0))
  <1>1. PICK E \in Nat \ {0} : E = ENTRIES
    BY TablesAssumption
  <1>2. page \in Int
    BY <1>1 DEF VPage, VPages
  <1>3. PICK q1 \in Int, d0 \in 0 .. E - 1 : q1 = page \div E /\ d0 = page % E /\ page = q1 * E + d0
    BY <1>1, <1>2, DivMod, Zenon
  <1>4. PICK q2 \in Int, d1 \in 0 .. E - 1 : q2 = q1 \div E /\ d1 = q1 % E /\ q1 = q2 * E + d1
    BY <1>1, <1>3, DivMod, Zenon
  <1>5. PICK q3 \in Int, d2 \in 0 .. E - 1 : q3 = q2 \div E /\ d2 = q2 % E /\ q2 = q3 * E + d2
    BY <1>1, <1>4, DivMod, Zenon
  <1>0. E \in Int /\ d0 \in Int /\ d1 \in Int /\ d2 \in Int
    BY <1>1
  <1>6. E * E \in Nat \ {0} /\ E * E * E \in Nat \ {0} /\ E * E * E = E * (E * E)
    <2>1. E * E \in Nat \ {0}
      BY <1>1, SMTT(30)
    <2>2. E * E * E \in Nat \ {0}
      BY <1>1, <2>1, SMTT(30)
    <2>3. QED
      BY <1>1, <2>1, <2>2, SMTT(30)
  <1>7. PICK w \in Nat \ {0}, v \in Nat \ {0} : w = E * E /\ v = E * w /\ v = E * E * E
    BY <1>6
  <1>8. page \div w = q2 /\ page \div v = q3
    <2>1. PICK x \in 0 .. w - 1 : x = d1 * E + d0
      BY <1>1, <1>3, <1>4, <1>7, Prepend
    <2>2. PICK y \in 0 .. v - 1 : y = d2 * w + x
      BY <1>1, <1>5, <1>7, <2>1, Prepend
    <2>3. w \in Int /\ x \in Int
      BY <1>7, <2>1
    <2>4. (q2 * E + d1) * E + d0 = q2 * (E * E) + (d1 * E + d0)
      BY ONLY <1>0, q2 \in Int, Horner
    <2>5. page = q2 * w + x
      BY <1>3, <1>4, <1>7, <2>1, <2>4, Zenon
    <2>6. (q3 * E + d2) * w + x = q3 * (E * w) + (d2 * w + x)
      BY ONLY <1>0, <2>3, q3 \in Int, Horner
    <2>7. page = q3 * v + y
      BY <1>5, <1>7, <2>2, <2>5, <2>6, Zenon
    <2>8. page \div w = q2
      BY <1>2, <2>5, DivUnique, Zenon
    <2>9. QED
      BY <1>2, <2>7, <2>8, DivUnique, Zenon
  <1>9. q3 \in 0 .. E - 1
    <2>1. page \in Nat /\ page < E * (E * E * E)
      <3>1. VPages = E * (E * E * E)
        BY <1>1, SMTT(30) DEF VPages
      <3>2. QED
        BY <1>1, <1>6, <3>1 DEF VPage
    <2>2. page \div v \in Nat /\ page \div v < E
      BY <1>1, <1>7, <2>1, DivLess
    <2>3. QED
      BY <1>1, <1>8, <2>2
  <1>10. q3 % E = q3
    BY <1>1, <1>9, <1>5
  <1>11. Ix(page, 3) = q3 /\ Ix(page, 2) = d2 /\ Ix(page, 1) = d1 /\ Ix(page, 0) = d0
    <2>1. Ix(page, 3) = (page \div (E * E * E)) % E
      BY <1>1 DEF Ix, PMLX_GET_INDEX
    <2>2. Ix(page, 2) = (page \div (E * E)) % E
      BY <1>1 DEF Ix, PMLX_GET_INDEX
    <2>3. Ix(page, 1) = (page \div E) % E
      BY <1>1 DEF Ix, PMLX_GET_INDEX
    <2>4. Ix(page, 0) = (page \div 1) % E
      BY <1>1 DEF Ix, PMLX_GET_INDEX
    <2>5. page \div 1 = page
      BY <1>2
    <2>6. QED
      BY <2>1, <2>2, <2>3, <2>4, <2>5, <1>3, <1>4, <1>5, <1>7, <1>8, <1>10
  <1>12. page = ((q3 * E + d2) * E + d1) * E + d0
    BY <1>3, <1>4, <1>5
  <1>13. QED
    BY <1>1, <1>3, <1>4, <1>5, <1>9, <1>11, <1>12 DEF PageAt, Index

\* The upper half begins with the middle entry of the top table, the pages
\* below a top entry come before it.
LEMMA TopIndex ==
    ASSUME NEW page \in VPage
    PROVE  /\ Ix(page, 3) \in Index
           /\ page \in KernelPage <=> Ix(page, 3) >= ENTRIES \div 2
           /\ page < SHARED_FIRST * (ENTRIES * ENTRIES * ENTRIES) => Ix(page, 3) < SHARED_FIRST
  <1> DEFINE E == ENTRIES
  <1>1. E \in Nat \ {0} /\ SHARED_FIRST \in Nat
    BY TablesAssumption
  <1>2. PICK h \in Nat : E = 2 * h /\ E \div 2 = h
    BY TablesAssumption
  <1> HIDE DEF E
  <1>3. PICK c \in Nat \ {0} : c = E * E * E /\ VPages = E * c
    <2>1. E * E \in Nat \ {0}
      BY <1>1, SMTT(30)
    <2>2. E * E * E \in Nat \ {0}
      BY <1>1, <2>1, SMTT(30)
    <2>3. QED
      BY <1>1, <2>1, <2>2, SMTT(30) DEF VPages, E
  <1>4. VPages \div 2 = h * c
    <2>1. VPages = (h * c) * 2 + 0
      BY <1>2, <1>3, SMTT(30)
    <2>2. VPages \in Int /\ h * c \in Int
      BY <1>2, <1>3, <2>1
    <2>3. QED
      BY <2>1, <2>2, DivUnique
  <1>5. page \in Nat /\ page < E * c
    BY <1>1, <1>3 DEF VPage
  <1>6. PICK q \in Int, r \in 0 .. c - 1 : q = page \div c /\ r = page % c /\ page = q * c + r
    <2>1. page \in Int
      BY <1>5
    <2>2. QED
      BY <1>3, <2>1, DivMod, Zenon
  <1>7. q \in Nat /\ q < E
    BY <1>1, <1>3, <1>5, <1>6, DivLess
  <1>8. Ix(page, 3) = q
    <2>1. Ix(page, 3) = (page \div (E * E * E)) % E
      BY DEF Ix, PMLX_GET_INDEX, E
    <2>2. q % E = q
      BY <1>1, <1>7
    <2>3. QED
      BY <1>3, <1>6, <2>1, <2>2
  <1>9. ASSUME NEW x \in Nat PROVE page < x * c <=> q < x
    <2>1. CASE q < x
      <3>1. q * c + c <= x * c
        BY <1>3, <1>7, <2>1, SMTT(30)
      <3>2. QED
        BY <1>3, <1>6, <2>1, <3>1, SMTT(30)
    <2>2. CASE q >= x
      <3>1. q * c >= x * c
        BY <1>3, <1>7, <2>2, SMTT(30)
      <3>2. QED
        BY <1>3, <1>6, <1>7, <2>2, <3>1, SMTT(30)
    <2>3. QED
      BY <1>7, <2>1, <2>2
  <1>10. page \in KernelPage <=> ~(page < h * c)
    BY <1>2, <1>3, <1>4, <1>5 DEF KernelPage
  <1>11. page \in KernelPage <=> q >= h
    <2>1. page < h * c <=> q < h
      BY <1>9
    <2>2. QED
      BY <1>2, <1>7, <1>10, <2>1
  <1>12. page < SHARED_FIRST * c <=> q < SHARED_FIRST
    BY <1>1, <1>9
  <1>13. QED
    BY <1>1, <1>2, <1>3, <1>7, <1>8, <1>11, <1>12 DEF Index, E

-----------------------------------------------------------------------------
(***************************************************************************)
(* Page tables that form trees.                                            *)
(***************************************************************************)
Half == ENTRIES \div 2

Entry == [present : BOOLEAN, frame : Nat, user : BOOLEAN]

IsMem(m) ==
    /\ m = [tables |-> m.tables, content |-> m.content, next |-> m.next]
    /\ m.next \in Nat
    /\ DOMAIN m.tables \subseteq 0 .. m.next - 1
    /\ m.tables \in [DOMAIN m.tables -> [Index -> Entry]]

\* What a frame is for: a table of a level, with the indices that lead to it
\* and the space it belongs to if they lead through the lower half; or, as
\* level 4, memory mapped for users.
Place == [level : 0 .. 4, own : Nat, ix3 : Nat, ix2 : Nat, ix1 : Nat]

\* Table f is where entry i of table t leads.
Under(g, t, i, f) ==
    /\ g[f].level = g[t].level - 1
    /\ g[t].level = 3 => g[f].ix3 = i /\ (i < Half => g[f].own = t)
    /\ g[t].level = 2 => g[f].ix3 = g[t].ix3 /\ g[f].own = g[t].own /\ g[f].ix2 = i
    /\ g[t].level = 1 => /\ g[f].ix3 = g[t].ix3 /\ g[f].own = g[t].own
                         /\ g[f].ix2 = g[t].ix2 /\ g[f].ix1 = i

\* Where memory is mapped at its I/O address.
Window == MMAP_IO_BASE \div PAGE_SIZE .. MMAP_KERNEL_BASE \div PAGE_SIZE - 1

\* What may be mapped at a page below a top entry of a space: for users only
\* memory of their own, in the window only the frame that belongs there.
Fits(m, g, k, own, ix3, page, e) ==
    /\ e.user => e.frame < m.next /\ g[e.frame].level = 4
    /\ e.present /\ ix3 < Half /\ own # k =>
         e.frame < m.next /\ g[e.frame].level = 4 /\ g[e.frame].own = own
    /\ e.present /\ page \in Window => e.frame = page - MMAP_IO_BASE \div PAGE_SIZE

Fitting(m, g, k, t, i) ==
    Fits(m, g, k, g[t].own, g[t].ix3, PageAt(g[t].ix3, g[t].ix2, g[t].ix1, i), m.tables[t][i])

\* The tables of m are laid out as g says; k is the kernel's top table.
Good(m, g, k) ==
    /\ IsMem(m)
    /\ g \in [Nat -> Place]
    /\ \A t \in DOMAIN m.tables : g[t].level < 4
    /\ \A t \in DOMAIN m.tables, i \in Index :
         m.tables[t][i].present /\ g[t].level > 0 =>
           m.tables[t][i].frame \in DOMAIN m.tables /\ Under(g, t, i, m.tables[t][i].frame)
    /\ \A t \in DOMAIN m.tables, i \in Index : g[t].level = 0 => Fitting(m, g, k, t, i)

\* What mapping leaves alone: frames keep their purpose, the tables that a
\* present entry leads to stay where they are.
Keeps(m, g, m2, g2) ==
    /\ DOMAIN m.tables \subseteq DOMAIN m2.tables
    /\ m.next <= m2.next /\ m2.content = m.content
    /\ \A f \in 0 .. m.next - 1 : g2[f] = g[f]
    /\ \A t \in DOMAIN m.tables, i \in Index :
         m.tables[t][i].present /\ g[t].level > 0 => m2.tables[t][i] = m.tables[t][i]

\* Of the top tables, new entries appear in that of pml only.
Tops(m, g, m2, pml, I) ==
    \A s \in DOMAIN m.tables, i \in Index : g[s].level = 3 =>
        \/ m2.tables[s][i] = m.tables[s][i]
        \/ s = pml /\ i \in I /\ ~m.tables[s][i].present

SameWalks(m, g, m2) ==
    \A s \in DOMAIN m.tables, p \in VPage : g[s].level = 3 => Walk(m2, s, p) = Walk(m, s, p)

\* m2 is m with another entry i of table t.
Put(m, m2, t, i, e) ==
    /\ IsMem(m2) /\ DOMAIN m2.tables = DOMAIN m.tables
    /\ m2.next = m.next /\ m2.content = m.content
    /\ m2.tables[t][i] = e
    /\ \A u \in DOMAIN m.tables, j \in Index :
         u # t \/ j # i => m2.tables[u][j] = m.tables[u][j]

\* What an EXCEPT on one entry of one table leaves behind.
LEMMA PutIs ==
    ASSUME NEW m, IsMem(m), NEW t \in DOMAIN m.tables, NEW i \in Index, NEW e \in Entry,
           NEW m2, m2 = [m EXCEPT !.tables[t][i] = e]
    PROVE  Put(m, m2, t, i, e)
  <1>1. PICK T, c, n : T = m.tables /\ c = m.content /\ n = m.next
    OBVIOUS
  <1>2. m = [tables |-> T, content |-> c, next |-> n] /\ T \in [DOMAIN T -> [Index -> Entry]]
    BY <1>1 DEF IsMem
  <1>3. PICK T2 : T2 = [T EXCEPT ![t][i] = e]
    OBVIOUS
  <1>4. m2 = [tables |-> T2, content |-> c, next |-> n]
    BY <1>2, <1>3
  <1>5. T2 \in [DOMAIN T -> [Index -> Entry]] /\ DOMAIN T2 = DOMAIN T
    BY <1>1, <1>2, <1>3
  <1>6. T2[t][i] = e /\ \A u \in DOMAIN T, j \in Index : u # t \/ j # i => T2[u][j] = T[u][j]
    BY <1>1, <1>2, <1>3
  <1>7. m2.tables = T2 /\ m2.content = c /\ m2.next = n
    BY <1>4
  <1>8. m2 = [tables |-> m2.tables, content |-> m2.content, next |-> m2.next]
    BY <1>4, <1>7
  <1>9. IsMem(m2)
    BY <1>1, <1>5, <1>7, <1>8 DEF IsMem
  <1>10. QED
    BY <1>1, <1>5, <1>6, <1>7, <1>9 DEF Put

\* m2 is m with an empty table in the next frame.
Added(m, m2) ==
    /\ IsMem(m2) /\ DOMAIN m2.tables = DOMAIN m.tables \cup {m.next}
    /\ m2.next = m.next + 1 /\ m2.content = m.content
    /\ \A i \in Index : m2.tables[m.next][i] = Absent
    /\ \A u \in DOMAIN m.tables : m2.tables[u] = m.tables[u]

\* A cleared table holds entries, none of them present.
LEMMA AbsentIs == Absent \in Entry /\ ~Absent.present /\ ~Absent.user /\ EmptyTable \in [Index -> Entry]
  BY DEF Absent, Entry, EmptyTable, Index

\* WithTable adds a cleared table in the next frame and moves no other.
LEMMA AddedIs ==
    ASSUME NEW m, IsMem(m)
    PROVE  Added(m, WithTable(m, m.next))
  <1>1. PICK T, c, n : T = m.tables /\ c = m.content /\ n = m.next
    OBVIOUS
  <1>2. /\ m = [tables |-> T, content |-> c, next |-> n] /\ T \in [DOMAIN T -> [Index -> Entry]]
        /\ n \in Nat /\ DOMAIN T \subseteq 0 .. n - 1
    BY <1>1 DEF IsMem
  <1>3. PICK T2 : T2 = [f \in DOMAIN T \cup {n} |-> IF f = n THEN EmptyTable ELSE T[f]]
    OBVIOUS
  <1>4. WithTable(m, m.next) = [tables |-> T2, content |-> c, next |-> n + 1]
    <2>1. WithTable(m, m.next) = [m EXCEPT !.tables = T2, !.next = n + 1]
      BY <1>1, <1>3 DEF WithTable
    <2>2. QED
      BY <1>2, <2>1
  <1>5. T2 \in [DOMAIN T \cup {n} -> [Index -> Entry]] /\ DOMAIN T2 = DOMAIN T \cup {n}
    BY <1>2, <1>3, AbsentIs
  <1>6. T2[n] = EmptyTable /\ \A f \in DOMAIN T : T2[f] = T[f]
    BY <1>2, <1>3
  <1>7. \A i \in Index : EmptyTable[i] = Absent
    BY DEF EmptyTable, Index
  <1>8. QED
    BY <1>1, <1>2, <1>4, <1>5, <1>6, <1>7 DEF Added, IsMem

\* An entry of a table above the lowest leads one level down.
LEMMA Down ==
    ASSUME NEW m, NEW g, NEW k, Good(m, g, k), NEW t \in DOMAIN m.tables, NEW i \in Index,
           m.tables[t][i].present, g[t].level > 0
    PROVE  m.tables[t][i].frame \in DOMAIN m.tables /\ Under(g, t, i, m.tables[t][i].frame)
  BY DEF Good

\* The entries on the way to a page.
Way(m, s, p, e3, e2, e1) ==
    /\ e3 = m.tables[s][Ix(p, 3)]
    /\ e2 = m.tables[e3.frame][Ix(p, 2)]
    /\ e1 = m.tables[e2.frame][Ix(p, 1)]

\* The tables on the way are where they should be.
OnWay(m, g, s, p, e3, e2, e1) ==
    /\ e3.present =>
         /\ e3.frame \in DOMAIN m.tables /\ g[e3.frame].level = 2
         /\ g[e3.frame].ix3 = Ix(p, 3) /\ (Ix(p, 3) < Half => g[e3.frame].own = s)
    /\ e3.present /\ e2.present =>
         /\ e2.frame \in DOMAIN m.tables /\ g[e2.frame].level = 1
         /\ g[e2.frame].ix3 = Ix(p, 3) /\ (Ix(p, 3) < Half => g[e2.frame].own = s)
         /\ g[e2.frame].ix2 = Ix(p, 2)
    /\ e3.present /\ e2.present /\ e1.present =>
         /\ e1.frame \in DOMAIN m.tables /\ g[e1.frame].level = 0
         /\ g[e1.frame].ix3 = Ix(p, 3) /\ (Ix(p, 3) < Half => g[e1.frame].own = s)
         /\ g[e1.frame].ix2 = Ix(p, 2) /\ g[e1.frame].ix1 = Ix(p, 1)

\* The way of a page through the levels follows the layout.
LEMMA Ways ==
    ASSUME NEW m, NEW g, NEW k, Good(m, g, k), NEW s \in DOMAIN m.tables, g[s].level = 3,
           NEW p \in VPage, NEW e3, NEW e2, NEW e1, Way(m, s, p, e3, e2, e1)
    PROVE  OnWay(m, g, s, p, e3, e2, e1)
  <1>1. PICK i3 \in Index, i2 \in Index, i1 \in Index :
          i3 = Ix(p, 3) /\ i2 = Ix(p, 2) /\ i1 = Ix(p, 1)
    BY Digits, SMTT(60)
  <1>2. e3 = m.tables[s][i3] /\ e2 = m.tables[e3.frame][i2] /\ e1 = m.tables[e2.frame][i1]
    BY <1>1 DEF Way
  <1>3. ASSUME e3.present
        PROVE  /\ e3.frame \in DOMAIN m.tables /\ g[e3.frame].level = 2
               /\ g[e3.frame].ix3 = i3 /\ (i3 < Half => g[e3.frame].own = s)
    <2>1. g[s].level > 0
      OBVIOUS
    <2>2. e3.frame \in DOMAIN m.tables /\ Under(g, s, i3, e3.frame)
      BY <1>2, <1>3, <2>1, Down, Zenon
    <2>3. QED
      BY <2>2 DEF Under
  <1>4. ASSUME e3.present, e2.present
        PROVE  /\ e2.frame \in DOMAIN m.tables /\ g[e2.frame].level = 1
               /\ g[e2.frame].ix3 = i3 /\ (i3 < Half => g[e2.frame].own = s)
               /\ g[e2.frame].ix2 = i2
    <2>1. PICK t \in DOMAIN m.tables : t = e3.frame
      BY <1>3, <1>4
    <2>2. g[t].level > 0 /\ g[t].level = 2
      BY <1>3, <1>4, <2>1
    <2>3. e2 = m.tables[t][i2]
      BY <1>2, <2>1, Zenon
    <2>4. e2.frame \in DOMAIN m.tables /\ Under(g, t, i2, e2.frame)
      BY <1>4, <2>2, <2>3, Down, Zenon
    <2>5. QED
      BY <1>3, <1>4, <2>1, <2>2, <2>4 DEF Under
  <1>5. ASSUME e3.present, e2.present, e1.present
        PROVE  /\ e1.frame \in DOMAIN m.tables /\ g[e1.frame].level = 0
               /\ g[e1.frame].ix3 = i3 /\ (i3 < Half => g[e1.frame].own = s)
               /\ g[e1.frame].ix2 = i2 /\ g[e1.frame].ix1 = i1
    <2>1. PICK t \in DOMAIN m.tables : t = e2.frame
      BY <1>4, <1>5
    <2>2. g[t].level > 0 /\ g[t].level = 1
      BY <1>4, <1>5, <2>1
    <2>3. e1 = m.tables[t][i1]
      BY <1>2, <2>1, Zenon
    <2>4. e1.frame \in DOMAIN m.tables /\ Under(g, t, i1, e1.frame)
      BY <1>5, <2>2, <2>3, Down, Zenon
    <2>5. QED
      BY <1>4, <1>5, <2>1, <2>2, <2>4 DEF Under
  <1>6. QED
    BY <1>1, <1>3, <1>4, <1>5 DEF OnWay

\* What fits goes on to fit when frames are allocated.
LEMMA StillFits ==
    ASSUME NEW m, NEW m2, NEW g, NEW g2, NEW k, NEW own, NEW ix3, NEW page, NEW e \in Entry,
           m.next \in Nat, m2.next \in Nat, m.next <= m2.next,
           \A f \in 0 .. m.next - 1 : g2[f] = g[f],
           Fits(m, g, k, own, ix3, page, e)
    PROVE  Fits(m2, g2, k, own, ix3, page, e)
  <1>1. e.frame \in Nat /\ e.user \in BOOLEAN /\ e.present \in BOOLEAN
    BY DEF Entry
  <1>2. e.frame < m.next => g2[e.frame] = g[e.frame]
    BY <1>1
  <1>3. QED
    BY <1>1, <1>2 DEF Fits

\* An absent entry fits everywhere.
LEMMA AbsentFits ==
    ASSUME NEW m, NEW g, NEW k, NEW own, NEW ix3, NEW page
    PROVE  Fits(m, g, k, own, ix3, page, Absent)
  BY AbsentIs DEF Fits

\* vmm_get_pml_alloc finds or adds the table, and no translation changes.
Alloced(m, g, m2, g2, k, t, i, u) ==
    /\ Good(m2, g2, k) /\ Keeps(m, g, m2, g2) /\ SameWalks(m, g, m2)
    /\ Tops(m, g, m2, t, {i})
    /\ m2.tables[t][i].present /\ m2.tables[t][i].frame = u

\* vmm_get_pml_alloc finds a table: nothing changes.
LEMMA AllocFound ==
    ASSUME NEW m, NEW g, NEW k, Good(m, g, k), NEW t \in DOMAIN m.tables, NEW i \in Index,
           g[t].level > 0, m.tables[t][i].present
    PROVE  LET r == vmm_get_pml_alloc(m, t, i) IN Alloced(m, g, r.mem, g, k, t, i, r.table)
  <1>1. PICK m2, u : m2 = vmm_get_pml_alloc(m, t, i).mem /\ u = vmm_get_pml_alloc(m, t, i).table
    OBVIOUS
  <1>2. m2 = m /\ u = m.tables[t][i].frame
    BY <1>1 DEF vmm_get_pml_alloc
  <1>3. Keeps(m, g, m, g) /\ SameWalks(m, g, m) /\ Tops(m, g, m, t, {i})
    BY DEF Keeps, SameWalks, Tops, Good, IsMem
  <1>4. QED
    BY <1>1, <1>2, <1>3 DEF Alloced

\* vmm_get_pml_alloc adds a table: the layout is extended by its frame.
LEMMA AllocAdded ==
    ASSUME NEW m, NEW g, NEW k, Good(m, g, k), NEW t \in DOMAIN m.tables, NEW i \in Index,
           g[t].level > 0, ~m.tables[t][i].present
    PROVE  LET r == vmm_get_pml_alloc(m, t, i)
           IN  \E g2 : Alloced(m, g, r.mem, g2, k, t, i, r.table)
  <1>1. PICK n, m1, e : n = m.next /\ m1 = WithTable(m, n) /\ e = pml_make_entry(n, TRUE)
    OBVIOUS
  <1>2. PICK m2 : m2 = [m1 EXCEPT !.tables[t][i] = e]
    OBVIOUS
  <1>3. vmm_get_pml_alloc(m, t, i) = [mem |-> m2, table |-> n]
    BY <1>1, <1>2 DEF vmm_get_pml_alloc
  <1>4. /\ IsMem(m) /\ n \in Nat /\ DOMAIN m.tables \subseteq 0 .. n - 1
        /\ m.tables \in [DOMAIN m.tables -> [Index -> Entry]]
        /\ g \in [Nat -> Place]
    BY <1>1 DEF Good, IsMem
  <1>5. Added(m, m1)
    BY <1>1, <1>4, AddedIs
  <1>6. e \in Entry /\ e.present /\ e.frame = n
    BY <1>1, <1>4 DEF pml_make_entry, Entry
  <1>7. Put(m1, m2, t, i, e)
    BY <1>2, <1>5, <1>6, PutIs DEF Added
  <1>8. /\ IsMem(m2) /\ DOMAIN m2.tables = DOMAIN m.tables \cup {n}
        /\ m2.next = n + 1 /\ m2.content = m.content
    BY <1>1, <1>5, <1>7 DEF Put, Added
  <1>9. t # n /\ n \notin DOMAIN m.tables
    BY <1>4
  <1>10. /\ m2.tables[t][i] = e
         /\ \A j \in Index : m2.tables[n][j] = Absent
         /\ \A u \in DOMAIN m.tables, j \in Index : u # t \/ j # i => m2.tables[u][j] = m.tables[u][j]
    BY <1>1, <1>5, <1>7, <1>9 DEF Put, Added
  <1>11. PICK l \in 1 .. 3, x3 \in Nat, x2 \in Nat, o \in Nat :
           l = g[t].level /\ x3 = g[t].ix3 /\ x2 = g[t].ix2 /\ o = g[t].own
    <2>1. t \in Nat
      BY <1>4
    <2>2. g[t] \in Place /\ g[t].level < 4
      BY <1>4, <2>1 DEF Good
    <2>3. QED
      BY <2>2 DEF Place
  <1>12. PICK pl : pl = [level |-> l - 1, own |-> IF l = 3 THEN t ELSE o,
                         ix3 |-> IF l = 3 THEN i ELSE x3, ix2 |-> IF l = 2 THEN i ELSE x2,
                         ix1 |-> i]
    OBVIOUS
  <1>13. t \in Nat /\ i \in Nat
    BY <1>4, TablesAssumption DEF Index
  <1>14. pl \in Place
    BY <1>11, <1>12, <1>13 DEF Place
  <1>15. PICK g2 : g2 = [g EXCEPT ![n] = pl]
    OBVIOUS
  <1>16. g2 \in [Nat -> Place] /\ g2[n] = pl /\ \A f \in Nat : f # n => g2[f] = g[f]
    BY <1>4, <1>14, <1>15
  <1>17. \A f \in DOMAIN m.tables : g2[f] = g[f] /\ f \in Nat
    BY <1>4, <1>16
  <1>18. \A f \in 0 .. n - 1 : g2[f] = g[f]
    BY <1>4, <1>16
  <1>19. Under(g2, t, i, n)
    BY <1>11, <1>12, <1>16, <1>17 DEF Under
  <1>20. Good(m2, g2, k)
    <2>2. \A u \in DOMAIN m2.tables : g2[u].level < 4
      BY <1>8, <1>11, <1>12, <1>16, <1>17 DEF Good
    <2>3. ASSUME NEW u \in DOMAIN m2.tables, NEW j \in Index,
                 m2.tables[u][j].present, g2[u].level > 0
          PROVE  m2.tables[u][j].frame \in DOMAIN m2.tables /\ Under(g2, u, j, m2.tables[u][j].frame)
      <3>1. CASE u = n
        BY <1>10, <2>3, <3>1, AbsentIs
      <3>2. CASE u = t /\ j = i
        BY <1>6, <1>8, <1>10, <1>19, <3>2
      <3>3. CASE u \in DOMAIN m.tables /\ (u # t \/ j # i)
        <4>1. m2.tables[u][j] = m.tables[u][j] /\ g2[u] = g[u]
          BY <1>10, <1>17, <3>3
        <4>2. PICK f : f = m.tables[u][j].frame
          OBVIOUS
        <4>3. f \in DOMAIN m.tables /\ Under(g, u, j, f)
          BY <2>3, <3>3, <4>1, <4>2 DEF Good
        <4>4. g2[f] = g[f]
          BY <1>17, <4>3
        <4>5. Under(g2, u, j, f)
          BY <4>1, <4>3, <4>4 DEF Under
        <4>6. QED
          BY <1>8, <4>1, <4>2, <4>3, <4>5
      <3>4. QED
        BY <1>8, <3>1, <3>2, <3>3
    <2>4. ASSUME NEW u \in DOMAIN m2.tables, NEW j \in Index, g2[u].level = 0
          PROVE  Fitting(m2, g2, k, u, j)
      <3>1. CASE u = n
        BY <1>10, <3>1, AbsentFits DEF Fitting
      <3>2. CASE u \in DOMAIN m.tables
        <4>1. u # t
          BY <1>11, <1>17, <2>4
        <4>2. m2.tables[u][j] = m.tables[u][j] /\ g2[u] = g[u]
          BY <1>10, <1>17, <3>2, <4>1
        <4>3. Fitting(m, g, k, u, j)
          BY <2>4, <3>2, <4>2 DEF Good
        <4>4. m.tables[u][j] \in Entry
          BY <1>4, <3>2
        <4>5. m.next \in Nat /\ m2.next \in Nat /\ m.next <= m2.next
          BY <1>1, <1>4, <1>8
        <4>6. \A f \in 0 .. m.next - 1 : g2[f] = g[f]
          BY <1>1, <1>18
        <4>7. QED
          BY <1>4, <4>2, <4>3, <4>4, <4>5, <4>6, StillFits DEF Fitting
      <3>3. QED
        BY <1>8, <3>1, <3>2
    <2>5. QED
      BY <1>8, <1>16, <2>2, <2>3, <2>4 DEF Good
  <1>21. Keeps(m, g, m2, g2)
    BY <1>1, <1>4, <1>8, <1>10, <1>18 DEF Keeps
  <1>22. Tops(m, g, m2, t, {i})
    BY <1>10 DEF Tops
  <1>23. ASSUME NEW s \in DOMAIN m.tables, NEW p \in VPage, g[s].level = 3
         PROVE  Walk(m2, s, p) = Walk(m, s, p)
    <2>1. PICK e3, e2, e1, f3, f2, f1 :
             /\ e3 = m.tables[s][Ix(p, 3)] /\ e2 = m.tables[e3.frame][Ix(p, 2)]
             /\ e1 = m.tables[e2.frame][Ix(p, 1)]
             /\ f3 = m2.tables[s][Ix(p, 3)] /\ f2 = m2.tables[f3.frame][Ix(p, 2)]
             /\ f1 = m2.tables[f2.frame][Ix(p, 1)]
      BY SMTT(60)
    <2>2. /\ Walk(m, s, p) = IF ~e3.present THEN Absent ELSE IF ~e2.present THEN Absent
                             ELSE IF ~e1.present THEN Absent ELSE m.tables[e1.frame][Ix(p, 0)]
          /\ Walk(m2, s, p) = IF ~f3.present THEN Absent ELSE IF ~f2.present THEN Absent
                              ELSE IF ~f1.present THEN Absent ELSE m2.tables[f1.frame][Ix(p, 0)]
      BY <2>1 DEF Walk, Ix
    <2>3. Ix(p, 3) \in Index /\ Ix(p, 2) \in Index /\ Ix(p, 1) \in Index /\ Ix(p, 0) \in Index
      BY Digits
    <2>7. OnWay(m, g, s, p, e3, e2, e1)
      <3>1. Way(m, s, p, e3, e2, e1)
        BY <2>1 DEF Way
      <3>2. QED
        BY <1>23, <3>1, Ways, ZenonT(60)
    <2>4. CASE s = t /\ Ix(p, 3) = i
      <3>1. ~e3.present /\ f3.frame = n
        BY <1>6, <1>10, <2>1, <2>4, SMTT(60)
      <3>2. ~f2.present
        BY <1>10, <2>1, <2>3, <3>1, AbsentIs
      <3>3. QED
        BY <2>2, <3>1, <3>2, SMTT(60)
    <2>5. CASE ~(s = t /\ Ix(p, 3) = i)
      <3>1. f3 = e3
        BY <1>10, <2>1, <2>3, <2>5
      <3>2. CASE ~e3.present
        BY <2>2, <3>1, <3>2
      <3>3. CASE e3.present
        <4>1. e3.frame \in DOMAIN m.tables /\ g[e3.frame].level = 2
          BY <2>7, <3>3 DEF OnWay
        <4>2. CASE e3.frame = t /\ Ix(p, 2) = i
          <5>1. ~e2.present /\ f2.frame = n
            BY <1>6, <1>10, <2>1, <3>1, <4>2, SMTT(60)
          <5>2. ~f1.present
            BY <1>10, <2>1, <2>3, <5>1, AbsentIs, SMTT(60)
          <5>3. QED
            BY <2>2, <5>1, <5>2
        <4>3. CASE ~(e3.frame = t /\ Ix(p, 2) = i)
          <5>0. f2 = m2.tables[e3.frame][Ix(p, 2)]
            BY <2>1, <3>1, ZenonT(60)
          <5>1. f2 = e2
            BY <1>10, <2>1, <2>3, <4>1, <4>3, <5>0
          <5>2. CASE ~e2.present
            BY <2>2, <3>1, <5>1, <5>2
          <5>3. CASE e2.present
            <6>1. e2.frame \in DOMAIN m.tables /\ g[e2.frame].level = 1
              BY <2>7, <3>3, <5>3 DEF OnWay
            <6>2. CASE e2.frame = t /\ Ix(p, 1) = i
              <7>1. ~e1.present /\ f1.frame = n /\ f1.present
                BY <1>6, <1>10, <2>1, <5>1, <6>2
              <7>2. m2.tables[f1.frame][Ix(p, 0)] = Absent
                BY <1>10, <2>3, <7>1, SMTT(60)
              <7>3. QED
                BY <2>2, <7>1, <7>2
            <6>3. CASE ~(e2.frame = t /\ Ix(p, 1) = i)
              <7>0. f1 = m2.tables[e2.frame][Ix(p, 1)]
                BY <2>1, <5>1, ZenonT(60)
              <7>1. f1 = e1
                BY <1>10, <2>1, <2>3, <6>1, <6>3, <7>0
              <7>2. CASE ~e1.present
                BY <2>2, <3>1, <5>1, <7>1, <7>2
              <7>3. CASE e1.present
                <8>1. e1.frame \in DOMAIN m.tables /\ g[e1.frame].level = 0
                  BY <2>7, <3>3, <5>3, <7>3 DEF OnWay
                <8>2. m2.tables[e1.frame][Ix(p, 0)] = m.tables[e1.frame][Ix(p, 0)]
                  BY <1>10, <1>11, <2>3, <8>1
                <8>3. QED
                  BY <2>2, <3>1, <5>1, <7>1, <8>2
              <7>4. QED
                BY <7>2, <7>3
            <6>4. QED
              BY <6>2, <6>3
          <5>4. QED
            BY <5>2, <5>3
        <4>4. QED
          BY <4>2, <4>3
      <3>4. QED
        BY <3>2, <3>3, SMTT(60)
    <2>6. QED
      BY <2>4, <2>5
  <1>24. Alloced(m, g, m2, g2, k, t, i, n)
    BY <1>6, <1>10, <1>20, <1>21, <1>22, <1>23 DEF Alloced, SameWalks
  <1>25. QED
    BY <1>3, <1>24

\* vmm_get_pml_alloc keeps the layout, whether it finds a table or adds one.
LEMMA Alloc ==
    ASSUME NEW m, NEW g, NEW k, Good(m, g, k), NEW t \in DOMAIN m.tables, NEW i \in Index,
           g[t].level > 0, NEW r, r = vmm_get_pml_alloc(m, t, i)
    PROVE  \E g2 : Alloced(m, g, r.mem, g2, k, t, i, r.table)
  BY AllocFound, AllocAdded

\* Table t holds the entry of a page.
Leads(m, s, p, t) ==
    \E e3, e2, e1 : /\ Way(m, s, p, e3, e2, e1)
                    /\ e3.present /\ e2.present /\ e1.present /\ e1.frame = t

\* The entry of a page is in one table of the page's own, and in the lower
\* half that table belongs to one space.
Lands(m, g, s, p, t) ==
    /\ t \in DOMAIN m.tables /\ g[t].level = 0
    /\ PageAt(g[t].ix3, g[t].ix2, g[t].ix1, Ix(p, 0)) = p
    /\ g[t].ix3 = Ix(p, 3) /\ (Ix(p, 3) < Half => g[t].own = s)
    /\ Walk(m, s, p) = m.tables[t][Ix(p, 0)]

\* The table a page is looked up in is of the lowest level, and that of the page.
LEMMA Landing ==
    ASSUME NEW m, NEW g, NEW k, Good(m, g, k), NEW s \in DOMAIN m.tables, g[s].level = 3,
           NEW p \in VPage, NEW t, Leads(m, s, p, t)
    PROVE  Lands(m, g, s, p, t)
  <1>1. PICK e3, e2, e1 : /\ Way(m, s, p, e3, e2, e1)
                          /\ e3.present /\ e2.present /\ e1.present /\ e1.frame = t
    BY DEF Leads
  <1>2. OnWay(m, g, s, p, e3, e2, e1)
    BY <1>1, Ways, Zenon
  <1>3. /\ t \in DOMAIN m.tables /\ g[t].level = 0
        /\ g[t].ix3 = Ix(p, 3) /\ (Ix(p, 3) < Half => g[t].own = s)
        /\ g[t].ix2 = Ix(p, 2) /\ g[t].ix1 = Ix(p, 1)
    BY <1>1, <1>2, SMTT(60) DEF OnWay
  <1>4. Walk(m, s, p) = m.tables[t][Ix(p, 0)]
    BY <1>1 DEF Way, Walk, Ix
  <1>5. p = PageAt(Ix(p, 3), Ix(p, 2), Ix(p, 1), Ix(p, 0))
    BY Digits
  <1>6. QED
    BY <1>3, <1>4, <1>5, Zenon DEF Lands

\* It is in one table only.
LEMMA LeadsOnce ==
    ASSUME NEW m, NEW s, NEW p, NEW t, NEW u, Leads(m, s, p, t), Leads(m, s, p, u)
    PROVE  t = u
  <1>1. PICK e3, e2, e1 : Way(m, s, p, e3, e2, e1) /\ e1.frame = t
    BY DEF Leads
  <1>2. PICK f3, f2, f1 : Way(m, s, p, f3, f2, f1) /\ f1.frame = u
    BY DEF Leads
  <1>3. e3 = f3
    BY <1>1, <1>2, Zenon DEF Way
  <1>4. e2 = f2
    BY <1>1, <1>2, <1>3, Zenon DEF Way
  <1>5. e1 = f1
    BY <1>1, <1>2, <1>4, ZenonT(60) DEF Way
  <1>6. QED
    BY <1>1, <1>2, <1>5, Zenon

\* A page that leads nowhere has no entry.
LEMMA NoLanding ==
    ASSUME NEW m, NEW s, NEW p, \A t : ~Leads(m, s, p, t)
    PROVE  Walk(m, s, p) = Absent
  <1>1. PICK e3, e2, e1 : Way(m, s, p, e3, e2, e1)
    BY DEF Way
  <1>2. ~(e3.present /\ e2.present /\ e1.present)
    BY <1>1, Zenon DEF Leads
  <1>3. QED
    BY <1>1, <1>2 DEF Way, Walk, Ix

\* Writing an entry of a lowest table leaves every way as it is.
LEMMA PutWay ==
    ASSUME NEW m, NEW g, NEW k, Good(m, g, k), NEW t \in DOMAIN m.tables, g[t].level = 0,
           NEW i, NEW e, NEW m2, Put(m, m2, t, i, e),
           NEW s \in DOMAIN m.tables, g[s].level = 3, NEW p \in VPage, NEW u
    PROVE  Leads(m2, s, p, u) <=> Leads(m, s, p, u)
  <1>1. \A v \in DOMAIN m.tables, j \in Index :
           g[v].level > 0 => m2.tables[v][j] = m.tables[v][j]
    BY DEF Put
  <1>2. PICK e3, e2, e1, f3, f2, f1 :
          Way(m, s, p, e3, e2, e1) /\ Way(m2, s, p, f3, f2, f1)
    BY SMTT(60) DEF Way
  <1>3. Leads(m, s, p, u) <=> e3.present /\ e2.present /\ e1.present /\ e1.frame = u
    BY <1>2, ZenonT(60) DEF Leads, Way
  <1>4. Leads(m2, s, p, u) <=> f3.present /\ f2.present /\ f1.present /\ f1.frame = u
    BY <1>2, ZenonT(60) DEF Leads, Way
  <1>5. OnWay(m, g, s, p, e3, e2, e1)
    BY <1>2, Ways, Zenon
  <1>6. Ix(p, 3) \in Index /\ Ix(p, 2) \in Index /\ Ix(p, 1) \in Index
    BY Digits
  <1>7. f3 = e3
    BY <1>1, <1>2, <1>6 DEF Way
  <1>8. ASSUME e3.present PROVE f2 = e2
    <2>1. PICK v \in DOMAIN m.tables : v = e3.frame /\ g[v].level > 0
      BY <1>5, <1>8 DEF OnWay
    <2>2. f2 = m2.tables[v][Ix(p, 2)] /\ e2 = m.tables[v][Ix(p, 2)]
      BY <1>2, <1>7, <2>1, Zenon DEF Way
    <2>3. QED
      BY <1>1, <1>6, <2>1, <2>2
  <1>9. ASSUME e3.present, e2.present PROVE f1 = e1
    <2>1. PICK v \in DOMAIN m.tables : v = e2.frame /\ g[v].level > 0
      BY <1>5, <1>9 DEF OnWay
    <2>2. f1 = m2.tables[v][Ix(p, 1)] /\ e1 = m.tables[v][Ix(p, 1)]
      BY <1>2, <1>8, <1>9, <2>1, Zenon DEF Way
    <2>3. QED
      BY <1>1, <1>6, <2>1, <2>2
  <1>10. QED
    BY <1>3, <1>4, <1>7, <1>8, <1>9, Zenon

\* What writing such an entry changes.
Wrote(m, g, m2, k, t, i, e) ==
    /\ Good(m2, g, k) /\ Keeps(m, g, m2, g)
    /\ \A s \in DOMAIN m.tables, j \in Index : g[s].level = 3 => m2.tables[s][j] = m.tables[s][j]
    /\ \A s \in DOMAIN m.tables, p \in VPage : g[s].level = 3 =>
         Walk(m2, s, p) = IF Leads(m, s, p, t) /\ Ix(p, 0) = i THEN e ELSE Walk(m, s, p)

\* A fitting entry may be written to a table of the lowest level.
LEMMA WriteLeaf ==
    ASSUME NEW m, NEW g, NEW k, Good(m, g, k), NEW t \in DOMAIN m.tables, g[t].level = 0,
           NEW i \in Index, NEW e \in Entry, NEW m2, Put(m, m2, t, i, e),
           Fits(m, g, k, g[t].own, g[t].ix3, PageAt(g[t].ix3, g[t].ix2, g[t].ix1, i), e)
    PROVE  Wrote(m, g, m2, k, t, i, e)
  <1>1. \A v \in DOMAIN m.tables, j \in Index :
           g[v].level > 0 => m2.tables[v][j] = m.tables[v][j]
    BY DEF Put
  <1>2. /\ IsMem(m) /\ IsMem(m2) /\ DOMAIN m2.tables = DOMAIN m.tables
        /\ m2.next = m.next /\ m2.content = m.content /\ m.next \in Nat
    BY DEF Put, Good, IsMem
  <1>3. Good(m2, g, k)
    <2>1. /\ g \in [Nat -> Place]
          /\ \A u \in DOMAIN m2.tables : g[u].level < 4
      BY <1>2 DEF Good
    <2>2. ASSUME NEW u \in DOMAIN m2.tables, NEW j \in Index,
                 m2.tables[u][j].present, g[u].level > 0
          PROVE  m2.tables[u][j].frame \in DOMAIN m2.tables /\ Under(g, u, j, m2.tables[u][j].frame)
      <3>1. m2.tables[u][j] = m.tables[u][j]
        BY <1>1, <1>2, <2>2, Zenon
      <3>2. QED
        BY <1>2, <2>2, <3>1, Down, Zenon
    <2>3. ASSUME NEW u \in DOMAIN m2.tables, NEW j \in Index, g[u].level = 0
          PROVE  Fitting(m2, g, k, u, j)
      <3>1. m2.next <= m2.next /\ \A f \in 0 .. m.next - 1 : g[f] = g[f]
        BY <1>2
      <3>2. CASE u = t /\ j = i
        <4>1. m2.tables[u][j] = e
          BY <3>2 DEF Put
        <4>2. Fits(m2, g, k, g[t].own, g[t].ix3, PageAt(g[t].ix3, g[t].ix2, g[t].ix1, i), e)
          BY <1>2, <2>1, <3>1, StillFits
        <4>3. QED
          BY <3>2, <4>1, <4>2 DEF Fitting
      <3>3. CASE u # t \/ j # i
        <4>1. m2.tables[u][j] = m.tables[u][j]
          BY <1>2, <3>3 DEF Put
        <4>2. Fitting(m, g, k, u, j)
          BY <1>2, <2>3 DEF Good
        <4>3. m.tables[u][j] \in Entry
          BY <1>2 DEF IsMem
        <4>4. QED
          BY <1>2, <2>1, <3>1, <4>1, <4>2, <4>3, StillFits DEF Fitting
      <3>4. QED
        BY <3>2, <3>3
    <2>4. QED
      BY <1>2, <2>1, <2>2, <2>3 DEF Good
  <1>4. Keeps(m, g, m2, g)
    BY <1>1, <1>2 DEF Keeps
  <1>5. ASSUME NEW s \in DOMAIN m.tables, NEW p \in VPage, g[s].level = 3
        PROVE  Walk(m2, s, p) = IF Leads(m, s, p, t) /\ Ix(p, 0) = i THEN e ELSE Walk(m, s, p)
    <2>1. \A u : Leads(m2, s, p, u) <=> Leads(m, s, p, u)
      BY <1>5, PutWay, Zenon
    <2>2. CASE \A u : ~Leads(m, s, p, u)
      BY <2>1, <2>2, NoLanding, Zenon
    <2>3. ASSUME NEW u, Leads(m, s, p, u)
          PROVE  Walk(m2, s, p) = IF Leads(m, s, p, t) /\ Ix(p, 0) = i THEN e ELSE Walk(m, s, p)
      <3>1. Leads(m2, s, p, u) /\ s \in DOMAIN m2.tables
        BY <1>2, <2>1, <2>3, Zenon
      <3>2. u \in DOMAIN m.tables /\ Walk(m, s, p) = m.tables[u][Ix(p, 0)]
        <4>1. Lands(m, g, s, p, u)
          BY <1>5, <2>3, Landing, Zenon
        <4>2. QED
          BY <4>1 DEF Lands
      <3>3. Walk(m2, s, p) = m2.tables[u][Ix(p, 0)]
        <4>1. Lands(m2, g, s, p, u)
          BY <1>3, <1>5, <3>1, Landing, Zenon
        <4>2. QED
          BY <4>1 DEF Lands
      <3>4. Leads(m, s, p, t) => t = u
        BY <2>3, LeadsOnce, Zenon
      <3>5. Ix(p, 0) \in Index
        BY Digits
      <3>6. QED
        BY <2>3, <3>2, <3>3, <3>4, <3>5 DEF Put
    <2>4. QED
      BY <2>2, <2>3, Zenon
  <1>6. \A s \in DOMAIN m.tables, j \in Index : g[s].level = 3 => m2.tables[s][j] = m.tables[s][j]
    BY <1>1
  <1>7. QED
    BY <1>3, <1>4, <1>5, <1>6 DEF Wrote

\* Mapping step after step.
LEMMA KeepsOn ==
    ASSUME NEW m, NEW g, NEW m1, NEW g1, NEW m2, NEW g2, NEW k,
           Good(m, g, k), Good(m1, g1, k), Good(m2, g2, k),
           Keeps(m, g, m1, g1), Keeps(m1, g1, m2, g2)
    PROVE  Keeps(m, g, m2, g2)
  <1>1. m.next \in Nat /\ m1.next \in Nat /\ m2.next \in Nat /\ DOMAIN m.tables \subseteq 0 .. m.next - 1
    BY DEF Good, IsMem
  <1>2. \A t \in DOMAIN m.tables : g1[t] = g[t] /\ t \in DOMAIN m1.tables
    BY <1>1 DEF Keeps
  <1>3. \A f \in 0 .. m.next - 1 : g2[f] = g[f]
    BY <1>1 DEF Keeps
  <1>4. ASSUME NEW t \in DOMAIN m.tables, NEW i \in Index,
               m.tables[t][i].present, g[t].level > 0
        PROVE  m2.tables[t][i] = m.tables[t][i]
    <2>1. m1.tables[t][i] = m.tables[t][i]
      BY <1>4, Zenon DEF Keeps
    <2>2. m1.tables[t][i].present
      BY <1>4, <2>1, Zenon
    <2>3. g1[t].level > 0 /\ t \in DOMAIN m1.tables
      BY <1>2, <1>4
    <2>4. m2.tables[t][i] = m1.tables[t][i]
      BY <2>2, <2>3, Zenon DEF Keeps
    <2>5. QED
      BY <2>1, <2>4
  <1>5. QED
    BY <1>1, <1>3, <1>4 DEF Keeps

\* Tables stay where they are while others are added.
LEMMA KeptTop ==
    ASSUME NEW m, NEW g, NEW m2, NEW g2, NEW k, Good(m, g, k), Keeps(m, g, m2, g2),
           NEW s \in DOMAIN m.tables
    PROVE  s \in DOMAIN m2.tables /\ g2[s] = g[s]
  <1>1. s \in 0 .. m.next - 1
    BY DEF Good, IsMem
  <1>2. QED
    BY <1>1 DEF Keeps

\* Changing a few entries of a top table, twice.
LEMMA TopsOn ==
    ASSUME NEW m, NEW g, NEW m1, NEW g1, NEW m2, NEW k, Good(m, g, k), Keeps(m, g, m1, g1),
           NEW pml, NEW I, Tops(m, g, m1, pml, I), Tops(m1, g1, m2, pml, I)
    PROVE  Tops(m, g, m2, pml, I)
  <1>1. ASSUME NEW s \in DOMAIN m.tables, NEW i \in Index, g[s].level = 3
        PROVE  \/ m2.tables[s][i] = m.tables[s][i]
               \/ s = pml /\ i \in I /\ ~m.tables[s][i].present
    <2>1. s \in DOMAIN m1.tables /\ g1[s] = g[s]
      BY KeptTop, Zenon
    <2>2. \/ m2.tables[s][i] = m1.tables[s][i]
          \/ s = pml /\ i \in I /\ ~m1.tables[s][i].present
      BY <1>1, <2>1, Zenon DEF Tops
    <2>3. \/ m1.tables[s][i] = m.tables[s][i]
          \/ s = pml /\ i \in I /\ ~m.tables[s][i].present
      BY <1>1, Zenon DEF Tops
    <2>4. PICK x, y, z : x = m.tables[s][i] /\ y = m1.tables[s][i] /\ z = m2.tables[s][i]
      OBVIOUS
    <2>5. z = y \/ (s = pml /\ i \in I /\ ~y.present)
      BY <2>2, <2>4, Zenon
    <2>6. y = x \/ (s = pml /\ i \in I /\ ~x.present)
      BY <2>3, <2>4, Zenon
    <2>7. z = x \/ (s = pml /\ i \in I /\ ~x.present)
      BY ONLY <2>5, <2>6
    <2>8. QED
      BY <2>4, <2>7, Zenon
  <1>2. QED
    BY <1>1, Zenon DEF Tops

\* Changing no translation, twice.
LEMMA WalksOn ==
    ASSUME NEW m, NEW g, NEW m1, NEW g1, NEW m2, NEW k, Good(m, g, k), Keeps(m, g, m1, g1),
           SameWalks(m, g, m1), SameWalks(m1, g1, m2)
    PROVE  SameWalks(m, g, m2)
  <1>1. ASSUME NEW s \in DOMAIN m.tables, NEW p \in VPage, g[s].level = 3
        PROVE  Walk(m2, s, p) = Walk(m, s, p)
    <2>1. s \in DOMAIN m1.tables /\ g1[s] = g[s]
      BY KeptTop, Zenon
    <2>2. Walk(m2, s, p) = Walk(m1, s, p) /\ Walk(m1, s, p) = Walk(m, s, p)
      BY <1>1, <2>1, Zenon DEF SameWalks
    <2>3. QED
      BY <2>2, Zenon
  <1>2. QED
    BY <1>1, Zenon DEF SameWalks

\* The three tables of a page, found or added.
Ready(m, g, m1, g1, k, pml, page, t) ==
    /\ Good(m1, g1, k) /\ Keeps(m, g, m1, g1) /\ SameWalks(m, g, m1)
    /\ Tops(m, g, m1, pml, {Ix(page, 3)}) /\ Leads(m1, pml, page, t)

\* The three vmm_get_pml_alloc of vmm_map_page lead to the table of the page.
LEMMA MakeReady ==
    ASSUME NEW m, NEW g, NEW k, Good(m, g, k), NEW pml \in DOMAIN m.tables, g[pml].level = 3,
           NEW page \in VPage, NEW r3, NEW r2, NEW r1,
           r3 = vmm_get_pml_alloc(m, pml, Ix(page, 3)),
           r2 = vmm_get_pml_alloc(r3.mem, r3.table, Ix(page, 2)),
           r1 = vmm_get_pml_alloc(r2.mem, r2.table, Ix(page, 1))
    PROVE  \E g1 : Ready(m, g, r1.mem, g1, k, pml, page, r1.table)
  <1>1. PICK i3 \in Index, i2 \in Index, i1 \in Index :
          i3 = Ix(page, 3) /\ i2 = Ix(page, 2) /\ i1 = Ix(page, 1)
    BY Digits
  <1>2. PICK m3, t3, m2, t2, m1, t1 : /\ m3 = r3.mem /\ t3 = r3.table /\ m2 = r2.mem /\ t2 = r2.table
                                      /\ m1 = r1.mem /\ t1 = r1.table
    OBVIOUS
  <1>3. PICK g3 : Alloced(m, g, m3, g3, k, pml, i3, t3)
    <2>1. g[pml].level > 0
      OBVIOUS
    <2>2. QED
      BY <1>1, <1>2, <2>1, Alloc, Zenon
  <1>4. /\ Good(m3, g3, k) /\ Keeps(m, g, m3, g3) /\ SameWalks(m, g, m3) /\ Tops(m, g, m3, pml, {i3})
        /\ m3.tables[pml][i3].present /\ m3.tables[pml][i3].frame = t3
    BY <1>3 DEF Alloced
  <1>5. pml \in DOMAIN m3.tables /\ g3[pml].level = 3 /\ g3[pml].level > 0
    BY <1>4, KeptTop
  <1>6. t3 \in DOMAIN m3.tables /\ Under(g3, pml, i3, t3)
    BY <1>4, <1>5, Down, Zenon
  <1>7. g3[t3].level = 2 /\ g3[t3].level > 0
    BY <1>5, <1>6 DEF Under
  <1>8. PICK g2 : Alloced(m3, g3, m2, g2, k, t3, i2, t2)
    <2>1. r2 = vmm_get_pml_alloc(m3, t3, i2)
      BY <1>1, <1>2, Zenon
    <2>2. Good(m3, g3, k) /\ t3 \in DOMAIN m3.tables /\ i2 \in Index /\ g3[t3].level > 0
      BY <1>4, <1>6, <1>7, Zenon
    <2>3. \E x : Alloced(m3, g3, r2.mem, x, k, t3, i2, r2.table)
      BY ONLY <2>1, <2>2, Alloc, Zenon
    <2>4. QED
      BY <1>2, <2>3, Zenon
  <1>9. /\ Good(m2, g2, k) /\ Keeps(m3, g3, m2, g2) /\ SameWalks(m3, g3, m2) /\ Tops(m3, g3, m2, t3, {i2})
        /\ m2.tables[t3][i2].present /\ m2.tables[t3][i2].frame = t2
    BY <1>8 DEF Alloced
  <1>10. t3 \in DOMAIN m2.tables /\ g2[t3].level = 2 /\ g2[t3].level > 0
    BY <1>4, <1>6, <1>7, <1>9, KeptTop
  <1>11. t2 \in DOMAIN m2.tables /\ Under(g2, t3, i2, t2)
    BY <1>9, <1>10, Down, Zenon
  <1>12. g2[t2].level = 1 /\ g2[t2].level > 0
    BY <1>10, <1>11 DEF Under
  <1>13. PICK g1 : Alloced(m2, g2, m1, g1, k, t2, i1, t1)
    <2>1. r1 = vmm_get_pml_alloc(m2, t2, i1)
      BY <1>1, <1>2, Zenon
    <2>2. Good(m2, g2, k) /\ t2 \in DOMAIN m2.tables /\ i1 \in Index /\ g2[t2].level > 0
      BY <1>9, <1>11, <1>12, Zenon
    <2>3. \E x : Alloced(m2, g2, r1.mem, x, k, t2, i1, r1.table)
      BY ONLY <2>1, <2>2, Alloc, Zenon
    <2>4. QED
      BY <1>2, <2>3, Zenon
  <1>14. /\ Good(m1, g1, k) /\ Keeps(m2, g2, m1, g1) /\ SameWalks(m2, g2, m1) /\ Tops(m2, g2, m1, t2, {i1})
         /\ m1.tables[t2][i1].present /\ m1.tables[t2][i1].frame = t1
    BY <1>13 DEF Alloced
  <1>15. Keeps(m3, g3, m1, g1) /\ Keeps(m, g, m1, g1)
    BY <1>4, <1>9, <1>14, KeepsOn, Zenon
  <1>16. SameWalks(m, g, m1)
    BY <1>4, <1>9, <1>14, WalksOn, Zenon
  <1>17. Tops(m, g, m1, pml, {i3})
    <2>1. Tops(m3, g3, m2, pml, {i3})
      BY <1>7, <1>9 DEF Tops
    <2>2. Tops(m2, g2, m1, pml, {i3})
      BY <1>12, <1>14 DEF Tops
    <2>3. Tops(m3, g3, m1, pml, {i3})
      BY <1>4, <1>9, <2>1, <2>2, TopsOn, Zenon
    <2>4. QED
      BY <1>4, <2>3, TopsOn, Zenon
  <1>18. Leads(m1, pml, page, t1)
    <2>1. m1.tables[pml][i3] = m3.tables[pml][i3]
      BY <1>4, <1>5, <1>15, Zenon DEF Keeps
    <2>2. m1.tables[t3][i2] = m2.tables[t3][i2]
      BY <1>9, <1>10, <1>14, Zenon DEF Keeps
    <2>3. Way(m1, pml, page, m3.tables[pml][i3], m2.tables[t3][i2], m1.tables[t2][i1])
      BY <1>1, <1>4, <1>9, <2>1, <2>2, Zenon DEF Way
    <2>4. QED
      BY <1>4, <1>9, <1>14, <2>3, Zenon DEF Leads
  <1>19. QED
    BY <1>1, <1>2, <1>14, <1>15, <1>16, <1>17, <1>18, Zenon DEF Ready

\* What vmm_map_page does to the translations of all spaces.
PageMapped(m, g, m2, g2, k, pml, page, e) ==
    /\ Good(m2, g2, k) /\ Keeps(m, g, m2, g2) /\ Tops(m, g, m2, pml, {Ix(page, 3)})
    /\ Walk(m2, pml, page) = e
    /\ \A s \in DOMAIN m.tables, p \in VPage : g[s].level = 3 =>
         \/ Walk(m2, s, p) = Walk(m, s, p)
         \/ p = page /\ Walk(m2, s, p) = e /\ (Ix(p, 3) < Half => s = pml)

\* vmm_map_page changes the translation of one page in one space.
LEMMA MapPage ==
    ASSUME NEW m, NEW g, NEW k, Good(m, g, k), NEW pml \in DOMAIN m.tables, g[pml].level = 3,
           NEW page \in VPage, NEW frame \in Nat, NEW user \in BOOLEAN,
           Fits(m, g, k, pml, Ix(page, 3), page, pml_make_entry(frame, user))
    PROVE  \E g2 : PageMapped(m, g, vmm_map_page(m, pml, page, frame, user), g2, k, pml, page,
                              pml_make_entry(frame, user))
  <1>1. PICK r3, r2, r1 : /\ r3 = vmm_get_pml_alloc(m, pml, Ix(page, 3))
                          /\ r2 = vmm_get_pml_alloc(r3.mem, r3.table, Ix(page, 2))
                          /\ r1 = vmm_get_pml_alloc(r2.mem, r2.table, Ix(page, 1))
    OBVIOUS
  <1>2. PICK m1, t, e, i, m2 :
          /\ m1 = r1.mem /\ t = r1.table /\ e = pml_make_entry(frame, user) /\ i = Ix(page, 0)
          /\ m2 = [m1 EXCEPT !.tables[t][i] = e]
    OBVIOUS
  <1>3. m2 = vmm_map_page(m, pml, page, frame, user)
    BY <1>1, <1>2 DEF vmm_map_page, Ix
  <1>4. PICK g1 : Ready(m, g, m1, g1, k, pml, page, t)
    BY <1>1, <1>2, MakeReady, Zenon
  <1>5. /\ Good(m1, g1, k) /\ Keeps(m, g, m1, g1) /\ SameWalks(m, g, m1)
        /\ Tops(m, g, m1, pml, {Ix(page, 3)}) /\ Leads(m1, pml, page, t)
    BY <1>4 DEF Ready
  <1>6. e \in Entry /\ i \in Index
    BY <1>2, Digits DEF pml_make_entry, Entry
  <1>7. pml \in DOMAIN m1.tables /\ g1[pml].level = 3
    BY <1>5, KeptTop
  <1>8. Lands(m1, g1, pml, page, t)
    BY <1>5, <1>7, Landing, Zenon
  <1>9. /\ t \in DOMAIN m1.tables /\ g1[t].level = 0
        /\ PageAt(g1[t].ix3, g1[t].ix2, g1[t].ix1, i) = page
        /\ g1[t].ix3 = Ix(page, 3) /\ (Ix(page, 3) < Half => g1[t].own = pml)
    BY <1>2, <1>8 DEF Lands
  <1>10. Fits(m1, g1, k, g1[t].own, g1[t].ix3, page, e)
    <2>1. Fits(m1, g1, k, pml, Ix(page, 3), page, e)
      <3>1. /\ m.next \in Nat /\ m1.next \in Nat /\ m.next <= m1.next
            /\ \A f \in 0 .. m.next - 1 : g1[f] = g[f]
        BY <1>5 DEF Good, IsMem, Keeps
      <3>2. QED
        BY <1>2, <1>6, <3>1, StillFits
    <2>2. QED
      BY <1>9, <2>1 DEF Fits
  <1>11. Put(m1, m2, t, i, e)
    <2>1. IsMem(m1)
      BY <1>5 DEF Good
    <2>2. QED
      BY <1>2, <1>6, <1>9, <2>1, PutIs, Zenon
  <1>12. Wrote(m1, g1, m2, k, t, i, e)
    BY <1>5, <1>6, <1>9, <1>10, <1>11, WriteLeaf, Zenon
  <1>13. Good(m2, g1, k) /\ Keeps(m1, g1, m2, g1)
    BY <1>12 DEF Wrote
  <1>14. Keeps(m, g, m2, g1)
    BY <1>5, <1>13, KeepsOn, Zenon
  <1>15. Tops(m, g, m2, pml, {Ix(page, 3)})
    <2>1. Tops(m1, g1, m2, pml, {Ix(page, 3)})
      BY <1>12, Zenon DEF Wrote, Tops
    <2>2. QED
      BY <1>5, <2>1, TopsOn, Zenon
  <1>16. Walk(m2, pml, page) = e
    BY <1>2, <1>5, <1>7, <1>12 DEF Wrote
  <1>17. ASSUME NEW s \in DOMAIN m.tables, NEW p \in VPage, g[s].level = 3
         PROVE  \/ Walk(m2, s, p) = Walk(m, s, p)
                \/ p = page /\ Walk(m2, s, p) = e /\ (Ix(p, 3) < Half => s = pml)
    <2>1. s \in DOMAIN m1.tables /\ g1[s].level = 3
      BY <1>5, <1>17, KeptTop
    <2>2. Walk(m1, s, p) = Walk(m, s, p)
      BY <1>5, <1>17, Zenon DEF SameWalks
    <2>3. Walk(m2, s, p) = IF Leads(m1, s, p, t) /\ Ix(p, 0) = i THEN e ELSE Walk(m1, s, p)
      BY <1>12, <2>1, Zenon DEF Wrote
    <2>4. CASE ~(Leads(m1, s, p, t) /\ Ix(p, 0) = i)
      BY <2>2, <2>3, <2>4, Zenon
    <2>5. CASE Leads(m1, s, p, t) /\ Ix(p, 0) = i
      <3>1. Lands(m1, g1, s, p, t)
        BY <1>5, <2>1, <2>5, Landing, Zenon
      <3>2. p = page /\ (Ix(p, 3) < Half => s = pml)
        BY <1>9, <2>5, <3>1, Zenon DEF Lands
      <3>3. QED
        BY <2>3, <2>5, <3>2, Zenon
    <2>6. QED
      BY <2>4, <2>5, Zenon
  <1>18. PageMapped(m, g, m2, g1, k, pml, page, e)
    BY <1>13, <1>14, <1>15, <1>16, <1>17, Zenon DEF PageMapped
  <1>19. QED
    BY <1>2, <1>3, <1>18, ZenonT(60)

-----------------------------------------------------------------------------
(***************************************************************************)
(* Ranges.                                                                 *)
(***************************************************************************)
Pg(v, j) == (v + j) % VPages

\* f goes through the mapping of n pages.
MapSteps(f, m, pml, v, frame, user, n) ==
    /\ f = [i \in 0 .. n |-> f[i]] /\ f[0] = m
    /\ \A i \in 1 .. n :
         f[i] = vmm_map_page(f[i - 1], pml, Pg(v, i - 1), frame + (i - 1), user)

\* The loop of vmm_map_range has an outcome after every round.
LEMMA MapStepsExist ==
    ASSUME NEW m, NEW pml, NEW v, NEW frame, NEW user, NEW n \in Nat
    PROVE  \E f : MapSteps(f, m, pml, v, frame, user, n)
  <1> DEFINE S == {k \in Nat : \E f : MapSteps(f, m, pml, v, frame, user, k)}
  <1>1. 0 \in S
    <2>1. PICK f : f = [i \in 0 .. 0 |-> m]
      OBVIOUS
    <2>2. MapSteps(f, m, pml, v, frame, user, 0)
      BY <2>1 DEF MapSteps
    <2>3. QED
      BY <2>2
  <1>2. ASSUME NEW k \in 1 .. n, k - 1 \in S PROVE k \in S
    <2>1. PICK h : MapSteps(h, m, pml, v, frame, user, k - 1)
      BY <1>2
    <2>2. /\ h[0] = m
          /\ \A i \in 1 .. k - 1 :
               h[i] = vmm_map_page(h[i - 1], pml, Pg(v, i - 1), frame + (i - 1), user)
      BY <2>1 DEF MapSteps
    <2>3. PICK x : x = vmm_map_page(h[k - 1], pml, Pg(v, k - 1), frame + (k - 1), user)
      OBVIOUS
    <2>4. PICK f : f = [i \in 0 .. k |-> IF i = k THEN x ELSE h[i]]
      OBVIOUS
    <2>5. f[k] = x /\ \A i \in 0 .. k - 1 : f[i] = h[i]
      BY <2>4
    <2>6. ASSUME NEW i \in 1 .. k
          PROVE  f[i] = vmm_map_page(f[i - 1], pml, Pg(v, i - 1), frame + (i - 1), user)
      <3>1. CASE i = k
        <4>1. f[i - 1] = h[k - 1]
          BY <2>5, <3>1
        <4>2. QED
          BY <2>3, <2>5, <3>1, <4>1, Zenon
      <3>2. CASE i # k
        <4>1. i \in 1 .. k - 1 /\ f[i] = h[i] /\ f[i - 1] = h[i - 1]
          BY <2>5, <3>2
        <4>2. QED
          BY <2>2, <4>1, Zenon
      <3>3. QED
        BY <3>1, <3>2
    <2>7. f[0] = m /\ k \in Nat
      BY <2>2, <2>5
    <2>8. MapSteps(f, m, pml, v, frame, user, k)
      <3>1. f = [i \in 0 .. k |-> f[i]]
        BY <2>4
      <3>2. QED
        BY <2>6, <2>7, <3>1, Zenon DEF MapSteps
    <2>9. QED
      BY <2>7, <2>8
  <1>3. \A k \in 0 .. n : k \in S
    <2> HIDE DEF S
    <2>1. QED
      BY <1>1, <1>2, Upwards
  <1>4. n \in S
    BY <1>3
  <1>5. QED
    BY <1>4

\* vmm_map_range maps page after page.
LEMMA MapRangeSteps ==
    ASSUME NEW m, NEW pml, NEW virt, NEW phys, NEW user, NEW n \in Nat,
           n = virt.length \div PAGE_SIZE
    PROVE  \E f : /\ MapSteps(f, m, pml, PageOf(virt.base), phys.base \div PAGE_SIZE, user, n)
                  /\ vmm_map_range(m, pml, virt, phys, user) = f[n]
  <1>1. PICK v, p : v = PageOf(virt.base) /\ p = phys.base \div PAGE_SIZE
    OBVIOUS
  <1> DEFINE body(h) == [i \in 0 .. n |-> IF i = 0 THEN m
                          ELSE vmm_map_page(h[i - 1], pml, (v + (i - 1)) % VPages,
                                            p + (i - 1), user)]
  <1>2. PICK f : f = CHOOSE h : h = body(h)
    OBVIOUS
  <1>3. vmm_map_range(m, pml, virt, phys, user) = f[n]
    BY <1>1, <1>2 DEF vmm_map_range
  <1>4. \E h : h = body(h)
    <2>1. PICK h : MapSteps(h, m, pml, v, p, user, n)
      BY MapStepsExist, Zenon
    <2>2. h = [i \in 0 .. n |-> h[i]] /\ h[0] = m
      BY <2>1 DEF MapSteps
    <2>3. ASSUME NEW i \in 0 .. n PROVE h[i] = body(h)[i]
      <3>1. CASE i = 0
        BY <2>2, <3>1
      <3>2. CASE i # 0
        <4>1. i \in 1 .. n
          BY <3>2
        <4>2. h[i] = vmm_map_page(h[i - 1], pml, (v + (i - 1)) % VPages, p + (i - 1), user)
          BY <2>1, <4>1, Zenon DEF MapSteps, Pg
        <4>3. QED
          BY <3>2, <4>2
      <3>3. QED
        BY <3>1, <3>2
    <2>4. QED
      BY <2>2, <2>3
  <1>5. f = body(f)
    BY <1>2, <1>4
  <1>6. f = [i \in 0 .. n |-> f[i]] /\ f[0] = m
    BY <1>5
  <1>7. ASSUME NEW i \in 1 .. n
        PROVE  f[i] = vmm_map_page(f[i - 1], pml, Pg(v, i - 1), p + (i - 1), user)
    <2>1. i \in 0 .. n /\ i # 0
      OBVIOUS
    <2>2. body(f)[i] = vmm_map_page(f[i - 1], pml, (v + (i - 1)) % VPages, p + (i - 1), user)
      BY <2>1
    <2>3. QED
      BY <1>5, <2>2, Zenon DEF Pg
  <1>8. MapSteps(f, m, pml, v, p, user, n)
    BY <1>6, <1>7, Zenon DEF MapSteps
  <1>9. QED
    BY <1>1, <1>3, <1>8, Zenon

\* What mapping n pages from v on to the frames from fr on does.
RangeMapped(m, g, m2, g2, k, pml, v, fr, n, user) ==
    /\ Good(m2, g2, k) /\ Keeps(m, g, m2, g2)
    /\ Tops(m, g, m2, pml, {Ix(Pg(v, j), 3) : j \in 0 .. n - 1})
    /\ \A j \in 0 .. n - 1 : \E h \in 0 .. n - 1 :
         Pg(v, h) = Pg(v, j) /\ Walk(m2, pml, Pg(v, j)) = pml_make_entry(fr + h, user)
    /\ \A s \in DOMAIN m.tables, p \in VPage : g[s].level = 3 =>
         \/ Walk(m2, s, p) = Walk(m, s, p)
         \/ \E j \in 0 .. n - 1 : /\ p = Pg(v, j) /\ Walk(m2, s, p) = pml_make_entry(fr + j, user)
                                  /\ (Ix(p, 3) < Half => s = pml)

\* The entries of a top table that may change may be more.
LEMMA TopsMore ==
    ASSUME NEW m, NEW g, NEW m2, NEW pml, NEW I, NEW J, I \subseteq J, Tops(m, g, m2, pml, I)
    PROVE  Tops(m, g, m2, pml, J)
  BY Zenon DEF Tops

\* Page j of a range is a page, as the numbers wrap around.
LEMMA PgIs ==
    ASSUME NEW v \in Nat, NEW j \in Nat
    PROVE  Pg(v, j) \in VPage /\ VPages \in Nat \ {0}
  <1>1. VPages \in Nat \ {0}
    <2>1. PICK E \in Nat \ {0} : E = ENTRIES
      BY TablesAssumption
    <2>2. E * E \in Nat \ {0}
      BY SMTT(30)
    <2>3. E * E * E \in Nat \ {0}
      BY <2>2, SMTT(30)
    <2>4. E * E * E * E \in Nat \ {0}
      BY <2>3, SMTT(30)
    <2>5. QED
      BY <2>1, <2>4 DEF VPages
  <1>2. QED
    BY <1>1 DEF Pg, VPage

\* No round of vmm_map_range: nothing is mapped.
LEMMA RangeStart ==
    ASSUME NEW m, NEW g, NEW k, NEW pml, NEW v, NEW fr, NEW user, Good(m, g, k)
    PROVE  RangeMapped(m, g, m, g, k, pml, v, fr, 0, user)
  <1>1. Keeps(m, g, m, g)
    BY DEF Keeps, Good, IsMem
  <1>2. Tops(m, g, m, pml, {Ix(Pg(v, j), 3) : j \in 0 .. 0 - 1})
    BY Zenon DEF Tops
  <1>3. 0 .. 0 - 1 = {}
    OBVIOUS
  <1>4. QED
    BY <1>1, <1>2, <1>3, Zenon DEF RangeMapped

\* One more round of vmm_map_range.
LEMMA RangeStep ==
    ASSUME NEW m, NEW g, NEW m1, NEW g1, NEW m2, NEW g2, NEW k, NEW pml \in DOMAIN m.tables,
           NEW v \in Nat, NEW fr \in Nat, NEW user \in BOOLEAN, NEW n \in Nat,
           Good(m, g, k), g[pml].level = 3,
           RangeMapped(m, g, m1, g1, k, pml, v, fr, n, user),
           PageMapped(m1, g1, m2, g2, k, pml, Pg(v, n), pml_make_entry(fr + n, user))
    PROVE  RangeMapped(m, g, m2, g2, k, pml, v, fr, n + 1, user)
  <1>1. /\ Good(m1, g1, k) /\ Keeps(m, g, m1, g1)
        /\ Tops(m, g, m1, pml, {Ix(Pg(v, j), 3) : j \in 0 .. n - 1})
    BY Zenon DEF RangeMapped
  <1>2. /\ Good(m2, g2, k) /\ Keeps(m1, g1, m2, g2)
        /\ Tops(m1, g1, m2, pml, {Ix(Pg(v, n), 3)})
        /\ Walk(m2, pml, Pg(v, n)) = pml_make_entry(fr + n, user)
    BY Zenon DEF PageMapped
  <1>3. Keeps(m, g, m2, g2)
    BY <1>1, <1>2, KeepsOn, Zenon
  <1>4. 0 .. n - 1 \subseteq 0 .. (n + 1) - 1 /\ n \in 0 .. (n + 1) - 1
    OBVIOUS
  <1>5. Tops(m, g, m2, pml, {Ix(Pg(v, j), 3) : j \in 0 .. (n + 1) - 1})
    <2>1. PICK I, J : I = {Ix(Pg(v, j), 3) : j \in 0 .. n - 1} /\ J = {Ix(Pg(v, j), 3) : j \in 0 .. (n + 1) - 1}
      OBVIOUS
    <2>2. I \subseteq J /\ {Ix(Pg(v, n), 3)} \subseteq J
      BY <1>4, <2>1, Zenon
    <2>3. Tops(m, g, m1, pml, J)
      BY <1>1, <2>1, <2>2, TopsMore, ZenonT(60)
    <2>4. Tops(m1, g1, m2, pml, J)
      BY <1>2, <2>2, TopsMore, Zenon
    <2>5. QED
      BY <1>1, <2>1, <2>3, <2>4, TopsOn, Zenon
  <1>6. ASSUME NEW s \in DOMAIN m.tables, g[s].level = 3, NEW p \in VPage
        PROVE  \/ Walk(m2, s, p) = Walk(m1, s, p)
               \/ p = Pg(v, n) /\ Walk(m2, s, p) = pml_make_entry(fr + n, user) /\ (Ix(p, 3) < Half => s = pml)
    <2>1. s \in DOMAIN m1.tables /\ g1[s] = g[s]
      BY <1>1, KeptTop, Zenon
    <2>2. g1[s].level = 3
      BY <1>6, <2>1, Zenon
    <2>3. QED
      BY <2>1, <2>2, Zenon DEF PageMapped
  <1>7. ASSUME NEW j \in 0 .. (n + 1) - 1
        PROVE  \E h \in 0 .. (n + 1) - 1 :
                 Pg(v, h) = Pg(v, j) /\ Walk(m2, pml, Pg(v, j)) = pml_make_entry(fr + h, user)
    <2>1. Pg(v, j) \in VPage
      <3>1. j \in Nat
        OBVIOUS
      <3>2. QED
        BY <3>1, PgIs, Zenon
    <2>2. CASE Pg(v, j) = Pg(v, n)
      BY <1>2, <1>4, <2>2, Zenon
    <2>3. CASE Pg(v, j) # Pg(v, n)
      <3>1. j # n
        BY <2>3, Zenon
      <3>2. j \in 0 .. n - 1
        BY <3>1
      <3>3. PICK h \in 0 .. n - 1 :
              Pg(v, h) = Pg(v, j) /\ Walk(m1, pml, Pg(v, j)) = pml_make_entry(fr + h, user)
        BY <3>2, Zenon DEF RangeMapped
      <3>4. Walk(m2, pml, Pg(v, j)) = Walk(m1, pml, Pg(v, j))
        BY <1>6, <2>1, <2>3, Zenon
      <3>5. h \in 0 .. (n + 1) - 1
        BY <1>4
      <3>6. QED
        BY <3>3, <3>4, <3>5, Zenon
    <2>4. QED
      BY <2>2, <2>3, Zenon
  <1>8. ASSUME NEW s \in DOMAIN m.tables, NEW p \in VPage, g[s].level = 3
        PROVE  \/ Walk(m2, s, p) = Walk(m, s, p)
               \/ \E j \in 0 .. (n + 1) - 1 :
                     /\ p = Pg(v, j) /\ Walk(m2, s, p) = pml_make_entry(fr + j, user)
                     /\ (Ix(p, 3) < Half => s = pml)
    <2>1. CASE Walk(m2, s, p) = Walk(m1, s, p)
      <3>1. \/ Walk(m1, s, p) = Walk(m, s, p)
            \/ \E j \in 0 .. n - 1 :
                  /\ p = Pg(v, j) /\ Walk(m1, s, p) = pml_make_entry(fr + j, user)
                  /\ (Ix(p, 3) < Half => s = pml)
        BY <1>8, Zenon DEF RangeMapped
      <3>2. QED
        BY <1>4, <2>1, <3>1, Zenon
    <2>2. CASE p = Pg(v, n) /\ Walk(m2, s, p) = pml_make_entry(fr + n, user) /\ (Ix(p, 3) < Half => s = pml)
      BY <1>4, <2>2, Zenon
    <2>3. QED
      BY <1>6, <1>8, <2>1, <2>2, Zenon
  <1>9. QED
    BY <1>2, <1>3, <1>5, <1>7, <1>8, Zenon DEF RangeMapped

\* What may be mapped.
RangeFits(m, g, k, pml, v, fr, n, user) ==
    \A j \in 0 .. n - 1 :
        Fits(m, g, k, pml, Ix(Pg(v, j), 3), Pg(v, j), pml_make_entry(fr + j, user))

\* vmm_map_range translates the pages of its range, and changes no other page.
LEMMA MapRange ==
    ASSUME NEW m, NEW g, NEW k, Good(m, g, k), NEW pml \in DOMAIN m.tables, g[pml].level = 3,
           NEW virt, NEW phys, NEW user \in BOOLEAN, NEW v \in Nat, NEW fr \in Nat, NEW n \in Nat,
           n = virt.length \div PAGE_SIZE, v = PageOf(virt.base), fr = phys.base \div PAGE_SIZE,
           RangeFits(m, g, k, pml, v, fr, n, user)
    PROVE  \E g2 : RangeMapped(m, g, vmm_map_range(m, pml, virt, phys, user), g2, k, pml, v, fr, n, user)
  <1>1. PICK f : /\ MapSteps(f, m, pml, v, fr, user, n)
                 /\ vmm_map_range(m, pml, virt, phys, user) = f[n]
    <2>1. n = virt.length \div PAGE_SIZE
      OBVIOUS
    <2>2. \E f : /\ MapSteps(f, m, pml, PageOf(virt.base), phys.base \div PAGE_SIZE, user, n)
                 /\ vmm_map_range(m, pml, virt, phys, user) = f[n]
      BY <2>1, MapRangeSteps
    <2>3. QED
      BY <2>2, Zenon
  <1> DEFINE S == {i \in Nat : \E g2 : RangeMapped(m, g, f[i], g2, k, pml, v, fr, i, user)}
  <1>2. 0 \in S
    <2>1. f[0] = m
      BY <1>1, Zenon DEF MapSteps
    <2>2. RangeMapped(m, g, f[0], g, k, pml, v, fr, 0, user)
      BY <2>1, RangeStart, Zenon
    <2>3. QED
      BY <2>2
  <1>3. ASSUME NEW i \in 1 .. n, i - 1 \in S PROVE i \in S
    <2>1. PICK h \in Nat : h = i - 1 /\ h \in 0 .. n - 1 /\ h + 1 = i
      OBVIOUS
    <2>2. PICK m1, g1 : m1 = f[h] /\ RangeMapped(m, g, m1, g1, k, pml, v, fr, h, user)
      BY <1>3, <2>1
    <2>3. PICK m2 : m2 = f[i] /\ m2 = vmm_map_page(m1, pml, Pg(v, h), fr + h, user)
      BY <1>1, <2>1, <2>2, Zenon DEF MapSteps
    <2>4. Good(m1, g1, k) /\ Keeps(m, g, m1, g1)
      BY <2>2, Zenon DEF RangeMapped
    <2>5. pml \in DOMAIN m1.tables /\ g1[pml] = g[pml]
      BY <2>4, KeptTop, Zenon
    <2>6. Fits(m1, g1, k, pml, Ix(Pg(v, h), 3), Pg(v, h), pml_make_entry(fr + h, user))
      <3>1. Fits(m, g, k, pml, Ix(Pg(v, h), 3), Pg(v, h), pml_make_entry(fr + h, user))
        BY <2>1, Zenon DEF RangeFits
      <3>2. /\ m.next \in Nat /\ m1.next \in Nat /\ m.next <= m1.next
            /\ \A x \in 0 .. m.next - 1 : g1[x] = g[x]
        BY <2>4 DEF Good, IsMem, Keeps
      <3>3. pml_make_entry(fr + h, user) \in Entry
        BY DEF pml_make_entry, Entry
      <3>4. QED
        BY <3>1, <3>2, <3>3, StillFits
    <2>7. Pg(v, h) \in VPage /\ fr + h \in Nat /\ g1[pml].level = 3
      BY <2>5, PgIs
    <2>8. PICK g2 : PageMapped(m1, g1, m2, g2, k, pml, Pg(v, h), pml_make_entry(fr + h, user))
      <3>1. \E x : PageMapped(m1, g1, vmm_map_page(m1, pml, Pg(v, h), fr + h, user), x, k, pml,
                              Pg(v, h), pml_make_entry(fr + h, user))
        BY ONLY <2>4, <2>5, <2>6, <2>7, user \in BOOLEAN, MapPage, Zenon
      <3>2. QED
        BY <2>3, <3>1, Zenon
    <2>9. RangeMapped(m, g, m2, g2, k, pml, v, fr, h + 1, user)
      <3>1. Good(m, g, k) /\ g[pml].level = 3
        OBVIOUS
      <3>2. QED
        BY ONLY <2>2, <2>8, <3>1, pml \in DOMAIN m.tables, v \in Nat, fr \in Nat, user \in BOOLEAN,
                h \in Nat, RangeStep, ZenonT(60)
    <2>10. i \in Nat
      OBVIOUS
    <2>11. QED
      BY <2>1, <2>3, <2>9, <2>10, Zenon
  <1>4. \A i \in 0 .. n : i \in S
    <2> HIDE DEF S
    <2>1. QED
      BY <1>2, <1>3, Upwards
  <1>5. n \in S
    BY <1>4
  <1>6. QED
    BY <1>1, <1>5, Zenon

-----------------------------------------------------------------------------
(***************************************************************************)
(* The other operations on tables.                                         *)
(***************************************************************************)
\* The translation of a page depends on its top entry and the tables below.
LEMMA WalkDepends ==
    ASSUME NEW m, NEW g, NEW k, Good(m, g, k), NEW s \in DOMAIN m.tables, g[s].level = 3,
           NEW p \in VPage, NEW m2, NEW s2, m2.tables[s2][Ix(p, 3)] = m.tables[s][Ix(p, 3)],
           \A u \in DOMAIN m.tables, j \in Index :
             g[u].level < 3 => m2.tables[u][j] = m.tables[u][j]
    PROVE  Walk(m2, s2, p) = Walk(m, s, p)
  <1>1. PICK e3, e2, e1, f3, f2, f1 :
          Way(m, s, p, e3, e2, e1) /\ Way(m2, s2, p, f3, f2, f1)
    BY DEF Way
  <1>2. OnWay(m, g, s, p, e3, e2, e1)
    BY <1>1, Ways, Zenon
  <1>3. Ix(p, 3) \in Index /\ Ix(p, 2) \in Index /\ Ix(p, 1) \in Index /\ Ix(p, 0) \in Index
    BY Digits
  <1>4. /\ Walk(m, s, p) = IF ~e3.present THEN Absent ELSE IF ~e2.present THEN Absent
                           ELSE IF ~e1.present THEN Absent ELSE m.tables[e1.frame][Ix(p, 0)]
        /\ Walk(m2, s2, p) = IF ~f3.present THEN Absent ELSE IF ~f2.present THEN Absent
                             ELSE IF ~f1.present THEN Absent ELSE m2.tables[f1.frame][Ix(p, 0)]
    BY <1>1 DEF Walk, Way, Ix
  <1>5. f3 = e3
    BY <1>1, Zenon DEF Way
  <1>6. ASSUME e3.present PROVE f2 = e2
    <2>1. PICK v \in DOMAIN m.tables : v = e3.frame /\ g[v].level < 3
      BY <1>2, <1>6 DEF OnWay
    <2>2. f2 = m2.tables[v][Ix(p, 2)] /\ e2 = m.tables[v][Ix(p, 2)]
      BY <1>1, <1>5, <2>1, Zenon DEF Way
    <2>3. QED
      BY <1>3, <2>1, <2>2, Zenon
  <1>7. ASSUME e3.present, e2.present PROVE f1 = e1
    <2>1. PICK v \in DOMAIN m.tables : v = e2.frame /\ g[v].level < 3
      BY <1>2, <1>7 DEF OnWay
    <2>2. f1 = m2.tables[v][Ix(p, 1)] /\ e1 = m.tables[v][Ix(p, 1)]
      BY <1>1, <1>6, <1>7, <2>1, Zenon DEF Way
    <2>3. QED
      BY <1>3, <2>1, <2>2, Zenon
  <1>8. ASSUME e3.present, e2.present, e1.present
        PROVE  m2.tables[f1.frame][Ix(p, 0)] = m.tables[e1.frame][Ix(p, 0)]
    <2>1. PICK v \in DOMAIN m.tables : v = e1.frame /\ g[v].level < 3
      BY <1>2, <1>8 DEF OnWay
    <2>2. f1.frame = v
      BY <1>7, <1>8, <2>1, Zenon
    <2>3. QED
      BY <1>3, <2>1, <2>2, Zenon
  <1>9. CASE ~e3.present
    BY <1>4, <1>5, <1>9
  <1>10. CASE e3.present /\ ~e2.present
    BY <1>4, <1>5, <1>6, <1>10
  <1>11. CASE e3.present /\ e2.present /\ ~e1.present
    BY <1>4, <1>5, <1>6, <1>7, <1>11
  <1>12. CASE e3.present /\ e2.present /\ e1.present
    BY <1>4, <1>5, <1>6, <1>7, <1>8, <1>12
  <1>13. QED
    BY <1>9, <1>10, <1>11, <1>12, Zenon

\* Frames are taken for memory.
Reserved(m, g, m2, g2, k, n, own) ==
    /\ Good(m2, g2, k)
    /\ \A f \in 0 .. m.next - 1 : g2[f] = g[f]
    /\ \A f \in m.next .. m.next + n - 1 : g2[f].level = 4 /\ g2[f].own = own

\* Frames are allocated for contents and given to a space.
LEMMA Reserve ==
    ASSUME NEW m, NEW g, NEW k, Good(m, g, k), NEW n \in Nat, NEW own \in Nat, NEW c, NEW m2,
           m2 = [tables |-> m.tables, content |-> c, next |-> m.next + n]
    PROVE  \E g2 : Reserved(m, g, m2, g2, k, n, own)
  <1>1. PICK N \in Nat : N = m.next
    BY DEF Good, IsMem
  <1>2. m2.tables = m.tables /\ m2.content = c /\ m2.next = N + n
    BY <1>1
  <1>3. /\ DOMAIN m.tables \subseteq 0 .. N - 1 /\ g \in [Nat -> Place]
        /\ m.tables \in [DOMAIN m.tables -> [Index -> Entry]]
    BY <1>1 DEF Good, IsMem
  <1>4. PICK pl \in Place : pl.level = 4 /\ pl.own = own
    <2>1. [level |-> 4, own |-> own, ix3 |-> 0, ix2 |-> 0, ix1 |-> 0] \in Place
      BY DEF Place
    <2>2. QED
      BY <2>1
  <1>5. PICK g2 : g2 = [f \in Nat |-> IF f < N THEN g[f] ELSE pl]
    OBVIOUS
  <1>6. /\ g2 \in [Nat -> Place]
        /\ \A f \in 0 .. N - 1 : g2[f] = g[f]
        /\ \A f \in N .. N + n - 1 : g2[f] = pl
    BY <1>1, <1>3, <1>4, <1>5
  <1>7. IsMem(m2)
    <2>1. DOMAIN m.tables \subseteq 0 .. (N + n) - 1
      BY <1>1, <1>3
    <2>2. m2 = [tables |-> m2.tables, content |-> m2.content, next |-> m2.next]
      BY <1>1, <1>2
    <2>3. N + n \in Nat
      BY <1>1
    <2>4. QED
      BY <1>2, <1>3, <2>1, <2>2, <2>3 DEF IsMem
  <1>8. \A t \in DOMAIN m.tables : g2[t] = g[t]
    BY <1>3, <1>6
  <1>9. Good(m2, g2, k)
    <2>1. \A t \in DOMAIN m.tables : g2[t].level < 4
      BY <1>8, SMTT(60) DEF Good
    <2>2. ASSUME NEW t \in DOMAIN m.tables, NEW i \in Index, m.tables[t][i].present, g2[t].level > 0
          PROVE  m.tables[t][i].frame \in DOMAIN m.tables /\ Under(g2, t, i, m.tables[t][i].frame)
      <3>1. PICK f : f = m.tables[t][i].frame
        OBVIOUS
      <3>2. g2[t] = g[t]
        BY <1>8
      <3>3. f \in DOMAIN m.tables /\ Under(g, t, i, f)
        BY <2>2, <3>1, <3>2, Down, Zenon
      <3>4. g2[f] = g[f]
        BY <1>8, <3>3
      <3>5. QED
        BY <3>1, <3>2, <3>3, <3>4 DEF Under
    <2>3. ASSUME NEW t \in DOMAIN m.tables, NEW i \in Index, g2[t].level = 0
          PROVE  Fitting(m2, g2, k, t, i)
      <3>1. Fitting(m, g, k, t, i) /\ g2[t] = g[t]
        BY <1>8, <2>3 DEF Good
      <3>2. m.tables[t][i] \in Entry
        BY <1>3
      <3>3. /\ m.next \in Nat /\ m2.next \in Nat /\ m.next <= m2.next
            /\ \A f \in 0 .. m.next - 1 : g2[f] = g[f]
        BY <1>1, <1>2, <1>6
      <3>4. QED
        BY <1>2, <3>1, <3>2, <3>3, StillFits DEF Fitting
    <2>4. QED
      BY <1>2, <1>6, <1>7, <2>1, <2>2, <2>3 DEF Good
  <1>10. QED
    BY <1>1, <1>4, <1>6, <1>9 DEF Reserved

\* A new top table with the upper half of another one, or nothing in it.
TopAdded(m, g, m2, g2, k) ==
    /\ Good(m2, g2, k) /\ g2[m.next].level = 3
    /\ Keeps(m, g, m2, g2)
    /\ \A s \in DOMAIN m.tables : m2.tables[s] = m.tables[s]

\* A top table is added whose kernel half is copied from another one.
LEMMA AddTop ==
    ASSUME NEW m, NEW g, NEW k, Good(m, g, k), NEW tab \in [Index -> Entry], NEW q, NEW m2,
           \A i \in Index : \/ tab[i] = Absent
                            \/ /\ i >= Half /\ tab[i] = m.tables[q][i]
                               /\ q \in DOMAIN m.tables /\ g[q].level = 3,
           IsMem(m2), DOMAIN m2.tables = DOMAIN m.tables \cup {m.next},
           m2.next = m.next + 1, m2.content = m.content, m2.tables[m.next] = tab,
           \A u \in DOMAIN m.tables : m2.tables[u] = m.tables[u]
    PROVE  \E g2 : TopAdded(m, g, m2, g2, k)
  <1>1. PICK n \in Nat : n = m.next
    BY DEF Good, IsMem
  <1>2. /\ DOMAIN m.tables \subseteq 0 .. n - 1 /\ g \in [Nat -> Place]
        /\ m.tables \in [DOMAIN m.tables -> [Index -> Entry]]
    BY <1>1 DEF Good, IsMem
  <1>3. PICK pl \in Place : pl.level = 3
    <2>1. [level |-> 3, own |-> 0, ix3 |-> 0, ix2 |-> 0, ix1 |-> 0] \in Place
      BY DEF Place
    <2>2. QED
      BY <2>1
  <1>4. PICK g2 : g2 = [g EXCEPT ![n] = pl]
    OBVIOUS
  <1>5. g2 \in [Nat -> Place] /\ g2[n] = pl /\ \A f \in Nat : f # n => g2[f] = g[f]
    BY <1>2, <1>4
  <1>6. /\ \A f \in DOMAIN m.tables : g2[f] = g[f]
        /\ \A f \in 0 .. n - 1 : g2[f] = g[f]
    BY <1>2, <1>5
  <1>7. Good(m2, g2, k)
    <2>1. \A u \in DOMAIN m2.tables : g2[u].level < 4
      BY <1>1, <1>3, <1>5, <1>6 DEF Good
    <2>2. ASSUME NEW u \in DOMAIN m2.tables, NEW j \in Index,
                 m2.tables[u][j].present, g2[u].level > 0
          PROVE  m2.tables[u][j].frame \in DOMAIN m2.tables /\ Under(g2, u, j, m2.tables[u][j].frame)
      <3>1. PICK f : f = m2.tables[u][j].frame
        OBVIOUS
      <3>2. CASE u = n
        <4>1. m2.tables[u][j] = tab[j] /\ tab[j] # Absent
          BY <1>1, <2>2, <3>2, AbsentIs
        <4>2. j >= Half /\ tab[j] = m.tables[q][j] /\ q \in DOMAIN m.tables /\ g[q].level = 3
          BY <4>1
        <4>3. m.tables[q][j].present /\ f = m.tables[q][j].frame
          BY <2>2, <3>1, <4>1, <4>2, Zenon
        <4>4. f \in DOMAIN m.tables /\ Under(g, q, j, f)
          BY <4>2, <4>3, Down
        <4>5. g2[f] = g[f] /\ g2[u].level = 3 /\ j \in Int /\ Half \in Int
          BY <1>3, <1>5, <1>6, <3>2, <4>4, TablesAssumption DEF Index, Half
        <4>6. Under(g2, u, j, f)
          BY <4>2, <4>4, <4>5 DEF Under
        <4>7. QED
          BY <3>1, <4>4, <4>6
      <3>3. CASE u \in DOMAIN m.tables
        <4>1. m2.tables[u][j] = m.tables[u][j] /\ g2[u] = g[u]
          BY <1>6, <3>3
        <4>2. f \in DOMAIN m.tables /\ Under(g, u, j, f)
          BY <2>2, <3>1, <3>3, <4>1, Down, ZenonT(60)
        <4>3. g2[f] = g[f]
          BY <1>6, <4>2
        <4>4. Under(g2, u, j, f)
          BY <4>1, <4>2, <4>3 DEF Under
        <4>5. QED
          BY <3>1, <4>2, <4>4
      <3>4. QED
        BY <1>1, <3>2, <3>3
    <2>3. ASSUME NEW u \in DOMAIN m2.tables, NEW j \in Index, g2[u].level = 0
          PROVE  Fitting(m2, g2, k, u, j)
      <3>1. u \in DOMAIN m.tables
        BY <1>1, <1>3, <1>5, <2>3
      <3>2. m2.tables[u][j] = m.tables[u][j] /\ g2[u] = g[u]
        BY <1>6, <3>1
      <3>3. Fitting(m, g, k, u, j)
        BY <2>3, <3>1, <3>2 DEF Good
      <3>4. m.tables[u][j] \in Entry
        BY <1>2, <3>1
      <3>5. /\ m.next \in Nat /\ m2.next \in Nat /\ m.next <= m2.next
            /\ \A f \in 0 .. m.next - 1 : g2[f] = g[f]
        BY <1>1, <1>6
      <3>6. QED
        BY <3>2, <3>3, <3>4, <3>5, StillFits DEF Fitting
    <2>4. QED
      BY <1>5, <2>1, <2>2, <2>3 DEF Good
  <1>8. Keeps(m, g, m2, g2)
    BY <1>1, <1>6 DEF Keeps
  <1>9. QED
    BY <1>1, <1>3, <1>5, <1>7, <1>8 DEF TopAdded

\* A top table is cleared.
LEMMA ClearTop ==
    ASSUME NEW m, NEW g, NEW k, Good(m, g, k), NEW s \in DOMAIN m.tables, g[s].level = 3,
           NEW m2, m2 = [m EXCEPT !.tables[s] = EmptyTable]
    PROVE  /\ Good(m2, g, k) /\ DOMAIN m2.tables = DOMAIN m.tables
           /\ m2.next = m.next /\ m2.content = m.content
           /\ \A u \in DOMAIN m.tables : u # s => m2.tables[u] = m.tables[u]
  <1>1. PICK T, c, n : T = m.tables /\ c = m.content /\ n = m.next
    OBVIOUS
  <1>2. /\ m = [tables |-> T, content |-> c, next |-> n] /\ T \in [DOMAIN T -> [Index -> Entry]]
        /\ n \in Nat /\ DOMAIN T \subseteq 0 .. n - 1
    BY <1>1 DEF Good, IsMem
  <1>3. PICK T2 : T2 = [T EXCEPT ![s] = EmptyTable]
    OBVIOUS
  <1>4. m2 = [tables |-> T2, content |-> c, next |-> n]
    BY <1>2, <1>3
  <1>5. /\ T2 \in [DOMAIN T -> [Index -> Entry]] /\ DOMAIN T2 = DOMAIN T
        /\ T2[s] = EmptyTable /\ \A u \in DOMAIN T : u # s => T2[u] = T[u]
    BY <1>1, <1>2, <1>3, AbsentIs
  <1>6. m2.tables = T2 /\ m2.content = c /\ m2.next = n
    BY <1>4
  <1>7. IsMem(m2)
    <2>1. m2 = [tables |-> m2.tables, content |-> m2.content, next |-> m2.next]
      BY <1>4, <1>6
    <2>2. QED
      BY <1>2, <1>5, <1>6, <2>1 DEF IsMem
  <1>8. \A j \in Index : ~T2[s][j].present
    BY <1>5, AbsentIs DEF EmptyTable, Index
  <1>9. \A t \in DOMAIN T2, i \in Index :
           T2[t][i].present /\ g[t].level > 0 =>
             T2[t][i].frame \in DOMAIN T2 /\ Under(g, t, i, T2[t][i].frame)
    <2>1. SUFFICES ASSUME NEW t \in DOMAIN T2, NEW i \in Index, T2[t][i].present, g[t].level > 0
                   PROVE  T2[t][i].frame \in DOMAIN T2 /\ Under(g, t, i, T2[t][i].frame)
      BY Zenon
    <2>2. t # s
      BY <1>8, <2>1, Zenon
    <2>3. T2[t] = m.tables[t] /\ t \in DOMAIN m.tables
      BY <1>1, <1>5, <2>2, Zenon
    <2>4. QED
      BY <1>1, <1>5, <2>1, <2>3, Down, Zenon
  <1>10. ASSUME NEW t \in DOMAIN T2, NEW i \in Index, g[t].level = 0
         PROVE  Fitting(m2, g, k, t, i)
    <2>1. t # s
      BY <1>10
    <2>2. T2[t] = m.tables[t] /\ t \in DOMAIN m.tables
      BY <1>1, <1>5, <2>1, Zenon
    <2>3. Fitting(m, g, k, t, i)
      BY <1>10, <2>2 DEF Good
    <2>4. QED
      BY <1>1, <1>6, <2>2, <2>3 DEF Fitting, Fits
  <1>11. Good(m2, g, k)
    BY <1>1, <1>5, <1>6, <1>7, <1>9, <1>10 DEF Good
  <1>12. QED
    BY <1>1, <1>5, <1>6, <1>11

\* A page is unmapped.
LEMMA Unmap ==
    ASSUME NEW m, NEW g, NEW k, Good(m, g, k), NEW s \in DOMAIN m.tables, g[s].level = 3,
           NEW p \in VPage, LeafTable(m, s, p) # {}, NEW m2, m2 = vmm_unmap_page(m, s, p)
    PROVE  \E t : Leads(m, s, p, t) /\ Lands(m, g, s, p, t) /\ Wrote(m, g, m2, k, t, Ix(p, 0), Absent)
  <1>1. PICK e3, e2, e1 : Way(m, s, p, e3, e2, e1)
    BY DEF Way
  <1>2. LeafTable(m, s, p) = IF e3.present /\ e2.present /\ e1.present THEN {e1.frame} ELSE {}
    BY <1>1 DEF LeafTable, Way, Ix
  <1>3. e3.present /\ e2.present /\ e1.present /\ LeafTable(m, s, p) = {e1.frame}
    BY <1>2
  <1>4. PICK t : t = e1.frame
    OBVIOUS
  <1>5. Leads(m, s, p, t)
    BY <1>1, <1>3, <1>4, Zenon DEF Leads
  <1>6. (CHOOSE x \in LeafTable(m, s, p) : TRUE) = t
    BY <1>3, <1>4
  <1>7. m2 = [m EXCEPT !.tables[t][Ix(p, 0)] = Absent]
    BY <1>6 DEF vmm_unmap_page, Ix
  <1>8. Lands(m, g, s, p, t)
    BY <1>5, Landing, Zenon
  <1>9. t \in DOMAIN m.tables /\ g[t].level = 0 /\ Ix(p, 0) \in Index /\ IsMem(m) /\ Absent \in Entry
    BY <1>8, Digits, AbsentIs DEF Lands, Good
  <1>10. Put(m, m2, t, Ix(p, 0), Absent)
    BY <1>7, <1>9, PutIs
  <1>11. Fits(m, g, k, g[t].own, g[t].ix3, PageAt(g[t].ix3, g[t].ix2, g[t].ix1, Ix(p, 0)), Absent)
    BY AbsentFits, Zenon
  <1>12. Wrote(m, g, m2, k, t, Ix(p, 0), Absent)
    BY <1>9, <1>10, <1>11, WriteLeaf, Zenon
  <1>13. QED
    BY <1>5, <1>8, <1>12, Zenon

-----------------------------------------------------------------------------
(***************************************************************************)
(* Where the ranges lie.                                                   *)
(***************************************************************************)
IoPage == MMAP_IO_BASE \div PAGE_SIZE

\* A common factor is cancelled.
LEMMA Cancel ==
    ASSUME NEW a \in Int, NEW b \in Int, NEW c \in Nat \ {0}
    PROVE  /\ a * c <= b * c => a <= b
           /\ a * c < b * c => a < b
           /\ a <= b => a * c <= b * c
  <1>1. ASSUME a > b PROVE a * c >= b * c + c
    <2>1. a >= b + 1
      BY <1>1
    <2>2. (a - b) * c >= c
      BY <2>1, SMTT(30)
    <2>3. (a - b) * c = a * c - b * c
      BY SMTT(30)
    <2>4. QED
      BY <2>2, <2>3
  <1>2. ASSUME a <= b PROVE a * c <= b * c
    <2>1. (b - a) * c >= 0
      BY <1>2, SMTT(30)
    <2>2. (b - a) * c = b * c - a * c
      BY SMTT(30)
    <2>3. QED
      BY <2>1, <2>2
  <1>3. PICK x \in Int, y \in Int : x = a * c /\ y = b * c
    OBVIOUS
  <1>4. a * c <= b * c => a <= b
    BY <1>1, <1>3
  <1>5. a * c < b * c => a < b
    <2>1. a = b => a * c = b * c
      OBVIOUS
    <2>2. QED
      BY <1>1, <1>3, <2>1
  <1>6. QED
    BY <1>2, <1>4, <1>5

\* Remainders of numbers that wrap around at most once.
LEMMA ModOnce ==
    ASSUME NEW a \in Nat, NEW c \in Nat \ {0}
    PROVE  /\ a < c => a % c = a
           /\ a >= c /\ a < c + c => a % c = a - c
  <1>1. ASSUME a < c PROVE a % c = a
    BY <1>1
  <1>2. ASSUME a >= c, a < c + c PROVE a % c = a - c
    <2>1. PICK r \in 0 .. c - 1 : r = a - c
      BY <1>2
    <2>2. a = 1 * c + r /\ a \in Int /\ 1 \in Int
      BY <2>1
    <2>3. QED
      BY <2>1, <2>2, DivUnique, Zenon
  <1>3. QED
    BY <1>1, <1>2

\* The page of a byte from the page and the offset.
LEMMA PageIs ==
    ASSUME NEW q \in Nat, NEW r \in 0 .. PAGE_SIZE - 1
    PROVE  /\ (q * PAGE_SIZE + r) \div PAGE_SIZE = q
           /\ PageOf(q * PAGE_SIZE + r) = q % VPages
  <1>1. PICK P \in Nat \ {0} : P = PAGE_SIZE
    BY TablesAssumption
  <1>2. PICK a \in Int : a = q * P + r
    BY <1>1
  <1>3. q \in Int /\ r \in 0 .. P - 1
    BY <1>1
  <1>4. a \div P = q
    BY <1>2, <1>3, DivUnique, Zenon
  <1>5. QED
    BY <1>1, <1>2, <1>4 DEF PageOf

\* The I/O window and the kernel, in pages.
LEMMA WindowIs ==
    \E io \in Nat, kp \in Nat :
        /\ io = IoPage /\ kp = MMAP_KERNEL_BASE \div PAGE_SIZE
        /\ MMAP_IO_BASE = io * PAGE_SIZE /\ MMAP_KERNEL_BASE = kp * PAGE_SIZE
        /\ VPages \in Nat \ {0} /\ VPages \div 2 \in Nat /\ VPages \div 2 <= io /\ io <= kp /\ kp <= VPages
        /\ Window = io .. kp - 1
  <1>1. PICK P \in Nat \ {0} : P = PAGE_SIZE
    BY TablesAssumption
  <1>2. PICK V \in Nat \ {0} : V = VPages
    BY PgIs
  <1>3. PICK h \in Nat : h = V \div 2 /\ h = VPages \div 2
    BY <1>2
  <1>4. PICK a \in Nat, b \in Nat : a = MMAP_IO_BASE /\ b = MMAP_KERNEL_BASE /\ a % P = 0 /\ b % P = 0
    BY <1>1, LayoutAssumption
  <1>5. h * P <= a /\ a <= b /\ b <= V * P
    BY <1>1, <1>2, <1>3, <1>4, LayoutAssumption
  <1>6. PICK io \in Int : io = a \div P /\ a = io * P
    <2>1. PICK q \in Int, r \in 0 .. P - 1 : q = a \div P /\ r = a % P /\ a = q * P + r
      BY <1>4, DivMod
    <2>2. QED
      BY <1>4, <2>1
  <1>7. PICK kp \in Int : kp = b \div P /\ b = kp * P
    <2>1. PICK q \in Int, r \in 0 .. P - 1 : q = b \div P /\ r = b % P /\ b = q * P + r
      BY <1>4, DivMod
    <2>2. QED
      BY <1>4, <2>1
  <1>8. h <= io /\ io <= kp /\ kp <= V
    <2>1. h * P <= io * P /\ io * P <= kp * P /\ kp * P <= V * P
      BY <1>5, <1>6, <1>7
    <2>2. h \in Int /\ V \in Int
      OBVIOUS
    <2>3. QED
      BY <2>1, <2>2, Cancel, Zenon
  <1>9. io \in Nat /\ kp \in Nat
    BY <1>8
  <1>10. io = IoPage /\ kp = MMAP_KERNEL_BASE \div PAGE_SIZE /\ Window = io .. kp - 1
    BY <1>1, <1>4, <1>6, <1>7 DEF IoPage, Window
  <1>11. QED
    BY <1>1, <1>2, <1>3, <1>4, <1>6, <1>7, <1>8, <1>9, <1>10

\* The window is in the upper half.
LEMMA WindowHigh ==
    ASSUME NEW p \in Window
    PROVE  p \in VPage /\ p \in KernelPage /\ ~(Ix(p, 3) < Half)
  <1>1. p \in VPage /\ p \in KernelPage
    <2>1. PICK io \in Nat, kp \in Nat, V \in Nat, h \in Nat :
            V = VPages /\ h = VPages \div 2 /\ h <= io /\ kp <= V /\ Window = io .. kp - 1
      BY WindowIs
    <2>2. p \in Int /\ io <= p /\ p < kp
      BY <2>1
    <2>3. QED
      BY <2>1, <2>2 DEF VPage, KernelPage
  <1>2. Ix(p, 3) \in Index /\ Ix(p, 3) >= ENTRIES \div 2
    BY <1>1, TopIndex
  <1>3. QED
    BY <1>1, <1>2, TablesAssumption DEF Index, Half

\* Memory at its I/O address.
LEMMA IoRange ==
    ASSUME NEW b \in Nat, NEW n \in Nat, NEW v, v = PageOf(mmap_phys_to_io(b * PAGE_SIZE)),
           IoPage + (b + n) <= MMAP_KERNEL_BASE \div PAGE_SIZE
    PROVE  /\ v \in Nat
           /\ \A j \in 0 .. n - 1 : Pg(v, j) = IoPage + (b + j) /\ Pg(v, j) \in Window
  <1>1. PICK io \in Nat, kp \in Nat, V \in Nat \ {0}, P \in Nat \ {0} :
           /\ io = IoPage /\ kp = MMAP_KERNEL_BASE \div PAGE_SIZE /\ V = VPages /\ P = PAGE_SIZE
           /\ MMAP_IO_BASE = io * PAGE_SIZE /\ kp <= V /\ Window = io .. kp - 1
    BY WindowIs, TablesAssumption
  <1>2. v = (io + b) % V
    <2>1. mmap_phys_to_io(b * PAGE_SIZE) = (io + b) * PAGE_SIZE + 0
      <3>1. b * P + io * P = (io + b) * P + 0
        BY SMTT(30)
      <3>2. QED
        BY <1>1, <3>1 DEF mmap_phys_to_io
    <2>2. io + b \in Nat /\ 0 \in 0 .. PAGE_SIZE - 1
      BY <1>1
    <2>3. PageOf((io + b) * PAGE_SIZE + 0) = (io + b) % VPages
      BY <2>2, PageIs, Zenon
    <2>4. QED
      BY <1>1, <2>1, <2>3
  <1>3. v \in Nat
    BY <1>2
  <1>4. ASSUME NEW j \in 0 .. n - 1 PROVE Pg(v, j) = io + (b + j) /\ Pg(v, j) \in Window
    <2>1. io + b < V /\ io + b \in Nat
      BY <1>1
    <2>2. v = io + b
      BY <1>2, <2>1, ModOnce
    <2>3. v + j < V /\ v + j \in Nat
      BY <1>1, <2>2
    <2>4. (v + j) % V = v + j
      BY <2>3, ModOnce
    <2>5. Pg(v, j) = v + j
      BY <1>1, <2>4 DEF Pg
    <2>6. v + j = io + (b + j) /\ io + (b + j) \in io .. kp - 1
      BY <1>1, <2>2
    <2>7. QED
      BY <1>1, <2>5, <2>6
  <1>5. QED
    BY <1>1, <1>3, <1>4

\* Memory at its kernel address, wrapping perhaps.
LEMMA KernelRange ==
    ASSUME NEW b \in Nat, NEW n \in Nat, NEW v, v = PageOf(mmap_phys_to_kernel(b * PAGE_SIZE)),
           MMAP_KERNEL_BASE \div PAGE_SIZE + (b + n) <=
             VPages + SHARED_FIRST * (ENTRIES * ENTRIES * ENTRIES)
    PROVE  /\ v \in Nat
           /\ \A j \in 0 .. n - 1 :
                /\ Pg(v, j) \in VPage /\ Pg(v, j) \notin Window
                /\ Ix(Pg(v, j), 3) >= Half \/ Ix(Pg(v, j), 3) < SHARED_FIRST
  <1>1. PICK io \in Nat, kp \in Nat, V \in Nat \ {0}, P \in Nat \ {0}, h \in Nat :
           /\ io = IoPage /\ kp = MMAP_KERNEL_BASE \div PAGE_SIZE /\ V = VPages /\ P = PAGE_SIZE
           /\ MMAP_KERNEL_BASE = kp * PAGE_SIZE /\ h = VPages \div 2
           /\ h <= io /\ io <= kp /\ kp <= V /\ Window = io .. kp - 1
    BY WindowIs, TablesAssumption
  <1>2. PICK x \in Nat : x = SHARED_FIRST * (ENTRIES * ENTRIES * ENTRIES) /\ x <= h
    <2>1. PICK E \in Nat \ {0}, hh \in Nat : E = ENTRIES /\ hh = E \div 2 /\ E = hh * 2
      BY TablesAssumption
    <2>2. E * E \in Nat
      BY SMTT(30)
    <2>3. PICK c \in Nat : c = E * E * E
      BY <2>2, SMTT(30)
    <2>4. SHARED_FIRST \in Nat /\ SHARED_FIRST <= hh
      BY <2>1, TablesAssumption
    <2>5. SHARED_FIRST * c <= hh * c /\ SHARED_FIRST * c \in Nat
      BY <2>4, SMTT(30)
    <2>6. V = E * c
      BY <1>1, <2>1, <2>2, <2>3, SMTT(30) DEF VPages
    <2>7. V = (hh * c) * 2 + 0
      BY <2>1, <2>6, SMTT(30)
    <2>8. V \div 2 = hh * c
      <3>1. hh * c \in Int /\ V \in Int
        BY SMTT(30)
      <3>2. QED
        BY <2>7, <3>1, DivUnique
    <2>9. QED
      BY <1>1, <2>1, <2>3, <2>5, <2>8
  <1>3. v = (kp + b) % V
    <2>1. mmap_phys_to_kernel(b * PAGE_SIZE) = (kp + b) * PAGE_SIZE + 0
      <3>1. b * P + kp * P = (kp + b) * P + 0
        BY SMTT(30)
      <3>2. QED
        BY <1>1, <3>1 DEF mmap_phys_to_kernel
    <2>2. kp + b \in Nat /\ 0 \in 0 .. PAGE_SIZE - 1
      BY <1>1
    <2>3. PageOf((kp + b) * PAGE_SIZE + 0) = (kp + b) % VPages
      BY <2>2, PageIs, Zenon
    <2>4. QED
      BY <1>1, <2>1, <2>3
  <1>4. v \in Nat
    BY <1>3
  <1>5. ASSUME NEW j \in 0 .. n - 1
        PROVE  /\ Pg(v, j) \in VPage /\ Pg(v, j) \notin Window
               /\ Ix(Pg(v, j), 3) >= Half \/ Ix(Pg(v, j), 3) < SHARED_FIRST
    <2>1. PICK q \in VPage : q = Pg(v, j)
      BY <1>4, PgIs
    <2>2. q = (v + j) % V
      BY <1>1, <2>1 DEF Pg
    <2>3. h + h <= V
      BY <1>1
    <2>4. CASE kp + b + j < V
      <3>1. kp + b < V /\ kp + b \in Nat
        BY <2>4
      <3>2. v = kp + b
        BY <1>3, <3>1, ModOnce
      <3>3. v + j < V /\ v + j \in Nat
        BY <2>4, <3>2
      <3>4. q = v + j
        BY <2>2, <3>3, ModOnce
      <3>5. q \in KernelPage /\ q \notin Window
        BY <1>1, <3>2, <3>3, <3>4, SMTT(60) DEF KernelPage
      <3>6. Ix(q, 3) >= Half
        BY <3>5, TopIndex DEF Half
      <3>7. QED
        BY <2>1, <3>5, <3>6
    <2>5. CASE kp + b + j >= V
      <3>1. kp + (b + n) <= V + x
        BY <1>1, <1>2
      <3>2. v + j \in Nat /\ q = kp + b + j - V
        <4>1. CASE kp + b < V
          <5>1. v = kp + b
            <6>1. kp + b \in Nat
              OBVIOUS
            <6>2. QED
              BY <1>3, <4>1, <6>1, ModOnce
          <5>2. v + j >= V /\ v + j < V + V /\ v + j \in Nat
            BY <1>2, <2>3, <2>5, <3>1, <5>1
          <5>3. (v + j) % V = (v + j) - V
            BY <5>2, ModOnce
          <5>4. QED
            BY <2>2, <5>1, <5>2, <5>3
        <4>2. CASE kp + b >= V
          <5>1. kp + b \in Nat /\ kp + b < V + V
            BY <1>2, <2>3, <3>1
          <5>2. v = (kp + b) - V
            BY <1>3, <4>2, <5>1, ModOnce
          <5>3. v + j < V /\ v + j \in Nat
            BY <1>2, <1>4, <2>3, <3>1, <5>2
          <5>4. (v + j) % V = v + j
            BY <5>3, ModOnce
          <5>5. QED
            BY <2>2, <5>2, <5>3, <5>4
        <4>3. QED
          BY <4>1, <4>2
      <3>3. q < x /\ q \notin Window
        <4>1. q \in Int /\ q < x
          BY <3>1, <3>2
        <4>2. QED
          BY <1>1, <1>2, <4>1
      <3>4. Ix(q, 3) < SHARED_FIRST
        BY <1>2, <3>3, TopIndex
      <3>5. QED
        BY <2>1, <3>3, <3>4
    <2>6. QED
      BY <2>4, <2>5
  <1>6. QED
    BY <1>4, <1>5

\* Programs in the lower half.
LEMMA LowRange ==
    ASSUME NEW a \in Nat, NEW n \in Nat, NEW v, v = PageOf(a),
           a + n * PAGE_SIZE <= (VPages \div 2) * PAGE_SIZE
    PROVE  /\ v \in Nat
           /\ \A j \in 0 .. n - 1 :
                /\ Pg(v, j) = a \div PAGE_SIZE + j /\ Pg(v, j) \in VPage
                /\ Pg(v, j) \notin Window /\ Pg(v, j) \notin KernelPage /\ Ix(Pg(v, j), 3) < Half
  <1>1. PICK io \in Nat, kp \in Nat, V \in Nat \ {0}, P \in Nat \ {0}, h \in Nat :
           /\ io = IoPage /\ kp = MMAP_KERNEL_BASE \div PAGE_SIZE /\ V = VPages /\ P = PAGE_SIZE
           /\ h = VPages \div 2 /\ h <= io /\ Window = io .. kp - 1
    BY WindowIs, TablesAssumption
  <1>2. h + h <= V /\ a + n * P <= h * P
    BY <1>1
  <1>3. PICK q \in Int, r \in 0 .. P - 1 : q = a \div P /\ r = a % P /\ a = q * P + r
    BY DivMod
  <1>4. q \in Nat
    BY <1>3
  <1>5. v = q % V
    BY <1>1, <1>3, <1>4, PageIs
  <1>6. v \in Nat
    BY <1>4, <1>5
  <1>7. ASSUME NEW j \in 0 .. n - 1
        PROVE  /\ Pg(v, j) = q + j /\ Pg(v, j) \in VPage
               /\ Pg(v, j) \notin Window /\ Pg(v, j) \notin KernelPage /\ Ix(Pg(v, j), 3) < Half
    <2>1. (q + n) * P <= h * P
      <3>1. (q + n) * P = q * P + n * P
        BY <1>4, SMTT(30)
      <3>2. q * P \in Int /\ n * P \in Int /\ h * P \in Int
        BY <1>4
      <3>3. QED
        BY <1>2, <1>3, <3>1, <3>2
    <2>2. q + n <= h
      <3>1. q + n \in Int /\ h \in Int
        BY <1>4
      <3>2. QED
        BY <2>1, <3>1, Cancel, Zenon
    <2>3. q < V /\ q + j < h /\ q + j < V /\ q + j \in Nat
      BY <1>2, <1>4, <2>2
    <2>4. v = q
      BY <1>4, <1>5, <2>3, ModOnce
    <2>5. (v + j) % V = v + j
      BY <2>3, <2>4, ModOnce
    <2>6. PICK p \in VPage : p = Pg(v, j) /\ p = q + j
      BY <1>1, <1>6, <2>4, <2>5, PgIs DEF Pg
    <2>7. p \notin Window /\ p \notin KernelPage
      BY <1>1, <2>3, <2>6 DEF KernelPage
    <2>8. Ix(p, 3) < Half
      <3>1. Ix(p, 3) \in Index /\ ~(Ix(p, 3) >= ENTRIES \div 2)
        BY <2>7, TopIndex
      <3>2. QED
        BY <3>1, TablesAssumption DEF Half, Index
    <2>9. QED
      BY <2>6, <2>7, <2>8
  <1>8. QED
    BY <1>1, <1>3, <1>6, <1>7

-----------------------------------------------------------------------------
(***************************************************************************)
(* The kernel's space.                                                     *)
(***************************************************************************)
\* The kernel's tables: nothing in the lower half is shared with processes,
\* and no frame below the first one handed out is memory for users.
Core(m, g, k, first) ==
    /\ Good(m, g, k) /\ k \in DOMAIN m.tables /\ g[k].level = 3
    /\ first \in Nat /\ first <= m.next /\ \A f \in 0 .. first - 1 : g[f].level # 4
    /\ \A i \in Index : SHARED_FIRST <= i /\ i < Half => m.tables[k][i] = Absent

\* The frames that vmm_init maps for an entry of the memory map.
Reached(entry) ==
    entry.base \div PAGE_SIZE .. entry.base \div PAGE_SIZE + AlignUp(entry.length) \div PAGE_SIZE

\* The first n entries are mapped at their I/O address.
Reaches(m, k, map, n) ==
    \A i \in 1 .. n : \A f \in Reached(map[i]) :
        IoPage + f \in Window /\ Walk(m, k, IoPage + f).present

\* Mapping n pages from v on leaves the hole of the kernel's table alone.
SparesHole(k, pml, v, n) ==
    \A j \in 0 .. n - 1 : pml # k \/ Ix(Pg(v, j), 3) >= Half \/ Ix(Pg(v, j), 3) < SHARED_FIRST

\* What later mappings leave to the kernel.
Remains(m, m2, g2, k, first) ==
    /\ Core(m2, g2, k, first)
    /\ \A p \in VPage : Walk(m, k, p).present => Walk(m2, k, p).present

\* They take nothing away from it.
LEMMA KernelMapped ==
    ASSUME NEW m, NEW g, NEW m2, NEW g2, NEW k, NEW first, Core(m, g, k, first),
           NEW pml, NEW v \in Nat, NEW fr \in Nat, NEW n \in Nat, NEW user \in BOOLEAN,
           RangeMapped(m, g, m2, g2, k, pml, v, fr, n, user),
           SparesHole(k, pml, v, n)
    PROVE  Remains(m, m2, g2, k, first)
  <1>1. Good(m, g, k) /\ k \in DOMAIN m.tables /\ g[k].level = 3 /\ first \in Nat /\ first <= m.next
    BY DEF Core
  <1>2. /\ Good(m2, g2, k) /\ Keeps(m, g, m2, g2)
        /\ Tops(m, g, m2, pml, {Ix(Pg(v, j), 3) : j \in 0 .. n - 1})
    BY Zenon DEF RangeMapped
  <1>3. k \in DOMAIN m2.tables /\ g2[k] = g[k]
    BY <1>1, <1>2, KeptTop, Zenon
  <1>4. m.next \in Nat /\ m2.next \in Nat /\ m.next <= m2.next /\ \A f \in 0 .. m.next - 1 : g2[f] = g[f]
    BY <1>1, <1>2 DEF Good, IsMem, Keeps
  <1>5. first <= m2.next /\ \A f \in 0 .. first - 1 : g2[f].level # 4
    <2>1. \A f \in 0 .. first - 1 : g2[f] = g[f]
      BY <1>1, <1>4
    <2>2. QED
      BY <1>1, <1>4, <2>1 DEF Core
  <1>6. ASSUME NEW i \in Index, SHARED_FIRST <= i, i < Half PROVE m2.tables[k][i] = Absent
    <2>1. m.tables[k][i] = Absent
      BY <1>6 DEF Core
    <2>2. \/ m2.tables[k][i] = m.tables[k][i]
          \/ k = pml /\ i \in {Ix(Pg(v, j), 3) : j \in 0 .. n - 1}
      BY <1>1, <1>2, Zenon DEF Tops
    <2>3. ASSUME k = pml, NEW j \in 0 .. n - 1, i = Ix(Pg(v, j), 3) PROVE FALSE
      <3>1. i >= Half \/ i < SHARED_FIRST
        BY <2>3 DEF SparesHole
      <3>2. i \in Int /\ Half \in Int /\ SHARED_FIRST \in Int
        BY TablesAssumption DEF Index, Half
      <3>3. QED
        BY <1>6, <3>1, <3>2
    <2>4. m2.tables[k][i] = m.tables[k][i]
      BY <2>2, <2>3
    <2>5. QED
      BY <2>1, <2>4, Zenon
  <1>7. ASSUME NEW p \in VPage, Walk(m, k, p).present PROVE Walk(m2, k, p).present
    <2>1. \/ Walk(m2, k, p) = Walk(m, k, p)
          \/ \E j \in 0 .. n - 1 : Walk(m2, k, p) = pml_make_entry(fr + j, user)
      BY <1>1, Zenon DEF RangeMapped
    <2>2. \A j \in 0 .. n - 1 : pml_make_entry(fr + j, user).present
      BY DEF pml_make_entry
    <2>3. QED
      BY <1>7, <2>1, <2>2, Zenon
  <1>8. g2[k].level = 3
    BY <1>1, <1>3, Zenon
  <1>9. QED
    BY <1>1, <1>2, <1>3, <1>5, <1>6, <1>7, <1>8 DEF Core, Remains

\* Mapping n frames from b on at their I/O address in the kernel's space.
LEMMA IoMap ==
    ASSUME NEW m, NEW g, NEW k, NEW first, Core(m, g, k, first), NEW b \in Nat, NEW n \in Nat,
           IoPage + (b + n) <= MMAP_KERNEL_BASE \div PAGE_SIZE,
           NEW virt, NEW phys, n = virt.length \div PAGE_SIZE,
           virt.base = mmap_phys_to_io(b * PAGE_SIZE), b = phys.base \div PAGE_SIZE,
           NEW m2, m2 = vmm_map_range(m, k, virt, phys, FALSE)
    PROVE  \E g2 : /\ Remains(m, m2, g2, k, first)
                   /\ \A j \in 0 .. n - 1 :
                        IoPage + (b + j) \in Window /\ Walk(m2, k, IoPage + (b + j)).present
  <1>1. Good(m, g, k) /\ k \in DOMAIN m.tables /\ g[k].level = 3
    BY DEF Core
  <1>2. PICK v : v = PageOf(virt.base)
    OBVIOUS
  <1>3. /\ v \in Nat
        /\ \A j \in 0 .. n - 1 : Pg(v, j) = IoPage + (b + j) /\ Pg(v, j) \in Window
    BY <1>2, IoRange
  <1>4. RangeFits(m, g, k, k, v, b, n, FALSE)
    <2>1. ASSUME NEW j \in 0 .. n - 1
          PROVE  Fits(m, g, k, k, Ix(Pg(v, j), 3), Pg(v, j), pml_make_entry(b + j, FALSE))
      <3>1. PICK io \in Nat : io = IoPage
        BY WindowIs
      <3>2. b + j = (io + (b + j)) - io
        BY <3>1
      <3>3. QED
        BY <1>3, <3>1, <3>2 DEF Fits, pml_make_entry, IoPage
    <2>2. QED
      BY <2>1 DEF RangeFits
  <1>5. PICK g2 : RangeMapped(m, g, m2, g2, k, k, v, b, n, FALSE)
    BY <1>1, <1>2, <1>3, <1>4, MapRange
  <1>6. SparesHole(k, k, v, n)
    <2>1. SUFFICES ASSUME NEW j \in 0 .. n - 1 PROVE Ix(Pg(v, j), 3) >= Half
      BY DEF SparesHole
    <2>2. Pg(v, j) \in VPage /\ Pg(v, j) \in KernelPage
      BY <1>3, WindowHigh
    <2>3. QED
      BY <2>2, TopIndex DEF Half
  <1>7. Remains(m, m2, g2, k, first)
    <2>1. FALSE \in BOOLEAN /\ v \in Nat
      BY <1>3
    <2>2. QED
      BY <1>5, <1>6, <2>1, KernelMapped, Zenon
  <1>8. ASSUME NEW j \in 0 .. n - 1
        PROVE  IoPage + (b + j) \in Window /\ Walk(m2, k, IoPage + (b + j)).present
    <2>1. PICK h \in 0 .. n - 1 : Walk(m2, k, Pg(v, j)) = pml_make_entry(b + h, FALSE)
      BY <1>5, Zenon DEF RangeMapped
    <2>2. pml_make_entry(b + h, FALSE).present
      BY DEF pml_make_entry
    <2>3. Pg(v, j) = IoPage + (b + j) /\ Pg(v, j) \in Window
      BY <1>3
    <2>4. QED
      BY <2>1, <2>2, <2>3, Zenon
  <1>9. QED
    BY <1>7, <1>8, Zenon

\* Mapping n frames from b on at their kernel address.
LEMMA KernelMap ==
    ASSUME NEW m, NEW g, NEW k, NEW first, Core(m, g, k, first), NEW b \in Nat, NEW n \in Nat,
           MMAP_KERNEL_BASE \div PAGE_SIZE + (b + n) <=
             VPages + SHARED_FIRST * (ENTRIES * ENTRIES * ENTRIES),
           NEW virt, NEW phys, n = virt.length \div PAGE_SIZE,
           virt.base = mmap_phys_to_kernel(b * PAGE_SIZE), b = phys.base \div PAGE_SIZE,
           NEW m2, m2 = vmm_map_range(m, k, virt, phys, FALSE)
    PROVE  \E g2 : Remains(m, m2, g2, k, first)
  <1>1. Good(m, g, k) /\ k \in DOMAIN m.tables /\ g[k].level = 3
    BY DEF Core
  <1>2. PICK v : v = PageOf(virt.base)
    OBVIOUS
  <1>3. /\ v \in Nat
        /\ \A j \in 0 .. n - 1 :
             /\ Pg(v, j) \in VPage /\ Pg(v, j) \notin Window
             /\ Ix(Pg(v, j), 3) >= Half \/ Ix(Pg(v, j), 3) < SHARED_FIRST
    BY <1>2, KernelRange
  <1>4. RangeFits(m, g, k, k, v, b, n, FALSE)
    BY <1>3 DEF RangeFits, Fits, pml_make_entry
  <1>5. PICK g2 : RangeMapped(m, g, m2, g2, k, k, v, b, n, FALSE)
    BY <1>1, <1>2, <1>3, <1>4, MapRange
  <1>6. SparesHole(k, k, v, n)
    BY <1>3 DEF SparesHole
  <1>7. FALSE \in BOOLEAN /\ v \in Nat
    BY <1>3
  <1>8. Remains(m, m2, g2, k, first)
    BY <1>5, <1>6, <1>7, KernelMapped, Zenon
  <1>9. QED
    BY <1>8

\* An entry of the memory map in pages.
LEMMA EntryPages ==
    ASSUME NEW entry, entry.base \in Nat, entry.length \in Nat, MachineEntry(entry)
    PROVE  \E b \in Nat, c \in Nat :
             /\ b = entry.base \div PAGE_SIZE /\ AlignDown(entry.base) = b * PAGE_SIZE
             /\ c = AlignUp(entry.length) \div PAGE_SIZE
             /\ EntryLength(entry) \div PAGE_SIZE = c + 1
             /\ (b * PAGE_SIZE) \div PAGE_SIZE = b
             /\ IoPage + (b + (c + 1)) <= MMAP_KERNEL_BASE \div PAGE_SIZE
             /\ entry.type = "kernel" =>
                  MMAP_KERNEL_BASE \div PAGE_SIZE + (b + (c + 1)) <=
                    VPages + SHARED_FIRST * (ENTRIES * ENTRIES * ENTRIES)
             /\ entry.base + entry.length - 1 \in Nat
             /\ (entry.base + entry.length - 1) \div PAGE_SIZE <= b + c
  <1>1. PICK io \in Nat, kp \in Nat, V \in Nat \ {0}, P \in Nat \ {0} :
           /\ io = IoPage /\ kp = MMAP_KERNEL_BASE \div PAGE_SIZE /\ V = VPages /\ P = PAGE_SIZE
           /\ MMAP_IO_BASE = io * P /\ MMAP_KERNEL_BASE = kp * P
    BY WindowIs, TablesAssumption
  <1>2. PICK x \in Nat, l \in Nat : x = entry.base /\ l = entry.length /\ x + l > 0
    BY DEF MachineEntry
  <1>3. PICK b \in Int, r \in 0 .. P - 1 : b = x \div P /\ r = x % P /\ x = b * P + r
    BY DivMod
  <1>4. l + P - 1 \in Int
    BY <1>1
  <1>5. PICK c \in Int, d \in 0 .. P - 1 : /\ c = (l + P - 1) \div P /\ d = (l + P - 1) % P
                                           /\ l + P - 1 = c * P + d
    BY <1>4, DivMod
  <1>6. b \in Nat /\ c \in Nat
    BY <1>3, <1>5
  <1>7. AlignDown(entry.base) = b * P /\ AlignUp(entry.length) = c * P
    BY <1>1, <1>2, <1>3, <1>5 DEF AlignDown, AlignUp
  <1>8. \A q \in Nat : (q * P) \div P = q
    <2>1. SUFFICES ASSUME NEW q \in Nat PROVE (q * P) \div P = q
      OBVIOUS
    <2>2. q * P = q * P + 0 /\ q * P \in Int /\ 0 \in 0 .. P - 1 /\ q \in Int
      OBVIOUS
    <2>3. QED
      BY <2>2, DivUnique
  <1>9. EntryLength(entry) = (c + 1) * P
    <2>1. c * P + P = (c + 1) * P
      BY <1>6, SMTT(30)
    <2>2. QED
      BY <1>1, <1>7, <2>1 DEF EntryLength
  <1>10. b * P + (c + 1) * P = (b + (c + 1)) * P
    BY <1>6, SMTT(30)
  <1>11. PICK t \in Nat : t = b + (c + 1)
    BY <1>6
  <1>12. io + t <= kp
    <2>1. t * P <= kp * P - io * P
      BY <1>1, <1>7, <1>9, <1>10, <1>11 DEF MachineEntry
    <2>2. (io + t) * P = io * P + t * P
      BY SMTT(30)
    <2>3. (io + t) * P <= kp * P
      <3>1. PICK u \in Int, w \in Int, z \in Int : u = io * P /\ w = t * P /\ z = kp * P
        OBVIOUS
      <3>2. QED
        BY <2>1, <2>2, <3>1
    <2>4. io + t \in Int /\ kp \in Int
      OBVIOUS
    <2>5. QED
      BY <2>3, <2>4, Cancel
  <1>13. ASSUME entry.type = "kernel"
         PROVE  kp + t <= VPages + SHARED_FIRST * (ENTRIES * ENTRIES * ENTRIES)
    <2>1. PICK y \in Nat : y = SHARED_FIRST * (ENTRIES * ENTRIES * ENTRIES)
      <3>1. PICK E \in Nat, S \in Nat : E = ENTRIES /\ S = SHARED_FIRST
        BY TablesAssumption
      <3>2. E * E \in Nat
        BY SMTT(30)
      <3>3. E * E * E \in Nat
        BY <3>2, SMTT(30)
      <3>4. S * (E * E * E) \in Nat
        BY <3>3, SMTT(30)
      <3>5. QED
        BY <3>1, <3>4
    <2>2. t * P + kp * P <= (V + y) * P
      <3>1. mmap_phys_to_kernel(AlignDown(entry.base) + EntryLength(entry)) <= (V + y) * P
        BY <1>1, <1>13, <2>1 DEF MachineEntry
      <3>2. AlignDown(entry.base) + EntryLength(entry) = t * P
        BY <1>7, <1>9, <1>10, <1>11
      <3>3. QED
        BY <1>1, <3>1, <3>2 DEF mmap_phys_to_kernel
    <2>3. (kp + t) * P = t * P + kp * P
      BY SMTT(30)
    <2>4. kp + t \in Int /\ V + y \in Int /\ (kp + t) * P <= (V + y) * P
      BY <2>2, <2>3
    <2>5. kp + t <= V + y
      BY <2>4, Cancel
    <2>6. QED
      BY <1>1, <2>1, <2>5
  <1>14. x + l - 1 \in Nat /\ (x + l - 1) \div P <= b + c
    <2>1. x + l - 1 \in Nat
      BY <1>2
    <2>2. l <= c * P
      BY <1>5
    <2>3. x + l - 1 < (b + c + 1) * P
      <3>1. (b + c + 1) * P = b * P + c * P + P
        BY <1>6, SMTT(30)
      <3>2. PICK u \in Int, w \in Int : u = b * P /\ w = c * P
        BY <1>6
      <3>3. QED
        BY <1>3, <2>2, <3>1, <3>2
    <2>4. b + c + 1 \in Nat
      BY <1>6
    <2>5. (x + l - 1) \div P < b + c + 1 /\ (x + l - 1) \div P \in Nat
      BY <2>1, <2>3, <2>4, DivLess
    <2>6. QED
      BY <1>6, <2>1, <2>5
  <1>15. /\ b = entry.base \div PAGE_SIZE /\ AlignDown(entry.base) = b * PAGE_SIZE
         /\ c = AlignUp(entry.length) \div PAGE_SIZE
         /\ EntryLength(entry) \div PAGE_SIZE = c + 1
         /\ (b * PAGE_SIZE) \div PAGE_SIZE = b
    <2>1. c + 1 \in Nat
      BY <1>6
    <2>2. QED
      BY <1>1, <1>2, <1>3, <1>6, <1>7, <1>8, <1>9, <2>1
  <1>16. IoPage + (b + (c + 1)) <= MMAP_KERNEL_BASE \div PAGE_SIZE
    BY <1>1, <1>11, <1>12
  <1>17. entry.type = "kernel" =>
            MMAP_KERNEL_BASE \div PAGE_SIZE + (b + (c + 1)) <=
              VPages + SHARED_FIRST * (ENTRIES * ENTRIES * ENTRIES)
    BY <1>1, <1>11, <1>13
  <1>18. entry.base + entry.length - 1 \in Nat /\ (entry.base + entry.length - 1) \div PAGE_SIZE <= b + c
    BY <1>1, <1>2, <1>14
  <1>19. QED
    BY <1>6, <1>15, <1>16, <1>17, <1>18

-----------------------------------------------------------------------------
(***************************************************************************)
(* What the entries of lowest tables say about translations.               *)
(***************************************************************************)
\* A page that is mapped has its entry in a table of its own, where it fits.
LEMMA MappedFits ==
    ASSUME NEW m, NEW g, NEW k, Good(m, g, k), NEW s \in DOMAIN m.tables, g[s].level = 3,
           NEW p \in VPage, Walk(m, s, p).present
    PROVE  \E t : /\ Leads(m, s, p, t) /\ Lands(m, g, s, p, t)
                  /\ Fits(m, g, k, g[t].own, g[t].ix3, p, Walk(m, s, p))
  <1>1. PICK t : Leads(m, s, p, t)
    <2>1. Walk(m, s, p) # Absent
      BY AbsentIs
    <2>2. QED
      BY <2>1, NoLanding, Zenon
  <1>2. Lands(m, g, s, p, t)
    BY <1>1, Landing, Zenon
  <1>3. /\ t \in DOMAIN m.tables /\ g[t].level = 0
        /\ PageAt(g[t].ix3, g[t].ix2, g[t].ix1, Ix(p, 0)) = p
        /\ Walk(m, s, p) = m.tables[t][Ix(p, 0)]
    BY <1>2, Zenon DEF Lands
  <1>4. Ix(p, 0) \in Index
    BY Digits
  <1>5. Fitting(m, g, k, t, Ix(p, 0))
    BY <1>3, <1>4, Zenon DEF Good
  <1>6. Fits(m, g, k, g[t].own, g[t].ix3, p, Walk(m, s, p))
    BY <1>3, <1>5, Zenon DEF Fitting
  <1>7. QED
    BY <1>1, <1>2, <1>6

\* In the window, pages lead to the frames that belong there.
LEMMA WindowWalk ==
    ASSUME NEW m, NEW g, NEW k, Good(m, g, k), NEW s \in DOMAIN m.tables, g[s].level = 3,
           NEW p \in Window, Walk(m, s, p).present
    PROVE  Walk(m, s, p).frame = p - IoPage
  <1>1. p \in VPage
    BY WindowHigh
  <1>2. PICK t : Fits(m, g, k, g[t].own, g[t].ix3, p, Walk(m, s, p))
    BY <1>1, MappedFits, Zenon
  <1>3. QED
    BY <1>2, Zenon DEF Fits, IoPage

\* Spaces: those of processes have the kernel's upper half.
Sharing(m, g, k, live, gone) ==
    /\ \A s \in live \cup gone : s \in DOMAIN m.tables /\ g[s].level = 3 /\ s # k
    /\ \A s \in live, i \in Index : i >= Half => m.tables[s][i] = m.tables[k][i]

\* Kernel pages look the same in every space.
LEMMA KernelSame ==
    ASSUME NEW m, NEW g, NEW k, Good(m, g, k), k \in DOMAIN m.tables, g[k].level = 3,
           NEW live, NEW gone, Sharing(m, g, k, live, gone),
           NEW s \in live \cup {k}, NEW p \in VPage, p \in KernelPage
    PROVE  Walk(m, s, p) = Walk(m, k, p)
  <1>1. Ix(p, 3) \in Index /\ Ix(p, 3) >= Half
    BY TopIndex DEF Half
  <1>2. m.tables[s][Ix(p, 3)] = m.tables[k][Ix(p, 3)]
    BY <1>1, Zenon DEF Sharing
  <1>3. QED
    BY <1>2, WalkDepends, Zenon

\* An address is in some page.
LEMMA PageNat ==
    ASSUME NEW a \in Nat
    PROVE  PageOf(a) \in Nat /\ PageOf(a) \in VPage
  <1>1. PICK P \in Nat \ {0} : P = PAGE_SIZE
    BY TablesAssumption
  <1>2. PICK V \in Nat \ {0} : V = VPages
    BY PgIs
  <1>3. PICK q \in Int : q = a \div P
    BY DivMod
  <1>4. PICK d \in Int, r \in 0 .. V - 1 : r = q % V
    BY DivMod
  <1>5. QED
    BY <1>1, <1>2, <1>3, <1>4 DEF PageOf, VPage

-----------------------------------------------------------------------------
(***************************************************************************)
(* Mapping never gives frames back, whatever is mapped where.              *)
(***************************************************************************)
IsRec(m) ==
    /\ m = [tables |-> m.tables, content |-> m.content, next |-> m.next]
    /\ m.next \in Nat

\* m2 has no fewer frames in use.
Grown(m, m2) == IsRec(m2) /\ m.next <= m2.next

\* Changing tables is no growth.
LEMMA SetGrown ==
    ASSUME NEW m, IsRec(m), NEW t, NEW i, NEW e, NEW m2, m2 = [m EXCEPT !.tables[t][i] = e]
    PROVE  Grown(m, m2)
  <1>1. PICK T, c, n : n \in Nat /\ m = [tables |-> T, content |-> c, next |-> n]
    BY DEF IsRec
  <1>2. PICK T2 : m2 = [tables |-> T2, content |-> c, next |-> n]
    BY <1>1
  <1>3. QED
    BY <1>1, <1>2 DEF Grown, IsRec

\* Finding or adding a table.
LEMMA AllocGrown ==
    ASSUME NEW m, IsRec(m), NEW t, NEW i, NEW m2, m2 = vmm_get_pml_alloc(m, t, i).mem
    PROVE  Grown(m, m2)
  <1>1. m.next \in Nat
    BY DEF IsRec
  <1>2. CASE m.tables[t][i].present
    <2>1. m2 = m
      BY <1>2 DEF vmm_get_pml_alloc
    <2>2. QED
      BY <1>1, <2>1 DEF Grown
  <1>3. CASE ~m.tables[t][i].present
    <2>1. PICK m1 : m1 = WithTable(m, m.next)
      OBVIOUS
    <2>2. m2 = [m1 EXCEPT !.tables[t][i] = pml_make_entry(m.next, TRUE)]
      BY <1>3, <2>1 DEF vmm_get_pml_alloc
    <2>3. Grown(m, m1)
      <3>1. PICK T, c, n : n \in Nat /\ m = [tables |-> T, content |-> c, next |-> n]
        BY DEF IsRec
      <3>2. PICK T1 : T1 = [f \in DOMAIN m.tables \cup {m.next} |->
                              IF f = m.next THEN EmptyTable ELSE m.tables[f]]
        OBVIOUS
      <3>3. m1 = [m EXCEPT !.tables = T1, !.next = m.next + 1]
        BY <2>1, <3>2, Zenon DEF WithTable
      <3>4. m1 = [tables |-> T1, content |-> c, next |-> n + 1]
        BY <3>1, <3>3
      <3>5. QED
        BY <3>1, <3>4 DEF Grown, IsRec
    <2>4. Grown(m1, m2)
      BY <2>2, <2>3, SetGrown, Zenon DEF Grown
    <2>5. QED
      BY <1>1, <2>3, <2>4 DEF Grown, IsRec
  <1>4. QED
    BY <1>2, <1>3

\* Mapping a page.
LEMMA PageGrown ==
    ASSUME NEW m, IsRec(m), NEW pml, NEW page, NEW frame, NEW user,
           NEW m2, m2 = vmm_map_page(m, pml, page, frame, user)
    PROVE  Grown(m, m2)
  <1>1. PICK r3 : r3 = vmm_get_pml_alloc(m, pml, PMLX_GET_INDEX(page, 3))
    OBVIOUS
  <1>2. PICK r2 : r2 = vmm_get_pml_alloc(r3.mem, r3.table, PMLX_GET_INDEX(page, 2))
    OBVIOUS
  <1>3. PICK r1 : r1 = vmm_get_pml_alloc(r2.mem, r2.table, PMLX_GET_INDEX(page, 1))
    OBVIOUS
  <1>4. m2 = [r1.mem EXCEPT !.tables[r1.table][PMLX_GET_INDEX(page, 0)] = pml_make_entry(frame, user)]
    BY <1>1, <1>2, <1>3, Zenon DEF vmm_map_page
  <1>5. Grown(m, r3.mem)
    BY <1>1, AllocGrown, Zenon
  <1>6. Grown(r3.mem, r2.mem)
    BY <1>2, <1>5, AllocGrown, Zenon DEF Grown
  <1>7. Grown(r2.mem, r1.mem)
    BY <1>3, <1>6, AllocGrown, Zenon DEF Grown
  <1>8. Grown(r1.mem, m2)
    BY <1>4, <1>7, SetGrown, Zenon DEF Grown
  <1>9. QED
    BY <1>5, <1>6, <1>7, <1>8 DEF Grown, IsRec

\* Mapping a range.
LEMMA RangeGrown ==
    ASSUME NEW m, IsRec(m), NEW pml, NEW virt, NEW phys, NEW user,
           virt.length \div PAGE_SIZE \in Nat,
           NEW m2, m2 = vmm_map_range(m, pml, virt, phys, user)
    PROVE  Grown(m, m2)
  <1>1. PICK n \in Nat : n = virt.length \div PAGE_SIZE
    OBVIOUS
  <1>2. PICK f : /\ MapSteps(f, m, pml, PageOf(virt.base), phys.base \div PAGE_SIZE, user, n)
                 /\ m2 = f[n]
    BY <1>1, MapRangeSteps
  <1>3. PICK S : S = {i \in 0 .. n : Grown(m, f[i])}
    OBVIOUS
  <1>4. 0 \in S
    <2>1. f[0] = m
      BY <1>2, Zenon DEF MapSteps
    <2>2. Grown(m, m)
      BY DEF Grown, IsRec
    <2>3. QED
      BY <1>3, <2>1, <2>2
  <1>5. ASSUME NEW i \in 1 .. n, i - 1 \in S PROVE i \in S
    <2>1. f[i] = vmm_map_page(f[i - 1], pml, Pg(PageOf(virt.base), i - 1),
                              phys.base \div PAGE_SIZE + (i - 1), user)
      BY <1>2, Zenon DEF MapSteps
    <2>2. Grown(m, f[i - 1])
      BY <1>3, <1>5
    <2>3. Grown(f[i - 1], f[i])
      BY <2>1, <2>2, PageGrown, Zenon DEF Grown
    <2>4. Grown(m, f[i])
      BY <2>2, <2>3 DEF Grown, IsRec
    <2>5. QED
      BY <1>3, <2>4
  <1>6. n \in S
    BY <1>4, <1>5, Upwards
  <1>7. QED
    BY <1>2, <1>3, <1>6

-----------------------------------------------------------------------------
(***************************************************************************)
(* Loading a process.                                                      *)
(***************************************************************************)
\* x is m with one more space, pml, that has the kernel's upper half; the
\* translations of the other spaces are as they were.
Joins(m, g, x, gx, k, pml) ==
    /\ Good(x, gx, k)
    /\ pml \in DOMAIN x.tables /\ gx[pml].level = 3 /\ pml # k /\ pml \notin DOMAIN m.tables
    /\ DOMAIN m.tables \subseteq DOMAIN x.tables /\ m.next <= x.next
    /\ \A f \in 0 .. m.next - 1 : gx[f] = g[f]
    /\ \A s \in DOMAIN m.tables, i \in Index :
         g[s].level = 3 => x.tables[s][i] = m.tables[s][i]
    /\ \A s \in DOMAIN m.tables, p \in VPage : g[s].level = 3 => Walk(x, s, p) = Walk(m, s, p)
    /\ \A i \in Index : i >= Half => x.tables[pml][i] = m.tables[k][i]

\* A process gets memory of its own at low pages.
LEMMA JoinRange ==
    ASSUME NEW m, NEW g, NEW k, Good(m, g, k), NEW pml, NEW x, NEW gx, Joins(m, g, x, gx, k, pml),
           NEW n \in Nat, NEW c, NEW x1, x1 = [tables |-> x.tables, content |-> c, next |-> x.next + n],
           NEW a \in Nat, a + n * PAGE_SIZE <= (VPages \div 2) * PAGE_SIZE,
           NEW virt, NEW phys, n = virt.length \div PAGE_SIZE, virt.base = a,
           phys.base \div PAGE_SIZE = x.next,
           NEW x2, x2 = vmm_map_range(x1, pml, virt, phys, TRUE)
    PROVE  \E g1, g2 : /\ Reserved(x, gx, x1, g1, k, n, pml)
                       /\ RangeMapped(x1, g1, x2, g2, k, pml, PageOf(a), x.next, n, TRUE)
                       /\ Joins(m, g, x2, g2, k, pml)
  <1>1. /\ Good(x, gx, k) /\ pml \in DOMAIN x.tables /\ gx[pml].level = 3
        /\ pml # k /\ pml \notin DOMAIN m.tables
        /\ DOMAIN m.tables \subseteq DOMAIN x.tables
    BY Zenon DEF Joins
  <1>2. /\ x.next \in Nat /\ DOMAIN x.tables \subseteq 0 .. x.next - 1 /\ pml \in Nat
        /\ m.next \in Nat /\ m.next <= x.next
        /\ DOMAIN m.tables \subseteq 0 .. m.next - 1
    <2>1. IsMem(x) /\ IsMem(m)
      BY <1>1 DEF Good
    <2>2. QED
      BY <1>1, <2>1 DEF IsMem, Joins
  <1>3. PICK g1 : Reserved(x, gx, x1, g1, k, n, pml)
    BY <1>1, <1>2, Reserve, Zenon
  <1>4. x1.tables = x.tables /\ x1.next = x.next + n
    OBVIOUS
  <1>5. /\ Good(x1, g1, k) /\ \A f \in 0 .. x.next - 1 : g1[f] = gx[f]
        /\ \A f \in x.next .. x.next + n - 1 : g1[f].level = 4 /\ g1[f].own = pml
    BY <1>3, Zenon DEF Reserved
  <1>6. pml \in DOMAIN x1.tables /\ g1[pml].level = 3
    BY <1>1, <1>2, <1>4, <1>5
  <1>7. PICK v : v = PageOf(a)
    OBVIOUS
  <1>8. /\ v \in Nat
        /\ \A j \in 0 .. n - 1 : /\ Pg(v, j) \in VPage /\ Pg(v, j) \notin Window
                                 /\ Ix(Pg(v, j), 3) < Half
    BY <1>7, LowRange
  <1>9. RangeFits(x1, g1, k, pml, v, x.next, n, TRUE)
    <2>1. ASSUME NEW j \in 0 .. n - 1
          PROVE  Fits(x1, g1, k, pml, Ix(Pg(v, j), 3), Pg(v, j), pml_make_entry(x.next + j, TRUE))
      <3>1. x.next + j \in x.next .. x.next + n - 1 /\ x.next + j < x1.next
        BY <1>2, <1>4
      <3>2. g1[x.next + j].level = 4 /\ g1[x.next + j].own = pml
        BY <1>5, <3>1
      <3>3. Pg(v, j) \notin Window
        BY <1>8
      <3>4. pml_make_entry(x.next + j, TRUE).frame = x.next + j
        BY DEF pml_make_entry
      <3>5. QED
        BY <3>1, <3>2, <3>3, <3>4, Zenon DEF Fits
    <2>2. QED
      BY <2>1, Zenon DEF RangeFits
  <1>10. PICK g2 : RangeMapped(x1, g1, x2, g2, k, pml, v, x.next, n, TRUE)
    <2>1. v = PageOf(virt.base) /\ x.next = phys.base \div PAGE_SIZE /\ TRUE \in BOOLEAN
      BY <1>7
    <2>2. QED
      BY <1>2, <1>5, <1>6, <1>8, <1>9, <2>1, MapRange, Zenon
  <1>11. /\ Good(x2, g2, k) /\ Keeps(x1, g1, x2, g2)
         /\ Tops(x1, g1, x2, pml, {Ix(Pg(v, j), 3) : j \in 0 .. n - 1})
    BY <1>10, Zenon DEF RangeMapped
  <1>12. pml \in DOMAIN x2.tables /\ g2[pml].level = 3
    <2>1. pml \in DOMAIN x2.tables /\ g2[pml] = g1[pml]
      <3>1. Good(x1, g1, k) /\ Keeps(x1, g1, x2, g2) /\ pml \in DOMAIN x1.tables
        BY <1>5, <1>6, <1>11
      <3>2. QED
        BY ONLY <3>1, KeptTop
    <2>2. QED
      BY <1>6, <2>1, Zenon
  <1>13. /\ DOMAIN x1.tables \subseteq DOMAIN x2.tables /\ x1.next <= x2.next
         /\ \A f \in 0 .. x1.next - 1 : g2[f] = g1[f]
    BY <1>11, Zenon DEF Keeps
  <1>14. /\ DOMAIN m.tables \subseteq DOMAIN x2.tables /\ m.next <= x2.next
         /\ \A f \in 0 .. m.next - 1 : g2[f] = g[f]
    <2>1. x2.next \in Nat
      BY <1>11 DEF Good, IsMem
    <2>2. \A f \in 0 .. m.next - 1 : gx[f] = g[f]
      BY Zenon DEF Joins
    <2>3. ASSUME NEW f \in 0 .. m.next - 1 PROVE g2[f] = g[f]
      <3>1. f \in 0 .. x.next - 1 /\ f \in 0 .. x1.next - 1
        BY <1>2, <1>4
      <3>2. QED
        BY <1>5, <1>13, <2>2, <3>1, Zenon
    <2>4. DOMAIN m.tables \subseteq DOMAIN x2.tables
      BY <1>1, <1>4, <1>13, Zenon
    <2>5. m.next <= x2.next
      BY ONLY <1>2, <1>4, <1>13, <2>1, n \in Nat
    <2>6. QED
      BY <2>3, <2>4, <2>5
  <1>15. ASSUME NEW s \in DOMAIN m.tables, g[s].level = 3
         PROVE  s \in DOMAIN x1.tables /\ g1[s].level = 3 /\ s # pml
    <2>1. s \in 0 .. m.next - 1 /\ s \in 0 .. x.next - 1
      BY <1>2
    <2>2. gx[s] = g[s]
      BY <2>1, Zenon DEF Joins
    <2>3. g1[s] = gx[s]
      BY <1>5, <2>1
    <2>4. QED
      BY <1>1, <1>4, <1>15, <2>2, <2>3, Zenon
  <1>16. ASSUME NEW s \in DOMAIN m.tables, NEW i \in Index, g[s].level = 3
         PROVE  x2.tables[s][i] = m.tables[s][i]
    <2>1. x2.tables[s][i] = x1.tables[s][i]
      BY <1>11, <1>15, <1>16, Zenon DEF Tops
    <2>2. x.tables[s][i] = m.tables[s][i]
      BY <1>16, Zenon DEF Joins
    <2>3. QED
      BY <1>4, <2>1, <2>2, Zenon
  <1>17. ASSUME NEW s \in DOMAIN m.tables, NEW p \in VPage, g[s].level = 3
         PROVE  Walk(x2, s, p) = Walk(m, s, p)
    <2>1. s \in DOMAIN x1.tables /\ g1[s].level = 3 /\ s # pml
      BY <1>15, <1>17
    <2>2. \/ Walk(x2, s, p) = Walk(x1, s, p)
          \/ \E j \in 0 .. n - 1 : p = Pg(v, j) /\ (Ix(p, 3) < Half => s = pml)
      BY <1>10, <2>1, Zenon DEF RangeMapped
    <2>3. Walk(x2, s, p) = Walk(x1, s, p)
      BY <1>8, <2>1, <2>2, Zenon
    <2>4. Walk(x1, s, p) = Walk(x, s, p)
      BY <1>4, Zenon DEF Walk
    <2>5. Walk(x, s, p) = Walk(m, s, p)
      BY <1>17, Zenon DEF Joins
    <2>6. QED
      BY <2>3, <2>4, <2>5, Zenon
  <1>18. ASSUME NEW i \in Index, i >= Half PROVE x2.tables[pml][i] = m.tables[k][i]
    <2>1. i \notin {Ix(Pg(v, j), 3) : j \in 0 .. n - 1}
      <3>1. SUFFICES ASSUME NEW j \in 0 .. n - 1, i = Ix(Pg(v, j), 3) PROVE FALSE
        OBVIOUS
      <3>2. i < Half /\ i \in Int /\ Half \in Int
        BY <1>8, <3>1, TablesAssumption DEF Index, Half
      <3>3. QED
        BY <1>18, <3>2
    <2>2. x2.tables[pml][i] = x1.tables[pml][i]
      BY <1>6, <1>11, <2>1, Zenon DEF Tops
    <2>3. x.tables[pml][i] = m.tables[k][i]
      BY <1>18, Zenon DEF Joins
    <2>4. QED
      BY <1>4, <2>2, <2>3, Zenon
  <1>19. Joins(m, g, x2, g2, k, pml)
    BY <1>1, <1>11, <1>12, <1>14, <1>16, <1>17, <1>18, Zenon DEF Joins
  <1>20. QED
    BY <1>3, <1>7, <1>10, <1>19, Zenon

\* vmm_space_create adds a space with nothing but the kernel in it.
LEMMA Created ==
    ASSUME NEW m, NEW g, NEW first, Core(m, g, kernel, first), NEW x, x = vmm_space_create(m)
    PROVE  \E gx : Joins(m, g, x, gx, kernel, m.next) /\ x.next = m.next + 1 /\ x.content = m.content
  <1>1. /\ Good(m, g, kernel) /\ kernel \in DOMAIN m.tables /\ g[kernel].level = 3 /\ IsMem(m)
        /\ \A i \in Index : SHARED_FIRST <= i /\ i < Half => m.tables[kernel][i] = Absent
    BY DEF Core, Good
  <1>2. /\ m.next \in Nat /\ DOMAIN m.tables \subseteq 0 .. m.next - 1
        /\ m.tables[kernel] \in [Index -> Entry]
    BY <1>1 DEF IsMem
  <1>3. PICK tab : tab = [i \in 0 .. ENTRIES - 1 |->
                            IF i >= SHARED_FIRST THEN m.tables[kernel][i] ELSE Absent]
    OBVIOUS
  <1>4. tab \in [Index -> Entry]
    BY <1>2, <1>3, AbsentIs DEF Index
  <1>5. \A i \in Index : \/ tab[i] = Absent
                         \/ /\ i >= Half /\ tab[i] = m.tables[kernel][i]
                            /\ kernel \in DOMAIN m.tables /\ g[kernel].level = 3
    <2>1. SUFFICES ASSUME NEW i \in Index
                   PROVE  tab[i] = Absent \/ (i >= Half /\ tab[i] = m.tables[kernel][i])
      BY <1>1
    <2>2. tab[i] = IF i >= SHARED_FIRST THEN m.tables[kernel][i] ELSE Absent
      BY <1>3 DEF Index
    <2>3. i \in Int /\ SHARED_FIRST \in Int /\ Half \in Int
      BY TablesAssumption DEF Index, Half
    <2>4. QED
      BY <1>1, <2>2, <2>3
  <1>6. PICK w : w = WithTable(m, m.next)
    OBVIOUS
  <1>7. Added(m, w)
    BY <1>1, <1>6, AddedIs
  <1>8. x = [w EXCEPT !.tables[m.next] = tab]
    BY <1>3, <1>6 DEF vmm_space_create
  <1>9. PICK T, c, n : /\ w = [tables |-> T, content |-> c, next |-> n] /\ n = m.next + 1 /\ c = m.content
                       /\ DOMAIN T = DOMAIN m.tables \cup {m.next} /\ T \in [DOMAIN T -> [Index -> Entry]]
                       /\ \A u \in DOMAIN m.tables : T[u] = m.tables[u]
    BY <1>7 DEF Added, IsMem
  <1>10. PICK T2 : T2 = [T EXCEPT ![m.next] = tab]
    OBVIOUS
  <1>11. x = [tables |-> T2, content |-> c, next |-> n]
    BY <1>8, <1>9, <1>10
  <1>12. m.next \notin DOMAIN m.tables /\ m.next \in DOMAIN T
    BY <1>2, <1>9
  <1>13. /\ DOMAIN T2 = DOMAIN m.tables \cup {m.next} /\ T2 \in [DOMAIN T2 -> [Index -> Entry]]
         /\ T2[m.next] = tab /\ \A u \in DOMAIN m.tables : T2[u] = m.tables[u]
    BY <1>4, <1>9, <1>10, <1>12
  <1>14. /\ DOMAIN x.tables = DOMAIN m.tables \cup {m.next} /\ x.next = m.next + 1
         /\ x.content = m.content /\ x.tables[m.next] = tab
         /\ \A u \in DOMAIN m.tables : x.tables[u] = m.tables[u]
    BY <1>9, <1>11, <1>13
  <1>15. IsMem(x)
    <2>1. x = [tables |-> x.tables, content |-> x.content, next |-> x.next]
      BY <1>11
    <2>2. x.tables \in [DOMAIN x.tables -> [Index -> Entry]]
      BY <1>11, <1>13
    <2>3. x.next \in Nat /\ DOMAIN x.tables \subseteq 0 .. x.next - 1
      BY <1>2, <1>14
    <2>4. QED
      BY <2>1, <2>2, <2>3 DEF IsMem
  <1>16. PICK gx : TopAdded(m, g, x, gx, kernel)
    BY ONLY <1>1, <1>4, <1>5, <1>14, <1>15, AddTop, ZenonT(60)
  <1>17. /\ Good(x, gx, kernel) /\ gx[m.next].level = 3 /\ Keeps(m, g, x, gx)
    BY <1>16 DEF TopAdded
  <1>18. DOMAIN m.tables \subseteq DOMAIN x.tables /\ m.next <= x.next
    BY <1>2, <1>14
  <1>19. \A f \in 0 .. m.next - 1 : gx[f] = g[f]
    BY <1>17, Zenon DEF Keeps
  <1>20. m.next \in DOMAIN x.tables /\ m.next # kernel
    BY <1>1, <1>12, <1>14
  <1>21. \A s \in DOMAIN m.tables, i \in Index : g[s].level = 3 => x.tables[s][i] = m.tables[s][i]
    BY <1>14, Zenon
  <1>22. ASSUME NEW s \in DOMAIN m.tables, NEW p \in VPage, g[s].level = 3
         PROVE  Walk(x, s, p) = Walk(m, s, p)
    <2>1. x.tables[s][Ix(p, 3)] = m.tables[s][Ix(p, 3)]
      BY <1>14, Zenon
    <2>2. \A u \in DOMAIN m.tables, j \in Index : g[u].level < 3 => x.tables[u][j] = m.tables[u][j]
      BY <1>14, Zenon
    <2>3. QED
      <3>1. s \in DOMAIN m.tables /\ g[s].level = 3 /\ Good(m, g, kernel) /\ p \in VPage
        BY <1>1, <1>22
      <3>2. QED
        BY ONLY <3>1, <2>1, <2>2, WalkDepends
  <1>23. ASSUME NEW i \in Index, i >= Half PROVE x.tables[m.next][i] = m.tables[kernel][i]
    <2>1. tab[i] = IF i >= SHARED_FIRST THEN m.tables[kernel][i] ELSE Absent
      BY <1>3 DEF Index
    <2>2. i >= SHARED_FIRST
      BY <1>23, TablesAssumption DEF Index, Half
    <2>3. QED
      BY <1>14, <2>1, <2>2
  <1>24. Joins(m, g, x, gx, kernel, m.next)
    BY <1>12, <1>17, <1>18, <1>19, <1>20, <1>21, <1>22, <1>23, Zenon DEF Joins
  <1>25. QED
    BY <1>14, <1>24

-----------------------------------------------------------------------------
\* A length in whole pages.
LEMMA AlignIs ==
    ASSUME NEW l \in Nat
    PROVE  \E n \in Nat : /\ AlignUp(l) = n * PAGE_SIZE /\ AlignUp(l) \div PAGE_SIZE = n
                          /\ l <= n * PAGE_SIZE /\ n * PAGE_SIZE < l + PAGE_SIZE
  <1>1. PICK P \in Nat \ {0} : P = PAGE_SIZE
    BY TablesAssumption
  <1>2. l + P - 1 \in Int
    OBVIOUS
  <1>3. PICK c \in Int, d \in 0 .. P - 1 : c = (l + P - 1) \div P /\ l + P - 1 = c * P + d
    BY <1>2, DivMod
  <1>4. c \in Nat /\ c * P \in Int
    BY <1>3
  <1>5. l <= c * P /\ c * P < l + P
    BY <1>3, <1>4
  <1>6. AlignUp(l) = c * PAGE_SIZE
    BY <1>1, <1>3 DEF AlignUp
  <1>7. (c * PAGE_SIZE + 0) \div PAGE_SIZE = c /\ c * PAGE_SIZE + 0 = c * PAGE_SIZE
    <2>1. 0 \in 0 .. PAGE_SIZE - 1 /\ c * PAGE_SIZE \in Int
      BY <1>1, <1>4
    <2>2. QED
      BY <1>4, <2>1, PageIs
  <1>8. QED
    BY <1>1, <1>4, <1>5, <1>6, <1>7

\* n pages from address a on are mapped to fresh frames, the others are as
\* they were.
Placed(x, x2, pml, a, n) ==
    /\ \A p \in VPage : \/ Walk(x2, pml, p) = Walk(x, pml, p)
                        \/ \E j \in 0 .. n - 1 : p = a \div PAGE_SIZE + j
    /\ \A j \in 0 .. n - 1 :
         Walk(x2, pml, a \div PAGE_SIZE + j) = pml_make_entry(x.next + j, TRUE)

\* x2 is x with n frames more, that hold c, mapped at address a.
Maps(x, x2, pml, a, n, c) ==
    \E x1, virt, phys :
        /\ x1 = [tables |-> x.tables, content |-> c, next |-> x.next + n]
        /\ virt.base = a /\ virt.length \div PAGE_SIZE = n /\ phys.base = x.next * PAGE_SIZE
        /\ x2 = vmm_map_range(x1, pml, virt, phys, TRUE)

\* What that does to the space pml that joins those of m.
LEMMA JoinPlaced ==
    ASSUME NEW m, NEW g, NEW k, Good(m, g, k), NEW pml, NEW x, NEW gx, Joins(m, g, x, gx, k, pml),
           NEW n \in Nat, NEW c, NEW a \in Nat, a + n * PAGE_SIZE <= (VPages \div 2) * PAGE_SIZE,
           NEW x2, Maps(x, x2, pml, a, n, c)
    PROVE  \E g2 : /\ Joins(m, g, x2, g2, k, pml) /\ Placed(x, x2, pml, a, n)
                   /\ x2.content = c /\ x.next + n <= x2.next
  <1>0. PICK x1, virt, phys :
            /\ x1 = [tables |-> x.tables, content |-> c, next |-> x.next + n]
            /\ virt.base = a /\ n = virt.length \div PAGE_SIZE /\ phys.base = x.next * PAGE_SIZE
            /\ x2 = vmm_map_range(x1, pml, virt, phys, TRUE)
    BY DEF Maps
  <1>1. Good(x, gx, k) /\ x.next \in Nat /\ pml \in DOMAIN x.tables /\ gx[pml].level = 3
        /\ DOMAIN x.tables \subseteq 0 .. x.next - 1
    BY DEF Joins, Good, IsMem
  <1>2. phys.base \div PAGE_SIZE = x.next
    <2>1. 0 \in 0 .. PAGE_SIZE - 1 /\ x.next * PAGE_SIZE + 0 = x.next * PAGE_SIZE
      BY <1>1, TablesAssumption
    <2>2. (x.next * PAGE_SIZE + 0) \div PAGE_SIZE = x.next
      BY <1>1, <2>1, PageIs, Zenon
    <2>3. QED
      BY <1>0, <2>1, <2>2, Zenon
  <1>3. PICK g1, g2 : /\ Reserved(x, gx, x1, g1, k, n, pml)
                      /\ RangeMapped(x1, g1, x2, g2, k, pml, PageOf(a), x.next, n, TRUE)
                      /\ Joins(m, g, x2, g2, k, pml)
    BY <1>0, <1>2, JoinRange
  <1>4. PICK v : v = PageOf(a)
    OBVIOUS
  <1>5. /\ v \in Nat
        /\ \A j \in 0 .. n - 1 : Pg(v, j) = a \div PAGE_SIZE + j /\ Pg(v, j) \in VPage
    BY <1>4, LowRange
  <1>6. x1.tables = x.tables /\ x1.content = c /\ x1.next = x.next + n
    BY <1>0
  <1>7. pml \in DOMAIN x1.tables /\ g1[pml].level = 3
    <2>1. pml \in 0 .. x.next - 1
      BY <1>1
    <2>2. g1[pml] = gx[pml]
      BY <1>3, <2>1, Zenon DEF Reserved
    <2>3. QED
      BY <1>1, <1>6, <2>2, Zenon
  <1>8. \A p \in VPage : Walk(x1, pml, p) = Walk(x, pml, p)
    BY <1>6, Zenon DEF Walk
  <1>9. ASSUME NEW p \in VPage
        PROVE  Walk(x2, pml, p) = Walk(x, pml, p) \/ \E j \in 0 .. n - 1 : p = a \div PAGE_SIZE + j
    <2>1. Walk(x2, pml, p) = Walk(x1, pml, p) \/ \E j \in 0 .. n - 1 : p = Pg(v, j)
      BY <1>3, <1>4, <1>7, Zenon DEF RangeMapped
    <2>2. QED
      BY <1>5, <1>8, <2>1, Zenon
  <1>10. ASSUME NEW j \in 0 .. n - 1
         PROVE  Walk(x2, pml, a \div PAGE_SIZE + j) = pml_make_entry(x.next + j, TRUE)
    <2>1. PICK h \in 0 .. n - 1 : /\ Pg(v, h) = Pg(v, j)
                                  /\ Walk(x2, pml, Pg(v, j)) = pml_make_entry(x.next + h, TRUE)
      BY <1>3, <1>4, Zenon DEF RangeMapped
    <2>2. PICK q \in Int : q = a \div PAGE_SIZE
      BY TablesAssumption
    <2>3. Pg(v, j) = q + j /\ Pg(v, h) = q + h
      BY <1>5, <2>2
    <2>4. h = j
      BY <2>1, <2>3
    <2>5. QED
      BY <2>1, <2>2, <2>3, <2>4, Zenon
  <1>11. x2.content = c /\ x.next + n <= x2.next
    <2>1. Keeps(x1, g1, x2, g2)
      BY <1>3, Zenon DEF RangeMapped
    <2>2. QED
      BY <1>6, <2>1, Zenon DEF Keeps
  <1>12. QED
    BY <1>3, <1>9, <1>10, <1>11, Zenon DEF Placed

\* The contents of the frames after a segment has been copied.
Filled(x, phdr) ==
    LET frames == x.next .. x.next + AlignUp(phdr.memsz) \div PAGE_SIZE - 1
    IN  [f \in DOMAIN x.content \cup frames |->
           IF f \in frames
           THEN [b \in 0 .. PAGE_SIZE - 1 |-> SegmentByte(phdr, (f - x.next) * PAGE_SIZE + b)]
           ELSE x.content[f]]

\* A segment that is loaded into the lower half.
LowSegment(phdr) ==
    phdr.type = "PT_LOAD" => /\ phdr.vaddr \in Nat /\ phdr.memsz \in Nat
                             /\ phdr.vaddr + AlignUp(phdr.memsz) <= (VPages \div 2) * PAGE_SIZE

\* What loading a segment does.
Segmented(x, x2, pml, phdr) ==
    IF phdr.type # "PT_LOAD" THEN x2 = x
    ELSE LET n == AlignUp(phdr.memsz) \div PAGE_SIZE
         IN  /\ Placed(x, x2, pml, phdr.vaddr, n)
             /\ x2.content = Filled(x, phdr) /\ x.next + n <= x2.next

\* load_segment adds pages to one space in fresh frames, and keeps the layout.
LEMMA Segment ==
    ASSUME NEW m, NEW g, NEW k, Good(m, g, k), NEW pml, NEW x, NEW gx, Joins(m, g, x, gx, k, pml),
           NEW phdr, LowSegment(phdr), NEW x2, x2 = load_segment(x, pml, phdr)
    PROVE  \E g2 : Joins(m, g, x2, g2, k, pml) /\ Segmented(x, x2, pml, phdr)
  <1>1. CASE phdr.type # "PT_LOAD"
    <2>1. x2 = x
      BY <1>1 DEF load_segment
    <2>2. QED
      BY <1>1, <2>1 DEF Segmented
  <1>2. CASE phdr.type = "PT_LOAD"
    <2>1. PICK a \in Nat, l \in Nat : a = phdr.vaddr /\ l = phdr.memsz
      BY <1>2 DEF LowSegment
    <2>2. PICK n \in Nat : AlignUp(l) = n * PAGE_SIZE /\ AlignUp(l) \div PAGE_SIZE = n
      BY AlignIs
    <2>3. a + n * PAGE_SIZE <= (VPages \div 2) * PAGE_SIZE
      BY <1>2, <2>1, <2>2 DEF LowSegment
    <2>4. PICK addr : addr = range_t(x.next * PAGE_SIZE, AlignUp(l))
      OBVIOUS
    <2>5. PICK virt : virt = range_t(a, AlignUp(l))
      OBVIOUS
    <2>6. PICK c : c = Filled(x, phdr)
      OBVIOUS
    <2>7. addr.base = x.next * PAGE_SIZE /\ addr.length = AlignUp(l) /\ virt.base = a /\ virt.length = AlignUp(l)
      BY <2>4, <2>5 DEF range_t
    <2>8. PICK x1 : x1 = [x EXCEPT !.next = @ + n, !.content = c]
      OBVIOUS
    <2>9. x1 = [tables |-> x.tables, content |-> c, next |-> x.next + n]
      <3>1. x = [tables |-> x.tables, content |-> x.content, next |-> x.next]
        BY DEF Joins, Good, IsMem
      <3>2. QED
        BY <2>8, <3>1
    <2>10. x2 = vmm_map_range(x1, pml, virt, addr, TRUE)
      <3>1. phdr.vaddr = a /\ phdr.memsz = l /\ SegmentLength(phdr) = AlignUp(l) /\ addr.length \div PAGE_SIZE = n
        BY <2>1, <2>2, <2>7 DEF SegmentLength
      <3>2. x2 = LET frames == x.next .. x.next + addr.length \div PAGE_SIZE - 1
                     filled == [x EXCEPT
                       !.next = @ + addr.length \div PAGE_SIZE,
                       !.content = [f \in DOMAIN @ \cup frames |->
                          IF f \in frames
                          THEN [b \in 0 .. PAGE_SIZE - 1 |->
                                  SegmentByte(phdr, (f - x.next) * PAGE_SIZE + b)]
                          ELSE x.content[f]]]
                 IN  vmm_map_range(filled, pml, range_t(phdr.vaddr, addr.length), addr, TRUE)
        BY <1>2, <2>4, <3>1, Zenon DEF load_segment
      <3>3. Filled(x, phdr) = LET frames == x.next .. x.next + addr.length \div PAGE_SIZE - 1
                              IN  [f \in DOMAIN x.content \cup frames |->
                                   IF f \in frames
                                   THEN [b \in 0 .. PAGE_SIZE - 1 |->
                                           SegmentByte(phdr, (f - x.next) * PAGE_SIZE + b)]
                                   ELSE x.content[f]]
        BY <2>2, <3>1, Zenon DEF Filled
      <3>4. QED
        BY <2>5, <2>6, <2>7, <2>8, <3>1, <3>2, <3>3, Zenon
    <2>11. n = virt.length \div PAGE_SIZE
      BY <2>2, <2>7
    <2>12. PICK g2 : /\ Joins(m, g, x2, g2, k, pml) /\ Placed(x, x2, pml, a, n)
                     /\ x2.content = c /\ x.next + n <= x2.next
      <3>1. Maps(x, x2, pml, a, n, c)
        BY <2>7, <2>9, <2>10, <2>11 DEF Maps
      <3>2. QED
        BY ONLY Good(m, g, k), Joins(m, g, x, gx, k, pml), n \in Nat, a \in Nat, <2>3, <3>1, JoinPlaced
    <2>13. Segmented(x, x2, pml, phdr)
      BY <1>2, <2>1, <2>2, <2>6, <2>12 DEF Segmented
    <2>14. QED
      BY <2>12, <2>13
  <1>3. QED
    BY <1>1, <1>2

\* The stack.
LEMMA Stack ==
    ASSUME NEW m, NEW g, NEW k, Good(m, g, k), NEW pml, NEW x, NEW gx, Joins(m, g, x, gx, k, pml),
           NEW x2, x2 = task_init(x, pml)
    PROVE  \E g2 : \E n \in Nat :
             /\ n = KERNEL_STACK_SIZE \div PAGE_SIZE /\ n * PAGE_SIZE <= KERNEL_STACK_SIZE
             /\ Joins(m, g, x2, g2, k, pml) /\ Placed(x, x2, pml, USER_STACK_BASE, n)
             /\ x2.content = x.content /\ x.next <= x2.next
  <1>1. PICK a \in Nat, l \in Nat : a = USER_STACK_BASE /\ l = KERNEL_STACK_SIZE
                                    /\ a + l <= (VPages \div 2) * PAGE_SIZE
    BY ProgramAssumption
  <1>2. PICK P \in Nat \ {0} : P = PAGE_SIZE
    BY TablesAssumption
  <1>3. PICK n \in Int, r \in 0 .. P - 1 : n = l \div P /\ l = n * P + r
    BY DivMod
  <1>4. n \in Nat /\ n * P \in Int /\ n * P <= l
    BY <1>3
  <1>5. a + n * PAGE_SIZE <= (VPages \div 2) * PAGE_SIZE
    <2>1. PICK h \in Int : h = (VPages \div 2) * PAGE_SIZE
      BY <1>2, PgIs
    <2>2. QED
      BY <1>1, <1>2, <1>4, <2>1
  <1>6. PICK virt, phys : virt = range_t(a, l) /\ phys = range_t(x.next * PAGE_SIZE, l)
    OBVIOUS
  <1>7. virt.base = a /\ virt.length = l /\ phys.base = x.next * PAGE_SIZE
    BY <1>6 DEF range_t
  <1>8. PICK x1 : x1 = [x EXCEPT !.next = @ + n]
    OBVIOUS
  <1>9. x1 = [tables |-> x.tables, content |-> x.content, next |-> x.next + n]
    <2>1. x = [tables |-> x.tables, content |-> x.content, next |-> x.next]
      BY DEF Joins, Good, IsMem
    <2>2. QED
      BY <1>8, <2>1
  <1>10. x2 = vmm_map_range(x1, pml, virt, phys, TRUE)
    BY <1>1, <1>2, <1>3, <1>6, <1>8, Zenon DEF task_init
  <1>11. n = virt.length \div PAGE_SIZE
    BY <1>2, <1>3, <1>7
  <1>12. PICK g2 : /\ Joins(m, g, x2, g2, k, pml) /\ Placed(x, x2, pml, a, n)
                   /\ x2.content = x.content /\ x.next + n <= x2.next
    <2>1. Maps(x, x2, pml, a, n, x.content)
      BY <1>7, <1>9, <1>10, <1>11 DEF Maps
    <2>2. QED
      BY ONLY Good(m, g, k), Joins(m, g, x, gx, k, pml), a \in Nat, <1>4, <1>5, <2>1, JoinPlaced
  <1>13. n = KERNEL_STACK_SIZE \div PAGE_SIZE /\ n * PAGE_SIZE <= KERNEL_STACK_SIZE
    BY <1>1, <1>2, <1>3, <1>4
  <1>14. Placed(x, x2, pml, USER_STACK_BASE, n)
    BY <1>1, <1>12, Zenon
  <1>15. x.next <= x2.next
    <2>1. x.next \in Nat /\ x2.next \in Nat
      BY <1>12 DEF Joins, Good, IsMem
    <2>2. QED
      BY <1>4, <1>12, <2>1
  <1>16. QED
    BY ONLY <1>4, <1>12, <1>13, <1>14, <1>15, Zenon

-----------------------------------------------------------------------------
\* f goes through the first n segments of an image.
LoadSteps(f, x, pml, image, n) ==
    /\ f = [i \in 0 .. n |-> f[i]] /\ f[0] = x
    /\ \A i \in 1 .. n : f[i] = load_segment(f[i - 1], pml, image[i])

\* There is such a function.
LEMMA LoadStepsExist ==
    ASSUME NEW x, NEW pml, NEW image, NEW n \in Nat
    PROVE  \E f : LoadSteps(f, x, pml, image, n)
  <1> DEFINE S == {k \in Nat : \E f : LoadSteps(f, x, pml, image, k)}
  <1>1. 0 \in S
    <2>1. PICK f : f = [i \in 0 .. 0 |-> x]
      OBVIOUS
    <2>2. LoadSteps(f, x, pml, image, 0)
      BY <2>1 DEF LoadSteps
    <2>3. QED
      BY <2>2
  <1>2. ASSUME NEW k \in 1 .. n, k - 1 \in S PROVE k \in S
    <2>1. PICK h : LoadSteps(h, x, pml, image, k - 1)
      BY <1>2
    <2>2. h[0] = x /\ \A i \in 1 .. k - 1 : h[i] = load_segment(h[i - 1], pml, image[i])
      BY <2>1 DEF LoadSteps
    <2>3. PICK y : y = load_segment(h[k - 1], pml, image[k])
      OBVIOUS
    <2>4. PICK f : f = [i \in 0 .. k |-> IF i = k THEN y ELSE h[i]]
      OBVIOUS
    <2>5. f[k] = y /\ \A i \in 0 .. k - 1 : f[i] = h[i]
      BY <2>4
    <2>6. ASSUME NEW i \in 1 .. k PROVE f[i] = load_segment(f[i - 1], pml, image[i])
      <3>1. CASE i = k
        <4>1. f[i - 1] = h[k - 1]
          BY <2>5, <3>1
        <4>2. QED
          BY <2>3, <2>5, <3>1, <4>1, Zenon
      <3>2. CASE i # k
        <4>1. i \in 1 .. k - 1 /\ f[i] = h[i] /\ f[i - 1] = h[i - 1]
          BY <2>5, <3>2
        <4>2. QED
          BY <2>2, <4>1, Zenon
      <3>3. QED
        BY <3>1, <3>2
    <2>7. f[0] = x /\ k \in Nat
      BY <2>2, <2>5
    <2>8. LoadSteps(f, x, pml, image, k)
      <3>1. f = [i \in 0 .. k |-> f[i]]
        BY <2>4
      <3>2. QED
        BY <2>6, <2>7, <3>1, Zenon DEF LoadSteps
    <2>9. QED
      BY <2>7, <2>8
  <1>3. \A k \in 0 .. n : k \in S
    <2> HIDE DEF S
    <2>1. QED
      BY <1>1, <1>2, Upwards
  <1>4. n \in S
    BY <1>3
  <1>5. QED
    BY <1>4

\* Loaded goes through the segments, then makes the stack.
LEMMA LoadedSteps ==
    ASSUME NEW image, Len(image) \in Nat
    PROVE  \E f : /\ LoadSteps(f, vmm_space_create(mem), mem.next, image, Len(image))
                  /\ Loaded(image) = task_init(f[Len(image)], mem.next)
  <1>1. PICK x, pml : x = vmm_space_create(mem) /\ pml = mem.next
    OBVIOUS
  <1>2. PICK n \in Nat : n = Len(image)
    OBVIOUS
  <1> DEFINE body(h) == [i \in 0 .. n |-> IF i = 0 THEN x ELSE load_segment(h[i - 1], pml, image[i])]
  <1>3. PICK f : f = CHOOSE h : h = body(h)
    OBVIOUS
  <1>4. Loaded(image) = task_init(f[n], pml)
    BY <1>1, <1>2, <1>3 DEF Loaded
  <1>5. \E h : h = body(h)
    <2>1. PICK h : LoadSteps(h, x, pml, image, n)
      BY LoadStepsExist, Zenon
    <2>2. h = [i \in 0 .. n |-> h[i]] /\ h[0] = x
      BY <2>1 DEF LoadSteps
    <2>3. ASSUME NEW i \in 0 .. n PROVE h[i] = body(h)[i]
      <3>1. CASE i = 0
        BY <2>2, <3>1
      <3>2. CASE i # 0
        <4>1. i \in 1 .. n
          BY <3>2
        <4>2. h[i] = load_segment(h[i - 1], pml, image[i])
          BY <2>1, <4>1, Zenon DEF LoadSteps
        <4>3. QED
          BY <3>2, <4>2
      <3>3. QED
        BY <3>1, <3>2
    <2>4. QED
      BY <2>2, <2>3
  <1>6. f = body(f)
    BY <1>3, <1>5
  <1>7. f = [i \in 0 .. n |-> f[i]] /\ f[0] = x
    BY <1>6
  <1>8. ASSUME NEW i \in 1 .. n PROVE f[i] = load_segment(f[i - 1], pml, image[i])
    <2>1. i \in 0 .. n /\ i # 0
      OBVIOUS
    <2>2. body(f)[i] = load_segment(f[i - 1], pml, image[i])
      BY <2>1
    <2>3. QED
      BY <1>6, <2>2, Zenon
  <1>9. LoadSteps(f, x, pml, image, n)
    BY <1>7, <1>8, Zenon DEF LoadSteps
  <1>10. QED
    BY <1>1, <1>2, <1>4, <1>9, Zenon

\* Images consist of segments for the lower half.
LEMMA LowImage ==
    ASSUME NEW image \in Images
    PROVE  Len(image) \in Nat /\ \A i \in 1 .. Len(image) : LowSegment(image[i])
  <1>1. image \in Seq([type : STRING, vaddr : Nat, filesz : Nat, memsz : Nat])
    BY ProgramAssumption
  <1>2. Len(image) \in Nat
    BY <1>1
  <1>3. ASSUME NEW i \in 1 .. Len(image), image[i].type = "PT_LOAD" PROVE LowSegment(image[i])
    <2>1. image[i] \in [type : STRING, vaddr : Nat, filesz : Nat, memsz : Nat]
      <3>1. PICK R : R = [type : STRING, vaddr : Nat, filesz : Nat, memsz : Nat]
        OBVIOUS
      <3>2. image \in Seq(R)
        BY <1>1, <3>1, Zenon
      <3>3. image[i] \in R
        BY <3>2
      <3>4. QED
        BY <3>1, <3>3, Zenon
    <2>2. image[i].vaddr + AlignUp(image[i].memsz) <= (VPages \div 2) * PAGE_SIZE
      BY <1>3, ProgramAssumption
    <2>3. QED
      BY <2>1, <2>2 DEF LowSegment
  <1>4. QED
    BY <1>2, <1>3 DEF LowSegment

\* After each segment the space of the process still joins the others.
LEMMA StepsJoin ==
    ASSUME NEW m, NEW g, NEW k, Good(m, g, k), NEW pml, NEW x, NEW gx, Joins(m, g, x, gx, k, pml),
           NEW image, NEW n \in Nat, \A i \in 1 .. n : LowSegment(image[i]),
           NEW f, LoadSteps(f, x, pml, image, n)
    PROVE  \A i \in 0 .. n : \E gi : Joins(m, g, f[i], gi, k, pml)
  <1>1. PICK S : S = {i \in 0 .. n : \E gi : Joins(m, g, f[i], gi, k, pml)}
    OBVIOUS
  <1>2. 0 \in S
    <2>1. f[0] = x
      BY Zenon DEF LoadSteps
    <2>2. QED
      BY <1>1, <2>1
  <1>3. ASSUME NEW i \in 1 .. n, i - 1 \in S PROVE i \in S
    <2>1. PICK gi : Joins(m, g, f[i - 1], gi, k, pml)
      BY <1>1, <1>3
    <2>2. f[i] = load_segment(f[i - 1], pml, image[i]) /\ LowSegment(image[i])
      BY Zenon DEF LoadSteps
    <2>3. \E g2 : Joins(m, g, f[i], g2, k, pml)
      BY <2>1, <2>2, Segment, Zenon
    <2>4. QED
      BY <1>1, <2>3
  <1>4. \A i \in 0 .. n : i \in S
    BY <1>2, <1>3, Upwards
  <1>5. QED
    BY <1>1, <1>4

\* A process is loaded beside the others.
LEMMA LoadedJoins ==
    ASSUME NEW g, NEW first, Core(mem, g, kernel, first), NEW image \in Images
    PROVE  \E g2 : Joins(mem, g, Loaded(image), g2, kernel, mem.next)
  <1>1. Good(mem, g, kernel)
    BY DEF Core
  <1>2. PICK n \in Nat : n = Len(image) /\ \A i \in 1 .. n : LowSegment(image[i])
    BY LowImage
  <1>3. PICK f : LoadSteps(f, vmm_space_create(mem), mem.next, image, n)
                 /\ Loaded(image) = task_init(f[n], mem.next)
    BY <1>2, LoadedSteps
  <1>4. PICK gx : Joins(mem, g, vmm_space_create(mem), gx, kernel, mem.next)
    BY Created, Zenon
  <1>5. \A i \in 0 .. n : \E gi : Joins(mem, g, f[i], gi, kernel, mem.next)
    BY <1>1, <1>2, <1>3, <1>4, StepsJoin, Zenon
  <1>6. n \in 0 .. n
    OBVIOUS
  <1>7. PICK gi : Joins(mem, g, f[n], gi, kernel, mem.next)
    BY <1>5, <1>6, Zenon
  <1>8. PICK x2 : x2 = Loaded(image) /\ x2 = task_init(f[n], mem.next)
    BY <1>3
  <1>9. \E g2 : Joins(mem, g, x2, g2, kernel, mem.next)
    <2>1. PICK y, pml : y = f[n] /\ pml = mem.next
      OBVIOUS
    <2>2. Joins(mem, g, y, gi, kernel, pml) /\ x2 = task_init(y, pml)
      BY <1>7, <1>8, <2>1, Zenon
    <2>3. \E g2 : \E z \in Nat : Joins(mem, g, x2, g2, kernel, pml)
      BY ONLY <1>1, <2>2, Stack
    <2>4. QED
      BY <2>1, <2>3, Zenon
  <1>10. QED
    BY <1>8, <1>9, Zenon

-----------------------------------------------------------------------------
(***************************************************************************)
(* Reading the boot loader's information.                                  *)
(***************************************************************************)
\* f goes through the first n entries of a memory map.
MmapSteps(f, x, entries, n) ==
    /\ f = [i \in 0 .. n |-> f[i]] /\ f[0] = x
    /\ \A i \in 1 .. n : f[i] = parse_mmap_entry(f[i - 1], entries[i])

\* There is such a function.
LEMMA MmapStepsExist ==
    ASSUME NEW x, NEW entries, NEW n \in Nat
    PROVE  \E f : MmapSteps(f, x, entries, n)
  <1> DEFINE S == {k \in Nat : \E f : MmapSteps(f, x, entries, k)}
  <1>1. 0 \in S
    <2>1. PICK f : f = [i \in 0 .. 0 |-> x]
      OBVIOUS
    <2>2. MmapSteps(f, x, entries, 0)
      BY <2>1 DEF MmapSteps
    <2>3. QED
      BY <2>2
  <1>2. ASSUME NEW k \in 1 .. n, k - 1 \in S PROVE k \in S
    <2>1. PICK h : MmapSteps(h, x, entries, k - 1)
      BY <1>2
    <2>2. h[0] = x /\ \A i \in 1 .. k - 1 : h[i] = parse_mmap_entry(h[i - 1], entries[i])
      BY <2>1 DEF MmapSteps
    <2>3. PICK y : y = parse_mmap_entry(h[k - 1], entries[k])
      OBVIOUS
    <2>4. PICK f : f = [i \in 0 .. k |-> IF i = k THEN y ELSE h[i]]
      OBVIOUS
    <2>5. f[k] = y /\ \A i \in 0 .. k - 1 : f[i] = h[i]
      BY <2>4
    <2>6. ASSUME NEW i \in 1 .. k PROVE f[i] = parse_mmap_entry(f[i - 1], entries[i])
      <3>1. CASE i = k
        <4>1. f[i - 1] = h[k - 1]
          BY <2>5, <3>1
        <4>2. QED
          BY <2>3, <2>5, <3>1, <4>1, Zenon
      <3>2. CASE i # k
        <4>1. i \in 1 .. k - 1 /\ f[i] = h[i] /\ f[i - 1] = h[i - 1]
          BY <2>5, <3>2
        <4>2. QED
          BY <2>2, <4>1, Zenon
      <3>3. QED
        BY <3>1, <3>2
    <2>7. f[0] = x /\ k \in Nat
      BY <2>2, <2>5
    <2>8. MmapSteps(f, x, entries, k)
      <3>1. f = [i \in 0 .. k |-> f[i]]
        BY <2>4
      <3>2. QED
        BY <2>6, <2>7, <3>1, Zenon DEF MmapSteps
    <2>9. QED
      BY <2>7, <2>8
  <1>3. \A k \in 0 .. n : k \in S
    <2> HIDE DEF S
    <2>1. QED
      BY <1>1, <1>2, Upwards
  <1>4. n \in S
    BY <1>3
  <1>5. QED
    BY <1>4

\* f goes through the first n modules.
ModuleSteps(f, x, mods, n) ==
    /\ f = [i \in 0 .. n |-> f[i]] /\ f[0] = x
    /\ \A i \in 1 .. n : f[i] = parse_module_entry(f[i - 1], mods[i])

\* There is such a function.
LEMMA ModuleStepsExist ==
    ASSUME NEW x, NEW mods, NEW n \in Nat
    PROVE  \E f : ModuleSteps(f, x, mods, n)
  <1> DEFINE S == {k \in Nat : \E f : ModuleSteps(f, x, mods, k)}
  <1>1. 0 \in S
    <2>1. PICK f : f = [i \in 0 .. 0 |-> x]
      OBVIOUS
    <2>2. ModuleSteps(f, x, mods, 0)
      BY <2>1 DEF ModuleSteps
    <2>3. QED
      BY <2>2
  <1>2. ASSUME NEW k \in 1 .. n, k - 1 \in S PROVE k \in S
    <2>1. PICK h : ModuleSteps(h, x, mods, k - 1)
      BY <1>2
    <2>2. h[0] = x /\ \A i \in 1 .. k - 1 : h[i] = parse_module_entry(h[i - 1], mods[i])
      BY <2>1 DEF ModuleSteps
    <2>3. PICK y : y = parse_module_entry(h[k - 1], mods[k])
      OBVIOUS
    <2>4. PICK f : f = [i \in 0 .. k |-> IF i = k THEN y ELSE h[i]]
      OBVIOUS
    <2>5. f[k] = y /\ \A i \in 0 .. k - 1 : f[i] = h[i]
      BY <2>4
    <2>6. ASSUME NEW i \in 1 .. k PROVE f[i] = parse_module_entry(f[i - 1], mods[i])
      <3>1. CASE i = k
        <4>1. f[i - 1] = h[k - 1]
          BY <2>5, <3>1
        <4>2. QED
          BY <2>3, <2>5, <3>1, <4>1, Zenon
      <3>2. CASE i # k
        <4>1. i \in 1 .. k - 1 /\ f[i] = h[i] /\ f[i - 1] = h[i - 1]
          BY <2>5, <3>2
        <4>2. QED
          BY <2>2, <4>1, Zenon
      <3>3. QED
        BY <3>1, <3>2
    <2>7. f[0] = x /\ k \in Nat
      BY <2>2, <2>5
    <2>8. ModuleSteps(f, x, mods, k)
      <3>1. f = [i \in 0 .. k |-> f[i]]
        BY <2>4
      <3>2. QED
        BY <2>6, <2>7, <3>1, Zenon DEF ModuleSteps
    <2>9. QED
      BY <2>7, <2>8
  <1>3. \A k \in 0 .. n : k \in S
    <2> HIDE DEF S
    <2>1. QED
      BY <1>1, <1>2, Upwards
  <1>4. n \in S
    BY <1>3
  <1>5. QED
    BY <1>4

\* f goes through the first n tags.
TagSteps(f, x, tags, n) ==
    /\ f = [i \in 0 .. n |-> f[i]] /\ f[0] = x
    /\ \A i \in 1 .. n : f[i] = parse_tag(f[i - 1], tags[i])

\* There is such a function.
LEMMA TagStepsExist ==
    ASSUME NEW x, NEW tags, NEW n \in Nat
    PROVE  \E f : TagSteps(f, x, tags, n)
  <1> DEFINE S == {k \in Nat : \E f : TagSteps(f, x, tags, k)}
  <1>1. 0 \in S
    <2>1. PICK f : f = [i \in 0 .. 0 |-> x]
      OBVIOUS
    <2>2. TagSteps(f, x, tags, 0)
      BY <2>1 DEF TagSteps
    <2>3. QED
      BY <2>2
  <1>2. ASSUME NEW k \in 1 .. n, k - 1 \in S PROVE k \in S
    <2>1. PICK h : TagSteps(h, x, tags, k - 1)
      BY <1>2
    <2>2. h[0] = x /\ \A i \in 1 .. k - 1 : h[i] = parse_tag(h[i - 1], tags[i])
      BY <2>1 DEF TagSteps
    <2>3. PICK y : y = parse_tag(h[k - 1], tags[k])
      OBVIOUS
    <2>4. PICK f : f = [i \in 0 .. k |-> IF i = k THEN y ELSE h[i]]
      OBVIOUS
    <2>5. f[k] = y /\ \A i \in 0 .. k - 1 : f[i] = h[i]
      BY <2>4
    <2>6. ASSUME NEW i \in 1 .. k PROVE f[i] = parse_tag(f[i - 1], tags[i])
      <3>1. CASE i = k
        <4>1. f[i - 1] = h[k - 1]
          BY <2>5, <3>1
        <4>2. QED
          BY <2>3, <2>5, <3>1, <4>1, Zenon
      <3>2. CASE i # k
        <4>1. i \in 1 .. k - 1 /\ f[i] = h[i] /\ f[i - 1] = h[i - 1]
          BY <2>5, <3>2
        <4>2. QED
          BY <2>2, <4>1, Zenon
      <3>3. QED
        BY <3>1, <3>2
    <2>7. f[0] = x /\ k \in Nat
      BY <2>2, <2>5
    <2>8. TagSteps(f, x, tags, k)
      <3>1. f = [i \in 0 .. k |-> f[i]]
        BY <2>4
      <3>2. QED
        BY <2>6, <2>7, <3>1, Zenon DEF TagSteps
    <2>9. QED
      BY <2>7, <2>8
  <1>3. \A k \in 0 .. n : k \in S
    <2> HIDE DEF S
    <2>1. QED
      BY <1>1, <1>2, Upwards
  <1>4. n \in S
    BY <1>3
  <1>5. QED
    BY <1>4

\* parse_mmap goes through the entries, then counts pages.
LEMMA ParsedMmap ==
    ASSUME NEW this, NEW entries, Len(entries) \in Nat
    PROVE  \E f : /\ MmapSteps(f, this, entries, Len(entries))
                  /\ parse_mmap(this, entries) = [f[Len(entries)] EXCEPT !.usable_pages = f[Len(entries)].memory_usable \div PAGE_SIZE]
  <1>1. PICK x : x = this
    OBVIOUS
  <1>2. PICK n \in Nat : n = Len(entries)
    OBVIOUS
  <1> DEFINE body(h) == [i \in 0 .. n |-> IF i = 0 THEN x ELSE parse_mmap_entry(h[i - 1], entries[i])]
  <1>3. PICK f : f = CHOOSE h : h = body(h)
    OBVIOUS
  <1>4. parse_mmap(this, entries) = [f[n] EXCEPT !.usable_pages = f[n].memory_usable \div PAGE_SIZE]
    BY <1>1, <1>2, <1>3 DEF parse_mmap
  <1>5. \E h : h = body(h)
    <2>1. PICK h : MmapSteps(h, x, entries, n)
      BY MmapStepsExist, Zenon
    <2>2. h = [i \in 0 .. n |-> h[i]] /\ h[0] = x
      BY <2>1 DEF MmapSteps
    <2>3. ASSUME NEW i \in 0 .. n PROVE h[i] = body(h)[i]
      <3>1. CASE i = 0
        BY <2>2, <3>1
      <3>2. CASE i # 0
        <4>1. i \in 1 .. n
          BY <3>2
        <4>2. h[i] = parse_mmap_entry(h[i - 1], entries[i])
          BY <2>1, <4>1, Zenon DEF MmapSteps
        <4>3. QED
          BY <3>2, <4>2
      <3>3. QED
        BY <3>1, <3>2
    <2>4. QED
      BY <2>2, <2>3
  <1>6. f = body(f)
    BY <1>3, <1>5
  <1>7. f = [i \in 0 .. n |-> f[i]] /\ f[0] = x
    BY <1>6
  <1>8. ASSUME NEW i \in 1 .. n PROVE f[i] = parse_mmap_entry(f[i - 1], entries[i])
    <2>1. i \in 0 .. n /\ i # 0
      OBVIOUS
    <2>2. body(f)[i] = parse_mmap_entry(f[i - 1], entries[i])
      BY <2>1
    <2>3. QED
      BY <1>6, <2>2, Zenon
  <1>9. MmapSteps(f, x, entries, n)
    BY <1>7, <1>8, Zenon DEF MmapSteps
  <1>10. QED
    BY <1>1, <1>2, <1>4, <1>9, Zenon

\* parse_module goes through the modules.
LEMMA ParsedModules ==
    ASSUME NEW this, NEW mods, Len(mods) \in Nat
    PROVE  \E f : /\ ModuleSteps(f, this, mods, Len(mods))
                  /\ parse_module(this, mods) = f[Len(mods)]
  <1>1. PICK x : x = this
    OBVIOUS
  <1>2. PICK n \in Nat : n = Len(mods)
    OBVIOUS
  <1> DEFINE body(h) == [i \in 0 .. n |-> IF i = 0 THEN x ELSE parse_module_entry(h[i - 1], mods[i])]
  <1>3. PICK f : f = CHOOSE h : h = body(h)
    OBVIOUS
  <1>4. parse_module(this, mods) = f[n]
    BY <1>1, <1>2, <1>3 DEF parse_module
  <1>5. \E h : h = body(h)
    <2>1. PICK h : ModuleSteps(h, x, mods, n)
      BY ModuleStepsExist, Zenon
    <2>2. h = [i \in 0 .. n |-> h[i]] /\ h[0] = x
      BY <2>1 DEF ModuleSteps
    <2>3. ASSUME NEW i \in 0 .. n PROVE h[i] = body(h)[i]
      <3>1. CASE i = 0
        BY <2>2, <3>1
      <3>2. CASE i # 0
        <4>1. i \in 1 .. n
          BY <3>2
        <4>2. h[i] = parse_module_entry(h[i - 1], mods[i])
          BY <2>1, <4>1, Zenon DEF ModuleSteps
        <4>3. QED
          BY <3>2, <4>2
      <3>3. QED
        BY <3>1, <3>2
    <2>4. QED
      BY <2>2, <2>3
  <1>6. f = body(f)
    BY <1>3, <1>5
  <1>7. f = [i \in 0 .. n |-> f[i]] /\ f[0] = x
    BY <1>6
  <1>8. ASSUME NEW i \in 1 .. n PROVE f[i] = parse_module_entry(f[i - 1], mods[i])
    <2>1. i \in 0 .. n /\ i # 0
      OBVIOUS
    <2>2. body(f)[i] = parse_module_entry(f[i - 1], mods[i])
      BY <2>1
    <2>3. QED
      BY <1>6, <2>2, Zenon
  <1>9. ModuleSteps(f, x, mods, n)
    BY <1>7, <1>8, Zenon DEF ModuleSteps
  <1>10. QED
    BY <1>1, <1>2, <1>4, <1>9, Zenon

\* stivale2_parse_header goes through the tags.
LEMMA ParsedTags ==
    ASSUME NEW tags, Len(tags) \in Nat
    PROVE  \E f : /\ TagSteps(f, EmptyHandover, tags, Len(tags))
                  /\ stivale2_parse_header(tags) = f[Len(tags)]
  <1>1. PICK x : x = EmptyHandover
    OBVIOUS
  <1>2. PICK n \in Nat : n = Len(tags)
    OBVIOUS
  <1> DEFINE body(h) == [i \in 0 .. n |-> IF i = 0 THEN x ELSE parse_tag(h[i - 1], tags[i])]
  <1>3. PICK f : f = CHOOSE h : h = body(h)
    OBVIOUS
  <1>4. stivale2_parse_header(tags) = f[n]
    BY <1>1, <1>2, <1>3 DEF stivale2_parse_header
  <1>5. \E h : h = body(h)
    <2>1. PICK h : TagSteps(h, x, tags, n)
      BY TagStepsExist, Zenon
    <2>2. h = [i \in 0 .. n |-> h[i]] /\ h[0] = x
      BY <2>1 DEF TagSteps
    <2>3. ASSUME NEW i \in 0 .. n PROVE h[i] = body(h)[i]
      <3>1. CASE i = 0
        BY <2>2, <3>1
      <3>2. CASE i # 0
        <4>1. i \in 1 .. n
          BY <3>2
        <4>2. h[i] = parse_tag(h[i - 1], tags[i])
          BY <2>1, <4>1, Zenon DEF TagSteps
        <4>3. QED
          BY <3>2, <4>2
      <3>3. QED
        BY <3>1, <3>2
    <2>4. QED
      BY <2>2, <2>3
  <1>6. f = body(f)
    BY <1>3, <1>5
  <1>7. f = [i \in 0 .. n |-> f[i]] /\ f[0] = x
    BY <1>6
  <1>8. ASSUME NEW i \in 1 .. n PROVE f[i] = parse_tag(f[i - 1], tags[i])
    <2>1. i \in 0 .. n /\ i # 0
      OBVIOUS
    <2>2. body(f)[i] = parse_tag(f[i - 1], tags[i])
      BY <2>1
    <2>3. QED
      BY <1>6, <2>2, Zenon
  <1>9. TagSteps(f, x, tags, n)
    BY <1>7, <1>8, Zenon DEF TagSteps
  <1>10. QED
    BY <1>1, <1>2, <1>4, <1>9, Zenon

-----------------------------------------------------------------------------
\* What may be found in a char array.
Chars == STRING \cup {NUL, "past the end"}

HandoverModules == [name : [1 .. NAME_SIZE -> Chars], addr : [base : Nat, length : Int]]

HandoverMmap == [base : Nat, length : Nat, type : STRING, is_free : BOOLEAN]

Handovers ==
    [memory_usable : Nat, usable_pages : Nat, mmap : Seq(HandoverMmap), modules : Seq(HandoverModules),
     rsdt : STRING \cup {"none"}, framebuffer : STRING \cup {"none"}, overrun : BOOLEAN]

\* What is in the handover after some of the memory map and of the modules.
HoldsMap(h, map) ==
    /\ Len(h.mmap) = Len(map)
    /\ \A i \in 1 .. Len(map) : /\ h.mmap[i].base = map[i].base
                                /\ h.mmap[i].length = map[i].length
                                /\ h.mmap[i].type = map[i].type
    /\ h.memory_usable = UsableBytes(map)

HoldsModules(h, mods) ==
    /\ Len(h.modules) = Len(mods)
    /\ \A i \in 1 .. Len(mods) :
         /\ h.modules[i].name = ModuleName(mods[i].string, mods[i].stack)
         /\ h.modules[i].addr = range_t(mods[i].begin, mods[i].end - mods[i].begin)

Holds(h, map, mods) ==
    h \in Handovers /\ (~h.overrun => HoldsMap(h, map) /\ HoldsModules(h, mods))

\* A name in its array.
LEMMA NameTyped ==
    ASSUME NEW m \in ModuleEntries
    PROVE  ModuleName(m.string, m.stack) \in [1 .. NAME_SIZE -> Chars]
  <1>1. m.string \in Seq(STRING \ {NUL}) /\ m.stack \in [1 .. NAME_SIZE -> STRING]
    BY DEF ModuleEntries
  <1>2. NAME_SIZE \in Nat /\ NAME_CLEARED \in Nat
    BY NameAssumption
  <1>3. ASSUME NEW i \in 1 .. NAME_SIZE
        PROVE  (IF i <= Len(m.string) THEN m.string[i] ELSE IF i <= NAME_CLEARED THEN NUL ELSE m.stack[i]) \in Chars
    <2>1. Len(m.string) \in Nat
      BY <1>1
    <2>2. CASE i <= Len(m.string)
      <3>1. m.string[i] \in STRING \ {NUL}
        BY <1>1, <1>2, <2>1, <2>2
      <3>2. QED
        BY <2>2, <3>1 DEF Chars
    <2>3. CASE ~(i <= Len(m.string))
      BY <1>1, <2>3 DEF Chars
    <2>4. QED
      BY <2>2, <2>3
  <1>4. QED
    BY <1>3 DEF ModuleName

\* f adds up the usable memory of the first n entries.
PlusSteps(f, x, map, n) ==
    /\ f = [i \in 0 .. n |-> f[i]] /\ f[0] = x
    /\ \A i \in 1 .. n : f[i] = Plus(f[i - 1], map[i])

\* There is such a function.
LEMMA PlusStepsExist ==
    ASSUME NEW x, NEW map, NEW n \in Nat
    PROVE  \E f : PlusSteps(f, x, map, n)
  <1> DEFINE S == {k \in Nat : \E f : PlusSteps(f, x, map, k)}
  <1>1. 0 \in S
    <2>1. PICK f : f = [i \in 0 .. 0 |-> x]
      OBVIOUS
    <2>2. PlusSteps(f, x, map, 0)
      BY <2>1 DEF PlusSteps
    <2>3. QED
      BY <2>2
  <1>2. ASSUME NEW k \in 1 .. n, k - 1 \in S PROVE k \in S
    <2>1. PICK h : PlusSteps(h, x, map, k - 1)
      BY <1>2
    <2>2. h[0] = x /\ \A i \in 1 .. k - 1 : h[i] = Plus(h[i - 1], map[i])
      BY <2>1 DEF PlusSteps
    <2>3. PICK y : y = Plus(h[k - 1], map[k])
      OBVIOUS
    <2>4. PICK f : f = [i \in 0 .. k |-> IF i = k THEN y ELSE h[i]]
      OBVIOUS
    <2>5. f[k] = y /\ \A i \in 0 .. k - 1 : f[i] = h[i]
      BY <2>4
    <2>6. ASSUME NEW i \in 1 .. k PROVE f[i] = Plus(f[i - 1], map[i])
      <3>1. CASE i = k
        <4>1. f[i - 1] = h[k - 1]
          BY <2>5, <3>1
        <4>2. QED
          BY <2>3, <2>5, <3>1, <4>1, Zenon
      <3>2. CASE i # k
        <4>1. i \in 1 .. k - 1 /\ f[i] = h[i] /\ f[i - 1] = h[i - 1]
          BY <2>5, <3>2
        <4>2. QED
          BY <2>2, <4>1, Zenon
      <3>3. QED
        BY <3>1, <3>2
    <2>7. f[0] = x /\ k \in Nat
      BY <2>2, <2>5
    <2>8. PlusSteps(f, x, map, k)
      <3>1. f = [i \in 0 .. k |-> f[i]]
        BY <2>4
      <3>2. QED
        BY <2>6, <2>7, <3>1, Zenon DEF PlusSteps
    <2>9. QED
      BY <2>7, <2>8
  <1>3. \A k \in 0 .. n : k \in S
    <2> HIDE DEF S
    <2>1. QED
      BY <1>1, <1>2, Upwards
  <1>4. n \in S
    BY <1>3
  <1>5. QED
    BY <1>4

\* UsableBytes goes through the entries.
LEMMA UsableSteps ==
    ASSUME NEW map, Len(map) \in Nat
    PROVE  \E f : /\ PlusSteps(f, 0, map, Len(map))
                  /\ UsableBytes(map) = f[Len(map)]
  <1>1. PICK x : x = 0
    OBVIOUS
  <1>2. PICK n \in Nat : n = Len(map)
    OBVIOUS
  <1> DEFINE body(h) == [i \in 0 .. n |-> IF i = 0 THEN x ELSE Plus(h[i - 1], map[i])]
  <1>3. PICK f : f = CHOOSE h : h = body(h)
    OBVIOUS
  <1>4. UsableBytes(map) = f[n]
    BY <1>1, <1>2, <1>3 DEF UsableBytes
  <1>5. \E h : h = body(h)
    <2>1. PICK h : PlusSteps(h, x, map, n)
      BY PlusStepsExist, Zenon
    <2>2. h = [i \in 0 .. n |-> h[i]] /\ h[0] = x
      BY <2>1 DEF PlusSteps
    <2>3. ASSUME NEW i \in 0 .. n PROVE h[i] = body(h)[i]
      <3>1. CASE i = 0
        BY <2>2, <3>1
      <3>2. CASE i # 0
        <4>1. i \in 1 .. n
          BY <3>2
        <4>2. h[i] = Plus(h[i - 1], map[i])
          BY <2>1, <4>1, Zenon DEF PlusSteps
        <4>3. QED
          BY <3>2, <4>2
      <3>3. QED
        BY <3>1, <3>2
    <2>4. QED
      BY <2>2, <2>3
  <1>6. f = body(f)
    BY <1>3, <1>5
  <1>7. f = [i \in 0 .. n |-> f[i]] /\ f[0] = x
    BY <1>6
  <1>8. ASSUME NEW i \in 1 .. n PROVE f[i] = Plus(f[i - 1], map[i])
    <2>1. i \in 0 .. n /\ i # 0
      OBVIOUS
    <2>2. body(f)[i] = Plus(f[i - 1], map[i])
      BY <2>1
    <2>3. QED
      BY <1>6, <2>2, Zenon
  <1>9. PlusSteps(f, x, map, n)
    BY <1>7, <1>8, Zenon DEF PlusSteps
  <1>10. QED
    BY <1>1, <1>2, <1>4, <1>9, Zenon

\* f lists what is under a kind of tag in the first n tags.
WithSteps(id, f, x, tags, n) ==
    /\ f = [i \in 0 .. n |-> f[i]] /\ f[0] = x
    /\ \A i \in 1 .. n : f[i] = With(id, f[i - 1], tags[i])

\* There is such a function.
LEMMA WithStepsExist ==
    ASSUME NEW id, NEW x, NEW tags, NEW n \in Nat
    PROVE  \E f : WithSteps(id, f, x, tags, n)
  <1> DEFINE S == {k \in Nat : \E f : WithSteps(id, f, x, tags, k)}
  <1>1. 0 \in S
    <2>1. PICK f : f = [i \in 0 .. 0 |-> x]
      OBVIOUS
    <2>2. WithSteps(id, f, x, tags, 0)
      BY <2>1 DEF WithSteps
    <2>3. QED
      BY <2>2
  <1>2. ASSUME NEW k \in 1 .. n, k - 1 \in S PROVE k \in S
    <2>1. PICK h : WithSteps(id, h, x, tags, k - 1)
      BY <1>2
    <2>2. h[0] = x /\ \A i \in 1 .. k - 1 : h[i] = With(id, h[i - 1], tags[i])
      BY <2>1 DEF WithSteps
    <2>3. PICK y : y = With(id, h[k - 1], tags[k])
      OBVIOUS
    <2>4. PICK f : f = [i \in 0 .. k |-> IF i = k THEN y ELSE h[i]]
      OBVIOUS
    <2>5. f[k] = y /\ \A i \in 0 .. k - 1 : f[i] = h[i]
      BY <2>4
    <2>6. ASSUME NEW i \in 1 .. k PROVE f[i] = With(id, f[i - 1], tags[i])
      <3>1. CASE i = k
        <4>1. f[i - 1] = h[k - 1]
          BY <2>5, <3>1
        <4>2. QED
          BY <2>3, <2>5, <3>1, <4>1, Zenon
      <3>2. CASE i # k
        <4>1. i \in 1 .. k - 1 /\ f[i] = h[i] /\ f[i - 1] = h[i - 1]
          BY <2>5, <3>2
        <4>2. QED
          BY <2>2, <4>1, Zenon
      <3>3. QED
        BY <3>1, <3>2
    <2>7. f[0] = x /\ k \in Nat
      BY <2>2, <2>5
    <2>8. WithSteps(id, f, x, tags, k)
      <3>1. f = [i \in 0 .. k |-> f[i]]
        BY <2>4
      <3>2. QED
        BY <2>6, <2>7, <3>1, Zenon DEF WithSteps
    <2>9. QED
      BY <2>7, <2>8
  <1>3. \A k \in 0 .. n : k \in S
    <2> HIDE DEF S
    <2>1. QED
      BY <1>1, <1>2, Upwards
  <1>4. n \in S
    BY <1>3
  <1>5. QED
    BY <1>4

\* Listed goes through the tags.
LEMMA ListedSteps ==
    ASSUME NEW id, NEW tags, Len(tags) \in Nat
    PROVE  \E f : /\ WithSteps(id, f, << >>, tags, Len(tags))
                  /\ Listed(id, tags) = f[Len(tags)]
  <1>1. PICK x : x = << >>
    OBVIOUS
  <1>2. PICK n \in Nat : n = Len(tags)
    OBVIOUS
  <1> DEFINE body(h) == [i \in 0 .. n |-> IF i = 0 THEN x ELSE With(id, h[i - 1], tags[i])]
  <1>3. PICK f : f = CHOOSE h : h = body(h)
    OBVIOUS
  <1>4. Listed(id, tags) = f[n]
    BY <1>1, <1>2, <1>3 DEF Listed
  <1>5. \E h : h = body(h)
    <2>1. PICK h : WithSteps(id, h, x, tags, n)
      BY WithStepsExist, Zenon
    <2>2. h = [i \in 0 .. n |-> h[i]] /\ h[0] = x
      BY <2>1 DEF WithSteps
    <2>3. ASSUME NEW i \in 0 .. n PROVE h[i] = body(h)[i]
      <3>1. CASE i = 0
        BY <2>2, <3>1
      <3>2. CASE i # 0
        <4>1. i \in 1 .. n
          BY <3>2
        <4>2. h[i] = With(id, h[i - 1], tags[i])
          BY <2>1, <4>1, Zenon DEF WithSteps
        <4>3. QED
          BY <3>2, <4>2
      <3>3. QED
        BY <3>1, <3>2
    <2>4. QED
      BY <2>2, <2>3
  <1>6. f = body(f)
    BY <1>3, <1>5
  <1>7. f = [i \in 0 .. n |-> f[i]] /\ f[0] = x
    BY <1>6
  <1>8. ASSUME NEW i \in 1 .. n PROVE f[i] = With(id, f[i - 1], tags[i])
    <2>1. i \in 0 .. n /\ i # 0
      OBVIOUS
    <2>2. body(f)[i] = With(id, f[i - 1], tags[i])
      BY <2>1
    <2>3. QED
      BY <1>6, <2>2, Zenon
  <1>9. WithSteps(id, f, x, tags, n)
    BY <1>7, <1>8, Zenon DEF WithSteps
  <1>10. QED
    BY <1>1, <1>2, <1>4, <1>9, Zenon

\* What two maps have in common they add up to.
LEMMA PlusAgrees ==
    ASSUME NEW f, NEW g, NEW map, NEW more, NEW n \in Nat, NEW k \in Nat, n <= k,
           PlusSteps(f, 0, map, n), PlusSteps(g, 0, more, k),
           \A i \in 1 .. n : more[i] = map[i]
    PROVE  f[n] = g[n]
  <1> DEFINE S == {i \in Nat : i <= n => f[i] = g[i]}
  <1>1. 0 \in S
    BY DEF PlusSteps
  <1>2. ASSUME NEW i \in 1 .. n, i - 1 \in S PROVE i \in S
    <2>1. f[i - 1] = g[i - 1] /\ i \in 1 .. k /\ i \in Nat /\ more[i] = map[i]
      BY <1>2
    <2>2. f[i] = Plus(f[i - 1], map[i]) /\ g[i] = Plus(g[i - 1], more[i])
      BY <2>1, Zenon DEF PlusSteps
    <2>3. f[i] = g[i]
      BY <2>1, <2>2, Zenon
    <2>4. QED
      BY <2>1, <2>3
  <1>3. \A i \in 0 .. n : i \in S
    <2> HIDE DEF S
    <2>1. QED
      BY <1>1, <1>2, Upwards
  <1>4. QED
    BY <1>3

\* An empty memory map has no usable bytes.
LEMMA UsableOfNone == UsableBytes(<< >>) = 0
  <1>1. PICK s : s = << >>
    OBVIOUS
  <1>2. Len(s) = 0
    BY <1>1
  <1>3. PICK f : PlusSteps(f, 0, s, Len(s)) /\ UsableBytes(s) = f[Len(s)]
    BY <1>2, UsableSteps
  <1>4. f[0] = 0
    BY <1>3 DEF PlusSteps
  <1>5. QED
    BY <1>1, <1>2, <1>3, <1>4

\* An entry more adds its bytes if it is usable.
LEMMA UsableOfMore ==
    ASSUME NEW map \in Seq(MapEntries), NEW more \in Seq(MapEntries), Len(more) = Len(map) + 1,
           \A i \in 1 .. Len(map) : more[i] = map[i]
    PROVE  UsableBytes(more) = Plus(UsableBytes(map), more[Len(more)])
  <1>1. PICK n \in Nat : n = Len(map)
    OBVIOUS
  <1>2. Len(more) \in Nat /\ Len(more) = n + 1 /\ n + 1 \in 1 .. n + 1 /\ n + 1 - 1 = n /\ n + 1 \in Nat
        /\ n <= n + 1 /\ Len(map) \in Nat
    BY <1>1
  <1>3. PICK f : PlusSteps(f, 0, map, Len(map)) /\ UsableBytes(map) = f[Len(map)]
    BY <1>2, UsableSteps, Zenon
  <1>4. PICK g : PlusSteps(g, 0, more, Len(more)) /\ UsableBytes(more) = g[Len(more)]
    BY <1>2, UsableSteps, Zenon
  <1>5. PlusSteps(f, 0, map, n) /\ PlusSteps(g, 0, more, n + 1) /\ UsableBytes(map) = f[n] /\ UsableBytes(more) = g[n + 1]
    BY <1>1, <1>2, <1>3, <1>4
  <1>6. \A i \in 1 .. n : more[i] = map[i]
    BY <1>1
  <1>7. f[n] = g[n]
    BY <1>2, <1>5, <1>6, PlusAgrees, ZenonT(60)
  <1>8. \A i \in 1 .. n + 1 : g[i] = Plus(g[i - 1], more[i])
    BY <1>5, Zenon DEF PlusSteps
  <1>9. g[n + 1] = Plus(g[n], more[n + 1])
    BY <1>2, <1>8
  <1>10. QED
    BY <1>2, <1>5, <1>7, <1>9

\* An entry of the memory map is appended, or the array is overrun.
LEMMA EntryHolds ==
    ASSUME NEW h, NEW map \in Seq(MapEntries), NEW mods, NEW e \in MapEntries, Holds(h, map, mods)
    PROVE  Holds(parse_mmap_entry(h, e), Append(map, e), mods)
  <1>1. h \in Handovers
    BY DEF Holds
  <1>2. PICK u \in Nat, w \in Nat, mm \in Seq(HandoverMmap), mo \in Seq(HandoverModules),
             r \in STRING \cup {"none"}, fb \in STRING \cup {"none"}, o \in BOOLEAN :
          h = [memory_usable |-> u, usable_pages |-> w, mmap |-> mm, modules |-> mo,
               rsdt |-> r, framebuffer |-> fb, overrun |-> o]
    BY <1>1 DEF Handovers
  <1>3. e.base \in Nat /\ e.length \in Nat /\ e.type \in STRING
    BY DEF MapEntries
  <1>4. CASE Len(h.mmap) = LIMIT_MEMORY_MAP_SIZE
    <2>1. PICK x : x = [memory_usable |-> u, usable_pages |-> w, mmap |-> mm, modules |-> mo,
                        rsdt |-> r, framebuffer |-> fb, overrun |-> TRUE]
      OBVIOUS
    <2>2. parse_mmap_entry(h, e) = x
      <3>1. parse_mmap_entry(h, e) = [h EXCEPT !.overrun = TRUE]
        BY <1>4, Zenon DEF parse_mmap_entry
      <3>2. QED
        BY <1>2, <2>1, <3>1
    <2>3. x \in Handovers /\ x.overrun
      BY <2>1 DEF Handovers
    <2>4. QED
      BY <2>2, <2>3, Zenon DEF Holds
  <1>5. CASE Len(h.mmap) # LIMIT_MEMORY_MAP_SIZE
    <2>1. PICK free \in BOOLEAN : free = (e.type = "usable")
      OBVIOUS
    <2>2. PICK v : v = [base |-> e.base, length |-> e.length, type |-> e.type, is_free |-> free]
      OBVIOUS
    <2>3. v \in HandoverMmap /\ v.base = e.base /\ v.length = e.length /\ v.type = e.type
      BY <1>3, <2>2 DEF HandoverMmap
    <2>4. PICK u2 \in Nat : u2 = u + (IF e.type = "usable" THEN e.length ELSE 0)
      BY <1>3
    <2>5. PICK mm2 \in Seq(HandoverMmap) : mm2 = Append(mm, v)
      <3>1. Append(mm, v) \in Seq(HandoverMmap)
        BY <2>3
      <3>2. QED
        BY <3>1, Zenon
    <2>6. PICK x : x = [memory_usable |-> u2, usable_pages |-> w, mmap |-> mm2, modules |-> mo,
                        rsdt |-> r, framebuffer |-> fb, overrun |-> o]
      OBVIOUS
    <2>7. parse_mmap_entry(h, e) = x
      <3>1. v = [base |-> e.base, length |-> e.length, type |-> e.type, is_free |-> e.type = "usable"]
        BY <2>1, <2>2, Zenon
      <3>2. parse_mmap_entry(h, e) =
              [h EXCEPT !.mmap = Append(@, v), !.memory_usable = @ + (IF e.type = "usable" THEN e.length ELSE 0)]
        BY <1>5, <3>1, Zenon DEF parse_mmap_entry
      <3>3. QED
        BY <1>2, <2>4, <2>5, <2>6, <3>2
    <2>8. x \in Handovers
      BY <2>6 DEF Handovers
    <2>9. ASSUME ~o PROVE HoldsMap(x, Append(map, e)) /\ HoldsModules(x, mods)
      <3>1. HoldsMap(h, map) /\ HoldsModules(h, mods)
        BY <1>2, <2>9 DEF Holds
      <3>2. x.modules = h.modules /\ x.mmap = Append(h.mmap, v) /\ h.mmap \in Seq(HandoverMmap)
        BY <1>2, <2>5, <2>6
      <3>3. HoldsModules(x, mods)
        BY <3>1, <3>2, Zenon DEF HoldsModules
      <3>4. Len(h.mmap) = Len(map) /\ h.memory_usable = UsableBytes(map)
        BY <3>1 DEF HoldsMap
      <3>5. PICK more \in Seq(MapEntries) : more = Append(map, e)
        <4>1. Append(map, e) \in Seq(MapEntries)
          OBVIOUS
        <4>2. QED
          BY <4>1, Zenon
      <3>6. Len(more) = Len(map) + 1 /\ more[Len(more)] = e /\ \A i \in 1 .. Len(map) : more[i] = map[i]
        BY <3>5
      <3>7. UsableBytes(more) = Plus(UsableBytes(map), e)
        BY <3>6, UsableOfMore
      <3>8. x.memory_usable = UsableBytes(more)
        <4>1. u = UsableBytes(map)
          BY <1>2, <3>4
        <4>2. u2 = Plus(u, e)
          BY <2>4 DEF Plus
        <4>3. QED
          BY <2>6, <3>7, <4>1, <4>2
      <3>9. Len(x.mmap) = Len(more)
        BY <3>2, <3>4, <3>6
      <3>10. ASSUME NEW i \in 1 .. Len(more)
             PROVE  x.mmap[i].base = more[i].base /\ x.mmap[i].length = more[i].length /\ x.mmap[i].type = more[i].type
        <4>1. Len(more) \in Nat /\ Len(map) \in Nat
          OBVIOUS
        <4>2. CASE i = Len(more)
          <5>1. more[i] = e /\ x.mmap[i] = v
            BY <3>2, <3>4, <3>6, <4>1, <4>2
          <5>2. QED
            BY <2>3, <5>1
        <4>3. CASE i # Len(more)
          <5>1. i \in 1 .. Len(map)
            BY <3>6, <4>1, <4>3
          <5>2. more[i] = map[i] /\ x.mmap[i] = h.mmap[i]
            BY <3>2, <3>4, <3>6, <5>1
          <5>3. h.mmap[i].base = map[i].base /\ h.mmap[i].length = map[i].length /\ h.mmap[i].type = map[i].type
            BY <3>1, <5>1 DEF HoldsMap
          <5>4. QED
            BY <5>2, <5>3
        <4>4. QED
          BY <4>2, <4>3
      <3>11. HoldsMap(x, more)
        BY <3>8, <3>9, <3>10, Zenon DEF HoldsMap
      <3>12. QED
        BY <3>3, <3>5, <3>11, Zenon
    <2>10. x.overrun = o
      BY <2>6
    <2>11. QED
      BY <2>7, <2>8, <2>9, <2>10, Zenon DEF Holds
  <1>6. QED
    BY <1>4, <1>5

\* A module is appended, or the array is overrun.
LEMMA ModuleHolds ==
    ASSUME NEW h, NEW map, NEW mods \in Seq(ModuleEntries), NEW m \in ModuleEntries, Holds(h, map, mods)
    PROVE  Holds(parse_module_entry(h, m), map, Append(mods, m))
  <1>1. h \in Handovers
    BY DEF Holds
  <1>2. PICK u \in Nat, w \in Nat, mm \in Seq(HandoverMmap), mo \in Seq(HandoverModules),
             r \in STRING \cup {"none"}, fb \in STRING \cup {"none"}, o \in BOOLEAN :
          h = [memory_usable |-> u, usable_pages |-> w, mmap |-> mm, modules |-> mo,
               rsdt |-> r, framebuffer |-> fb, overrun |-> o]
    BY <1>1 DEF Handovers
  <1>3. CASE Len(h.modules) = LIMIT_MODULES
    <2>1. PICK x : x = [memory_usable |-> u, usable_pages |-> w, mmap |-> mm, modules |-> mo,
                        rsdt |-> r, framebuffer |-> fb, overrun |-> TRUE]
      OBVIOUS
    <2>2. parse_module_entry(h, m) = x
      <3>1. parse_module_entry(h, m) = [h EXCEPT !.overrun = TRUE]
        BY <1>3, Zenon DEF parse_module_entry
      <3>2. QED
        BY <1>2, <2>1, <3>1
    <2>3. x \in Handovers /\ x.overrun
      BY <2>1 DEF Handovers
    <2>4. QED
      BY <2>2, <2>3, Zenon DEF Holds
  <1>4. CASE Len(h.modules) # LIMIT_MODULES
    <2>1. PICK name \in [1 .. NAME_SIZE -> Chars] : name = ModuleName(m.string, m.stack)
      BY NameTyped
    <2>2. PICK addr : addr = range_t(m.begin, m.end - m.begin)
      OBVIOUS
    <2>3. m.begin \in Nat /\ m.end \in Nat
      BY DEF ModuleEntries
    <2>4. addr \in [base : Nat, length : Int]
      BY <2>2, <2>3 DEF range_t
    <2>5. PICK v : v = [name |-> name, addr |-> addr]
      OBVIOUS
    <2>6. v \in HandoverModules /\ v.name = name /\ v.addr = addr
      BY <2>4, <2>5 DEF HandoverModules
    <2>7. PICK mo2 \in Seq(HandoverModules) : mo2 = Append(mo, v)
      <3>1. Append(mo, v) \in Seq(HandoverModules)
        BY <2>6
      <3>2. QED
        BY <3>1, Zenon
    <2>8. PICK x : x = [memory_usable |-> u, usable_pages |-> w, mmap |-> mm, modules |-> mo2,
                        rsdt |-> r, framebuffer |-> fb, overrun |-> o]
      OBVIOUS
    <2>9. parse_module_entry(h, m) = x
      <3>1. parse_module_entry(h, m) = [h EXCEPT !.modules = Append(@, v)]
        BY <1>4, <2>1, <2>2, <2>5, Zenon DEF parse_module_entry
      <3>2. QED
        BY <1>2, <2>7, <2>8, <3>1
    <2>10. x \in Handovers
      BY <2>8 DEF Handovers
    <2>11. ASSUME ~o PROVE HoldsMap(x, map) /\ HoldsModules(x, Append(mods, m))
      <3>1. HoldsMap(h, map) /\ HoldsModules(h, mods)
        BY <1>2, <2>11 DEF Holds
      <3>2. /\ x.mmap = h.mmap /\ x.memory_usable = h.memory_usable
            /\ x.modules = Append(h.modules, v) /\ h.modules \in Seq(HandoverModules)
        BY <1>2, <2>7, <2>8
      <3>3. HoldsMap(x, map)
        BY <3>1, <3>2, Zenon DEF HoldsMap
      <3>4. Len(h.modules) = Len(mods)
        BY <3>1 DEF HoldsModules
      <3>5. PICK more \in Seq(ModuleEntries) : more = Append(mods, m)
        <4>1. Append(mods, m) \in Seq(ModuleEntries)
          OBVIOUS
        <4>2. QED
          BY <4>1, Zenon
      <3>6. Len(more) = Len(mods) + 1 /\ more[Len(more)] = m /\ \A i \in 1 .. Len(mods) : more[i] = mods[i]
        BY <3>5
      <3>7. Len(x.modules) = Len(more)
        BY <3>2, <3>4, <3>6
      <3>8. ASSUME NEW i \in 1 .. Len(more)
            PROVE  /\ x.modules[i].name = ModuleName(more[i].string, more[i].stack)
                   /\ x.modules[i].addr = range_t(more[i].begin, more[i].end - more[i].begin)
        <4>1. Len(more) \in Nat /\ Len(mods) \in Nat
          OBVIOUS
        <4>2. CASE i = Len(more)
          <5>1. more[i] = m /\ x.modules[i] = v
            BY <3>2, <3>4, <3>6, <4>1, <4>2
          <5>2. QED
            BY <2>1, <2>2, <2>6, <5>1, Zenon
        <4>3. CASE i # Len(more)
          <5>1. i \in 1 .. Len(mods)
            BY <3>6, <4>1, <4>3
          <5>2. more[i] = mods[i] /\ x.modules[i] = h.modules[i]
            BY <3>2, <3>4, <3>6, <5>1
          <5>3. /\ h.modules[i].name = ModuleName(mods[i].string, mods[i].stack)
                /\ h.modules[i].addr = range_t(mods[i].begin, mods[i].end - mods[i].begin)
            BY <3>1, <5>1, Zenon DEF HoldsModules
          <5>4. QED
            BY <5>2, <5>3, Zenon
        <4>4. QED
          BY <4>2, <4>3
      <3>9. HoldsModules(x, more)
        BY <3>7, <3>8, Zenon DEF HoldsModules
      <3>10. QED
        BY <3>3, <3>5, <3>9, Zenon
    <2>12. x.overrun = o
      BY <2>8
    <2>13. QED
      BY <2>9, <2>10, <2>11, <2>12, Zenon DEF Holds
  <1>5. QED
    BY <1>3, <1>4

-----------------------------------------------------------------------------
\* more is a list with the first k of some entries behind it.
Continues(more, list, entries, k) ==
    /\ Len(more) = Len(list) + k
    /\ \A i \in 1 .. Len(list) : more[i] = list[i]
    /\ \A j \in 1 .. k : more[Len(list) + j] = entries[j]

\* No entry has been appended.
LEMMA ContinuesNot ==
    ASSUME NEW T, NEW list \in Seq(T), NEW entries
    PROVE  Continues(list, list, entries, 0)
  BY DEF Continues

\* One more entry is appended.
LEMMA ContinuesOn ==
    ASSUME NEW T, NEW list \in Seq(T), NEW more \in Seq(T), NEW entries \in Seq(T), NEW k \in 1 .. Len(entries),
           Continues(more, list, entries, k - 1)
    PROVE  Append(more, entries[k]) \in Seq(T) /\ Continues(Append(more, entries[k]), list, entries, k)
  <1>1. PICK n \in Nat : n = Len(list)
    OBVIOUS
  <1>2. /\ Len(more) = n + (k - 1) /\ \A i \in 1 .. n : more[i] = list[i]
        /\ \A j \in 1 .. k - 1 : more[n + j] = entries[j]
    BY <1>1 DEF Continues
  <1>3. PICK e \in T : e = entries[k]
    <2>1. entries[k] \in T
      OBVIOUS
    <2>2. QED
      BY <2>1, Zenon
  <1>4. PICK a : a = Append(more, e)
    OBVIOUS
  <1>5. a \in Seq(T) /\ Len(a) = n + k /\ a[n + k] = e /\ \A i \in 1 .. n + (k - 1) : a[i] = more[i]
    BY <1>2, <1>4
  <1>6. \A i \in 1 .. n : a[i] = list[i]
    BY <1>2, <1>5
  <1>7. ASSUME NEW j \in 1 .. k PROVE a[n + j] = entries[j]
    <2>1. CASE j = k
      BY <1>3, <1>5, <2>1
    <2>2. CASE j # k
      BY <1>2, <1>5, <2>2
    <2>3. QED
      BY <2>1, <2>2
  <1>8. Continues(a, list, entries, k)
    BY <1>1, <1>5, <1>6, <1>7 DEF Continues
  <1>9. QED
    BY <1>3, <1>4, <1>5, <1>8, Zenon

\* All entries have been appended.
LEMMA ContinuesAll ==
    ASSUME NEW T, NEW list \in Seq(T), NEW more \in Seq(T), NEW entries \in Seq(T),
           Continues(more, list, entries, Len(entries))
    PROVE  more = list \o entries
  <1>1. PICK n \in Nat, k \in Nat : n = Len(list) /\ k = Len(entries)
    OBVIOUS
  <1>2. /\ Len(more) = n + k /\ \A i \in 1 .. n : more[i] = list[i]
        /\ \A j \in 1 .. k : more[n + j] = entries[j]
    BY <1>1 DEF Continues
  <1>3. PICK c : c = list \o entries
    OBVIOUS
  <1>4. c \in Seq(T) /\ Len(c) = n + k
    BY <1>1, <1>3
  <1>5. ASSUME NEW i \in 1 .. n + k PROVE more[i] = c[i]
    <2>1. CASE i <= n
      BY <1>1, <1>2, <1>3, <2>1
    <2>2. CASE ~(i <= n)
      <3>1. PICK j \in 1 .. k : i = n + j
        <4>1. i - n \in 1 .. k /\ i = n + (i - n)
          BY <2>2
        <4>2. QED
          BY <4>1, Zenon
      <3>2. more[i] = entries[j]
        BY <1>2, <3>1
      <3>3. c[i] = entries[j]
        BY <1>1, <1>3, <3>1
      <3>4. QED
        BY <3>2, <3>3
    <2>3. QED
      BY <2>1, <2>2
  <1>6. more = c
    BY <1>2, <1>4, <1>5, SeqEqual
  <1>7. QED
    BY <1>3, <1>6

\* The memory map of a tag is taken over.
LEMMA MmapHolds ==
    ASSUME NEW h, NEW map \in Seq(MapEntries), NEW mods, NEW entries \in Seq(MapEntries), Holds(h, map, mods)
    PROVE  map \o entries \in Seq(MapEntries) /\ Holds(parse_mmap(h, entries), map \o entries, mods)
  <1>1. PICK n \in Nat : n = Len(entries)
    OBVIOUS
  <1>2. PICK f : /\ MmapSteps(f, h, entries, n)
                 /\ parse_mmap(h, entries) = [f[n] EXCEPT !.usable_pages = f[n].memory_usable \div PAGE_SIZE]
    <2>1. Len(entries) \in Nat
      BY <1>1
    <2>2. QED
      BY <1>1, <2>1, ParsedMmap
  <1> DEFINE Taken(k) == \E more \in Seq(MapEntries) : Continues(more, map, entries, k) /\ Holds(f[k], more, mods)
  <1> DEFINE S == {k \in Nat : Taken(k)}
  <1>3. 0 \in S
    <2>1. f[0] = h
      BY <1>2 DEF MmapSteps
    <2>2. Continues(map, map, entries, 0)
      BY ContinuesNot
    <2>3. Taken(0)
      BY <2>1, <2>2, Zenon
    <2>4. QED
      BY <2>3
  <1>4. ASSUME NEW k \in 1 .. n, k - 1 \in S PROVE k \in S
    <2>1. PICK more \in Seq(MapEntries) : Continues(more, map, entries, k - 1) /\ Holds(f[k - 1], more, mods)
      BY <1>4
    <2>2. f[k] = parse_mmap_entry(f[k - 1], entries[k])
      BY <1>2, Zenon DEF MmapSteps
    <2>3. entries[k] \in MapEntries /\ k \in 1 .. Len(entries) /\ k \in Nat
      BY <1>1
    <2>4. Append(more, entries[k]) \in Seq(MapEntries) /\ Continues(Append(more, entries[k]), map, entries, k)
      BY <2>1, <2>3, ContinuesOn, Zenon
    <2>5. Holds(f[k], Append(more, entries[k]), mods)
      BY <2>1, <2>2, <2>3, EntryHolds, Zenon
    <2>6. Taken(k)
      BY <2>4, <2>5, Zenon
    <2>7. QED
      BY <2>3, <2>6
  <1>5. \A k \in 0 .. n : k \in S
    <2> HIDE DEF S
    <2>1. QED
      BY <1>3, <1>4, Upwards
  <1>6. n \in S
    BY <1>5
  <1>7. PICK more \in Seq(MapEntries) : Continues(more, map, entries, n) /\ Holds(f[n], more, mods)
    BY <1>6
  <1>8. more = map \o entries
    BY <1>1, <1>7, ContinuesAll
  <1>9. PICK x : x = parse_mmap(h, entries)
    OBVIOUS
  <1>10. Holds(x, more, mods)
    <2>1. f[n] \in Handovers
      BY <1>7 DEF Holds
    <2>2. PICK y : y = f[n]
      OBVIOUS
    <2>3. PICK u \in Nat, w \in Nat, mm \in Seq(HandoverMmap), mo \in Seq(HandoverModules),
               r \in STRING \cup {"none"}, fb \in STRING \cup {"none"}, o \in BOOLEAN :
            y = [memory_usable |-> u, usable_pages |-> w, mmap |-> mm, modules |-> mo,
                 rsdt |-> r, framebuffer |-> fb, overrun |-> o]
      BY <2>1, <2>2 DEF Handovers
    <2>4. PICK w2 \in Nat : w2 = u \div PAGE_SIZE
      <3>1. PICK p \in Nat \ {0} : p = PAGE_SIZE
        BY TablesAssumption
      <3>2. u \div p \in Nat
        BY SMTT(60)
      <3>3. QED
        BY <3>1, <3>2, Zenon
    <2>5. x = [memory_usable |-> u, usable_pages |-> w2, mmap |-> mm, modules |-> mo,
               rsdt |-> r, framebuffer |-> fb, overrun |-> o]
      <3>1. y.memory_usable = u
        BY <2>3
      <3>2. x = [y EXCEPT !.usable_pages = w2]
        BY <1>2, <1>9, <2>2, <2>4, <3>1, Zenon
      <3>3. QED
        BY <2>3, <3>2
    <2>6. x \in Handovers
      BY <2>5 DEF Handovers
    <2>7. /\ x.mmap = y.mmap /\ x.memory_usable = y.memory_usable /\ x.modules = y.modules
          /\ x.overrun = o /\ y.overrun = o
      BY <2>3, <2>5
    <2>8. ~o => HoldsMap(y, more) /\ HoldsModules(y, mods)
      BY <1>7, <2>2, <2>7, Zenon DEF Holds
    <2>9. ~o => HoldsMap(x, more) /\ HoldsModules(x, mods)
      BY <2>7, <2>8, Zenon DEF HoldsMap, HoldsModules
    <2>10. QED
      BY <2>6, <2>7, <2>9, Zenon DEF Holds
  <1>11. QED
    BY <1>7, <1>8, <1>9, <1>10, Zenon

\* The modules of a tag are taken over.
LEMMA ModulesHold ==
    ASSUME NEW h, NEW map, NEW mods \in Seq(ModuleEntries), NEW entries \in Seq(ModuleEntries), Holds(h, map, mods)
    PROVE  mods \o entries \in Seq(ModuleEntries) /\ Holds(parse_module(h, entries), map, mods \o entries)
  <1>1. PICK n \in Nat : n = Len(entries)
    OBVIOUS
  <1>2. PICK f : ModuleSteps(f, h, entries, n) /\ parse_module(h, entries) = f[n]
    <2>1. Len(entries) \in Nat
      BY <1>1
    <2>2. QED
      BY <1>1, <2>1, ParsedModules
  <1> DEFINE Taken(k) == \E more \in Seq(ModuleEntries) : Continues(more, mods, entries, k) /\ Holds(f[k], map, more)
  <1> DEFINE S == {k \in Nat : Taken(k)}
  <1>3. 0 \in S
    <2>1. f[0] = h
      BY <1>2 DEF ModuleSteps
    <2>2. Continues(mods, mods, entries, 0)
      BY ContinuesNot
    <2>3. Taken(0)
      BY <2>1, <2>2, Zenon
    <2>4. QED
      BY <2>3
  <1>4. ASSUME NEW k \in 1 .. n, k - 1 \in S PROVE k \in S
    <2>1. PICK more \in Seq(ModuleEntries) : Continues(more, mods, entries, k - 1) /\ Holds(f[k - 1], map, more)
      BY <1>4
    <2>2. f[k] = parse_module_entry(f[k - 1], entries[k])
      BY <1>2, Zenon DEF ModuleSteps
    <2>3. entries[k] \in ModuleEntries /\ k \in 1 .. Len(entries) /\ k \in Nat
      BY <1>1
    <2>4. Append(more, entries[k]) \in Seq(ModuleEntries) /\ Continues(Append(more, entries[k]), mods, entries, k)
      BY <2>1, <2>3, ContinuesOn, Zenon
    <2>5. Holds(f[k], map, Append(more, entries[k]))
      BY <2>1, <2>2, <2>3, ModuleHolds, Zenon
    <2>6. Taken(k)
      BY <2>4, <2>5, Zenon
    <2>7. QED
      BY <2>3, <2>6
  <1>5. \A k \in 0 .. n : k \in S
    <2> HIDE DEF S
    <2>1. QED
      BY <1>3, <1>4, Upwards
  <1>6. n \in S
    BY <1>5
  <1>7. PICK more \in Seq(ModuleEntries) : Continues(more, mods, entries, n) /\ Holds(f[n], map, more)
    BY <1>6
  <1>8. more = mods \o entries
    BY <1>1, <1>7, ContinuesAll
  <1>9. QED
    BY <1>2, <1>7, <1>8, Zenon

-----------------------------------------------------------------------------
\* The fields a tag has, by its identifier.
LEMMA TagForms ==
    ASSUME NEW tag \in Tag
    PROVE  /\ tag.id \in {"memmap", "modules", "rsdp", "framebuffer", "smp"}
           /\ tag.id = "memmap" => tag.entries \in Seq(MapEntries)
           /\ tag.id = "modules" => tag.entries \in Seq(ModuleEntries)
           /\ tag.id = "rsdp" => tag.rsdt \in STRING
           /\ tag.id = "framebuffer" => tag.fb \in STRING
  <1>1. CASE tag \in [id : {"memmap"}, entries : Seq(MapEntries)]
    BY <1>1
  <1>2. CASE tag \in [id : {"modules"}, entries : Seq(ModuleEntries)]
    BY <1>2
  <1>3. CASE tag \in [id : {"rsdp"}, rsdt : STRING]
    BY <1>3
  <1>4. CASE tag \in [id : {"framebuffer"}, fb : STRING]
    BY <1>4
  <1>5. CASE tag \in [id : {"smp"}]
    BY <1>5
  <1>6. QED
    BY <1>1, <1>2, <1>3, <1>4, <1>5 DEF Tag

\* Tags that set one field leave the lists alone.
LEMMA FieldHolds ==
    ASSUME NEW h, NEW map, NEW mods, NEW v \in STRING, Holds(h, map, mods)
    PROVE  Holds([h EXCEPT !.rsdt = v], map, mods) /\ Holds([h EXCEPT !.framebuffer = v], map, mods)
  <1>1. h \in Handovers
    BY DEF Holds
  <1>2. PICK u \in Nat, w \in Nat, mm \in Seq(HandoverMmap), mo \in Seq(HandoverModules),
             r \in STRING \cup {"none"}, fb \in STRING \cup {"none"}, o \in BOOLEAN :
          h = [memory_usable |-> u, usable_pages |-> w, mmap |-> mm, modules |-> mo,
               rsdt |-> r, framebuffer |-> fb, overrun |-> o]
    BY <1>1 DEF Handovers
  <1>3. ASSUME NEW x, x \in {[h EXCEPT !.rsdt = v], [h EXCEPT !.framebuffer = v]} PROVE Holds(x, map, mods)
    <2>1. /\ x \in Handovers
          /\ x.mmap = h.mmap /\ x.memory_usable = h.memory_usable /\ x.modules = h.modules /\ x.overrun = h.overrun
      <3>1. CASE x = [h EXCEPT !.rsdt = v]
        <4>1. x = [memory_usable |-> u, usable_pages |-> w, mmap |-> mm, modules |-> mo,
                   rsdt |-> v, framebuffer |-> fb, overrun |-> o]
          BY <1>2, <3>1
        <4>2. QED
          BY <1>2, <4>1 DEF Handovers
      <3>2. CASE x = [h EXCEPT !.framebuffer = v]
        <4>1. x = [memory_usable |-> u, usable_pages |-> w, mmap |-> mm, modules |-> mo,
                   rsdt |-> r, framebuffer |-> v, overrun |-> o]
          BY <1>2, <3>2
        <4>2. QED
          BY <1>2, <4>1 DEF Handovers
      <3>3. QED
        BY <1>3, <3>1, <3>2
    <2>2. QED
      BY <2>1, Zenon DEF Holds, HoldsMap, HoldsModules
  <1>4. QED
    BY <1>3

\* A tag is taken over.
LEMMA TagHolds ==
    ASSUME NEW h, NEW map \in Seq(MapEntries), NEW mods \in Seq(ModuleEntries), NEW tag \in Tag, Holds(h, map, mods)
    PROVE  /\ With("memmap", map, tag) \in Seq(MapEntries)
           /\ With("modules", mods, tag) \in Seq(ModuleEntries)
           /\ Holds(parse_tag(h, tag), With("memmap", map, tag), With("modules", mods, tag))
  <1>1. CASE tag.id = "memmap"
    <2>1. tag.entries \in Seq(MapEntries)
      BY <1>1, TagForms, Zenon
    <2>2. parse_tag(h, tag) = parse_mmap(h, tag.entries)
      BY <1>1 DEF parse_tag
    <2>3. With("memmap", map, tag) = map \o tag.entries /\ With("modules", mods, tag) = mods
      BY <1>1 DEF With
    <2>4. map \o tag.entries \in Seq(MapEntries) /\ Holds(parse_mmap(h, tag.entries), map \o tag.entries, mods)
      BY <2>1, MmapHolds, Zenon
    <2>5. QED
      BY <2>2, <2>3, <2>4, Zenon
  <1>2. CASE tag.id = "modules"
    <2>1. tag.entries \in Seq(ModuleEntries)
      BY <1>2, TagForms, Zenon
    <2>2. parse_tag(h, tag) = parse_module(h, tag.entries)
      BY <1>2 DEF parse_tag
    <2>3. With("memmap", map, tag) = map /\ With("modules", mods, tag) = mods \o tag.entries
      BY <1>2 DEF With
    <2>4. mods \o tag.entries \in Seq(ModuleEntries) /\ Holds(parse_module(h, tag.entries), map, mods \o tag.entries)
      BY <2>1, ModulesHold, Zenon
    <2>5. QED
      BY <2>2, <2>3, <2>4, Zenon
  <1>3. CASE tag.id \in {"rsdp", "framebuffer", "smp"}
    <2>1. With("memmap", map, tag) = map /\ With("modules", mods, tag) = mods
      BY <1>3 DEF With
    <2>2. Holds(parse_tag(h, tag), map, mods)
      <3>1. CASE tag.id = "rsdp"
        <4>1. parse_tag(h, tag) = [h EXCEPT !.rsdt = tag.rsdt]
          BY <3>1 DEF parse_tag
        <4>2. tag.rsdt \in STRING
          BY <3>1, TagForms, Zenon
        <4>3. PICK v \in STRING : v = tag.rsdt
          BY <4>2, Zenon
        <4>4. Holds([h EXCEPT !.rsdt = v], map, mods)
          BY FieldHolds, Zenon
        <4>5. QED
          BY <4>1, <4>3, <4>4, Zenon
      <3>2. CASE tag.id = "framebuffer"
        <4>1. parse_tag(h, tag) = [h EXCEPT !.framebuffer = tag.fb]
          BY <3>2 DEF parse_tag
        <4>2. tag.fb \in STRING
          BY <3>2, TagForms, Zenon
        <4>3. PICK v \in STRING : v = tag.fb
          BY <4>2, Zenon
        <4>4. Holds([h EXCEPT !.framebuffer = v], map, mods)
          BY FieldHolds, Zenon
        <4>5. QED
          BY <4>1, <4>3, <4>4, Zenon
      <3>3. CASE tag.id = "smp"
        <4>1. parse_tag(h, tag) = h
          BY <3>3 DEF parse_tag
        <4>2. QED
          BY <4>1, Zenon
      <3>4. QED
        BY <1>3, <3>1, <3>2, <3>3
    <2>3. QED
      BY <2>1, <2>2, Zenon
  <1>4. QED
    BY <1>1, <1>2, <1>3, TagForms

\* The handover holds what the boot loader listed.
LEMMA HeaderHolds ==
    ASSUME NEW tags \in Seq(Tag)
    PROVE  /\ Listed("memmap", tags) \in Seq(MapEntries)
           /\ Listed("modules", tags) \in Seq(ModuleEntries)
           /\ Holds(stivale2_parse_header(tags), Listed("memmap", tags), Listed("modules", tags))
  <1>1. PICK n \in Nat : n = Len(tags)
    OBVIOUS
  <1>2. Len(tags) \in Nat
    BY <1>1
  <1>3. PICK f : TagSteps(f, EmptyHandover, tags, n) /\ stivale2_parse_header(tags) = f[n]
    BY <1>1, <1>2, ParsedTags
  <1>4. PICK map : WithSteps("memmap", map, << >>, tags, n) /\ Listed("memmap", tags) = map[n]
    BY <1>1, <1>2, ListedSteps
  <1>5. PICK mods : WithSteps("modules", mods, << >>, tags, n) /\ Listed("modules", tags) = mods[n]
    BY <1>1, <1>2, ListedSteps
  <1> DEFINE Taken(k) == /\ map[k] \in Seq(MapEntries) /\ mods[k] \in Seq(ModuleEntries)
                         /\ Holds(f[k], map[k], mods[k])
  <1> DEFINE S == {k \in Nat : Taken(k)}
  <1>6. 0 \in S
    <2>1. f[0] = EmptyHandover /\ map[0] = << >> /\ mods[0] = << >>
      BY <1>3, <1>4, <1>5, Zenon DEF TagSteps, WithSteps
    <2>2. EmptyHandover \in Handovers
      <3>1. << >> \in Seq(HandoverMmap) /\ << >> \in Seq(HandoverModules)
        OBVIOUS
      <3>2. QED
        BY <3>1 DEF EmptyHandover, Handovers
    <2>3. HoldsMap(EmptyHandover, << >>)
      BY UsableOfNone DEF HoldsMap, EmptyHandover
    <2>4. HoldsModules(EmptyHandover, << >>)
      BY DEF HoldsModules, EmptyHandover
    <2>5. << >> \in Seq(MapEntries) /\ << >> \in Seq(ModuleEntries)
      OBVIOUS
    <2>6. Taken(0)
      BY <2>1, <2>2, <2>3, <2>4, <2>5, Zenon DEF Holds
    <2>7. QED
      BY <2>6
  <1>7. ASSUME NEW k \in 1 .. n, k - 1 \in S PROVE k \in S
    <2>1. Taken(k - 1) /\ k \in Nat
      BY <1>7
    <2>2. PICK tag \in Tag : tag = tags[k]
      <3>1. tags[k] \in Tag
        BY <1>1
      <3>2. QED
        BY <3>1, Zenon
    <2>3. /\ f[k] = parse_tag(f[k - 1], tag)
          /\ map[k] = With("memmap", map[k - 1], tag)
          /\ mods[k] = With("modules", mods[k - 1], tag)
      BY <1>3, <1>4, <1>5, <2>2, Zenon DEF TagSteps, WithSteps
    <2>4. Taken(k)
      BY <2>1, <2>3, TagHolds, ZenonT(60)
    <2>5. QED
      BY <2>1, <2>4
  <1>8. \A k \in 0 .. n : k \in S
    <2> HIDE DEF S
    <2>1. QED
      BY <1>6, <1>7, Upwards
  <1>9. n \in S
    BY <1>8
  <1>10. Taken(n)
    BY <1>9
  <1>11. QED
    BY <1>3, <1>4, <1>5, <1>10, Zenon

\* A handover has these fields.
LEMMA HandoverShape ==
    ASSUME NEW b \in Boots
    PROVE  \E u, w, mm, mo, r, fb, o : stivale2_parse_header(b.tags) =
             [memory_usable |-> u, usable_pages |-> w, mmap |-> mm, modules |-> mo,
              rsdt |-> r, framebuffer |-> fb, overrun |-> o]
  <1>1. b.tags \in Seq(Tag)
    BY TagsAssumption
  <1>2. PICK h : h = stivale2_parse_header(b.tags)
    OBVIOUS
  <1>3. h \in Handovers
    BY <1>1, <1>2, HeaderHolds, Zenon DEF Holds
  <1>4. QED
    BY <1>2, <1>3 DEF Handovers

-----------------------------------------------------------------------------
\* A string is what is in front of the first NUL,
LEMMA Terminated ==
    ASSUME NEW array \in Seq(Chars), NEW n \in Nat, n < Len(array), array[n + 1] = NUL,
           \A i \in 1 .. n : array[i] # NUL
    PROVE  CString(array) = SubSeq(array, 1, n)
  <1>1. PICK ends : ends = {i \in 1 .. Len(array) : array[i] = NUL}
    OBVIOUS
  <1>2. n + 1 \in ends /\ \A j \in ends : n + 1 <= j
    BY <1>1
  <1>3. PICK c : c = CHOOSE i \in ends : \A j \in ends : i <= j
    OBVIOUS
  <1>4. c \in ends /\ \A j \in ends : c <= j
    BY <1>2, <1>3
  <1>5. c = n + 1
    BY <1>1, <1>2, <1>4
  <1>6. CString(array) = SubSeq(array, 1, c - 1)
    <2>1. ends # {}
      BY <1>2
    <2>2. QED
      BY <1>1, <1>3, <2>1, Zenon DEF CString
  <1>7. QED
    BY <1>5, <1>6

\* and holds all characters up to there.
LEMMA NotTerminated ==
    ASSUME NEW array \in Seq(Chars), NEW n \in Nat, n <= Len(array),
           \A i \in 1 .. n : array[i] # NUL
    PROVE  strlen(array) \in Nat /\ strlen(array) >= n
  <1>1. PICK ends : ends = {i \in 1 .. Len(array) : array[i] = NUL}
    OBVIOUS
  <1>2. PICK len \in Nat : len = Len(array)
    OBVIOUS
  <1>3. CASE ends = {}
    <2>1. PICK p \in Chars : p = "past the end"
      BY DEF Chars
    <2>2. CString(array) = Append(array, p)
      BY <1>1, <1>3, <2>1, Zenon DEF CString
    <2>3. Len(Append(array, p)) = len + 1
      BY <1>2
    <2>4. strlen(array) = len + 1
      BY <2>2, <2>3, Zenon DEF strlen
    <2>5. QED
      BY <1>2, <2>4
  <1>4. CASE ends # {}
    <2>1. PICK m \in ends : \A j \in ends : m <= j
      <3>1. PICK e \in ends : e \in Nat
        BY <1>1, <1>2, <1>4
      <3>2. ends \subseteq Nat /\ ends # {}
        BY <1>1, <1>2, <1>4
      <3>3. QED
        BY <3>2, Least
    <2>2. PICK c : c = CHOOSE i \in ends : \A j \in ends : i <= j
      OBVIOUS
    <2>3. c \in ends
      BY <2>1, <2>2
    <2>4. c \in 1 .. len /\ array[c] = NUL
      BY <1>1, <1>2, <2>3
    <2>5. c > n
      BY <1>2, <2>4
    <2>6. CString(array) = SubSeq(array, 1, c - 1)
      BY <1>1, <1>4, <2>2, Zenon DEF CString
    <2>7. Len(SubSeq(array, 1, c - 1)) = c - 1
      BY <1>2, <2>4
    <2>8. QED
      BY <2>4, <2>5, <2>6, <2>7 DEF strlen
  <1>5. QED
    BY <1>3, <1>4

\* strcmp tells whether two strings are equal.
LEMMA Compared ==
    ASSUME NEW s, NEW t, NEW a \in Seq(Chars), NEW b \in Seq(Chars), CString(s) = a, CString(t) = b
    PROVE  strcmp(s, t) = 0 <=> a = b
  <1>1. PICK n \in Nat, k \in Nat : n = Len(a) /\ k = Len(b)
    OBVIOUS
  <1>2. strlen(s) = n /\ strlen(t) = k
    BY <1>1 DEF strlen
  <1>3. CASE n # k
    <2>1. strcmp(s, t) = n - k
      BY <1>2, <1>3 DEF strcmp
    <2>2. n - k # 0
      BY <1>3
    <2>3. a # b
      BY <1>1, <1>3
    <2>4. QED
      BY <2>1, <2>2, <2>3
  <1>4. CASE n = k
    <2>1. strcmp(s, t) = strncmp(s, t, n)
      BY <1>2, <1>4 DEF strcmp
    <2>2. strncmp(s, t, n) = IF \A i \in 1 .. n : a[i] = b[i] THEN 0 ELSE 1
      BY DEF strncmp
    <2>3. (\A i \in 1 .. n : a[i] = b[i]) <=> a = b
      BY <1>1, <1>4, SeqEqual
    <2>4. QED
      BY <2>1, <2>2, <2>3
  <1>5. QED
    BY <1>3, <1>4

\* A module is found under its own name and no other, whatever is behind the
\* part of the array that was cleared.
LEMMA NameFound ==
    ASSUME NEW name \in ModuleNames, NEW m \in ModuleEntries
    PROVE  strcmp(AsArray(name), ModuleName(m.string, m.stack)) = 0 <=> m.string = name
  <1>1. PICK size \in Nat, cleared \in Nat : size = NAME_SIZE /\ cleared = NAME_CLEARED /\ 0 < cleared /\ cleared <= size
    BY NameAssumption
  <1>2. PICK str : str = m.string
    OBVIOUS
  <1>3. str \in Seq(STRING \ {NUL}) /\ name \in Seq(STRING \ {NUL})
    BY <1>2, TagsAssumption DEF ModuleEntries
  <1>4. PICK n \in Nat, k \in Nat : n = Len(name) /\ k = Len(str)
    BY <1>3
  <1>5. n < cleared /\ k <= size
    BY <1>1, <1>2, <1>4, TagsAssumption DEF ModuleEntries
  <1>6. /\ \A i \in 1 .. n : name[i] \in STRING /\ name[i] # NUL
        /\ \A i \in 1 .. k : str[i] \in STRING /\ str[i] # NUL
    BY <1>3, <1>4
  <1>7. name \in Seq(Chars) /\ str \in Seq(Chars)
    <2>1. STRING \ {NUL} \subseteq Chars
      BY DEF Chars
    <2>2. QED
      BY <1>3, <2>1, SeqMonotonic
  <1>8. CString(AsArray(name)) = name
    <2>1. PICK a : a = AsArray(name)
      OBVIOUS
    <2>2. NUL \in Chars
      BY DEF Chars
    <2>3. a \in Seq(Chars) /\ Len(a) = n + 1 /\ a[n + 1] = NUL /\ \A i \in 1 .. n : a[i] = name[i]
      BY <1>4, <1>7, <2>1, <2>2 DEF AsArray
    <2>4. CString(a) = SubSeq(a, 1, n)
      <3>1. n < Len(a) /\ \A i \in 1 .. n : a[i] # NUL
        BY <1>6, <2>3
      <3>2. QED
        BY <2>3, <3>1, Terminated
    <2>5. SubSeq(a, 1, n) = name
      <3>1. SubSeq(a, 1, n) \in Seq(Chars) /\ Len(SubSeq(a, 1, n)) = n
        BY <2>3
      <3>2. \A i \in 1 .. n : SubSeq(a, 1, n)[i] = name[i]
        BY <2>3
      <3>3. QED
        BY <1>4, <1>7, <3>1, <3>2, SeqEqual
    <2>6. QED
      BY <2>1, <2>4, <2>5, Zenon
  <1>9. PICK array : array = ModuleName(str, m.stack)
    OBVIOUS
  <1>10. array \in [1 .. size -> Chars]
    BY <1>1, <1>2, <1>9, NameTyped, Zenon
  <1>11. array \in Seq(Chars) /\ Len(array) = size
    BY <1>10
  <1>12. \A i \in 1 .. k : array[i] = str[i]
    BY <1>1, <1>4, <1>5, <1>9 DEF ModuleName
  <1>13. CASE k < cleared
    <2>1. k + 1 \in 1 .. size /\ ~(k + 1 <= k) /\ k + 1 <= cleared
      BY <1>1, <1>13
    <2>2. array[k + 1] = NUL
      BY <1>1, <1>4, <1>9, <2>1 DEF ModuleName
    <2>3. CString(array) = SubSeq(array, 1, k)
      <3>1. k < Len(array) /\ \A i \in 1 .. k : array[i] # NUL
        BY <1>6, <1>11, <1>12, <2>1
      <3>2. QED
        BY <1>11, <2>2, <3>1, Terminated
    <2>4. SubSeq(array, 1, k) = str
      <3>1. SubSeq(array, 1, k) \in Seq(Chars) /\ Len(SubSeq(array, 1, k)) = k
        BY <1>5, <1>11
      <3>2. \A i \in 1 .. k : SubSeq(array, 1, k)[i] = str[i]
        BY <1>5, <1>11, <1>12
      <3>3. QED
        BY <1>4, <1>7, <3>1, <3>2, SeqEqual
    <2>5. CString(array) = str
      BY <2>3, <2>4, Zenon
    <2>6. strcmp(AsArray(name), array) = 0 <=> name = str
      BY <1>7, <1>8, <2>5, Compared
    <2>7. QED
      BY <1>2, <1>9, <2>6, Zenon
  <1>14. CASE ~(k < cleared)
    <2>1. name # str
      BY <1>4, <1>5, <1>14
    <2>2. strlen(array) \in Nat /\ strlen(array) >= k
      <3>1. k <= Len(array) /\ \A i \in 1 .. k : array[i] # NUL
        BY <1>5, <1>6, <1>11, <1>12
      <3>2. QED
        BY <1>11, <3>1, NotTerminated
    <2>3. strlen(AsArray(name)) = n
      BY <1>4, <1>8 DEF strlen
    <2>4. strcmp(AsArray(name), array) # 0
      BY <1>5, <1>14, <2>2, <2>3 DEF strcmp
    <2>5. QED
      BY <1>2, <1>9, <2>1, <2>4, Zenon
  <1>15. QED
    BY <1>13, <1>14

\* handover_find_module finds the first module of a name.
LEMMA FindHolds ==
    ASSUME NEW h, NEW mods \in Seq(ModuleEntries), HoldsModules(h, mods), NEW name \in ModuleNames
    PROVE  handover_find_module(h, name) = ModuleNamed(mods, name)
  <1>1. PICK matches : matches = {i \in 1 .. Len(h.modules) : strcmp(AsArray(name), h.modules[i].name) = 0}
    OBVIOUS
  <1>2. PICK named : named = {i \in 1 .. Len(mods) : mods[i].string = name}
    OBVIOUS
  <1>3. Len(h.modules) = Len(mods)
    BY DEF HoldsModules
  <1>4. ASSUME NEW i \in 1 .. Len(mods)
        PROVE  strcmp(AsArray(name), h.modules[i].name) = 0 <=> mods[i].string = name
    <2>1. PICK m \in ModuleEntries : m = mods[i]
      <3>1. mods[i] \in ModuleEntries
        OBVIOUS
      <3>2. QED
        BY <3>1, Zenon
    <2>2. h.modules[i].name = ModuleName(m.string, m.stack)
      BY <2>1, Zenon DEF HoldsModules
    <2>3. strcmp(AsArray(name), ModuleName(m.string, m.stack)) = 0 <=> m.string = name
      BY NameFound, Zenon
    <2>4. QED
      BY <2>1, <2>2, <2>3, Zenon
  <1>5. matches = named
    BY <1>1, <1>2, <1>3, <1>4
  <1>6. CASE named = {}
    BY <1>1, <1>2, <1>5, <1>6, Zenon DEF handover_find_module, ModuleNamed
  <1>7. CASE named # {}
    <2>1. PICK c : c = CHOOSE i \in named : \A j \in named : i <= j
      OBVIOUS
    <2>2. c \in named
      <3>1. named \in SUBSET Nat
        BY <1>2
      <3>2. \E i \in named : \A j \in named : i <= j
        BY <1>7, <3>1, Least
      <3>3. QED
        BY <2>1, <3>2
    <2>3. c \in 1 .. Len(mods)
      BY <1>2, <2>2
    <2>4. h.modules[c].addr = range_t(mods[c].begin, mods[c].end - mods[c].begin)
      BY <2>3, Zenon DEF HoldsModules
    <2>5. handover_find_module(h, name) = h.modules[c].addr
      BY <1>1, <1>5, <1>7, <2>1, Zenon DEF handover_find_module
    <2>6. ModuleNamed(mods, name) = range_t(mods[c].begin, mods[c].end - mods[c].begin)
      BY <1>2, <1>7, <2>1, Zenon DEF ModuleNamed
    <2>7. QED
      BY <2>4, <2>5, <2>6, Zenon
  <1>8. QED
    BY <1>6, <1>7

-----------------------------------------------------------------------------
(***************************************************************************)
(* Building the kernel's space.                                            *)
(***************************************************************************)
\* Without tables anything is a layout.
LEMMA NoTables ==
    ASSUME NEW m, NEW first \in Nat, NEW k,
           m = [tables |-> << >>, content |-> << >>, next |-> first]
    PROVE  \E g : Good(m, g, k) /\ \A f \in Nat : g[f].level # 4
  <1>1. PICK e : e = [level |-> 0, own |-> 0, ix3 |-> 0, ix2 |-> 0, ix1 |-> 0]
    OBVIOUS
  <1>2. e \in Place /\ e.level # 4
    BY <1>1 DEF Place
  <1>3. PICK g : g = [f \in Nat |-> e]
    OBVIOUS
  <1>4. g \in [Nat -> Place] /\ \A f \in Nat : g[f].level # 4
    BY <1>2, <1>3
  <1>5. DOMAIN m.tables = {}
    OBVIOUS
  <1>6. m.tables \in [DOMAIN m.tables -> [Index -> Entry]]
    OBVIOUS
  <1>7. m = [tables |-> m.tables, content |-> m.content, next |-> m.next] /\ m.next \in Nat
    OBVIOUS
  <1>8. IsMem(m)
    BY <1>5, <1>6, <1>7 DEF IsMem
  <1>9. Good(m, g, k)
    BY <1>4, <1>5, <1>8, Zenon DEF Good
  <1>10. QED
    BY <1>4, <1>9

\* The kernel's top table is the first.
LEMMA FirstTable ==
    ASSUME NEW m, NEW k \in Nat, m = [tables |-> << >>, content |-> << >>, next |-> k],
           NEW x, x = WithTable(m, k)
    PROVE  \E g : Core(x, g, k, k)
  <1>1. PICK g : Good(m, g, k) /\ \A f \in Nat : g[f].level # 4
    BY NoTables
  <1>2. m.next = k /\ DOMAIN m.tables = {} /\ IsMem(m)
    BY <1>1 DEF Good
  <1>3. Added(m, x)
    BY <1>2, AddedIs
  <1>4. /\ IsMem(x) /\ DOMAIN x.tables = DOMAIN m.tables \cup {m.next}
        /\ x.next = m.next + 1 /\ x.content = m.content
        /\ \A i \in Index : x.tables[m.next][i] = Absent
        /\ \A u \in DOMAIN m.tables : x.tables[u] = m.tables[u]
    BY <1>3 DEF Added
  <1>5. PICK tab : tab = x.tables[m.next]
    OBVIOUS
  <1>6. tab \in [Index -> Entry]
    BY <1>4, <1>5 DEF IsMem
  <1>7. \A i \in Index : \/ tab[i] = Absent
                         \/ /\ i >= Half /\ tab[i] = m.tables[k][i]
                            /\ k \in DOMAIN m.tables /\ g[k].level = 3
    BY <1>4, <1>5
  <1>8. x.tables[m.next] = tab
    BY <1>5
  <1>9. PICK g2 : TopAdded(m, g, x, g2, k)
    <2>1. Good(m, g, k)
      BY <1>1
    <2>2. QED
      BY ONLY <1>4, <1>6, <1>7, <1>8, <2>1, AddTop
  <1>10. Good(x, g2, k) /\ g2[m.next].level = 3 /\ \A f \in 0 .. m.next - 1 : g2[f] = g[f]
    BY <1>9 DEF TopAdded, Keeps
  <1>11. k \in DOMAIN x.tables /\ g2[k].level = 3 /\ k <= x.next
    BY <1>2, <1>4, <1>10
  <1>12. \A f \in 0 .. k - 1 : g2[f].level # 4
    <2>1. SUFFICES ASSUME NEW f \in 0 .. k - 1 PROVE g2[f].level # 4
      OBVIOUS
    <2>2. f \in Nat /\ g2[f] = g[f]
      BY <1>2, <1>10
    <2>3. QED
      BY <1>1, <2>2, Zenon
  <1>13. \A i \in Index : SHARED_FIRST <= i /\ i < Half => x.tables[k][i] = Absent
    BY <1>2, <1>4, Zenon
  <1>14. Core(x, g2, k, k)
    BY <1>10, <1>11, <1>12, <1>13, Zenon DEF Core
  <1>15. QED
    BY <1>14

\* The mapping whatever the memory map says.
LEMMA IoFits ==
    \E n \in Nat : n = IO_LENGTH \div PAGE_SIZE /\ IoPage + (0 + n) <= MMAP_KERNEL_BASE \div PAGE_SIZE
  <1>1. PICK io \in Nat, kp \in Nat, P \in Nat \ {0} :
           /\ io = IoPage /\ kp = MMAP_KERNEL_BASE \div PAGE_SIZE /\ P = PAGE_SIZE
           /\ MMAP_IO_BASE = io * P /\ MMAP_KERNEL_BASE = kp * P
    BY WindowIs, TablesAssumption
  <1>2. PICK l \in Nat : l = IO_LENGTH /\ l <= kp * P - io * P
    <2>1. IO_LENGTH \in 0 .. kp * P - io * P
      BY <1>1, LayoutAssumption
    <2>2. QED
      BY <2>1
  <1>3. PICK n \in Int, r \in 0 .. P - 1 : n = l \div P /\ l = n * P + r
    BY DivMod
  <1>4. n \in Nat
    BY <1>3
  <1>5. (io + n) * P <= kp * P
    <2>1. (io + n) * P = io * P + n * P
      BY SMTT(30)
    <2>2. PICK u \in Int, w \in Int, z \in Int : u = io * P /\ w = n * P /\ z = kp * P
      OBVIOUS
    <2>3. QED
      BY <1>2, <1>3, <2>1, <2>2
  <1>6. io + n <= kp
    <2>1. io + n \in Int /\ kp \in Int
      OBVIOUS
    <2>2. QED
      BY <1>5, <2>1, Cancel
  <1>7. QED
    BY <1>1, <1>2, <1>3, <1>4, <1>6

\* What vmm_init maps before it looks at the memory map.
LEMMA FirstMapped ==
    ASSUME NEW m, NEW k \in Nat, m = [tables |-> << >>, content |-> << >>, next |-> k],
           NEW virt, NEW phys, virt = range_t(mmap_phys_to_io(0), IO_LENGTH),
           phys = range_t(0, IO_LENGTH),
           NEW x, x = vmm_map_range(WithTable(m, k), k, virt, phys, FALSE)
    PROVE  \E g : Core(x, g, k, k)
  <1>1. PICK w : w = WithTable(m, k)
    OBVIOUS
  <1>2. PICK g : Core(w, g, k, k)
    BY <1>1, FirstTable
  <1>3. PICK n \in Nat : n = IO_LENGTH \div PAGE_SIZE /\ IoPage + (0 + n) <= MMAP_KERNEL_BASE \div PAGE_SIZE
    BY IoFits
  <1>4. /\ n = virt.length \div PAGE_SIZE /\ virt.base = mmap_phys_to_io(0 * PAGE_SIZE)
        /\ 0 = phys.base \div PAGE_SIZE
    <2>1. PICK P \in Nat \ {0} : P = PAGE_SIZE
      BY TablesAssumption
    <2>2. 0 * PAGE_SIZE = 0 /\ 0 \div PAGE_SIZE = 0
      BY <2>1
    <2>3. virt.length = IO_LENGTH /\ virt.base = mmap_phys_to_io(0) /\ phys.base = 0
      BY DEF range_t
    <2>4. QED
      BY <1>3, <2>2, <2>3, Zenon
  <1>5. x = vmm_map_range(w, k, virt, phys, FALSE)
    BY <1>1
  <1>6. \E g2 : Remains(w, x, g2, k, k)
    <2>1. 0 \in Nat
      OBVIOUS
    <2>2. QED
      BY ONLY <1>2, <1>3, <1>4, <1>5, <2>1, IoMap
  <1>7. QED
    BY <1>6 DEF Remains

\* An entry of the memory map.
LEMMA EntryMapped ==
    ASSUME NEW g, NEW first, Core(mem, g, kernel, first), NEW entry,
           entry.base \in Nat, entry.length \in Nat, MachineEntry(entry),
           NEW x, x = MapEntry(mem, entry)
    PROVE  \E g2 : /\ Remains(mem, x, g2, kernel, first)
                   /\ \A f \in Reached(entry) :
                        IoPage + f \in Window /\ Walk(x, kernel, IoPage + f).present
  <1>1. PICK b \in Nat, c \in Nat :
             /\ b = entry.base \div PAGE_SIZE /\ AlignDown(entry.base) = b * PAGE_SIZE
             /\ c = AlignUp(entry.length) \div PAGE_SIZE
             /\ EntryLength(entry) \div PAGE_SIZE = c + 1
             /\ (b * PAGE_SIZE) \div PAGE_SIZE = b
             /\ IoPage + (b + (c + 1)) <= MMAP_KERNEL_BASE \div PAGE_SIZE
             /\ entry.type = "kernel" =>
                  MMAP_KERNEL_BASE \div PAGE_SIZE + (b + (c + 1)) <=
                    VPages + SHARED_FIRST * (ENTRIES * ENTRIES * ENTRIES)
    BY EntryPages
  <1>2. PICK phys : phys = range_t(AlignDown(entry.base), EntryLength(entry))
    OBVIOUS
  <1>3. PICK io : io = range_t(mmap_phys_to_io(phys.base), phys.length)
    OBVIOUS
  <1>4. PICK low : low = range_t(mmap_phys_to_kernel(phys.base), phys.length)
    OBVIOUS
  <1>5. PICK m1 : m1 = IF entry.type = "kernel" THEN vmm_map_range(mem, kernel, low, phys, FALSE) ELSE mem
    OBVIOUS
  <1>6. x = vmm_map_range(m1, kernel, io, phys, FALSE)
    BY <1>2, <1>3, <1>4, <1>5, Zenon DEF MapEntry
  <1>7. PICK n \in Nat : n = c + 1
    OBVIOUS
  <1>8. /\ phys.base = b * PAGE_SIZE /\ phys.length \div PAGE_SIZE = n
        /\ b = phys.base \div PAGE_SIZE
        /\ n = io.length \div PAGE_SIZE /\ io.base = mmap_phys_to_io(b * PAGE_SIZE)
        /\ n = low.length \div PAGE_SIZE /\ low.base = mmap_phys_to_kernel(b * PAGE_SIZE)
    <2>1. phys.base = AlignDown(entry.base) /\ phys.length = EntryLength(entry)
      BY <1>2 DEF range_t
    <2>2. io.base = mmap_phys_to_io(phys.base) /\ io.length = phys.length
      BY <1>3 DEF range_t
    <2>3. low.base = mmap_phys_to_kernel(phys.base) /\ low.length = phys.length
      BY <1>4 DEF range_t
    <2>4. QED
      BY <1>1, <1>7, <2>1, <2>2, <2>3, Zenon
  <1>9. PICK g1 : Remains(mem, m1, g1, kernel, first)
    <2>1. CASE entry.type = "kernel"
      <3>1. m1 = vmm_map_range(mem, kernel, low, phys, FALSE)
        BY <1>5, <2>1
      <3>2. MMAP_KERNEL_BASE \div PAGE_SIZE + (b + n) <=
              VPages + SHARED_FIRST * (ENTRIES * ENTRIES * ENTRIES)
        BY <1>1, <1>7, <2>1
      <3>3. QED
        BY ONLY Core(mem, g, kernel, first), b \in Nat, n \in Nat, <1>8, <3>1, <3>2, KernelMap
    <2>2. CASE entry.type # "kernel"
      <3>1. m1 = mem
        BY <1>5, <2>2
      <3>2. QED
        BY <3>1 DEF Remains
    <2>3. QED
      BY <2>1, <2>2
  <1>10. Core(m1, g1, kernel, first)
    BY <1>9 DEF Remains
  <1>11. IoPage + (b + n) <= MMAP_KERNEL_BASE \div PAGE_SIZE
    BY <1>1, <1>7
  <1>12. PICK g2 : /\ Remains(m1, x, g2, kernel, first)
                   /\ \A j \in 0 .. n - 1 :
                        IoPage + (b + j) \in Window /\ Walk(x, kernel, IoPage + (b + j)).present
    BY ONLY b \in Nat, n \in Nat, <1>6, <1>8, <1>10, <1>11, IoMap, ZenonT(60)
  <1>13. Remains(mem, x, g2, kernel, first)
    BY <1>9, <1>12, Zenon DEF Remains
  <1>14. ASSUME NEW f \in Reached(entry)
         PROVE  IoPage + f \in Window /\ Walk(x, kernel, IoPage + f).present
    <2>1. f \in b .. b + c
      BY <1>1 DEF Reached
    <2>2. PICK j \in 0 .. n - 1 : f = b + j
      <3>1. f - b \in 0 .. n - 1 /\ f = b + (f - b)
        BY <1>7, <2>1
      <3>2. QED
        BY <3>1
    <2>3. QED
      BY <1>12, <2>2, Zenon
  <1>15. QED
    BY <1>13, <1>14

-----------------------------------------------------------------------------
(***************************************************************************)
(* What the later operations leave to all spaces.                          *)
(***************************************************************************)
\* Top tables stay as they are.
Stays(m, g, x, g2) ==
    /\ DOMAIN m.tables \subseteq DOMAIN x.tables /\ m.next <= x.next
    /\ \A f \in 0 .. m.next - 1 : g2[f] = g[f]
    /\ \A s \in DOMAIN m.tables, i \in Index :
         g[s].level = 3 => x.tables[s][i] = m.tables[s][i]

\* Then the kernel and the processes keep what they have.
LEMMA StaysCore ==
    ASSUME NEW m, NEW g, NEW k, NEW first, Core(m, g, k, first), NEW live, NEW gone,
           Sharing(m, g, k, live, gone), NEW x, NEW g2, Good(x, g2, k), Stays(m, g, x, g2)
    PROVE  Core(x, g2, k, first) /\ Sharing(x, g2, k, live, gone)
  <1>1. Good(m, g, k) /\ k \in DOMAIN m.tables /\ g[k].level = 3 /\ first \in Nat /\ first <= m.next
    BY DEF Core
  <1>2. m.next \in Nat /\ x.next \in Nat /\ DOMAIN m.tables \subseteq 0 .. m.next - 1
    BY <1>1 DEF Good, IsMem
  <1>3. \A s \in DOMAIN m.tables : s \in DOMAIN x.tables /\ g2[s] = g[s]
    BY <1>2, Zenon DEF Stays
  <1>4. k \in DOMAIN x.tables /\ g2[k].level = 3
    BY <1>1, <1>3, Zenon
  <1>5. first <= x.next
    BY <1>1, <1>2 DEF Stays
  <1>6. \A f \in 0 .. first - 1 : g2[f].level # 4
    <2>1. \A f \in 0 .. first - 1 : f \in 0 .. m.next - 1
      BY <1>1, <1>2
    <2>2. \A f \in 0 .. first - 1 : g[f].level # 4
      BY Zenon DEF Core
    <2>3. \A f \in 0 .. first - 1 : g2[f] = g[f]
      BY <2>1, Zenon DEF Stays
    <2>4. QED
      BY <2>2, <2>3, Zenon
  <1>7. ASSUME NEW i \in Index, SHARED_FIRST <= i, i < Half PROVE x.tables[k][i] = Absent
    <2>1. m.tables[k][i] = Absent
      BY <1>7 DEF Core
    <2>2. x.tables[k][i] = m.tables[k][i]
      BY <1>1, Zenon DEF Stays
    <2>3. QED
      BY <2>1, <2>2, Zenon
  <1>8. Core(x, g2, k, first)
    BY <1>1, <1>4, <1>5, <1>6, <1>7 DEF Core
  <1>9. ASSUME NEW s \in live \cup gone PROVE s \in DOMAIN x.tables /\ g2[s].level = 3 /\ s # k
    <2>1. s \in DOMAIN m.tables /\ g[s].level = 3 /\ s # k
      BY Zenon DEF Sharing
    <2>2. QED
      BY <1>3, <2>1, Zenon
  <1>10. ASSUME NEW s \in live, NEW i \in Index, i >= Half PROVE x.tables[s][i] = x.tables[k][i]
    <2>1. s \in DOMAIN m.tables /\ g[s].level = 3 /\ m.tables[s][i] = m.tables[k][i]
      BY <1>10, Zenon DEF Sharing
    <2>2. x.tables[s][i] = m.tables[s][i] /\ x.tables[k][i] = m.tables[k][i]
      BY <1>1, <2>1, Zenon DEF Stays
    <2>3. QED
      BY <2>1, <2>2, Zenon
  <1>11. QED
    BY <1>8, <1>9, <1>10, Zenon DEF Sharing

\* A page that is mapped is below an entry of the top table.
LEMMA TopPresent ==
    ASSUME NEW m, NEW s, NEW p, Walk(m, s, p).present
    PROVE  m.tables[s][Ix(p, 3)].present
  <1>1. SUFFICES ASSUME ~m.tables[s][Ix(p, 3)].present PROVE FALSE
    OBVIOUS
  <1>2. Walk(m, s, p) = Absent
    BY <1>1, Zenon DEF Walk, Ix
  <1>3. QED
    BY <1>2, AbsentIs, Zenon

\* A joined process is a process.
LEMMA JoinedSharing ==
    ASSUME NEW m, NEW g, NEW k, NEW first, Core(m, g, k, first), NEW live, NEW gone,
           Sharing(m, g, k, live, gone), NEW pml, NEW x, NEW g2, Joins(m, g, x, g2, k, pml)
    PROVE  Core(x, g2, k, first) /\ Sharing(x, g2, k, live \cup {pml}, gone)
  <1>1. Good(x, g2, k) /\ Stays(m, g, x, g2)
    BY Zenon DEF Joins, Stays
  <1>2. Core(x, g2, k, first) /\ Sharing(x, g2, k, live, gone)
    BY <1>1, StaysCore, Zenon
  <1>3. pml \in DOMAIN x.tables /\ g2[pml].level = 3 /\ pml # k
    BY Zenon DEF Joins
  <1>4. k \in DOMAIN m.tables /\ g[k].level = 3
    BY DEF Core
  <1>5. \A i \in Index : i >= Half => x.tables[pml][i] = x.tables[k][i]
    <2>1. \A i \in Index : x.tables[k][i] = m.tables[k][i]
      BY <1>1, <1>4, Zenon DEF Stays
    <2>2. \A i \in Index : i >= Half => x.tables[pml][i] = m.tables[k][i]
      BY Zenon DEF Joins
    <2>3. QED
      BY <2>1, <2>2, Zenon
  <1>6. QED
    BY <1>2, <1>3, <1>5, Zenon DEF Sharing

\* The frames that may still be handed out are mapped for the kernel.
Covers(m, k, first, limit) ==
    \A f \in first .. limit - 1 : IoPage + f \in Window /\ Walk(m, k, IoPage + f).present

\* Pages of the window are mapped, and nothing else changes.
WindowMapped(m, g, x, g2, k) ==
    /\ Good(x, g2, k) /\ Stays(m, g, x, g2)
    /\ \A s \in DOMAIN m.tables, p \in VPage : g[s].level = 3 =>
         Walk(x, s, p) = Walk(m, s, p) \/ (p \in Window /\ Walk(x, s, p).present)

\* That is what the heap does with a chunk.
LEMMA HeapMapped ==
    ASSUME NEW m, NEW g, NEW k, NEW first, Core(m, g, k, first), NEW live, NEW gone,
           Sharing(m, g, k, live, gone), NEW limit \in Nat, Covers(m, k, first, limit),
           NEW c \in live \cup {k}, NEW bytes \in Nat, NEW phys, NEW io,
           phys = range_t(m.next * PAGE_SIZE, bytes), io = range_t(mmap_phys_to_io(phys.base), bytes),
           NEW x, x = vmm_map_range([m EXCEPT !.next = @ + bytes \div PAGE_SIZE], c, io, phys, TRUE),
           x.next <= limit
    PROVE  \E g2 : WindowMapped(m, g, x, g2, k)
  <1>1. /\ Good(m, g, k) /\ k \in DOMAIN m.tables /\ g[k].level = 3
        /\ first \in Nat /\ first <= m.next
    BY DEF Core
  <1>2. /\ m = [tables |-> m.tables, content |-> m.content, next |-> m.next]
        /\ m.next \in Nat /\ DOMAIN m.tables \subseteq 0 .. m.next - 1
    BY <1>1 DEF Good, IsMem
  <1>3. c \in DOMAIN m.tables /\ g[c].level = 3
    BY <1>1, Zenon DEF Sharing
  <1>4. PICK n \in Nat : n = bytes \div PAGE_SIZE
    <2>1. PICK P \in Nat \ {0} : P = PAGE_SIZE
      BY TablesAssumption
    <2>2. PICK q \in Int, r \in 0 .. P - 1 : q = bytes \div P /\ bytes = q * P + r
      BY DivMod
    <2>3. q \in Nat
      BY <2>2
    <2>4. QED
      BY <2>1, <2>2, <2>3
  <1>5. PICK m1 : m1 = [m EXCEPT !.next = @ + n]
    OBVIOUS
  <1>6. m1 = [tables |-> m.tables, content |-> m.content, next |-> m.next + n]
    BY <1>2, <1>5
  <1>7. m1.tables = m.tables /\ m1.next = m.next + n /\ IsRec(m1)
    BY <1>2, <1>6 DEF IsRec
  <1>8. x = vmm_map_range(m1, c, io, phys, TRUE)
    BY <1>4, <1>5, Zenon
  <1>9. /\ phys.base = m.next * PAGE_SIZE /\ io.base = mmap_phys_to_io(m.next * PAGE_SIZE)
        /\ n = io.length \div PAGE_SIZE
    BY <1>4 DEF range_t
  <1>10. m.next + n <= limit
    <2>1. io.length \div PAGE_SIZE \in Nat
      BY <1>9
    <2>2. Grown(m1, x)
      BY <1>7, <1>8, <2>1, RangeGrown, Zenon
    <2>3. x.next \in Nat /\ m.next + n <= x.next
      BY <1>7, <2>2 DEF Grown, IsRec
    <2>4. QED
      BY ONLY x.next <= limit, limit \in Nat, n \in Nat, <1>2, <2>3
  <1>11. PICK b \in Nat : b = m.next
    BY <1>2
  <1>12. \A j \in 0 .. n - 1 : IoPage + (b + j) \in Window /\ Walk(m, k, IoPage + (b + j)).present
    <2>1. SUFFICES ASSUME NEW j \in 0 .. n - 1
                   PROVE  IoPage + (b + j) \in Window /\ Walk(m, k, IoPage + (b + j)).present
      OBVIOUS
    <2>2. b + j \in first .. limit - 1
      BY <1>1, <1>10, <1>11
    <2>3. QED
      BY <2>2, Zenon DEF Covers
  <1>13. PICK v : v = PageOf(mmap_phys_to_io(b * PAGE_SIZE))
    OBVIOUS
  <1>14. /\ v \in Nat
         /\ \A j \in 0 .. n - 1 : Pg(v, j) = IoPage + (b + j) /\ Pg(v, j) \in Window
    <2>1. PICK w \in Nat, kp \in Nat, P \in Nat \ {0} :
             /\ w = IoPage /\ kp = MMAP_KERNEL_BASE \div PAGE_SIZE /\ P = PAGE_SIZE
             /\ MMAP_IO_BASE = w * P /\ Window = w .. kp - 1
      BY WindowIs, TablesAssumption
    <2>2. CASE n = 0
      <3>1. mmap_phys_to_io(b * PAGE_SIZE) \in Nat
        <4>1. b * P \in Nat /\ w * P \in Nat
          BY SMTT(30)
        <4>2. QED
          BY <2>1, <4>1, SMTT(60) DEF mmap_phys_to_io
      <3>2. v \in Nat
        BY <1>13, <3>1, PageNat
      <3>3. QED
        BY <2>2, <3>2
    <2>3. CASE n > 0
      <3>1. n - 1 \in 0 .. n - 1
        BY <2>3
      <3>2. w + (b + (n - 1)) \in w .. kp - 1
        BY <1>12, <2>1, <3>1
      <3>3. IoPage + (b + n) <= MMAP_KERNEL_BASE \div PAGE_SIZE
        BY <2>1, <2>3, <3>2, SMTT(60)
      <3>4. QED
        BY <1>13, <3>3, IoRange
    <2>4. QED
      BY <2>2, <2>3
  <1>15. PICK g1 : Reserved(m, g, m1, g1, k, n, 0)
    <2>1. 0 \in Nat
      OBVIOUS
    <2>2. QED
      BY <1>1, <1>6, <2>1, Reserve, Zenon
  <1>16. /\ Good(m1, g1, k) /\ \A f \in 0 .. m.next - 1 : g1[f] = g[f]
         /\ \A f \in m.next .. m.next + n - 1 : g1[f].level = 4
    BY <1>15, Zenon DEF Reserved
  <1>17. \A s \in DOMAIN m.tables : s \in DOMAIN m1.tables /\ g1[s] = g[s]
    BY <1>2, <1>7, <1>16, Zenon
  <1>18. RangeFits(m1, g1, k, c, v, b, n, TRUE)
    <2>1. ASSUME NEW j \in 0 .. n - 1
          PROVE  Fits(m1, g1, k, c, Ix(Pg(v, j), 3), Pg(v, j), pml_make_entry(b + j, TRUE))
      <3>1. b + j \in m.next .. m.next + n - 1 /\ b + j < m1.next
        BY <1>7, <1>11
      <3>2. g1[b + j].level = 4
        BY <1>16, <3>1, Zenon
      <3>3. Pg(v, j) \in Window /\ ~(Ix(Pg(v, j), 3) < Half)
        BY <1>14, WindowHigh
      <3>4. pml_make_entry(b + j, TRUE).frame = b + j
        BY DEF pml_make_entry
      <3>5. b + j = Pg(v, j) - MMAP_IO_BASE \div PAGE_SIZE
        <4>1. PICK w \in Nat : w = IoPage
          BY WindowIs
        <4>2. Pg(v, j) = w + (b + j) /\ w = MMAP_IO_BASE \div PAGE_SIZE
          BY <1>14, <4>1 DEF IoPage
        <4>3. b + j = (w + (b + j)) - w
          OBVIOUS
        <4>4. QED
          BY <4>2, <4>3, Zenon
      <3>6. QED
        BY <3>1, <3>2, <3>3, <3>4, <3>5, Zenon DEF Fits
    <2>2. QED
      BY <2>1, Zenon DEF RangeFits
  <1>19. PICK g2 : RangeMapped(m1, g1, x, g2, k, c, v, b, n, TRUE)
    <2>1. v = PageOf(io.base) /\ TRUE \in BOOLEAN
      BY <1>9, <1>11, <1>13, Zenon
    <2>2. b = phys.base \div PAGE_SIZE
      <3>1. 0 \in 0 .. PAGE_SIZE - 1 /\ b * PAGE_SIZE + 0 = b * PAGE_SIZE
        BY TablesAssumption
      <3>2. (b * PAGE_SIZE + 0) \div PAGE_SIZE = b
        BY <3>1, PageIs, Zenon
      <3>3. QED
        BY <1>9, <1>11, <3>1, <3>2, Zenon
    <2>3. Good(m1, g1, k) /\ c \in DOMAIN m1.tables /\ g1[c].level = 3 /\ v \in Nat
      BY <1>3, <1>14, <1>16, <1>17, Zenon
    <2>4. QED
      BY ONLY b \in Nat, n \in Nat, <1>8, <1>9, <1>18, <2>1, <2>2, <2>3, MapRange
  <1>20. /\ Good(x, g2, k) /\ Keeps(m1, g1, x, g2)
         /\ Tops(m1, g1, x, c, {Ix(Pg(v, j), 3) : j \in 0 .. n - 1})
    BY <1>19, Zenon DEF RangeMapped
  <1>21. ASSUME NEW s \in DOMAIN m.tables, NEW i \in Index, g[s].level = 3
         PROVE  x.tables[s][i] = m.tables[s][i]
    <2>1. s \in DOMAIN m1.tables /\ g1[s].level = 3
      BY <1>17, <1>21, Zenon
    <2>2. \/ x.tables[s][i] = m1.tables[s][i]
          \/ s = c /\ i \in {Ix(Pg(v, j), 3) : j \in 0 .. n - 1} /\ ~m1.tables[s][i].present
      BY <1>20, <2>1, Zenon DEF Tops
    <2>3. ASSUME s = c, NEW j \in 0 .. n - 1, i = Ix(Pg(v, j), 3), ~m1.tables[s][i].present
          PROVE  FALSE
      <3>1. Pg(v, j) \in Window /\ Pg(v, j) = IoPage + (b + j)
        BY <1>14
      <3>2. Walk(m, k, Pg(v, j)).present
        BY <1>12, <3>1, Zenon
      <3>3. m.tables[k][i].present
        BY <2>3, <3>2, TopPresent, Zenon
      <3>4. i >= Half
        <4>1. ~(Ix(Pg(v, j), 3) < Half)
          BY <3>1, WindowHigh, Zenon
        <4>2. QED
          BY <2>3, <4>1, TablesAssumption DEF Index, Half
      <3>5. m.tables[c][i] = m.tables[k][i]
        BY <3>4, Zenon DEF Sharing
      <3>6. QED
        BY <1>7, <2>3, <3>3, <3>5, Zenon
    <2>4. QED
      BY <1>7, <2>2, <2>3, Zenon
  <1>22. Stays(m, g, x, g2)
    <2>1. DOMAIN m1.tables \subseteq DOMAIN x.tables /\ m1.next <= x.next
          /\ \A f \in 0 .. m1.next - 1 : g2[f] = g1[f]
      BY <1>20, ZenonT(60) DEF Keeps
    <2>2. x.next \in Nat
      BY <1>20 DEF Good, IsMem
    <2>3. DOMAIN m.tables \subseteq DOMAIN x.tables
      BY <1>7, <2>1, Zenon
    <2>4. m.next <= x.next
      BY ONLY n \in Nat, <1>2, <1>7, <2>1, <2>2
    <2>5. \A f \in 0 .. m.next - 1 : f \in 0 .. m1.next - 1
      BY ONLY n \in Nat, <1>2, <1>7
    <2>6. \A f \in 0 .. m.next - 1 : g2[f] = g[f]
      BY <1>16, <2>1, <2>5, Zenon
    <2>7. QED
      BY <1>21, <2>3, <2>4, <2>6, Zenon DEF Stays
  <1>23. ASSUME NEW s \in DOMAIN m.tables, NEW p \in VPage, g[s].level = 3
         PROVE  Walk(x, s, p) = Walk(m, s, p) \/ (p \in Window /\ Walk(x, s, p).present)
    <2>1. s \in DOMAIN m1.tables /\ g1[s].level = 3
      BY <1>17, <1>23, Zenon
    <2>2. \/ Walk(x, s, p) = Walk(m1, s, p)
          \/ \E j \in 0 .. n - 1 : p = Pg(v, j) /\ Walk(x, s, p) = pml_make_entry(b + j, TRUE)
      BY <1>19, <2>1, Zenon DEF RangeMapped
    <2>3. Walk(m1, s, p) = Walk(m, s, p)
      BY <1>7, Zenon DEF Walk
    <2>4. \A j \in 0 .. n - 1 : pml_make_entry(b + j, TRUE).present
      BY DEF pml_make_entry
    <2>5. QED
      BY <1>14, <2>2, <2>3, <2>4, Zenon
  <1>24. QED
    BY <1>20, <1>22, <1>23, Zenon DEF WindowMapped

-----------------------------------------------------------------------------
(***************************************************************************)
(* The invariant.                                                          *)
(***************************************************************************)
\* The memory as pmm_init leaves it.
Fresh ==
    /\ mem = [tables |-> << >>, content |-> << >>, next |-> boot.first]
    /\ spaces = << >> /\ dead = {} /\ tlb = {} /\ mapped = 0

\* The tables are laid out as g says.
Layout(g) ==
    /\ Core(mem, g, kernel, boot.first)
    /\ Reaches(mem, kernel, BootMap(boot), mapped)
    /\ Sharing(mem, g, kernel, DOMAIN spaces, dead)

\* What is cached is what the tables of space c say, if they say anything,
\* and in the window it is what belongs there.
Cached(m, c, cache) ==
    \A t \in cache :
        /\ t.page \in VPage
        /\ t.page \in Window => t.entry.frame = t.page - IoPage
        /\ Walk(m, c, t.page).present => Walk(m, c, t.page).frame = t.entry.frame

Inv ==
    /\ boot \in Boots
    /\ status \in {"off", "booted"} => Fresh
    /\ status = "booted" => /\ handover = stivale2_parse_header(boot.tags)
                            /\ ~handover.overrun
    /\ status \in {"mapping", "running"} =>
         /\ ~stivale2_parse_header(boot.tags).overrun
         /\ handover.mmap = BootMap(boot)
         /\ mapped \in 0 .. Len(BootMap(boot))
         /\ \E g : Layout(g)
    /\ status = "mapping" => spaces = << >> /\ dead = {} /\ tlb = {}
    /\ status = "running" => /\ mapped = Len(BootMap(boot)) /\ cr3 \in Living
                             /\ Cached(mem, cr3, tlb)

\* The memory map.
LEMMA BootMapIs ==
    ASSUME NEW b \in Boots, ~stivale2_parse_header(b.tags).overrun
    PROVE  /\ b.first \in Nat /\ b.limit \in Nat /\ Len(BootMap(b)) \in Nat
           /\ \A i \in 1 .. Len(BootMap(b)) :
                /\ BootMap(b)[i].base \in Nat /\ BootMap(b)[i].length \in Nat
                /\ MachineEntry(BootMap(b)[i])
           /\ \A f \in b.first .. b.limit - 1 :
                \E i \in 1 .. Len(BootMap(b)) : f \in FreedPages(BootMap(b)[i])
  <1>1. PICK M : M = BootMap(b)
    OBVIOUS
  <1>2. PICK R : R = [base : Nat, length : Nat, type : STRING, is_free : BOOLEAN]
    OBVIOUS
  <1>3. /\ b.first \in Nat /\ b.limit \in Nat /\ M \in Seq(R)
        /\ \A i \in 1 .. Len(M) : MachineEntry(M[i])
        /\ \A f \in b.first .. b.limit - 1 : \E i \in 1 .. Len(M) : f \in FreedPages(M[i])
    BY <1>1, <1>2, BootAssumption, Zenon
  <1>4. Len(M) \in Nat /\ \A i \in 1 .. Len(M) : M[i] \in R
    BY <1>3
  <1>5. \A i \in 1 .. Len(M) : M[i].base \in Nat /\ M[i].length \in Nat
    BY <1>2, <1>4
  <1>6. QED
    BY <1>1, <1>3, <1>4, <1>5, Zenon

\* The frames that pmm_init has freed are among those vmm_init maps.
LEMMA FreedReached ==
    ASSUME NEW entry, entry.base \in Nat, entry.length \in Nat, MachineEntry(entry)
    PROVE  FreedPages(entry) \subseteq Reached(entry)
  <1>1. PICK b \in Nat, c \in Nat : b = entry.base \div PAGE_SIZE /\ c = AlignUp(entry.length) \div PAGE_SIZE
    BY EntryPages
  <1>2. b .. b + c - 1 \subseteq b .. b + c
    OBVIOUS
  <1>3. QED
    BY <1>1, <1>2 DEF FreedPages, Reached

\* Every page of memory is mapped once all entries of the map are.
LEMMA MapCovers ==
    ASSUME NEW b \in Boots, ~stivale2_parse_header(b.tags).overrun, NEW m, NEW k,
           Reaches(m, k, BootMap(b), Len(BootMap(b)))
    PROVE  Covers(m, k, b.first, b.limit)
  <1>1. SUFFICES ASSUME NEW f \in b.first .. b.limit - 1
                 PROVE  IoPage + f \in Window /\ Walk(m, k, IoPage + f).present
    BY DEF Covers
  <1>2. PICK i \in 1 .. Len(BootMap(b)) : f \in FreedPages(BootMap(b)[i])
    BY BootMapIs
  <1>3. BootMap(b)[i].base \in Nat /\ BootMap(b)[i].length \in Nat /\ MachineEntry(BootMap(b)[i])
    BY BootMapIs
  <1>4. f \in Reached(BootMap(b)[i])
    BY <1>2, <1>3, FreedReached, Zenon
  <1>5. QED
    BY <1>4, Zenon DEF Reaches

\* The kernel goes on to reach what it reached.
LEMMA ReachesOn ==
    ASSUME NEW m, NEW k, NEW map, NEW n, Reaches(m, k, map, n), NEW x,
           \A p \in VPage : Walk(m, k, p).present => Walk(x, k, p).present
    PROVE  Reaches(x, k, map, n)
  <1>1. SUFFICES ASSUME NEW i \in 1 .. n, NEW f \in Reached(map[i])
                 PROVE  IoPage + f \in Window /\ Walk(x, k, IoPage + f).present
    BY DEF Reaches
  <1>2. IoPage + f \in Window /\ Walk(m, k, IoPage + f).present
    BY Zenon DEF Reaches
  <1>3. IoPage + f \in VPage
    BY <1>2, WindowHigh, Zenon
  <1>4. QED
    BY <1>2, <1>3, Zenon

-----------------------------------------------------------------------------
(***************************************************************************)
(* The invariant is kept by every action.                                  *)
(***************************************************************************)
LEMMA InvInit == Init => Inv
  BY DEF Init, Inv, Fresh

\* stivale2_entry parses the tags and nothing is mapped yet.
LEMMA InvEntry ==
    ASSUME Inv, stivale2_entry
    PROVE  Inv'
  <1>1. boot' = boot /\ status = "off" /\ status' \in {"corrupt", "booted"}
        /\ handover' = stivale2_parse_header(boot.tags)
        /\ (status' = "booted" => ~handover'.overrun)
    BY DEF stivale2_entry
  <1>2. Fresh'
    BY <1>1 DEF Inv, Fresh, stivale2_entry
  <1>3. boot \in Boots
    BY DEF Inv
  <1>4. QED
    BY <1>1, <1>2, <1>3 DEF Inv

\* vmm_init builds the kernel's tables with the first window.
LEMMA InvVmmInit ==
    ASSUME Inv, vmm_init
    PROVE  Inv'
  <1>1. /\ boot \in Boots /\ status = "booted" /\ Fresh /\ handover = stivale2_parse_header(boot.tags)
        /\ ~handover.overrun
    BY DEF Inv, vmm_init
  <1>2. /\ boot' = boot /\ kernel' = mem.next /\ handover' = [handover EXCEPT !.mmap = pmm_init(boot, @)]
        /\ mem' = IoMapped(WithTable(mem, kernel')) /\ status' = "mapping"
        /\ spaces' = spaces /\ dead' = dead /\ tlb' = tlb /\ mapped' = mapped
    BY DEF vmm_init
  <1>3. /\ mem = [tables |-> << >>, content |-> << >>, next |-> boot.first]
        /\ spaces = << >> /\ dead = {} /\ tlb = {} /\ mapped = 0
    BY <1>1 DEF Fresh
  <1>4. PICK k \in Nat : k = boot.first /\ kernel' = k
    <2>1. boot.first \in Nat
      BY <1>1, BootAssumption
    <2>2. QED
      BY <1>2, <1>3, <2>1
  <1>5. PICK virt, phys : /\ virt = range_t(mmap_phys_to_io(0), IO_LENGTH)
                          /\ phys = range_t(0, IO_LENGTH)
    OBVIOUS
  <1>6. mem' = vmm_map_range(WithTable(mem, k), k, virt, phys, FALSE)
    BY <1>2, <1>4, <1>5, Zenon DEF IoMapped
  <1>7. PICK g : Core(mem', g, k, k)
    <2>1. PICK m, x : m = mem /\ x = mem'
      OBVIOUS
    <2>2. m = [tables |-> << >>, content |-> << >>, next |-> k]
      BY <1>3, <1>4, <2>1
    <2>3. x = vmm_map_range(WithTable(m, k), k, virt, phys, FALSE)
      BY <1>6, <2>1, Zenon
    <2>4. \E g : Core(x, g, k, k)
      BY ONLY k \in Nat, <1>5, <2>2, <2>3, FirstMapped
    <2>5. QED
      BY <2>1, <2>4, Zenon
  <1>8. Reaches(mem', k, BootMap(boot), 0)
    BY DEF Reaches
  <1>9. DOMAIN spaces' = {} /\ dead' = {}
    BY <1>2, <1>3
  <1>10. Sharing(mem', g, k, {}, {})
    BY DEF Sharing
  <1>11. Layout(g)'
    BY <1>2, <1>3, <1>4, <1>7, <1>8, <1>9, <1>10, Zenon DEF Layout
  <1>12. handover'.mmap = BootMap(boot)
    <2>1. PICK u, w, mm, mo, r, fb, o : handover =
             [memory_usable |-> u, usable_pages |-> w, mmap |-> mm, modules |-> mo,
              rsdt |-> r, framebuffer |-> fb, overrun |-> o]
      BY <1>1, HandoverShape, Zenon
    <2>2. handover'.mmap = pmm_init(boot, handover.mmap)
      BY <1>2, <2>1
    <2>3. QED
      BY <1>1, <2>2 DEF BootMap
  <1>13. 0 \in 0 .. Len(BootMap(boot)) /\ ~stivale2_parse_header(boot.tags).overrun
    BY <1>1, BootMapIs
  <1>14. spaces' = << >> /\ tlb' = {}
    BY <1>2, <1>3
  <1>15. /\ ~stivale2_parse_header(boot'.tags).overrun /\ handover'.mmap = BootMap(boot')
         /\ mapped' \in 0 .. Len(BootMap(boot')) /\ boot' \in Boots
    BY <1>1, <1>2, <1>3, <1>12, <1>13
  <1>16. QED
    BY <1>2, <1>9, <1>11, <1>14, <1>15 DEF Inv

\* vmm_init maps one more entry of the memory map.
LEMMA InvInitEntry ==
    ASSUME Inv, vmm_init_entry
    PROVE  Inv'
  <1>1. /\ boot \in Boots /\ status = "mapping" /\ ~stivale2_parse_header(boot.tags).overrun
        /\ handover.mmap = BootMap(boot) /\ mapped \in 0 .. Len(BootMap(boot))
        /\ spaces = << >> /\ dead = {} /\ tlb = {}
    BY DEF Inv, vmm_init_entry
  <1>2. /\ mapped < Len(handover.mmap) /\ mem' = MapEntry(mem, handover.mmap[mapped + 1])
        /\ mapped' = mapped + 1 /\ boot' = boot /\ handover' = handover /\ kernel' = kernel
        /\ spaces' = spaces /\ dead' = dead /\ tlb' = tlb /\ status' = status
    BY DEF vmm_init_entry
  <1>3. PICK g : Layout(g)
    BY <1>1 DEF Inv
  <1>4. PICK n \in Nat : n = mapped + 1 /\ n \in 1 .. Len(BootMap(boot))
    <2>1. Len(BootMap(boot)) \in Nat
      BY <1>1, BootMapIs
    <2>2. QED
      BY <1>1, <1>2, <2>1
  <1>5. PICK entry : entry = BootMap(boot)[n]
    OBVIOUS
  <1>6. entry.base \in Nat /\ entry.length \in Nat /\ MachineEntry(entry)
    BY <1>1, <1>4, <1>5, BootMapIs
  <1>7. PICK x : x = MapEntry(mem, entry) /\ x = mem'
    BY <1>1, <1>2, <1>4, <1>5
  <1>8. PICK g2 : /\ Remains(mem, x, g2, kernel, boot.first)
                  /\ \A f \in Reached(entry) :
                       IoPage + f \in Window /\ Walk(x, kernel, IoPage + f).present
    <2>1. Core(mem, g, kernel, boot.first)
      BY <1>3 DEF Layout
    <2>2. QED
      BY <1>6, <1>7, <2>1, EntryMapped, Zenon
  <1>9. Core(x, g2, kernel, boot.first)
    BY <1>8 DEF Remains
  <1>10. Reaches(x, kernel, BootMap(boot), n)
    <2>1. Reaches(x, kernel, BootMap(boot), mapped)
      <3>1. \A p \in VPage : Walk(mem, kernel, p).present => Walk(x, kernel, p).present
        BY <1>8, Zenon DEF Remains
      <3>2. Reaches(mem, kernel, BootMap(boot), mapped)
        BY <1>3 DEF Layout
      <3>3. QED
        BY <3>1, <3>2, ReachesOn, Zenon
    <2>2. SUFFICES ASSUME NEW i \in 1 .. n, NEW f \in Reached(BootMap(boot)[i])
                   PROVE  IoPage + f \in Window /\ Walk(x, kernel, IoPage + f).present
      BY DEF Reaches
    <2>3. CASE i = n
      BY <1>5, <1>8, <2>3, Zenon
    <2>4. CASE i # n
      <3>1. i \in 1 .. mapped
        BY <1>1, <1>4, <2>4
      <3>2. QED
        BY <2>1, <3>1, Zenon DEF Reaches
    <2>5. QED
      BY <2>3, <2>4
  <1>11. DOMAIN spaces = {}
    BY <1>1
  <1>12. Sharing(x, g2, kernel, {}, {})
    BY DEF Sharing
  <1>13. Layout(g2)'
    BY <1>1, <1>2, <1>4, <1>7, <1>9, <1>10, <1>11, <1>12, Zenon DEF Layout
  <1>14. /\ ~stivale2_parse_header(boot'.tags).overrun /\ handover'.mmap = BootMap(boot')
         /\ mapped' \in 0 .. Len(BootMap(boot')) /\ boot' \in Boots
         /\ status' = "mapping" /\ spaces' = << >> /\ dead' = {} /\ tlb' = {}
    BY <1>1, <1>2, <1>4
  <1>15. QED
    BY <1>13, <1>14 DEF Inv

\* vmm_init loads CR3 when the map is finished.
LEMMA InvInitDone ==
    ASSUME Inv, vmm_init_done
    PROVE  Inv'
  <1>1. /\ boot \in Boots /\ status = "mapping" /\ ~stivale2_parse_header(boot.tags).overrun
        /\ handover.mmap = BootMap(boot) /\ mapped \in 0 .. Len(BootMap(boot))
        /\ spaces = << >> /\ dead = {} /\ tlb = {}
    BY DEF Inv, vmm_init_done
  <1>2. /\ mapped = Len(handover.mmap) /\ mem' = mem /\ status' = "running" /\ cr3' = kernel
        /\ mapped' = mapped /\ boot' = boot /\ handover' = handover /\ kernel' = kernel
        /\ spaces' = spaces /\ dead' = dead /\ tlb' = tlb
    BY DEF vmm_init_done
  <1>3. PICK g : Layout(g)
    BY <1>1 DEF Inv
  <1>4. Layout(g)'
    BY <1>2, <1>3, Zenon DEF Layout
  <1>5. Cached(mem, cr3, tlb)' /\ (cr3 \in Living)'
    BY <1>1, <1>2 DEF Cached, Living
  <1>6. /\ ~stivale2_parse_header(boot'.tags).overrun /\ handover'.mmap = BootMap(boot')
        /\ mapped' \in 0 .. Len(BootMap(boot')) /\ boot' \in Boots
        /\ mapped' = Len(BootMap(boot')) /\ status' = "running"
    BY <1>1, <1>2
  <1>7. QED
    BY <1>4, <1>5, <1>6 DEF Inv

-----------------------------------------------------------------------------
\* While the kernel runs: the tables are laid out as g says, and the frames
\* that may be handed out are mapped.
Running(g) ==
    /\ status = "running" /\ boot \in Boots /\ ~stivale2_parse_header(boot.tags).overrun
    /\ boot.first \in Nat /\ boot.limit \in Nat
    /\ Layout(g) /\ Good(mem, g, kernel)
    /\ \A s \in Living : s \in DOMAIN mem.tables /\ g[s].level = 3
    /\ kernel \in DOMAIN mem.tables /\ g[kernel].level = 3
    /\ Covers(mem, kernel, boot.first, boot.limit)
    /\ cr3 \in Living /\ Cached(mem, cr3, tlb)

\* What is known of a running system.
LEMMA InvRunning ==
    ASSUME Inv, status = "running"
    PROVE  \E g : Running(g)
  <1>1. /\ boot \in Boots /\ ~stivale2_parse_header(boot.tags).overrun
        /\ mapped = Len(BootMap(boot)) /\ cr3 \in Living /\ Cached(mem, cr3, tlb)
    BY DEF Inv
  <1>2. PICK g : Layout(g)
    BY DEF Inv
  <1>3. /\ Core(mem, g, kernel, boot.first) /\ Sharing(mem, g, kernel, DOMAIN spaces, dead)
        /\ Reaches(mem, kernel, BootMap(boot), mapped)
    BY <1>2 DEF Layout
  <1>4. Good(mem, g, kernel) /\ kernel \in DOMAIN mem.tables /\ g[kernel].level = 3
    BY <1>3 DEF Core
  <1>5. Covers(mem, kernel, boot.first, boot.limit)
    BY <1>1, <1>3, MapCovers
  <1>6. \A s \in Living : s \in DOMAIN mem.tables /\ g[s].level = 3
    BY <1>3, <1>4, Zenon DEF Sharing, Living
  <1>7. boot.first \in Nat /\ boot.limit \in Nat
    BY <1>1, BootMapIs
  <1>8. QED
    BY <1>1, <1>2, <1>4, <1>5, <1>6, <1>7 DEF Running

\* What a step has to leave for the kernel to run on.
RunsOn(x, live, gone, c, cache) ==
    /\ \E g : Core(x, g, kernel, boot.first) /\ Sharing(x, g, kernel, live, gone)
    /\ \A p \in VPage : Walk(mem, kernel, p).present => Walk(x, kernel, p).present
    /\ c \in live \cup {kernel} /\ Cached(x, c, cache)

\* A step of a running system that keeps the tables, the kernel's pages and
\* the cached translations in order keeps the invariant.
LEMMA InvRunsOn ==
    ASSUME Inv, status = "running", status' = "running", boot' = boot, handover' = handover,
           mapped' = mapped, kernel' = kernel, RunsOn(mem', DOMAIN spaces', dead', cr3', tlb')
    PROVE  Inv'
  <1>1. /\ boot \in Boots /\ ~stivale2_parse_header(boot.tags).overrun
        /\ handover.mmap = BootMap(boot) /\ mapped \in 0 .. Len(BootMap(boot))
        /\ mapped = Len(BootMap(boot))
    BY DEF Inv
  <1>2. PICK g0 : Layout(g0)
    BY DEF Inv
  <1>3. PICK g : Core(mem', g, kernel, boot.first) /\ Sharing(mem', g, kernel, DOMAIN spaces', dead')
    BY DEF RunsOn
  <1>4. Reaches(mem', kernel, BootMap(boot), mapped)
    <2>1. PICK x : x = mem'
      OBVIOUS
    <2>2. Reaches(mem, kernel, BootMap(boot), mapped)
      BY <1>2 DEF Layout
    <2>3. \A p \in VPage : Walk(mem, kernel, p).present => Walk(x, kernel, p).present
      BY <2>1, Zenon DEF RunsOn
    <2>4. Reaches(x, kernel, BootMap(boot), mapped)
      BY <2>2, <2>3, ReachesOn, Zenon
    <2>5. QED
      BY <2>1, <2>4, Zenon
  <1>5. Layout(g)'
    BY <1>3, <1>4, Zenon DEF Layout
  <1>6. (cr3 \in Living)' /\ Cached(mem, cr3, tlb)'
    BY Zenon DEF RunsOn, Living
  <1>7. /\ ~stivale2_parse_header(boot'.tags).overrun /\ handover'.mmap = BootMap(boot')
        /\ mapped' \in 0 .. Len(BootMap(boot')) /\ boot' \in Boots
        /\ mapped' = Len(BootMap(boot'))
    BY <1>1
  <1>8. QED
    BY <1>5, <1>6, <1>7 DEF Inv

\* An assertion has failed.
LEMMA InvPanic ==
    ASSUME Inv, status' = "panic", boot' = boot
    PROVE  Inv'
  BY DEF Inv

\* The space a process is loaded into.
LEMMA LoadEffect ==
    ASSUME NEW g, Running(g), NEW image \in Images, NEW x, x = Loaded(image)
    PROVE  \E g2 : /\ Joins(mem, g, x, g2, kernel, mem.next)
                   /\ Core(x, g2, kernel, boot.first)
                   /\ Sharing(x, g2, kernel, DOMAIN spaces \cup {mem.next}, dead)
                   /\ \A s \in Living, p \in VPage : Walk(x, s, p) = Walk(mem, s, p)
  <1>1. /\ Core(mem, g, kernel, boot.first) /\ Sharing(mem, g, kernel, DOMAIN spaces, dead)
        /\ \A s \in Living : s \in DOMAIN mem.tables /\ g[s].level = 3
    BY DEF Running, Layout
  <1>2. PICK g2 : Joins(mem, g, x, g2, kernel, mem.next)
    BY <1>1, LoadedJoins, Zenon
  <1>3. Core(x, g2, kernel, boot.first) /\ Sharing(x, g2, kernel, DOMAIN spaces \cup {mem.next}, dead)
    BY <1>1, <1>2, JoinedSharing, Zenon
  <1>4. \A s \in Living, p \in VPage : Walk(x, s, p) = Walk(mem, s, p)
    BY <1>1, <1>2, Zenon DEF Joins
  <1>5. QED
    BY <1>2, <1>3, <1>4

\* load_elf_module, with task_init and its address space, keeps the invariant.
LEMMA InvLoad ==
    ASSUME Inv, NEW image \in Images, load_elf_module(image)
    PROVE  Inv'
  <1>1. /\ status = "running" /\ boot' = boot /\ mapped' = mapped /\ handover' = handover
        /\ kernel' = kernel /\ dead' = dead /\ cr3' = cr3
    BY DEF load_elf_module
  <1>2. CASE status' = "panic"
    BY <1>1, <1>2, InvPanic
  <1>3. CASE /\ mem' = Loaded(image)
             /\ spaces' = [s \in DOMAIN spaces \cup {mem.next} |->
                             IF s = mem.next THEN image ELSE spaces[s]]
             /\ tlb' = Flushed(image) /\ status' = status
    <2>1. PICK g : Running(g)
      BY <1>1, InvRunning
    <2>2. PICK x : x = Loaded(image) /\ x = mem'
      BY <1>3
    <2>3. PICK g2 : /\ Core(x, g2, kernel, boot.first)
                    /\ Sharing(x, g2, kernel, DOMAIN spaces \cup {mem.next}, dead)
                    /\ \A s \in Living, p \in VPage : Walk(x, s, p) = Walk(mem, s, p)
      BY <2>1, <2>2, LoadEffect, Zenon
    <2>4. DOMAIN spaces' = DOMAIN spaces \cup {mem.next}
      BY <1>3
    <2>5. cr3 \in Living /\ kernel \in Living /\ cr3 \in (DOMAIN spaces \cup {mem.next}) \cup {kernel}
      BY <2>1 DEF Living, Running
    <2>6. tlb' \subseteq tlb
      BY <1>3 DEF Flushed
    <2>7. Cached(x, cr3, tlb')
      <3>1. Cached(mem, cr3, tlb)
        BY <2>1 DEF Running
      <3>2. ASSUME NEW t \in tlb
            PROVE  /\ t.page \in VPage
                   /\ t.page \in Window => t.entry.frame = t.page - IoPage
                   /\ Walk(x, cr3, t.page).present => Walk(x, cr3, t.page).frame = t.entry.frame
        <4>1. /\ t.page \in VPage
              /\ t.page \in Window => t.entry.frame = t.page - IoPage
              /\ Walk(mem, cr3, t.page).present => Walk(mem, cr3, t.page).frame = t.entry.frame
          BY <3>1, Zenon DEF Cached
        <4>2. Walk(x, cr3, t.page) = Walk(mem, cr3, t.page)
          BY <2>3, <2>5, <4>1, Zenon
        <4>3. QED
          BY <4>1, <4>2, Zenon
      <3>3. QED
        BY <2>6, <3>2, Zenon DEF Cached
    <2>8. RunsOn(x, DOMAIN spaces \cup {mem.next}, dead, cr3, tlb')
      BY <2>3, <2>5, <2>7, Zenon DEF RunsOn
    <2>9. RunsOn(mem', DOMAIN spaces', dead', cr3', tlb')
      BY <1>1, <2>2, <2>4, <2>8, Zenon
    <2>10. QED
      BY <1>1, <1>3, <2>9, InvRunsOn
  <1>4. QED
    BY <1>2, <1>3 DEF load_elf_module

\* What the heap maps.
LEMMA HeapEffect ==
    ASSUME NEW g, Running(g), NEW bytes \in HeapBytes, NEW phys, NEW io, NEW x,
           phys = range_t(mem.next * PAGE_SIZE, bytes), io = range_t(mmap_phys_to_io(phys.base), bytes),
           x = vmm_map_range([mem EXCEPT !.next = @ + bytes \div PAGE_SIZE], cr3, io, phys, TRUE),
           HasFrames(x)
    PROVE  \E g2 : /\ Good(x, g2, kernel) /\ Stays(mem, g, x, g2)
                   /\ Core(x, g2, kernel, boot.first) /\ Sharing(x, g2, kernel, DOMAIN spaces, dead)
                   /\ \A s \in Living, p \in VPage :
                        Walk(x, s, p) = Walk(mem, s, p) \/ (p \in Window /\ Walk(x, s, p).present)
  <1>1. /\ Core(mem, g, kernel, boot.first) /\ Sharing(mem, g, kernel, DOMAIN spaces, dead)
        /\ \A s \in Living : s \in DOMAIN mem.tables /\ g[s].level = 3
        /\ boot.limit \in Nat /\ Covers(mem, kernel, boot.first, boot.limit)
        /\ cr3 \in DOMAIN spaces \cup {kernel}
    BY DEF Running, Layout, Living
  <1>2. bytes \in Nat /\ x.next <= boot.limit
    BY ProgramAssumption DEF HasFrames
  <1>3. PICK g2 : WindowMapped(mem, g, x, g2, kernel)
    BY <1>1, <1>2, HeapMapped
  <1>4. Core(x, g2, kernel, boot.first) /\ Sharing(x, g2, kernel, DOMAIN spaces, dead)
    BY <1>1, <1>3, StaysCore, ZenonT(60) DEF WindowMapped
  <1>5. QED
    BY <1>1, <1>3, <1>4, Zenon DEF WindowMapped

\* liballoc_alloc maps a chunk where the window has its frames already.
LEMMA InvHeap ==
    ASSUME Inv, NEW bytes \in HeapBytes, liballoc_alloc(bytes)
    PROVE  Inv'
  <1>1. /\ status = "running" /\ boot' = boot /\ mapped' = mapped /\ handover' = handover
        /\ kernel' = kernel /\ spaces' = spaces /\ dead' = dead /\ cr3' = cr3
    BY DEF liballoc_alloc
  <1>2. PICK phys, io, x :
           /\ phys = range_t(mem.next * PAGE_SIZE, bytes) /\ io = range_t(mmap_phys_to_io(phys.base), bytes)
           /\ x = vmm_map_range([mem EXCEPT !.next = @ + bytes \div PAGE_SIZE], cr3, io, phys, TRUE)
    OBVIOUS
  <1>3. \/ HasFrames(x) /\ mem' = x /\ tlb' = vmm_flush(io, tlb) /\ status' = status
        \/ status' = "panic"
    BY <1>2 DEF liballoc_alloc
  <1>4. CASE status' = "panic"
    BY <1>1, <1>4, InvPanic
  <1>5. CASE HasFrames(x) /\ mem' = x /\ tlb' = vmm_flush(io, tlb) /\ status' = status
    <2>1. PICK g : Running(g)
      BY <1>1, InvRunning
    <2>2. PICK g2 : /\ Good(x, g2, kernel)
                    /\ Core(x, g2, kernel, boot.first) /\ Sharing(x, g2, kernel, DOMAIN spaces, dead)
                    /\ \A s \in Living, p \in VPage :
                        Walk(x, s, p) = Walk(mem, s, p) \/ (p \in Window /\ Walk(x, s, p).present)
      BY <1>2, <1>5, <2>1, HeapEffect
    <2>3. cr3 \in Living /\ kernel \in Living /\ cr3 \in DOMAIN spaces \cup {kernel}
      BY <2>1 DEF Living, Running
    <2>4. tlb' \subseteq tlb
      BY <1>5 DEF vmm_flush
    <2>5. cr3 \in DOMAIN x.tables /\ g2[cr3].level = 3
      BY <2>2, <2>3, Zenon DEF Core, Sharing
    <2>6. Cached(x, cr3, tlb')
      <3>1. Cached(mem, cr3, tlb)
        BY <2>1 DEF Running
      <3>2. ASSUME NEW t \in tlb
            PROVE  /\ t.page \in VPage
                   /\ t.page \in Window => t.entry.frame = t.page - IoPage
                   /\ Walk(x, cr3, t.page).present => Walk(x, cr3, t.page).frame = t.entry.frame
        <4>1. /\ t.page \in VPage
              /\ t.page \in Window => t.entry.frame = t.page - IoPage
              /\ Walk(mem, cr3, t.page).present => Walk(mem, cr3, t.page).frame = t.entry.frame
          BY <3>1, Zenon DEF Cached
        <4>2. CASE Walk(x, cr3, t.page) = Walk(mem, cr3, t.page)
          BY <4>1, <4>2, Zenon
        <4>3. CASE t.page \in Window /\ Walk(x, cr3, t.page).present
          <5>1. Walk(x, cr3, t.page).frame = t.page - IoPage
            BY <2>2, <2>5, <4>3, WindowWalk, Zenon
          <5>2. QED
            BY <4>1, <4>3, <5>1, Zenon
        <4>4. QED
          BY <2>2, <2>3, <4>1, <4>2, <4>3, Zenon
      <3>3. QED
        BY <2>4, <3>2, Zenon DEF Cached
    <2>7. \A p \in VPage : Walk(mem, kernel, p).present => Walk(x, kernel, p).present
      BY <2>2, <2>3, Zenon
    <2>8. RunsOn(x, DOMAIN spaces, dead, cr3, tlb')
      BY <2>2, <2>3, <2>6, <2>7, Zenon DEF RunsOn
    <2>9. RunsOn(mem', DOMAIN spaces', dead', cr3', tlb')
      BY <1>1, <1>5, <2>8, Zenon
    <2>10. QED
      BY <1>1, <1>5, <2>9, InvRunsOn
  <1>6. QED
    BY <1>3, <1>4, <1>5

-----------------------------------------------------------------------------
\* vmm_switch_space empties the translations that are cached.
LEMMA InvSwitch ==
    ASSUME Inv, NEW s \in DOMAIN spaces \cup {kernel}, vmm_switch_space(s)
    PROVE  Inv'
  <1>1. /\ status = "running" /\ boot' = boot /\ mapped' = mapped /\ handover' = handover
        /\ kernel' = kernel /\ spaces' = spaces /\ dead' = dead /\ mem' = mem
        /\ cr3' = s /\ tlb' = {} /\ status' = status
    BY DEF vmm_switch_space
  <1>2. PICK g : Running(g)
    BY <1>1, InvRunning
  <1>3. Core(mem, g, kernel, boot.first) /\ Sharing(mem, g, kernel, DOMAIN spaces, dead)
    BY <1>2 DEF Running, Layout
  <1>4. Cached(mem, s, {})
    BY DEF Cached
  <1>5. RunsOn(mem, DOMAIN spaces, dead, s, {})
    BY <1>3, <1>4 DEF RunsOn
  <1>6. RunsOn(mem', DOMAIN spaces', dead', cr3', tlb')
    BY <1>1, <1>5, Zenon
  <1>7. QED
    BY <1>1, <1>6, InvRunsOn

\* The CPU caches a translation of the space it runs in.
LEMMA InvTouch ==
    ASSUME Inv, NEW page \in Touched, touch(page)
    PROVE  Inv'
  <1>1. /\ status = "running" /\ boot' = boot /\ mapped' = mapped /\ handover' = handover
        /\ kernel' = kernel /\ spaces' = spaces /\ dead' = dead /\ mem' = mem
        /\ cr3' = cr3 /\ status' = status /\ Walk(mem, cr3, page).present
        /\ tlb' = tlb \cup {[page |-> page, entry |-> Walk(mem, cr3, page)]}
    BY DEF touch
  <1>2. PICK g : Running(g)
    BY <1>1, InvRunning
  <1>3. /\ Core(mem, g, kernel, boot.first) /\ Sharing(mem, g, kernel, DOMAIN spaces, dead)
        /\ Cached(mem, cr3, tlb) /\ cr3 \in DOMAIN spaces \cup {kernel}
        /\ Good(mem, g, kernel) /\ cr3 \in DOMAIN mem.tables /\ g[cr3].level = 3
    BY <1>2 DEF Running, Layout, Living
  <1>4. page \in VPage
    BY ProgramAssumption DEF VPage
  <1>5. PICK t : t = [page |-> page, entry |-> Walk(mem, cr3, page)]
    OBVIOUS
  <1>6. t.page = page /\ t.entry = Walk(mem, cr3, page)
    BY <1>5
  <1>7. t.page \in Window => t.entry.frame = t.page - IoPage
    BY <1>1, <1>3, <1>6, WindowWalk, Zenon
  <1>8. Walk(mem, cr3, t.page).frame = t.entry.frame
    BY <1>6, Zenon
  <1>9. Cached(mem, cr3, tlb')
    <2>1. tlb' = tlb \cup {t}
      BY <1>1, <1>5
    <2>2. t.page \in VPage
      BY <1>4, <1>6
    <2>3. QED
      BY <1>3, <1>7, <1>8, <2>1, <2>2, Zenon DEF Cached
  <1>10. RunsOn(mem, DOMAIN spaces, dead, cr3, tlb')
    BY <1>3, <1>9 DEF RunsOn
  <1>11. RunsOn(mem', DOMAIN spaces', dead', cr3', tlb')
    BY <1>1, <1>10, Zenon
  <1>12. QED
    BY <1>1, <1>11, InvRunsOn

\* Unmapping takes a page from one space.
LEMMA UnmapEffect ==
    ASSUME NEW g, Running(g), NEW s \in DOMAIN spaces, NEW page \in Touched \ KernelPage,
           LeafTable(mem, s, page) # {}, NEW x, x = vmm_unmap_page(mem, s, page)
    PROVE  /\ Good(x, g, kernel) /\ Stays(mem, g, x, g)
           /\ Core(x, g, kernel, boot.first) /\ Sharing(x, g, kernel, DOMAIN spaces, dead)
           /\ \A u \in Living, q \in VPage :
                Walk(x, u, q) = Walk(mem, u, q) \/ (u = s /\ q = page /\ Walk(x, u, q) = Absent)
  <1>1. /\ Core(mem, g, kernel, boot.first) /\ Sharing(mem, g, kernel, DOMAIN spaces, dead)
        /\ \A u \in Living : u \in DOMAIN mem.tables /\ g[u].level = 3
        /\ Good(mem, g, kernel) /\ s \in Living
    BY DEF Running, Layout, Living
  <1>2. page \in VPage
    BY ProgramAssumption DEF VPage
  <1>3. s \in DOMAIN mem.tables /\ g[s].level = 3
    BY <1>1
  <1>4. PICK t : /\ Leads(mem, s, page, t) /\ Lands(mem, g, s, page, t)
                 /\ Wrote(mem, g, x, kernel, t, Ix(page, 0), Absent)
    BY <1>1, <1>2, <1>3, Unmap, Zenon
  <1>5. Good(x, g, kernel)
    BY <1>4, Zenon DEF Wrote
  <1>6. Stays(mem, g, x, g)
    BY <1>4, Zenon DEF Wrote, Keeps, Stays
  <1>7. Core(x, g, kernel, boot.first) /\ Sharing(x, g, kernel, DOMAIN spaces, dead)
    BY <1>1, <1>5, <1>6, StaysCore, Zenon
  <1>8. ASSUME NEW u \in Living, NEW q \in VPage, Walk(x, u, q) # Walk(mem, u, q)
        PROVE  u = s /\ q = page /\ Walk(x, u, q) = Absent
    <2>1. u \in DOMAIN mem.tables /\ g[u].level = 3
      BY <1>1
    <2>2. Walk(x, u, q) = IF Leads(mem, u, q, t) /\ Ix(q, 0) = Ix(page, 0) THEN Absent ELSE Walk(mem, u, q)
      BY <1>4, <2>1, Zenon DEF Wrote
    <2>3. Leads(mem, u, q, t) /\ Ix(q, 0) = Ix(page, 0) /\ Walk(x, u, q) = Absent
      BY <1>8, <2>2, Zenon
    <2>4. Lands(mem, g, u, q, t)
      BY <1>1, <2>1, <2>3, Landing, Zenon
    <2>5. q = page
      BY <1>4, <2>3, <2>4, Zenon DEF Lands
    <2>6. Ix(page, 3) < Half
      <3>1. Ix(page, 3) \in Index /\ ~(Ix(page, 3) >= ENTRIES \div 2)
        BY <1>2, TopIndex
      <3>2. QED
        BY <3>1, TablesAssumption DEF Half, Index
    <2>7. g[t].own = s /\ g[t].own = u
      BY <1>4, <2>4, <2>5, <2>6, Zenon DEF Lands
    <2>8. QED
      BY <2>3, <2>5, <2>7, Zenon
  <1>9. QED
    BY <1>5, <1>6, <1>7, <1>8, Zenon

\* vmm_unmap takes a page of one process away.
LEMMA InvUnmap ==
    ASSUME Inv, NEW s \in DOMAIN spaces, NEW page \in Touched \ KernelPage, vmm_unmap(s, page)
    PROVE  Inv'
  <1>1. /\ status = "running" /\ boot' = boot /\ mapped' = mapped /\ handover' = handover
        /\ kernel' = kernel /\ spaces' = spaces /\ dead' = dead /\ cr3' = cr3 /\ tlb' = tlb
    BY DEF vmm_unmap
  <1>2. \/ status' = "panic"
        \/ /\ LeafTable(mem, s, page) # {}
           /\ mem' = vmm_unmap_page(mem, s, page) /\ status' = status
    BY DEF vmm_unmap
  <1>3. CASE status' = "panic"
    BY <1>1, <1>3, InvPanic
  <1>4. CASE /\ LeafTable(mem, s, page) # {}
             /\ mem' = vmm_unmap_page(mem, s, page) /\ status' = status
    <2>1. PICK g : Running(g)
      BY <1>1, InvRunning
    <2>2. PICK x : x = vmm_unmap_page(mem, s, page) /\ x = mem'
      BY <1>4
    <2>3. /\ Core(x, g, kernel, boot.first) /\ Sharing(x, g, kernel, DOMAIN spaces, dead)
          /\ \A u \in Living, q \in VPage :
               Walk(x, u, q) = Walk(mem, u, q) \/ (u = s /\ q = page /\ Walk(x, u, q) = Absent)
      BY <1>4, <2>1, <2>2, UnmapEffect
    <2>4. cr3 \in Living /\ kernel \in Living /\ cr3 \in DOMAIN spaces \cup {kernel}
      BY <2>1 DEF Living, Running
    <2>5. s # kernel
      BY <2>3, Zenon DEF Sharing
    <2>6. Cached(x, cr3, tlb)
      <3>1. Cached(mem, cr3, tlb)
        BY <2>1 DEF Running
      <3>2. ASSUME NEW t \in tlb
            PROVE  /\ t.page \in VPage
                   /\ t.page \in Window => t.entry.frame = t.page - IoPage
                   /\ Walk(x, cr3, t.page).present => Walk(x, cr3, t.page).frame = t.entry.frame
        <4>1. /\ t.page \in VPage
              /\ t.page \in Window => t.entry.frame = t.page - IoPage
              /\ Walk(mem, cr3, t.page).present => Walk(mem, cr3, t.page).frame = t.entry.frame
          BY <3>1, Zenon DEF Cached
        <4>2. Walk(x, cr3, t.page) = Walk(mem, cr3, t.page) \/ Walk(x, cr3, t.page) = Absent
          BY <2>3, <2>4, <4>1, Zenon
        <4>3. QED
          BY <4>1, <4>2, AbsentIs, Zenon
      <3>3. QED
        BY <3>2, Zenon DEF Cached
    <2>7. \A p \in VPage : Walk(x, kernel, p) = Walk(mem, kernel, p)
      BY <2>3, <2>4, <2>5, Zenon
    <2>8. RunsOn(x, DOMAIN spaces, dead, cr3, tlb)
      BY <2>3, <2>4, <2>6, <2>7, Zenon DEF RunsOn
    <2>9. RunsOn(mem', DOMAIN spaces', dead', cr3', tlb')
      BY <1>1, <2>2, <2>8, Zenon
    <2>10. QED
      BY <1>1, <1>4, <2>9, InvRunsOn
  <1>5. QED
    BY <1>2, <1>3, <1>4

\* Destroying a space takes nothing from the others.
LEMMA DestroyEffect ==
    ASSUME NEW g, Running(g), NEW s \in DOMAIN spaces \cup dead,
           NEW x, x = [mem EXCEPT !.tables[s] = EmptyTable]
    PROVE  /\ s # kernel /\ Good(x, g, kernel) /\ Core(x, g, kernel, boot.first)
           /\ Sharing(x, g, kernel, DOMAIN spaces \ {s}, dead \cup {s})
           /\ \A u \in Living \ {s}, p \in VPage : Walk(x, u, p) = Walk(mem, u, p)
  <1>1. /\ Core(mem, g, kernel, boot.first) /\ Sharing(mem, g, kernel, DOMAIN spaces, dead)
        /\ \A u \in Living : u \in DOMAIN mem.tables /\ g[u].level = 3
        /\ Good(mem, g, kernel) /\ kernel \in DOMAIN mem.tables /\ g[kernel].level = 3
    BY DEF Running, Layout
  <1>2. s \in DOMAIN mem.tables /\ g[s].level = 3 /\ s # kernel
    BY <1>1, Zenon DEF Sharing
  <1>3. /\ Good(x, g, kernel) /\ DOMAIN x.tables = DOMAIN mem.tables
        /\ x.next = mem.next
        /\ \A u \in DOMAIN mem.tables : u # s => x.tables[u] = mem.tables[u]
    BY <1>1, <1>2, ClearTop
  <1>4. x.tables[kernel] = mem.tables[kernel]
    BY <1>1, <1>2, <1>3, Zenon
  <1>5. Core(x, g, kernel, boot.first)
    BY <1>1, <1>3, <1>4, Zenon DEF Core
  <1>6. Sharing(x, g, kernel, DOMAIN spaces \ {s}, dead \cup {s})
    <2>1. \A u \in (DOMAIN spaces \ {s}) \cup (dead \cup {s}) :
             u \in DOMAIN x.tables /\ g[u].level = 3 /\ u # kernel
      BY <1>1, <1>3, Zenon DEF Sharing
    <2>2. ASSUME NEW u \in DOMAIN spaces \ {s}, NEW i \in Index, i >= Half
          PROVE  x.tables[u][i] = x.tables[kernel][i]
      <3>1. u \in DOMAIN mem.tables /\ u # s /\ mem.tables[u][i] = mem.tables[kernel][i]
        BY <1>1, <2>2, Zenon DEF Sharing
      <3>2. x.tables[u] = mem.tables[u]
        BY <1>3, <3>1, Zenon
      <3>3. QED
        BY <1>4, <3>1, <3>2, Zenon
    <2>3. QED
      BY <2>1, <2>2, Zenon DEF Sharing
  <1>7. ASSUME NEW u \in Living \ {s}, NEW p \in VPage PROVE Walk(x, u, p) = Walk(mem, u, p)
    <2>1. u \in DOMAIN mem.tables /\ g[u].level = 3
      BY <1>1
    <2>2. x.tables[u][Ix(p, 3)] = mem.tables[u][Ix(p, 3)]
      BY <1>3, <2>1, Zenon
    <2>3. ASSUME NEW v \in DOMAIN mem.tables, NEW j \in Index, g[v].level < 3
          PROVE  x.tables[v][j] = mem.tables[v][j]
      <3>1. v # s
        <4>1. ASSUME v = s PROVE FALSE
          BY <1>2, <2>3, <4>1
        <4>2. QED
          BY <4>1
      <3>2. QED
        BY <1>3, <3>1, Zenon
    <2>4. QED
      BY ONLY p \in VPage, <1>1, <2>1, <2>2, <2>3, WalkDepends
  <1>8. QED
    BY <1>2, <1>3, <1>5, <1>6, <1>7, Zenon

\* vmm_space_destroy frees a top table that no living process uses.
LEMMA InvDestroy ==
    ASSUME Inv, NEW s \in DOMAIN spaces \cup dead, vmm_space_destroy(s)
    PROVE  Inv'
  <1>1. /\ status = "running" /\ boot' = boot /\ mapped' = mapped /\ handover' = handover
        /\ kernel' = kernel /\ cr3' = cr3 /\ tlb' = tlb /\ s # cr3 /\ status' = status
        /\ spaces' = [t \in DOMAIN spaces \ {s} |-> spaces[t]] /\ dead' = dead \cup {s}
    BY DEF vmm_space_destroy
  <1>2. PICK g : Running(g)
    BY <1>1, InvRunning
  <1>3. PICK x : x = [mem EXCEPT !.tables[s] = EmptyTable] /\ x = mem'
    BY DEF vmm_space_destroy
  <1>4. /\ s # kernel /\ Core(x, g, kernel, boot.first)
        /\ Sharing(x, g, kernel, DOMAIN spaces \ {s}, dead \cup {s})
        /\ \A u \in Living \ {s}, p \in VPage : Walk(x, u, p) = Walk(mem, u, p)
    BY <1>2, <1>3, DestroyEffect, ZenonT(60)
  <1>5. DOMAIN spaces' = DOMAIN spaces \ {s}
    BY <1>1
  <1>6. cr3 \in Living \ {s} /\ kernel \in Living \ {s} /\ cr3 \in (DOMAIN spaces \ {s}) \cup {kernel}
    BY <1>1, <1>2, <1>4 DEF Living, Running
  <1>7. Cached(x, cr3, tlb)
    <2>1. Cached(mem, cr3, tlb)
      BY <1>2 DEF Running
    <2>2. \A p \in VPage : Walk(x, cr3, p) = Walk(mem, cr3, p)
      BY <1>4, <1>6, Zenon
    <2>3. QED
      BY <2>1, <2>2, Zenon DEF Cached
  <1>8. RunsOn(x, DOMAIN spaces \ {s}, dead \cup {s}, cr3, tlb)
    BY <1>4, <1>6, <1>7, Zenon DEF RunsOn
  <1>9. RunsOn(mem', DOMAIN spaces', dead', cr3', tlb')
    BY <1>1, <1>3, <1>5, <1>8, Zenon
  <1>10. QED
    BY <1>1, <1>9, InvRunsOn

\* Nothing happens.
LEMMA InvStutter ==
    ASSUME Inv, UNCHANGED vars
    PROVE  Inv'
  BY DEF Inv, vars, Fresh, Layout, Cached, Living

\* Every step keeps the invariant.
LEMMA InvNext ==
    ASSUME Inv, [Next]_vars
    PROVE  Inv'
  BY InvEntry, InvVmmInit, InvInitEntry, InvInitDone, InvLoad, InvHeap, InvSwitch, InvTouch,
     InvUnmap, InvDestroy, InvStutter DEF Next, Stopped

\* The layout of the tables, the window of the memory map, the kernel half the
\* spaces share and the cached translations stay in order, whatever vmm_map,
\* vmm_unmap, vmm_switch_space, vmm_space_create and vmm_space_destroy do.
THEOREM Invariance == Spec => []Inv
  BY InvInit, InvNext, PTL DEF Spec

\* CachedFrameIsCurrent: a translation the CPU has cached is never of another
\* frame than the tables say, although vmm_flush invalidates the wrong page and
\* vmm_unmap none: no page in use is ever mapped to another frame.
THEOREM CachedCurrent == Spec => []CachedFrameIsCurrent
  <1>1. Inv => CachedFrameIsCurrent
    BY DEF Inv, Cached, CachedFrameIsCurrent
  <1>2. QED
    BY <1>1, Invariance, PTL

-----------------------------------------------------------------------------
(***************************************************************************)
(* What the kernel and the processes reach.                                *)
(***************************************************************************)
\* The pages of an entry of the memory map are among those vmm_init maps.
LEMMA EntryReached ==
    ASSUME NEW entry, entry.base \in Nat, entry.length \in Nat, MachineEntry(entry),
           NEW f \in PageOf(entry.base) .. PageOf(entry.base + entry.length - 1)
    PROVE  f \in Reached(entry) /\ f \in Nat
  <1>1. PICK b \in Nat, c \in Nat :
             /\ b = entry.base \div PAGE_SIZE
             /\ c = AlignUp(entry.length) \div PAGE_SIZE
             /\ IoPage + (b + (c + 1)) <= MMAP_KERNEL_BASE \div PAGE_SIZE
             /\ entry.base + entry.length - 1 \in Nat
             /\ (entry.base + entry.length - 1) \div PAGE_SIZE <= b + c
    BY EntryPages
  <1>2. PICK io \in Nat, kp \in Nat, V \in Nat \ {0}, P \in Nat \ {0} :
           io = IoPage /\ kp = MMAP_KERNEL_BASE \div PAGE_SIZE /\ V = VPages /\ P = PAGE_SIZE /\ kp <= V
    BY WindowIs, TablesAssumption
  <1>3. PICK d \in Int, r \in 0 .. P - 1 :
           /\ d = (entry.base + entry.length - 1) \div P
           /\ entry.base + entry.length - 1 = d * P + r
    <2>1. PICK z \in Int : z = entry.base + entry.length - 1
      BY <1>1
    <2>2. \E d \in Int, r \in 0 .. P - 1 : d = z \div P /\ z = d * P + r
      BY DivMod
    <2>3. QED
      BY <2>1, <2>2, Zenon
  <1>4. d \in Nat
    BY <1>1, <1>3
  <1>5. b < V /\ d < V /\ d <= b + c
    BY <1>1, <1>2, <1>3
  <1>6. b % V = b /\ d % V = d
    BY <1>4, <1>5, ModOnce
  <1>7. PageOf(entry.base) = b /\ PageOf(entry.base + entry.length - 1) = d
    BY <1>1, <1>2, <1>3, <1>6 DEF PageOf
  <1>8. f \in b .. d
    BY <1>7
  <1>9. QED
    BY <1>1, <1>5, <1>8 DEF Reached

\* The page of a frame's I/O address.
LEMMA IoPageOf ==
    ASSUME NEW f \in Nat, IoPage + f \in Window
    PROVE  PageOf(mmap_phys_to_io(f * PAGE_SIZE)) = IoPage + f
  <1>1. PICK io \in Nat, kp \in Nat, V \in Nat \ {0}, P \in Nat \ {0} :
           /\ io = IoPage /\ kp = MMAP_KERNEL_BASE \div PAGE_SIZE /\ V = VPages /\ P = PAGE_SIZE
           /\ kp <= V /\ MMAP_IO_BASE = io * P /\ Window = io .. kp - 1
    BY WindowIs, TablesAssumption
  <1>2. io + f < V /\ io + f \in Nat
    BY <1>1
  <1>3. mmap_phys_to_io(f * PAGE_SIZE) = (io + f) * PAGE_SIZE + 0
    <2>1. f * P + io * P = (io + f) * P + 0
      BY SMTT(30)
    <2>2. QED
      BY <1>1, <2>1 DEF mmap_phys_to_io
  <1>4. 0 \in 0 .. PAGE_SIZE - 1
    BY <1>1
  <1>5. PageOf((io + f) * PAGE_SIZE + 0) = (io + f) % VPages
    BY <1>2, <1>4, PageIs, Zenon
  <1>6. (io + f) % V = io + f
    BY <1>2, ModOnce
  <1>7. QED
    BY <1>1, <1>3, <1>5, <1>6

\* MemoryIsReachable: once vmm_init is done, every page of the memory map is
\* mapped at its I/O address, in every address space there will be.
THEOREM Reachable == Spec => []MemoryIsReachable
  <1>1. ASSUME Inv PROVE MemoryIsReachable
    <2>1. SUFFICES ASSUME status = "running", NEW i \in 1 .. Len(handover.mmap), NEW s \in Living,
                          NEW f \in PageOf(handover.mmap[i].base) ..
                                      PageOf(handover.mmap[i].base + handover.mmap[i].length - 1)
                   PROVE  /\ Walk(mem, s, PageOf(mmap_phys_to_io(f * PAGE_SIZE))).present
                          /\ Walk(mem, s, PageOf(mmap_phys_to_io(f * PAGE_SIZE))).frame = f
      BY Zenon DEF MemoryIsReachable
    <2>2. PICK g : Running(g)
      BY <1>1, <2>1, InvRunning
    <2>3. /\ boot \in Boots /\ ~stivale2_parse_header(boot.tags).overrun
          /\ handover.mmap = BootMap(boot) /\ mapped = Len(BootMap(boot))
      BY <1>1, <2>1 DEF Inv
    <2>4. PICK entry : entry = BootMap(boot)[i] /\ entry = handover.mmap[i]
      BY <2>3
    <2>5. entry.base \in Nat /\ entry.length \in Nat /\ MachineEntry(entry)
      BY <2>3, <2>4, BootMapIs
    <2>6. f \in Reached(entry) /\ f \in Nat
      BY <2>4, <2>5, EntryReached
    <2>7. IoPage + f \in Window /\ Walk(mem, kernel, IoPage + f).present
      <3>1. Reaches(mem, kernel, BootMap(boot), mapped)
        BY <2>2 DEF Running, Layout
      <3>2. i \in 1 .. mapped
        BY <2>3
      <3>3. QED
        BY <2>4, <2>6, <3>1, <3>2, Zenon DEF Reaches
    <2>8. PageOf(mmap_phys_to_io(f * PAGE_SIZE)) = IoPage + f
      BY <2>6, <2>7, IoPageOf
    <2>9. /\ Good(mem, g, kernel) /\ kernel \in DOMAIN mem.tables /\ g[kernel].level = 3
          /\ Sharing(mem, g, kernel, DOMAIN spaces, dead)
          /\ s \in DOMAIN spaces \cup {kernel}
      BY <2>2 DEF Running, Layout, Living
    <2>10. Walk(mem, s, IoPage + f) = Walk(mem, kernel, IoPage + f)
      <3>1. IoPage + f \in VPage /\ IoPage + f \in KernelPage
        BY <2>7, WindowHigh
      <3>2. QED
        BY ONLY <2>9, <3>1, KernelSame
    <2>11. Walk(mem, kernel, IoPage + f).frame = f
      <3>1. Walk(mem, kernel, IoPage + f).frame = (IoPage + f) - IoPage
        BY <2>7, <2>9, WindowWalk, Zenon
      <3>2. PICK io \in Nat : io = IoPage
        BY WindowIs
      <3>3. (io + f) - io = f
        BY <2>6
      <3>4. QED
        BY <3>1, <3>2, <3>3
    <2>12. QED
      BY <2>7, <2>8, <2>10, <2>11, Zenon
  <1>2. QED
    BY <1>1, Invariance, PTL

-----------------------------------------------------------------------------
\* The tables in T are of a level.
AtLevel(g, T, n) == \A t \in T : t \in DOMAIN mem.tables /\ g[t].level = n

\* A frame below tables is that of a present entry of one of them.
LEMMA BelowIs ==
    ASSUME NEW T, NEW f \in Below(T)
    PROVE  \E t \in T, i \in Index : mem.tables[t][i].present /\ f = mem.tables[t][i].frame
  BY DEF Below, Index

\* The tables below are a level further down.
LEMMA BelowLevel ==
    ASSUME NEW g, Good(mem, g, kernel), NEW T, NEW n \in 1 .. 3, AtLevel(g, T, n)
    PROVE  AtLevel(g, Below(T), n - 1)
  <1>1. SUFFICES ASSUME NEW f \in Below(T) PROVE f \in DOMAIN mem.tables /\ g[f].level = n - 1
    BY DEF AtLevel
  <1>2. PICK t \in T, i \in Index : mem.tables[t][i].present /\ f = mem.tables[t][i].frame
    BY BelowIs
  <1>3. t \in DOMAIN mem.tables /\ g[t].level = n
    BY Zenon DEF AtLevel
  <1>4. g[t].level > 0
    BY <1>3
  <1>5. f \in DOMAIN mem.tables /\ Under(g, t, i, f)
    BY <1>2, <1>3, <1>4, Down, Zenon
  <1>6. QED
    BY <1>3, <1>5, Zenon DEF Under

\* Tables of the lower half of a space.
OwnedBy(g, T, s, n) ==
    \A t \in T : /\ t \in DOMAIN mem.tables /\ g[t].level = n
                 /\ g[t].own = s /\ g[t].ix3 < Half

\* The tables below belong to the same space.
LEMMA BelowOwned ==
    ASSUME NEW g, Good(mem, g, kernel), NEW T, NEW s, NEW n \in 1 .. 2, OwnedBy(g, T, s, n)
    PROVE  OwnedBy(g, Below(T), s, n - 1)
  <1>1. SUFFICES ASSUME NEW f \in Below(T)
                 PROVE  /\ f \in DOMAIN mem.tables /\ g[f].level = n - 1
                        /\ g[f].own = s /\ g[f].ix3 < Half
    BY DEF OwnedBy
  <1>2. PICK t \in T, i \in Index : mem.tables[t][i].present /\ f = mem.tables[t][i].frame
    BY BelowIs
  <1>3. t \in DOMAIN mem.tables /\ g[t].level = n /\ g[t].own = s /\ g[t].ix3 < Half
    BY Zenon DEF OwnedBy
  <1>4. g[t].level > 0 /\ (g[t].level = 1 \/ g[t].level = 2)
    BY <1>3
  <1>5. f \in DOMAIN mem.tables /\ Under(g, t, i, f)
    BY <1>2, <1>3, <1>4, Down, Zenon
  <1>6. g[f].level = n - 1
    BY <1>3, <1>5, Zenon DEF Under
  <1>7. g[f].own = s /\ g[f].ix3 = g[t].ix3
    BY <1>3, <1>4, <1>5, Zenon DEF Under
  <1>8. QED
    BY <1>3, <1>5, <1>6, <1>7, Zenon

\* What fits in an entry of a lowest table.
LEMMA LeafFits ==
    ASSUME NEW g, Good(mem, g, kernel), NEW t \in DOMAIN mem.tables, g[t].level = 0, NEW i \in Index,
           NEW e, e = mem.tables[t][i]
    PROVE  \E p : Fits(mem, g, kernel, g[t].own, g[t].ix3, p, e)
  <1>1. Fitting(mem, g, kernel, t, i)
    BY Zenon DEF Good
  <1>2. QED
    BY <1>1, Zenon DEF Fitting

\* A frame users may access was allocated for contents, and is no table.
LEMMA UserFrameIs ==
    ASSUME NEW g, Running(g), NEW s \in Living, NEW f \in UserFrames(s)
    PROVE  f \notin DOMAIN mem.tables /\ f \in boot.first .. mem.next - 1
  <1>1. /\ Good(mem, g, kernel) /\ s \in DOMAIN mem.tables /\ g[s].level = 3
        /\ Core(mem, g, kernel, boot.first)
    BY DEF Running, Layout
  <1>2. AtLevel(g, {s}, 3)
    BY <1>1 DEF AtLevel
  <1>3. AtLevel(g, Below({s}), 2)
    <2>1. AtLevel(g, Below({s}), 3 - 1)
      BY <1>1, <1>2, BelowLevel
    <2>2. QED
      BY <2>1
  <1>4. AtLevel(g, Below(Below({s})), 1)
    <2>1. AtLevel(g, Below(Below({s})), 2 - 1)
      BY <1>1, <1>3, BelowLevel
    <2>2. QED
      BY <2>1
  <1>5. AtLevel(g, Below(Below(Below({s}))), 0)
    <2>1. AtLevel(g, Below(Below(Below({s}))), 1 - 1)
      BY <1>1, <1>4, BelowLevel
    <2>2. QED
      BY <2>1
  <1>6. PICK t \in Below(Below(Below({s}))), i \in Index :
           mem.tables[t][i].user /\ f = mem.tables[t][i].frame
    BY ZenonT(60) DEF UserFrames, Index
  <1>7. t \in DOMAIN mem.tables /\ g[t].level = 0
    BY <1>5, Zenon DEF AtLevel
  <1>8. PICK p : Fits(mem, g, kernel, g[t].own, g[t].ix3, p, mem.tables[t][i])
    BY <1>1, <1>7, LeafFits
  <1>9. f < mem.next /\ g[f].level = 4
    BY <1>6, <1>8, Zenon DEF Fits
  <1>10. f \in Nat
    <2>1. mem.tables[t][i] \in Entry
      <3>1. mem.tables \in [DOMAIN mem.tables -> [Index -> Entry]]
        BY <1>1 DEF Good, IsMem
      <3>2. QED
        BY <1>7, <3>1
    <2>2. QED
      BY <1>6, <2>1 DEF Entry
  <1>11. f \notin DOMAIN mem.tables
    <2>1. \A u \in DOMAIN mem.tables : g[u].level < 4
      BY <1>1 DEF Good
    <2>2. QED
      BY <1>9, <2>1
  <1>12. boot.first <= f
    <2>1. boot.first \in Nat /\ \A h \in 0 .. boot.first - 1 : g[h].level # 4
      BY <1>1 DEF Core
    <2>2. QED
      BY <1>9, <1>10, <2>1
  <1>13. QED
    BY <1>1, <1>9, <1>10, <1>11, <1>12 DEF Core, Good, IsMem

\* A frame of the lower half of a space was allocated for that space.
LEMMA PrivateFrameIs ==
    ASSUME NEW g, Running(g), NEW s \in DOMAIN spaces, NEW f \in PrivateFrames(s)
    PROVE  g[f].own = s
  <1>1. /\ Good(mem, g, kernel) /\ s \in DOMAIN mem.tables /\ g[s].level = 3 /\ s # kernel
    <2>1. Sharing(mem, g, kernel, DOMAIN spaces, dead) /\ Good(mem, g, kernel)
      BY DEF Running, Layout
    <2>2. QED
      BY <2>1, Zenon DEF Sharing
  <1>2. PICK low : low = {mem.tables[s][i].frame : i \in
                            {j \in 0 .. ENTRIES \div 2 - 1 : mem.tables[s][j].present}}
    OBVIOUS
  <1>3. f \in Below(Below(Below(low)))
    BY <1>2, Zenon DEF PrivateFrames
  <1>4. OwnedBy(g, low, s, 2)
    <2>1. SUFFICES ASSUME NEW t \in low
                   PROVE  t \in DOMAIN mem.tables /\ g[t].level = 2 /\ g[t].own = s /\ g[t].ix3 < Half
      BY DEF OwnedBy
    <2>2. PICK i \in 0 .. ENTRIES \div 2 - 1 : mem.tables[s][i].present /\ t = mem.tables[s][i].frame
      BY <1>2
    <2>3. i \in Index /\ i < Half
      BY TablesAssumption DEF Index, Half
    <2>4. g[s].level > 0
      BY <1>1
    <2>5. t \in DOMAIN mem.tables /\ Under(g, s, i, t)
      BY <1>1, <2>2, <2>3, <2>4, Down, Zenon
    <2>6. g[t].level = 3 - 1 /\ g[t].ix3 = i /\ g[t].own = s
      BY <1>1, <2>3, <2>5, Zenon DEF Under
    <2>7. QED
      BY <2>3, <2>5, <2>6
  <1>5. OwnedBy(g, Below(low), s, 1)
    <2>1. OwnedBy(g, Below(low), s, 2 - 1)
      BY <1>1, <1>4, BelowOwned
    <2>2. QED
      BY <2>1
  <1>6. OwnedBy(g, Below(Below(low)), s, 0)
    <2>1. OwnedBy(g, Below(Below(low)), s, 1 - 1)
      BY <1>1, <1>5, BelowOwned
    <2>2. QED
      BY <2>1
  <1>7. PICK t \in Below(Below(low)), i \in Index : mem.tables[t][i].present /\ f = mem.tables[t][i].frame
    BY <1>3, BelowIs
  <1>8. t \in DOMAIN mem.tables /\ g[t].level = 0 /\ g[t].own = s /\ g[t].ix3 < Half
    BY <1>6, Zenon DEF OwnedBy
  <1>9. PICK p : Fits(mem, g, kernel, g[t].own, g[t].ix3, p, mem.tables[t][i])
    BY <1>1, <1>8, LeafFits
  <1>10. QED
    BY <1>1, <1>7, <1>8, <1>9, Zenon DEF Fits

\* UserReachesOnlyItsOwn: user mode reaches frames that pmm_alloc gave out for
\* contents, never a page table, and none that another process reaches, although
\* vmm_get_pml_alloc marks every table as accessible to users.
THEOREM OwnOnly == Spec => []UserReachesOnlyItsOwn
  <1>1. ASSUME Inv PROVE UserReachesOnlyItsOwn
    <2>1. SUFFICES ASSUME status = "running"
                   PROVE  /\ \A s \in Living :
                               /\ UserFrames(s) \cap DOMAIN mem.tables = {}
                               /\ UserFrames(s) \subseteq boot.first .. mem.next - 1
                          /\ \A s, t \in DOMAIN spaces :
                               s # t => PrivateFrames(s) \cap PrivateFrames(t) = {}
      BY DEF UserReachesOnlyItsOwn
    <2>2. PICK g : Running(g)
      BY <1>1, <2>1, InvRunning
    <2>3. \A s \in Living : \A f \in UserFrames(s) :
             f \notin DOMAIN mem.tables /\ f \in boot.first .. mem.next - 1
      BY <2>2, UserFrameIs, Zenon
    <2>4. \A s \in DOMAIN spaces : \A f \in PrivateFrames(s) : g[f].own = s
      BY <2>2, PrivateFrameIs, Zenon
    <2>5. \A s \in Living : /\ UserFrames(s) \cap DOMAIN mem.tables = {}
                            /\ UserFrames(s) \subseteq boot.first .. mem.next - 1
      BY <2>3, Zenon
    <2>6. \A s, t \in DOMAIN spaces : s # t => PrivateFrames(s) \cap PrivateFrames(t) = {}
      <3>1. SUFFICES ASSUME NEW s \in DOMAIN spaces, NEW t \in DOMAIN spaces, s # t,
                            NEW f \in PrivateFrames(s), f \in PrivateFrames(t)
                     PROVE  FALSE
        OBVIOUS
      <3>2. g[f].own = s /\ g[f].own = t
        BY <2>4, <3>1, Zenon
      <3>3. QED
        BY <3>1, <3>2, Zenon
    <2>7. QED
      BY <2>5, <2>6
  <1>2. QED
    BY <1>1, Invariance, PTL

\* HandoverIsFaithful: stivale2_parse_header takes over the memory map and the
\* modules in whatever order the tags come, and handover_find_module finds the
\* first module of a name, although the names are not initialised to the end.
THEOREM Faithful == Spec => []HandoverIsFaithful
  <1>1. Inv => HandoverIsFaithful
    <2>1. SUFFICES ASSUME Inv, status = "booted" PROVE HandoverIsFaithful
      BY Zenon DEF HandoverIsFaithful
    <2>2. boot \in Boots /\ handover = stivale2_parse_header(boot.tags) /\ ~handover.overrun
      BY <2>1 DEF Inv
    <2>3. PICK h, map, mods : /\ h = handover /\ map = Listed("memmap", boot.tags)
                              /\ mods = Listed("modules", boot.tags)
      OBVIOUS
    <2>4. boot.tags \in Seq(Tag)
      BY <2>2, TagsAssumption
    <2>5. mods \in Seq(ModuleEntries) /\ Holds(h, map, mods)
      BY <2>2, <2>3, <2>4, HeaderHolds, Zenon
    <2>6. HoldsMap(h, map) /\ HoldsModules(h, mods)
      BY <2>2, <2>3, <2>5, Zenon DEF Holds
    <2>7. \A name \in ModuleNames : handover_find_module(h, name) = ModuleNamed(mods, name)
      BY <2>5, <2>6, FindHolds, Zenon
    <2>8. QED
      BY <2>3, <2>6, <2>7, Zenon DEF HandoverIsFaithful, HoldsMap
  <1>2. QED
    BY <1>1, Invariance, PTL

-----------------------------------------------------------------------------
(***************************************************************************)
(* Page tables implement address spaces.                                   *)
(***************************************************************************)
\* Each space has a copy of the kernel's half.
KernelShared ==
    status = "running" => \A s \in Living, p \in Observed \cap KernelPage :
        Walk(mem, s, p) = Walk(mem, kernel, p)

\* The kernel's pages are the same in every space.
LEMMA Shared == Inv => KernelShared
  <1>1. SUFFICES ASSUME Inv, status = "running", NEW s \in Living, NEW p \in Observed \cap KernelPage
                 PROVE  Walk(mem, s, p) = Walk(mem, kernel, p)
    BY DEF KernelShared
  <1>2. PICK g : Running(g)
    BY <1>1, InvRunning
  <1>3. /\ Good(mem, g, kernel) /\ kernel \in DOMAIN mem.tables /\ g[kernel].level = 3
        /\ Sharing(mem, g, kernel, DOMAIN spaces, dead)
    BY <1>2 DEF Running, Layout
  <1>4. p \in VPage /\ p \in KernelPage /\ s \in DOMAIN spaces \cup {kernel}
    BY ProgramAssumption DEF VPage, Living
  <1>5. QED
    BY ONLY <1>3, <1>4, KernelSame

\* A step that concerns the private pages of one space.
LEMMA ChangeStep ==
    ASSUME status = "running", status' = "running", KernelShared', NEW s, s \in Living',
           Living' = Living \cup {s},
           \A t \in Living \ {s}, p \in Observed \ KernelPage : Walk(mem', t, p) = Walk(mem, t, p)
    PROVE  Abs!Next
  <1>1. \A t \in Living', p \in Observed \cap KernelPage : Walk(mem', t, p) = Walk(mem', kernel', p)
    BY DEF KernelShared
  <1>2. Abs!Spaces = Living /\ Abs!Spaces' = Living'
    BY DEF Abs!Spaces
  <1>3. Abs!OneKernel'
    BY <1>1 DEF Abs!OneKernel, Abs!Spaces
  <1>4. ASSUME NEW t \in Living \ {s} PROVE Abs!Private(t)' = Abs!Private(t)
    BY <1>4 DEF Abs!Private
  <1>5. Abs!Change(s)
    BY <1>2, <1>3, <1>4 DEF Abs!Change
  <1>6. QED
    BY <1>2, <1>5 DEF Abs!Next

\* A step after which all spaces are as they were.
LEMMA SameStep ==
    ASSUME status' = status, kernel' = kernel, DOMAIN spaces' = DOMAIN spaces,
           status = "running" => \A t \in Living, p \in Observed : Walk(mem', t, p) = Walk(mem, t, p)
    PROVE  UNCHANGED Abs!vars
  <1>1. Living' = Living
    BY DEF Living
  <1>2. QED
    BY <1>1 DEF Abs!vars

\* A space goes.
LEMMA DestroyStep ==
    ASSUME status = "running", status' = "running", NEW s \in Living, Living' = Living \ {s},
           \A t \in Living \ {s}, p \in Observed : Walk(mem', t, p) = Walk(mem, t, p)
    PROVE  Abs!Next
  <1>1. Abs!Spaces = Living
    BY DEF Abs!Spaces
  <1>2. Abs!Destroy(s)
    BY DEF Abs!Destroy, Abs!Spaces
  <1>3. QED
    BY <1>1, <1>2 DEF Abs!Next

\* Before the kernel runs, when it begins to, and when an assertion fails.
LEMMA OffStep ==
    ASSUME status # "running" \/ status' # "running"
    PROVE  Abs!Next
  BY DEF Abs!Next, Abs!Boot, Abs!Fail, Abs!Down

\* The pages that are compared are pages.
LEMMA ObservedPages == Observed \subseteq VPage
  BY ProgramAssumption DEF VPage

\* load_elf_module adds a space, and changes no other.
LEMMA AbsLoad ==
    ASSUME Inv, KernelShared', NEW image \in Images, load_elf_module(image)
    PROVE  Abs!Next
  <1>1. status = "running" /\ kernel' = kernel
    BY DEF load_elf_module
  <1>2. CASE status' = "panic"
    BY <1>2, OffStep
  <1>3. CASE /\ mem' = Loaded(image)
             /\ spaces' = [s \in DOMAIN spaces \cup {mem.next} |->
                             IF s = mem.next THEN image ELSE spaces[s]]
             /\ status' = status
    <2>1. PICK g : Running(g)
      BY <1>1, InvRunning
    <2>2. PICK x : x = Loaded(image) /\ x = mem'
      BY <1>3
    <2>3. \A s \in Living, p \in VPage : Walk(x, s, p) = Walk(mem, s, p)
      BY <2>1, <2>2, LoadEffect, Zenon
    <2>4. DOMAIN spaces' = DOMAIN spaces \cup {mem.next}
      BY <1>3
    <2>5. Living' = Living \cup {mem.next} /\ mem.next \in Living'
      BY <1>1, <2>4 DEF Living
    <2>6. \A t \in Living \ {mem.next}, p \in Observed \ KernelPage : Walk(mem', t, p) = Walk(mem, t, p)
      BY <2>2, <2>3, ObservedPages, Zenon
    <2>7. status' = "running"
      BY <1>1, <1>3
    <2>8. QED
      BY ONLY KernelShared', <1>1, <2>5, <2>6, <2>7, ChangeStep
  <1>4. QED
    BY <1>2, <1>3 DEF load_elf_module

\* The heap changes pages of the kernel only, in all spaces at once.
LEMMA AbsHeap ==
    ASSUME Inv, KernelShared', NEW bytes \in HeapBytes, liballoc_alloc(bytes)
    PROVE  Abs!Next
  <1>1. status = "running" /\ kernel' = kernel /\ spaces' = spaces
    BY DEF liballoc_alloc
  <1>2. PICK phys, io, x :
           /\ phys = range_t(mem.next * PAGE_SIZE, bytes) /\ io = range_t(mmap_phys_to_io(phys.base), bytes)
           /\ x = vmm_map_range([mem EXCEPT !.next = @ + bytes \div PAGE_SIZE], cr3, io, phys, TRUE)
    OBVIOUS
  <1>3. \/ HasFrames(x) /\ mem' = x /\ status' = status
        \/ status' = "panic"
    BY <1>2 DEF liballoc_alloc
  <1>4. CASE status' = "panic"
    BY <1>4, OffStep
  <1>5. CASE HasFrames(x) /\ mem' = x /\ status' = status
    <2>1. PICK g : Running(g)
      BY <1>1, InvRunning
    <2>2. \A s \in Living, p \in VPage :
             Walk(x, s, p) = Walk(mem, s, p) \/ (p \in Window /\ Walk(x, s, p).present)
      BY <1>2, <1>5, <2>1, HeapEffect
    <2>3. Living' = Living
      BY <1>1 DEF Living
    <2>4. cr3 \in Living
      BY <2>1 DEF Running
    <2>5. \A p \in VPage \ KernelPage : p \notin Window
      BY WindowHigh
    <2>6. \A t \in Living \ {cr3}, p \in Observed \ KernelPage : Walk(mem', t, p) = Walk(mem, t, p)
      BY <1>5, <2>2, <2>5, ObservedPages, Zenon
    <2>7. status' = "running" /\ Living' = Living \cup {cr3} /\ cr3 \in Living'
      BY <1>1, <1>5, <2>3, <2>4
    <2>8. QED
      BY ONLY KernelShared', <1>1, <2>6, <2>7, ChangeStep
  <1>6. QED
    BY <1>3, <1>4, <1>5

\* vmm_unmap changes the pages of one space.
LEMMA AbsUnmap ==
    ASSUME Inv, KernelShared', NEW s \in DOMAIN spaces, NEW page \in Touched \ KernelPage, vmm_unmap(s, page)
    PROVE  Abs!Next
  <1>1. status = "running" /\ kernel' = kernel /\ spaces' = spaces
    BY DEF vmm_unmap
  <1>2. \/ status' = "panic"
        \/ /\ LeafTable(mem, s, page) # {}
           /\ mem' = vmm_unmap_page(mem, s, page) /\ status' = status
    BY DEF vmm_unmap
  <1>3. CASE status' = "panic"
    BY <1>3, OffStep
  <1>4. CASE /\ LeafTable(mem, s, page) # {}
             /\ mem' = vmm_unmap_page(mem, s, page) /\ status' = status
    <2>1. PICK g : Running(g)
      BY <1>1, InvRunning
    <2>2. PICK x : x = vmm_unmap_page(mem, s, page) /\ x = mem'
      BY <1>4
    <2>3. \A u \in Living, q \in VPage :
             Walk(x, u, q) = Walk(mem, u, q) \/ (u = s /\ q = page /\ Walk(x, u, q) = Absent)
      BY <1>4, <2>1, <2>2, UnmapEffect
    <2>4. Living' = Living /\ s \in Living
      BY <1>1 DEF Living
    <2>5. \A t \in Living \ {s}, p \in Observed \ KernelPage : Walk(mem', t, p) = Walk(mem, t, p)
      BY <2>2, <2>3, ObservedPages, Zenon
    <2>6. status' = "running" /\ Living' = Living \cup {s} /\ s \in Living'
      BY <1>1, <1>4, <2>4
    <2>7. QED
      BY ONLY KernelShared', <1>1, <2>5, <2>6, ChangeStep
  <1>5. QED
    BY <1>2, <1>3, <1>4

\* vmm_space_destroy takes one space away, or does nothing the second time.
LEMMA AbsDestroy ==
    ASSUME Inv, NEW s \in DOMAIN spaces \cup dead, vmm_space_destroy(s)
    PROVE  Abs!Next \/ UNCHANGED Abs!vars
  <1>1. /\ status = "running" /\ kernel' = kernel /\ status' = status
        /\ spaces' = [t \in DOMAIN spaces \ {s} |-> spaces[t]]
    BY DEF vmm_space_destroy
  <1>2. PICK g : Running(g)
    BY <1>1, InvRunning
  <1>3. PICK x : x = [mem EXCEPT !.tables[s] = EmptyTable] /\ x = mem'
    BY DEF vmm_space_destroy
  <1>4. s # kernel /\ \A u \in Living \ {s}, p \in VPage : Walk(x, u, p) = Walk(mem, u, p)
    BY <1>2, <1>3, DestroyEffect, ZenonT(60)
  <1>5. DOMAIN spaces' = DOMAIN spaces \ {s}
    BY <1>1
  <1>6. Living' = Living \ {s}
    BY <1>1, <1>4, <1>5 DEF Living
  <1>7. \A t \in Living \ {s}, p \in Observed : Walk(mem', t, p) = Walk(mem, t, p)
    BY <1>3, <1>4, ObservedPages, Zenon
  <1>8. CASE s \in DOMAIN spaces
    <2>1. s \in Living /\ status' = "running"
      BY <1>1, <1>8 DEF Living
    <2>2. QED
      BY <1>1, <1>6, <1>7, <2>1, DestroyStep
  <1>9. CASE s \notin DOMAIN spaces
    <2>1. s \notin Living /\ DOMAIN spaces' = DOMAIN spaces
      BY <1>4, <1>5, <1>9 DEF Living
    <2>2. \A t \in Living, p \in Observed : Walk(mem', t, p) = Walk(mem, t, p)
      BY <1>7, <2>1
    <2>3. QED
      BY <1>1, <2>1, <2>2, SameStep
  <1>10. QED
    BY <1>8, <1>9

\* Every step is one of the abstract specification or changes nothing in it.
LEMMA AbsStep ==
    ASSUME Inv, KernelShared', [Next]_vars
    PROVE  Abs!Next \/ UNCHANGED Abs!vars
  <1>1. CASE stivale2_entry \/ vmm_init \/ vmm_init_entry \/ vmm_init_done
    <2>1. status # "running"
      BY <1>1 DEF stivale2_entry, vmm_init, vmm_init_entry, vmm_init_done
    <2>2. QED
      BY <2>1, OffStep
  <1>2. ASSUME NEW s \in DOMAIN spaces \cup {kernel}, vmm_switch_space(s) PROVE UNCHANGED Abs!vars
    <2>1. status' = status /\ kernel' = kernel /\ spaces' = spaces /\ mem' = mem
      BY <1>2 DEF vmm_switch_space
    <2>2. QED
      BY <2>1, SameStep
  <1>3. ASSUME NEW page \in Touched, touch(page) PROVE UNCHANGED Abs!vars
    <2>1. status' = status /\ kernel' = kernel /\ spaces' = spaces /\ mem' = mem
      BY <1>3 DEF touch
    <2>2. QED
      BY <2>1, SameStep
  <1>4. CASE UNCHANGED vars
    <2>1. status' = status /\ kernel' = kernel /\ spaces' = spaces /\ mem' = mem
      BY <1>4 DEF vars
    <2>2. QED
      BY <2>1, SameStep
  <1>5. QED
    BY <1>1, <1>2, <1>3, <1>4, AbsLoad, AbsHeap, AbsUnmap, AbsDestroy DEF Next, Stopped

\* ImplementsVmmAbs: mapping, unmapping and destroying change the private
\* pages of the one space they are given; the kernel's half is the same in all
\* spaces at all times.
THEOREM Refinement == Spec => ImplementsVmmAbs
  <1>1. Init => Abs!Init
    BY DEF Init, Abs!Init, Abs!Spaces
  <1>2. Inv /\ KernelShared' /\ [Next]_vars => [Abs!Next]_(Abs!vars)
    BY AbsStep
  <1>3. QED
    BY <1>1, <1>2, Invariance, Shared, PTL DEF Spec, ImplementsVmmAbs, Abs!Spec

-----------------------------------------------------------------------------
(***************************************************************************)
(* What a process finds in its memory.                                     *)
(***************************************************************************)
\* Addresses in the lower half.
LEMMA PageLow ==
    ASSUME NEW c \in Nat, c < (VPages \div 2) * PAGE_SIZE
    PROVE  PageOf(c) = c \div PAGE_SIZE /\ c \div PAGE_SIZE \in Nat /\ c \div PAGE_SIZE \in VPage
  <1>1. PICK P \in Nat \ {0} : P = PAGE_SIZE
    BY TablesAssumption
  <1>2. PICK V \in Nat \ {0} : V = VPages
    BY PgIs
  <1>3. PICK h \in Nat : h = VPages \div 2 /\ h <= V
    BY <1>2
  <1>4. PICK q \in Nat : q = c \div P /\ q < h
    BY <1>1, <1>3, DivLess
  <1>5. q % V = q /\ q \in 0 .. V - 1
    BY <1>3, <1>4, ModOnce
  <1>6. QED
    BY <1>1, <1>2, <1>4, <1>5 DEF PageOf, VPage

\* Pages that begin before a range ends belong to it.
LEMMA InRange ==
    ASSUME NEW a \in Nat, NEW l \in Nat, l > 0, a + l <= (VPages \div 2) * PAGE_SIZE,
           NEW p \in Nat, a \div PAGE_SIZE <= p, p * PAGE_SIZE <= a + l - 1
    PROVE  p \in PageOf(a) .. PageOf(a + l - 1) /\ p \in VPage
  <1>1. PICK P \in Nat \ {0} : P = PAGE_SIZE
    BY TablesAssumption
  <1>2. PICK V \in Nat \ {0} : V = VPages
    BY PgIs
  <1>3. PICK h \in Nat : h = (VPages \div 2) * PAGE_SIZE
    <2>1. PICK d \in Nat : d = V \div 2
      OBVIOUS
    <2>2. d * P \in Nat
      OBVIOUS
    <2>3. QED
      BY <1>1, <1>2, <2>1, <2>2
  <1>4. PICK e \in Nat : e = a + l - 1 /\ a < h /\ e < h
    BY <1>3
  <1>5. PageOf(a) = a \div PAGE_SIZE /\ PageOf(e) = e \div PAGE_SIZE /\ e \div PAGE_SIZE \in VPage
    BY <1>3, <1>4, PageLow
  <1>6. PICK q \in Int, r \in 0 .. P - 1 : q = e \div P /\ e = q * P + r
    BY DivMod
  <1>7. p <= q
    <2>1. p * P < (q + 1) * P
      <3>1. (q + 1) * P = q * P + P
        BY SMTT(30)
      <3>2. PICK x \in Int, y \in Int, z \in Int : x = p * P /\ y = q * P /\ z = (q + 1) * P
        OBVIOUS
      <3>3. x <= e /\ e = y + r /\ z = y + P
        BY <1>1, <1>4, <1>6, <3>1, <3>2
      <3>4. QED
        BY <3>2, <3>3
    <2>2. q + 1 \in Int
      OBVIOUS
    <2>3. p < q + 1
      BY <2>1, <2>2, Cancel
    <2>4. QED
      BY <2>3
  <1>8. QED
    BY <1>1, <1>2, <1>4, <1>5, <1>6, <1>7 DEF VPage

\* The pages of a segment.
LoadPages(phdr) == AlignUp(phdr.memsz) \div PAGE_SIZE

LoadPage(phdr, j) == phdr.vaddr \div PAGE_SIZE + j

\* The pages load_segment maps are those from the first to the last byte.
LEMMA SegmentPage ==
    ASSUME NEW phdr, LowSegment(phdr), phdr.type = "PT_LOAD", phdr.vaddr % PAGE_SIZE = 0,
           NEW j \in 0 .. LoadPages(phdr) - 1
    PROVE  /\ LoadPage(phdr, j) \in PageOf(phdr.vaddr) .. PageOf(phdr.vaddr + phdr.memsz - 1)
           /\ LoadPage(phdr, j) \in VPage
  <1>1. PICK P \in Nat \ {0} : P = PAGE_SIZE
    BY TablesAssumption
  <1>2. PICK a \in Nat, l \in Nat : a = phdr.vaddr /\ l = phdr.memsz
                                    /\ a + AlignUp(l) <= (VPages \div 2) * PAGE_SIZE
    BY DEF LowSegment
  <1>3. PICK n \in Nat : /\ AlignUp(l) = n * P /\ AlignUp(l) \div P = n
                         /\ l <= n * P /\ n * P < l + P
    BY <1>1, AlignIs
  <1>4. n = LoadPages(phdr) /\ j \in 0 .. n - 1
    BY <1>1, <1>2, <1>3 DEF LoadPages
  <1>5. PICK q \in Int, r \in 0 .. P - 1 : q = a \div P /\ r = a % P /\ a = q * P + r
    BY DivMod
  <1>6. r = 0 /\ q \in Nat
    <2>1. r = 0
      BY <1>1, <1>2, <1>5
    <2>2. a < (a + 1) * P
      BY SMTT(30)
    <2>3. q \in Nat
      BY <1>5, <2>2, DivLess
    <2>4. QED
      BY <2>1, <2>3
  <1>7. PICK h \in Int : h = (VPages \div 2) * PAGE_SIZE
    <2>1. PICK V \in Nat \ {0} : V = VPages
      BY PgIs
    <2>2. PICK d \in Nat : d = V \div 2
      OBVIOUS
    <2>3. d * P \in Nat
      OBVIOUS
    <2>4. QED
      BY <1>1, <2>1, <2>2, <2>3
  <1>8. PICK x \in Nat, y \in Nat : x = n * P /\ y = j * P /\ y + P <= x
    <2>1. (j + 1) * P <= n * P
      BY <1>4, Cancel
    <2>2. (j + 1) * P = j * P + P
      BY SMTT(30)
    <2>3. n * P \in Nat /\ j * P \in Nat
      BY <1>4
    <2>4. QED
      BY <2>1, <2>2, <2>3
  <1>9. l > 0 /\ a + l <= h
    BY <1>2, <1>3, <1>7, <1>8
  <1>10. PICK p \in Nat : p = q + j
    BY <1>4, <1>6
  <1>11. p * P <= a + l - 1
    <2>1. p * P = q * P + j * P
      BY <1>4, <1>10, SMTT(30)
    <2>2. QED
      BY <1>3, <1>5, <1>6, <1>8, <2>1
  <1>12. p \in PageOf(a) .. PageOf(a + l - 1) /\ p \in VPage
    <2>1. a \div PAGE_SIZE <= p /\ p * PAGE_SIZE <= a + l - 1
      BY <1>1, <1>4, <1>5, <1>10, <1>11
    <2>2. QED
      BY <1>7, <1>9, <2>1, InRange
  <1>13. QED
    BY <1>1, <1>2, <1>5, <1>10, <1>12 DEF LoadPage

\* The pages of the stack.
LEMMA StackPage ==
    ASSUME NEW j \in 0 .. KERNEL_STACK_SIZE \div PAGE_SIZE - 1
    PROVE  USER_STACK_BASE \div PAGE_SIZE + j \in
             PageOf(USER_STACK_BASE) .. PageOf(USER_STACK_BASE + KERNEL_STACK_SIZE - 1)
  <1>1. PICK P \in Nat \ {0} : P = PAGE_SIZE
    BY TablesAssumption
  <1>2. PICK a \in Nat, l \in Nat : a = USER_STACK_BASE /\ l = KERNEL_STACK_SIZE
                                    /\ a + l <= (VPages \div 2) * PAGE_SIZE
    BY ProgramAssumption
  <1>3. PICK n \in Int, s \in 0 .. P - 1 : n = l \div P /\ l = n * P + s
    BY DivMod
  <1>4. j \in 0 .. n - 1
    BY <1>1, <1>2, <1>3
  <1>5. PICK q \in Int, r \in 0 .. P - 1 : q = a \div P /\ a = q * P + r
    BY DivMod
  <1>6. q \in Nat
    <2>1. a < (a + 1) * P
      BY SMTT(30)
    <2>2. QED
      BY <1>5, <2>1, DivLess
  <1>7. PICK x \in Nat, y \in Nat : x = n * P /\ y = j * P /\ y + P <= x
    <2>1. (j + 1) * P <= n * P
      BY <1>4, Cancel
    <2>2. (j + 1) * P = j * P + P
      BY SMTT(30)
    <2>3. n * P \in Nat /\ j * P \in Nat
      BY <1>4
    <2>4. QED
      BY <2>1, <2>2, <2>3
  <1>8. PICK p \in Nat : p = q + j
    BY <1>4, <1>6
  <1>9. p * P <= a + l - 1
    <2>1. p * P = q * P + j * P
      BY <1>4, <1>8, SMTT(30)
    <2>2. QED
      BY <1>3, <1>5, <1>7, <2>1
  <1>10. l > 0
    BY <1>3, <1>7
  <1>11. p \in PageOf(a) .. PageOf(a + l - 1)
    <2>1. a \div PAGE_SIZE <= p /\ p * PAGE_SIZE <= a + l - 1
      BY <1>1, <1>4, <1>5, <1>8, <1>9
    <2>2. QED
      BY <1>2, <1>10, <2>1, InRange
  <1>12. QED
    BY <1>1, <1>2, <1>5, <1>8, <1>11

-----------------------------------------------------------------------------
\* What memcpy and memset leave in page j of a segment.
PageBytes(phdr, j) == [b \in 0 .. PAGE_SIZE - 1 |-> SegmentByte(phdr, j * PAGE_SIZE + b)]

\* Page j of a segment is in memory.
PageIn(x, pml, phdr, j) ==
    \E f \in DOMAIN x.content :
        /\ f \in 0 .. x.next - 1
        /\ Walk(x, pml, LoadPage(phdr, j)) = pml_make_entry(f, TRUE)
        /\ x.content[f] = PageBytes(phdr, j)

\* It stays there when other pages are mapped.
LEMMA PageStays ==
    ASSUME NEW x, NEW x2, NEW pml, NEW phdr, NEW j, PageIn(x, pml, phdr, j),
           Walk(x2, pml, LoadPage(phdr, j)) = Walk(x, pml, LoadPage(phdr, j)),
           \A f \in DOMAIN x.content : f \in 0 .. x.next - 1 =>
              f \in DOMAIN x2.content /\ f \in 0 .. x2.next - 1 /\ x2.content[f] = x.content[f]
    PROVE  PageIn(x2, pml, phdr, j)
  <1>1. PICK f \in DOMAIN x.content :
            /\ f \in 0 .. x.next - 1 /\ Walk(x, pml, LoadPage(phdr, j)) = pml_make_entry(f, TRUE)
            /\ x.content[f] = PageBytes(phdr, j)
    BY Zenon DEF PageIn
  <1>2. f \in DOMAIN x2.content /\ f \in 0 .. x2.next - 1 /\ x2.content[f] = x.content[f]
    BY <1>1, Zenon
  <1>3. QED
    BY <1>1, <1>2, Zenon DEF PageIn

\* Loading a segment puts its pages there and leaves other frames alone.
LEMMA PagesLoaded ==
    ASSUME NEW x, NEW x2, NEW pml, NEW phdr, LowSegment(phdr), phdr.type = "PT_LOAD",
           Segmented(x, x2, pml, phdr), x.next \in Nat, x2.next \in Nat
    PROVE  /\ \A j \in 0 .. LoadPages(phdr) - 1 : PageIn(x2, pml, phdr, j)
           /\ \A p \in VPage : \/ Walk(x2, pml, p) = Walk(x, pml, p)
                               \/ \E j \in 0 .. LoadPages(phdr) - 1 : p = LoadPage(phdr, j)
           /\ \A f \in DOMAIN x.content : f \in 0 .. x.next - 1 =>
                f \in DOMAIN x2.content /\ f \in 0 .. x2.next - 1 /\ x2.content[f] = x.content[f]
  <1>1. PICK n \in Nat : n = LoadPages(phdr)
    <2>1. phdr.memsz \in Nat
      BY DEF LowSegment
    <2>2. QED
      BY <2>1, AlignIs DEF LoadPages
  <1>2. Placed(x, x2, pml, phdr.vaddr, n) /\ x2.content = Filled(x, phdr) /\ x.next + n <= x2.next
    BY <1>1, Zenon DEF Segmented, LoadPages
  <1>3. PICK next \in Nat : next = x.next
    OBVIOUS
  <1>4. PICK top \in Nat : top = x2.next /\ next + n <= top
    BY <1>2, <1>3
  <1>5. PICK frames : frames = next .. next + n - 1
    OBVIOUS
  <1>6. x2.content = [f \in DOMAIN x.content \cup frames |->
                        IF f \in frames
                        THEN [b \in 0 .. PAGE_SIZE - 1 |-> SegmentByte(phdr, (f - next) * PAGE_SIZE + b)]
                        ELSE x.content[f]]
    BY <1>1, <1>2, <1>3, <1>5, Zenon DEF Filled, LoadPages
  <1>7. ASSUME NEW j \in 0 .. n - 1 PROVE PageIn(x2, pml, phdr, j)
    <2>1. PICK f \in Nat : f = next + j /\ f - next = j
      OBVIOUS
    <2>2. f \in frames /\ f \in 0 .. x2.next - 1
      BY <1>4, <1>5, <2>1
    <2>3. f \in DOMAIN x2.content
      BY <1>6, <2>2
    <2>4. x2.content[f] = [b \in 0 .. PAGE_SIZE - 1 |-> SegmentByte(phdr, (f - next) * PAGE_SIZE + b)]
      BY <1>6, <2>2, Zenon
    <2>5. x2.content[f] = PageBytes(phdr, j)
      BY <2>1, <2>4, Zenon DEF PageBytes
    <2>6. Walk(x2, pml, phdr.vaddr \div PAGE_SIZE + j) = pml_make_entry(f, TRUE)
      BY <1>2, <1>3, <2>1, Zenon DEF Placed
    <2>7. QED
      BY <2>2, <2>3, <2>5, <2>6, Zenon DEF PageIn, LoadPage
  <1>8. ASSUME NEW p \in VPage
        PROVE  Walk(x2, pml, p) = Walk(x, pml, p) \/ \E j \in 0 .. n - 1 : p = LoadPage(phdr, j)
    BY <1>2, Zenon DEF Placed, LoadPage
  <1>9. ASSUME NEW f \in DOMAIN x.content, f \in 0 .. x.next - 1
        PROVE  f \in DOMAIN x2.content /\ f \in 0 .. x2.next - 1 /\ x2.content[f] = x.content[f]
    <2>1. f \in DOMAIN x2.content /\ (f \notin frames => x2.content[f] = x.content[f])
      BY <1>6
    <2>2. f \notin frames
      BY <1>3, <1>5, <1>9
    <2>3. f \in 0 .. x2.next - 1
      BY <1>3, <1>9, <1>4
    <2>4. QED
      BY <2>1, <2>2, <2>3
  <1>10. QED
    BY <1>1, <1>7, <1>8, <1>9, Zenon

\* Segments of a well-formed image have pages of their own,
LEMMA ApartPages ==
    ASSUME NEW image, WellFormedImage(image), \A i \in 1 .. Len(image) : LowSegment(image[i]),
           NEW i \in 1 .. Len(image), image[i].type = "PT_LOAD", NEW j \in 0 .. LoadPages(image[i]) - 1
    PROVE  /\ LoadPage(image[i], j) \in VPage
           /\ \A k \in 1 .. Len(image) : k # i /\ image[k].type = "PT_LOAD" =>
                \A l \in 0 .. LoadPages(image[k]) - 1 : LoadPage(image[i], j) # LoadPage(image[k], l)
           /\ \A l \in 0 .. KERNEL_STACK_SIZE \div PAGE_SIZE - 1 :
                LoadPage(image[i], j) # USER_STACK_BASE \div PAGE_SIZE + l
  <1> DEFINE load == {k \in 1 .. Len(image) : image[k].type = "PT_LOAD"}
             pages(k) == PageOf(image[k].vaddr) .. PageOf(image[k].vaddr + image[k].memsz - 1)
             stack == PageOf(USER_STACK_BASE) .. PageOf(USER_STACK_BASE + KERNEL_STACK_SIZE - 1)
  <1>1. /\ \A k \in load : image[k].vaddr % PAGE_SIZE = 0 /\ pages(k) \cap stack = {}
        /\ \A k, l \in load : k # l => pages(k) \cap pages(l) = {}
    BY Zenon DEF WellFormedImage
  <1>2. ASSUME NEW k \in load, NEW l \in 0 .. LoadPages(image[k]) - 1
        PROVE  LoadPage(image[k], l) \in pages(k) /\ LoadPage(image[k], l) \in VPage
    <2>1. LowSegment(image[k]) /\ image[k].type = "PT_LOAD" /\ image[k].vaddr % PAGE_SIZE = 0
      BY <1>1, Zenon
    <2>2. QED
      BY <2>1, SegmentPage, Zenon
  <1>3. ASSUME NEW l \in 0 .. KERNEL_STACK_SIZE \div PAGE_SIZE - 1
        PROVE  USER_STACK_BASE \div PAGE_SIZE + l \in stack
    BY StackPage, Zenon
  <1>4. i \in load
    BY Zenon
  <1> HIDE DEF pages, stack
  <1>5. LoadPage(image[i], j) \in pages(i) /\ LoadPage(image[i], j) \in VPage
    BY <1>2, <1>4, Zenon
  <1>6. ASSUME NEW k \in 1 .. Len(image), k # i, image[k].type = "PT_LOAD",
               NEW l \in 0 .. LoadPages(image[k]) - 1
        PROVE  LoadPage(image[i], j) # LoadPage(image[k], l)
    <2>1. k \in load
      BY <1>6, Zenon
    <2>2. LoadPage(image[k], l) \in pages(k) /\ pages(i) \cap pages(k) = {}
      BY <1>1, <1>2, <1>4, <1>6, <2>1, Zenon
    <2>3. QED
      BY <1>5, <2>2, Zenon
  <1>7. ASSUME NEW l \in 0 .. KERNEL_STACK_SIZE \div PAGE_SIZE - 1
        PROVE  LoadPage(image[i], j) # USER_STACK_BASE \div PAGE_SIZE + l
    BY <1>1, <1>3, <1>4, <1>5, Zenon
  <1>8. QED
    BY <1>5, <1>6, <1>7, Zenon

\* The first n segments are in memory.
SegmentsIn(x, pml, image, n) ==
    \A i \in 1 .. n : image[i].type = "PT_LOAD" =>
        \A j \in 0 .. LoadPages(image[i]) - 1 : PageIn(x, pml, image[i], j)

\* One segment after the other,
LEMMA StepsLoad ==
    ASSUME NEW m, NEW g, NEW k, Good(m, g, k), NEW pml, NEW x, NEW gx, Joins(m, g, x, gx, k, pml),
           NEW image, NEW n \in Nat, n = Len(image), \A i \in 1 .. n : LowSegment(image[i]),
           WellFormedImage(image), NEW f, LoadSteps(f, x, pml, image, n)
    PROVE  SegmentsIn(f[n], pml, image, n)
  <1>1. \A i \in 0 .. n : \E gi : Joins(m, g, f[i], gi, k, pml)
    BY StepsJoin, Zenon
  <1>2. \A i \in 1 .. Len(image) : LowSegment(image[i])
    BY Zenon
  <1> DEFINE S == {h \in Nat : SegmentsIn(f[h], pml, image, h)}
  <1>3. 0 \in S
    BY DEF SegmentsIn
  <1>4. ASSUME NEW h \in 1 .. n, h - 1 \in S PROVE h \in S
    <2>1. PICK y, z, phdr : y = f[h - 1] /\ z = f[h] /\ phdr = image[h]
      OBVIOUS
    <2>2. h - 1 \in 0 .. n /\ h \in 0 .. n /\ h \in Nat /\ h \in 1 .. Len(image)
      OBVIOUS
    <2>3. z = load_segment(y, pml, phdr) /\ LowSegment(phdr)
      BY <2>1, Zenon DEF LoadSteps
    <2>4. PICK gy : Joins(m, g, y, gy, k, pml)
      BY <1>1, <2>1, <2>2, Zenon
    <2>5. PICK gz : Joins(m, g, z, gz, k, pml) /\ Segmented(y, z, pml, phdr)
      BY <2>3, <2>4, Segment, Zenon
    <2>6. y.next \in Nat /\ z.next \in Nat
      BY <2>4, <2>5 DEF Joins, Good, IsMem
    <2>7. SegmentsIn(y, pml, image, h - 1)
      BY <1>4, <2>1
    <2>8. CASE phdr.type # "PT_LOAD"
      <3>1. z = y
        BY <2>5, <2>8, Zenon DEF Segmented
      <3>2. ASSUME NEW i \in 1 .. h, image[i].type = "PT_LOAD" PROVE i \in 1 .. h - 1
        BY <2>1, <2>8, <3>2
      <3>3. SegmentsIn(z, pml, image, h)
        BY <2>7, <3>1, <3>2, Zenon DEF SegmentsIn
      <3>4. QED
        BY <2>1, <2>2, <3>3
    <2>9. CASE phdr.type = "PT_LOAD"
      <3>1. /\ \A j \in 0 .. LoadPages(phdr) - 1 : PageIn(z, pml, phdr, j)
            /\ \A p \in VPage : \/ Walk(z, pml, p) = Walk(y, pml, p)
                                \/ \E j \in 0 .. LoadPages(phdr) - 1 : p = LoadPage(phdr, j)
            /\ \A e \in DOMAIN y.content : e \in 0 .. y.next - 1 =>
                 e \in DOMAIN z.content /\ e \in 0 .. z.next - 1 /\ z.content[e] = y.content[e]
        BY ONLY <2>3, <2>5, <2>6, <2>9, PagesLoaded
      <3>2. ASSUME NEW i \in 1 .. h, image[i].type = "PT_LOAD", NEW j \in 0 .. LoadPages(image[i]) - 1
            PROVE  PageIn(z, pml, image[i], j)
        <4>1. CASE i = h
          BY <2>1, <3>1, <4>1, Zenon
        <4>2. CASE i # h
          <5>1. i \in 1 .. h - 1 /\ i \in 1 .. Len(image)
            BY <4>2
          <5>2. PageIn(y, pml, image[i], j)
            BY <2>7, <3>2, <5>1, Zenon DEF SegmentsIn
          <5>3. /\ LoadPage(image[i], j) \in VPage
                /\ \A l \in 0 .. LoadPages(phdr) - 1 : LoadPage(image[i], j) # LoadPage(phdr, l)
            BY <1>2, <2>1, <2>2, <2>9, <3>2, <4>2, <5>1, ApartPages, ZenonT(60)
          <5>4. Walk(z, pml, LoadPage(image[i], j)) = Walk(y, pml, LoadPage(image[i], j))
            BY <3>1, <5>3, Zenon
          <5>5. QED
            BY <3>1, <5>2, <5>4, PageStays, Zenon
        <4>3. QED
          BY <4>1, <4>2
      <3>3. SegmentsIn(z, pml, image, h)
        BY <3>2, Zenon DEF SegmentsIn
      <3>4. QED
        BY <2>1, <2>2, <3>3
    <2>10. QED
      BY <2>8, <2>9
  <1>5. \A h \in 0 .. n : h \in S
    <2> HIDE DEF S
    <2>1. QED
      BY <1>3, <1>4, Upwards
  <1>6. n \in S
    BY <1>5
  <1>7. QED
    BY <1>6

\* and the stack beside them.
LEMMA ImageLoads ==
    ASSUME NEW g, NEW first, Core(mem, g, kernel, first), NEW image \in Images, WellFormedImage(image),
           NEW x, x = Loaded(image), NEW pml, pml = mem.next
    PROVE  SegmentsIn(x, pml, image, Len(image))
  <1>1. Good(mem, g, kernel)
    BY DEF Core
  <1>2. PICK n \in Nat : n = Len(image) /\ \A i \in 1 .. n : LowSegment(image[i])
    BY LowImage
  <1>3. PICK f : LoadSteps(f, vmm_space_create(mem), mem.next, image, n)
                 /\ Loaded(image) = task_init(f[n], mem.next)
    BY <1>2, LoadedSteps
  <1>4. PICK gx : Joins(mem, g, vmm_space_create(mem), gx, kernel, mem.next)
    BY Created, Zenon
  <1>5. PICK m0 : Joins(mem, g, m0, gx, kernel, pml) /\ LoadSteps(f, m0, pml, image, n)
    BY <1>3, <1>4, Zenon
  <1>6. PICK y : y = f[n] /\ x = task_init(y, pml)
    BY <1>3, Zenon
  <1>7. SegmentsIn(y, pml, image, n)
    BY ONLY WellFormedImage(image), <1>1, <1>2, <1>5, <1>6, StepsLoad
  <1>8. PICK gy : Joins(mem, g, y, gy, kernel, pml)
    <2>1. \A i \in 0 .. n : \E gi : Joins(mem, g, f[i], gi, kernel, pml)
      BY <1>1, <1>2, <1>5, StepsJoin, Zenon
    <2>2. n \in 0 .. n
      OBVIOUS
    <2>3. QED
      BY <1>6, <2>1, <2>2, Zenon
  <1>9. PICK d \in Nat : /\ d = KERNEL_STACK_SIZE \div PAGE_SIZE
                         /\ Placed(y, x, pml, USER_STACK_BASE, d)
                         /\ x.content = y.content /\ y.next <= x.next /\ x.next \in Nat /\ y.next \in Nat
    <2>1. PICK g2 : \E d \in Nat : /\ d = KERNEL_STACK_SIZE \div PAGE_SIZE
                                   /\ Joins(mem, g, x, g2, kernel, pml)
                                   /\ Placed(y, x, pml, USER_STACK_BASE, d)
                                   /\ x.content = y.content /\ y.next <= x.next
      BY ONLY <1>1, <1>6, <1>8, Stack
    <2>2. x.next \in Nat /\ y.next \in Nat
      BY <1>8, <2>1 DEF Joins, Good, IsMem
    <2>3. QED
      BY <2>1, <2>2, Zenon
  <1>10. \A i \in 1 .. Len(image) : LowSegment(image[i])
    BY <1>2, Zenon
  <1>11. ASSUME NEW i \in 1 .. Len(image), image[i].type = "PT_LOAD", NEW j \in 0 .. LoadPages(image[i]) - 1
         PROVE  PageIn(x, pml, image[i], j)
    <2>1. PageIn(y, pml, image[i], j)
      BY <1>2, <1>7, <1>11, Zenon DEF SegmentsIn
    <2>2. /\ LoadPage(image[i], j) \in VPage
          /\ \A l \in 0 .. d - 1 : LoadPage(image[i], j) # USER_STACK_BASE \div PAGE_SIZE + l
      BY <1>9, <1>10, <1>11, ApartPages, Zenon
    <2>3. Walk(x, pml, LoadPage(image[i], j)) = Walk(y, pml, LoadPage(image[i], j))
      BY <1>9, <2>2, Zenon DEF Placed
    <2>4. \A f2 \in DOMAIN y.content : f2 \in 0 .. y.next - 1 =>
            f2 \in DOMAIN x.content /\ f2 \in 0 .. x.next - 1 /\ x.content[f2] = y.content[f2]
      BY <1>9
    <2>5. QED
      BY <2>1, <2>3, <2>4, PageStays, Zenon
  <1>12. QED
    BY <1>11, Zenon DEF SegmentsIn

\* Every byte of a segment is then where the program expects it.
LEMMA ByteRead ==
    ASSUME NEW x, NEW pml, NEW phdr, LowSegment(phdr), phdr.type = "PT_LOAD", phdr.vaddr % PAGE_SIZE = 0,
           \A j \in 0 .. LoadPages(phdr) - 1 : PageIn(x, pml, phdr, j),
           NEW b \in 0 .. phdr.memsz - 1
    PROVE  ByteAt(x, pml, phdr.vaddr + b) = IF b < phdr.filesz THEN << phdr.vaddr, b >> ELSE << "zero" >>
  <1>1. PICK P \in Nat \ {0} : P = PAGE_SIZE
    BY TablesAssumption
  <1>2. PICK a \in Nat, l \in Nat : a = phdr.vaddr /\ l = phdr.memsz
                                    /\ a + AlignUp(l) <= (VPages \div 2) * PAGE_SIZE
    BY DEF LowSegment
  <1>3. PICK n \in Nat : /\ AlignUp(l) = n * P /\ AlignUp(l) \div P = n /\ l <= n * P
    BY <1>1, AlignIs
  <1>4. n = LoadPages(phdr) /\ b \in 0 .. l - 1 /\ b \in Nat
    BY <1>1, <1>2, <1>3 DEF LoadPages
  <1>5. PICK q \in Int, z \in 0 .. P - 1 : q = a \div P /\ z = a % P /\ a = q * P + z
    BY DivMod
  <1>6. PICK j \in Int, r \in 0 .. P - 1 : j = b \div P /\ b = j * P + r
    BY <1>4, DivMod
  <1>7. j \in 0 .. n - 1
    <2>1. b < n * P
      BY <1>3, <1>4
    <2>2. j \in Nat /\ j < n
      BY <1>4, <1>6, <2>1, DivLess
    <2>3. QED
      BY <2>2
  <1>8. PICK c \in Nat : c = a + b /\ c = (q + j) * P + r
    <2>1. z = 0
      BY <1>1, <1>2, <1>5
    <2>2. (q + j) * P = q * P + j * P
      BY <1>7, SMTT(30)
    <2>3. a + b = (q + j) * P + r /\ a + b \in Nat
      BY <1>4, <1>5, <1>6, <2>1, <2>2
    <2>4. QED
      BY <2>3
  <1>9. c \div P = q + j /\ c % P = r
    <2>1. q + j \in Int /\ c \in Int
      BY <1>7
    <2>2. QED
      BY <1>8, <2>1, DivUnique
  <1>10. PageOf(c) = q + j
    <2>1. PICK h \in Int : h = (VPages \div 2) * PAGE_SIZE
      <3>1. PICK V \in Nat \ {0} : V = VPages
        BY PgIs
      <3>2. PICK d \in Nat : d = V \div 2
        OBVIOUS
      <3>3. d * P \in Nat
        OBVIOUS
      <3>4. QED
        BY <1>1, <3>1, <3>2, <3>3
    <2>2. PICK t \in Int : t = n * P
      OBVIOUS
    <2>3. c < h
      BY <1>2, <1>3, <1>4, <1>8, <2>1, <2>2
    <2>4. PageOf(c) = c \div PAGE_SIZE
      BY <2>1, <2>3, PageLow
    <2>5. QED
      BY <1>1, <1>9, <2>4
  <1>11. LoadPage(phdr, j) = PageOf(c)
    BY <1>1, <1>2, <1>5, <1>10 DEF LoadPage
  <1>12. PICK f : /\ Walk(x, pml, PageOf(c)) = pml_make_entry(f, TRUE)
                  /\ x.content[f] = PageBytes(phdr, j)
    <2>1. PageIn(x, pml, phdr, j)
      BY <1>4, <1>7
    <2>2. QED
      BY <1>11, <2>1, Zenon DEF PageIn
  <1>13. PageBytes(phdr, j)[r] = SegmentByte(phdr, b)
    <2>1. PageBytes(phdr, j)[r] = SegmentByte(phdr, j * PAGE_SIZE + r)
      BY <1>1, <1>6 DEF PageBytes
    <2>2. j * PAGE_SIZE + r = b
      BY <1>1, <1>6
    <2>3. QED
      BY <2>1, <2>2, Zenon
  <1>14. SegmentByte(phdr, b) = IF b < phdr.filesz THEN << phdr.vaddr, b >> ELSE << "zero" >>
    <2>1. b < phdr.memsz
      BY <1>2, <1>4
    <2>2. QED
      BY <2>1, Zenon DEF SegmentByte
  <1>15. ByteAt(x, pml, c) = x.content[f][r]
    <2>1. PICK e : e = pml_make_entry(f, TRUE)
      OBVIOUS
    <2>2. e.present /\ e.user /\ e.frame = f
      BY <2>1 DEF pml_make_entry
    <2>3. Walk(x, pml, PageOf(c)) = e
      BY <1>12, <2>1, Zenon
    <2>4. c % PAGE_SIZE = r
      BY <1>1, <1>9
    <2>5. QED
      BY <2>2, <2>3, <2>4, Zenon DEF ByteAt
  <1>16. phdr.vaddr + b = c
    BY <1>2, <1>8
  <1>17. QED
    BY <1>12, <1>13, <1>14, <1>15, <1>16, Zenon

-----------------------------------------------------------------------------
\* The image of a process is in its memory.
Complete(x, s, image) ==
    \A i \in 1 .. Len(image) :
        LET phdr == image[i]
        IN  phdr.type = "PT_LOAD" => \A b \in 0 .. phdr.memsz - 1 :
              ByteAt(x, s, phdr.vaddr + b) =
                IF b < phdr.filesz THEN << phdr.vaddr, b >> ELSE << "zero" >>

\* load_elf_module leaves an image complete.
LEMMA ImageComplete ==
    ASSUME NEW g, Running(g), NEW image \in Images, WellFormedImage(image), NEW x, x = Loaded(image)
    PROVE  Complete(x, mem.next, image)
  <1>1. Core(mem, g, kernel, boot.first)
    BY DEF Running, Layout
  <1>2. PICK pml : pml = mem.next
    OBVIOUS
  <1>3. SegmentsIn(x, pml, image, Len(image))
    BY <1>1, <1>2, ImageLoads, Zenon
  <1>4. \A i \in 1 .. Len(image) : LowSegment(image[i])
    BY LowImage, Zenon
  <1>5. ASSUME NEW i \in 1 .. Len(image), NEW phdr, phdr = image[i], phdr.type = "PT_LOAD",
               NEW b \in 0 .. phdr.memsz - 1
        PROVE  ByteAt(x, pml, phdr.vaddr + b) = IF b < phdr.filesz THEN << phdr.vaddr, b >> ELSE << "zero" >>
    <2>1. \A j \in 0 .. LoadPages(phdr) - 1 : PageIn(x, pml, phdr, j)
      BY <1>3, <1>5, Zenon DEF SegmentsIn
    <2>2. LowSegment(phdr)
      BY <1>4, <1>5, Zenon
    <2>3. phdr.vaddr % PAGE_SIZE = 0
      BY <1>5, Zenon DEF WellFormedImage
    <2>4. QED
      BY <1>5, <2>1, <2>2, <2>3, ByteRead, Zenon
  <1>6. QED
    BY <1>2, <1>5, Zenon DEF Complete

\* Only load_elf_module adds a space.
LEMMA NewSpace ==
    ASSUME Inv, [Next]_vars, NEW s \in DOMAIN spaces' \ DOMAIN spaces
    PROVE  /\ status = "running" /\ s = mem.next
           /\ \E image \in Images : mem' = Loaded(image) /\ spaces'[s] = image
  <1>1. CASE stivale2_entry \/ vmm_init \/ vmm_init_entry \/ vmm_init_done
    BY <1>1 DEF stivale2_entry, vmm_init, vmm_init_entry, vmm_init_done
  <1>2. ASSUME NEW image \in Images, load_elf_module(image)
        PROVE  status = "running" /\ s = mem.next /\ mem' = Loaded(image) /\ spaces'[s] = image
    <2>1. spaces' # spaces
      OBVIOUS
    <2>2. /\ mem' = Loaded(image) /\ status = "running"
          /\ spaces' = [t \in DOMAIN spaces \cup {mem.next} |-> IF t = mem.next THEN image ELSE spaces[t]]
      BY <1>2, <2>1 DEF load_elf_module
    <2>3. QED
      BY <2>2
  <1>3. ASSUME NEW bytes \in HeapBytes, liballoc_alloc(bytes) PROVE FALSE
    BY <1>3 DEF liballoc_alloc
  <1>4. ASSUME NEW t \in DOMAIN spaces \cup {kernel}, vmm_switch_space(t) PROVE FALSE
    BY <1>4 DEF vmm_switch_space
  <1>5. ASSUME NEW page \in Touched, touch(page) PROVE FALSE
    BY <1>5 DEF touch
  <1>6. ASSUME NEW t \in DOMAIN spaces, NEW page \in Touched \ KernelPage, vmm_unmap(t, page) PROVE FALSE
    BY <1>6 DEF vmm_unmap
  <1>7. ASSUME NEW t \in DOMAIN spaces \cup dead, vmm_space_destroy(t) PROVE FALSE
    BY <1>7 DEF vmm_space_destroy
  <1>8. CASE UNCHANGED vars
    BY <1>8 DEF vars
  <1>9. QED
    BY <1>1, <1>2, <1>3, <1>4, <1>5, <1>6, <1>7, <1>8 DEF Next, Stopped

\* ImageIsLoaded: load_elf_module leaves every byte of every segment where the
\* program was linked to, file contents first and zeroes behind, in frames that
\* neither another segment nor the stack of task_init takes over.
THEOREM ImageLoaded == Spec => ImageIsLoaded
  <1>1. Inv /\ [Next]_vars =>
          \A s \in DOMAIN spaces' \ DOMAIN spaces :
            WellFormedImage(spaces'[s]) => Complete(mem', s, spaces'[s])
    <2>1. SUFFICES ASSUME Inv, [Next]_vars, NEW s \in DOMAIN spaces' \ DOMAIN spaces,
                          WellFormedImage(spaces'[s])
                   PROVE  Complete(mem', s, spaces'[s])
      BY Zenon
    <2>2. PICK image \in Images : /\ status = "running" /\ s = mem.next
                                  /\ mem' = Loaded(image) /\ spaces'[s] = image
      BY <2>1, NewSpace
    <2>3. PICK x : x = mem' /\ x = Loaded(image)
      BY <2>2
    <2>4. PICK g : Running(g)
      BY <2>1, <2>2, InvRunning
    <2>5. Complete(x, mem.next, image)
      BY <2>1, <2>2, <2>3, <2>4, ImageComplete, Zenon
    <2>6. QED
      BY <2>2, <2>3, <2>5, Zenon
  <1>2. Inv /\ [Next]_vars =>
          [\A s \in DOMAIN spaces' \ DOMAIN spaces :
             WellFormedImage(spaces'[s]) => Complete(mem', s, spaces'[s])]_vars
    BY <1>1
  <1>3. QED
    BY <1>2, Invariance, PTL DEF Spec, ImageIsLoaded, Complete
=============================================================================
