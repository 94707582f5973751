--------------------------- MODULE IpcOrderlyProofs ---------------------------
(***************************************************************************)
(* What holds of Ipc in an orderly run, for any number of processes and    *)
(* any number of sends: the kernel does not halt but for a dead receiver,  *)
(* every message received was sent to its receiver and is received once,   *)
(* and the calls implement the stacks of IpcAbs.                           *)
(***************************************************************************)
EXTENDS IpcProofs

USE ProcAssumption, MortalAssumption, MaxSendsAssumption

(***************************************************************************)
(* What holds as long as nobody has met anybody else in a mailbox and the  *)
(* slayer has freed no block in use: while the kernel runs, every mailbox  *)
(* somebody may still use is a vector in a block of its own, whole between *)
(* the calls and, at every label of vec_push and vec_pop, as far as the    *)
(* call has come.                                                          *)
(***************************************************************************)
\* q is in the middle of a vec_push on the mailbox of r.
Into(q, r) == pc[q] \in PushLabel /\ loc[q].to = r

\* Somebody may still touch the mailbox of r.
InUse(r) == r \in alive \/ \E q \in Proc : Into(q, r)

\* Nobody is inside the mailbox of r.
Idle(r) == pc[r] \notin PopLabel /\ \A q \in Proc : ~Into(q, r)

\* The numbers of the messages r has received and those in the first n cells
\* of b are apart, as are the latter from each other.
Keeps(r, b, n) ==
    /\ \A j \in 0 .. n - 1 :
         /\ cells[b][j] \in Message
         /\ cells[b][j].receiver = r /\ cells[b][j].number <= count
         /\ \A i \in DOMAIN got[r] : got[r][i].number # cells[b][j].number
    /\ \A j, k \in 0 .. n - 1 : cells[b][j].number = cells[b][k].number => j = k

\* b holds the n messages of a vector for r with room for c.
Vector(r, b, c, n) ==
    /\ b = Null <=> c = 0
    /\ b # Null => b \in Blocks /\ size[b] = c
    /\ n <= c
    /\ Keeps(r, b, n)

\* The message q is about to store is new to the first n cells of b and to r.
Carries(q, r, b, n) ==
    /\ loc[q].msg \in Message
    /\ loc[q].msg.receiver = r /\ loc[q].msg.number <= count
    /\ \A i \in DOMAIN got[r] : got[r][i].number # loc[q].msg.number
    /\ \A j \in 0 .. n - 1 : cells[b][j].number # loc[q].msg.number

\* vec_expand_ has found the vector full and asks for twice the room.
Growing(q, r) ==
    /\ loc[q].old = data[r] /\ length[r] = capacity[r]
    /\ loc[q].n = IF capacity[r] = 0 THEN 1 ELSE 2 * capacity[r]

\* realloc has the new block.
Doubled(q, r) ==
    /\ loc[q].new \in Blocks /\ loc[q].new # data[r] /\ data[r] # Null
    /\ size[loc[q].new] = loc[q].n

\* The mailbox of r, label by label of the push of q on it.
PushBlock(q, r) == IF pc[q] = "data" THEN loc[q].new ELSE data[r]
PushRoom(q, r) == IF pc[q] \in {"data", "capacity"} THEN loc[q].n ELSE capacity[r]
PushLen(q, r) == IF pc[q] = "slot" THEN length[r] - 1 ELSE length[r]

PushOK(q, r) ==
    /\ Vector(r, PushBlock(q, r), PushRoom(q, r), PushLen(q, r))
    /\ Carries(q, r, PushBlock(q, r), PushLen(q, r))
    /\ pc[q] \in {"realloc", "malloc", "copy", "free"} => Growing(q, r)
    /\ pc[q] \in {"malloc", "copy", "free"} => loc[q].real = capacity[r]
    /\ pc[q] \in {"copy", "free"} => Doubled(q, r)
    /\ pc[q] = "free" =>
         \A j \in 0 .. length[r] - 1 : cells[loc[q].new][j] = cells[data[r]][j]
    /\ pc[q] \in {"data", "capacity", "load", "length", "slot"} =>
         PushLen(q, r) < PushRoom(q, r)
    /\ pc[q] \in {"length", "slot"} => loc[q].i = PushLen(q, r)

\* ... and of the pop of r from it.
PopLen(r) == IF pc[r] = "pop_read" THEN length[r] + 1 ELSE length[r]

PopOK(r) ==
    /\ Vector(r, data[r], capacity[r], PopLen(r))
    /\ pc[r] \in {"pop_length", "pop_read"} => loc[r].i = PopLen(r) - 1

BoxOK(r) ==
    /\ Idle(r) => Vector(r, data[r], capacity[r], length[r])
    /\ \A q \in Proc : Into(q, r) => PushOK(q, r)
    /\ pc[r] \in PopLabel => PopOK(r)

BoxesOK == \A r \in Proc : InUse(r) => BoxOK(r)

\* Those who have not exited are the ones in TASK_RUNNING.
AliveIs == \A p \in Proc : p \in alive <=> pc[p] # "exited"

\* One actor per mailbox.
Exclusive ==
    \A r, q \in Proc : Into(q, r) =>
        pc[r] \notin PopLabel /\ \A s \in Proc : Into(s, r) => s = q

\* The blocks of the mailbox of r.
Owns(r, b) ==
    /\ InUse(r) /\ b # Null
    /\ \/ b = data[r] /\ \A q \in Proc : ~(Into(q, r) /\ pc[q] = "data")
       \/ \E q \in Proc : Into(q, r) /\ b = loc[q].new

\* Blocks in use are allocated, to one mailbox each.
Ownership ==
    \A r \in Proc, b \in Blocks :
        Owns(r, b) => size[b] > 0 /\ \A s \in Proc : Owns(s, b) => s = r

\* Only a realloc in progress holds a new block.
NewIsNull ==
    \A q \in Proc : pc[q] \notin {"copy", "free", "data"} => loc[q].new = Null

Calm == BoxesOK /\ AliveIs /\ Exclusive /\ Ownership /\ NewIsNull

\* What was received was sent to the receiver, and no number comes twice.
GotOK ==
    \A p \in Proc : \A i \in DOMAIN got[p] :
        /\ got[p][i] \in Message
        /\ got[p][i].receiver = p /\ got[p][i].number <= count
        /\ \A j \in DOMAIN got[p] : got[p][j].number = got[p][i].number => j = i

OrderlyInv ==
    Orderly => /\ status \in {"running", "panic_receiver"}
               /\ GotOK
               /\ status = "running" => Calm

IInv == AnyInv /\ OrderlyInv

(***************************************************************************)
(* A step touches one mailbox at most: the others are as they were.        *)
(***************************************************************************)
\* Whatever Calm says of the mailbox of s is out of reach of the step.
Untouched(s) ==
    /\ data'[s] = data[s] /\ length'[s] = length[s] /\ capacity'[s] = capacity[s]
    /\ got'[s] = got[s] /\ count <= count'
    /\ s \in alive' => s \in alive
    /\ \A q \in Proc : Into(q, s)' <=> Into(q, s)
    /\ \A q \in Proc : Into(q, s) => pc'[q] = pc[q] /\ loc'[q] = loc[q]
    /\ pc'[s] \in PopLabel <=> pc[s] \in PopLabel
    /\ pc[s] \in PopLabel => pc'[s] = pc[s] /\ loc'[s] = loc[s]
    /\ \A b \in Blocks : Owns(s, b) => size'[b] = size[b] /\ cells'[b] = cells[b]

\* A vector stays one while its block is left alone.
LEMMA VectorFrame ==
    ASSUME NEW r, NEW b, NEW c \in Nat, NEW n \in Int, Vector(r, b, c, n),
           count \in Nat, count' \in Nat, count <= count', got'[r] = got[r],
           b # Null => size'[b] = size[b] /\ cells'[b] = cells[b]
    PROVE  Vector(r, b, c, n)'
  <1>1. CASE b = Null
    BY <1>1 DEF Vector, Keeps
  <1>2. CASE b # Null
    BY <1>2 DEF Vector, Keeps, Message
  <1>3. QED
    BY <1>1, <1>2

\* So does a message on its way stay new.
LEMMA CarriesFrame ==
    ASSUME NEW q, NEW r, NEW b, NEW n \in Int, Carries(q, r, b, n), loc'[q].msg = loc[q].msg,
           count \in Nat, count' \in Nat, count <= count', got'[r] = got[r],
           n > 0 => cells'[b] = cells[b]
    PROVE  Carries(q, r, b, n)'
  BY DEF Carries, Message

\* Types of what Calm speaks of.
LEMMA Types ==
    ASSUME CallTyped, BoxTyped, RestTyped, Pointers, NEW q \in Proc
    PROVE  /\ count \in Nat /\ length[q] \in Nat /\ capacity[q] \in Nat
           /\ length[q] \in Cell /\ data[q] \in Blocks \cup {Null} /\ loc[q] \in LocType
           /\ loc[q].n \in Nat /\ loc[q].i \in Nat /\ loc[q].real \in Nat
           /\ loc[q].new \in Blocks \cup {Null} /\ loc[q].old \in Blocks \cup {Null}
           /\ pc[q] \in PushLabel => loc[q].to \in Proc
  <1>1. loc[q] \in LocType
    BY DEF CallTyped
  <1>2. QED
    BY <1>1, Fields DEF BoxTyped, RestTyped, Pointers, PointersAt, Cell

\* A step that touches neither a mailbox, nor its block, nor the actor inside it
\* leaves the mailbox in order.
LEMMA BoxFrame ==
    ASSUME AnyInv, AnyInv', Exclusive, NEW s \in Proc, InUse(s), BoxOK(s), Untouched(s)
    PROVE  BoxOK(s)'
  <1>1. CallTyped /\ BoxTyped /\ RestTyped /\ Pointers /\ RestTyped'
    BY TypeParts DEF AnyInv
  <1>2. count \in Nat /\ count' \in Nat /\ count <= count'
    BY <1>1 DEF RestTyped, Untouched
  <1>3. /\ data'[s] = data[s] /\ length'[s] = length[s] /\ capacity'[s] = capacity[s]
        /\ got'[s] = got[s]
    BY DEF Untouched
  <1>4. length[s] \in Nat /\ capacity[s] \in Nat /\ data[s] \in Blocks \cup {Null}
    BY <1>1, Types
  <1>5. ASSUME Idle(s)' PROVE Vector(s, data[s], capacity[s], length[s])'
    <2>1. Idle(s)
      BY <1>5 DEF Idle, Untouched
    <2>2. Vector(s, data[s], capacity[s], length[s])
      BY <2>1 DEF BoxOK
    <2>3. data[s] # Null => size'[data[s]] = size[data[s]] /\ cells'[data[s]] = cells[data[s]]
      BY <1>4, <2>1 DEF Untouched, Owns, Idle
    <2>4. PICK b \in Blocks \cup {Null}, c \in Nat, n \in Int :
            b = data[s] /\ c = capacity[s] /\ n = length[s]
      BY <1>4
    <2>5. Vector(s, b, c, n)'
      BY <1>2, <1>3, <2>2, <2>3, <2>4, VectorFrame
    <2>6. QED
      BY <1>3, <2>4, <2>5
  <1>6. ASSUME (pc[s] \in PopLabel)' PROVE PopOK(s)'
    <2>1. pc[s] \in PopLabel /\ pc'[s] = pc[s] /\ loc'[s] = loc[s]
      BY <1>6 DEF Untouched
    <2>2. PopOK(s)
      BY <2>1 DEF BoxOK
    <2>3. data[s] # Null => size'[data[s]] = size[data[s]] /\ cells'[data[s]] = cells[data[s]]
      BY <1>4, <2>1 DEF Untouched, Owns, Exclusive
    <2>4. PICK b \in Blocks \cup {Null}, c \in Nat, n \in Int :
            b = data[s] /\ c = capacity[s] /\ n = PopLen(s)
      BY <1>4 DEF PopLen
    <2>5. Vector(s, b, c, n)'
      BY <1>2, <1>3, <2>2, <2>3, <2>4, VectorFrame DEF PopOK
    <2>6. PopLen(s)' = n
      BY <1>3, <2>1, <2>4 DEF PopLen
    <2>7. QED
      BY <1>3, <2>1, <2>2, <2>4, <2>5, <2>6 DEF PopOK
  <1>7. ASSUME NEW q \in Proc, Into(q, s)' PROVE PushOK(q, s)'
    <2>1. Into(q, s) /\ pc'[q] = pc[q] /\ loc'[q] = loc[q]
      BY <1>7 DEF Untouched
    <2>2. PushOK(q, s)
      BY <2>1 DEF BoxOK
    <2>3. loc[q].new \in Blocks \cup {Null} /\ loc[q].n \in Nat
      BY <1>1, Types
    <2>4. \A b \in Blocks : b = loc[q].new \/ (b = data[s] /\ pc[q] # "data") =>
             Owns(s, b) /\ size'[b] = size[b] /\ cells'[b] = cells[b]
      BY <2>1 DEF Untouched, Owns, Exclusive, Blocks, Null
    <2>5. PICK b \in Blocks \cup {Null}, c \in Nat, n \in Int :
            b = PushBlock(q, s) /\ c = PushRoom(q, s) /\ n = PushLen(q, s)
      BY <1>4, <2>3 DEF PushBlock, PushRoom, PushLen
    <2>6. b # Null => size'[b] = size[b] /\ cells'[b] = cells[b]
      BY <2>4, <2>5 DEF PushBlock
    <2>7. b = Null => ~(n > 0)
      BY <2>2, <2>5 DEF PushOK, Vector
    <2>8. Vector(s, b, c, n)'
      BY <1>2, <1>3, <2>2, <2>5, <2>6, VectorFrame DEF PushOK
    <2>9. Carries(q, s, b, n)'
      BY <1>2, <1>3, <2>1, <2>2, <2>5, <2>6, <2>7, CarriesFrame DEF PushOK
    <2>10. PushBlock(q, s)' = b /\ PushRoom(q, s)' = c /\ PushLen(q, s)' = n
      BY <1>3, <2>1, <2>5 DEF PushBlock, PushRoom, PushLen
    <2>11. /\ (pc[q] \in {"realloc", "malloc", "copy", "free"} => Growing(q, s))'
           /\ (pc[q] \in {"malloc", "copy", "free"} => loc[q].real = capacity[s])'
      BY <1>3, <2>1, <2>2 DEF PushOK, Growing
    <2>12. (pc[q] \in {"copy", "free"} => Doubled(q, s))'
      BY <1>3, <2>1, <2>2, <2>4 DEF PushOK, Doubled
    <2>13. (pc[q] = "free" =>
              \A j \in 0 .. length[s] - 1 : cells[loc[q].new][j] = cells[data[s]][j])'
      <3>1. SUFFICES ASSUME pc[q] = "free"
                     PROVE  \A j \in 0 .. length[s] - 1 : cells'[loc[q].new][j] = cells'[data[s]][j]
        BY <1>3, <2>1
      <3>2. loc[q].new \in Blocks /\ data[s] \in Blocks
        BY <1>4, <2>2, <3>1 DEF PushOK, Doubled
      <3>3. QED
        BY <2>2, <2>4, <3>1, <3>2 DEF PushOK
    <2>14. /\ (pc[q] \in {"data", "capacity", "load", "length", "slot"} =>
                 PushLen(q, s) < PushRoom(q, s))'
           /\ (pc[q] \in {"length", "slot"} => loc[q].i = PushLen(q, s))'
      BY <2>1, <2>2, <2>5, <2>10 DEF PushOK
    <2>15. QED
      BY <2>8, <2>9, <2>10, <2>11, <2>12, <2>13, <2>14 DEF PushOK
  <1>8. QED
    BY <1>5, <1>6, <1>7 DEF BoxOK

\* Where p is inside a mailbox, before or after the step, it is that of r.
ActsOn(p, r) ==
    /\ pc[p] \in PushLabel => loc[p].to = r
    /\ pc'[p] \in PushLabel => loc'[p].to = r
    /\ pc[p] \in PopLabel \/ pc'[p] \in PopLabel => p = r

\* The step writes to no mailbox but that of r, and to no block in use but its.
WritesOn(r) ==
    /\ \A s \in Proc \ {r} :
         /\ data'[s] = data[s] /\ length'[s] = length[s] /\ capacity'[s] = capacity[s]
         /\ got'[s] = got[s]
    /\ \A b \in Blocks :
         Owns(r, b) \/ size[b] = 0 \/ (size'[b] = size[b] /\ cells'[b] = cells[b])

\* A step of p that acts on, and writes to, the mailbox of r alone touches no other.
LEMMA Elsewhere ==
    ASSUME AnyInv, Calm, NEW p \in Proc, NEW r \in Proc, Others(p), ActsOn(p, r), WritesOn(r),
           alive' \subseteq alive, count <= count', NEW s \in Proc \ {r}
    PROVE  Untouched(s)
  <1>1. /\ \A q \in Proc : Into(q, s)' <=> Into(q, s)
        /\ \A q \in Proc : Into(q, s) => pc'[q] = pc[q] /\ loc'[q] = loc[q]
    BY DEF Into, Others, ActsOn
  <1>2. /\ pc'[s] \in PopLabel <=> pc[s] \in PopLabel
        /\ pc[s] \in PopLabel => pc'[s] = pc[s] /\ loc'[s] = loc[s]
    BY DEF Others, ActsOn
  <1>3. ASSUME NEW b \in Blocks, Owns(s, b) PROVE size'[b] = size[b] /\ cells'[b] = cells[b]
    <2>1. size[b] > 0 /\ ~Owns(r, b)
      BY <1>3 DEF Calm, Ownership
    <2>2. QED
      BY <2>1 DEF WritesOn
  <1>4. QED
    BY <1>1, <1>2, <1>3 DEF Untouched, WritesOn

\* A step that leaves a mailbox alone takes it nothing and gives it nothing.
LEMMA OwnsFrame ==
    ASSUME NEW s \in Proc, NEW b \in Blocks, Untouched(s), Owns(s, b)'
    PROVE  Owns(s, b)
  <1>1. InUse(s)
    BY DEF Owns, InUse, Untouched
  <1>2. CASE b = data'[s] /\ \A q \in Proc : ~(Into(q, s) /\ pc[q] = "data")'
    BY <1>1, <1>2 DEF Owns, Untouched
  <1>3. CASE \E q \in Proc : Into(q, s)' /\ b = loc'[q].new
    BY <1>1, <1>3 DEF Owns, Untouched
  <1>4. QED
    BY <1>2, <1>3 DEF Owns

\* What is left to show of a step on the mailbox of r.
LEMMA CalmStep ==
    ASSUME AnyInv, AnyInv', Calm, NEW r \in Proc,
           \A s \in Proc \ {r} : Untouched(s),
           InUse(r)' => BoxOK(r)',
           \A b \in Blocks : Owns(r, b)' => size'[b] > 0 /\ (Owns(r, b) \/ size[b] = 0),
           AliveIs', Exclusive', NewIsNull'
    PROVE  Calm'
  <1>1. BoxesOK'
    <2>1. ASSUME NEW s \in Proc \ {r}, InUse(s)' PROVE BoxOK(s)'
      <3>1. InUse(s)
        BY <2>1 DEF InUse, Untouched
      <3>2. QED
        BY <3>1, BoxFrame DEF Calm, BoxesOK
    <2>2. QED
      BY <2>1 DEF BoxesOK
  <1>2. Ownership'
    <2>1. ASSUME NEW s \in Proc \ {r}, NEW b \in Blocks, Owns(s, b)'
          PROVE  size'[b] > 0 /\ size[b] > 0 /\ Owns(s, b)
      <3>1. Owns(s, b)
        BY <2>1, OwnsFrame
      <3>2. size[b] > 0 /\ size'[b] = size[b]
        BY <3>1 DEF Calm, Ownership, Untouched
      <3>3. QED
        BY <3>1, <3>2
    <2>2. ASSUME NEW s \in Proc \ {r}, NEW b \in Blocks, Owns(s, b)' PROVE ~Owns(r, b)'
      BY <2>1, <2>2 DEF Calm, Ownership
    <2>3. ASSUME NEW s \in Proc \ {r}, NEW t \in Proc \ {r}, NEW b \in Blocks,
                 Owns(s, b)', Owns(t, b)'
          PROVE  t = s
      BY <2>1, <2>3 DEF Calm, Ownership
    <2>4. ASSUME NEW s \in Proc, NEW b \in Blocks, Owns(s, b)'
          PROVE  size'[b] > 0 /\ \A t \in Proc : Owns(t, b)' => t = s
      <3>1. CASE s \in Proc \ {r}
        BY <2>1, <2>2, <2>3, <2>4, <3>1
      <3>2. CASE s = r
        <4>1. Owns(r, b)'
          BY <2>4, <3>2
        <4>2. QED
          BY <2>2, <3>2, <4>1
      <3>3. QED
        BY <3>1, <3>2
    <2>5. QED
      BY <2>4 DEF Ownership
  <1>3. QED
    BY <1>1, <1>2 DEF Calm

\* Nobody enters a mailbox in the step.
LEMMA ExclusiveStays ==
    ASSUME Exclusive, NEW p \in Proc, Others(p),
           pc'[p] \in PushLabel => pc[p] \in PushLabel /\ loc'[p].to = loc[p].to,
           pc'[p] \in PopLabel => pc[p] \in PopLabel
    PROVE  Exclusive'
  <1>1. \A q, s \in Proc : Into(q, s)' => Into(q, s)
    BY DEF Into, Others
  <1>2. \A s \in Proc : pc'[s] \in PopLabel => pc[s] \in PopLabel
    BY DEF Others
  <1>3. QED
    BY <1>1, <1>2 DEF Exclusive

\* p alone is inside the mailbox of r, pushing.
Sole(p, r) ==
    /\ Into(p, r) /\ pc[r] \notin PopLabel
    /\ \A q \in Proc : Into(q, r) => q = p

\* A push that is alone in a mailbox knows what the mailbox holds.
LEMMA PusherKnows ==
    ASSUME AnyInv, Calm, NEW p \in Proc, pc[p] \in PushLabel, NEW r \in Proc, r = loc[p].to
    PROVE  Sole(p, r) /\ InUse(r) /\ PushOK(p, r)
  <1>1. Into(p, r) /\ InUse(r)
    BY DEF Into, InUse
  <1>2. QED
    BY <1>1 DEF Sole, Calm, Exclusive, BoxesOK, BoxOK

\* A push that stays inside its mailbox stays alone there.
LEMMA SoleStays ==
    ASSUME NEW p \in Proc, NEW r \in Proc, Sole(p, r), Others(p), Into(p, r)'
    PROVE  Sole(p, r)'
  <1>1. \A q \in Proc : Into(q, r)' => q = p
    BY DEF Sole, Into, Others
  <1>2. pc'[r] \notin PopLabel
    <2>1. pc'[p] \in PushLabel
      BY DEF Into
    <2>2. CASE r = p
      BY <2>1, <2>2 DEF PushLabel, PopLabel
    <2>3. CASE r # p
      BY <2>3 DEF Sole, Others
    <2>4. QED
      BY <2>2, <2>3
  <1>3. QED
    BY <1>1, <1>2 DEF Sole

\* The blocks of a mailbox with a push in progress.
LEMMA SoleOwns ==
    ASSUME NEW p \in Proc, NEW r \in Proc, NEW b \in Blocks
    PROVE  /\ Sole(p, r) =>
                (Owns(r, b) <=> (b = data[r] /\ pc[p] # "data") \/ b = loc[p].new)
           /\ Sole(p, r)' =>
                (Owns(r, b)' <=> (b = data'[r] /\ pc'[p] # "data") \/ b = loc'[p].new)
  <1>1. b # Null
    BY DEF Blocks, Null
  <1>2. Sole(p, r) => (Owns(r, b) <=> (b = data[r] /\ pc[p] # "data") \/ b = loc[p].new)
    BY <1>1 DEF Sole, Owns, InUse
  <1>3. Sole(p, r)' => (Owns(r, b)' <=> (b = data'[r] /\ pc'[p] # "data") \/ b = loc'[p].new)
    BY <1>1 DEF Sole, Owns, InUse
  <1>4. QED
    BY <1>2, <1>3

\* A mailbox with one push inside is in order when that push is.
LEMMA SoleBox ==
    ASSUME NEW p \in Proc, NEW r \in Proc, Sole(p, r)', PushOK(p, r)'
    PROVE  BoxOK(r)'
  BY DEF Sole, BoxOK, Idle

\* The step of a push that goes on leaves the other mailboxes alone.
Pushes(p) ==
    \E r \in Proc :
        /\ r = loc[p].to /\ Sole(p, r) /\ Sole(p, r)' /\ PushOK(p, r) /\ PushOK(p, r)'
        /\ \A s \in Proc \ {r} : Untouched(s)

\* What is left to show of a step of a push that goes on.
LEMMA PushStep ==
    ASSUME AnyInv, AnyInv', Calm, NEW p \in Proc, NEW r \in Proc, r = loc[p].to,
           Others(p), pc[p] \in PushLabel, pc'[p] \in PushLabel, loc'[p].to = r,
           WritesOn(r), alive' = alive, count' = count,
           PushOK(p, r)',
           \A b \in Blocks : (b = data'[r] /\ pc'[p] # "data") \/ b = loc'[p].new =>
               size'[b] > 0 /\ (Owns(r, b) \/ size[b] = 0),
           pc'[p] \notin {"copy", "free", "data"} => loc'[p].new = Null
    PROVE  Calm' /\ Pushes(p)
  <1>1. Sole(p, r) /\ Sole(p, r)'
    BY PusherKnows, SoleStays DEF Into
  <1>a. PushOK(p, r)
    BY PusherKnows
  <1>2. \A s \in Proc \ {r} : Untouched(s)
    <2>1. ActsOn(p, r)
      BY DEF ActsOn, PushLabel, PopLabel
    <2>2. count <= count' /\ alive' \subseteq alive
      BY TypeParts DEF AnyInv, RestTyped
    <2>3. QED
      BY <2>1, <2>2, Elsewhere
  <1>3. BoxOK(r)'
    BY <1>1, SoleBox
  <1>4. \A b \in Blocks : Owns(r, b)' => size'[b] > 0 /\ (Owns(r, b) \/ size[b] = 0)
    BY <1>1, SoleOwns
  <1>5. AliveIs'
    BY DEF Calm, AliveIs, Others, PushLabel
  <1>6. Exclusive'
    BY ExclusiveStays DEF Calm, PushLabel, PopLabel
  <1>7. NewIsNull'
    BY DEF Calm, NewIsNull, Others
  <1>8. Calm'
    BY <1>2, <1>3, <1>4, <1>5, <1>6, <1>7, CalmStep
  <1>9. QED
    BY <1>1, <1>2, <1>8, <1>a DEF Pushes

(***************************************************************************)
(* The steps of a push.                                                    *)
(***************************************************************************)
\* The mailbox and the message as a push sees them.
PushView(q, r) ==
    /\ Vector(r, PushBlock(q, r), PushRoom(q, r), PushLen(q, r))
    /\ Carries(q, r, PushBlock(q, r), PushLen(q, r))

\* A step that leaves the block alone leaves the view alone.
LEMMA ViewFrame ==
    ASSUME AnyInv, AnyInv', NEW p \in Proc, NEW r \in Proc, PushOK(p, r),
           count' = count, got' = got, loc'[p].msg = loc[p].msg,
           NEW b \in Blocks \cup {Null}, NEW c \in Nat, NEW n \in Int,
           b = PushBlock(p, r), c = PushRoom(p, r), n = PushLen(p, r),
           b # Null => size'[b] = size[b] /\ cells'[b] = cells[b],
           PushBlock(p, r)' = b, PushRoom(p, r)' = c, PushLen(p, r)' = n
    PROVE  PushView(p, r)'
  <1>1. count \in Nat /\ count' \in Nat /\ count <= count' /\ got'[r] = got[r]
    BY TypeParts DEF AnyInv, RestTyped
  <1>2. b = Null => ~(n > 0)
    BY DEF PushOK, Vector
  <1>3. Vector(r, b, c, n)'
    BY <1>1, VectorFrame DEF PushOK
  <1>4. Carries(p, r, b, n)'
    BY <1>1, <1>2, CarriesFrame DEF PushOK
  <1>5. QED
    BY <1>3, <1>4 DEF PushView

\* What a push relies on.
LEMMA PushFacts ==
    ASSUME AnyInv, Calm, NEW p \in Proc, pc[p] \in PushLabel
    PROVE  /\ CallTyped /\ BoxTyped /\ HeapTyped /\ RestTyped /\ Pointers
           /\ \E r \in Proc :
                /\ r = loc[p].to /\ Into(p, r) /\ Sole(p, r) /\ InUse(r) /\ PushOK(p, r)
                /\ Vector(r, PushBlock(p, r), PushRoom(p, r), PushLen(p, r))
                /\ length[r] \in Nat /\ capacity[r] \in Nat /\ data[r] \in Blocks \cup {Null}
                /\ loc[p].n \in Nat /\ loc[p].i \in Nat /\ loc[p].new \in Blocks \cup {Null}
                /\ \A b \in Blocks : b = loc[p].new \/ (b = data[r] /\ pc[p] # "data")
                                        => Owns(r, b) /\ size[b] > 0
  <1>1. CallTyped /\ BoxTyped /\ HeapTyped /\ RestTyped /\ Pointers
    BY TypeParts DEF AnyInv
  <1>2. PICK r \in Proc : r = loc[p].to
    BY <1>1, Types
  <1>3. Sole(p, r) /\ InUse(r) /\ PushOK(p, r)
    BY <1>2, PusherKnows
  <1>4. \A b \in Blocks : b = loc[p].new \/ (b = data[r] /\ pc[p] # "data")
                             => Owns(r, b) /\ size[b] > 0
    BY <1>3, SoleOwns DEF Calm, Ownership
  <1>5. Into(p, r) /\ Vector(r, PushBlock(p, r), PushRoom(p, r), PushLen(p, r))
    BY <1>3 DEF Sole, PushOK
  <1>6. /\ length[r] \in Nat /\ capacity[r] \in Nat /\ data[r] \in Blocks \cup {Null}
        /\ loc[p].n \in Nat /\ loc[p].i \in Nat /\ loc[p].new \in Blocks \cup {Null}
    BY <1>1, Types
  <1>7. QED
    BY <1>1, <1>2, <1>3, <1>4, <1>5, <1>6

\* A step of vec_expand_ preserves what holds in an orderly run.
LEMMA Calm_vec_expand_ ==
    ASSUME AnyInv, AnyInv', Calm, NEW p \in Proc, vec_expand_(p)
    PROVE  Calm' /\ status' = "running" /\ Pushes(p)
  <1>1. CallTyped /\ BoxTyped /\ HeapTyped /\ RestTyped /\ Pointers
    BY TypeParts DEF AnyInv
  <1>2. Does_vec_expand_(p)
    BY <1>1, Eff_vec_expand_
  <1>3. PICK r \in Proc :
          /\ r = loc[p].to /\ Into(p, r) /\ Sole(p, r) /\ InUse(r) /\ PushOK(p, r)
          /\ Vector(r, PushBlock(p, r), PushRoom(p, r), PushLen(p, r))
          /\ length[r] \in Nat /\ capacity[r] \in Nat /\ data[r] \in Blocks \cup {Null}
          /\ loc[p].n \in Nat /\ loc[p].i \in Nat /\ loc[p].new \in Blocks \cup {Null}
          /\ \A b \in Blocks : b = loc[p].new \/ (b = data[r] /\ pc[p] # "data")
                                  => Owns(r, b) /\ size[b] > 0
    BY <1>2, PushFacts DEF Does_vec_expand_, PushLabel
  <1>4. WritesOn(r)
    BY <1>2, <1>3 DEF Does_vec_expand_, WritesOn
  <1>5. PushView(p, r)'
    <2>1. PICK b \in Blocks \cup {Null}, c \in Nat, n \in Int :
            b = PushBlock(p, r) /\ c = PushRoom(p, r) /\ n = PushLen(p, r)
      BY <1>3 DEF PushBlock, PushRoom, PushLen
    <2>2. PushBlock(p, r)' = b /\ PushRoom(p, r)' = c /\ PushLen(p, r)' = n
      BY <1>2, <1>3, <2>1 DEF Does_vec_expand_, PushBlock, PushRoom, PushLen
    <2>3. count' = count /\ got' = got /\ loc'[p].msg = loc[p].msg
          /\ (b # Null => size'[b] = size[b] /\ cells'[b] = cells[b])
      BY <1>2, <1>3, <2>1 DEF Does_vec_expand_
    <2>4. QED
      BY <1>3, <2>1, <2>2, <2>3, ViewFrame
  <1>6. PushOK(p, r)'
    <2>1. length[r] <= capacity[r]
      BY <1>2, <1>3 DEF Does_vec_expand_, Vector, PushBlock, PushRoom, PushLen
    <2>2. (pc[p] = "realloc" => Growing(p, r))'
      BY <1>2, <1>3, <2>1 DEF Does_vec_expand_, Growing
    <2>3. pc'[p] = "load" => PushLen(p, r)' < PushRoom(p, r)'
      BY <1>2, <1>3 DEF Does_vec_expand_, PushBlock, PushRoom, PushLen
    <2>4. QED
      BY <1>2, <1>5, <2>2, <2>3 DEF Does_vec_expand_, PushOK, PushView
  <1>7. \A b \in Blocks : (b = data'[r] /\ pc'[p] # "data") \/ b = loc'[p].new =>
             size'[b] > 0 /\ (Owns(r, b) \/ size[b] = 0)
    BY <1>2, <1>3 DEF Does_vec_expand_
  <1>8. pc'[p] \notin {"copy", "free", "data"} => loc'[p].new = Null
    BY <1>2 DEF Does_vec_expand_, Calm, NewIsNull
  <1>9. QED
    BY <1>2, <1>3, <1>4, <1>6, <1>7, <1>8, PushStep DEF Does_vec_expand_, PushLabel

\* A step of realloc preserves what holds in an orderly run.
LEMMA Calm_realloc ==
    ASSUME AnyInv, AnyInv', Calm, NEW p \in Proc, realloc(p)
    PROVE  Calm' /\ status' = "running" /\ Pushes(p)
  <1>1. CallTyped /\ BoxTyped /\ HeapTyped /\ RestTyped /\ Pointers
    BY TypeParts DEF AnyInv
  <1>2. Does_realloc(p)
    BY <1>1, Eff_realloc
  <1>3. PICK r \in Proc :
          /\ r = loc[p].to /\ Into(p, r) /\ Sole(p, r) /\ InUse(r) /\ PushOK(p, r)
          /\ Vector(r, PushBlock(p, r), PushRoom(p, r), PushLen(p, r))
          /\ length[r] \in Nat /\ capacity[r] \in Nat /\ data[r] \in Blocks \cup {Null}
          /\ loc[p].n \in Nat /\ loc[p].i \in Nat /\ loc[p].new \in Blocks \cup {Null}
          /\ \A b \in Blocks : b = loc[p].new \/ (b = data[r] /\ pc[p] # "data")
                                  => Owns(r, b) /\ size[b] > 0
    BY <1>2, PushFacts DEF Does_realloc, PushLabel
  <1>a. Growing(p, r) /\ pc[p] = "realloc"
    BY <1>2, <1>3 DEF Does_realloc, PushOK
  <1>b. /\ data[r] = Null <=> capacity[r] = 0
        /\ data[r] # Null => size[data[r]] = capacity[r]
    BY <1>3, <1>a DEF Vector, PushBlock, PushRoom, PushLen
  <1>c. /\ pc'[p] = "malloc" /\ loc'[p].real = capacity[r] /\ loc'[p].new = loc[p].new
        /\ UNCHANGED << size, status >>
    BY <1>2, <1>3, <1>a, <1>b DEF Does_realloc, Growing
  <1>4. WritesOn(r)
    BY <1>a, <1>c, <1>2, <1>3 DEF Does_realloc, WritesOn
  <1>5. PushView(p, r)'
    <2>1. PICK b \in Blocks \cup {Null}, c \in Nat, n \in Int :
            b = PushBlock(p, r) /\ c = PushRoom(p, r) /\ n = PushLen(p, r)
      BY <1>3 DEF PushBlock, PushRoom, PushLen
    <2>2. PushBlock(p, r)' = b /\ PushRoom(p, r)' = c /\ PushLen(p, r)' = n
      BY <1>2, <1>3, <1>a, <1>c, <2>1 DEF Does_realloc, PushBlock, PushRoom, PushLen
    <2>3. count' = count /\ got' = got /\ loc'[p].msg = loc[p].msg
          /\ (b # Null => size'[b] = size[b] /\ cells'[b] = cells[b])
      BY <1>2, <1>3, <1>a, <1>c, <2>1 DEF Does_realloc
    <2>4. QED
      BY <1>3, <2>1, <2>2, <2>3, ViewFrame
  <1>6. PushOK(p, r)'
    <2>1. Growing(p, r)'
      BY <1>2, <1>a, <1>c DEF Does_realloc, Growing
    <2>2. QED
      BY <1>2, <1>5, <1>c, <2>1 DEF Does_realloc, PushOK, PushView
  <1>7. \A b \in Blocks : (b = data'[r] /\ pc'[p] # "data") \/ b = loc'[p].new =>
             size'[b] > 0 /\ (Owns(r, b) \/ size[b] = 0)
    BY <1>a, <1>c, <1>2, <1>3 DEF Does_realloc
  <1>8. pc'[p] \notin {"copy", "free", "data"} => loc'[p].new = Null
    BY <1>a, <1>c, <1>2 DEF Does_realloc, Calm, NewIsNull
  <1>9. QED
    BY <1>a, <1>c, <1>2, <1>3, <1>4, <1>6, <1>7, <1>8, PushStep DEF Does_realloc, PushLabel

\* A step of vec_expand_data preserves what holds in an orderly run.
LEMMA Calm_vec_expand_data ==
    ASSUME AnyInv, AnyInv', Calm, NEW p \in Proc, vec_expand_data(p)
    PROVE  Calm' /\ status' = "running" /\ Pushes(p)
  <1>1. CallTyped /\ BoxTyped /\ HeapTyped /\ RestTyped /\ Pointers
    BY TypeParts DEF AnyInv
  <1>2. Does_vec_expand_data(p)
    BY <1>1, Eff_vec_expand_data
  <1>3. PICK r \in Proc :
          /\ r = loc[p].to /\ Into(p, r) /\ Sole(p, r) /\ InUse(r) /\ PushOK(p, r)
          /\ Vector(r, PushBlock(p, r), PushRoom(p, r), PushLen(p, r))
          /\ length[r] \in Nat /\ capacity[r] \in Nat /\ data[r] \in Blocks \cup {Null}
          /\ loc[p].n \in Nat /\ loc[p].i \in Nat /\ loc[p].new \in Blocks \cup {Null}
          /\ \A b \in Blocks : b = loc[p].new \/ (b = data[r] /\ pc[p] # "data")
                                  => Owns(r, b) /\ size[b] > 0
    BY <1>2, PushFacts DEF Does_vec_expand_data, PushLabel
  <1>4. WritesOn(r)
    BY <1>2, <1>3 DEF Does_vec_expand_data, WritesOn
  <1>5. PushView(p, r)'
    <2>1. PICK b \in Blocks \cup {Null}, c \in Nat, n \in Int :
            b = PushBlock(p, r) /\ c = PushRoom(p, r) /\ n = PushLen(p, r)
      BY <1>3 DEF PushBlock, PushRoom, PushLen
    <2>2. PushBlock(p, r)' = b /\ PushRoom(p, r)' = c /\ PushLen(p, r)' = n
      BY <1>2, <1>3, <2>1 DEF Does_vec_expand_data, PushBlock, PushRoom, PushLen
    <2>3. count' = count /\ got' = got /\ loc'[p].msg = loc[p].msg
          /\ (b # Null => size'[b] = size[b] /\ cells'[b] = cells[b])
      BY <1>2, <1>3, <2>1 DEF Does_vec_expand_data
    <2>4. QED
      BY <1>3, <2>1, <2>2, <2>3, ViewFrame
  <1>6. PushOK(p, r)'
    <2>1. PushLen(p, r)' < PushRoom(p, r)'
      BY <1>2, <1>3 DEF Does_vec_expand_data, PushOK, PushBlock, PushRoom, PushLen
    <2>2. QED
      BY <1>2, <1>5, <2>1 DEF Does_vec_expand_data, PushOK, PushView
  <1>7. \A b \in Blocks : (b = data'[r] /\ pc'[p] # "data") \/ b = loc'[p].new =>
             size'[b] > 0 /\ (Owns(r, b) \/ size[b] = 0)
    BY <1>2, <1>3 DEF Does_vec_expand_data, Blocks, Null
  <1>8. pc'[p] \notin {"copy", "free", "data"} => loc'[p].new = Null
    BY <1>2 DEF Does_vec_expand_data, Calm, NewIsNull
  <1>9. QED
    BY <1>2, <1>3, <1>4, <1>6, <1>7, <1>8, PushStep DEF Does_vec_expand_data, PushLabel

\* A step of vec_expand_capacity preserves what holds in an orderly run.
LEMMA Calm_vec_expand_capacity ==
    ASSUME AnyInv, AnyInv', Calm, NEW p \in Proc, vec_expand_capacity(p)
    PROVE  Calm' /\ status' = "running" /\ Pushes(p)
  <1>1. CallTyped /\ BoxTyped /\ HeapTyped /\ RestTyped /\ Pointers
    BY TypeParts DEF AnyInv
  <1>2. Does_vec_expand_capacity(p)
    BY <1>1, Eff_vec_expand_capacity
  <1>3. PICK r \in Proc :
          /\ r = loc[p].to /\ Into(p, r) /\ Sole(p, r) /\ InUse(r) /\ PushOK(p, r)
          /\ Vector(r, PushBlock(p, r), PushRoom(p, r), PushLen(p, r))
          /\ length[r] \in Nat /\ capacity[r] \in Nat /\ data[r] \in Blocks \cup {Null}
          /\ loc[p].n \in Nat /\ loc[p].i \in Nat /\ loc[p].new \in Blocks \cup {Null}
          /\ \A b \in Blocks : b = loc[p].new \/ (b = data[r] /\ pc[p] # "data")
                                  => Owns(r, b) /\ size[b] > 0
    BY <1>2, PushFacts DEF Does_vec_expand_capacity, PushLabel
  <1>4. WritesOn(r)
    BY <1>2, <1>3 DEF Does_vec_expand_capacity, WritesOn
  <1>5. PushView(p, r)'
    <2>1. PICK b \in Blocks \cup {Null}, c \in Nat, n \in Int :
            b = PushBlock(p, r) /\ c = PushRoom(p, r) /\ n = PushLen(p, r)
      BY <1>3 DEF PushBlock, PushRoom, PushLen
    <2>2. PushBlock(p, r)' = b /\ PushRoom(p, r)' = c /\ PushLen(p, r)' = n
      BY <1>2, <1>3, <2>1 DEF Does_vec_expand_capacity, PushBlock, PushRoom, PushLen
    <2>3. count' = count /\ got' = got /\ loc'[p].msg = loc[p].msg
          /\ (b # Null => size'[b] = size[b] /\ cells'[b] = cells[b])
      BY <1>2, <1>3, <2>1 DEF Does_vec_expand_capacity
    <2>4. QED
      BY <1>3, <2>1, <2>2, <2>3, ViewFrame
  <1>6. PushOK(p, r)'
    <2>1. PushLen(p, r)' < PushRoom(p, r)'
      BY <1>2, <1>3 DEF Does_vec_expand_capacity, PushOK, PushBlock, PushRoom, PushLen
    <2>2. QED
      BY <1>2, <1>5, <2>1 DEF Does_vec_expand_capacity, PushOK, PushView
  <1>7. \A b \in Blocks : (b = data'[r] /\ pc'[p] # "data") \/ b = loc'[p].new =>
             size'[b] > 0 /\ (Owns(r, b) \/ size[b] = 0)
    BY <1>2, <1>3 DEF Does_vec_expand_capacity
  <1>8. pc'[p] \notin {"copy", "free", "data"} => loc'[p].new = Null
    BY <1>2 DEF Does_vec_expand_capacity, Calm, NewIsNull
  <1>9. QED
    BY <1>2, <1>3, <1>4, <1>6, <1>7, <1>8, PushStep DEF Does_vec_expand_capacity, PushLabel

\* A step of vec_push_load preserves what holds in an orderly run.
LEMMA Calm_vec_push_load ==
    ASSUME AnyInv, AnyInv', Calm, NEW p \in Proc, vec_push_load(p)
    PROVE  Calm' /\ status' = "running" /\ Pushes(p)
  <1>1. CallTyped /\ BoxTyped /\ HeapTyped /\ RestTyped /\ Pointers
    BY TypeParts DEF AnyInv
  <1>2. Does_vec_push_load(p)
    BY <1>1, Eff_vec_push_load
  <1>3. PICK r \in Proc :
          /\ r = loc[p].to /\ Into(p, r) /\ Sole(p, r) /\ InUse(r) /\ PushOK(p, r)
          /\ Vector(r, PushBlock(p, r), PushRoom(p, r), PushLen(p, r))
          /\ length[r] \in Nat /\ capacity[r] \in Nat /\ data[r] \in Blocks \cup {Null}
          /\ loc[p].n \in Nat /\ loc[p].i \in Nat /\ loc[p].new \in Blocks \cup {Null}
          /\ \A b \in Blocks : b = loc[p].new \/ (b = data[r] /\ pc[p] # "data")
                                  => Owns(r, b) /\ size[b] > 0
    BY <1>2, PushFacts DEF Does_vec_push_load, PushLabel
  <1>4. WritesOn(r)
    BY <1>2, <1>3 DEF Does_vec_push_load, WritesOn
  <1>5. PushView(p, r)'
    <2>1. PICK b \in Blocks \cup {Null}, c \in Nat, n \in Int :
            b = PushBlock(p, r) /\ c = PushRoom(p, r) /\ n = PushLen(p, r)
      BY <1>3 DEF PushBlock, PushRoom, PushLen
    <2>2. PushBlock(p, r)' = b /\ PushRoom(p, r)' = c /\ PushLen(p, r)' = n
      BY <1>2, <1>3, <2>1 DEF Does_vec_push_load, PushBlock, PushRoom, PushLen
    <2>3. count' = count /\ got' = got /\ loc'[p].msg = loc[p].msg
          /\ (b # Null => size'[b] = size[b] /\ cells'[b] = cells[b])
      BY <1>2, <1>3, <2>1 DEF Does_vec_push_load
    <2>4. QED
      BY <1>3, <2>1, <2>2, <2>3, ViewFrame
  <1>6. PushOK(p, r)'
    <2>1. PushLen(p, r)' < PushRoom(p, r)' /\ loc'[p].i = PushLen(p, r)'
      BY <1>2, <1>3 DEF Does_vec_push_load, PushOK, PushBlock, PushRoom, PushLen
    <2>2. QED
      BY <1>2, <1>5, <2>1 DEF Does_vec_push_load, PushOK, PushView
  <1>7. \A b \in Blocks : (b = data'[r] /\ pc'[p] # "data") \/ b = loc'[p].new =>
             size'[b] > 0 /\ (Owns(r, b) \/ size[b] = 0)
    BY <1>2, <1>3 DEF Does_vec_push_load
  <1>8. pc'[p] \notin {"copy", "free", "data"} => loc'[p].new = Null
    BY <1>2 DEF Does_vec_push_load, Calm, NewIsNull
  <1>9. QED
    BY <1>2, <1>3, <1>4, <1>6, <1>7, <1>8, PushStep DEF Does_vec_push_load, PushLabel

\* A step of vec_push_length preserves what holds in an orderly run.
LEMMA Calm_vec_push_length ==
    ASSUME AnyInv, AnyInv', Calm, NEW p \in Proc, vec_push_length(p)
    PROVE  Calm' /\ status' = "running" /\ Pushes(p)
  <1>1. CallTyped /\ BoxTyped /\ HeapTyped /\ RestTyped /\ Pointers
    BY TypeParts DEF AnyInv
  <1>2. Does_vec_push_length(p)
    BY <1>1, Eff_vec_push_length
  <1>3. PICK r \in Proc :
          /\ r = loc[p].to /\ Into(p, r) /\ Sole(p, r) /\ InUse(r) /\ PushOK(p, r)
          /\ Vector(r, PushBlock(p, r), PushRoom(p, r), PushLen(p, r))
          /\ length[r] \in Nat /\ capacity[r] \in Nat /\ data[r] \in Blocks \cup {Null}
          /\ loc[p].n \in Nat /\ loc[p].i \in Nat /\ loc[p].new \in Blocks \cup {Null}
          /\ \A b \in Blocks : b = loc[p].new \/ (b = data[r] /\ pc[p] # "data")
                                  => Owns(r, b) /\ size[b] > 0
    BY <1>2, PushFacts DEF Does_vec_push_length, PushLabel
  <1>a. loc[p].i = length[r]
    BY <1>2, <1>3 DEF Does_vec_push_length, PushOK, PushLen
  <1>4. WritesOn(r)
    BY <1>a, <1>2, <1>3 DEF Does_vec_push_length, WritesOn
  <1>5. PushView(p, r)'
    <2>1. PICK b \in Blocks \cup {Null}, c \in Nat, n \in Int :
            b = PushBlock(p, r) /\ c = PushRoom(p, r) /\ n = PushLen(p, r)
      BY <1>3 DEF PushBlock, PushRoom, PushLen
    <2>2. PushBlock(p, r)' = b /\ PushRoom(p, r)' = c /\ PushLen(p, r)' = n
      BY <1>2, <1>3, <1>a, <2>1 DEF Does_vec_push_length, PushBlock, PushRoom, PushLen
    <2>3. count' = count /\ got' = got /\ loc'[p].msg = loc[p].msg
          /\ (b # Null => size'[b] = size[b] /\ cells'[b] = cells[b])
      BY <1>2, <1>3, <1>a, <2>1 DEF Does_vec_push_length
    <2>4. QED
      BY <1>3, <2>1, <2>2, <2>3, ViewFrame
  <1>6. PushOK(p, r)'
    <2>1. PushLen(p, r)' < PushRoom(p, r)' /\ loc'[p].i = PushLen(p, r)'
      BY <1>2, <1>3 DEF Does_vec_push_length, PushOK, PushBlock, PushRoom, PushLen
    <2>2. QED
      BY <1>2, <1>5, <2>1 DEF Does_vec_push_length, PushOK, PushView
  <1>7. \A b \in Blocks : (b = data'[r] /\ pc'[p] # "data") \/ b = loc'[p].new =>
             size'[b] > 0 /\ (Owns(r, b) \/ size[b] = 0)
    BY <1>a, <1>2, <1>3 DEF Does_vec_push_length
  <1>8. pc'[p] \notin {"copy", "free", "data"} => loc'[p].new = Null
    BY <1>a, <1>2 DEF Does_vec_push_length, Calm, NewIsNull
  <1>9. QED
    BY <1>a, <1>2, <1>3, <1>4, <1>6, <1>7, <1>8, PushStep DEF Does_vec_push_length,
         PushLabel

\* A step of realloc_malloc preserves what holds in an orderly run.
LEMMA Calm_realloc_malloc ==
    ASSUME AnyInv, AnyInv', Calm, NEW p \in Proc, realloc_malloc(p)
    PROVE  Calm' /\ status' = "running" /\ Pushes(p)
  <1>1. CallTyped /\ BoxTyped /\ HeapTyped /\ RestTyped /\ Pointers
    BY TypeParts DEF AnyInv
  <1>2. Does_realloc_malloc(p)
    BY <1>1, Eff_realloc_malloc
  <1>3. PICK r \in Proc :
          /\ r = loc[p].to /\ Into(p, r) /\ Sole(p, r) /\ InUse(r) /\ PushOK(p, r)
          /\ Vector(r, PushBlock(p, r), PushRoom(p, r), PushLen(p, r))
          /\ length[r] \in Nat /\ capacity[r] \in Nat /\ data[r] \in Blocks \cup {Null}
          /\ loc[p].n \in Nat /\ loc[p].i \in Nat /\ loc[p].new \in Blocks \cup {Null}
          /\ \A b \in Blocks : b = loc[p].new \/ (b = data[r] /\ pc[p] # "data")
                                  => Owns(r, b) /\ size[b] > 0
    BY <1>2, PushFacts DEF Does_realloc_malloc, PushLabel
  <1>a. Growing(p, r) /\ pc[p] = "malloc"
    BY <1>2, <1>3 DEF Does_realloc_malloc, PushOK
  <1>b. /\ data[r] = Null <=> capacity[r] = 0
        /\ data[r] # Null => size[data[r]] = capacity[r]
    BY <1>3, <1>a DEF Vector, PushBlock, PushRoom, PushLen
  <1>c. PICK b \in Blocks :
          /\ size[b] = 0 /\ loc'[p].new = b /\ loc[p].n > 0
          /\ size' = [size EXCEPT ![b] = loc[p].n] /\ size'[b] = loc[p].n
          /\ cells' = [cells EXCEPT ![b] = [i \in Cell |-> Unwritten]]
    <2>1. loc[p].n > 0
      BY <1>3, <1>a DEF Growing
    <2>2. PICK b \in Blocks :
            /\ size[b] = 0 /\ loc'[p].new = b
            /\ size' = [size EXCEPT ![b] = loc[p].n]
            /\ cells' = [cells EXCEPT ![b] = [i \in Cell |-> Unwritten]]
      BY <1>2 DEF Does_realloc_malloc
    <2>3. size'[b] = loc[p].n
      BY <1>1, <2>2 DEF HeapTyped
    <2>4. QED
      BY <2>1, <2>2, <2>3
  <1>4. WritesOn(r)
    BY <1>1, <1>a, <1>b, <1>c, <1>2, <1>3 DEF Does_realloc_malloc, WritesOn, HeapTyped
  <1>6. PushOK(p, r)'
    <2>1. CASE loc[p].old = Null
      <3>1. pc'[p] = "data" /\ capacity[r] = 0 /\ length[r] = 0 /\ loc[p].n = 1
        BY <1>2, <1>a, <1>b, <2>1 DEF Does_realloc_malloc, Growing
      <3>2. Vector(r, b, 1, 0)'
        BY <1>3, <1>c, <3>1 DEF Vector, Keeps, Blocks, Null
      <3>3. Carries(p, r, b, 0)'
        BY <1>2, <1>3 DEF Does_realloc_malloc, PushOK, Carries
      <3>4. PushBlock(p, r)' = b /\ PushRoom(p, r)' = 1 /\ PushLen(p, r)' = 0
        BY <1>2, <1>c, <3>1 DEF Does_realloc_malloc, PushBlock, PushRoom, PushLen
      <3>5. QED
        BY <3>1, <3>2, <3>3, <3>4 DEF PushOK
    <2>2. CASE loc[p].old # Null
      <3>1. pc'[p] = "copy" /\ data[r] # Null /\ b # data[r]
        BY <1>2, <1>3, <1>a, <1>b, <1>c, <2>2 DEF Does_realloc_malloc, Growing
      <3>2. PICK d \in Blocks \cup {Null}, c \in Nat, n \in Int :
              d = PushBlock(p, r) /\ c = PushRoom(p, r) /\ n = PushLen(p, r)
        BY <1>3 DEF PushBlock, PushRoom, PushLen
      <3>3. PushBlock(p, r)' = d /\ PushRoom(p, r)' = c /\ PushLen(p, r)' = n
        BY <1>2, <1>a, <3>1, <3>2 DEF Does_realloc_malloc, PushBlock, PushRoom, PushLen
      <3>4. /\ count' = count /\ got' = got /\ loc'[p].msg = loc[p].msg
            /\ d # Null => size'[d] = size[d] /\ cells'[d] = cells[d]
        <4>1. d # b
          BY <1>a, <3>1, <3>2 DEF PushBlock
        <4>2. QED
          BY <1>1, <1>2, <1>c, <4>1 DEF Does_realloc_malloc, HeapTyped
      <3>5. PushView(p, r)'
        BY <1>3, <3>2, <3>3, <3>4, ViewFrame
      <3>6. Growing(p, r)' /\ Doubled(p, r)' /\ loc'[p].real = capacity'[r]
        BY <1>1, <1>2, <1>3, <1>a, <1>c, <3>1 DEF Does_realloc_malloc, Growing, Doubled,
             HeapTyped, PushOK
      <3>7. QED
        BY <3>1, <3>5, <3>6 DEF PushOK, PushView
    <2>3. QED
      BY <2>1, <2>2
  <1>7. \A x \in Blocks : (x = data'[r] /\ pc'[p] # "data") \/ x = loc'[p].new =>
             size'[x] > 0 /\ (Owns(r, x) \/ size[x] = 0)
    BY <1>1, <1>a, <1>b, <1>c, <1>2, <1>3 DEF Does_realloc_malloc, HeapTyped
  <1>8. pc'[p] \notin {"copy", "free", "data"} => loc'[p].new = Null
    BY <1>1, <1>a, <1>b, <1>c, <1>2 DEF Does_realloc_malloc, Calm, NewIsNull
  <1>9. QED
    BY <1>1, <1>a, <1>b, <1>c, <1>2, <1>3, <1>4, <1>6, <1>7, <1>8, PushStep DEF Does_realloc_malloc,
         PushLabel

\* A step of realloc_copy preserves what holds in an orderly run.
LEMMA Calm_realloc_copy ==
    ASSUME AnyInv, AnyInv', Calm, NEW p \in Proc, realloc_copy(p)
    PROVE  Calm' /\ status' = "running" /\ Pushes(p)
  <1>1. CallTyped /\ BoxTyped /\ HeapTyped /\ RestTyped /\ Pointers
    BY TypeParts DEF AnyInv
  <1>2. Does_realloc_copy(p)
    BY <1>1, Eff_realloc_copy
  <1>3. PICK r \in Proc :
          /\ r = loc[p].to /\ Into(p, r) /\ Sole(p, r) /\ InUse(r) /\ PushOK(p, r)
          /\ Vector(r, PushBlock(p, r), PushRoom(p, r), PushLen(p, r))
          /\ length[r] \in Nat /\ capacity[r] \in Nat /\ data[r] \in Blocks \cup {Null}
          /\ loc[p].n \in Nat /\ loc[p].i \in Nat /\ loc[p].new \in Blocks \cup {Null}
          /\ \A b \in Blocks : b = loc[p].new \/ (b = data[r] /\ pc[p] # "data")
                                  => Owns(r, b) /\ size[b] > 0
    BY <1>2, PushFacts DEF Does_realloc_copy, PushLabel
  <1>a. Growing(p, r) /\ pc[p] = "copy"
    BY <1>2, <1>3 DEF Does_realloc_copy, PushOK
  <1>c. loc[p].new # data[r] /\ loc[p].real = capacity[r]
    BY <1>3, <1>a DEF PushOK, Doubled
  <1>4. WritesOn(r)
    BY <1>1, <1>a, <1>c, <1>2, <1>3 DEF Does_realloc_copy, WritesOn, HeapTyped
  <1>5. PushView(p, r)'
    <2>1. PICK b \in Blocks \cup {Null}, c \in Nat, n \in Int :
            b = PushBlock(p, r) /\ c = PushRoom(p, r) /\ n = PushLen(p, r)
      BY <1>3 DEF PushBlock, PushRoom, PushLen
    <2>2. PushBlock(p, r)' = b /\ PushRoom(p, r)' = c /\ PushLen(p, r)' = n
      BY <1>2, <1>3, <1>1, <1>a, <1>c, <2>1 DEF Does_realloc_copy, PushBlock, PushRoom,
           PushLen
    <2>3. count' = count /\ got' = got /\ loc'[p].msg = loc[p].msg
          /\ (b # Null => size'[b] = size[b] /\ cells'[b] = cells[b])
      BY <1>2, <1>3, <1>1, <1>a, <1>c, <2>1 DEF Does_realloc_copy, HeapTyped, PushBlock
    <2>4. QED
      BY <1>3, <2>1, <2>2, <2>3, ViewFrame
  <1>6. PushOK(p, r)'
    <2>1. Growing(p, r)' /\ Doubled(p, r)' /\ loc'[p].real = capacity'[r]
      BY <1>2, <1>3, <1>a DEF Does_realloc_copy, Growing, Doubled, PushOK
    <2>2. \A j \in 0 .. length[r] - 1 : cells'[loc[p].new][j] = cells'[data[r]][j]
      <3>1. SUFFICES ASSUME NEW j \in 0 .. length[r] - 1
                     PROVE  cells'[loc[p].new][j] = cells'[data[r]][j]
        OBVIOUS
      <3>a. length[r] \in Cell /\ length[r] = capacity[r]
        BY <1>1, <1>a DEF Growing, BoxTyped
      <3>2. j \in Cell /\ j < loc[p].real
        BY <1>c, <3>a DEF Cell
      <3>3. cells'[loc[p].new][j] = cells[loc[p].old][j]
        BY <1>1, <1>2, <3>2 DEF Does_realloc_copy, HeapTyped
      <3>4. cells'[data[r]] = cells[data[r]]
        BY <1>1, <1>2, <1>c DEF Does_realloc_copy, HeapTyped
      <3>5. QED
        BY <1>a, <3>3, <3>4 DEF Growing
    <2>3. QED
      BY <1>2, <1>5, <2>1, <2>2 DEF Does_realloc_copy, PushOK, PushView
  <1>7. \A b \in Blocks : (b = data'[r] /\ pc'[p] # "data") \/ b = loc'[p].new =>
             size'[b] > 0 /\ (Owns(r, b) \/ size[b] = 0)
    BY <1>1, <1>a, <1>c, <1>2, <1>3 DEF Does_realloc_copy, HeapTyped
  <1>8. pc'[p] \notin {"copy", "free", "data"} => loc'[p].new = Null
    BY <1>1, <1>a, <1>c, <1>2 DEF Does_realloc_copy, Calm, NewIsNull
  <1>9. QED
    BY <1>1, <1>a, <1>c, <1>2, <1>3, <1>4, <1>6, <1>7, <1>8, PushStep DEF Does_realloc_copy,
         PushLabel

\* A step of realloc_free preserves what holds in an orderly run.
LEMMA Calm_realloc_free ==
    ASSUME AnyInv, AnyInv', Calm, NEW p \in Proc, realloc_free(p)
    PROVE  Calm' /\ status' = "running" /\ Pushes(p)
  <1>1. CallTyped /\ BoxTyped /\ HeapTyped /\ RestTyped /\ Pointers
    BY TypeParts DEF AnyInv
  <1>2. Does_realloc_free(p)
    BY <1>1, Eff_realloc_free
  <1>3. PICK r \in Proc :
          /\ r = loc[p].to /\ Into(p, r) /\ Sole(p, r) /\ InUse(r) /\ PushOK(p, r)
          /\ Vector(r, PushBlock(p, r), PushRoom(p, r), PushLen(p, r))
          /\ length[r] \in Nat /\ capacity[r] \in Nat /\ data[r] \in Blocks \cup {Null}
          /\ loc[p].n \in Nat /\ loc[p].i \in Nat /\ loc[p].new \in Blocks \cup {Null}
          /\ \A b \in Blocks : b = loc[p].new \/ (b = data[r] /\ pc[p] # "data")
                                  => Owns(r, b) /\ size[b] > 0
    BY <1>2, PushFacts DEF Does_realloc_free, PushLabel
  <1>a. Growing(p, r) /\ pc[p] = "free"
    BY <1>2, <1>3 DEF Does_realloc_free, PushOK
  <1>b. /\ data[r] = Null <=> capacity[r] = 0
        /\ data[r] # Null => size[data[r]] = capacity[r]
    BY <1>3, <1>a DEF Vector, PushBlock, PushRoom, PushLen
  <1>c. /\ loc[p].new \in Blocks /\ loc[p].new # data[r] /\ data[r] # Null
        /\ size[loc[p].new] = loc[p].n /\ loc[p].old = data[r]
    BY <1>3, <1>a DEF PushOK, Doubled, Growing
  <1>4. WritesOn(r)
    BY <1>1, <1>a, <1>c, <1>2, <1>3 DEF Does_realloc_free, WritesOn, FreedSize
  <1>6. PushOK(p, r)'
    <2>1. PICK d \in Blocks, c \in Nat, n \in Nat :
            d = loc[p].new /\ c = loc[p].n /\ n = length[r]
      BY <1>3, <1>c
    <2>2. Vector(r, data[r], capacity[r], length[r]) /\ Carries(p, r, data[r], length[r])
      BY <1>3, <1>a DEF PushOK, PushBlock, PushRoom, PushLen
    <2>3. \A j \in 0 .. n - 1 : cells'[d][j] = cells[data[r]][j]
      BY <1>2, <1>3, <1>a, <2>1 DEF Does_realloc_free, PushOK
    <2>4. c > n /\ size'[d] = c /\ d # Null
      BY <1>1, <1>2, <1>3, <1>a, <1>b, <1>c, <2>1, SMTT(40)
      DEF Does_realloc_free, Growing, FreedSize, Blocks, Null
    <2>5. Vector(r, d, c, n)'
      BY <1>2, <2>1, <2>2, <2>3, <2>4 DEF Does_realloc_free, Vector, Keeps
    <2>6. Carries(p, r, d, n)'
      BY <1>2, <2>1, <2>2, <2>3 DEF Does_realloc_free, Carries
    <2>7. PushBlock(p, r)' = d /\ PushRoom(p, r)' = c /\ PushLen(p, r)' = n
      BY <1>2, <2>1 DEF Does_realloc_free, PushBlock, PushRoom, PushLen
    <2>8. QED
      BY <1>2, <2>4, <2>5, <2>6, <2>7 DEF Does_realloc_free, PushOK
  <1>7. \A b \in Blocks : (b = data'[r] /\ pc'[p] # "data") \/ b = loc'[p].new =>
             size'[b] > 0 /\ (Owns(r, b) \/ size[b] = 0)
    BY <1>1, <1>a, <1>c, <1>2, <1>3 DEF Does_realloc_free, FreedSize
  <1>8. pc'[p] \notin {"copy", "free", "data"} => loc'[p].new = Null
    BY <1>1, <1>a, <1>c, <1>2 DEF Does_realloc_free, Calm, NewIsNull
  <1>9. QED
    BY <1>1, <1>a, <1>c, <1>2, <1>3, <1>4, <1>6, <1>7, <1>8, PushStep DEF Does_realloc_free,
         PushLabel

\* Nobody inside the mailbox of r after the step.
LEMMA IdleBox ==
    ASSUME NEW r \in Proc, Idle(r)', Vector(r, data[r], capacity[r], length[r])'
    PROVE  BoxOK(r)'
  BY DEF Idle, BoxOK

\* An idle mailbox owns no block but the one its vector points to.
LEMMA IdleOwns ==
    ASSUME NEW r \in Proc, Idle(r)', NEW b \in Blocks, Owns(r, b)'
    PROVE  b = data'[r]
  BY DEF Idle, Owns

\* A step of vec_push_slot preserves what holds in an orderly run.
LEMMA Calm_vec_push_slot ==
    ASSUME AnyInv, AnyInv', Calm, NEW p \in Proc, vec_push_slot(p)
    PROVE  /\ Calm' /\ status' = "running"
           /\ \E r \in Proc, d \in Blocks, k \in Nat :
                /\ Sole(p, r) /\ Idle(r)' /\ \A s \in Proc \ {r} : Untouched(s)
                /\ PushLen(p, r) = k /\ PushBlock(p, r) = d /\ Carries(p, r, d, k)
                /\ data'[r] = d /\ length'[r] = k + 1 /\ cells'[d][k] = loc[p].msg
                /\ \A j \in 0 .. k - 1 : cells'[d][j] = cells[d][j]
  <1>1. CallTyped /\ BoxTyped /\ HeapTyped /\ RestTyped /\ Pointers
    BY TypeParts DEF AnyInv
  <1>2. Does_vec_push_slot(p)
    BY <1>1, Eff_vec_push_slot
  <1>3. PICK r \in Proc :
          /\ r = loc[p].to /\ Into(p, r) /\ Sole(p, r) /\ InUse(r) /\ PushOK(p, r)
          /\ Vector(r, PushBlock(p, r), PushRoom(p, r), PushLen(p, r))
          /\ length[r] \in Nat /\ capacity[r] \in Nat /\ data[r] \in Blocks \cup {Null}
          /\ loc[p].n \in Nat /\ loc[p].i \in Nat /\ loc[p].new \in Blocks \cup {Null}
          /\ \A b \in Blocks : b = loc[p].new \/ (b = data[r] /\ pc[p] # "data")
                                  => Owns(r, b) /\ size[b] > 0
    BY <1>2, PushFacts DEF Does_vec_push_slot, PushLabel
  <1>4. PICK d \in Blocks, k \in Nat, m \in Message :
          d = data[r] /\ k = loc[p].i /\ m = loc[p].msg
    BY <1>2, <1>3 DEF Does_vec_push_slot, PushOK, Carries
  <1>5. /\ k = length[r] - 1 /\ k < capacity[r]
        /\ Vector(r, d, capacity[r], k) /\ Carries(p, r, d, k) /\ Owns(r, d) /\ size[d] > 0
    BY <1>2, <1>3, <1>4 DEF Does_vec_push_slot, PushOK, PushBlock, PushRoom, PushLen
  <1>6. cells' = [cells EXCEPT ![d][k] = m] /\ status' = "running"
    BY <1>2, <1>3, <1>4, <1>5 DEF Does_vec_push_slot
  <1>7. /\ \A b \in Blocks : b # d => cells'[b] = cells[b]
        /\ cells'[d][k] = m /\ \A j \in 0 .. k - 1 : cells'[d][j] = cells[d][j]
    <2>1. k \in Cell
      BY <1>2, <1>3, <1>4 DEF Does_vec_push_slot
    <2>2. QED
      BY <1>1, <1>6, <2>1 DEF HeapTyped, Cell
  <1>8. WritesOn(r)
    BY <1>2, <1>5, <1>7 DEF Does_vec_push_slot, WritesOn
  <1>9. Idle(r)'
    <2>1. \A q \in Proc : ~Into(q, r)'
      BY <1>2, <1>3 DEF Does_vec_push_slot, Sole, Into, Others, PushLabel
    <2>2. pc'[r] \notin PopLabel
      BY <1>2, <1>3 DEF Does_vec_push_slot, Sole, Others, PopLabel
    <2>3. QED
      BY <2>1, <2>2 DEF Idle
  <1>10. Vector(r, data[r], capacity[r], length[r])'
    <2>1. PICK n \in Nat, c \in Nat : n = length[r] /\ c = capacity[r]
      BY <1>3
    <2>2. Keeps(r, d, k) /\ k = n - 1
      BY <1>5, <2>1 DEF Vector
    <2>3. Keeps(r, d, n)'
      <3>1. ASSUME NEW j \in 0 .. n - 1
            PROVE  /\ cells'[d][j] \in Message
                   /\ cells'[d][j].receiver = r /\ cells'[d][j].number <= count'
                   /\ \A i \in DOMAIN got'[r] : got'[r][i].number # cells'[d][j].number
        <4>1. CASE j = k
          BY <1>2, <1>4, <1>5, <1>7, <4>1 DEF Carries, Does_vec_push_slot
        <4>2. CASE j # k
          <5>1. j \in 0 .. k - 1
            BY <2>2, <4>2
          <5>2. QED
            BY <1>2, <1>7, <2>2, <5>1 DEF Keeps, Does_vec_push_slot
        <4>3. QED
          BY <4>1, <4>2
      <3>2. ASSUME NEW i \in 0 .. n - 1, NEW j \in 0 .. n - 1,
                   cells'[d][i].number = cells'[d][j].number
            PROVE  i = j
        <4>1. i \in 0 .. k - 1 \/ i = k
          BY <2>2
        <4>2. j \in 0 .. k - 1 \/ j = k
          BY <2>2
        <4>3. \A l \in 0 .. k - 1 : cells'[d][l].number # m.number
          BY <1>4, <1>5, <1>7 DEF Carries
        <4>4. QED
          BY <1>7, <2>2, <3>2, <4>1, <4>2, <4>3 DEF Keeps
      <3>3. QED
        BY <3>1, <3>2 DEF Keeps
    <2>4. Vector(r, d, c, n)'
      BY <1>2, <1>5, <2>1, <2>2, <2>3 DEF Vector, Does_vec_push_slot
    <2>5. QED
      BY <1>2, <1>4, <2>1, <2>4 DEF Does_vec_push_slot
  <1>11. \A s \in Proc \ {r} : Untouched(s)
    <2>1. ActsOn(p, r)
      BY <1>2, <1>3 DEF Does_vec_push_slot, ActsOn, PushLabel, PopLabel
    <2>2. Others(p) /\ alive' \subseteq alive /\ count <= count'
      BY <1>1, <1>2 DEF Does_vec_push_slot, RestTyped
    <2>3. QED
      BY <1>8, <2>1, <2>2, Elsewhere
  <1>12. \A b \in Blocks : Owns(r, b)' => size'[b] > 0 /\ (Owns(r, b) \/ size[b] = 0)
    BY <1>2, <1>4, <1>5, <1>9, IdleOwns DEF Does_vec_push_slot
  <1>13. AliveIs' /\ NewIsNull'
    BY <1>2 DEF Does_vec_push_slot, Calm, AliveIs, NewIsNull, Others
  <1>14. Exclusive'
    BY <1>2, ExclusiveStays DEF Does_vec_push_slot, Calm, PushLabel, PopLabel
  <1>15. Calm'
    BY <1>9, <1>10, <1>11, <1>12, <1>13, <1>14, IdleBox, CalmStep
  <1>16. /\ PushLen(p, r) = k /\ PushBlock(p, r) = d
         /\ data'[r] = d /\ length'[r] = k + 1 /\ cells'[d][k] = loc[p].msg
    <2>1. pc[p] = "slot" /\ data' = data /\ length' = length
      BY <1>2 DEF Does_vec_push_slot
    <2>2. PICK n \in Nat : n = length[r] /\ k = n - 1
      BY <1>3, <1>5
    <2>3. PushLen(p, r) = k /\ PushBlock(p, r) = d
      BY <1>4, <2>1, <2>2 DEF PushLen, PushBlock
    <2>4. n = k + 1
      BY <2>2
    <2>5. data'[r] = d /\ length'[r] = k + 1
      BY <1>4, <2>1, <2>2, <2>4
    <2>6. QED
      BY <1>4, <1>7, <2>3, <2>5
  <1>17. QED
    BY <1>3, <1>5, <1>6, <1>7, <1>9, <1>11, <1>15, <1>16

(***************************************************************************)
(* The steps of a pop, and those that enter a mailbox.                     *)
(***************************************************************************)
\* Nobody inside but the owner of the mailbox.
Popping(p) == pc[p] \in PopLabel /\ \A q \in Proc : ~Into(q, p)

\* A pop that is alone in its mailbox knows what the mailbox holds.
LEMMA PopperKnows ==
    ASSUME AnyInv, Calm, NEW p \in Proc, pc[p] \in PopLabel
    PROVE  Popping(p) /\ InUse(p) /\ PopOK(p)
  <1>1. p \in alive
    BY DEF Calm, AliveIs, PopLabel
  <1>2. QED
    BY <1>1 DEF Popping, InUse, Calm, Exclusive, BoxesOK, BoxOK

\* A mailbox its owner pops from owns no block but the one its vector points to.
LEMMA PoppingOwns ==
    ASSUME NEW p \in Proc, NEW b \in Blocks
    PROVE  /\ Popping(p) => (Owns(p, b) => b = data[p])
           /\ Popping(p)' => (Owns(p, b)' => b = data'[p])
  <1>1. Popping(p) => (Owns(p, b) => b = data[p])
    BY DEF Popping, Owns
  <1>2. Popping(p)' => (Owns(p, b)' => b = data'[p])
    BY DEF Popping, Owns
  <1>3. QED
    BY <1>1, <1>2

\* What is left to show of a step into or inside a pop.
LEMMA PopStep ==
    ASSUME AnyInv, AnyInv', Calm, NEW p \in Proc, Others(p), pc[p] \notin PushLabel,
           pc[p] # "exited", pc'[p] \in PopLabel, loc'[p].new = Null,
           \A q \in Proc : ~Into(q, p),
           \A s \in Proc \ {p} : length'[s] = length[s],
           UNCHANGED << alive, data, capacity, size, cells, count, got >>,
           PopOK(p)'
    PROVE  Calm' /\ Popping(p)' /\ \A s \in Proc \ {p} : Untouched(s)
  <1>1. /\ pc'[p] \notin PushLabel /\ pc'[p] # "exited"
        /\ pc'[p] \notin {"copy", "free", "data"}
    BY DEF PushLabel, PopLabel
  <1>2. \A q, s \in Proc : Into(q, s)' <=> Into(q, s)
    BY <1>1 DEF Into, Others
  <1>3. Popping(p)' /\ InUse(p)
    BY <1>2 DEF Popping, Calm, AliveIs, InUse
  <1>4. BoxOK(p)'
    BY <1>3 DEF BoxOK, Popping, Idle
  <1>5. \A s \in Proc \ {p} : Untouched(s)
    <2>1. ActsOn(p, p)
      BY <1>1 DEF ActsOn
    <2>2. WritesOn(p)
      BY DEF WritesOn
    <2>3. count <= count'
      BY TypeParts DEF AnyInv, RestTyped
    <2>4. QED
      BY <2>1, <2>2, <2>3, Elsewhere
  <1>6. ASSUME NEW b \in Blocks, Owns(p, b)' PROVE Owns(p, b) /\ size'[b] > 0
    <2>1. b = data[p] /\ b # Null
      BY <1>3, <1>6, PoppingOwns DEF Blocks, Null
    <2>2. Owns(p, b)
      BY <1>3, <2>1 DEF Owns
    <2>3. QED
      BY <2>2 DEF Calm, Ownership
  <1>7. AliveIs' /\ NewIsNull'
    BY <1>1 DEF Calm, AliveIs, NewIsNull, Others
  <1>8. Exclusive'
    <2>1. ASSUME NEW s \in Proc, NEW q \in Proc, Into(q, s)'
          PROVE  pc'[s] \notin PopLabel /\ \A t \in Proc : Into(t, s)' => t = q
      <3>1. Into(q, s) /\ s # p
        BY <1>2, <2>1
      <3>2. QED
        BY <1>2, <3>1 DEF Calm, Exclusive, Others
    <2>2. QED
      BY <2>1 DEF Exclusive
  <1>9. Calm'
    BY <1>4, <1>5, <1>6, <1>7, <1>8, CalmStep
  <1>10. QED
    BY <1>3, <1>5, <1>9

\* A step of vec_pop_load preserves what holds in an orderly run.
LEMMA Calm_vec_pop_load ==
    ASSUME AnyInv, AnyInv', Calm, NEW p \in Proc, vec_pop_load(p)
    PROVE  /\ Calm' /\ status' = "running"
           /\ Popping(p) /\ PopOK(p) /\ Popping(p)' /\ \A s \in Proc \ {p} : Untouched(s)
  <1>1. CallTyped /\ BoxTyped /\ RestTyped /\ Pointers /\ PopNeverUnderflows
    BY TypeParts DEF AnyInv
  <1>2. Does_vec_pop_load(p)
    BY <1>1, Eff_vec_pop_load
  <1>3. Popping(p) /\ InUse(p) /\ PopOK(p)
    BY <1>2, PopperKnows DEF Does_vec_pop_load, PopLabel
  <1>4. PICK d \in Blocks \cup {Null}, c \in Nat, n \in Int :
          d = data[p] /\ c = capacity[p] /\ n = length[p]
    <2>1. data[p] \in Blocks \cup {Null} /\ capacity[p] \in Nat /\ length[p] \in Nat
      BY <1>1, Types, Zenon
    <2>2. QED
      BY <2>1
  <1>5. Vector(p, d, c, n)'
    BY <1>1, <1>2, <1>3, <1>4, VectorFrame DEF Does_vec_pop_load, PopOK, PopLen, RestTyped
  <1>6. PopOK(p)'
    BY <1>2, <1>4, <1>5 DEF Does_vec_pop_load, PopOK, PopLen
  <1>7. loc'[p].new = Null
    BY <1>2 DEF Does_vec_pop_load, Calm, NewIsNull
  <1>8. QED
    BY <1>2, <1>3, <1>6, <1>7, PopStep DEF Does_vec_pop_load, Popping, PushLabel, PopLabel

\* A step of vec_pop_length preserves what holds in an orderly run.
LEMMA Calm_vec_pop_length ==
    ASSUME AnyInv, AnyInv', Calm, NEW p \in Proc, vec_pop_length(p)
    PROVE  /\ Calm' /\ status' = "running"
           /\ Popping(p) /\ PopOK(p) /\ Popping(p)' /\ \A s \in Proc \ {p} : Untouched(s)
  <1>1. CallTyped /\ BoxTyped /\ RestTyped /\ Pointers
    BY TypeParts DEF AnyInv
  <1>2. Does_vec_pop_length(p)
    BY <1>1, Eff_vec_pop_length
  <1>3. Popping(p) /\ InUse(p) /\ PopOK(p)
    BY <1>2, PopperKnows DEF Does_vec_pop_length, PopLabel
  <1>4. PICK d \in Blocks \cup {Null}, c \in Nat, n \in Int :
          d = data[p] /\ c = capacity[p] /\ n = length[p]
    <2>1. data[p] \in Blocks \cup {Null} /\ capacity[p] \in Nat /\ length[p] \in Nat
      BY <1>1, Types, Zenon
    <2>2. QED
      BY <2>1
  <1>5. Vector(p, d, c, n)'
    BY <1>1, <1>2, <1>3, <1>4, VectorFrame DEF Does_vec_pop_length, PopOK, PopLen, RestTyped
  <1>6. PopLen(p)' = n /\ loc'[p].i = n - 1
    BY <1>2, <1>3, <1>4 DEF Does_vec_pop_length, PopOK, PopLen
  <1>7. PopOK(p)'
    BY <1>2, <1>4, <1>5, <1>6 DEF Does_vec_pop_length, PopOK
  <1>8. loc'[p].new = Null
    BY <1>2 DEF Does_vec_pop_length, Calm, NewIsNull
  <1>9. QED
    BY <1>2, <1>3, <1>7, <1>8, PopStep DEF Does_vec_pop_length, Popping, PushLabel, PopLabel

\* A step of rcv_sync_done preserves what holds in an orderly run.
LEMMA Calm_rcv_sync_done ==
    ASSUME AnyInv, AnyInv', Calm, Orderly', NEW p \in Proc, rcv_sync_done(p)
    PROVE  /\ Calm' /\ status' = "running"
           /\ Idle(p) /\ Popping(p)' /\ \A s \in Proc \ {p} : Untouched(s)
  <1>1. CallTyped /\ BoxTyped /\ RestTyped /\ Pointers
    BY TypeParts DEF AnyInv
  <1>2. Does_rcv_sync_done(p)
    BY <1>1, Eff_rcv_sync_done
  <1>3. Idle(p) /\ InUse(p)
    <2>1. Inside(p) = {}
      BY <1>2 DEF Does_rcv_sync_done, Orderly
    <2>2. QED
      BY <1>2, <2>1 DEF Does_rcv_sync_done, Inside, Idle, Into, InUse, Calm, AliveIs,
           PopLabel
  <1>4. PICK d \in Blocks \cup {Null}, c \in Nat, n \in Int :
          d = data[p] /\ c = capacity[p] /\ n = length[p]
    <2>1. data[p] \in Blocks \cup {Null} /\ capacity[p] \in Nat /\ length[p] \in Nat
      BY <1>1, Types, Zenon
    <2>2. QED
      BY <2>1
  <1>5. Vector(p, d, c, n)
    BY <1>3, <1>4 DEF Calm, BoxesOK, BoxOK
  <1>6. Vector(p, d, c, n)'
    BY <1>1, <1>2, <1>5, <1>4, VectorFrame DEF Does_rcv_sync_done, RestTyped
  <1>7. PopOK(p)'
    BY <1>2, <1>4, <1>6 DEF Does_rcv_sync_done, PopOK, PopLen
  <1>8. loc'[p].new = Null
    BY <1>2 DEF Does_rcv_sync_done, Calm, NewIsNull
  <1>9. QED
    BY <1>2, <1>3, <1>7, <1>8, PopStep DEF Does_rcv_sync_done, Idle, PushLabel, PopLabel

\* A step of syscall_ipcrcv_oneshot preserves what holds in an orderly run.
LEMMA Calm_syscall_ipcrcv_oneshot ==
    ASSUME AnyInv, AnyInv', Calm, Orderly', NEW p \in Proc, syscall_ipcrcv_oneshot(p)
    PROVE  /\ Calm' /\ status' = "running"
           /\ Idle(p) /\ Popping(p)' /\ \A s \in Proc \ {p} : Untouched(s)
  <1>1. CallTyped /\ BoxTyped /\ RestTyped /\ Pointers
    BY TypeParts DEF AnyInv
  <1>2. Does_syscall_ipcrcv_oneshot(p)
    BY <1>1, Eff_syscall_ipcrcv_oneshot
  <1>3. Idle(p) /\ InUse(p)
    <2>1. Inside(p) = {}
      BY <1>2 DEF Does_syscall_ipcrcv_oneshot, Orderly
    <2>2. QED
      BY <1>2, <2>1 DEF Does_syscall_ipcrcv_oneshot, Inside, Idle, Into, InUse, Calm,
           AliveIs, PopLabel
  <1>4. PICK d \in Blocks \cup {Null}, c \in Nat, n \in Int :
          d = data[p] /\ c = capacity[p] /\ n = length[p]
    <2>1. data[p] \in Blocks \cup {Null} /\ capacity[p] \in Nat /\ length[p] \in Nat
      BY <1>1, Types, Zenon
    <2>2. QED
      BY <2>1
  <1>5. Vector(p, d, c, n)
    BY <1>3, <1>4 DEF Calm, BoxesOK, BoxOK
  <1>6. Vector(p, d, c, n)'
    BY <1>1, <1>2, <1>5, <1>4, VectorFrame DEF Does_syscall_ipcrcv_oneshot, RestTyped
  <1>7. PopOK(p)'
    BY <1>2, <1>4, <1>6 DEF Does_syscall_ipcrcv_oneshot, PopOK, PopLen
  <1>8. loc'[p].new = Null
    BY <1>2 DEF Does_syscall_ipcrcv_oneshot, Calm, NewIsNull
  <1>9. QED
    BY <1>2, <1>3, <1>7, <1>8, PopStep DEF Does_syscall_ipcrcv_oneshot, Idle, PushLabel,
         PopLabel

\* A step of vec_pop_read preserves what holds in an orderly run.
LEMMA Calm_vec_pop_read ==
    ASSUME AnyInv, AnyInv', Calm, GotOK, NEW p \in Proc, vec_pop_read(p)
    PROVE  /\ Calm' /\ GotOK' /\ status' = "running"
           /\ \E n \in Nat, m \in Message :
                /\ Popping(p) /\ Idle(p)' /\ \A s \in Proc \ {p} : Untouched(s)
                /\ length[p] = n /\ cells[data[p]][n] = m /\ got'[p] = Append(got[p], m)
                /\ \A s \in Proc \ {p} : got'[s] = got[s]
  <1>1. CallTyped /\ BoxTyped /\ HeapTyped /\ RestTyped /\ Pointers
    BY TypeParts DEF AnyInv
  <1>2. Does_vec_pop_read(p)
    BY <1>1, Eff_vec_pop_read
  <1>3. Popping(p) /\ InUse(p) /\ PopOK(p)
    BY <1>2, PopperKnows DEF Does_vec_pop_read, PopLabel
  <1>4. PICK d \in Blocks, c \in Nat, n \in Nat :
          d = data[p] /\ c = capacity[p] /\ n = length[p]
    BY <1>1, <1>2, Types DEF Does_vec_pop_read
  <1>5. Vector(p, d, c, n + 1) /\ loc[p].i = n
    BY <1>2, <1>3, <1>4 DEF Does_vec_pop_read, PopOK, PopLen
  <1>6. PICK m \in Message : m = cells[d][n]
    BY <1>4, <1>5 DEF Vector, Keeps
  <1>7. /\ m.receiver = p /\ m.number <= count
        /\ \A i \in DOMAIN got[p] : got[p][i].number # m.number
        /\ \A j \in 0 .. n - 1 : cells[d][j].number # m.number
    BY <1>4, <1>5, <1>6 DEF Vector, Keeps
  <1>8. /\ got'[p] = Append(got[p], m)
        /\ \A s \in Proc \ {p} : got'[s] = got[s]
    BY <1>1, <1>2, <1>4, <1>5, <1>6 DEF Does_vec_pop_read, RestTyped
  <1>9. /\ DOMAIN got'[p] = 1 .. Len(got[p]) + 1 /\ DOMAIN got[p] = 1 .. Len(got[p])
        /\ Len(got[p]) \in Nat
        /\ got'[p][Len(got[p]) + 1] = m
        /\ \A i \in 1 .. Len(got[p]) : got'[p][i] = got[p][i]
    <2>1. got[p] \in Seq(Message \cup {Unwritten})
      BY <1>1 DEF RestTyped
    <2>2. QED
      BY <1>8, <2>1
  <1>10. GotOK'
    <2>1. ASSUME NEW s \in Proc, NEW i \in DOMAIN got'[s]
          PROVE  /\ got'[s][i] \in Message
                 /\ got'[s][i].receiver = s /\ got'[s][i].number <= count'
                 /\ \A j \in DOMAIN got'[s] : got'[s][j].number = got'[s][i].number => j = i
      <3>1. CASE s # p
        BY <1>2, <1>8, <2>1, <3>1 DEF GotOK, Does_vec_pop_read
      <3>2. CASE s = p
        <4>1. CASE i \in 1 .. Len(got[p])
          <5>1. /\ got[p][i] \in Message
                /\ got[p][i].receiver = s /\ got[p][i].number <= count'
                /\ \A j \in 1 .. Len(got[p]) : got[p][j].number = got[p][i].number => j = i
                /\ got[p][i].number # m.number
            BY <1>2, <1>7, <1>9, <3>2, <4>1 DEF GotOK, Does_vec_pop_read
          <5>2. \A j \in DOMAIN got'[p] : j \in 1 .. Len(got[p]) \/ j = Len(got[p]) + 1
            BY <1>9
          <5>3. QED
            BY <1>9, <3>2, <4>1, <5>1, <5>2
        <4>2. CASE i = Len(got[p]) + 1
          <5>1. \A j \in DOMAIN got'[p] : j \in 1 .. Len(got[p]) \/ j = Len(got[p]) + 1
            BY <1>9
          <5>2. QED
            BY <1>2, <1>7, <1>9, <3>2, <4>2, <5>1 DEF Does_vec_pop_read
        <4>3. QED
          BY <1>9, <2>1, <3>2, <4>1, <4>2
      <3>3. QED
        BY <3>1, <3>2
    <2>2. QED
      BY <2>1 DEF GotOK
  <1>11. Vector(p, data[p], capacity[p], length[p])'
    <2>1. Keeps(p, d, n)'
      <3>1. ASSUME NEW j \in 0 .. n - 1
            PROVE  /\ cells'[d][j] \in Message
                   /\ cells'[d][j].receiver = p /\ cells'[d][j].number <= count'
                   /\ \A i \in DOMAIN got'[p] : got'[p][i].number # cells'[d][j].number
        <4>1. j \in 0 .. (n + 1) - 1
          OBVIOUS
        <4>2. /\ cells[d][j] \in Message
              /\ cells[d][j].receiver = p /\ cells[d][j].number <= count
              /\ \A i \in DOMAIN got[p] : got[p][i].number # cells[d][j].number
          BY <1>5, <4>1 DEF Vector, Keeps
        <4>3. ASSUME NEW i \in DOMAIN got'[p] PROVE got'[p][i].number # cells[d][j].number
          <5>1. i \in 1 .. Len(got[p]) \/ i = Len(got[p]) + 1
            BY <1>9
          <5>2. QED
            BY <1>7, <1>9, <4>2, <5>1
        <4>4. QED
          BY <1>2, <4>2, <4>3 DEF Does_vec_pop_read
      <3>2. \A j, k \in 0 .. n - 1 : cells'[d][j].number = cells'[d][k].number => j = k
        <4>1. \A j, k \in 0 .. (n + 1) - 1 : cells[d][j].number = cells[d][k].number => j = k
          BY <1>5 DEF Vector, Keeps
        <4>2. QED
          BY <1>2, <4>1 DEF Does_vec_pop_read
      <3>3. QED
        BY <3>1, <3>2 DEF Keeps
    <2>2. Vector(p, d, c, n)'
      BY <1>2, <1>5, <2>1 DEF Vector, Does_vec_pop_read
    <2>3. QED
      BY <1>2, <1>4, <2>2 DEF Does_vec_pop_read
  <1>12. Idle(p)'
    BY <1>2, <1>3 DEF Does_vec_pop_read, Popping, Idle, Into, Others, PushLabel, PopLabel
  <1>13. \A s \in Proc \ {p} : Untouched(s)
    <2>1. ActsOn(p, p) /\ WritesOn(p)
      BY <1>2, <1>8 DEF Does_vec_pop_read, ActsOn, WritesOn, PushLabel, PopLabel
    <2>2. Others(p) /\ alive' \subseteq alive /\ count <= count'
      BY <1>1, <1>2 DEF Does_vec_pop_read, RestTyped
    <2>3. QED
      BY <2>1, <2>2, Elsewhere
  <1>14. ASSUME NEW b \in Blocks, Owns(p, b)' PROVE size'[b] > 0 /\ Owns(p, b)
    <2>1. b = data[p] /\ b # Null
      BY <1>2, <1>12, <1>14, IdleOwns DEF Does_vec_pop_read, Blocks, Null
    <2>2. Owns(p, b)
      BY <1>3, <2>1 DEF Owns, Popping
    <2>3. QED
      BY <1>2, <2>2 DEF Calm, Ownership, Does_vec_pop_read
  <1>15. AliveIs' /\ NewIsNull'
    BY <1>2 DEF Does_vec_pop_read, Calm, AliveIs, NewIsNull, Others
  <1>16. Exclusive'
    BY <1>2, ExclusiveStays DEF Does_vec_pop_read, Calm, PushLabel, PopLabel
  <1>17. Calm'
    BY <1>11, <1>12, <1>13, <1>14, <1>15, <1>16, IdleBox, CalmStep
  <1>18. status' = "running"
    BY <1>2 DEF Does_vec_pop_read
  <1>19. QED
    BY <1>3, <1>4, <1>6, <1>8, <1>10, <1>12, <1>13, <1>17, <1>18

\* A step that touches no mailbox.
LEMMA AsideStep ==
    ASSUME AnyInv, AnyInv', Calm, Proc # {}, \A s \in Proc : Untouched(s),
           AliveIs', Exclusive', NewIsNull'
    PROVE  Calm'
  <1>1. PICK r \in Proc : TRUE
    OBVIOUS
  <1>2. InUse(r)' => BoxOK(r)'
    <2>1. SUFFICES ASSUME InUse(r)' PROVE BoxOK(r)'
      OBVIOUS
    <2>2. InUse(r)
      BY <2>1 DEF InUse, Untouched
    <2>3. QED
      BY <2>2, BoxFrame DEF Calm, BoxesOK
  <1>3. ASSUME NEW b \in Blocks, Owns(r, b)' PROVE size'[b] > 0 /\ Owns(r, b)
    <2>1. Owns(r, b)
      BY <1>3, OwnsFrame
    <2>2. QED
      BY <2>1 DEF Untouched, Calm, Ownership
  <1>4. QED
    BY <1>2, <1>3, CalmStep

\* A step of syscall_ipcrcv_sync preserves what holds in an orderly run.
LEMMA Calm_syscall_ipcrcv_sync ==
    ASSUME AnyInv, AnyInv', Calm, NEW p \in Proc, syscall_ipcrcv_sync(p)
    PROVE  Calm' /\ status' = "running" /\ \A s \in Proc : Untouched(s)
  <1>1. CallTyped /\ RestTyped
    BY TypeParts DEF AnyInv
  <1>2. Does_syscall_ipcrcv_sync(p)
    BY <1>1, Eff_syscall_ipcrcv_sync
  <1>3. \A q, s \in Proc : Into(q, s)' <=> Into(q, s)
    BY <1>2 DEF Does_syscall_ipcrcv_sync, Into, Others, PushLabel
  <1>4. \A s \in Proc : Untouched(s)
    <2>1. /\ count <= count'
          /\ \A s \in Proc : pc'[s] # pc[s] => pc[s] = "user" /\ pc'[s] = "wait"
      BY <1>1, <1>2 DEF Does_syscall_ipcrcv_sync, RestTyped, Others
    <2>2. \A q, s \in Proc : Into(q, s) => pc'[q] = pc[q] /\ loc'[q] = loc[q]
      BY <1>2, <2>1 DEF Does_syscall_ipcrcv_sync, Into, PushLabel
    <2>3. QED
      BY <1>2, <1>3, <2>1, <2>2 DEF Does_syscall_ipcrcv_sync, Untouched, PopLabel
  <1>5. AliveIs' /\ NewIsNull'
    BY <1>2 DEF Does_syscall_ipcrcv_sync, Calm, AliveIs, NewIsNull, Others
  <1>6. Exclusive'
    BY <1>2, ExclusiveStays DEF Does_syscall_ipcrcv_sync, Calm, PushLabel, PopLabel
  <1>7. QED
    BY <1>2, <1>4, <1>5, <1>6, AsideStep DEF Does_syscall_ipcrcv_sync

\* A step of syscall_exit preserves what holds in an orderly run.
LEMMA Calm_syscall_exit ==
    ASSUME AnyInv, AnyInv', Calm, NEW p \in Proc, syscall_exit(p)
    PROVE  Calm' /\ status' = "running" /\ \A s \in Proc : Untouched(s)
  <1>1. CallTyped /\ RestTyped
    BY TypeParts DEF AnyInv
  <1>2. Does_syscall_exit(p)
    BY <1>1, Eff_syscall_exit
  <1>3. \A q, s \in Proc : Into(q, s)' <=> Into(q, s)
    BY <1>2 DEF Does_syscall_exit, Into, Others, PushLabel
  <1>4. \A s \in Proc : Untouched(s)
    <2>1. /\ count <= count' /\ \A s \in Proc : s \in alive' => s \in alive
          /\ \A s \in Proc : pc'[s] # pc[s] => pc[s] = "user" /\ pc'[s] = "exited"
      BY <1>1, <1>2 DEF Does_syscall_exit, RestTyped, Others
    <2>2. \A q, s \in Proc : Into(q, s) => pc'[q] = pc[q] /\ loc'[q] = loc[q]
      BY <1>2, <2>1 DEF Does_syscall_exit, Into, PushLabel
    <2>3. QED
      BY <1>2, <1>3, <2>1, <2>2 DEF Does_syscall_exit, Untouched, PopLabel
  <1>5. AliveIs' /\ NewIsNull'
    BY <1>2 DEF Does_syscall_exit, Calm, AliveIs, NewIsNull, Others
  <1>6. Exclusive'
    BY <1>2, ExclusiveStays DEF Does_syscall_exit, Calm, PushLabel, PopLabel
  <1>7. QED
    BY <1>2, <1>4, <1>5, <1>6, AsideStep DEF Does_syscall_exit

\* A step of slayer_vec_free preserves what holds in an orderly run.
LEMMA Calm_slayer_vec_free ==
    ASSUME AnyInv, AnyInv', Calm, Orderly', NEW p \in Proc, slayer_vec_free(p)
    PROVE  Calm' /\ status' = "running" /\ \A s \in Proc : Untouched(s)
  <1>1. CallTyped /\ BoxTyped /\ RestTyped
    BY TypeParts DEF AnyInv
  <1>2. Does_slayer_vec_free(p)
    BY <1>1, Eff_slayer_vec_free
  <1>3. ASSUME NEW s \in Proc, NEW b \in Blocks, Owns(s, b) PROVE b # data[p]
    <2>1. \A q \in Proc : /\ ~((q \in alive \/ Inside(q) # {}) /\ data[q] = data[p])
                          /\ loc[q].new # data[p]
      BY <1>2 DEF Does_slayer_vec_free, Orderly
    <2>2. s \in alive \/ Inside(s) # {}
      BY <1>3 DEF Owns, InUse, Inside, Into
    <2>3. QED
      BY <1>3, <2>1, <2>2 DEF Owns
  <1>4. \A s \in Proc : Untouched(s)
    <2>1. ASSUME NEW s \in Proc, NEW b \in Blocks, Owns(s, b)
          PROVE  size'[b] = size[b] /\ cells'[b] = cells[b]
      BY <1>2, <1>3, <2>1 DEF Does_slayer_vec_free, FreedSize
    <2>2. count <= count'
      BY <1>1, <1>2 DEF Does_slayer_vec_free, RestTyped
    <2>3. QED
      BY <1>2, <2>1, <2>2 DEF Does_slayer_vec_free, Untouched, Into
  <1>5. AliveIs' /\ NewIsNull' /\ Exclusive'
    BY <1>2 DEF Does_slayer_vec_free, Calm, AliveIs, NewIsNull, Exclusive, Into
  <1>6. QED
    BY <1>2, <1>4, <1>5, AsideStep DEF Does_slayer_vec_free

\* A step of syscall_ipcsend preserves what holds in an orderly run.
LEMMA Calm_syscall_ipcsend ==
    ASSUME AnyInv, AnyInv', Calm, GotOK, Orderly', NEW p \in Proc, NEW r \in Proc,
           syscall_ipcsend(p, r)
    PROVE  \/ status' = "panic_receiver"
           \/ /\ Calm' /\ status' = "running" /\ Idle(r) /\ Sole(p, r)' /\ pc'[p] = "expand"
              /\ \A s \in Proc \ {r} : Untouched(s)
  <1>1. CallTyped /\ BoxTyped /\ RestTyped /\ Pointers
    BY TypeParts DEF AnyInv
  <1>2. Does_syscall_ipcsend(p, r)
    BY <1>1, Eff_syscall_ipcsend
  <1>3. SUFFICES ASSUME r \in alive, pc'[p] = "expand", status' = "running",
                        loc'[p].to = r,
                        loc'[p].msg = [sender |-> p, receiver |-> r, number |-> count'],
                        loc'[p].msg \in Message, loc'[p].new = Null,
                        raced' = (raced \/ Inside(r) # {})
                 PROVE  /\ Calm' /\ Idle(r) /\ Sole(p, r)'
                        /\ \A s \in Proc \ {r} : Untouched(s)
    BY <1>2 DEF Does_syscall_ipcsend
  <1>4. Idle(r) /\ InUse(r) /\ Vector(r, data[r], capacity[r], length[r])
    <2>1. Inside(r) = {}
      BY <1>3 DEF Orderly
    <2>2. Idle(r) /\ InUse(r)
      BY <1>3, <2>1 DEF Inside, Idle, Into, InUse
    <2>3. QED
      BY <2>2 DEF Calm, BoxesOK, BoxOK
  <1>5. Sole(p, r)'
    <2>1. Into(p, r)' /\ \A q \in Proc : Into(q, r)' => q = p
      BY <1>2, <1>3, <1>4 DEF Does_syscall_ipcsend, Into, Idle, Others, PushLabel
    <2>2. pc'[r] \notin PopLabel
      BY <1>2, <1>3, <1>4 DEF Does_syscall_ipcsend, Idle, Others, PopLabel
    <2>3. QED
      BY <2>1, <2>2 DEF Sole
  <1>6. PushOK(p, r)'
    <2>1. PICK d \in Blocks \cup {Null}, c \in Nat, n \in Int :
            d = data[r] /\ c = capacity[r] /\ n = length[r]
      BY <1>1, Types
    <2>2. count \in Nat /\ count' \in Nat /\ count' = count + 1 /\ count <= count'
      BY <1>1, <1>2 DEF Does_syscall_ipcsend, RestTyped
    <2>3. Vector(r, d, c, n)'
      BY <1>2, <1>4, <2>1, <2>2, VectorFrame DEF Does_syscall_ipcsend
    <2>4. Carries(p, r, d, n)'
      <3>1. loc'[p].msg.receiver = r /\ loc'[p].msg.number = count'
        BY <1>3
      <3>2. \A i \in DOMAIN got[r] : got[r][i].number # count'
        <4>1. \A i \in DOMAIN got[r] : got[r][i] \in Message /\ got[r][i].number <= count
          BY DEF GotOK
        <4>2. \A m \in Message : m.number \in Nat
          BY DEF Message
        <4>3. QED
          BY <2>2, <4>1, <4>2
      <3>3. \A j \in 0 .. n - 1 : cells[d][j].number # count'
        BY <1>4, <2>1, <2>2 DEF Vector, Keeps, Message
      <3>4. QED
        BY <1>2, <1>3, <2>2, <3>1, <3>2, <3>3 DEF Does_syscall_ipcsend, Carries
    <2>5. PushBlock(p, r)' = d /\ PushRoom(p, r)' = c /\ PushLen(p, r)' = n
      BY <1>2, <1>3, <2>1 DEF Does_syscall_ipcsend, PushBlock, PushRoom, PushLen
    <2>6. QED
      BY <1>3, <2>3, <2>4, <2>5 DEF PushOK
  <1>7. \A s \in Proc \ {r} : Untouched(s)
    <2>1. ActsOn(p, r) /\ WritesOn(r)
      BY <1>2, <1>3 DEF Does_syscall_ipcsend, ActsOn, WritesOn, PushLabel, PopLabel
    <2>2. Others(p) /\ alive' \subseteq alive /\ count <= count'
      BY <1>1, <1>2 DEF Does_syscall_ipcsend, RestTyped
    <2>3. QED
      BY <2>1, <2>2, Elsewhere
  <1>8. ASSUME NEW b \in Blocks, Owns(r, b)' PROVE size'[b] > 0 /\ Owns(r, b)
    <2>1. b = data[r] /\ b # Null
      BY <1>2, <1>3, <1>5, <1>8, SoleOwns DEF Does_syscall_ipcsend, Blocks, Null
    <2>2. Owns(r, b)
      BY <1>4, <2>1 DEF Owns, Idle
    <2>3. QED
      BY <1>2, <2>2 DEF Calm, Ownership, Does_syscall_ipcsend
  <1>9. AliveIs' /\ NewIsNull'
    BY <1>2, <1>3 DEF Does_syscall_ipcsend, Calm, AliveIs, NewIsNull, Others
  <1>10. Exclusive'
    <2>1. ASSUME NEW s \in Proc \ {r}, NEW q \in Proc, Into(q, s)'
          PROVE  pc'[s] \notin PopLabel /\ \A t \in Proc : Into(t, s)' => t = q
      <3>1. Into(q, s)
        BY <1>7, <2>1 DEF Untouched
      <3>2. QED
        BY <1>7, <3>1 DEF Calm, Exclusive, Untouched
    <2>2. ASSUME NEW q \in Proc, Into(q, r)'
          PROVE  pc'[r] \notin PopLabel /\ \A t \in Proc : Into(t, r)' => t = q
      BY <1>5, <2>2 DEF Sole
    <2>3. QED
      BY <2>1, <2>2 DEF Exclusive
  <1>11. Calm'
    BY <1>5, <1>6, <1>7, <1>8, <1>9, <1>10, SoleBox, CalmStep
  <1>12. QED
    BY <1>4, <1>5, <1>7, <1>11

(***************************************************************************)
(* All steps.                                                              *)
(***************************************************************************)
\* While the kernel runs undisturbed a step keeps Calm or is the send to a
\* process that has exited.
LEMMA CalmNext ==
    ASSUME AnyInv, AnyInv', Calm, GotOK, status = "running", Orderly', Next
    PROVE  /\ status' \in {"running", "panic_receiver"}
           /\ status' = "running" => Calm'
           /\ GotOK'
  <1> DEFINE Goal == /\ status' = "panic_receiver" \/ (Calm' /\ status' = "running")
                     /\ GotOK'
  <1>a. count \in Nat /\ count' \in Nat
    BY TypeParts DEF AnyInv, RestTyped
  <1>b. got' = got /\ count <= count' => GotOK'
    BY <1>a DEF GotOK, Message
  <1>1. CASE UNCHANGED vars
    <2>1. Calm'
      BY <1>1 DEF vars, box_vars, heap_vars, Calm, BoxesOK, BoxOK, Idle, PushOK, PopOK,
           Vector,
                  Keeps, Carries, Growing, Doubled, PushBlock, PushRoom, PushLen, PopLen,
                  AliveIs, Exclusive, Ownership, Owns, InUse, Into, NewIsNull
    <2>2. QED
      BY <1>1, <1>a, <1>b, <2>1, SMTT(40) DEF vars
  <1>2. ASSUME NEW p \in Proc, call(p) PROVE Goal
    <2>1. ASSUME NEW r \in Proc, syscall_ipcsend(p, r) PROVE Goal
      <3>1. got' = got /\ count <= count'
        BY <1>a, <2>1 DEF syscall_ipcsend
      <3>2. QED
        BY <1>b, <2>1, <3>1, Calm_syscall_ipcsend
    <2>2. CASE syscall_ipcrcv_sync(p)
      BY <1>a, <1>b, <2>2, Calm_syscall_ipcrcv_sync DEF syscall_ipcrcv_sync
    <2>3. CASE syscall_ipcrcv_oneshot(p)
      BY <1>a, <1>b, <2>3, Calm_syscall_ipcrcv_oneshot DEF syscall_ipcrcv_oneshot
    <2>4. CASE syscall_exit(p)
      BY <1>a, <1>b, <2>4, Calm_syscall_exit DEF syscall_exit
    <2>5. CASE rcv_sync_yield(p)
      BY <1>1, <2>5 DEF rcv_sync_yield, vars
    <2>6. QED
      BY <1>2, <2>1, <2>2, <2>3, <2>4, <2>5 DEF call
  <1>3. ASSUME NEW p \in Proc, push_step(p) PROVE Goal
    <2>1. got' = got /\ count <= count'
      BY <1>3, <1>a DEF push_step, vec_expand_, realloc, realloc_malloc, realloc_copy,
                 realloc_free, vec_expand_data, vec_expand_capacity, vec_push_load,
                 vec_push_length, vec_push_slot
    <2>2. Calm' /\ status' = "running"
      BY <1>3, Calm_vec_expand_, Calm_realloc, Calm_realloc_malloc, Calm_realloc_copy,
         Calm_realloc_free, Calm_vec_expand_data, Calm_vec_expand_capacity,
         Calm_vec_push_load, Calm_vec_push_length, Calm_vec_push_slot
      DEF push_step
    <2>3. QED
      BY <1>b, <2>1, <2>2, SMTT(40)
  <1>4. ASSUME NEW p \in Proc, pop_step(p) PROVE Goal
    <2>1. CASE rcv_sync_done(p)
      BY <1>a, <1>b, <2>1, Calm_rcv_sync_done DEF rcv_sync_done
    <2>2. CASE vec_pop_load(p)
      <3>1. got' = got /\ count <= count'
        BY <1>a, <2>2 DEF vec_pop_load
      <3>2. QED
        BY <1>b, <2>2, <3>1, Calm_vec_pop_load
    <2>3. CASE vec_pop_length(p)
      <3>1. got' = got /\ count <= count'
        BY <1>a, <2>3 DEF vec_pop_length
      <3>2. QED
        BY <1>b, <2>3, <3>1, Calm_vec_pop_length
    <2>4. CASE vec_pop_read(p)
      BY <2>4, Calm_vec_pop_read
    <2>5. QED
      BY <1>4, <2>1, <2>2, <2>3, <2>4 DEF pop_step
  <1>5. ASSUME NEW p \in Proc, slayer_vec_free(p) PROVE Goal
    <2>1. got' = got /\ count <= count'
      BY <1>a, <1>5 DEF slayer_vec_free
    <2>2. QED
      BY <1>b, <1>5, <2>1, Calm_slayer_vec_free
  <1>6. CASE Stopped
    BY <1>1, <1>6 DEF Stopped
  <1>7. QED
    BY <1>1, <1>2, <1>3, <1>4, <1>5, <1>6 DEF Next

\* Once it has halted nothing changes any more.
LEMMA HaltedStays ==
    ASSUME status # "running", Next PROVE UNCHANGED vars
  BY ZenonT(60)
     DEF Next, call, push_step, pop_step, At, Stopped, syscall_ipcsend, syscall_ipcrcv_sync,
         rcv_sync_yield, syscall_ipcrcv_oneshot, syscall_exit, vec_expand_, realloc,
         realloc_malloc, realloc_copy, realloc_free, vec_expand_data, vec_expand_capacity,
         vec_push_load, vec_push_length, vec_push_slot, rcv_sync_done, vec_pop_load,
         vec_pop_length, vec_pop_read, slayer_vec_free

\* A race or a theft is never undone.
LEMMA OrderlyBefore ==
    ASSUME AnyInv, [Next]_vars, Orderly' PROVE Orderly
  <1>1. \/ UNCHANGED << raced, stolen >>
        \/ \E r \in Proc : raced' = (raced \/ Inside(r) # {}) /\ stolen' = stolen
        \/ \E p \in Proc : slayer_vec_free(p)
    BY ZenonT(60)
    DEF Next, call, push_step, pop_step, Stopped, syscall_ipcsend, syscall_ipcrcv_sync,
         rcv_sync_yield, syscall_ipcrcv_oneshot, syscall_exit, vec_expand_, realloc,
         realloc_malloc, realloc_copy, realloc_free, vec_expand_data, vec_expand_capacity,
         vec_push_load, vec_push_length, vec_push_slot, rcv_sync_done, vec_pop_load,
         vec_pop_length, vec_pop_read, Enter, vars
  <1>2. CASE UNCHANGED << raced, stolen >>
    BY <1>2 DEF Orderly
  <1>3. ASSUME NEW r \in Proc, raced' = (raced \/ Inside(r) # {}), stolen' = stolen
        PROVE  Orderly
    BY <1>3, Zenon DEF Orderly
  <1>4. ASSUME NEW p \in Proc, slayer_vec_free(p) PROVE Orderly
    BY <1>4, Zenon DEF Orderly, slayer_vec_free, Enter
  <1>5. QED
    BY <1>1, <1>2, <1>3, <1>4

\* IInv holds when the kernel has created its processes.
LEMMA Initially == Init => IInv
  <1> SUFFICES ASSUME Init PROVE IInv
    OBVIOUS
  <1>1. AnyInv
    BY AnyInitially
  <1>2. \A q, r \in Proc : ~Into(q, r)
    BY DEF Init, Into, PushLabel
  <1>3. BoxesOK
    BY <1>2 DEF Init, BoxesOK, BoxOK, Vector, Keeps, PopLabel
  <1>4. Ownership
    BY <1>2 DEF Init, Ownership, Owns
  <1>5. AliveIs /\ Exclusive /\ NewIsNull
    BY <1>2 DEF Init, AliveIs, Exclusive, NewIsNull, Local
  <1>6. GotOK
    BY DEF Init, GotOK
  <1>7. QED
    BY <1>1, <1>3, <1>4, <1>5, <1>6 DEF Init, IInv, OrderlyInv, Calm

\* Every step preserves IInv.
LEMMA Inductive == IInv /\ [Next]_vars => IInv'
  <1> SUFFICES ASSUME IInv, [Next]_vars PROVE IInv'
    OBVIOUS
  <1>1. AnyInv /\ AnyInv'
    BY AnyStep DEF IInv
  <1>2. ASSUME Orderly' PROVE OrderlyInv'
    <2>1. Orderly /\ OrderlyInv
      BY <1>1, <1>2, OrderlyBefore DEF IInv
    <2>2. CASE UNCHANGED vars
      BY <2>1, <2>2, SMTT(40) DEF vars, box_vars, heap_vars, OrderlyInv, Orderly, GotOK, Calm,
           BoxesOK, BoxOK,
                  Idle, PushOK, PopOK, Vector, Keeps, Carries, Growing, Doubled, PushBlock,
                  PushRoom, PushLen, PopLen, AliveIs, Exclusive, Ownership, Owns, InUse, Into,
                  NewIsNull
    <2>3. CASE Next /\ status = "running"
      <3>1. GotOK /\ Calm
        BY <2>1, <2>3 DEF OrderlyInv
      <3>2. /\ status' \in {"running", "panic_receiver"}
            /\ status' = "running" => Calm'
            /\ GotOK'
        BY <1>1, <1>2, <2>3, <3>1, CalmNext
      <3>3. QED
        BY <3>2 DEF OrderlyInv
    <2>4. CASE Next /\ status # "running"
      BY <2>2, <2>4, HaltedStays
    <2>5. QED
      BY <2>2, <2>3, <2>4
  <1>3. QED
    BY <1>1, <1>2 DEF IInv, OrderlyInv

\* IInv holds in every state of every behaviour.
LEMMA Always == Spec => []IInv
  BY Initially, Inductive, PTL DEF Spec

\* As long as no two actors have met in a mailbox and no block in use was
\* freed, the kernel halts for nothing but a send to a process that has exited
\* and stores no message outside its block.
THEOREM OrderlyNeverHalts == Spec => []OrderlyRuns
  <1>1. IInv => OrderlyRuns
    BY DEF IInv, OrderlyInv, OrderlyRuns
  <1>2. QED
    BY Always, <1>1, PTL

\* As long ..., what the receive calls return was sent to the receiver and is
\* received once.
THEOREM OrderlyDelivers == Spec => []OrderlyDelivery
  <1>1. ASSUME IInv, Orderly PROVE ReceivedWasSent
    <2>1. GotOK
      BY <1>1 DEF IInv, OrderlyInv
    <2>2. \A m \in Message : m # Unwritten
      <3>1. Unwritten.sender = 0
        BY DEF Unwritten
      <3>2. \A m \in Message : m.sender \in Proc
        BY DEF Message
      <3>3. QED
        BY <3>1, <3>2
    <2>3. ASSUME NEW p \in Proc, NEW i \in DOMAIN got[p],
                 NEW q \in Proc, NEW j \in DOMAIN got[q], got[q][j] = got[p][i]
          PROVE  q = p /\ j = i
      <3>1. got[q][j].receiver = q /\ got[p][i].receiver = p
        BY <2>1 DEF GotOK
      <3>2. q = p
        BY <2>3, <3>1
      <3>3. QED
        BY <2>1, <2>3, <3>2 DEF GotOK
    <2>4. QED
      BY <2>1, <2>2, <2>3 DEF ReceivedWasSent, GotOK
  <1>2. IInv => OrderlyDelivery
    BY <1>1 DEF OrderlyDelivery
  <1>3. QED
    BY Always, <1>2, PTL

-----------------------------------------------------------------------------
(***************************************************************************)
(* The refinement.  Holder and Waiting of a mailbox are what the actor     *)
(* inside it, if any, says they are; a step changes the messages of one    *)
(* mailbox at most, and only at the last step of a push and of a pop.      *)
(***************************************************************************)
\* The messages of the mailbox of r.
Content(r) == [i \in 1 .. Waiting(r) |-> cells[Holder(r)][i - 1]]

\* What Holder and Waiting are when nobody is inside, when somebody pushes,
\* and when the owner pops.
LEMMA IdleView ==
    ASSUME NEW r \in Proc
    PROVE  /\ Idle(r) => Holder(r) = data[r] /\ Waiting(r) = length[r]
           /\ Idle(r)' => Holder(r)' = data'[r] /\ Waiting(r)' = length'[r]
  <1>1. ASSUME Idle(r) PROVE Holder(r) = data[r] /\ Waiting(r) = length[r]
    <2>1. Pushing(r, "data") = {} /\ Pushing(r, "slot") = {} /\ pc[r] # "pop_read"
      BY <1>1 DEF Idle, Pushing, Into, PushLabel, PopLabel
    <2>2. QED
      BY <2>1 DEF Holder, Waiting
  <1>2. ASSUME Idle(r)' PROVE Holder(r)' = data'[r] /\ Waiting(r)' = length'[r]
    <2>1. Pushing(r, "data")' = {} /\ Pushing(r, "slot")' = {} /\ pc'[r] # "pop_read"
      BY <1>2 DEF Idle, Pushing, Into, PushLabel, PopLabel
    <2>2. QED
      BY <2>1 DEF Holder, Waiting
  <1>3. QED
    BY <1>1, <1>2

\* What Holder and Waiting are while the owner pops.
LEMMA PoppingView ==
    ASSUME NEW r \in Proc
    PROVE  /\ Popping(r) => Holder(r) = data[r] /\ Waiting(r) = PopLen(r)
           /\ Popping(r)' => Holder(r)' = data'[r] /\ Waiting(r)' = PopLen(r)'
  <1>1. ASSUME Popping(r) PROVE Holder(r) = data[r] /\ Waiting(r) = PopLen(r)
    <2>1. Pushing(r, "data") = {} /\ Pushing(r, "slot") = {}
      BY <1>1 DEF Popping, Pushing, Into, PushLabel
    <2>2. QED
      BY <2>1 DEF Holder, Waiting, PopLen
  <1>2. ASSUME Popping(r)' PROVE Holder(r)' = data'[r] /\ Waiting(r)' = PopLen(r)'
    <2>1. Pushing(r, "data")' = {} /\ Pushing(r, "slot")' = {}
      BY <1>2 DEF Popping, Pushing, Into, PushLabel
    <2>2. QED
      BY <2>1 DEF Holder, Waiting, PopLen
  <1>3. QED
    BY <1>1, <1>2

\* What Holder and Waiting are while one push is inside.
LEMMA SoleView ==
    ASSUME NEW p \in Proc, NEW r \in Proc
    PROVE  /\ Sole(p, r) => Holder(r) = PushBlock(p, r) /\ Waiting(r) = PushLen(p, r)
           /\ Sole(p, r)' => Holder(r)' = PushBlock(p, r)' /\ Waiting(r)' = PushLen(p, r)'
  <1>1. ASSUME Sole(p, r) PROVE Holder(r) = PushBlock(p, r) /\ Waiting(r) = PushLen(p, r)
    <2>1. /\ Pushing(r, "data") = IF pc[p] = "data" THEN {p} ELSE {}
          /\ Pushing(r, "slot") = IF pc[p] = "slot" THEN {p} ELSE {}
          /\ pc[r] # "pop_read"
      <3>1. \A q \in Proc : \A l \in PushLabel :
              pc[q] = l /\ loc[q].to = r <=> q = p /\ pc[p] = l
        BY <1>1 DEF Sole, Into
      <3>2. \A l \in PushLabel : Pushing(r, l) = IF pc[p] = l THEN {p} ELSE {}
        BY <3>1 DEF Pushing
      <3>3. QED
        BY <1>1, <3>2 DEF Sole, PushLabel, PopLabel
    <2>2. (CHOOSE q \in {p} : TRUE) = p
      OBVIOUS
    <2>3. QED
      BY <2>1, <2>2 DEF Holder, Waiting, PushBlock, PushLen
  <1>2. ASSUME Sole(p, r)'
        PROVE  Holder(r)' = PushBlock(p, r)' /\ Waiting(r)' = PushLen(p, r)'
    <2>1. /\ Pushing(r, "data")' = IF pc'[p] = "data" THEN {p} ELSE {}
          /\ Pushing(r, "slot")' = IF pc'[p] = "slot" THEN {p} ELSE {}
          /\ pc'[r] # "pop_read"
      <3>1. \A q \in Proc : \A l \in PushLabel :
              pc'[q] = l /\ loc'[q].to = r <=> q = p /\ pc'[p] = l
        BY <1>2 DEF Sole, Into
      <3>2. \A l \in PushLabel : Pushing(r, l)' = IF pc'[p] = l THEN {p} ELSE {}
        BY <3>1 DEF Pushing
      <3>3. QED
        BY <1>2, <3>2 DEF Sole, PushLabel, PopLabel
    <2>2. (CHOOSE q \in {p} : TRUE) = p
      OBVIOUS
    <2>3. QED
      BY <2>1, <2>2 DEF Holder, Waiting, PushBlock, PushLen
  <1>3. QED
    BY <1>1, <1>2

\* A mailbox in use is one of the three, and a vector.
LEMMA InUseView ==
    ASSUME AnyInv, Calm, NEW s \in Proc, InUse(s)
    PROVE  /\ Idle(s) \/ Popping(s) \/ \E q \in Proc : Sole(q, s)
           /\ Waiting(s) \in Int /\ Holder(s) \in Blocks \cup {Null}
           /\ Waiting(s) > 0 => Owns(s, Holder(s))
  <1>1. CallTyped /\ BoxTyped /\ RestTyped /\ Pointers /\ BoxOK(s)
    BY TypeParts DEF AnyInv, Calm, BoxesOK
  <1>2. /\ data[s] \in Blocks \cup {Null} /\ capacity[s] \in Nat /\ length[s] \in Nat
        /\ \A q \in Proc : loc[q].new \in Blocks \cup {Null} /\ loc[q].n \in Nat
    BY <1>1, Types
  <1>3. CASE Idle(s)
    <2>1. Holder(s) = data[s] /\ Waiting(s) = length[s]
      BY <1>3, IdleView
    <2>2. Vector(s, data[s], capacity[s], length[s])
      BY <1>1, <1>3 DEF BoxOK
    <2>3. length[s] > 0 => data[s] # Null
      <3>1. PICK n \in Nat, c \in Nat : n = length[s] /\ c = capacity[s]
        BY <1>2
      <3>2. n <= c /\ (data[s] = Null <=> c = 0)
        BY <2>2, <3>1 DEF Vector
      <3>3. QED
        BY <3>1, <3>2
    <2>4. length[s] > 0 => Owns(s, data[s])
      BY <1>3, <2>3 DEF Owns, Idle
    <2>5. QED
      BY <1>2, <1>3, <2>1, <2>4
  <1>4. CASE pc[s] \in PopLabel
    <2>1. Popping(s) /\ PopOK(s)
      BY <1>1, <1>4 DEF Popping, Calm, Exclusive, BoxOK
    <2>2. Holder(s) = data[s] /\ Waiting(s) = PopLen(s) /\ PopLen(s) \in Int
      <3>1. PopLen(s) \in Int
        BY <1>2 DEF PopLen
      <3>2. QED
        BY <2>1, <3>1, PoppingView, Zenon
    <2>3. Waiting(s) > 0 => data[s] # Null
      BY <1>2, <2>1, <2>2 DEF PopOK, Vector
    <2>4. QED
      BY <1>2, <2>1, <2>2, <2>3 DEF Owns, Popping
  <1>5. ASSUME NEW q \in Proc, Into(q, s)
        PROVE  /\ \E x \in Proc : Sole(x, s)
               /\ Waiting(s) \in Int /\ Holder(s) \in Blocks \cup {Null}
               /\ Waiting(s) > 0 => Owns(s, Holder(s))
    <2>1. Sole(q, s) /\ PushOK(q, s)
      BY <1>1, <1>5 DEF Sole, Calm, Exclusive, BoxOK
    <2>a. Holder(s) = PushBlock(q, s) /\ Waiting(s) = PushLen(q, s)
      BY <2>1, SoleView
    <2>2. /\ PushLen(q, s) \in Int /\ PushBlock(q, s) \in Blocks \cup {Null}
          /\ PushRoom(q, s) \in Nat
      <3>1. loc[q].new \in Blocks \cup {Null} /\ loc[q].n \in Nat
        BY <1>2
      <3>2. /\ data[s] \in Blocks \cup {Null} /\ capacity[s] \in Nat /\ length[s] \in Nat
        BY <1>2
      <3>3. QED
        BY <3>1, <3>2 DEF PushLen, PushBlock, PushRoom
    <2>3. Waiting(s) > 0 => PushBlock(q, s) \in Blocks
      BY <2>1, <2>a, <2>2 DEF PushOK, Vector
    <2>4. PushBlock(q, s) \in Blocks => Owns(s, PushBlock(q, s))
      <3>1. ASSUME NEW b \in Blocks, b = PushBlock(q, s) PROVE Owns(s, b)
        BY <2>1, <3>1, SoleOwns DEF PushBlock
      <3>2. QED
        BY <3>1
    <2>5. QED
      BY <2>1, <2>a, <2>2, <2>3, <2>4
  <1>6. QED
    BY <1>3, <1>4, <1>5 DEF Idle

\* Mailboxes with the same messages at the same places.
LEMMA SameContent ==
    ASSUME NEW s \in Proc, Waiting(s)' = Waiting(s), Waiting(s) \in Int,
           \A j \in 0 .. Waiting(s) - 1 : cells'[Holder(s)'][j] = cells[Holder(s)][j]
    PROVE  Content(s)' = Content(s)
  <1>1. \A i \in 1 .. Waiting(s) : cells'[Holder(s)'][i - 1] = cells[Holder(s)][i - 1]
    OBVIOUS
  <1>2. Content(s)' = [i \in 1 .. Waiting(s) |-> cells'[Holder(s)'][i - 1]]
    BY DEF Content
  <1>3. QED
    BY <1>1, <1>2 DEF Content

\* A mailbox the step does not touch keeps its messages.
LEMMA UntouchedContent ==
    ASSUME AnyInv, Calm, NEW s \in Proc, InUse(s), Untouched(s)
    PROVE  Content(s)' = Content(s)
  <1>1. /\ Waiting(s) \in Int /\ Holder(s) \in Blocks \cup {Null}
        /\ Waiting(s) > 0 => Owns(s, Holder(s))
    BY InUseView
  <1>2. Holder(s)' = Holder(s) /\ Waiting(s)' = Waiting(s)
    <2>1. CASE Idle(s)
      <3>1. Idle(s)'
        BY <2>1 DEF Idle, Untouched
      <3>2. QED
        BY <2>1, <3>1, IdleView DEF Untouched
    <2>2. CASE Popping(s)
      <3>1. Popping(s)' /\ PopLen(s)' = PopLen(s)
        BY <2>2 DEF Popping, PopLen, Untouched
      <3>2. QED
        BY <2>2, <3>1, PoppingView DEF Untouched
    <2>3. ASSUME NEW q \in Proc, Sole(q, s)
          PROVE  Holder(s)' = Holder(s) /\ Waiting(s)' = Waiting(s)
      <3>1. Sole(q, s)'
        BY <2>3 DEF Sole, Untouched
      <3>2. PushBlock(q, s)' = PushBlock(q, s) /\ PushLen(q, s)' = PushLen(q, s)
        BY <2>3 DEF Sole, PushBlock, PushLen, Untouched
      <3>3. QED
        BY <2>3, <3>1, <3>2, SoleView
    <2>4. QED
      BY <2>1, <2>2, <2>3, InUseView
  <1>6. Waiting(s) > 0 => cells'[Holder(s)] = cells[Holder(s)]
    <2>1. Waiting(s) > 0 => Holder(s) \in Blocks
      BY <1>1 DEF Owns
    <2>2. QED
      BY <1>1, <2>1 DEF Untouched
  <1>7. QED
    BY <1>1, <1>2, <1>6, SameContent

\* The mailboxes other than that of r.
LEMMA OthersContent ==
    ASSUME AnyInv, Calm, NEW r \in Proc, \A s \in Proc \ {r} : Untouched(s),
           NEW s \in alive, s \in Proc, s # r
    PROVE  Content(s)' = Content(s)
  BY UntouchedContent DEF InUse

\* The abstract mailboxes.
Boxes == [p \in Proc |-> IF p \in alive THEN Content(p) ELSE << >>]

\* Only the mailbox of r may have changed.
LEMMA BoxesStep ==
    ASSUME AnyInv, Calm, NEW r \in Proc, \A s \in Proc \ {r} : Untouched(s), alive' = alive,
           r \in alive => Content(r)' = Content(r)
    PROVE  Boxes' = Boxes
  <1>1. \A s \in alive : Content(s)' = Content(s)
    BY TypeParts, OthersContent DEF AnyInv, RestTyped
  <1>2. QED
    BY <1>1 DEF Boxes

(***************************************************************************)
(* Steps that move no message.                                             *)
(***************************************************************************)
LEMMA PushesContent ==
    ASSUME AnyInv, AnyInv', Calm, NEW p \in Proc, Pushes(p), alive' = alive,
           \A r \in Proc : r = loc[p].to /\ PushOK(p, r) /\ PushOK(p, r)' =>
             /\ PushLen(p, r)' = PushLen(p, r)
             /\ \A j \in 0 .. PushLen(p, r) - 1 :
                  cells'[PushBlock(p, r)'][j] = cells[PushBlock(p, r)][j]
    PROVE  Boxes' = Boxes
  <1>1. PICK r \in Proc :
          /\ r = loc[p].to /\ Sole(p, r) /\ Sole(p, r)' /\ PushOK(p, r) /\ PushOK(p, r)'
          /\ \A s \in Proc \ {r} : Untouched(s)
    BY DEF Pushes
  <1>2. /\ Holder(r) = PushBlock(p, r) /\ Waiting(r) = PushLen(p, r)
        /\ Holder(r)' = PushBlock(p, r)' /\ Waiting(r)' = PushLen(p, r)'
    BY <1>1, SoleView
  <1>3. Waiting(r) \in Int
    BY <1>1, InUseView DEF Sole, InUse
  <1>4. /\ Waiting(r)' = Waiting(r)
        /\ \A j \in 0 .. Waiting(r) - 1 : cells'[Holder(r)'][j] = cells[Holder(r)][j]
    BY <1>1, <1>2, ZenonT(40)
  <1>5. Content(r)' = Content(r)
    BY <1>3, <1>4, SameContent
  <1>6. QED
    BY <1>1, <1>5, BoxesStep

\* Any step of a push but the last.
LEMMA PushKeepsBoxes ==
    ASSUME AnyInv, AnyInv', Calm, NEW p \in Proc, push_step(p), ~vec_push_slot(p)
    PROVE  Boxes' = Boxes /\ alive' = alive /\ got' = got
  <1>1. CallTyped /\ BoxTyped /\ HeapTyped /\ RestTyped /\ Pointers
    BY TypeParts DEF AnyInv
  <1> DEFINE Steady(r) ==
        /\ PushLen(p, r)' = PushLen(p, r)
        /\ \A j \in 0 .. PushLen(p, r) - 1 :
             cells'[PushBlock(p, r)'][j] = cells[PushBlock(p, r)][j]
  <1>2. CASE vec_expand_(p)
    <2>1. Does_vec_expand_(p) /\ Pushes(p)
      BY <1>1, <1>2, Eff_vec_expand_, Calm_vec_expand_, SMTT(40)
    <2>2. ASSUME NEW r \in Proc, r = loc[p].to, PushOK(p, r), PushOK(p, r)' PROVE Steady(r)
      BY <1>1, <2>1, <2>2, Types DEF Does_vec_expand_, PushLen, PushBlock, PushOK
    <2>3. QED
      BY <2>1, <2>2, PushesContent DEF Does_vec_expand_
  <1>3. CASE realloc(p)
    <2>1. Does_realloc(p) /\ Pushes(p)
      BY <1>1, <1>3, Eff_realloc, Calm_realloc
    <2>2. ASSUME NEW r \in Proc, r = loc[p].to, PushOK(p, r), PushOK(p, r)' PROVE Steady(r)
      <3>1. length[r] \in Nat /\ capacity[r] \in Nat /\ data[r] \in Blocks \cup {Null}
        BY <1>1, Types, SMTT(40)
      <3>2. /\ Growing(p, r) /\ Vector(r, data[r], capacity[r], length[r])
            /\ PushLen(p, r) = length[r] /\ PushBlock(p, r) = data[r]
        BY <2>1, <2>2 DEF Does_realloc, PushLen, PushBlock, PushRoom, PushOK
      <3>3. pc'[p] = "malloc"
        BY <2>1, <3>1, <3>2 DEF Does_realloc, Growing, Vector
      <3>4. QED
        BY <2>1, <3>2, <3>3 DEF Does_realloc, PushLen, PushBlock
    <2>3. QED
      BY <2>1, <2>2, PushesContent DEF Does_realloc
  <1>4. CASE vec_expand_data(p)
    <2>1. Does_vec_expand_data(p) /\ Pushes(p)
      BY <1>1, <1>4, Eff_vec_expand_data, Calm_vec_expand_data
    <2>2. ASSUME NEW r \in Proc, r = loc[p].to, PushOK(p, r), PushOK(p, r)' PROVE Steady(r)
      BY <1>1, <2>1, <2>2, Types DEF Does_vec_expand_data, PushLen, PushBlock, PushOK
    <2>3. QED
      BY <2>1, <2>2, PushesContent DEF Does_vec_expand_data
  <1>5. CASE vec_expand_capacity(p)
    <2>1. Does_vec_expand_capacity(p) /\ Pushes(p)
      BY <1>1, <1>5, Eff_vec_expand_capacity, Calm_vec_expand_capacity
    <2>2. ASSUME NEW r \in Proc, r = loc[p].to, PushOK(p, r), PushOK(p, r)' PROVE Steady(r)
      BY <1>1, <2>1, <2>2, Types DEF Does_vec_expand_capacity, PushLen, PushBlock, PushOK
    <2>3. QED
      BY <2>1, <2>2, PushesContent DEF Does_vec_expand_capacity
  <1>6. CASE vec_push_load(p)
    <2>1. Does_vec_push_load(p) /\ Pushes(p)
      BY <1>1, <1>6, Eff_vec_push_load, Calm_vec_push_load
    <2>2. ASSUME NEW r \in Proc, r = loc[p].to, PushOK(p, r), PushOK(p, r)' PROVE Steady(r)
      BY <1>1, <2>1, <2>2, Types DEF Does_vec_push_load, PushLen, PushBlock, PushOK
    <2>3. QED
      BY <2>1, <2>2, PushesContent DEF Does_vec_push_load
  <1>7. CASE vec_push_length(p)
    <2>1. Does_vec_push_length(p) /\ Pushes(p)
      BY <1>1, <1>7, Eff_vec_push_length, Calm_vec_push_length
    <2>2. ASSUME NEW r \in Proc, r = loc[p].to, PushOK(p, r), PushOK(p, r)' PROVE Steady(r)
      BY <1>1, <2>1, <2>2, Types DEF Does_vec_push_length, PushLen, PushBlock, PushOK
    <2>3. QED
      BY <2>1, <2>2, PushesContent DEF Does_vec_push_length
  <1>8. CASE realloc_malloc(p)
    <2>1. Does_realloc_malloc(p) /\ Pushes(p)
      BY <1>1, <1>8, Eff_realloc_malloc, Calm_realloc_malloc
    <2>2. ASSUME NEW r \in Proc, r = loc[p].to, PushOK(p, r), PushOK(p, r)' PROVE Steady(r)
      <3>1. PICK b \in Blocks : /\ size[b] = 0 /\ loc'[p].new = b
                                /\ cells' = [cells EXCEPT ![b] = [i \in Cell |-> Unwritten]]
        BY <2>1 DEF Does_realloc_malloc
      <3>2. /\ PushLen(p, r)' = PushLen(p, r) /\ PushLen(p, r) = length[r]
            /\ PushBlock(p, r) = data[r] /\ Growing(p, r) /\ data'[r] = data[r]
            /\ Vector(r, data[r], capacity[r], length[r])
        BY <2>1, <2>2 DEF Does_realloc_malloc, PushLen, PushBlock, PushRoom, PushOK
      <3>3. length[r] \in Nat /\ capacity[r] \in Nat /\ data[r] \in Blocks \cup {Null}
        BY <1>1, Types
      <3>4. CASE loc[p].old = Null
        <4>1. length[r] = 0
          BY <3>2, <3>3, <3>4 DEF Growing, Vector
        <4>2. QED
          BY <3>2, <4>1
      <3>5. CASE loc[p].old # Null
        <4>1. PushBlock(p, r)' = data[r] /\ data[r] \in Blocks /\ data[r] # b
          BY <2>1, <3>1, <3>2, <3>3, <3>5 DEF Does_realloc_malloc, PushBlock, Growing,
               Vector
        <4>2. cells'[data[r]] = cells[data[r]]
          BY <1>1, <3>1, <4>1 DEF HeapTyped
        <4>3. QED
          BY <3>2, <4>1, <4>2
      <3>6. QED
        BY <3>4, <3>5
    <2>3. QED
      BY <2>1, <2>2, PushesContent DEF Does_realloc_malloc
  <1>9. CASE realloc_copy(p)
    <2>1. Does_realloc_copy(p) /\ Pushes(p)
      BY <1>1, <1>9, Eff_realloc_copy, Calm_realloc_copy
    <2>2. ASSUME NEW r \in Proc, r = loc[p].to, PushOK(p, r), PushOK(p, r)' PROVE Steady(r)
      <3>1. PushLen(p, r)' = PushLen(p, r) /\ PushBlock(p, r)' = PushBlock(p, r)
            /\ PushBlock(p, r) = data[r] /\ data[r] # loc[p].new /\ data[r] # Null
        BY <2>1, <2>2 DEF Does_realloc_copy, PushLen, PushBlock, PushOK, Doubled
      <3>2. data[r] \in Blocks
        BY <1>1, <3>1 DEF BoxTyped
      <3>3. cells'[data[r]] = cells[data[r]]
        BY <1>1, <2>1, <3>1, <3>2 DEF Does_realloc_copy, HeapTyped
      <3>4. QED
        BY <3>1, <3>3
    <2>3. QED
      BY <2>1, <2>2, PushesContent, SMTT(40) DEF Does_realloc_copy
  <1>10. CASE realloc_free(p)
    <2>1. Does_realloc_free(p) /\ Pushes(p)
      BY <1>1, <1>10, Eff_realloc_free, Calm_realloc_free
    <2>2. ASSUME NEW r \in Proc, r = loc[p].to, PushOK(p, r), PushOK(p, r)' PROVE Steady(r)
      BY <2>1, <2>2 DEF Does_realloc_free, PushLen, PushBlock, PushOK
    <2>3. QED
      BY <2>1, <2>2, PushesContent DEF Does_realloc_free
  <1>11. QED
    BY <1>2, <1>3, <1>4, <1>5, <1>6, <1>7, <1>8, <1>9, <1>10 DEF push_step

\* A step of a pop before the read, or into a mailbox.
LEMMA EnteringKeepsBoxes ==
    ASSUME AnyInv, AnyInv', Calm, NEW r \in Proc, \A s \in Proc \ {r} : Untouched(s),
           NEW b \in Blocks \cup {Null}, NEW n \in Int,
           Holder(r) = b, Waiting(r) = n, Holder(r)' = b, Waiting(r)' = n,
           UNCHANGED << alive, cells, got >>
    PROVE  Boxes' = Boxes /\ alive' = alive /\ got' = got
  <1>1. Content(r)' = Content(r)
    BY SameContent
  <1>2. QED
    BY <1>1, BoxesStep

\* A step of a receive other than the last of its pop keeps the messages of every
\* mailbox.
LEMMA PopKeepsBoxes ==
    ASSUME AnyInv, AnyInv', Calm, Orderly', NEW p \in Proc,
           \/ rcv_sync_done(p) \/ vec_pop_load(p) \/ vec_pop_length(p)
           \/ syscall_ipcrcv_oneshot(p)
    PROVE  Boxes' = Boxes /\ alive' = alive /\ got' = got
  <1>1. CallTyped /\ BoxTyped /\ RestTyped /\ Pointers /\ PopNeverUnderflows
    BY TypeParts DEF AnyInv
  <1>2. PICK b \in Blocks \cup {Null}, n \in Int : b = data[p] /\ n = length[p]
    BY <1>1, Types
  <1>3. CASE rcv_sync_done(p)
    <2>1. /\ Does_rcv_sync_done(p) /\ Idle(p) /\ Popping(p)'
          /\ \A s \in Proc \ {p} : Untouched(s)
      BY <1>1, <1>3, Eff_rcv_sync_done, Calm_rcv_sync_done
    <2>2. Holder(p) = b /\ Waiting(p) = n /\ Holder(p)' = b /\ Waiting(p)' = n
      BY <1>2, <2>1, IdleView, PoppingView DEF Does_rcv_sync_done, PopLen
    <2>3. QED
      BY <2>1, <2>2, EnteringKeepsBoxes DEF Does_rcv_sync_done
  <1>4. CASE syscall_ipcrcv_oneshot(p)
    <2>1. /\ Does_syscall_ipcrcv_oneshot(p) /\ Idle(p) /\ Popping(p)'
          /\ \A s \in Proc \ {p} : Untouched(s)
      BY <1>1, <1>4, Eff_syscall_ipcrcv_oneshot, Calm_syscall_ipcrcv_oneshot
    <2>2. Holder(p) = b /\ Waiting(p) = n /\ Holder(p)' = b /\ Waiting(p)' = n
      BY <1>2, <2>1, IdleView, PoppingView DEF Does_syscall_ipcrcv_oneshot, PopLen
    <2>3. QED
      BY <2>1, <2>2, EnteringKeepsBoxes DEF Does_syscall_ipcrcv_oneshot
  <1>5. CASE vec_pop_load(p)
    <2>1. /\ Does_vec_pop_load(p) /\ Popping(p) /\ Popping(p)'
          /\ \A s \in Proc \ {p} : Untouched(s)
      BY <1>1, <1>5, Eff_vec_pop_load, Calm_vec_pop_load
    <2>2. Holder(p) = b /\ Waiting(p) = n /\ Holder(p)' = b /\ Waiting(p)' = n
      BY <1>2, <2>1, PoppingView DEF Does_vec_pop_load, PopLen
    <2>3. QED
      BY <2>1, <2>2, EnteringKeepsBoxes DEF Does_vec_pop_load
  <1>6. CASE vec_pop_length(p)
    <2>1. /\ Does_vec_pop_length(p) /\ Popping(p) /\ Popping(p)' /\ PopOK(p)
          /\ \A s \in Proc \ {p} : Untouched(s)
      BY <1>1, <1>6, Eff_vec_pop_length, Calm_vec_pop_length
    <2>2. PopLen(p) = n /\ PopLen(p)' = n
      BY <1>2, <2>1 DEF Does_vec_pop_length, PopLen, PopOK
    <2>3. Holder(p) = b /\ Waiting(p) = n /\ Holder(p)' = b /\ Waiting(p)' = n
      BY <1>2, <2>1, <2>2, PoppingView DEF Does_vec_pop_length
    <2>4. QED
      BY <2>1, <2>3, EnteringKeepsBoxes DEF Does_vec_pop_length
  <1>7. QED
    BY <1>3, <1>4, <1>5, <1>6

\* The lookup of the receiver of a message.
LEMMA SendKeepsBoxes ==
    ASSUME AnyInv, AnyInv', Calm, GotOK, Orderly', NEW p \in Proc, NEW r \in Proc,
           syscall_ipcsend(p, r), status' = "running"
    PROVE  Boxes' = Boxes /\ alive' = alive /\ got' = got
  <1>1. CallTyped /\ BoxTyped /\ RestTyped /\ Pointers
    BY TypeParts DEF AnyInv
  <1>2. PICK b \in Blocks \cup {Null}, n \in Int : b = data[r] /\ n = length[r]
    BY <1>1, Types
  <1>3. /\ Does_syscall_ipcsend(p, r) /\ Idle(r) /\ Sole(p, r)' /\ pc'[p] = "expand"
        /\ \A s \in Proc \ {r} : Untouched(s)
    BY <1>1, Eff_syscall_ipcsend, Calm_syscall_ipcsend
  <1>4. PushBlock(p, r)' = b /\ PushLen(p, r)' = n
    BY <1>2, <1>3 DEF Does_syscall_ipcsend, PushBlock, PushLen
  <1>5. Holder(r) = b /\ Waiting(r) = n /\ Holder(r)' = b /\ Waiting(r)' = n
    BY <1>2, <1>3, <1>4, IdleView, SoleView
  <1>6. QED
    BY <1>3, <1>5, EnteringKeepsBoxes DEF Does_syscall_ipcsend

\* The calls and the slayer's passes that touch no mailbox.
LEMMA AsideKeepsBoxes ==
    ASSUME AnyInv, AnyInv', Calm, Orderly', NEW p \in Proc,
           syscall_ipcrcv_sync(p) \/ slayer_vec_free(p)
    PROVE  Boxes' = Boxes /\ alive' = alive /\ got' = got
  <1>1. \A s \in Proc : Untouched(s)
    BY Calm_syscall_ipcrcv_sync, Calm_slayer_vec_free
  <1>2. alive' = alive /\ got' = got
    BY DEF syscall_ipcrcv_sync, slayer_vec_free
  <1>3. p \in alive => Content(p)' = Content(p)
    BY <1>1, UntouchedContent DEF InUse
  <1>4. QED
    BY <1>1, <1>2, <1>3, BoxesStep

(***************************************************************************)
(* Steps that move a message.                                              *)
(***************************************************************************)
\* Functions on 1 .. n as sequences.
LEMMA FunctionIsSeq ==
    ASSUME NEW S, NEW n \in Nat, NEW f \in [1 .. n -> S]
    PROVE  f \in Seq(S) /\ Len(f) = n
  OBVIOUS

\* A sequence one longer whose last element is m is the old one with m appended.
LEMMA AppendIs ==
    ASSUME NEW S, NEW n \in Nat, NEW f \in [1 .. n -> S], NEW m \in S,
           NEW g \in [1 .. n + 1 -> S], \A i \in 1 .. n : g[i] = f[i], g[n + 1] = m
    PROVE  g = Append(f, m)
  <1>1. f \in Seq(S) /\ Len(f) = n
    BY FunctionIsSeq
  <1>2. g \in Seq(S) /\ Len(g) = n + 1
    BY FunctionIsSeq
  <1>3. /\ Append(f, m) \in Seq(S) /\ Len(Append(f, m)) = n + 1
        /\ \A i \in 1 .. n : Append(f, m)[i] = f[i]
        /\ Append(f, m)[n + 1] = m
    BY <1>1, AppendProperties
  <1>4. \A i \in 1 .. n + 1 : g[i] = Append(f, m)[i]
    BY <1>3
  <1>5. QED
    BY <1>2, <1>3, <1>4, SeqEqual

\* A sequence one shorter that agrees with the old one is its front.
LEMMA FrontIs ==
    ASSUME NEW S, NEW n \in Nat, NEW f \in [1 .. n + 1 -> S],
           NEW g \in [1 .. n -> S], \A i \in 1 .. n : g[i] = f[i]
    PROVE  g = SubSeq(f, 1, Len(f) - 1) /\ f # << >> /\ Len(f) = n + 1
  <1>1. f \in Seq(S) /\ Len(f) = n + 1
    BY FunctionIsSeq
  <1>2. SubSeq(f, 1, n) = [i \in 1 .. n |-> f[i]]
    BY <1>1
  <1>3. f # << >>
    BY <1>1
  <1>4. QED
    BY <1>1, <1>2, <1>3

\* The last step of a push adds the message to the mailbox of its receiver, or
\* nothing when the receiver has exited.
LEMMA SlotSends ==
    ASSUME AnyInv, AnyInv', Calm, NEW p \in Proc, vec_push_slot(p)
    PROVE  /\ alive' = alive /\ got' = got
           /\ \/ Boxes' = Boxes
              \/ \E m \in Message :
                   /\ m.receiver \in alive
                   /\ Boxes' = [Boxes EXCEPT ![m.receiver] = Append(@, m)]
  <1>1. CallTyped /\ BoxTyped /\ HeapTyped /\ RestTyped /\ Pointers
    BY TypeParts DEF AnyInv
  <1>2. alive' = alive /\ got' = got
    BY DEF vec_push_slot
  <1>3. PICK r \in Proc, d \in Blocks, k \in Nat :
          /\ Sole(p, r) /\ Idle(r)' /\ \A s \in Proc \ {r} : Untouched(s)
          /\ PushLen(p, r) = k /\ PushBlock(p, r) = d /\ Carries(p, r, d, k)
          /\ data'[r] = d /\ length'[r] = k + 1 /\ cells'[d][k] = loc[p].msg
          /\ \A j \in 0 .. k - 1 : cells'[d][j] = cells[d][j]
    BY Calm_vec_push_slot
  <1>4. CASE r \notin alive
    BY <1>2, <1>3, <1>4, BoxesStep
  <1>5. CASE r \in alive
    <2>1. PICK m \in Message : m = loc[p].msg
      BY <1>3 DEF Carries
    <2>2. m.receiver = r
      BY <1>3, <2>1 DEF Carries
    <2>3. \A j \in 0 .. k - 1 : cells[d][j] \in Message
      <3>1. PushOK(p, r)
        BY <1>3, PusherKnows DEF Sole, Into
      <3>2. QED
        BY <1>3, <3>1 DEF PushOK, Vector, Keeps
    <2>4. /\ Content(r) \in [1 .. k -> Message]
          /\ \A i \in 1 .. k : Content(r)[i] = cells[d][i - 1]
      <3>1. Waiting(r) = k /\ Holder(r) = d
        BY <1>3, SoleView
      <3>2. QED
        BY <2>3, <3>1 DEF Content
    <2>5. /\ Content(r)' \in [1 .. k + 1 -> Message]
          /\ \A i \in 1 .. k + 1 : Content(r)'[i] = cells'[d][i - 1]
      <3>1. Waiting(r)' = k + 1 /\ Holder(r)' = d
        BY <1>3, IdleView
      <3>2. \A i \in 1 .. k + 1 : cells'[d][i - 1] \in Message
        BY <1>3, <2>1, <2>3
      <3>3. QED
        BY <3>1, <3>2 DEF Content
    <2>6. Content(r)' = Append(Content(r), m)
      <3>1. PICK f \in [1 .. k -> Message], g \in [1 .. k + 1 -> Message] :
              f = Content(r) /\ g = Content(r)'
        BY <2>4, <2>5
      <3>2. \A i \in 1 .. k : g[i] = f[i]
        <4>1. \A i \in 1 .. k : i - 1 \in 0 .. k - 1 /\ i \in 1 .. k + 1
          OBVIOUS
        <4>2. QED
          BY <1>3, <2>4, <2>5, <3>1, <4>1
      <3>3. g[k + 1] = m
        BY <1>3, <2>1, <2>5, <3>1
      <3>4. g = Append(f, m)
        BY <3>2, <3>3, AppendIs, Zenon
      <3>5. QED
        BY <3>1, <3>4
    <2>7. \A s \in alive : s # r => Content(s)' = Content(s)
      BY <1>1, <1>3, OthersContent DEF RestTyped
    <2>8. Boxes' = [Boxes EXCEPT ![r] = Append(@, m)]
      BY <1>2, <1>5, <2>6, <2>7 DEF Boxes
    <2>9. QED
      BY <1>2, <1>5, <2>2, <2>8
  <1>6. QED
    BY <1>4, <1>5

\* The last step of a pop takes the last message out of the mailbox.
LEMMA ReadReceives ==
    ASSUME AnyInv, AnyInv', Calm, GotOK, NEW p \in Proc, vec_pop_read(p)
    PROVE  /\ alive' = alive /\ Boxes[p] # << >>
           /\ got' = [got EXCEPT ![p] = Append(@, Boxes[p][Len(Boxes[p])])]
           /\ Boxes' = [Boxes EXCEPT ![p] = SubSeq(@, 1, Len(@) - 1)]
  <1>1. CallTyped /\ BoxTyped /\ HeapTyped /\ RestTyped /\ Pointers
    BY TypeParts DEF AnyInv
  <1>2. Does_vec_pop_read(p)
    BY <1>1, Eff_vec_pop_read
  <1>3. PICK n \in Nat, m \in Message :
          /\ Popping(p) /\ Idle(p)' /\ \A s \in Proc \ {p} : Untouched(s)
          /\ length[p] = n /\ cells[data[p]][n] = m /\ got'[p] = Append(got[p], m)
          /\ \A s \in Proc \ {p} : got'[s] = got[s]
    BY Calm_vec_pop_read
  <1>4. p \in alive /\ alive' = alive /\ cells' = cells /\ data' = data /\ length' = length
    BY <1>2 DEF Does_vec_pop_read, Calm, AliveIs
  <1>5. PICK b \in Blocks : b = data[p]
    BY <1>2 DEF Does_vec_pop_read
  <1>6. Waiting(p) = n + 1 /\ Holder(p) = b /\ Waiting(p)' = n /\ Holder(p)' = b
    BY <1>2, <1>3, <1>4, <1>5, PoppingView, IdleView DEF Does_vec_pop_read, PopLen
  <1>7. \A j \in 0 .. n : cells[b][j] \in Message
    <2>1. PopOK(p)
      BY <1>3, PopperKnows DEF Popping
    <2>2. \A j \in 0 .. (n + 1) - 1 : cells[b][j] \in Message
      BY <1>2, <1>3, <1>5, <2>1 DEF PopOK, PopLen, Vector, Keeps, Does_vec_pop_read
    <2>3. QED
      BY <2>2
  <1>8. PICK f \in [1 .. n + 1 -> Message] :
          f = Content(p) /\ \A i \in 1 .. n + 1 : f[i] = cells[b][i - 1]
    <2>1. Content(p) = [i \in 1 .. n + 1 |-> cells[b][i - 1]]
      BY <1>6 DEF Content
    <2>2. QED
      BY <1>7, <2>1, SMTT(40)
  <1>9. PICK g \in [1 .. n -> Message] :
          g = Content(p)' /\ \A i \in 1 .. n : g[i] = cells[b][i - 1]
    <2>1. Content(p)' = [i \in 1 .. n |-> cells[b][i - 1]]
      BY <1>4, <1>6 DEF Content
    <2>2. \A i \in 1 .. n : cells[b][i - 1] \in Message
      BY <1>7
    <2>3. QED
      BY <2>1, <2>2
  <1>10. g = SubSeq(f, 1, Len(f) - 1) /\ f # << >> /\ Len(f) = n + 1
    <2>1. \A i \in 1 .. n : g[i] = f[i]
      BY <1>8, <1>9
    <2>2. QED
      BY <2>1, FrontIs, Zenon
  <1>11. f[n + 1] = m
    BY <1>3, <1>5, <1>8
  <1>12. Boxes[p] = f
    BY <1>4, <1>8 DEF Boxes
  <1>13. got' = [got EXCEPT ![p] = Append(@, Boxes[p][Len(Boxes[p])])]
    <2>1. got' = [got EXCEPT ![p] = Append(got[p], m)]
      BY <1>2, <1>3, <1>5 DEF Does_vec_pop_read
    <2>2. QED
      BY <2>1, <1>10, <1>11, <1>12
  <1>14. \A s \in alive : s # p => Content(s)' = Content(s)
    BY <1>1, <1>3, OthersContent DEF RestTyped
  <1>15. Boxes' = [Boxes EXCEPT ![p] = SubSeq(f, 1, Len(f) - 1)]
    BY <1>4, <1>9, <1>10, <1>14 DEF Boxes
  <1>16. QED
    BY <1>4, <1>10, <1>12, <1>13, <1>15

\* A process that exits loses its mailbox, and no other process loses a message.
LEMMA ExitExits ==
    ASSUME AnyInv, AnyInv', Calm, NEW p \in Proc, syscall_exit(p)
    PROVE  /\ p \in alive /\ alive' = alive \ {p} /\ got' = got
           /\ Boxes' = [Boxes EXCEPT ![p] = << >>]
  <1>1. CallTyped /\ RestTyped
    BY TypeParts DEF AnyInv
  <1>2. Does_syscall_exit(p) /\ \A s \in Proc : Untouched(s)
    BY <1>1, Eff_syscall_exit, Calm_syscall_exit
  <1>3. p \in alive /\ alive' = alive \ {p} /\ got' = got
    BY <1>2 DEF Does_syscall_exit, Calm, AliveIs
  <1>4. \A s \in alive : Content(s)' = Content(s)
    BY <1>1, <1>2, UntouchedContent DEF InUse, RestTyped
  <1>5. Boxes' = [Boxes EXCEPT ![p] = << >>]
    BY <1>3, <1>4 DEF Boxes
  <1>6. QED
    BY <1>3, <1>5

(***************************************************************************)
(* Every step is one of IpcAbs.                                            *)
(***************************************************************************)
\* The kernel runs undisturbed before and after the step.
LEMMA UpStep ==
    ASSUME IInv, IInv', Next, status = "running", Orderly, status' = "running", Orderly'
    PROVE  \/ Boxes' = Boxes /\ got' = got /\ alive' = alive
           \/ /\ \E m \in Message :
                   /\ m.receiver \in alive
                   /\ Boxes' = [Boxes EXCEPT ![m.receiver] = Append(@, m)]
              /\ got' = got /\ alive' = alive
           \/ \E p \in Proc :
                /\ alive' = alive /\ Boxes[p] # << >>
                /\ got' = [got EXCEPT ![p] = Append(@, Boxes[p][Len(Boxes[p])])]
                /\ Boxes' = [Boxes EXCEPT ![p] = SubSeq(@, 1, Len(@) - 1)]
           \/ \E p \in Proc :
                /\ p \in alive /\ alive' = alive \ {p} /\ got' = got
                /\ Boxes' = [Boxes EXCEPT ![p] = << >>]
  <1>1. AnyInv /\ AnyInv' /\ Calm /\ GotOK
    BY DEF IInv, OrderlyInv
  <1>2. CASE UNCHANGED vars
    BY <1>2 DEF vars, box_vars, heap_vars, Boxes, Content, Waiting, Holder, Pushing
  <1>3. ASSUME NEW p \in Proc, call(p)
        PROVE  \/ Boxes' = Boxes /\ got' = got /\ alive' = alive
               \/ syscall_exit(p)
    <2>1. ASSUME NEW r \in Proc, syscall_ipcsend(p, r)
          PROVE  Boxes' = Boxes /\ got' = got /\ alive' = alive
      BY <1>1, <2>1, SendKeepsBoxes
    <2>2. CASE rcv_sync_yield(p)
      BY <1>2, <2>2 DEF rcv_sync_yield, vars, box_vars, heap_vars, Boxes, Content, Waiting,
                        Holder, Pushing
    <2>3. CASE syscall_ipcrcv_sync(p)
      BY <1>1, <2>3, AsideKeepsBoxes
    <2>4. CASE syscall_ipcrcv_oneshot(p)
      BY <1>1, <2>4, PopKeepsBoxes
    <2>5. QED
      BY <1>3, <2>1, <2>2, <2>3, <2>4 DEF call
  <1>4. ASSUME NEW p \in Proc, slayer_vec_free(p)
        PROVE  Boxes' = Boxes /\ got' = got /\ alive' = alive
    BY <1>1, <1>4, AsideKeepsBoxes
  <1>5. ASSUME NEW p \in Proc, push_step(p), ~vec_push_slot(p)
        PROVE  Boxes' = Boxes /\ got' = got /\ alive' = alive
    BY <1>1, <1>5, PushKeepsBoxes
  <1>6. ASSUME NEW p \in Proc, pop_step(p), ~vec_pop_read(p)
        PROVE  Boxes' = Boxes /\ got' = got /\ alive' = alive
    BY <1>1, <1>6, PopKeepsBoxes DEF pop_step
  <1>7. CASE Stopped
    BY <1>2, <1>7 DEF Stopped
  <1>8. CASE \E p \in Proc : vec_push_slot(p)
    BY <1>1, <1>8, SlotSends
  <1>9. CASE \E p \in Proc : vec_pop_read(p)
    BY <1>1, <1>9, ReadReceives
  <1>10. CASE \E p \in Proc : syscall_exit(p)
    BY <1>1, <1>10, ExitExits
  <1>11. QED
    BY <1>3, <1>4, <1>5, <1>6, <1>7, <1>8, <1>9, <1>10 DEF Next

\* Every step of the calls and of the slayer is a step of IpcAbs or a stutter.
LEMMA AbsStep == IInv /\ IInv' /\ [Next]_vars => [Abs!Next]_(Abs!vars)
  <1> SUFFICES ASSUME IInv, IInv', [Next]_vars PROVE [Abs!Next]_(Abs!vars)
    OBVIOUS
  <1> DEFINE up == status = "running" /\ Orderly
  <1>1. Boxes = [p \in Proc |-> IF p \in alive
                                THEN [i \in 1 .. Waiting(p) |-> cells[Holder(p)][i - 1]]
                                ELSE << >>]
    BY DEF Boxes, Content
  <1>2. Boxes' = [p \in Proc |-> IF p \in alive
                                 THEN [i \in 1 .. Waiting(p) |-> cells[Holder(p)][i - 1]]
                                 ELSE << >>]'
    BY DEF Boxes, Content
  <1>3. CASE UNCHANGED vars
    BY <1>3 DEF vars, box_vars, heap_vars, Abs!vars, Waiting, Holder, Pushing, Orderly
  <1>4. CASE Next /\ ~up
    <2>1. ~up'
      BY <1>4, HaltedStays, OrderlyBefore DEF IInv, vars
    <2>2. QED
      BY <1>4, <2>1 DEF Abs!Next, Abs!Failed
  <1>5. CASE Next /\ up /\ ~up'
    BY <1>5 DEF Abs!Next, Abs!Fail
  <1>6. CASE Next /\ up /\ up'
    <2>1. CASE Boxes' = Boxes /\ got' = got /\ alive' = alive
      BY <1>1, <1>2, <1>6, <2>1 DEF Abs!vars
    <2>2. ASSUME NEW m \in Message, m.receiver \in alive,
                 Boxes' = [Boxes EXCEPT ![m.receiver] = Append(@, m)],
                 got' = got, alive' = alive
          PROVE  Abs!Send(m)
      BY <1>1, <1>2, <1>6, <2>2 DEF Abs!Send
    <2>3. ASSUME NEW p \in Proc, alive' = alive, Boxes[p] # << >>,
                 got' = [got EXCEPT ![p] = Append(@, Boxes[p][Len(Boxes[p])])],
                 Boxes' = [Boxes EXCEPT ![p] = SubSeq(@, 1, Len(@) - 1)]
          PROVE  Abs!Receive(p)
      BY <1>1, <1>2, <1>6, <2>3 DEF Abs!Receive
    <2>4. ASSUME NEW p \in Proc, p \in alive, alive' = alive \ {p}, got' = got,
                 Boxes' = [Boxes EXCEPT ![p] = << >>]
          PROVE  Abs!Exit(p)
      BY <1>1, <1>2, <1>6, <2>4 DEF Abs!Exit
    <2>5. QED
      BY <1>6, <2>1, <2>2, <2>3, <2>4, UpStep DEF Abs!Next
  <1>7. QED
    BY <1>3, <1>4, <1>5, <1>6

\* While orderly, message passing is a stack of messages per process: every
\* step of the system calls and of the slayer is a step of IpcAbs or a stutter.
THEOREM Refinement == Spec => ImplementsIpcAbs
  <1>1. Init => Abs!Init
    <2> SUFFICES ASSUME Init PROVE Abs!Init
      OBVIOUS
    <2>1. \A p \in Proc : Idle(p)
      BY DEF Init, Idle, Into, PushLabel, PopLabel
    <2>2. \A p \in Proc : Waiting(p) = 0
      BY <2>1, IdleView DEF Init
    <2>3. \A p \in Proc : [i \in 1 .. Waiting(p) |-> cells[Holder(p)][i - 1]] = << >>
      BY <2>2
    <2>4. QED
      BY <2>3 DEF Init, Abs!Init, Orderly
  <1>2. QED
    BY <1>1, Always, AbsStep, PTL DEF Spec, ImplementsIpcAbs, Abs!Spec
=============================================================================
