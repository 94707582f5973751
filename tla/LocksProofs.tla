---------------------------- MODULE LocksProofs ----------------------------
(***************************************************************************)
(* Proofs about Locks, for any number of threads, any set of locks, any    *)
(* nesting and any workload.                                               *)
(***************************************************************************)
EXTENDS Locks, SequenceTheorems, TLAPS

(***************************************************************************)
(* What pushing and popping do to the set of locks a thread holds.         *)
(***************************************************************************)
In(s, l) == \E i \in DOMAIN s : s[i] = l

NoRepeat(s) == \A i, j \in DOMAIN s : s[i] = s[j] => i = j

\* Entering a critical section: the sequence grows at its head.
LEMMA Push ==
    ASSUME NEW S, NEW s \in Seq(S), NEW w \in S
    PROVE  /\ << w >> \o s \in Seq(S)
           /\ DOMAIN (<< w >> \o s) = 1 .. Len(s) + 1
           /\ DOMAIN s = 1 .. Len(s)
           /\ Len(s) \in Nat
           /\ (<< w >> \o s)[1] = w
           /\ \A i \in 1 .. Len(s) : (<< w >> \o s)[i + 1] = s[i]
           /\ \A i \in 2 .. Len(s) + 1 : (<< w >> \o s)[i] = s[i - 1]
    OBVIOUS

\* Leaving one: the rest of the sequence moves up.
LEMMA Pop ==
    ASSUME NEW S, NEW s \in Seq(S), s # << >>
    PROVE  /\ Tail(s) \in Seq(S)
           /\ DOMAIN s = 1 .. Len(s)
           /\ Len(s) \in Nat \ {0}
           /\ Head(s) = s[1]
           /\ Head(s) \in S
           /\ DOMAIN Tail(s) = 1 .. Len(s) - 1
           /\ \A i \in 1 .. Len(s) - 1 : Tail(s)[i] = s[i + 1]
    OBVIOUS

\* arch_acquire adds one lock to those the thread holds.
LEMMA PushIn ==
    ASSUME NEW S, NEW s \in Seq(S), NEW w \in S
    PROVE  /\ \A l : In(<< w >> \o s, l) <=> (l = w \/ In(s, l))
           /\ NoRepeat(s) /\ ~In(s, w) => NoRepeat(<< w >> \o s)
  <1> DEFINE u == << w >> \o s
  <1>1. /\ DOMAIN u = 1 .. Len(s) + 1 /\ DOMAIN s = 1 .. Len(s) /\ Len(s) \in Nat
        /\ u[1] = w
        /\ \A i \in 1 .. Len(s) : u[i + 1] = s[i]
        /\ \A i \in 2 .. Len(s) + 1 : u[i] = s[i - 1]
    BY Push
  <1> HIDE DEF u
  <1>2. ASSUME NEW l, In(u, l) PROVE l = w \/ In(s, l)
    <2>1. PICK i \in 1 .. Len(s) + 1 : u[i] = l
      BY <1>1, <1>2 DEF In
    <2>2. CASE i = 1
      BY <1>1, <2>1, <2>2
    <2>3. CASE i # 1
      <3>1. i \in 2 .. Len(s) + 1 /\ i - 1 \in 1 .. Len(s)
        BY <1>1, <2>1, <2>3
      <3>2. QED
        BY <1>1, <2>1, <3>1 DEF In
    <2>4. QED
      BY <2>2, <2>3
  <1>3. ASSUME NEW l, l = w \/ In(s, l) PROVE In(u, l)
    <2>1. CASE l = w
      <3>1. 1 \in DOMAIN u
        BY <1>1
      <3>2. QED
        BY <1>1, <2>1, <3>1 DEF In
    <2>2. CASE In(s, l)
      <3>1. PICK i \in 1 .. Len(s) : s[i] = l
        BY <1>1, <2>2 DEF In
      <3>2. i + 1 \in DOMAIN u /\ u[i + 1] = l
        BY <1>1, <3>1
      <3>3. QED
        BY <3>2 DEF In
    <2>3. QED
      BY <1>3, <2>1, <2>2
  <1>4. ASSUME NoRepeat(s), ~In(s, w) PROVE NoRepeat(u)
    <2> SUFFICES ASSUME NEW i \in 1 .. Len(s) + 1, NEW j \in 1 .. Len(s) + 1,
                        u[i] = u[j], i # j
                 PROVE  FALSE
      BY <1>1 DEF NoRepeat
    <2>1. \A k \in 2 .. Len(s) + 1 : u[k] # w /\ k - 1 \in 1 .. Len(s)
      BY <1>1, <1>4 DEF In
    <2>2. i # 1 /\ j # 1
      BY <1>1, <2>1
    <2>3. i \in 2 .. Len(s) + 1 /\ j \in 2 .. Len(s) + 1
      BY <1>1, <2>2
    <2>4. s[i - 1] = s[j - 1] /\ i - 1 # j - 1
      BY <1>1, <2>3
    <2>5. QED
      BY <1>1, <1>4, <2>1, <2>3, <2>4 DEF NoRepeat
  <1>5. QED
    BY <1>2, <1>3, <1>4 DEF u

\* arch_release takes exactly the innermost one away.
LEMMA PopIn ==
    ASSUME NEW S, NEW s \in Seq(S), s # << >>, NoRepeat(s)
    PROVE  /\ \A l : In(Tail(s), l) <=> (l # Head(s) /\ In(s, l))
           /\ NoRepeat(Tail(s))
           /\ In(s, Head(s))
  <1> DEFINE u == Tail(s)
  <1>1. /\ DOMAIN s = 1 .. Len(s) /\ Len(s) \in Nat \ {0} /\ Head(s) = s[1]
        /\ DOMAIN u = 1 .. Len(s) - 1
        /\ \A i \in 1 .. Len(s) - 1 : u[i] = s[i + 1]
    BY Pop
  <1> HIDE DEF u
  <1>2. 1 \in DOMAIN s /\ In(s, Head(s))
    BY <1>1 DEF In
  <1>3. ASSUME NEW l, In(u, l) PROVE l # Head(s) /\ In(s, l)
    <2>1. PICK i \in 1 .. Len(s) - 1 : u[i] = l
      BY <1>1, <1>3 DEF In
    <2>2. i + 1 \in DOMAIN s /\ i + 1 # 1 /\ s[i + 1] = l
      BY <1>1, <2>1
    <2>3. QED
      BY <1>1, <1>2, <2>2 DEF In, NoRepeat
  <1>4. ASSUME NEW l, l # Head(s), In(s, l) PROVE In(u, l)
    <2>1. PICK i \in 1 .. Len(s) : s[i] = l
      BY <1>1, <1>4 DEF In
    <2>2. i # 1
      BY <1>1, <1>4, <2>1
    <2>3. i - 1 \in DOMAIN u /\ u[i - 1] = l
      BY <1>1, <2>1, <2>2
    <2>4. QED
      BY <2>3 DEF In
  <1>5. NoRepeat(u)
    <2> SUFFICES ASSUME NEW i \in 1 .. Len(s) - 1, NEW j \in 1 .. Len(s) - 1,
                        u[i] = u[j]
                 PROVE  i = j
      BY <1>1 DEF NoRepeat
    <2>1. i + 1 \in DOMAIN s /\ j + 1 \in DOMAIN s /\ s[i + 1] = s[j + 1]
      BY <1>1
    <2>2. i + 1 = j + 1
      BY <2>1 DEF NoRepeat
    <2>3. QED
      BY <2>2
  <1>6. QED
    BY <1>2, <1>3, <1>4, <1>5 DEF u

-----------------------------------------------------------------------------
(***************************************************************************)
(* The inductive invariant.  Its core is what the interrupt flag protects: *)
(* a thread that is not running was interrupted outside the part of        *)
(* arch_acquire after cli, and never inside a section of a leaf lock.      *)
(***************************************************************************)
NoLockTwice == \A t \in Thread : NoRepeat(stack[t])

SuspendedOutsideAcquire ==
    \A t \in Thread : t # cur => pc[t] \in {"run", "cli", "sti"}

MaskedInAcquire == pc[cur] \in {"bts", "spin"} => ~intr

SpinsOnTakenLock == \A t \in Thread : pc[t] = "spin" => word[want[t]] = 1

LeafIsInnermost ==
    \A t \in Thread : \A i \in DOMAIN stack[t] : Leaf(stack[t][i]) =>
        t = cur /\ ~intr /\ i = 1 /\ pc[t] = "run"

IInv ==
    /\ TypeOK
    /\ MutualExclusion
    /\ NoLockTwice
    /\ SuspendedOutsideAcquire
    /\ MaskedInAcquire
    /\ SpinsOnTakenLock
    /\ LeafIsInnermost

\* No lock is held at the start.
LEMMA InitIInv == Init => IInv
  <1> SUFFICES ASSUME Init PROVE IInv
    OBVIOUS
  <1>1. cur \in Thread
    BY DEF Init
  <1>2. TypeOK
    <2>1. intr \in BOOLEAN
      BY Zenon DEF Init
    <2>2. stack \in [Thread -> Seq(Lock)]
      BY EmptySeq DEF Init
    <2>3. word \in [Lock -> {0, 1}] /\ pc \in [Thread -> Label]
      BY DEF Init, Label
    <2>4. QED
      BY <2>1, <2>2, <2>3 DEF Init, TypeOK
  <1>3. \A t \in Thread : stack[t] = << >> /\ DOMAIN stack[t] = {}
    BY DEF Init
  <1>4. MutualExclusion
    BY <1>3 DEF Init, MutualExclusion, Holds
  <1>5. NoLockTwice /\ LeafIsInnermost
    BY <1>3 DEF NoLockTwice, NoRepeat, LeafIsInnermost
  <1>6. SuspendedOutsideAcquire /\ MaskedInAcquire /\ SpinsOnTakenLock
    BY <1>1 DEF Init, SuspendedOutsideAcquire, MaskedInAcquire, SpinsOnTakenLock
  <1>7. QED
    BY <1>2, <1>4, <1>5, <1>6 DEF IInv

\* A step that neither takes nor releases a lock.
LEMMA SameHolders ==
    ASSUME IInv, UNCHANGED << word, stack >>
    PROVE  MutualExclusion' /\ NoLockTwice'
    BY DEF IInv, MutualExclusion, NoLockTwice, NoRepeat, Holds

\* arch_acquire is called: only the thread's label and argument change.
LEMMA CallStep ==
    ASSUME IInv, NEW t \in Thread, NEW l \in Lock, call_acquire(t, l)
    PROVE  IInv'
  <1> USE DEF IInv
  <1>1. /\ cur = t /\ pc[t] = "run"
        /\ want' = [want EXCEPT ![t] = l]
        /\ pc' = [pc EXCEPT ![t] = "cli"]
        /\ UNCHANGED << word, intr, cur, stack, outer >>
    BY DEF call_acquire
  <1>2. TypeOK'
    BY <1>1 DEF TypeOK, Label
  <1>3. MutualExclusion' /\ NoLockTwice'
    BY <1>1, SameHolders
  <1>4. SuspendedOutsideAcquire' /\ MaskedInAcquire' /\ SpinsOnTakenLock'
    BY <1>1 DEF SuspendedOutsideAcquire, MaskedInAcquire, SpinsOnTakenLock, TypeOK
  <1>5. LeafIsInnermost'
    <2>1. \A i \in DOMAIN stack[t] : ~Leaf(stack[t][i])
      <3> SUFFICES ASSUME NEW i \in DOMAIN stack[t], Leaf(stack[t][i]) PROVE FALSE
        OBVIOUS
      <3>1. stack[t] \in Seq(Lock) /\ i = 1
        BY DEF LeafIsInnermost, TypeOK
      <3>2. stack[t] # << >> /\ Head(stack[t]) = stack[t][1]
        BY <3>1, Pop
      <3>3. << stack[t][1], l >> \in Nested
        BY <3>2 DEF call_acquire
      <3>4. QED
        BY <3>1, <3>3 DEF Leaf
    <2>2. \A u \in Thread : \A i \in DOMAIN stack[u] : ~Leaf(stack[u][i])
      BY <1>1, <2>1 DEF LeafIsInnermost
    <2>3. QED
      BY <1>1, <2>2 DEF LeafIsInnermost
  <1>6. QED
    BY <1>2, <1>3, <1>4, <1>5

\* cli
LEMMA CliStep ==
    ASSUME IInv, NEW t \in Thread, acquire_cli(t)
    PROVE  IInv'
  <1> USE DEF IInv
  <1>1. /\ cur = t /\ pc[t] = "cli"
        /\ intr' = FALSE
        /\ pc' = [pc EXCEPT ![t] = "bts"]
        /\ UNCHANGED << word, cur, want, stack, outer >>
    BY DEF acquire_cli
  <1>2. TypeOK'
    <2>1. intr' \in BOOLEAN
      BY <1>1, Zenon
    <2>2. QED
      BY <1>1, <2>1 DEF TypeOK, Label
  <1>3. MutualExclusion' /\ NoLockTwice'
    BY <1>1, SameHolders
  <1>4. SuspendedOutsideAcquire' /\ SpinsOnTakenLock'
    BY <1>1 DEF SuspendedOutsideAcquire, SpinsOnTakenLock, TypeOK
  <1>5. MaskedInAcquire'
    BY <1>1 DEF MaskedInAcquire
  <1>6. LeafIsInnermost'
    BY <1>1 DEF LeafIsInnermost, TypeOK
  <1>7. QED
    BY <1>2, <1>3, <1>4, <1>5, <1>6

\* sti
LEMMA StiStep ==
    ASSUME IInv, NEW t \in Thread, release_sti(t)
    PROVE  IInv'
  <1> USE DEF IInv
  <1>1. /\ cur = t /\ pc[t] = "sti"
        /\ intr' = TRUE
        /\ pc' = [pc EXCEPT ![t] = "run"]
        /\ UNCHANGED << word, cur, want, stack, outer >>
    BY DEF release_sti
  <1>2. TypeOK'
    <2>1. intr' \in BOOLEAN
      BY <1>1, Zenon
    <2>2. QED
      BY <1>1, <2>1 DEF TypeOK, Label
  <1>3. MutualExclusion' /\ NoLockTwice'
    BY <1>1, SameHolders
  <1>4. SuspendedOutsideAcquire' /\ SpinsOnTakenLock' /\ MaskedInAcquire'
    BY <1>1 DEF SuspendedOutsideAcquire, SpinsOnTakenLock, MaskedInAcquire, TypeOK
  <1>5. LeafIsInnermost'
    BY <1>1 DEF LeafIsInnermost, TypeOK
  <1>6. QED
    BY <1>2, <1>3, <1>4, <1>5

\* The loop: the word is still 1, so nothing changes.
LEMMA SpinStep ==
    ASSUME IInv, NEW t \in Thread, acquire_spin(t)
    PROVE  UNCHANGED vars
  <1>1. word[want[t]] = 1 /\ pc[t] = "spin"
    BY DEF IInv, SpinsOnTakenLock, acquire_spin
  <1>2. pc' = [pc EXCEPT ![t] = "spin"]
    BY <1>1 DEF acquire_spin
  <1>3. pc' = pc
    BY <1>1, <1>2 DEF IInv, TypeOK
  <1>4. QED
    BY <1>3 DEF acquire_spin, vars

\* The timer interrupt finds the thread outside every leaf section.
LEMMA TimerStep ==
    ASSUME IInv, NEW t \in Thread, timer(t)
    PROVE  IInv'
  <1> USE DEF IInv
  <1>1. /\ cur = t /\ intr
        /\ cur' = (t + 1) % N
        /\ UNCHANGED << word, intr, pc, want, stack, outer >>
    BY DEF timer
  <1>2. cur' \in Thread
    BY <1>1, NAssumption, SMTT(30) DEF Thread
  <1>3. TypeOK'
    BY <1>1, <1>2 DEF TypeOK
  <1>4. MutualExclusion' /\ NoLockTwice'
    BY <1>1, SameHolders
  <1>5. \A u \in Thread : pc[u] \in {"run", "cli", "sti"}
    BY <1>1 DEF MaskedInAcquire, SuspendedOutsideAcquire, TypeOK, Label
  <1>6. SuspendedOutsideAcquire' /\ MaskedInAcquire' /\ SpinsOnTakenLock'
    BY <1>1, <1>2, <1>5 DEF SuspendedOutsideAcquire, MaskedInAcquire, SpinsOnTakenLock
  <1>7. LeafIsInnermost'
    BY <1>1 DEF LeafIsInnermost
  <1>8. QED
    BY <1>3, <1>4, <1>6, <1>7

\* bts finds the lock free: the thread holds it, with interrupts disabled.
LEMMA TakeStep ==
    ASSUME IInv, NEW t \in Thread, acquire_bts(t), word[want[t]] = 0
    PROVE  IInv'
  <1> USE DEF IInv
  <1> DEFINE w == want[t]
             new == << w >> \o stack[t]
  <1>1. /\ cur = t /\ pc[t] = "bts"
        /\ word' = [word EXCEPT ![w] = 1]
        /\ pc' = [pc EXCEPT ![t] = "run"]
        /\ stack' = [stack EXCEPT ![t] = new]
        /\ UNCHANGED << intr, cur, want, outer >>
    BY DEF acquire_bts
  <1>2. w \in Lock /\ stack[t] \in Seq(Lock) /\ ~intr
    BY <1>1 DEF TypeOK, MaskedInAcquire
  <1>3. new \in Seq(Lock)
    BY <1>2, Push
  <1>4. TypeOK'
    BY <1>1, <1>2, <1>3 DEF TypeOK, Label
  <1>5. /\ stack'[t] = new
        /\ \A u \in Thread : u # t => stack'[u] = stack[u]
    BY <1>1 DEF TypeOK
  <1>6. \A u \in Thread : ~Holds(u, w)
    BY <1>2 DEF MutualExclusion
  <1>7. \A u \in Thread, l \in Lock :
           Holds(u, l)' <=> (Holds(u, l) \/ (u = t /\ l = w))
    <2>1. \A l \in Lock : In(new, l) <=> (l = w \/ In(stack[t], l))
      BY <1>2, PushIn
    <2>2. QED
      BY <1>5, <2>1, ZenonT(40) DEF Holds, In
  <1>8. MutualExclusion'
    <2>1. \A l \in Lock : word'[l] = IF l = w THEN 1 ELSE word[l]
      BY <1>1 DEF TypeOK
    <2>2. \A l \in Lock : word'[l] = 1 <=> \E u \in Thread : Holds(u, l)'
      BY <1>7, <2>1 DEF MutualExclusion
    <2>3. \A u, v \in Thread : u # v => \A l \in Lock : ~(Holds(u, l)' /\ Holds(v, l)')
      BY <1>6, <1>7 DEF MutualExclusion
    <2>4. QED
      BY <2>2, <2>3 DEF MutualExclusion
  <1>9. NoLockTwice'
    <2>1. NoRepeat(new)
      BY <1>2, <1>6, PushIn DEF NoLockTwice, Holds, In
    <2>2. QED
      BY <1>5, <2>1 DEF NoLockTwice, NoRepeat
  <1>10. SuspendedOutsideAcquire' /\ MaskedInAcquire' /\ SpinsOnTakenLock'
    BY <1>1, <1>2 DEF SuspendedOutsideAcquire, MaskedInAcquire, SpinsOnTakenLock, TypeOK
  <1>11. LeafIsInnermost'
    <2>1. \A u \in Thread : \A i \in DOMAIN stack[u] : ~Leaf(stack[u][i])
      BY <1>1 DEF LeafIsInnermost
    <2>2. ASSUME NEW i \in DOMAIN new, Leaf(new[i]) PROVE i = 1
      <3>1. /\ DOMAIN new = 1 .. Len(stack[t]) + 1
            /\ DOMAIN stack[t] = 1 .. Len(stack[t])
            /\ Len(stack[t]) \in Nat
            /\ \A k \in 2 .. Len(stack[t]) + 1 : new[k] = stack[t][k - 1]
        BY <1>2, Push
      <3> HIDE DEF new
      <3>2. CASE i # 1
        <4>1. i \in 2 .. Len(stack[t]) + 1 /\ i - 1 \in DOMAIN stack[t]
          BY <2>2, <3>1, <3>2
        <4>2. QED
          BY <2>1, <2>2, <3>1, <4>1
      <3>3. QED
        BY <3>2
    <2>3. pc'[t] = "run" /\ cur' = t /\ ~intr'
      BY <1>1, <1>2 DEF TypeOK
    <2> HIDE DEF new
    <2>4. QED
      BY <1>5, <2>1, <2>2, <2>3 DEF LeafIsInnermost, Leaf
  <1>12. QED
    BY <1>4, <1>8, <1>9, <1>10, <1>11

\* bts finds it taken: the word stays 1 and the loop is entered.
LEMMA MissStep ==
    ASSUME IInv, NEW t \in Thread, acquire_bts(t), word[want[t]] # 0
    PROVE  IInv'
  <1> USE DEF IInv
  <1>1. /\ cur = t /\ pc[t] = "bts"
        /\ word' = [word EXCEPT ![want[t]] = 1]
        /\ pc' = [pc EXCEPT ![t] = "spin"]
        /\ UNCHANGED << stack, intr, cur, want, outer >>
    BY DEF acquire_bts
  <1>2. want[t] \in Lock /\ word[want[t]] = 1 /\ ~intr
    BY <1>1 DEF TypeOK, MaskedInAcquire
  <1>3. word' = word
    BY <1>1, <1>2 DEF TypeOK
  <1>4. TypeOK'
    BY <1>1, <1>3 DEF TypeOK, Label
  <1>5. MutualExclusion' /\ NoLockTwice'
    BY <1>1, <1>3, SameHolders
  <1>6. SuspendedOutsideAcquire' /\ MaskedInAcquire' /\ SpinsOnTakenLock'
    BY <1>1, <1>2, <1>3 DEF SuspendedOutsideAcquire, MaskedInAcquire, SpinsOnTakenLock,
                            TypeOK
  <1>7. LeafIsInnermost'
    BY <1>1 DEF LeafIsInnermost
  <1>8. QED
    BY <1>4, <1>5, <1>6, <1>7

\* mov dword [rdi], 0
LEMMA MovStep ==
    ASSUME IInv, NEW t \in Thread, release_mov(t)
    PROVE  IInv'
  <1> USE DEF IInv
  <1> DEFINE top == Head(stack[t])
             rest == Tail(stack[t])
  <1>1. /\ cur = t /\ pc[t] = "run" /\ stack[t] # << >>
        /\ word' = [word EXCEPT ![top] = 0]
        /\ stack' = [stack EXCEPT ![t] = rest]
        /\ pc' = [pc EXCEPT ![t] = "sti"]
        /\ UNCHANGED << intr, cur, want, outer >>
    BY DEF release_mov
  <1>2. stack[t] \in Seq(Lock) /\ NoRepeat(stack[t])
    BY DEF TypeOK, NoLockTwice
  <1>3. /\ rest \in Seq(Lock) /\ top \in Lock
        /\ DOMAIN stack[t] = 1 .. Len(stack[t]) /\ Len(stack[t]) \in Nat \ {0}
        /\ DOMAIN rest = 1 .. Len(stack[t]) - 1
        /\ \A i \in 1 .. Len(stack[t]) - 1 : rest[i] = stack[t][i + 1]
    BY <1>1, <1>2, Pop
  <1>4. /\ \A l : In(rest, l) <=> (l # top /\ In(stack[t], l))
        /\ NoRepeat(rest)
        /\ In(stack[t], top)
    BY <1>1, <1>2, PopIn
  <1> HIDE DEF rest, top
  <1>5. /\ stack'[t] = rest
        /\ \A u \in Thread : u # t => stack'[u] = stack[u]
    BY <1>1 DEF TypeOK
  <1>6. TypeOK'
    BY <1>1, <1>3 DEF TypeOK, Label
  <1>7. /\ Holds(t, top)
        /\ \A u \in Thread : u # t => ~Holds(u, top)
        /\ \A u \in Thread, l \in Lock : Holds(u, l)' <=> (Holds(u, l) /\ l # top)
    <2>1. Holds(t, top)
      BY <1>4 DEF Holds, In
    <2>2. \A u \in Thread : u # t => ~Holds(u, top)
      BY <1>3, <2>1 DEF MutualExclusion
    <2>3. \A l \in Lock : Holds(t, l)' <=> (Holds(t, l) /\ l # top)
      BY <1>4, <1>5 DEF Holds, In
    <2>4. \A u \in Thread, l \in Lock : u # t => (Holds(u, l)' <=> Holds(u, l))
      BY <1>5 DEF Holds
    <2>5. \A u \in Thread, l \in Lock : u # t => (Holds(u, l) <=> (Holds(u, l) /\ l # top))
      BY <2>2
    <2>6. QED
      BY <2>1, <2>2, <2>3, <2>4, <2>5
  <1>8. MutualExclusion'
    <2>1. \A l \in Lock : word'[l] = IF l = top THEN 0 ELSE word[l]
      BY <1>1 DEF TypeOK
    <2>2. \A l \in Lock : word'[l] = 1 <=> \E u \in Thread : Holds(u, l)'
      BY <1>7, <2>1 DEF MutualExclusion
    <2>3. \A u, v \in Thread : u # v => \A l \in Lock : ~(Holds(u, l)' /\ Holds(v, l)')
      BY <1>7 DEF MutualExclusion
    <2>4. QED
      BY <2>2, <2>3 DEF MutualExclusion
  <1>9. NoLockTwice'
    BY <1>4, <1>5 DEF NoLockTwice, NoRepeat
  <1>10. SuspendedOutsideAcquire' /\ MaskedInAcquire'
    BY <1>1 DEF SuspendedOutsideAcquire, MaskedInAcquire, TypeOK
  <1>11. SpinsOnTakenLock'
    <2>1. \A u \in Thread : pc[u] # "spin"
      BY <1>1 DEF SuspendedOutsideAcquire
    <2>2. QED
      BY <1>1, <2>1 DEF SpinsOnTakenLock, TypeOK
  <1>12. LeafIsInnermost'
    <2>1. \A u \in Thread : u # t => \A i \in DOMAIN stack[u] : ~Leaf(stack[u][i])
      BY <1>1 DEF LeafIsInnermost
    <2>2. ASSUME NEW i \in DOMAIN rest PROVE ~Leaf(rest[i])
      <3>1. i + 1 \in DOMAIN stack[t] /\ i + 1 # 1 /\ rest[i] = stack[t][i + 1]
        BY <1>3, <2>2
      <3>2. QED
        BY <3>1 DEF LeafIsInnermost
    <2>3. QED
      BY <1>5, <2>1, <2>2 DEF LeafIsInnermost, Leaf
  <1>13. QED
    BY <1>6, <1>8, <1>9, <1>10, <1>11, <1>12

\* Every instruction preserves the invariant.
LEMMA NextIInv == IInv /\ [Next]_vars => IInv'
  <1> SUFFICES ASSUME IInv, [Next]_vars PROVE IInv'
    OBVIOUS
  <1>1. CASE UNCHANGED vars
    BY <1>1 DEF vars, IInv, TypeOK, MutualExclusion, Holds, NoLockTwice, NoRepeat,
                SuspendedOutsideAcquire, MaskedInAcquire, SpinsOnTakenLock,
                LeafIsInnermost, Leaf
  <1>2. ASSUME NEW t \in Thread, NEW l \in Lock, call_acquire(t, l) PROVE IInv'
    BY <1>2, CallStep
  <1>3. ASSUME NEW t \in Thread, lock_step(t) PROVE IInv'
    <2>1. CASE acquire_cli(t)
      BY <2>1, CliStep
    <2>2. CASE acquire_bts(t)
      BY <2>2, TakeStep, MissStep
    <2>3. CASE acquire_spin(t)
      BY <1>1, <2>3, SpinStep
    <2>4. CASE release_mov(t)
      BY <2>4, MovStep
    <2>5. CASE release_sti(t)
      BY <2>5, StiStep
    <2>6. QED
      BY <1>3, <2>1, <2>2, <2>3, <2>4, <2>5 DEF lock_step
  <1>4. ASSUME NEW t \in Thread, timer(t) PROVE IInv'
    BY <1>4, TimerStep
  <1>5. QED
    BY <1>1, <1>2, <1>3, <1>4 DEF Next

-----------------------------------------------------------------------------
(***************************************************************************)
(* The theorems.                                                           *)
(***************************************************************************)

\* The variables of lock.s keep their types.
THEOREM TypeCorrect == Spec => []TypeOK
  <1>1. IInv => TypeOK
    BY DEF IInv
  <1>2. QED
    BY InitIInv, NextIInv, <1>1, PTL DEF Spec

\* Each lock has at most one holder, and its word tells whether it has one
\* (lock.s:18-35), under any nesting and any interrupts.
THEOREM Exclusion == Spec => []MutualExclusion
  <1>1. IInv => MutualExclusion
    BY DEF IInv
  <1>2. QED
    BY InitIInv, NextIInv, <1>1, PTL DEF Spec

\* Sections of a leaf lock run without interruption, so their lock is never
\* found taken (pmm.c:127-130, 137-139; arch.c:109-111).
THEOREM LeafAtomic == Spec => []LeafSectionsAreAtomic
  <1>1. IInv => LeafSectionsAreAtomic
    <2> SUFFICES ASSUME IInv, NEW l \in Lock, Leaf(l)
                 PROVE  /\ \A t \in Thread : Holds(t, l) => cur = t /\ ~intr
                        /\ \A t \in Thread : pc[t] = "spin" => want[t] # l
      BY DEF LeafSectionsAreAtomic
    <2>1. \A t \in Thread : Holds(t, l) => cur = t /\ ~intr /\ pc[t] = "run"
      BY DEF IInv, LeafIsInnermost, Holds
    <2>2. ASSUME NEW t \in Thread, pc[t] = "spin" PROVE want[t] # l
      <3>1. t = cur /\ word[want[t]] = 1
        BY <2>2 DEF IInv, SuspendedOutsideAcquire, SpinsOnTakenLock
      <3>2. CASE want[t] = l
        <4>1. PICK u \in Thread : Holds(u, l)
          BY <3>1, <3>2 DEF IInv, MutualExclusion
        <4>2. u = t /\ pc[u] = "run"
          BY <2>1, <3>1, <4>1
        <4>3. QED
          BY <2>2, <4>2
      <3>3. QED
        BY <3>2
    <2>3. QED
      BY <2>1, <2>2
  <1>2. QED
    BY InitIInv, NextIInv, <1>1, PTL DEF Spec

\* Once a thread has found a lock taken, no step changes anything any more
\* (lock.s:25-29).
THEOREM FirstContentionHangs == Spec => ContentionIsFatal
  <1>1. IInv /\ [Next]_vars =>
          [(\E t \in Thread : pc[t] = "spin") => UNCHANGED vars]_vars
    <2> SUFFICES ASSUME IInv, Next, NEW t \in Thread, pc[t] = "spin"
                 PROVE  UNCHANGED vars
      BY DEF vars
    <2>1. t = cur /\ ~intr
      BY DEF IInv, SuspendedOutsideAcquire, MaskedInAcquire
    <2>2. acquire_spin(t)
      BY <2>1 DEF Next, call_acquire, lock_step, acquire_cli, acquire_bts, acquire_spin,
                  release_mov, release_sti, timer
    <2>3. QED
      BY <2>2, SpinStep
  <1>2. QED
    BY InitIInv, NextIInv, <1>1, PTL DEF Spec, ContentionIsFatal
=============================================================================
