------------------------------ MODULE IpcProofs ------------------------------
(***************************************************************************)
(* What holds of Ipc in every run, for any number of processes and any     *)
(* number of sends: the types, and that no pop meets an empty mailbox,     *)
(* races and freed blocks included.  IpcOrderlyProofs goes on from here.   *)
(***************************************************************************)
EXTENDS Ipc, FiniteSetTheorems, SequenceTheorems, TLAPS

USE ProcAssumption, MortalAssumption, MaxSendsAssumption

(***************************************************************************)
(* What holds whether or not two actors meet in a mailbox.                 *)
(***************************************************************************)
LocType == [to : Proc \cup {0}, msg : Message \cup {Unwritten},
            n : Nat, old : Blocks \cup {Null}, real : Nat,
            new : Blocks \cup {Null}, i : Cell]

CallTyped ==
    /\ pc \in [Proc -> {"user", "wait", "exited"} \cup PushLabel \cup PopLabel]
    /\ loc \in [Proc -> LocType]

BoxTyped ==
    /\ data \in [Proc -> Blocks \cup {Null}]
    /\ length \in [Proc -> Cell] /\ capacity \in [Proc -> Nat]

HeapTyped ==
    /\ size \in [Blocks -> Nat]
    /\ cells \in [Blocks -> [Cell -> Message \cup {Unwritten}]]

RestTyped ==
    /\ alive \subseteq Proc
    /\ count \in 0 .. MaxSends
    /\ got \in [Proc -> Seq(Message \cup {Unwritten})]
    /\ status \in {"running", "panic_receiver", "panic_ptr", "overrun"}
    /\ raced \in BOOLEAN /\ stolen \in BOOLEAN

\* The parts make up the whole, before and after a step.
LEMMA TypeParts ==
    /\ TypeOK <=> CallTyped /\ BoxTyped /\ HeapTyped /\ RestTyped
    /\ TypeOK' <=> CallTyped' /\ BoxTyped' /\ HeapTyped' /\ RestTyped'
  <1>1. TypeOK <=> CallTyped /\ BoxTyped /\ HeapTyped /\ RestTyped
    BY DEF TypeOK, CallTyped, BoxTyped, HeapTyped, RestTyped, LocType
  <1>2. TypeOK' <=> CallTyped' /\ BoxTyped' /\ HeapTyped' /\ RestTyped'
    BY DEF TypeOK, CallTyped, BoxTyped, HeapTyped, RestTyped, LocType
  <1>3. QED
    BY <1>1, <1>2

\* A push knows its receiver, asks for memory, and leaves a block behind.
PointersAt(q) ==
    /\ pc[q] \in PushLabel => loc[q].to \in Proc
    /\ pc[q] \in {"realloc", "malloc", "copy", "free", "data", "capacity"} => loc[q].n > 0
    /\ pc[q] \in {"copy", "free"} => loc[q].old # Null
    /\ pc[q] \in {"copy", "free", "data"} => loc[q].new # Null
    /\ pc[q] \in {"capacity", "load", "length", "slot"} => data[loc[q].to] # Null
    /\ pc[q] \in PopLabel => data[q] # Null

\* A mailbox with room has a block.
HasBlock(q) == capacity[q] > 0 \/ length[q] > 0 => data[q] # Null

Pointers == \A q \in Proc : PointersAt(q) /\ HasBlock(q)

\* The pushes that have not yet stored the new length.
Pending == {q \in Proc : pc[q] \in PushLabel \ {"slot"}}

\* No length, stored or about to be, exceeds the messages sent.
Bounded ==
    /\ IsFiniteSet(Pending)
    /\ \A q \in Proc :
         /\ length[q] + Cardinality(Pending) <= count
         /\ pc[q] \in {"length", "pop_length"} => loc[q].i + Cardinality(Pending) <= count

AnyInv == TypeOK /\ Pointers /\ Bounded /\ PopNeverUnderflows

-----------------------------------------------------------------------------
(***************************************************************************)
(* What each step of a call does, point by point.                          *)
(***************************************************************************)
Others(p) == \A q \in Proc \ {p} : pc'[q] = pc[q] /\ loc'[q] = loc[q]

\* A step of p to a label that leaves the local variables alone.
LEMMA Move ==
    ASSUME CallTyped, NEW p \in Proc,
           NEW l \in {"user", "wait", "exited"} \cup PushLabel \cup PopLabel,
           Goto(p, l), UNCHANGED loc
    PROVE  CallTyped' /\ Others(p) /\ pc'[p] = l /\ loc'[p] = loc[p]
  BY DEF CallTyped, Goto, Others

\* A step of p to a label with new local variables.
LEMMA MoveWith ==
    ASSUME CallTyped, NEW p \in Proc,
           NEW l \in {"user", "wait", "exited"} \cup PushLabel \cup PopLabel,
           Goto(p, l), NEW v \in LocType, loc' = [loc EXCEPT ![p] = v]
    PROVE  CallTyped' /\ Others(p) /\ pc'[p] = l /\ loc'[p] = v
  BY DEF CallTyped, Goto, Others

\* The local variables a call starts with have their type.
LEMMA LocalTyped == Local \in LocType
  BY DEF Local, LocType, Null, Cell

\* The fields of the local variables and what assignments to them do.
LEMMA Fields ==
    ASSUME NEW v \in LocType
    PROVE  /\ v.to \in Proc \cup {0} /\ v.msg \in Message \cup {Unwritten}
           /\ v.n \in Nat /\ v.real \in Nat /\ v.i \in Cell
           /\ v.old \in Blocks \cup {Null} /\ v.new \in Blocks \cup {Null}
           /\ \A x \in Nat : [v EXCEPT !.n = x] \in LocType /\ [v EXCEPT !.real = x] \in LocType
           /\ \A x \in Cell : [v EXCEPT !.i = x] \in LocType
           /\ \A x \in Blocks \cup {Null} :
                [v EXCEPT !.old = x] \in LocType /\ [v EXCEPT !.new = x] \in LocType
  BY DEF LocType

\* What syscall_ipcsend does.
Does_syscall_ipcsend(p, r) ==
    /\ CallTyped' /\ Others(p) /\ pc[p] = "user" /\ count' = count + 1
    /\ count' \in 1 .. MaxSends
    /\ \/ /\ r \in alive /\ pc'[p] = "expand" /\ status' = status
          /\ loc'[p].to = r
          /\ loc'[p].msg = [sender |-> p, receiver |-> r, number |-> count']
          /\ loc'[p].msg \in Message
          /\ loc'[p].new = Null /\ loc'[p].old = Null
          /\ raced' = (raced \/ Inside(r) # {})
       \/ /\ r \notin alive /\ status' = "panic_receiver"
          /\ UNCHANGED << pc, loc, raced >>
    /\ status = "running"
    /\ UNCHANGED << alive, data, length, capacity, size, cells, got, stolen >>

\* A step of syscall_ipcsend has the effect stated above.
LEMMA Eff_syscall_ipcsend ==
    ASSUME CallTyped, RestTyped, NEW p \in Proc, NEW r \in Proc, syscall_ipcsend(p, r)
    PROVE  Does_syscall_ipcsend(p, r)
  <1> USE DEF Does_syscall_ipcsend
  <1>0. /\ status = "running"
        /\ UNCHANGED << alive, data, length, capacity, size, cells, got, stolen >>
    BY DEF syscall_ipcsend, At, box_vars, heap_vars
  <1> USE <1>0
  <1> DEFINE m == [sender |-> p, receiver |-> r, number |-> count']
             v == [Local EXCEPT !.to = r, !.msg = m]
  <1>1. count' = count + 1 /\ count' \in 1 .. MaxSends /\ pc[p] = "user"
    BY DEF syscall_ipcsend, At, RestTyped
  <1>2. CASE r \notin alive
    BY <1>1, <1>2 DEF syscall_ipcsend, CallTyped, Others
  <1>3. CASE r \in alive
    <2>1. m \in Message
      BY <1>1 DEF Message
    <2> HIDE DEF m
    <2>2. v \in LocType /\ v.to = r /\ v.msg = m /\ v.new = Null /\ v.old = Null
      <3>1. Local \in LocType
        BY LocalTyped
      <3>2. QED
        BY <2>1, <3>1 DEF LocType, Local
    <2>3. loc' = [loc EXCEPT ![p] = v] /\ Goto(p, "expand") /\ status' = status
          /\ raced' = (raced \/ Inside(r) # {})
      BY <1>3 DEF syscall_ipcsend, Enter, m
    <2> HIDE DEF v
    <2>4. CallTyped' /\ Others(p) /\ pc'[p] = "expand" /\ loc'[p] = v
      BY <2>2, <2>3, MoveWith DEF PushLabel
    <2>5. QED
      BY <1>1, <1>3, <2>1, <2>2, <2>3, <2>4 DEF m
  <1>4. QED
    BY <1>2, <1>3

\* What vec_expand_ does.
Does_vec_expand_(p) ==
    LET r == loc[p].to
    IN  /\ CallTyped' /\ Others(p) /\ pc[p] = "expand" /\ r \in Proc
        /\ loc'[p].to = r /\ loc'[p].msg = loc[p].msg /\ loc'[p].new = loc[p].new
        /\ \/ /\ length[r] + 1 > capacity[r]
              /\ pc'[p] = "realloc"
              /\ loc'[p].n = IF capacity[r] = 0 THEN 1 ELSE 2 * capacity[r]
              /\ loc'[p].old = data[r]
           \/ /\ ~(length[r] + 1 > capacity[r])
              /\ pc'[p] = "load" /\ loc'[p] = loc[p]
        /\ status = "running"
        /\ UNCHANGED << alive, data, length, capacity, size, cells, count, got, status,
                        raced, stolen >>

\* A step of vec_expand_ has the effect stated above.
LEMMA Eff_vec_expand_ ==
    ASSUME CallTyped, BoxTyped, Pointers, NEW p \in Proc, vec_expand_(p)
    PROVE  Does_vec_expand_(p)
  <1> USE DEF Does_vec_expand_
  <1>0. /\ status = "running"
        /\ UNCHANGED << alive, data, length, capacity, size, cells, count, got, status,
                        raced, stolen >>
    BY DEF vec_expand_, At, box_vars, heap_vars
  <1> USE <1>0
  <1> DEFINE r == loc[p].to
             g == IF capacity[r] = 0 THEN 1 ELSE 2 * capacity[r]
             v == [[loc[p] EXCEPT !.n = g] EXCEPT !.old = data[r]]
  <1>1. pc[p] = "expand" /\ r \in Proc /\ loc[p] \in LocType
    BY DEF vec_expand_, At, Pointers, PointersAt, PushLabel, CallTyped
  <1>2. capacity[r] \in Nat /\ data[r] \in Blocks \cup {Null}
    BY <1>1 DEF BoxTyped
  <1>a. g \in Nat
    BY <1>2
  <1>3. CASE length[r] + 1 > capacity[r]
    <2> HIDE DEF g
    <2>1. v \in LocType
      BY <1>1, <1>2, <1>a, Fields
    <2>2. v.to = r /\ v.msg = loc[p].msg /\ v.new = loc[p].new /\ v.n = g /\ v.old = data[r]
      BY <1>1 DEF LocType
    <2>3. loc' = [loc EXCEPT ![p] = v] /\ Goto(p, "realloc")
      BY <1>3 DEF vec_expand_, g, CallTyped
    <2> HIDE DEF v
    <2>4. CallTyped' /\ Others(p) /\ pc'[p] = "realloc" /\ loc'[p] = v
      BY <2>1, <2>3, MoveWith DEF PushLabel
    <2>5. QED
      BY <1>1, <1>3, <2>2, <2>4 DEF g
  <1>4. CASE ~(length[r] + 1 > capacity[r])
    BY <1>1, <1>4, Move DEF vec_expand_, PushLabel
  <1>5. QED
    BY <1>3, <1>4

\* What realloc does.
Does_realloc(p) ==
    LET r == loc[p].to
        old == loc[p].old
        real == IF old = Null THEN 0 ELSE size[old]
    IN  /\ CallTyped' /\ Others(p) /\ pc[p] = "realloc" /\ r \in Proc
        /\ loc'[p].to = r /\ loc'[p].msg = loc[p].msg /\ loc'[p].n = loc[p].n
        /\ loc'[p].old = old /\ loc'[p].i = loc[p].i /\ real \in Nat
        /\ \/ /\ old # Null /\ real = 0 /\ status' = "panic_ptr"
              /\ UNCHANGED << pc, loc, size >>
           \/ /\ real >= loc[p].n /\ old \in Blocks /\ pc'[p] = "data"
              /\ size' = [size EXCEPT ![old] = loc[p].n]
              /\ loc'[p].new = old /\ UNCHANGED status
           \/ /\ real < loc[p].n /\ (old # Null => real # 0) /\ pc'[p] = "malloc"
              /\ loc'[p].real = real /\ loc'[p].new = loc[p].new
              /\ UNCHANGED << size, status >>
        /\ status = "running"
        /\ UNCHANGED << alive, data, length, capacity, cells, count, got, raced, stolen >>

\* A step of realloc has the effect stated above.
LEMMA Eff_realloc ==
    ASSUME CallTyped, HeapTyped, Pointers, NEW p \in Proc, realloc(p)
    PROVE  Does_realloc(p)
  <1> USE DEF Does_realloc
  <1>0. /\ status = "running"
        /\ UNCHANGED << alive, data, length, capacity, cells, count, got, raced, stolen >>
    BY DEF realloc, At, box_vars, heap_vars
  <1> USE <1>0
  <1> DEFINE old == loc[p].old
             real == IF old = Null THEN 0 ELSE size[old]
             v == [loc[p] EXCEPT !.new = old]
             w == [loc[p] EXCEPT !.real = real]
  <1>1. pc[p] = "realloc" /\ loc[p].to \in Proc /\ loc[p] \in LocType /\ loc[p].n > 0
    BY DEF realloc, At, Pointers, PointersAt, PushLabel, CallTyped
  <1>2. old \in Blocks \cup {Null} /\ real \in Nat /\ loc[p].n \in Nat
    BY <1>1, Fields DEF HeapTyped
  <1>3. v \in LocType /\ w \in LocType
    BY <1>1, <1>2, Fields
  <1>4. /\ v.to = loc[p].to /\ v.msg = loc[p].msg /\ v.n = loc[p].n /\ v.old = old
        /\ v.new = old /\ v.i = loc[p].i
        /\ w.to = loc[p].to /\ w.msg = loc[p].msg /\ w.n = loc[p].n /\ w.old = old
        /\ w.new = loc[p].new /\ w.i = loc[p].i /\ w.real = real
    BY <1>1 DEF LocType
  <1>5. CASE old # Null /\ real = 0 /\ status' = "panic_ptr" /\ UNCHANGED << pc, loc,
                                                                             size >>
    BY <1>1, <1>2, <1>5 DEF CallTyped, Others
  <1>6. CASE real >= loc[p].n /\ size' = [size EXCEPT ![old] = loc[p].n]
             /\ loc' = [loc EXCEPT ![p].new = old] /\ Goto(p, "data") /\ UNCHANGED status
    <2>1. old \in Blocks
      BY <1>1, <1>2, <1>6
    <2>2. loc' = [loc EXCEPT ![p] = v]
      BY <1>6
    <2> HIDE DEF v
    <2>3. CallTyped' /\ Others(p) /\ pc'[p] = "data" /\ loc'[p] = v
      BY <1>3, <1>6, <2>2, MoveWith DEF PushLabel
    <2>4. QED
      BY <1>1, <1>2, <1>4, <1>6, <2>1, <2>3
  <1>7. CASE real < loc[p].n /\ ~(old # Null /\ real = 0)
             /\ loc' = [loc EXCEPT ![p].real = real] /\ Goto(p, "malloc")
             /\ UNCHANGED << size, status >>
    <2>1. loc' = [loc EXCEPT ![p] = w]
      BY <1>7
    <2> HIDE DEF w
    <2>2. CallTyped' /\ Others(p) /\ pc'[p] = "malloc" /\ loc'[p] = w
      BY <1>3, <1>7, <2>1, MoveWith DEF PushLabel
    <2>3. QED
      BY <1>1, <1>2, <1>4, <1>7, <2>2
  <1>8. QED
    BY <1>5, <1>6, <1>7 DEF realloc

\* What realloc_malloc does.
Does_realloc_malloc(p) ==
    /\ CallTyped' /\ Others(p) /\ pc[p] = "malloc" /\ loc[p].to \in Proc
    /\ \E b \in Blocks :
         /\ size[b] = 0 /\ loc'[p].new = b
         /\ size' = [size EXCEPT ![b] = loc[p].n]
         /\ cells' = [cells EXCEPT ![b] = [i \in Cell |-> Unwritten]]
    /\ loc'[p].to = loc[p].to /\ loc'[p].msg = loc[p].msg /\ loc'[p].n = loc[p].n
    /\ loc'[p].old = loc[p].old /\ loc'[p].real = loc[p].real /\ loc'[p].i = loc[p].i
    /\ pc'[p] = IF loc[p].old = Null THEN "data" ELSE "copy"
    /\ status = "running"
    /\ UNCHANGED << alive, data, length, capacity, count, got, status, raced, stolen >>

\* A step of realloc_malloc has the effect stated above.
LEMMA Eff_realloc_malloc ==
    ASSUME CallTyped, HeapTyped, Pointers, NEW p \in Proc, realloc_malloc(p)
    PROVE  Does_realloc_malloc(p)
  <1> USE DEF Does_realloc_malloc
  <1>0. /\ status = "running"
        /\ UNCHANGED << alive, data, length, capacity, count, got, status, raced, stolen >>
    BY DEF realloc_malloc, At, box_vars, heap_vars
  <1> USE <1>0
  <1>1. pc[p] = "malloc" /\ loc[p].to \in Proc /\ loc[p] \in LocType
    BY DEF realloc_malloc, At, Pointers, PointersAt, PushLabel, CallTyped
  <1>2. PICK b \in malloc_choices :
          /\ size' = [size EXCEPT ![b] = loc[p].n]
          /\ cells' = [cells EXCEPT ![b] = [i \in Cell |-> Unwritten]]
          /\ loc' = [loc EXCEPT ![p].new = b]
    BY DEF realloc_malloc
  <1>3. b \in Blocks /\ size[b] = 0
    BY DEF malloc_choices, Fresh
  <1> DEFINE v == [loc[p] EXCEPT !.new = b]
  <1>4. v \in LocType
    BY <1>1, <1>3, Fields
  <1>5. /\ v.to = loc[p].to /\ v.msg = loc[p].msg /\ v.n = loc[p].n /\ v.old = loc[p].old
        /\ v.new = b /\ v.i = loc[p].i /\ v.real = loc[p].real
    BY <1>1 DEF LocType
  <1>6. loc' = [loc EXCEPT ![p] = v]
    BY <1>2
  <1> HIDE DEF v
  <1>7. CallTyped' /\ Others(p) /\ loc'[p] = v
        /\ pc'[p] = IF loc[p].old = Null THEN "data" ELSE "copy"
    BY <1>4, <1>6, MoveWith DEF PushLabel, realloc_malloc
  <1>8. QED
    BY <1>1, <1>2, <1>3, <1>5, <1>7

\* What realloc_copy does.
Does_realloc_copy(p) ==
    /\ CallTyped' /\ Others(p) /\ pc[p] = "copy" /\ pc'[p] = "free" /\ loc' = loc
    /\ loc[p].to \in Proc /\ loc[p].new \in Blocks /\ loc[p].old \in Blocks
    /\ cells' = [cells EXCEPT ![loc[p].new] =
           [i \in Cell |-> IF i < loc[p].real THEN cells[loc[p].old][i]
                                              ELSE cells[loc[p].new][i]]]
    /\ status = "running"
    /\ UNCHANGED << alive, data, length, capacity, size, count, got, status, raced,
                    stolen >>

\* A step of realloc_copy has the effect stated above.
LEMMA Eff_realloc_copy ==
    ASSUME CallTyped, HeapTyped, Pointers, NEW p \in Proc, realloc_copy(p)
    PROVE  Does_realloc_copy(p)
  <1> USE DEF Does_realloc_copy
  <1>0. /\ status = "running"
        /\ UNCHANGED << alive, data, length, capacity, size, count, got, status, raced,
                        stolen >>
    BY DEF realloc_copy, At, box_vars, heap_vars
  <1> USE <1>0
  <1>1. pc[p] = "copy" /\ loc[p].to \in Proc /\ loc[p] \in LocType
        /\ loc[p].old # Null /\ loc[p].new # Null
    BY DEF realloc_copy, At, Pointers, PointersAt, PushLabel, CallTyped
  <1>2. CallTyped' /\ Others(p) /\ pc'[p] = "free" /\ loc' = loc
    BY Move DEF realloc_copy, PushLabel
  <1>3. loc[p].new \in Blocks /\ loc[p].old \in Blocks
    BY <1>1, Fields
  <1>4. QED
    BY <1>1, <1>2, <1>3 DEF realloc_copy, HeapTyped

\* What realloc_free does.
Does_realloc_free(p) ==
    /\ CallTyped' /\ Others(p) /\ pc[p] = "free" /\ pc'[p] = "data" /\ loc' = loc
    /\ loc[p].to \in Proc /\ loc[p].new \in Blocks /\ loc[p].old \in Blocks
    /\ size' = FreedSize(loc[p].old)
    /\ status = "running"
    /\ UNCHANGED << alive, data, length, capacity, cells, count, got, status, raced,
                    stolen >>

\* A step of realloc_free has the effect stated above.
LEMMA Eff_realloc_free ==
    ASSUME CallTyped, Pointers, NEW p \in Proc, realloc_free(p)
    PROVE  Does_realloc_free(p)
  <1> USE DEF Does_realloc_free
  <1>0. /\ status = "running"
        /\ UNCHANGED << alive, data, length, capacity, cells, count, got, status, raced,
                        stolen >>
    BY DEF realloc_free, At, box_vars, heap_vars
  <1> USE <1>0
  <1>1. pc[p] = "free" /\ loc[p].to \in Proc /\ loc[p] \in LocType
        /\ loc[p].old # Null /\ loc[p].new # Null
    BY DEF realloc_free, At, Pointers, PointersAt, PushLabel, CallTyped
  <1>2. CallTyped' /\ Others(p) /\ pc'[p] = "data" /\ loc' = loc
    BY Move DEF realloc_free, PushLabel
  <1>3. loc[p].new \in Blocks /\ loc[p].old \in Blocks
    BY <1>1, Fields
  <1>4. QED
    BY <1>1, <1>2, <1>3 DEF realloc_free

\* What vec_expand_data does.
Does_vec_expand_data(p) ==
    LET r == loc[p].to
    IN  /\ CallTyped' /\ Others(p) /\ pc[p] = "data" /\ pc'[p] = "capacity" /\ r \in Proc
        /\ loc[p].new \in Blocks
        /\ loc'[p].to = r /\ loc'[p].msg = loc[p].msg /\ loc'[p].n = loc[p].n
        /\ loc'[p].new = Null
        /\ data' = [data EXCEPT ![r] = loc[p].new]
        /\ data'[r] = loc[p].new /\ \A s \in Proc \ {r} : data'[s] = data[s]
        /\ status = "running"
        /\ UNCHANGED << alive, length, capacity, size, cells, count, got, status, raced,
                        stolen >>

\* A step of vec_expand_data has the effect stated above.
LEMMA Eff_vec_expand_data ==
    ASSUME CallTyped, BoxTyped, Pointers, NEW p \in Proc, vec_expand_data(p)
    PROVE  Does_vec_expand_data(p)
  <1> USE DEF Does_vec_expand_data
  <1>0. /\ status = "running"
        /\ UNCHANGED << alive, length, capacity, size, cells, count, got, status, raced,
                        stolen >>
    BY DEF vec_expand_data, At, box_vars, heap_vars
  <1> USE <1>0
  <1> DEFINE v == [[[loc[p] EXCEPT !.old = Null] EXCEPT !.real = 0] EXCEPT !.new = Null]
  <1>1. pc[p] = "data" /\ loc[p].to \in Proc /\ loc[p] \in LocType /\ loc[p].new # Null
    BY DEF vec_expand_data, At, Pointers, PointersAt, PushLabel, CallTyped
  <1>2. loc[p].new \in Blocks
    BY <1>1, Fields
  <1>3. v \in LocType
    BY <1>1, Fields
  <1>4. v.to = loc[p].to /\ v.msg = loc[p].msg /\ v.n = loc[p].n /\ v.new = Null
    BY <1>1 DEF LocType
  <1>5. loc' = [loc EXCEPT ![p] = v]
    BY DEF vec_expand_data, CallTyped
  <1> HIDE DEF v
  <1>6. CallTyped' /\ Others(p) /\ pc'[p] = "capacity" /\ loc'[p] = v
    BY <1>3, <1>5, MoveWith DEF vec_expand_data, PushLabel
  <1>7. /\ data' = [data EXCEPT ![loc[p].to] = loc[p].new]
        /\ data'[loc[p].to] = loc[p].new /\ \A s \in Proc \ {loc[p].to} : data'[s] = data[s]
    BY <1>1 DEF vec_expand_data, BoxTyped
  <1>8. QED
    BY <1>1, <1>2, <1>4, <1>6, <1>7

\* What vec_expand_capacity does.
Does_vec_expand_capacity(p) ==
    LET r == loc[p].to
    IN  /\ CallTyped' /\ Others(p) /\ pc[p] = "capacity" /\ pc'[p] = "load" /\ r \in Proc
        /\ loc'[p].to = r /\ loc'[p].msg = loc[p].msg /\ loc'[p].new = loc[p].new
        /\ capacity' = [capacity EXCEPT ![r] = loc[p].n]
        /\ capacity'[r] = loc[p].n /\ loc[p].n \in Nat
        /\ \A s \in Proc \ {r} : capacity'[s] = capacity[s]
        /\ status = "running"
        /\ UNCHANGED << alive, data, length, size, cells, count, got, status, raced,
                        stolen >>

\* A step of vec_expand_capacity has the effect stated above.
LEMMA Eff_vec_expand_capacity ==
    ASSUME CallTyped, BoxTyped, Pointers, NEW p \in Proc, vec_expand_capacity(p)
    PROVE  Does_vec_expand_capacity(p)
  <1> USE DEF Does_vec_expand_capacity
  <1>0. /\ status = "running"
        /\ UNCHANGED << alive, data, length, size, cells, count, got, status, raced,
                        stolen >>
    BY DEF vec_expand_capacity, At, box_vars, heap_vars
  <1> USE <1>0
  <1> DEFINE v == [loc[p] EXCEPT !.n = 0]
  <1>1. pc[p] = "capacity" /\ loc[p].to \in Proc /\ loc[p] \in LocType
    BY DEF vec_expand_capacity, At, Pointers, PointersAt, PushLabel, CallTyped
  <1>2. v \in LocType /\ loc[p].n \in Nat
    BY <1>1, Fields
  <1>3. v.to = loc[p].to /\ v.msg = loc[p].msg /\ v.new = loc[p].new
    BY <1>1 DEF LocType
  <1>4. loc' = [loc EXCEPT ![p] = v]
    BY DEF vec_expand_capacity
  <1> HIDE DEF v
  <1>5. CallTyped' /\ Others(p) /\ pc'[p] = "load" /\ loc'[p] = v
    BY <1>2, <1>4, MoveWith DEF vec_expand_capacity, PushLabel
  <1>6. /\ capacity' = [capacity EXCEPT ![loc[p].to] = loc[p].n]
        /\ capacity'[loc[p].to] = loc[p].n
        /\ \A s \in Proc \ {loc[p].to} : capacity'[s] = capacity[s]
    BY <1>1 DEF vec_expand_capacity, BoxTyped
  <1>7. QED
    BY <1>1, <1>2, <1>3, <1>5, <1>6

\* What vec_push_load does.
Does_vec_push_load(p) ==
    LET r == loc[p].to
    IN  /\ CallTyped' /\ Others(p) /\ pc[p] = "load" /\ pc'[p] = "length" /\ r \in Proc
        /\ loc'[p].to = r /\ loc'[p].msg = loc[p].msg /\ loc'[p].new = loc[p].new
        /\ loc'[p].i = length[r]
        /\ status = "running"
        /\ UNCHANGED << alive, data, length, capacity, size, cells, count, got, status,
                        raced, stolen >>

\* A step of vec_push_load has the effect stated above.
LEMMA Eff_vec_push_load ==
    ASSUME CallTyped, BoxTyped, Pointers, NEW p \in Proc, vec_push_load(p)
    PROVE  Does_vec_push_load(p)
  <1> USE DEF Does_vec_push_load
  <1>0. /\ status = "running"
        /\ UNCHANGED << alive, data, length, capacity, size, cells, count, got, status,
                        raced, stolen >>
    BY DEF vec_push_load, At, box_vars, heap_vars
  <1> USE <1>0
  <1> DEFINE v == [loc[p] EXCEPT !.i = length[loc[p].to]]
  <1>1. pc[p] = "load" /\ loc[p].to \in Proc /\ loc[p] \in LocType
    BY DEF vec_push_load, At, Pointers, PointersAt, PushLabel, CallTyped
  <1>2. length[loc[p].to] \in Cell
    BY <1>1 DEF BoxTyped
  <1>3. v \in LocType
    BY <1>1, <1>2, Fields
  <1>4. /\ v.to = loc[p].to /\ v.msg = loc[p].msg /\ v.new = loc[p].new
        /\ v.i = length[loc[p].to]
    BY <1>1 DEF LocType
  <1>5. loc' = [loc EXCEPT ![p] = v]
    BY DEF vec_push_load
  <1> HIDE DEF v
  <1>6. CallTyped' /\ Others(p) /\ pc'[p] = "length" /\ loc'[p] = v
    BY <1>3, <1>5, MoveWith DEF vec_push_load, PushLabel
  <1>7. QED
    BY <1>1, <1>4, <1>6

\* What vec_push_length does.
Does_vec_push_length(p) ==
    LET r == loc[p].to
    IN  /\ CallTyped' /\ Others(p) /\ pc[p] = "length" /\ pc'[p] = "slot" /\ r \in Proc
        /\ loc' = loc /\ loc[p].i \in Cell
        /\ length' = [length EXCEPT ![r] = loc[p].i + 1]
        /\ length'[r] = loc[p].i + 1 /\ \A s \in Proc \ {r} : length'[s] = length[s]
        /\ status = "running"
        /\ UNCHANGED << alive, data, capacity, size, cells, count, got, status, raced,
                        stolen >>

\* A step of vec_push_length has the effect stated above.
LEMMA Eff_vec_push_length ==
    ASSUME CallTyped, BoxTyped, Pointers, NEW p \in Proc, vec_push_length(p)
    PROVE  Does_vec_push_length(p)
  <1> USE DEF Does_vec_push_length
  <1>0. /\ status = "running"
        /\ UNCHANGED << alive, data, capacity, size, cells, count, got, status, raced,
                        stolen >>
    BY DEF vec_push_length, At, box_vars, heap_vars
  <1> USE <1>0
  <1>1. pc[p] = "length" /\ loc[p].to \in Proc /\ loc[p] \in LocType
    BY DEF vec_push_length, At, Pointers, PointersAt, PushLabel, CallTyped
  <1>2. CallTyped' /\ Others(p) /\ pc'[p] = "slot" /\ loc' = loc
    BY Move DEF vec_push_length, PushLabel
  <1>3. /\ length' = [length EXCEPT ![loc[p].to] = loc[p].i + 1]
        /\ length'[loc[p].to] = loc[p].i + 1 /\ \A s \in Proc \ {loc[p].to} : length'[s] = length[s]
    BY <1>1 DEF vec_push_length, BoxTyped
  <1>4. QED
    BY <1>1, <1>2, <1>3, Fields

\* What vec_push_slot does.
Does_vec_push_slot(p) ==
    LET r == loc[p].to
    IN  /\ CallTyped' /\ Others(p) /\ pc[p] = "slot" /\ pc'[p] = "user" /\ r \in Proc
        /\ loc'[p].new = Null
        /\ data[r] \in Blocks /\ loc[p].i \in Cell /\ loc[p].msg \in Message \cup {Unwritten}
        /\ \/ /\ loc[p].i < capacity[r] /\ UNCHANGED status
              /\ cells' = [cells EXCEPT ![data[r]][loc[p].i] = loc[p].msg]
           \/ loc[p].i >= capacity[r] /\ status' = "overrun" /\ UNCHANGED cells
        /\ status = "running"
        /\ UNCHANGED << alive, data, length, capacity, size, count, got, raced, stolen >>

\* A step of vec_push_slot has the effect stated above.
LEMMA Eff_vec_push_slot ==
    ASSUME CallTyped, BoxTyped, Pointers, NEW p \in Proc, vec_push_slot(p)
    PROVE  Does_vec_push_slot(p)
  <1> USE DEF Does_vec_push_slot
  <1>0. /\ status = "running"
        /\ UNCHANGED << alive, data, length, capacity, size, count, got, raced, stolen >>
    BY DEF vec_push_slot, At, box_vars, heap_vars
  <1> USE <1>0
  <1>1. pc[p] = "slot" /\ loc[p].to \in Proc /\ loc[p] \in LocType /\ data[loc[p].to] # Null
    BY DEF vec_push_slot, At, Pointers, PointersAt, PushLabel, CallTyped
  <1>2. CallTyped' /\ Others(p) /\ pc'[p] = "user" /\ loc'[p] = Local
    BY LocalTyped, MoveWith DEF vec_push_slot
  <1>3. data[loc[p].to] \in Blocks /\ capacity[loc[p].to] \in Nat
    BY <1>1 DEF BoxTyped
  <1>4. loc[p].i \in Cell /\ loc[p].i \in Nat /\ loc[p].msg \in Message \cup {Unwritten}
    BY <1>1, Fields DEF Cell
  <1>5. QED
    BY <1>1, <1>2, <1>3, <1>4 DEF vec_push_slot, Local

\* What vec_pop_load does.
Does_vec_pop_load(p) ==
    /\ CallTyped' /\ Others(p) /\ pc[p] = "pop_load" /\ pc'[p] = "pop_length"
    /\ loc'[p].new = loc[p].new /\ loc'[p].i = length[p] - 1 /\ length[p] > 0
    /\ status = "running"
    /\ UNCHANGED << alive, data, length, capacity, size, cells, count, got, status, raced,
                    stolen >>

\* A step of vec_pop_load has the effect stated above.
LEMMA Eff_vec_pop_load ==
    ASSUME CallTyped, BoxTyped, PopNeverUnderflows, NEW p \in Proc, vec_pop_load(p)
    PROVE  Does_vec_pop_load(p)
  <1> USE DEF Does_vec_pop_load
  <1>0. /\ status = "running"
        /\ UNCHANGED << alive, data, length, capacity, size, cells, count, got, status,
                        raced, stolen >>
    BY DEF vec_pop_load, At, box_vars, heap_vars
  <1> USE <1>0
  <1> DEFINE v == [loc[p] EXCEPT !.i = length[p] - 1]
  <1>1. pc[p] = "pop_load" /\ loc[p] \in LocType /\ length[p] > 0
    BY DEF vec_pop_load, At, PopNeverUnderflows, CallTyped
  <1>2. length[p] - 1 \in Cell
    BY <1>1 DEF BoxTyped, Cell
  <1>3. v \in LocType
    BY <1>1, <1>2, Fields
  <1>4. v.i = length[p] - 1 /\ v.new = loc[p].new
    BY <1>1 DEF LocType
  <1>5. loc' = [loc EXCEPT ![p] = v]
    BY DEF vec_pop_load
  <1> HIDE DEF v
  <1>6. CallTyped' /\ Others(p) /\ pc'[p] = "pop_length" /\ loc'[p] = v
    BY <1>3, <1>5, MoveWith DEF vec_pop_load, PopLabel
  <1>7. QED
    BY <1>1, <1>4, <1>6

\* What vec_pop_length does.
Does_vec_pop_length(p) ==
    /\ CallTyped' /\ Others(p) /\ pc[p] = "pop_length" /\ pc'[p] = "pop_read" /\ loc' = loc
    /\ loc[p].i \in Cell /\ length' = [length EXCEPT ![p] = loc[p].i] /\ length'[p] = loc[p].i
    /\ \A s \in Proc \ {p} : length'[s] = length[s]
    /\ status = "running"
    /\ UNCHANGED << alive, data, capacity, size, cells, count, got, status, raced, stolen >>

\* A step of vec_pop_length has the effect stated above.
LEMMA Eff_vec_pop_length ==
    ASSUME CallTyped, BoxTyped, NEW p \in Proc, vec_pop_length(p)
    PROVE  Does_vec_pop_length(p)
  <1> USE DEF Does_vec_pop_length
  <1>0. /\ status = "running"
        /\ UNCHANGED << alive, data, capacity, size, cells, count, got, status, raced,
                        stolen >>
    BY DEF vec_pop_length, At, box_vars, heap_vars
  <1> USE <1>0
  <1>1. pc[p] = "pop_length" /\ loc[p] \in LocType
    BY DEF vec_pop_length, At, CallTyped
  <1>2. CallTyped' /\ Others(p) /\ pc'[p] = "pop_read" /\ loc' = loc
    BY Move DEF vec_pop_length, PopLabel
  <1>3. /\ length' = [length EXCEPT ![p] = loc[p].i]
        /\ length'[p] = loc[p].i /\ \A s \in Proc \ {p} : length'[s] = length[s]
    BY <1>1 DEF vec_pop_length, BoxTyped
  <1>4. QED
    BY <1>1, <1>2, <1>3, Fields

\* What vec_pop_read does.
Does_vec_pop_read(p) ==
    /\ CallTyped' /\ Others(p) /\ pc[p] = "pop_read" /\ pc'[p] = "user"
    /\ loc'[p].new = Null /\ data[p] \in Blocks /\ loc[p].i \in Cell
    /\ cells[data[p]][loc[p].i] \in Message \cup {Unwritten}
    /\ got' = [got EXCEPT ![p] = Append(got[p], cells[data[p]][loc[p].i])]
    /\ status = "running"
    /\ UNCHANGED << alive, data, length, capacity, size, cells, count, status, raced,
                    stolen >>

\* A step of vec_pop_read has the effect stated above.
LEMMA Eff_vec_pop_read ==
    ASSUME CallTyped, BoxTyped, HeapTyped, RestTyped, Pointers, NEW p \in Proc, vec_pop_read(p)
    PROVE  Does_vec_pop_read(p)
  <1> USE DEF Does_vec_pop_read
  <1>0. /\ status = "running"
        /\ UNCHANGED << alive, data, length, capacity, size, cells, count, status, raced,
                        stolen >>
    BY DEF vec_pop_read, At, box_vars, heap_vars
  <1> USE <1>0
  <1>1. pc[p] = "pop_read" /\ loc[p] \in LocType /\ data[p] # Null
    BY DEF vec_pop_read, At, CallTyped, Pointers, PointersAt, PopLabel
  <1>2. CallTyped' /\ Others(p) /\ pc'[p] = "user" /\ loc'[p] = Local
    BY LocalTyped, MoveWith DEF vec_pop_read
  <1>3. data[p] \in Blocks /\ loc[p].i \in Cell
    BY <1>1, Fields DEF BoxTyped
  <1>4. cells[data[p]][loc[p].i] \in Message \cup {Unwritten}
    BY <1>3 DEF HeapTyped
  <1>5. got' = [got EXCEPT ![p] = Append(got[p], cells[data[p]][loc[p].i])]
    BY DEF vec_pop_read
  <1>6. QED
    BY <1>1, <1>2, <1>3, <1>4, <1>5 DEF Local

\* The steps that only move.

\* What syscall_ipcrcv_sync does.
Does_syscall_ipcrcv_sync(p) ==
    /\ CallTyped' /\ Others(p) /\ loc' = loc /\ pc[p] = "user" /\ pc'[p] = "wait"
    /\ status = "running"
    /\ UNCHANGED << alive, data, length, capacity, size, cells, count, got, status, raced,
                    stolen >>

\* A step of syscall_ipcrcv_sync has the effect stated above.
LEMMA Eff_syscall_ipcrcv_sync ==
    ASSUME CallTyped, NEW p \in Proc, syscall_ipcrcv_sync(p)
    PROVE  Does_syscall_ipcrcv_sync(p)
  BY Move DEF Does_syscall_ipcrcv_sync, syscall_ipcrcv_sync, At, Enter, PopLabel, box_vars,
       heap_vars

\* What rcv_sync_done does.
Does_rcv_sync_done(p) ==
    /\ CallTyped' /\ Others(p) /\ loc' = loc /\ pc[p] = "wait" /\ pc'[p] = "pop_load"
    /\ length[p] # 0 /\ raced' = (raced \/ Inside(p) # {})
    /\ status = "running"
    /\ UNCHANGED << alive, data, length, capacity, size, cells, count, got, status,
                    stolen >>

\* A step of rcv_sync_done has the effect stated above.
LEMMA Eff_rcv_sync_done ==
    ASSUME CallTyped, NEW p \in Proc, rcv_sync_done(p)
    PROVE  Does_rcv_sync_done(p)
  BY Move DEF Does_rcv_sync_done, rcv_sync_done, At, Enter, PopLabel, box_vars, heap_vars

\* What syscall_ipcrcv_oneshot does.
Does_syscall_ipcrcv_oneshot(p) ==
    /\ CallTyped' /\ Others(p) /\ loc' = loc /\ pc[p] = "user" /\ pc'[p] = "pop_load"
    /\ length[p] # 0 /\ raced' = (raced \/ Inside(p) # {})
    /\ status = "running"
    /\ UNCHANGED << alive, data, length, capacity, size, cells, count, got, status,
                    stolen >>

\* A step of syscall_ipcrcv_oneshot has the effect stated above.
LEMMA Eff_syscall_ipcrcv_oneshot ==
    ASSUME CallTyped, NEW p \in Proc, syscall_ipcrcv_oneshot(p)
    PROVE  Does_syscall_ipcrcv_oneshot(p)
  BY Move DEF Does_syscall_ipcrcv_oneshot, syscall_ipcrcv_oneshot, At, Enter, PopLabel,
       box_vars, heap_vars

\* What syscall_exit does.
Does_syscall_exit(p) ==
    /\ CallTyped' /\ Others(p) /\ loc' = loc /\ pc[p] = "user" /\ pc'[p] = "exited"
    /\ p \in Mortal /\ alive' = alive \ {p}
    /\ status = "running"
    /\ UNCHANGED << data, length, capacity, size, cells, count, got, status, stolen,
                    raced >>

\* A step of syscall_exit has the effect stated above.
LEMMA Eff_syscall_exit ==
    ASSUME CallTyped, NEW p \in Proc, syscall_exit(p)
    PROVE  Does_syscall_exit(p)
  BY Move DEF Does_syscall_exit, syscall_exit, At, Enter, PopLabel, box_vars, heap_vars

\* What slayer_vec_free does.
Does_slayer_vec_free(p) ==
    /\ CallTyped' /\ Others(p) /\ p \notin alive /\ data[p] # Null /\ size[data[p]] # 0
    /\ size' = FreedSize(data[p])
    /\ raced' = (raced \/ Inside(p) # {})
    /\ stolen' = (stolen \/ \E q \in Proc :
                      \/ (q \in alive \/ Inside(q) # {}) /\ data[q] = data[p]
                      \/ loc[q].new = data[p])
    /\ status = "running"
    /\ UNCHANGED << pc, loc, alive, data, length, capacity, cells, count, got, status >>

\* A step of slayer_vec_free has the effect stated above.
LEMMA Eff_slayer_vec_free ==
    ASSUME CallTyped, NEW p \in Proc, slayer_vec_free(p)
    PROVE  Does_slayer_vec_free(p)
  BY DEF Does_slayer_vec_free, Others, slayer_vec_free, Enter, box_vars, heap_vars,
       CallTyped

-----------------------------------------------------------------------------
(***************************************************************************)
(* Every step preserves AnyInv.                                            *)
(***************************************************************************)
\* Pointers is preserved when p's own part is and no block is given up.
LEMMA PointersStep ==
    ASSUME CallTyped, Pointers, NEW p \in Proc, Others(p), PointersAt(p)',
           \A s \in Proc : data[s] # Null => data'[s] # Null,
           \A s \in Proc : HasBlock(s)'
    PROVE  Pointers'
  <1>1. ASSUME NEW q \in Proc \ {p} PROVE PointersAt(q)'
    <2>1. pc'[q] = pc[q] /\ loc'[q] = loc[q] /\ PointersAt(q)
      BY DEF Others, Pointers
    <2>2. pc[q] \in {"capacity", "load", "length", "slot"} => loc[q].to \in Proc
      BY <2>1 DEF PointersAt, PushLabel
    <2>3. QED
      BY <2>1, <2>2 DEF PointersAt
  <1>2. QED
    BY <1>1 DEF Pointers

\* A step of p that neither begins a push nor stores a length for it.
LEMMA PendingSame ==
    ASSUME CallTyped, NEW p \in Proc, Others(p),
           pc[p] \in PushLabel \ {"slot"} <=> pc'[p] \in PushLabel \ {"slot"}
    PROVE  Pending' = Pending
  <1>1. ASSUME NEW q \in Proc
        PROVE  pc'[q] \in PushLabel \ {"slot"} <=> pc[q] \in PushLabel \ {"slot"}
    BY DEF Others
  <1>2. QED
    BY <1>1 DEF Pending

\* Bounded is preserved when nothing larger is stored or loaded.
LEMMA BoundedStep ==
    ASSUME Bounded, CallTyped, BoxTyped, NEW p \in Proc, Others(p),
           Pending' = Pending, count' = count,
           \A s \in Proc : length'[s] + Cardinality(Pending) <= count,
           pc'[p] \in {"length", "pop_length"} => loc'[p].i + Cardinality(Pending) <= count
    PROVE  Bounded'
  BY DEF Bounded, Others

\* A step of vec_expand_ preserves what holds in every run.
LEMMA Any_vec_expand_ ==
    ASSUME AnyInv, NEW p \in Proc, vec_expand_(p)
    PROVE  AnyInv'
  <1>1. /\ CallTyped /\ BoxTyped /\ HeapTyped /\ RestTyped /\ Pointers /\ Bounded
        /\ PopNeverUnderflows
    BY TypeParts DEF AnyInv
  <1>2. Does_vec_expand_(p)
    BY <1>1, Eff_vec_expand_
  <1>3. BoxTyped'
    BY <1>1, <1>2 DEF BoxTyped, Does_vec_expand_
  <1>4. HeapTyped'
    BY <1>1, <1>2 DEF HeapTyped, Does_vec_expand_, FreedSize
  <1>5. RestTyped'
    BY <1>1, <1>2 DEF RestTyped, Does_vec_expand_
  <1>6. Pointers'
    <2>1. PointersAt(p)'
      <3>1. capacity[loc[p].to] \in Nat /\ loc[p].to \in Proc
        BY <1>1, <1>2 DEF Does_vec_expand_, BoxTyped
      <3>2. CASE pc'[p] = "realloc"
        BY <1>2, <3>1, <3>2 DEF Does_vec_expand_, PointersAt, PushLabel, PopLabel
      <3>3. CASE pc'[p] = "load"
        <4>0. ~(length[loc[p].to] + 1 > capacity[loc[p].to])
          BY <1>2, <3>3 DEF Does_vec_expand_
        <4>1. capacity[loc[p].to] > 0
          <5>1. length[loc[p].to] \in Cell
            BY <1>1, <3>1 DEF BoxTyped
          <5>2. QED
            BY <3>1, <4>0, <5>1 DEF Cell
        <4>2. data[loc[p].to] # Null
          BY <1>1, <3>1, <4>1 DEF Pointers, HasBlock
        <4>3. QED
          BY <1>2, <3>1, <3>3, <4>2 DEF Does_vec_expand_, PointersAt, PushLabel, PopLabel
      <3>4. QED
        BY <1>2, <3>2, <3>3 DEF Does_vec_expand_
    <2>2. \A s \in Proc : (data[s] # Null => data'[s] # Null) /\ HasBlock(s)'
      BY <1>1, <1>2 DEF Does_vec_expand_, Pointers, PointersAt, HasBlock, BoxTyped
    <2>3. QED
      BY <1>1, <1>2, <2>1, <2>2, PointersStep DEF Does_vec_expand_
  <1>7. Pending' = Pending
    BY <1>1, <1>2, PendingSame DEF Does_vec_expand_, PushLabel
  <1>8. Bounded'
    <2>1. /\ \A s \in Proc : length'[s] + Cardinality(Pending) <= count
          /\ pc'[p] \in {"length", "pop_length"} => loc'[p].i + Cardinality(Pending) <= count
      BY <1>1, <1>2, FS_CardinalityType DEF Does_vec_expand_, Bounded, BoxTyped, RestTyped,
           Cell
    <2>2. QED
      BY <1>1, <1>2, <1>7, <2>1, BoundedStep DEF Does_vec_expand_
  <1>9. PopNeverUnderflows'
    BY <1>1, <1>2 DEF PopNeverUnderflows, Does_vec_expand_, Others, BoxTyped, CallTyped,
         Cell
  <1>10. QED
    BY <1>2, <1>3, <1>4, <1>5, <1>6, <1>8, <1>9, TypeParts DEF AnyInv, Does_vec_expand_

\* A step of realloc preserves what holds in every run.
LEMMA Any_realloc ==
    ASSUME AnyInv, NEW p \in Proc, realloc(p)
    PROVE  AnyInv'
  <1>1. /\ CallTyped /\ BoxTyped /\ HeapTyped /\ RestTyped /\ Pointers /\ Bounded
        /\ PopNeverUnderflows
    BY TypeParts DEF AnyInv
  <1>2. Does_realloc(p)
    BY <1>1, Eff_realloc
  <1>3. BoxTyped'
    BY <1>1, <1>2 DEF BoxTyped, Does_realloc
  <1>4. HeapTyped'
    <2>1. loc[p].n \in Nat
      BY <1>1, Fields DEF CallTyped
    <2>2. CASE size' = size
      BY <1>1, <1>2, <2>2 DEF HeapTyped, Does_realloc
    <2>3. CASE size' = [size EXCEPT ![loc[p].old] = loc[p].n]
      BY <1>1, <1>2, <2>1, <2>3 DEF HeapTyped, Does_realloc
    <2>4. QED
      BY <1>2, <2>2, <2>3 DEF Does_realloc
  <1>5. RestTyped'
    BY <1>1, <1>2 DEF RestTyped, Does_realloc
  <1>6. Pointers'
    <2>1. PointersAt(p)'
      <3>1. loc[p].n > 0 /\ PointersAt(p)
        BY <1>1, <1>2 DEF Does_realloc, Pointers, PointersAt
      <3>2. CASE UNCHANGED << pc, loc >>
        BY <1>2, <3>1, <3>2 DEF Does_realloc, PointersAt
      <3>3. CASE pc'[p] = "data" /\ loc[p].old \in Blocks /\ loc'[p].new = loc[p].old
        BY <1>2, <3>1, <3>3 DEF Does_realloc, PointersAt, PushLabel, PopLabel, Null, Blocks
      <3>4. CASE pc'[p] = "malloc"
        BY <1>2, <3>1, <3>4 DEF Does_realloc, PointersAt, PushLabel, PopLabel
      <3>5. QED
        BY <1>2, <3>2, <3>3, <3>4 DEF Does_realloc
    <2>2. \A s \in Proc : (data[s] # Null => data'[s] # Null) /\ HasBlock(s)'
      BY <1>1, <1>2 DEF Does_realloc, Pointers, PointersAt, HasBlock, BoxTyped
    <2>3. QED
      BY <1>1, <1>2, <2>1, <2>2, PointersStep DEF Does_realloc
  <1>7. Pending' = Pending
    BY <1>1, <1>2, PendingSame DEF Does_realloc, PushLabel
  <1>8. Bounded'
    <2>1. /\ \A s \in Proc : length'[s] + Cardinality(Pending) <= count
          /\ pc'[p] \in {"length", "pop_length"} => loc'[p].i + Cardinality(Pending) <= count
      BY <1>1, <1>2, FS_CardinalityType DEF Does_realloc, Bounded, BoxTyped, RestTyped, Cell
    <2>2. QED
      BY <1>1, <1>2, <1>7, <2>1, BoundedStep DEF Does_realloc
  <1>9. PopNeverUnderflows'
    BY <1>1, <1>2 DEF PopNeverUnderflows, Does_realloc, Others, BoxTyped, CallTyped, Cell
  <1>10. QED
    BY <1>2, <1>3, <1>4, <1>5, <1>6, <1>8, <1>9, TypeParts DEF AnyInv, Does_realloc

\* A step of realloc_malloc preserves what holds in every run.
LEMMA Any_realloc_malloc ==
    ASSUME AnyInv, NEW p \in Proc, realloc_malloc(p)
    PROVE  AnyInv'
  <1>1. /\ CallTyped /\ BoxTyped /\ HeapTyped /\ RestTyped /\ Pointers /\ Bounded
        /\ PopNeverUnderflows
    BY TypeParts DEF AnyInv
  <1>2. Does_realloc_malloc(p)
    BY <1>1, Eff_realloc_malloc
  <1>3. BoxTyped'
    BY <1>1, <1>2 DEF BoxTyped, Does_realloc_malloc
  <1>4. HeapTyped'
    <2>1. loc[p].n \in Nat
      BY <1>1, Fields DEF CallTyped
    <2>2. PICK b \in Blocks : /\ size' = [size EXCEPT ![b] = loc[p].n]
                              /\ cells' = [cells EXCEPT ![b] = [i \in Cell |-> Unwritten]]
      BY <1>2 DEF Does_realloc_malloc
    <2>3. QED
      BY <1>1, <2>1, <2>2 DEF HeapTyped
  <1>5. RestTyped'
    BY <1>1, <1>2 DEF RestTyped, Does_realloc_malloc
  <1>6. Pointers'
    <2>1. PointersAt(p)'
      <3>1. loc[p].n > 0 /\ loc[p].to \in Proc
        BY <1>1, <1>2 DEF Does_realloc_malloc, Pointers, PointersAt
      <3>2. loc'[p].new \in Blocks
        BY <1>2 DEF Does_realloc_malloc
      <3>3. QED
        BY <1>2, <3>1, <3>2 DEF Does_realloc_malloc, PointersAt, PushLabel, PopLabel, Null,
             Blocks
    <2>2. \A s \in Proc : (data[s] # Null => data'[s] # Null) /\ HasBlock(s)'
      BY <1>1, <1>2 DEF Does_realloc_malloc, Pointers, PointersAt, HasBlock, BoxTyped
    <2>3. QED
      BY <1>1, <1>2, <2>1, <2>2, PointersStep DEF Does_realloc_malloc
  <1>7. Pending' = Pending
    BY <1>1, <1>2, PendingSame DEF Does_realloc_malloc, PushLabel
  <1>8. Bounded'
    <2>1. /\ \A s \in Proc : length'[s] + Cardinality(Pending) <= count
          /\ pc'[p] \in {"length", "pop_length"} => loc'[p].i + Cardinality(Pending) <= count
      BY <1>1, <1>2, FS_CardinalityType DEF Does_realloc_malloc, Bounded, BoxTyped,
           RestTyped, Cell
    <2>2. QED
      BY <1>1, <1>2, <1>7, <2>1, BoundedStep DEF Does_realloc_malloc
  <1>9. PopNeverUnderflows'
    BY <1>1, <1>2 DEF PopNeverUnderflows, Does_realloc_malloc, Others, BoxTyped, CallTyped,
         Cell
  <1>10. QED
    BY <1>2, <1>3, <1>4, <1>5, <1>6, <1>8, <1>9, TypeParts DEF AnyInv, Does_realloc_malloc

\* A step of realloc_copy preserves what holds in every run.
LEMMA Any_realloc_copy ==
    ASSUME AnyInv, NEW p \in Proc, realloc_copy(p)
    PROVE  AnyInv'
  <1>1. /\ CallTyped /\ BoxTyped /\ HeapTyped /\ RestTyped /\ Pointers /\ Bounded
        /\ PopNeverUnderflows
    BY TypeParts DEF AnyInv
  <1>2. Does_realloc_copy(p)
    BY <1>1, Eff_realloc_copy
  <1>3. BoxTyped'
    BY <1>1, <1>2 DEF BoxTyped, Does_realloc_copy
  <1>4. HeapTyped'
    BY <1>1, <1>2 DEF HeapTyped, Does_realloc_copy, FreedSize
  <1>5. RestTyped'
    BY <1>1, <1>2 DEF RestTyped, Does_realloc_copy
  <1>6. Pointers'
    <2>1. PointersAt(p)'
      BY <1>1, <1>2 DEF Does_realloc_copy, PointersAt, Pointers, HasBlock, PushLabel,
           PopLabel, BoxTyped, Null
    <2>2. \A s \in Proc : (data[s] # Null => data'[s] # Null) /\ HasBlock(s)'
      BY <1>1, <1>2 DEF Does_realloc_copy, Pointers, PointersAt, HasBlock, BoxTyped
    <2>3. QED
      BY <1>1, <1>2, <2>1, <2>2, PointersStep DEF Does_realloc_copy
  <1>7. Pending' = Pending
    BY <1>1, <1>2, PendingSame DEF Does_realloc_copy, PushLabel
  <1>8. Bounded'
    <2>1. /\ \A s \in Proc : length'[s] + Cardinality(Pending) <= count
          /\ pc'[p] \in {"length", "pop_length"} => loc'[p].i + Cardinality(Pending) <= count
      BY <1>1, <1>2, FS_CardinalityType DEF Does_realloc_copy, Bounded, BoxTyped, RestTyped,
           Cell
    <2>2. QED
      BY <1>1, <1>2, <1>7, <2>1, BoundedStep DEF Does_realloc_copy
  <1>9. PopNeverUnderflows'
    BY <1>1, <1>2 DEF PopNeverUnderflows, Does_realloc_copy, Others, BoxTyped, CallTyped,
         Cell
  <1>10. QED
    BY <1>2, <1>3, <1>4, <1>5, <1>6, <1>8, <1>9, TypeParts DEF AnyInv, Does_realloc_copy

\* A step of realloc_free preserves what holds in every run.
LEMMA Any_realloc_free ==
    ASSUME AnyInv, NEW p \in Proc, realloc_free(p)
    PROVE  AnyInv'
  <1>1. /\ CallTyped /\ BoxTyped /\ HeapTyped /\ RestTyped /\ Pointers /\ Bounded
        /\ PopNeverUnderflows
    BY TypeParts DEF AnyInv
  <1>2. Does_realloc_free(p)
    BY <1>1, Eff_realloc_free
  <1>3. BoxTyped'
    BY <1>1, <1>2 DEF BoxTyped, Does_realloc_free
  <1>4. HeapTyped'
    BY <1>1, <1>2 DEF HeapTyped, Does_realloc_free, FreedSize
  <1>5. RestTyped'
    BY <1>1, <1>2 DEF RestTyped, Does_realloc_free
  <1>6. Pointers'
    <2>1. PointersAt(p)'
      BY <1>1, <1>2 DEF Does_realloc_free, PointersAt, Pointers, HasBlock, PushLabel,
           PopLabel, BoxTyped, Null
    <2>2. \A s \in Proc : (data[s] # Null => data'[s] # Null) /\ HasBlock(s)'
      BY <1>1, <1>2 DEF Does_realloc_free, Pointers, PointersAt, HasBlock, BoxTyped
    <2>3. QED
      BY <1>1, <1>2, <2>1, <2>2, PointersStep DEF Does_realloc_free
  <1>7. Pending' = Pending
    BY <1>1, <1>2, PendingSame DEF Does_realloc_free, PushLabel
  <1>8. Bounded'
    <2>1. /\ \A s \in Proc : length'[s] + Cardinality(Pending) <= count
          /\ pc'[p] \in {"length", "pop_length"} => loc'[p].i + Cardinality(Pending) <= count
      BY <1>1, <1>2, FS_CardinalityType DEF Does_realloc_free, Bounded, BoxTyped, RestTyped,
           Cell
    <2>2. QED
      BY <1>1, <1>2, <1>7, <2>1, BoundedStep DEF Does_realloc_free
  <1>9. PopNeverUnderflows'
    BY <1>1, <1>2 DEF PopNeverUnderflows, Does_realloc_free, Others, BoxTyped, CallTyped,
         Cell
  <1>10. QED
    BY <1>2, <1>3, <1>4, <1>5, <1>6, <1>8, <1>9, TypeParts DEF AnyInv, Does_realloc_free

\* A step of vec_expand_data preserves what holds in every run.
LEMMA Any_vec_expand_data ==
    ASSUME AnyInv, NEW p \in Proc, vec_expand_data(p)
    PROVE  AnyInv'
  <1>1. /\ CallTyped /\ BoxTyped /\ HeapTyped /\ RestTyped /\ Pointers /\ Bounded
        /\ PopNeverUnderflows
    BY TypeParts DEF AnyInv
  <1>2. Does_vec_expand_data(p)
    BY <1>1, Eff_vec_expand_data
  <1>3. BoxTyped'
    BY <1>1, <1>2 DEF BoxTyped, Does_vec_expand_data
  <1>4. HeapTyped'
    BY <1>1, <1>2 DEF HeapTyped, Does_vec_expand_data, FreedSize
  <1>5. RestTyped'
    BY <1>1, <1>2 DEF RestTyped, Does_vec_expand_data
  <1>6. Pointers'
    <2>1. PointersAt(p)'
      BY <1>1, <1>2 DEF Does_vec_expand_data, PointersAt, Pointers, HasBlock, PushLabel,
           PopLabel, BoxTyped, Null
    <2>2. \A s \in Proc : (data[s] # Null => data'[s] # Null) /\ HasBlock(s)'
      BY <1>1, <1>2 DEF Does_vec_expand_data, Pointers, PointersAt, HasBlock, BoxTyped
    <2>3. QED
      BY <1>1, <1>2, <2>1, <2>2, PointersStep DEF Does_vec_expand_data
  <1>7. Pending' = Pending
    BY <1>1, <1>2, PendingSame DEF Does_vec_expand_data, PushLabel
  <1>8. Bounded'
    <2>1. /\ \A s \in Proc : length'[s] + Cardinality(Pending) <= count
          /\ pc'[p] \in {"length", "pop_length"} => loc'[p].i + Cardinality(Pending) <= count
      BY <1>1, <1>2, FS_CardinalityType DEF Does_vec_expand_data, Bounded, BoxTyped,
           RestTyped, Cell
    <2>2. QED
      BY <1>1, <1>2, <1>7, <2>1, BoundedStep DEF Does_vec_expand_data
  <1>9. PopNeverUnderflows'
    BY <1>1, <1>2 DEF PopNeverUnderflows, Does_vec_expand_data, Others, BoxTyped, CallTyped,
         Cell
  <1>10. QED
    BY <1>2, <1>3, <1>4, <1>5, <1>6, <1>8, <1>9, TypeParts DEF AnyInv, Does_vec_expand_data

\* A step of vec_expand_capacity preserves what holds in every run.
LEMMA Any_vec_expand_capacity ==
    ASSUME AnyInv, NEW p \in Proc, vec_expand_capacity(p)
    PROVE  AnyInv'
  <1>1. /\ CallTyped /\ BoxTyped /\ HeapTyped /\ RestTyped /\ Pointers /\ Bounded
        /\ PopNeverUnderflows
    BY TypeParts DEF AnyInv
  <1>2. Does_vec_expand_capacity(p)
    BY <1>1, Eff_vec_expand_capacity
  <1>3. BoxTyped'
    BY <1>1, <1>2 DEF BoxTyped, Does_vec_expand_capacity
  <1>4. HeapTyped'
    BY <1>1, <1>2 DEF HeapTyped, Does_vec_expand_capacity, FreedSize
  <1>5. RestTyped'
    BY <1>1, <1>2 DEF RestTyped, Does_vec_expand_capacity
  <1>6. Pointers'
    <2>1. PointersAt(p)'
      BY <1>1, <1>2 DEF Does_vec_expand_capacity, PointersAt, Pointers, HasBlock, PushLabel,
           PopLabel, BoxTyped, Null
    <2>2. \A s \in Proc : (data[s] # Null => data'[s] # Null) /\ HasBlock(s)'
      BY <1>1, <1>2 DEF Does_vec_expand_capacity, Pointers, PointersAt, HasBlock, BoxTyped
    <2>3. QED
      BY <1>1, <1>2, <2>1, <2>2, PointersStep DEF Does_vec_expand_capacity
  <1>7. Pending' = Pending
    BY <1>1, <1>2, PendingSame DEF Does_vec_expand_capacity, PushLabel
  <1>8. Bounded'
    <2>1. /\ \A s \in Proc : length'[s] + Cardinality(Pending) <= count
          /\ pc'[p] \in {"length", "pop_length"} => loc'[p].i + Cardinality(Pending) <= count
      BY <1>1, <1>2, FS_CardinalityType DEF Does_vec_expand_capacity, Bounded, BoxTyped,
           RestTyped, Cell
    <2>2. QED
      BY <1>1, <1>2, <1>7, <2>1, BoundedStep DEF Does_vec_expand_capacity
  <1>9. PopNeverUnderflows'
    BY <1>1, <1>2 DEF PopNeverUnderflows, Does_vec_expand_capacity, Others, BoxTyped,
         CallTyped, Cell
  <1>10. QED
    BY <1>2, <1>3, <1>4, <1>5, <1>6, <1>8, <1>9, TypeParts DEF AnyInv,
         Does_vec_expand_capacity

\* A step of vec_push_load preserves what holds in every run.
LEMMA Any_vec_push_load ==
    ASSUME AnyInv, NEW p \in Proc, vec_push_load(p)
    PROVE  AnyInv'
  <1>1. /\ CallTyped /\ BoxTyped /\ HeapTyped /\ RestTyped /\ Pointers /\ Bounded
        /\ PopNeverUnderflows
    BY TypeParts DEF AnyInv
  <1>2. Does_vec_push_load(p)
    BY <1>1, Eff_vec_push_load
  <1>3. BoxTyped'
    BY <1>1, <1>2 DEF BoxTyped, Does_vec_push_load
  <1>4. HeapTyped'
    BY <1>1, <1>2 DEF HeapTyped, Does_vec_push_load, FreedSize
  <1>5. RestTyped'
    BY <1>1, <1>2 DEF RestTyped, Does_vec_push_load
  <1>6. Pointers'
    <2>1. PointersAt(p)'
      BY <1>1, <1>2 DEF Does_vec_push_load, PointersAt, Pointers, HasBlock, PushLabel,
           PopLabel, BoxTyped, Null
    <2>2. \A s \in Proc : (data[s] # Null => data'[s] # Null) /\ HasBlock(s)'
      BY <1>1, <1>2 DEF Does_vec_push_load, Pointers, PointersAt, HasBlock, BoxTyped
    <2>3. QED
      BY <1>1, <1>2, <2>1, <2>2, PointersStep DEF Does_vec_push_load
  <1>7. Pending' = Pending
    BY <1>1, <1>2, PendingSame DEF Does_vec_push_load, PushLabel
  <1>8. Bounded'
    <2>1. /\ \A s \in Proc : length'[s] + Cardinality(Pending) <= count
          /\ pc'[p] \in {"length", "pop_length"} => loc'[p].i + Cardinality(Pending) <= count
      BY <1>1, <1>2, FS_CardinalityType DEF Does_vec_push_load, Bounded, BoxTyped,
           RestTyped, Cell
    <2>2. QED
      BY <1>1, <1>2, <1>7, <2>1, BoundedStep DEF Does_vec_push_load
  <1>9. PopNeverUnderflows'
    BY <1>1, <1>2 DEF PopNeverUnderflows, Does_vec_push_load, Others, BoxTyped, CallTyped,
         Cell
  <1>10. QED
    BY <1>2, <1>3, <1>4, <1>5, <1>6, <1>8, <1>9, TypeParts DEF AnyInv, Does_vec_push_load

\* A step of vec_push_slot preserves what holds in every run.
LEMMA Any_vec_push_slot ==
    ASSUME AnyInv, NEW p \in Proc, vec_push_slot(p)
    PROVE  AnyInv'
  <1>1. /\ CallTyped /\ BoxTyped /\ HeapTyped /\ RestTyped /\ Pointers /\ Bounded
        /\ PopNeverUnderflows
    BY TypeParts DEF AnyInv
  <1>2. Does_vec_push_slot(p)
    BY <1>1, Eff_vec_push_slot
  <1>3. BoxTyped'
    BY <1>1, <1>2 DEF BoxTyped, Does_vec_push_slot
  <1>4. HeapTyped'
    BY <1>1, <1>2 DEF HeapTyped, Does_vec_push_slot, FreedSize
  <1>5. RestTyped'
    BY <1>1, <1>2 DEF RestTyped, Does_vec_push_slot
  <1>6. Pointers'
    <2>1. PointersAt(p)'
      BY <1>1, <1>2 DEF Does_vec_push_slot, PointersAt, Pointers, HasBlock, PushLabel,
           PopLabel, BoxTyped, Null
    <2>2. \A s \in Proc : (data[s] # Null => data'[s] # Null) /\ HasBlock(s)'
      BY <1>1, <1>2 DEF Does_vec_push_slot, Pointers, PointersAt, HasBlock, BoxTyped
    <2>3. QED
      BY <1>1, <1>2, <2>1, <2>2, PointersStep DEF Does_vec_push_slot
  <1>7. Pending' = Pending
    BY <1>1, <1>2, PendingSame DEF Does_vec_push_slot, PushLabel
  <1>8. Bounded'
    <2>1. /\ \A s \in Proc : length'[s] + Cardinality(Pending) <= count
          /\ pc'[p] \in {"length", "pop_length"} => loc'[p].i + Cardinality(Pending) <= count
      BY <1>1, <1>2, FS_CardinalityType DEF Does_vec_push_slot, Bounded, BoxTyped,
           RestTyped, Cell
    <2>2. QED
      BY <1>1, <1>2, <1>7, <2>1, BoundedStep DEF Does_vec_push_slot
  <1>9. PopNeverUnderflows'
    BY <1>1, <1>2 DEF PopNeverUnderflows, Does_vec_push_slot, Others, BoxTyped, CallTyped,
         Cell
  <1>10. QED
    BY <1>2, <1>3, <1>4, <1>5, <1>6, <1>8, <1>9, TypeParts DEF AnyInv, Does_vec_push_slot

\* A step of vec_pop_load preserves what holds in every run.
LEMMA Any_vec_pop_load ==
    ASSUME AnyInv, NEW p \in Proc, vec_pop_load(p)
    PROVE  AnyInv'
  <1>1. /\ CallTyped /\ BoxTyped /\ HeapTyped /\ RestTyped /\ Pointers /\ Bounded
        /\ PopNeverUnderflows
    BY TypeParts DEF AnyInv
  <1>2. Does_vec_pop_load(p)
    BY <1>1, Eff_vec_pop_load
  <1>3. BoxTyped'
    BY <1>1, <1>2 DEF BoxTyped, Does_vec_pop_load
  <1>4. HeapTyped'
    BY <1>1, <1>2 DEF HeapTyped, Does_vec_pop_load, FreedSize
  <1>5. RestTyped'
    BY <1>1, <1>2 DEF RestTyped, Does_vec_pop_load
  <1>6. Pointers'
    <2>1. PointersAt(p)'
      BY <1>1, <1>2 DEF Does_vec_pop_load, PointersAt, Pointers, HasBlock, PushLabel,
           PopLabel, BoxTyped, Null
    <2>2. \A s \in Proc : (data[s] # Null => data'[s] # Null) /\ HasBlock(s)'
      BY <1>1, <1>2 DEF Does_vec_pop_load, Pointers, PointersAt, HasBlock, BoxTyped
    <2>3. QED
      BY <1>1, <1>2, <2>1, <2>2, PointersStep DEF Does_vec_pop_load
  <1>7. Pending' = Pending
    BY <1>1, <1>2, PendingSame DEF Does_vec_pop_load, PushLabel
  <1>8. Bounded'
    <2>1. /\ \A s \in Proc : length'[s] + Cardinality(Pending) <= count
          /\ pc'[p] \in {"length", "pop_length"} => loc'[p].i + Cardinality(Pending) <= count
      BY <1>1, <1>2, FS_CardinalityType DEF Does_vec_pop_load, Bounded, BoxTyped, RestTyped,
           Cell
    <2>2. QED
      BY <1>1, <1>2, <1>7, <2>1, BoundedStep DEF Does_vec_pop_load
  <1>9. PopNeverUnderflows'
    BY <1>1, <1>2 DEF PopNeverUnderflows, Does_vec_pop_load, Others, BoxTyped, CallTyped,
         Cell
  <1>10. QED
    BY <1>2, <1>3, <1>4, <1>5, <1>6, <1>8, <1>9, TypeParts DEF AnyInv, Does_vec_pop_load

\* A step of vec_pop_length preserves what holds in every run.
LEMMA Any_vec_pop_length ==
    ASSUME AnyInv, NEW p \in Proc, vec_pop_length(p)
    PROVE  AnyInv'
  <1>1. /\ CallTyped /\ BoxTyped /\ HeapTyped /\ RestTyped /\ Pointers /\ Bounded
        /\ PopNeverUnderflows
    BY TypeParts DEF AnyInv
  <1>2. Does_vec_pop_length(p)
    BY <1>1, Eff_vec_pop_length
  <1>3. BoxTyped'
    BY <1>1, <1>2 DEF BoxTyped, Does_vec_pop_length
  <1>4. HeapTyped'
    BY <1>1, <1>2 DEF HeapTyped, Does_vec_pop_length, FreedSize
  <1>5. RestTyped'
    BY <1>1, <1>2 DEF RestTyped, Does_vec_pop_length
  <1>6. Pointers'
    <2>1. PointersAt(p)'
      BY <1>1, <1>2 DEF Does_vec_pop_length, PointersAt, Pointers, HasBlock, PushLabel,
           PopLabel, BoxTyped, Null
    <2>2. \A s \in Proc : (data[s] # Null => data'[s] # Null) /\ HasBlock(s)'
      BY <1>1, <1>2 DEF Does_vec_pop_length, Pointers, PointersAt, HasBlock, PopLabel
    <2>3. QED
      BY <1>1, <1>2, <2>1, <2>2, PointersStep DEF Does_vec_pop_length
  <1>7. Pending' = Pending
    BY <1>1, <1>2, PendingSame DEF Does_vec_pop_length, PushLabel
  <1>8. Bounded'
    <2>1. /\ \A s \in Proc : length'[s] + Cardinality(Pending) <= count
          /\ pc'[p] \in {"length", "pop_length"} => loc'[p].i + Cardinality(Pending) <= count
      BY <1>1, <1>2, FS_CardinalityType DEF Does_vec_pop_length, Bounded, BoxTyped,
           RestTyped, Cell
    <2>2. QED
      BY <1>1, <1>2, <1>7, <2>1, BoundedStep DEF Does_vec_pop_length
  <1>9. PopNeverUnderflows'
    BY <1>1, <1>2 DEF PopNeverUnderflows, Does_vec_pop_length, Others, BoxTyped, CallTyped,
         Cell
  <1>10. QED
    BY <1>2, <1>3, <1>4, <1>5, <1>6, <1>8, <1>9, TypeParts DEF AnyInv, Does_vec_pop_length

\* A step of vec_pop_read preserves what holds in every run.
LEMMA Any_vec_pop_read ==
    ASSUME AnyInv, NEW p \in Proc, vec_pop_read(p)
    PROVE  AnyInv'
  <1>1. /\ CallTyped /\ BoxTyped /\ HeapTyped /\ RestTyped /\ Pointers /\ Bounded
        /\ PopNeverUnderflows
    BY TypeParts DEF AnyInv
  <1>2. Does_vec_pop_read(p)
    BY <1>1, Eff_vec_pop_read
  <1>3. BoxTyped'
    BY <1>1, <1>2 DEF BoxTyped, Does_vec_pop_read
  <1>4. HeapTyped'
    BY <1>1, <1>2 DEF HeapTyped, Does_vec_pop_read, FreedSize
  <1>5. RestTyped'
    BY <1>1, <1>2 DEF RestTyped, Does_vec_pop_read
  <1>6. Pointers'
    <2>1. PointersAt(p)'
      BY <1>1, <1>2 DEF Does_vec_pop_read, PointersAt, Pointers, HasBlock, PushLabel,
           PopLabel, BoxTyped, Null
    <2>2. \A s \in Proc : (data[s] # Null => data'[s] # Null) /\ HasBlock(s)'
      BY <1>1, <1>2 DEF Does_vec_pop_read, Pointers, PointersAt, HasBlock, BoxTyped
    <2>3. QED
      BY <1>1, <1>2, <2>1, <2>2, PointersStep DEF Does_vec_pop_read
  <1>7. Pending' = Pending
    BY <1>1, <1>2, PendingSame DEF Does_vec_pop_read, PushLabel
  <1>8. Bounded'
    <2>1. /\ \A s \in Proc : length'[s] + Cardinality(Pending) <= count
          /\ pc'[p] \in {"length", "pop_length"} => loc'[p].i + Cardinality(Pending) <= count
      BY <1>1, <1>2, FS_CardinalityType DEF Does_vec_pop_read, Bounded, BoxTyped, RestTyped,
           Cell
    <2>2. QED
      BY <1>1, <1>2, <1>7, <2>1, BoundedStep DEF Does_vec_pop_read
  <1>9. PopNeverUnderflows'
    BY <1>1, <1>2 DEF PopNeverUnderflows, Does_vec_pop_read, Others, BoxTyped, CallTyped,
         Cell
  <1>10. QED
    BY <1>2, <1>3, <1>4, <1>5, <1>6, <1>8, <1>9, TypeParts DEF AnyInv, Does_vec_pop_read

\* A step of syscall_ipcrcv_sync preserves what holds in every run.
LEMMA Any_syscall_ipcrcv_sync ==
    ASSUME AnyInv, NEW p \in Proc, syscall_ipcrcv_sync(p)
    PROVE  AnyInv'
  <1>1. /\ CallTyped /\ BoxTyped /\ HeapTyped /\ RestTyped /\ Pointers /\ Bounded
        /\ PopNeverUnderflows
    BY TypeParts DEF AnyInv
  <1>2. Does_syscall_ipcrcv_sync(p)
    BY <1>1, Eff_syscall_ipcrcv_sync
  <1>3. BoxTyped'
    BY <1>1, <1>2 DEF BoxTyped, Does_syscall_ipcrcv_sync
  <1>4. HeapTyped'
    BY <1>1, <1>2 DEF HeapTyped, Does_syscall_ipcrcv_sync, FreedSize
  <1>5. RestTyped'
    BY <1>1, <1>2 DEF RestTyped, Does_syscall_ipcrcv_sync
  <1>6. Pointers'
    <2>1. PointersAt(p)'
      BY <1>1, <1>2 DEF Does_syscall_ipcrcv_sync, PointersAt, Pointers, HasBlock, PushLabel,
           PopLabel, BoxTyped, Null
    <2>2. \A s \in Proc : (data[s] # Null => data'[s] # Null) /\ HasBlock(s)'
      BY <1>1, <1>2 DEF Does_syscall_ipcrcv_sync, Pointers, PointersAt, HasBlock, BoxTyped
    <2>3. QED
      BY <1>1, <1>2, <2>1, <2>2, PointersStep DEF Does_syscall_ipcrcv_sync
  <1>7. Pending' = Pending
    BY <1>1, <1>2, PendingSame DEF Does_syscall_ipcrcv_sync, PushLabel
  <1>8. Bounded'
    <2>1. /\ \A s \in Proc : length'[s] + Cardinality(Pending) <= count
          /\ pc'[p] \in {"length", "pop_length"} => loc'[p].i + Cardinality(Pending) <= count
      BY <1>1, <1>2, FS_CardinalityType DEF Does_syscall_ipcrcv_sync, Bounded, BoxTyped,
           RestTyped, Cell
    <2>2. QED
      BY <1>1, <1>2, <1>7, <2>1, BoundedStep DEF Does_syscall_ipcrcv_sync
  <1>9. PopNeverUnderflows'
    BY <1>1, <1>2 DEF PopNeverUnderflows, Does_syscall_ipcrcv_sync, Others, BoxTyped,
         CallTyped, Cell
  <1>10. QED
    BY <1>2, <1>3, <1>4, <1>5, <1>6, <1>8, <1>9, TypeParts DEF AnyInv,
         Does_syscall_ipcrcv_sync

\* A step of rcv_sync_done preserves what holds in every run.
LEMMA Any_rcv_sync_done ==
    ASSUME AnyInv, NEW p \in Proc, rcv_sync_done(p)
    PROVE  AnyInv'
  <1>1. /\ CallTyped /\ BoxTyped /\ HeapTyped /\ RestTyped /\ Pointers /\ Bounded
        /\ PopNeverUnderflows
    BY TypeParts DEF AnyInv
  <1>2. Does_rcv_sync_done(p)
    BY <1>1, Eff_rcv_sync_done
  <1>3. BoxTyped'
    BY <1>1, <1>2 DEF BoxTyped, Does_rcv_sync_done
  <1>4. HeapTyped'
    BY <1>1, <1>2 DEF HeapTyped, Does_rcv_sync_done, FreedSize
  <1>5. RestTyped'
    BY <1>1, <1>2 DEF RestTyped, Does_rcv_sync_done
  <1>6. Pointers'
    <2>1. PointersAt(p)'
      <3>1. length[p] > 0
        BY <1>1, <1>2 DEF Does_rcv_sync_done, BoxTyped, Cell
      <3>2. data[p] # Null
        BY <1>1, <3>1 DEF Pointers, HasBlock
      <3>3. QED
        BY <1>2, <3>2 DEF Does_rcv_sync_done, PointersAt, PushLabel, PopLabel
    <2>2. \A s \in Proc : (data[s] # Null => data'[s] # Null) /\ HasBlock(s)'
      BY <1>1, <1>2 DEF Does_rcv_sync_done, Pointers, PointersAt, HasBlock, BoxTyped
    <2>3. QED
      BY <1>1, <1>2, <2>1, <2>2, PointersStep DEF Does_rcv_sync_done
  <1>7. Pending' = Pending
    BY <1>1, <1>2, PendingSame DEF Does_rcv_sync_done, PushLabel
  <1>8. Bounded'
    <2>1. /\ \A s \in Proc : length'[s] + Cardinality(Pending) <= count
          /\ pc'[p] \in {"length", "pop_length"} => loc'[p].i + Cardinality(Pending) <= count
      BY <1>1, <1>2, FS_CardinalityType DEF Does_rcv_sync_done, Bounded, BoxTyped,
           RestTyped, Cell
    <2>2. QED
      BY <1>1, <1>2, <1>7, <2>1, BoundedStep DEF Does_rcv_sync_done
  <1>9. PopNeverUnderflows'
    BY <1>1, <1>2 DEF PopNeverUnderflows, Does_rcv_sync_done, Others, BoxTyped, CallTyped,
         Cell
  <1>10. QED
    BY <1>2, <1>3, <1>4, <1>5, <1>6, <1>8, <1>9, TypeParts DEF AnyInv, Does_rcv_sync_done

\* A step of syscall_ipcrcv_oneshot preserves what holds in every run.
LEMMA Any_syscall_ipcrcv_oneshot ==
    ASSUME AnyInv, NEW p \in Proc, syscall_ipcrcv_oneshot(p)
    PROVE  AnyInv'
  <1>1. /\ CallTyped /\ BoxTyped /\ HeapTyped /\ RestTyped /\ Pointers /\ Bounded
        /\ PopNeverUnderflows
    BY TypeParts DEF AnyInv
  <1>2. Does_syscall_ipcrcv_oneshot(p)
    BY <1>1, Eff_syscall_ipcrcv_oneshot
  <1>3. BoxTyped'
    BY <1>1, <1>2 DEF BoxTyped, Does_syscall_ipcrcv_oneshot
  <1>4. HeapTyped'
    BY <1>1, <1>2 DEF HeapTyped, Does_syscall_ipcrcv_oneshot, FreedSize
  <1>5. RestTyped'
    BY <1>1, <1>2 DEF RestTyped, Does_syscall_ipcrcv_oneshot
  <1>6. Pointers'
    <2>1. PointersAt(p)'
      <3>1. length[p] > 0
        BY <1>1, <1>2 DEF Does_syscall_ipcrcv_oneshot, BoxTyped, Cell
      <3>2. data[p] # Null
        BY <1>1, <3>1 DEF Pointers, HasBlock
      <3>3. QED
        BY <1>2, <3>2 DEF Does_syscall_ipcrcv_oneshot, PointersAt, PushLabel, PopLabel
    <2>2. \A s \in Proc : (data[s] # Null => data'[s] # Null) /\ HasBlock(s)'
      BY <1>1, <1>2 DEF Does_syscall_ipcrcv_oneshot, Pointers, PointersAt, HasBlock,
           BoxTyped
    <2>3. QED
      BY <1>1, <1>2, <2>1, <2>2, PointersStep DEF Does_syscall_ipcrcv_oneshot
  <1>7. Pending' = Pending
    BY <1>1, <1>2, PendingSame DEF Does_syscall_ipcrcv_oneshot, PushLabel
  <1>8. Bounded'
    <2>1. /\ \A s \in Proc : length'[s] + Cardinality(Pending) <= count
          /\ pc'[p] \in {"length", "pop_length"} => loc'[p].i + Cardinality(Pending) <= count
      BY <1>1, <1>2, FS_CardinalityType DEF Does_syscall_ipcrcv_oneshot, Bounded, BoxTyped,
           RestTyped, Cell
    <2>2. QED
      BY <1>1, <1>2, <1>7, <2>1, BoundedStep DEF Does_syscall_ipcrcv_oneshot
  <1>9. PopNeverUnderflows'
    BY <1>1, <1>2 DEF PopNeverUnderflows, Does_syscall_ipcrcv_oneshot, Others, BoxTyped,
         CallTyped, Cell
  <1>10. QED
    BY <1>2, <1>3, <1>4, <1>5, <1>6, <1>8, <1>9, TypeParts DEF AnyInv,
         Does_syscall_ipcrcv_oneshot

\* A step of syscall_exit preserves what holds in every run.
LEMMA Any_syscall_exit ==
    ASSUME AnyInv, NEW p \in Proc, syscall_exit(p)
    PROVE  AnyInv'
  <1>1. /\ CallTyped /\ BoxTyped /\ HeapTyped /\ RestTyped /\ Pointers /\ Bounded
        /\ PopNeverUnderflows
    BY TypeParts DEF AnyInv
  <1>2. Does_syscall_exit(p)
    BY <1>1, Eff_syscall_exit
  <1>3. BoxTyped'
    BY <1>1, <1>2 DEF BoxTyped, Does_syscall_exit
  <1>4. HeapTyped'
    BY <1>1, <1>2 DEF HeapTyped, Does_syscall_exit, FreedSize
  <1>5. RestTyped'
    BY <1>1, <1>2 DEF RestTyped, Does_syscall_exit
  <1>6. Pointers'
    <2>1. PointersAt(p)'
      BY <1>1, <1>2 DEF Does_syscall_exit, PointersAt, Pointers, HasBlock, PushLabel,
           PopLabel, BoxTyped, Null
    <2>2. \A s \in Proc : (data[s] # Null => data'[s] # Null) /\ HasBlock(s)'
      BY <1>1, <1>2 DEF Does_syscall_exit, Pointers, PointersAt, HasBlock, BoxTyped
    <2>3. QED
      BY <1>1, <1>2, <2>1, <2>2, PointersStep DEF Does_syscall_exit
  <1>7. Pending' = Pending
    BY <1>1, <1>2, PendingSame DEF Does_syscall_exit, PushLabel
  <1>8. Bounded'
    <2>1. /\ \A s \in Proc : length'[s] + Cardinality(Pending) <= count
          /\ pc'[p] \in {"length", "pop_length"} => loc'[p].i + Cardinality(Pending) <= count
      BY <1>1, <1>2, FS_CardinalityType DEF Does_syscall_exit, Bounded, BoxTyped, RestTyped,
           Cell
    <2>2. QED
      BY <1>1, <1>2, <1>7, <2>1, BoundedStep DEF Does_syscall_exit
  <1>9. PopNeverUnderflows'
    BY <1>1, <1>2 DEF PopNeverUnderflows, Does_syscall_exit, Others, BoxTyped, CallTyped,
         Cell
  <1>10. QED
    BY <1>2, <1>3, <1>4, <1>5, <1>6, <1>8, <1>9, TypeParts DEF AnyInv, Does_syscall_exit

\* A step of slayer_vec_free preserves what holds in every run.
LEMMA Any_slayer_vec_free ==
    ASSUME AnyInv, NEW p \in Proc, slayer_vec_free(p)
    PROVE  AnyInv'
  <1>1. /\ CallTyped /\ BoxTyped /\ HeapTyped /\ RestTyped /\ Pointers /\ Bounded
        /\ PopNeverUnderflows
    BY TypeParts DEF AnyInv
  <1>2. Does_slayer_vec_free(p)
    BY <1>1, Eff_slayer_vec_free
  <1>3. BoxTyped'
    BY <1>1, <1>2 DEF BoxTyped, Does_slayer_vec_free
  <1>4. HeapTyped'
    BY <1>1, <1>2 DEF HeapTyped, Does_slayer_vec_free, FreedSize
  <1>5. RestTyped'
    BY <1>1, <1>2 DEF RestTyped, Does_slayer_vec_free
  <1>6. Pointers'
    <2>1. PointersAt(p)'
      BY <1>1, <1>2 DEF Does_slayer_vec_free, PointersAt, Pointers, HasBlock, PushLabel,
           PopLabel, BoxTyped, Null
    <2>2. \A s \in Proc : (data[s] # Null => data'[s] # Null) /\ HasBlock(s)'
      BY <1>1, <1>2 DEF Does_slayer_vec_free, Pointers, PointersAt, HasBlock, BoxTyped
    <2>3. QED
      BY <1>1, <1>2, <2>1, <2>2, PointersStep DEF Does_slayer_vec_free
  <1>7. Pending' = Pending
    BY <1>1, <1>2, PendingSame DEF Does_slayer_vec_free, PushLabel
  <1>8. Bounded'
    <2>1. /\ \A s \in Proc : length'[s] + Cardinality(Pending) <= count
          /\ pc'[p] \in {"length", "pop_length"} => loc'[p].i + Cardinality(Pending) <= count
      BY <1>1, <1>2, FS_CardinalityType DEF Does_slayer_vec_free, Bounded, BoxTyped,
           RestTyped, Cell
    <2>2. QED
      BY <1>1, <1>2, <1>7, <2>1, BoundedStep DEF Does_slayer_vec_free
  <1>9. PopNeverUnderflows'
    BY <1>1, <1>2 DEF PopNeverUnderflows, Does_slayer_vec_free, Others, BoxTyped, CallTyped,
         Cell
  <1>10. QED
    BY <1>2, <1>3, <1>4, <1>5, <1>6, <1>8, <1>9, TypeParts DEF AnyInv, Does_slayer_vec_free

\* A step of syscall_ipcsend preserves what holds in every run.
LEMMA Any_syscall_ipcsend ==
    ASSUME AnyInv, NEW p \in Proc, NEW r \in Proc, syscall_ipcsend(p, r)
    PROVE  AnyInv'
  <1>1. /\ CallTyped /\ BoxTyped /\ HeapTyped /\ RestTyped /\ Pointers /\ Bounded
        /\ PopNeverUnderflows
    BY TypeParts DEF AnyInv
  <1>2. Does_syscall_ipcsend(p, r)
    BY <1>1, Eff_syscall_ipcsend
  <1>3. BoxTyped' /\ HeapTyped' /\ CallTyped'
    BY <1>1, <1>2 DEF BoxTyped, HeapTyped, Does_syscall_ipcsend
  <1>5. RestTyped'
    <2>1. raced' \in BOOLEAN
      <3>1. raced' = raced \/ raced' = (raced \/ Inside(r) # {})
        BY <1>2 DEF Does_syscall_ipcsend
      <3>2. QED
        BY <1>1, <3>1, Zenon DEF RestTyped
    <2>2. /\ count' \in 0 .. MaxSends
          /\ status' \in {"running", "panic_receiver", "panic_ptr", "overrun"}
      BY <1>1, <1>2 DEF RestTyped, Does_syscall_ipcsend
    <2>3. alive' = alive /\ got' = got /\ stolen' = stolen
      BY <1>2 DEF Does_syscall_ipcsend
    <2>4. QED
      BY <1>1, <2>1, <2>2, <2>3 DEF RestTyped
  <1>6. Pointers'
    <2>1. PointersAt(p)'
      BY <1>1, <1>2 DEF Does_syscall_ipcsend, PointersAt, Pointers, PushLabel, PopLabel
    <2>2. \A s \in Proc : (data[s] # Null => data'[s] # Null) /\ HasBlock(s)'
      BY <1>1, <1>2 DEF Does_syscall_ipcsend, Pointers, HasBlock
    <2>3. QED
      BY <1>1, <1>2, <2>1, <2>2, PointersStep DEF Does_syscall_ipcsend
  <1>7. Bounded'
    <2>1. CASE pc'[p] = "user"
      <3>1. Pending' = Pending
        BY <1>1, <1>2, <2>1, PendingSame DEF Does_syscall_ipcsend, PushLabel
      <3>2. QED
        <4>1. ASSUME NEW q \in Proc
              PROVE  /\ length'[q] + Cardinality(Pending') <= count'
                     /\ pc'[q] \in {"length", "pop_length"} =>
                           loc'[q].i + Cardinality(Pending') <= count'
          <5>1. length[q] \in Nat /\ loc[q].i \in Nat /\ count \in Nat
            BY <1>1, Fields DEF BoxTyped, CallTyped, RestTyped, Cell
          <5>2. /\ length'[q] = length[q] /\ count' = count + 1
                /\ pc'[q] \in {"length", "pop_length"} => pc'[q] = pc[q] /\ loc'[q] = loc[q]
            BY <1>2, <2>1 DEF Does_syscall_ipcsend, Others
          <5>3. /\ length[q] + Cardinality(Pending) <= count
                /\ pc[q] \in {"length", "pop_length"} => loc[q].i + Cardinality(Pending) <= count
                /\ Cardinality(Pending) \in Nat
            BY <1>1, FS_CardinalityType DEF Bounded
          <5>4. QED
            BY <3>1, <5>1, <5>2, <5>3
        <4>2. QED
          BY <1>1, <3>1, <4>1 DEF Bounded
    <2>2. CASE pc'[p] = "expand"
      <3>1. Pending' = Pending \cup {p} /\ p \notin Pending
        <4>1. p \notin Pending
          BY <1>2 DEF Does_syscall_ipcsend, Pending, PushLabel
        <4>2. \A q \in Proc : pc'[q] \in PushLabel \ {"slot"}
                                 <=> pc[q] \in PushLabel \ {"slot"} \/ q = p
          BY <1>2, <2>2 DEF Does_syscall_ipcsend, Others, PushLabel
        <4>3. QED
          BY <4>1, <4>2, Zenon DEF Pending
      <3>2. IsFiniteSet(Pending') /\ Cardinality(Pending') = Cardinality(Pending) + 1
        BY <1>1, <3>1, FS_AddElement DEF Bounded
      <3>3. Cardinality(Pending) \in Nat
        BY <1>1, FS_CardinalityType DEF Bounded
      <3>4. ASSUME NEW q \in Proc
            PROVE  /\ length'[q] + Cardinality(Pending') <= count'
                   /\ pc'[q] \in {"length", "pop_length"} =>
                         loc'[q].i + Cardinality(Pending') <= count'
        <4>1. length[q] \in Nat /\ loc[q].i \in Nat /\ count \in Nat
          BY <1>1, Fields DEF BoxTyped, CallTyped, RestTyped, Cell
        <4>2. length'[q] = length[q] /\ count' = count + 1
              /\ (pc'[q] \in {"length", "pop_length"} => pc'[q] = pc[q] /\ loc'[q] = loc[q])
          BY <1>2, <2>2 DEF Does_syscall_ipcsend, Others
        <4>3. QED
          BY <1>1, <3>2, <3>3, <4>1, <4>2 DEF Bounded
      <3>5. QED
        BY <3>2, <3>4 DEF Bounded
    <2>3. QED
      BY <1>2, <2>1, <2>2 DEF Does_syscall_ipcsend
  <1>8. PopNeverUnderflows'
    BY <1>1, <1>2 DEF PopNeverUnderflows, Does_syscall_ipcsend, Others, CallTyped
  <1>9. QED
    BY <1>3, <1>5, <1>6, <1>7, <1>8, TypeParts DEF AnyInv

\* A step of vec_push_length preserves what holds in every run.
LEMMA Any_vec_push_length ==
    ASSUME AnyInv, NEW p \in Proc, vec_push_length(p)
    PROVE  AnyInv'
  <1>1. /\ CallTyped /\ BoxTyped /\ HeapTyped /\ RestTyped /\ Pointers /\ Bounded
        /\ PopNeverUnderflows
    BY TypeParts DEF AnyInv
  <1>2. Does_vec_push_length(p)
    BY <1>1, Eff_vec_push_length
  <1>3. Pending' = Pending \ {p} /\ p \in Pending
    <2>1. p \in Pending
      BY <1>2 DEF Does_vec_push_length, Pending, PushLabel
    <2>2. \A q \in Proc : pc'[q] \in PushLabel \ {"slot"}
                             <=> pc[q] \in PushLabel \ {"slot"} /\ q # p
      BY <1>2 DEF Does_vec_push_length, Others, PushLabel
    <2>3. QED
      BY <2>1, <2>2, Zenon DEF Pending
  <1>4. IsFiniteSet(Pending') /\ Cardinality(Pending') = Cardinality(Pending) - 1
    BY <1>1, <1>3, FS_RemoveElement DEF Bounded
  <1>5. Cardinality(Pending) \in Nat /\ Cardinality(Pending') \in Nat
    BY <1>1, <1>4, FS_CardinalityType DEF Bounded
  <1>6. loc[p].i + 1 + Cardinality(Pending') <= count
    BY <1>1, <1>2, <1>4, <1>5 DEF Bounded, Does_vec_push_length, Cell
  <1>7. loc[p].i + 1 \in Cell
    BY <1>1, <1>2, <1>5, <1>6 DEF RestTyped, Does_vec_push_length, Cell
  <1>8. BoxTyped' /\ HeapTyped' /\ RestTyped' /\ CallTyped'
    BY <1>1, <1>2, <1>7 DEF BoxTyped, HeapTyped, RestTyped, Does_vec_push_length
  <1>9. Pointers'
    <2>1. PointersAt(p)'
      BY <1>1, <1>2 DEF Does_vec_push_length, PointersAt, Pointers, PushLabel, PopLabel
    <2>2. \A s \in Proc : (data[s] # Null => data'[s] # Null) /\ HasBlock(s)'
      BY <1>1, <1>2 DEF Does_vec_push_length, Pointers, PointersAt, HasBlock
    <2>3. QED
      BY <1>1, <1>2, <2>1, <2>2, PointersStep DEF Does_vec_push_length
  <1>10. Bounded'
    <2>1. ASSUME NEW q \in Proc
          PROVE  /\ length'[q] + Cardinality(Pending') <= count'
                 /\ pc'[q] \in {"length", "pop_length"} =>
                       loc'[q].i + Cardinality(Pending') <= count'
      <3>1. length[q] \in Nat /\ loc[q].i \in Nat /\ count \in Nat
        BY <1>1, Fields DEF BoxTyped, CallTyped, RestTyped, Cell
      <3>2. /\ length'[q] = length[q] \/ length'[q] = loc[p].i + 1
            /\ count' = count
            /\ (pc'[q] \in {"length", "pop_length"} => pc'[q] = pc[q] /\ loc'[q] = loc[q])
        BY <1>2 DEF Does_vec_push_length, Others
      <3>3. /\ length[q] + Cardinality(Pending) <= count
            /\ pc[q] \in {"length", "pop_length"} => loc[q].i + Cardinality(Pending) <= count
        BY <1>1 DEF Bounded
      <3>4. QED
        BY <1>4, <1>5, <1>6, <3>1, <3>2, <3>3
    <2>2. QED
      BY <1>4, <2>1 DEF Bounded
  <1>11. PopNeverUnderflows'
    <2>1. ASSUME NEW q \in Proc, pc'[q] = "pop_load" PROVE length'[q] > 0
      <3>1. pc[q] = "pop_load" /\ length[q] > 0
        BY <1>1, <1>2, <2>1 DEF PopNeverUnderflows, Does_vec_push_length, Others
      <3>2. QED
        BY <1>2, <3>1 DEF Does_vec_push_length, Cell
    <2>2. QED
      BY <2>1 DEF PopNeverUnderflows
  <1>12. QED
    BY <1>8, <1>9, <1>10, <1>11, TypeParts DEF AnyInv

\* AnyInv holds when the kernel has created its processes.
LEMMA AnyInitially == Init => AnyInv
  <1> SUFFICES ASSUME Init PROVE AnyInv
    OBVIOUS
  <1>1. CallTyped
    BY LocalTyped DEF Init, CallTyped
  <1>2. BoxTyped /\ HeapTyped
    BY DEF Init, BoxTyped, HeapTyped, Cell
  <1>a. RestTyped
    <2>1. << >> \in Seq(Message \cup {Unwritten})
      OBVIOUS
    <2>2. QED
      <3>1. got \in [Proc -> Seq(Message \cup {Unwritten})]
        BY <2>1 DEF Init
      <3>2. raced \in BOOLEAN /\ stolen \in BOOLEAN
        BY Zenon DEF Init
      <3>3. /\ alive \subseteq Proc /\ count \in 0 .. MaxSends
            /\ status \in {"running", "panic_receiver", "panic_ptr", "overrun"}
        BY DEF Init
      <3>4. QED
        BY <3>1, <3>2, <3>3, Zenon DEF RestTyped
  <1>3. Pointers
    BY DEF Init, Pointers, PointersAt, HasBlock, PushLabel, PopLabel
  <1>4. Bounded
    <2>1. Pending = {}
      BY DEF Init, Pending, PushLabel
    <2>2. QED
      BY <2>1, FS_EmptySet DEF Init, Bounded
  <1>5. PopNeverUnderflows
    BY DEF Init, PopNeverUnderflows
  <1>6. QED
    BY <1>1, <1>2, <1>a, <1>3, <1>4, <1>5, TypeParts DEF AnyInv

\* Every step preserves AnyInv, races included.
LEMMA AnyStep == AnyInv /\ [Next]_vars => AnyInv'
  <1> SUFFICES ASSUME AnyInv, [Next]_vars PROVE AnyInv'
    OBVIOUS
  <1>1. CASE UNCHANGED vars
    BY <1>1 DEF vars, box_vars, heap_vars, AnyInv, TypeOK, Pointers, PointersAt, HasBlock,
                Bounded, Pending, PopNeverUnderflows
  <1>2. ASSUME NEW p \in Proc, call(p) PROVE AnyInv'
    BY <1>1, <1>2, Any_syscall_ipcsend, Any_syscall_ipcrcv_sync, Any_syscall_ipcrcv_oneshot,
       Any_syscall_exit
    DEF call, rcv_sync_yield
  <1>3. ASSUME NEW p \in Proc, push_step(p) PROVE AnyInv'
    BY <1>3, Any_vec_expand_, Any_realloc, Any_realloc_malloc, Any_realloc_copy,
       Any_realloc_free, Any_vec_expand_data, Any_vec_expand_capacity, Any_vec_push_load,
       Any_vec_push_length, Any_vec_push_slot
    DEF push_step
  <1>4. ASSUME NEW p \in Proc, pop_step(p) PROVE AnyInv'
    BY <1>4, Any_rcv_sync_done, Any_vec_pop_load, Any_vec_pop_length, Any_vec_pop_read
    DEF pop_step
  <1>5. ASSUME NEW p \in Proc, slayer_vec_free(p) PROVE AnyInv'
    BY <1>5, Any_slayer_vec_free
  <1>6. QED
    BY <1>1, <1>2, <1>3, <1>4, <1>5 DEF Next, Stopped

\* Kernel-side state stays in its types however the calls interleave: in
\* particular no length leaves the cells and no index drops below zero.
THEOREM TypeCorrect == Spec => []TypeOK
  <1>1. Spec => []AnyInv
    BY AnyInitially, AnyStep, PTL DEF Spec
  <1>2. AnyInv => TypeOK
    BY DEF AnyInv
  <1>3. QED
    BY <1>1, <1>2, PTL

\* vec_pop never takes a message from an empty mailbox, however the calls of
\* all processes interleave.
THEOREM PopsNeverUnderflow == Spec => []PopNeverUnderflows
  <1>1. Spec => []AnyInv
    BY AnyInitially, AnyStep, PTL DEF Spec
  <1>2. AnyInv => PopNeverUnderflows
    BY DEF AnyInv
  <1>3. QED
    BY <1>1, <1>2, PTL
=============================================================================
