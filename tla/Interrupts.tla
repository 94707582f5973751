----------------------------- MODULE Interrupts -----------------------------
(***************************************************************************)
(* Interrupts, exceptions and system call entry on the one CPU: the gates  *)
(* (idt.c, idt.s, gdt.c), interrupts_handler (interrupt.c), syscall.s, the *)
(* context switch (arch.c, sched.c), the PIC and the report of a fault     *)
(* over the serial line.                                                   *)
(*                                                                         *)
(* A context is what the CPU restores: where the code stands, its stack    *)
(* and the interrupt flag.  A frame on a stack is the context it returns   *)
(* to.  A process "computes" between two marks (work), so that a context   *)
(* that is not its latest one can be told.                                 *)
(***************************************************************************)
EXTENDS Text, FiniteSets

CONSTANTS User,          \* user processes, 1 .. n
          SWITCH_TICK,
          Irq,           \* interrupt lines in use
          Exception,     \* exceptions that occur
          Site,          \* where: the address, and the callers' addresses
          Symbols,       \* the symbol table
          Pages, PAGE_SIZE,
          MaxDepth       \* bound: frames on one stack

ASSUME UserAssumption == User \subseteq Nat \ {0}

\* Sixteen lines; the first 32 vectors are exceptions.
ASSUME IrqAssumption == Irq \subseteq 0 .. 15

ASSUME ExceptionAssumption == Exception \subseteq 0 .. 31

\* Pids and addresses are words, and the machine's memory is counted in half
\* of one.
ASSUME WordAssumption ==
    /\ User \subseteq 0 .. Word - 1
    /\ PAGE_SIZE \in Nat \ {0} /\ Pages \subseteq Nat
    /\ \A n \in Pages : n * PAGE_SIZE < Word \div 2
    /\ \A site \in Site : /\ site.rip \in 0 .. Word - 1 /\ site.cr2 \in 0 .. Word - 1
                          /\ site.callers \in Seq(0 .. Word - 1)

\* Where the functions of the symbol table begin and end.
Sized == {i \in 1 .. Len(Symbols) : Len(Symbols[i]) = 4}

First == [i \in 1 .. Len(Symbols) |-> hex2int(Symbols[i][1])]

Behind == [i \in Sized |-> First[i] + hex2int(Symbols[i][2])]

\* A line of nm -S has an address, a size if it has one, a letter and a name.
\* The kernel is linked where the sign extension of an int reaches, and no
\* symbol of the text lies inside a function.
HexWord == {w \in Seq((48 .. 57) \cup (97 .. 102)) : Len(w) = 2 * HALF}

ASSUME SymbolsAssumption ==
    /\ Symbols \in Seq(Seq(Seq(Nat)))
    /\ \A i \in 1 .. Len(Symbols) :
         /\ Len(Symbols[i]) \in {3, 4}
         /\ Symbols[i][1] \in HexWord /\ Unsigned(AsInt(First[i])) = First[i]
         /\ Symbols[i][2] \in IF i \in Sized THEN HexWord ELSE Seq(Nat) \ {<< >>}
         /\ i \in Sized \/ Sizeless(Symbols[i]) =>
              \A j \in Sized \ {i} : First[i] \notin First[j] .. Behind[j] - 1
    /\ \A i \in Sized : Behind[i] < Word /\ Unsigned(AsInt(Behind[i])) = Behind[i]

VARIABLES cpu,           \* the context the CPU executes
          frames,        \* the frames on each stack
          process,       \* of each process: state and saved regs
          current_pid, tick, is_scheduler,
          gs,            \* the process the GS base points to
          pic,           \* lines in service, of master and slave
          has_fault,
          lock,          \* the serial lock
          fault,         \* the frame of the reported exception, and the next line
          printed,       \* the last line printed, until other code runs
          work, freed,   \* history: the mark each process is at; freed stacks
          strayed        \* history: a switch was made from inside the kernel's
                         \* entry or exit code

vars == << cpu, frames, process, current_pid, tick, is_scheduler, gs, pic, has_fault,
           lock, fault, printed, work, freed, strayed >>

Process == User \cup {0}

IntStack == << "int", 0 >>          \* tss.rsp[0], one for all
SysStack(p) == << "sys", p >>       \* syscall_kernel_stack
UserStack(p) == << "user", p >>
Stack == {IntStack, << "kernel", 0 >>} \cup {SysStack(p) : p \in User} \cup {UserStack(p) : p \in User}

Context(at, stack, depth, owner, flag) ==
    [at |-> at, stack |-> stack, depth |-> depth, owner |-> owner, work |-> 0,
     flag |-> flag, intno |-> 0]

\* Places of process code; the others belong to interrupts_handler.
Place == {"user", "entry", "body", "dying", "exit", "kernel"}

Start(p) == Context("user", UserStack(p), 0, p, TRUE)

Init ==
    /\ cpu = Context("kernel", << "kernel", 0 >>, 0, 0, TRUE)
    /\ frames = [s \in Stack |-> << >>]
    /\ process = [p \in {0} |-> [state |-> "TASK_RUNNING", regs |-> cpu]]
    /\ current_pid = 0
    /\ tick = 0
    /\ is_scheduler = FALSE
    /\ gs = 0
    /\ pic = [master |-> {}, slave |-> {}]
    /\ has_fault = FALSE
    /\ lock = 0
    /\ fault = << >>
    /\ printed = << >>
    /\ work = [p \in Process |-> 0]
    /\ freed = {}
    /\ strayed = FALSE

-----------------------------------------------------------------------------
(***************************************************************************)
(* Printing.                                                               *)
(***************************************************************************)

\* A call of print_format; PRINT_FORMAT(format, args) is its text.
Line(format, args) == [format |-> format, args |-> args]

\* What find_symbols finds for the addresses of a report.
NameOf == [rip \in UNION {{site.rip} \cup ToSet(site.callers) : site \in Site} |->
             find_symbols(Symbols, rip)]

\* Mutant: the lock is not released.
arch_serial_puts_keeps_lock(line) ==
    /\ lock = 0
    /\ lock' = 1
    /\ printed' = line
    /\ cpu' = [cpu EXCEPT !.flag = TRUE]

\* Acquired and released within the call, with interrupts off; on from then.
arch_serial_puts(line) ==
    /\ lock = 0
    /\ lock' = lock
    /\ printed' = line
    /\ cpu' = [cpu EXCEPT !.flag = TRUE]

-----------------------------------------------------------------------------
(***************************************************************************)
(* Gates.                                                                  *)
(***************************************************************************)

\* Vectors 3 and 4 are trap gates, which leave the interrupt flag alone.
FlagBehind(intno) == IF intno \in {3, 4} THEN cpu.flag ELSE FALSE

\* From user mode the CPU takes the stack of the TSS, from its top; in the
\* kernel it stays on the stack it is on.  (No gate uses the IST.)
FrameAt == IF cpu.at = "user" THEN << IntStack, 1 >> ELSE << cpu.stack, cpu.depth + 1 >>

\* What lies above the innermost frame is dead and not kept.
WithFrame(stack, depth, context) ==
    [frames EXCEPT ![stack] = Append(SubSeq(@, 1, depth - 1), context)]

\* __interrupt<n>: the frame, then interrupts_handler.
interrupt(intno) ==
    /\ FrameAt[2] <= MaxDepth
    /\ frames' = WithFrame(FrameAt[1], FrameAt[2], cpu)
    /\ cpu' = [Context("handler", FrameAt[1], FrameAt[2], 0, FlagBehind(intno)) EXCEPT !.intno = intno]

MasterLine(irq) == IF irq >= 8 THEN 2 ELSE irq

\* A device raises a line the PIC lets through: none of the same or a higher
\* priority is in service.
irq_comes(irq) ==
    /\ cpu.flag
    /\ \A l \in pic.master : MasterLine(irq) < l
    /\ \A l \in pic.slave : irq < l
    /\ interrupt(32 + irq)
    /\ pic' = [master |-> pic.master \cup {MasterLine(irq)},
               slave |-> pic.slave \cup (IF irq >= 8 THEN {irq} ELSE {})]
    /\ UNCHANGED << process, current_pid, tick, is_scheduler, gs, has_fault, lock, fault,
                    printed, work, freed, strayed >>

\* An exception in process code; with held, inside serial_puts.
exception(intno, held) ==
    /\ interrupt(intno)
    /\ lock' = IF held THEN 1 ELSE lock
    /\ UNCHANGED << process, current_pid, tick, is_scheduler, gs, pic, has_fault, fault,
                    printed, work, freed, strayed >>

fault_in_code(intno) ==
    /\ cpu.at \in {"user", "kernel", "body"}
    /\ exception(intno, FALSE)

-----------------------------------------------------------------------------
(***************************************************************************)
(* interrupts_handler.                                                     *)
(***************************************************************************)
Running(p) == p \in DOMAIN process /\ process[p].state = "TASK_RUNNING"

\* next_pid until a process is running.
next_pid ==
    LET later == {p \in DOMAIN process : Running(p) /\ p > current_pid}
        all == {p \in DOMAIN process : Running(p)}
        of == IF later # {} THEN later ELSE all
    IN  CHOOSE p \in of : \A q \in of : p <= q

\* Mutant: GS keeps pointing to the process that was switched from.
arch_context_switch_no_gs(p) ==
    /\ frames' = WithFrame(cpu.stack, cpu.depth, process'[p].regs)
    /\ gs' = IF gs = 0 THEN p ELSE gs

\* The frame is replaced by the saved registers.
arch_context_switch(p) ==
    /\ frames' = WithFrame(cpu.stack, cpu.depth, process'[p].regs)
    /\ gs' = p

arch_context_save(p) ==
    process' = [process EXCEPT ![p].regs = frames[cpu.stack][cpu.depth]]

\* The frame on the stack is one of interrupts_handler itself, or the stack is
\* a process's own, which the switch of the address space takes away.
Strays ==
    \/ frames[cpu.stack][cpu.depth].at \notin Place
    \/ \E p \in User : cpu.stack = UserStack(p)

\* Up to the release, which enables interrupts.
yield_task ==
    /\ cpu' = [cpu EXCEPT !.at = "scheduled", !.flag = TRUE]
    /\ IF tick + 1 >= SWITCH_TICK + 1
       THEN /\ tick' = 0
            /\ arch_context_save(current_pid)
            /\ current_pid' = next_pid
            /\ arch_context_switch(next_pid)
            /\ strayed' = Strays
       ELSE /\ tick' = tick + 1
            /\ UNCHANGED << frames, gs, process, current_pid, strayed >>
    /\ UNCHANGED << is_scheduler, pic, has_fault, lock, fault, printed, work, freed >>

\* Lines other than the timer's have no driver.
irq_ignored ==
    /\ cpu' = [cpu EXCEPT !.at = "scheduled"]
    /\ UNCHANGED << frames, process, current_pid, tick, is_scheduler, gs, pic, has_fault,
                    lock, fault, printed, work, freed, strayed >>

\* The message of a double fault, then cli and for(;;).
double_fault ==
    /\ lock = 0
    /\ cpu' = [cpu EXCEPT !.at = "halted", !.flag = FALSE]
    /\ UNCHANGED << frames, process, current_pid, tick, is_scheduler, gs, pic, has_fault,
                    lock, fault, printed, work, freed, strayed >>

backtrace(callers) ==
    [i \in 1 .. Len(callers) |->
       IF NameOf[callers[i]] = << >> THEN Line(<< "a" >>, << fmtvald(callers[i]) >>)
       ELSE Line(<< "a", "" >>, << fmtvald(callers[i]), fmtvals(NameOf[callers[i]]) >>)]

\* The lines of the report: exception, error, registers, RIP, PID, backtrace.
Report(site, intno) ==
    << Line(<< "" >>, << fmtvals(<< 64 + intno >>) >>),
       Line(<< "" >>, << fmtvald(0) >>),
       Line(<< "a", "a" >>, << fmtvald(site.rip), fmtvald(site.cr2) >>),
       Line(<< "a", "" >>, << fmtvald(site.rip), fmtvals(NameOf[site.rip]) >>) >>
    \o (IF is_scheduler THEN << Line(<< "" >>, << fmtvald(current_pid) >>) >> ELSE << >>)
    \o backtrace(site.callers)

panic ==
    /\ has_fault' = TRUE
    /\ cpu' = [cpu EXCEPT !.at = "report"]
    /\ \E site \in Site : fault' = Report(site, cpu.intno)
    /\ UNCHANGED << frames, process, current_pid, tick, is_scheduler, gs, pic, lock,
                    printed, work, freed, strayed >>

\* Mutant: a second entry is treated like the first.
interrupts_handler_no_check ==
    /\ cpu.at = "handler"
    /\ IF cpu.intno < 32 THEN panic
       ELSE IF cpu.intno = 32 /\ is_scheduler THEN yield_task
       ELSE irq_ignored

\* (Vector 0x80 has no gate, so its branch is never taken.)
interrupts_handler ==
    /\ cpu.at = "handler"
    /\ IF has_fault THEN double_fault
       ELSE IF cpu.intno < 32 THEN panic
       ELSE IF cpu.intno = 32 /\ is_scheduler THEN yield_task
       ELSE irq_ignored

\* One line of the report after another; with the lock taken by the code
\* that failed the report never begins.
report_line ==
    /\ cpu.at = "report"
    /\ fault # << >>
    /\ arch_serial_puts(Head(fault))
    /\ fault' = Tail(fault)
    /\ UNCHANGED << frames, process, current_pid, tick, is_scheduler, gs, pic, has_fault,
                    work, freed, strayed >>

arch_hlt ==
    /\ cpu.at = "report"
    /\ fault = << >>
    /\ cpu' = [cpu EXCEPT !.at = "halted", !.flag = FALSE]
    /\ UNCHANGED << frames, process, current_pid, tick, is_scheduler, gs, pic, has_fault,
                    lock, fault, printed, work, freed, strayed >>

\* An EOI ends the line with the highest priority.
Answered(lines) == {l \in lines : \E m \in lines : m < l}

\* Mutant: the slave's first line is taken for one of the master's.
pic_sendEOI_above_8 ==
    /\ cpu.at = "scheduled"
    /\ pic' = [master |-> Answered(pic.master),
               slave |-> IF cpu.intno > 40 THEN Answered(pic.slave) ELSE pic.slave]
    /\ cpu' = [cpu EXCEPT !.at = "answered"]
    /\ UNCHANGED << frames, process, current_pid, tick, is_scheduler, gs, has_fault, lock,
                    fault, printed, work, freed, strayed >>

pic_sendEOI ==
    /\ cpu.at = "scheduled"
    /\ pic' = [master |-> Answered(pic.master),
               slave |-> IF cpu.intno >= 40 THEN Answered(pic.slave) ELSE pic.slave]
    /\ cpu' = [cpu EXCEPT !.at = "answered"]
    /\ UNCHANGED << frames, process, current_pid, tick, is_scheduler, gs, has_fault, lock,
                    fault, printed, work, freed, strayed >>

iretq ==
    /\ cpu.at = "answered"
    /\ cpu' = frames[cpu.stack][cpu.depth]
    /\ frames' = [frames EXCEPT ![cpu.stack] = SubSeq(@, 1, cpu.depth - 1)]
    /\ UNCHANGED << process, current_pid, tick, is_scheduler, gs, pic, has_fault,
                    lock, fault, printed, work, freed, strayed >>

-----------------------------------------------------------------------------
(***************************************************************************)
(* Process code: kmain and the task slayer, which are process 0, and user  *)
(* programs with their system calls.                                       *)
(***************************************************************************)
kernel_splash ==
    /\ cpu.at = "kernel"
    /\ ~is_scheduler
    /\ printed = << >>
    /\ \E n \in Pages :
         arch_serial_puts(Line(<< "M", "" >>, << fmtvald(n * PAGE_SIZE), fmtvald(n) >>))
    /\ UNCHANGED << frames, process, current_pid, tick, is_scheduler, gs, pic, has_fault,
                    fault, work, freed, strayed >>

sched_init ==
    /\ cpu.at = "kernel"
    /\ printed # << >>
    /\ is_scheduler' = TRUE
    /\ printed' = << >>
    /\ UNCHANGED << cpu, frames, process, current_pid, tick, gs, pic, has_fault, lock, fault,
                    work, freed, strayed >>

sched_push_process(p) ==
    /\ cpu.at = "kernel"
    /\ is_scheduler
    /\ p = Cardinality(DOMAIN process)
    /\ process' = [q \in DOMAIN process \cup {p} |->
                     IF q = p THEN [state |-> "TASK_RUNNING", regs |-> Start(p)] ELSE process[q]]
    /\ UNCHANGED << cpu, frames, current_pid, tick, is_scheduler, gs, pic, has_fault, lock,
                    fault, printed, work, freed, strayed >>

task_slayer(p) ==
    /\ cpu.at = "kernel"
    /\ p \in DOMAIN process
    /\ process[p].state = "TASK_WAITINGFORDEATH"
    /\ freed' = freed \cup {SysStack(p)}
    /\ UNCHANGED << cpu, frames, process, current_pid, tick, is_scheduler, gs, pic, has_fault,
                    lock, fault, printed, work, strayed >>

\* The program goes on, or makes a system call, or comes back from one.
user_code(to) ==
    /\ \/ cpu.at = "user" /\ to \in {"user", "entry"}
       \/ cpu.at = "exit" /\ to = "user"
    /\ cpu' = [cpu EXCEPT !.at = to, !.work = (@ + 1) % 2]
    /\ work' = [work EXCEPT ![cpu.owner] = (@ + 1) % 2]
    /\ UNCHANGED << frames, process, current_pid, tick, is_scheduler, gs, pic, has_fault,
                    lock, fault, printed, freed, strayed >>

\* To the stack of the process GS points to; interrupts stay enabled, the
\* flag mask being 0 (syscall_init).
syscall_handle ==
    /\ cpu.at = "entry"
    /\ cpu' = [cpu EXCEPT !.at = "body", !.stack = SysStack(gs)]
    /\ UNCHANGED << frames, process, current_pid, tick, is_scheduler, gs, pic, has_fault,
                    lock, fault, printed, work, freed, strayed >>

Sys == {"SYS_IPC_SEND", "SYS_IPC_RCV_SYNC", "SYS_IPC_RCV_ONESHOT", "SYS_LOG", "SYS_ALLOC",
        "SYS_FREE", "SYS_REALLOC", "SYS_EXIT", "SYS_GETPID"}

\* The table has no entry for the calls that malloc, free and realloc make.
syscall_matrix == Sys \ {"SYS_ALLOC", "SYS_FREE", "SYS_REALLOC"}

\* Back to the user stack GS holds.
syscall_return ==
    /\ cpu' = [cpu EXCEPT !.at = "exit", !.stack = UserStack(gs)]
    /\ UNCHANGED << frames, process, current_pid, is_scheduler, gs, pic, has_fault, lock, fault,
                    printed, work, freed, strayed >>

syscall_exit ==
    /\ process' = [process EXCEPT ![current_pid].state = "TASK_WAITINGFORDEATH"]
    /\ cpu' = [cpu EXCEPT !.at = "dying"]
    /\ UNCHANGED << frames, current_pid, tick, is_scheduler, gs, pic, has_fault, lock, fault,
                    printed, work, freed, strayed >>

\* No message yet: force_yield, again and again.
rcv_waits ==
    /\ tick' = SWITCH_TICK
    /\ UNCHANGED << cpu, frames, process, current_pid, is_scheduler, gs, pic, has_fault, lock,
                    fault, printed, work, freed, strayed >>

\* A string the program may not read is found out under the serial lock.
syscall_log_faults == exception(14, TRUE)

\* No such receiver: raise_debug, after the message.
assert_fails == exception(1, FALSE)

\* A missing entry is a call of address 0.
syscall_handler(call) ==
    /\ cpu.at = "body"
    /\ \/ call \notin syscall_matrix /\ exception(14, FALSE)
       \/ call = "SYS_LOG" /\ syscall_log_faults
       \/ call = "SYS_IPC_SEND" /\ assert_fails
       \/ call = "SYS_IPC_RCV_SYNC" /\ rcv_waits
       \/ call = "SYS_EXIT" /\ syscall_exit
       \/ call \in syscall_matrix \ {"SYS_EXIT"} /\ syscall_return /\ UNCHANGED tick

\* Halted, or spinning for the lock that the failing code holds.
Stopped ==
    /\ strayed \/ cpu.at = "halted" \/ (has_fault /\ lock = 1)
    /\ UNCHANGED vars

Handler == interrupts_handler \/ report_line \/ arch_hlt \/ pic_sendEOI \/ iretq

Code ==
    \/ \E irq \in Irq : irq_comes(irq)
    \/ \E intno \in Exception : fault_in_code(intno)
    \/ kernel_splash \/ sched_init
    \/ \E p \in User : sched_push_process(p) \/ task_slayer(p)
    \/ \E to \in {"user", "entry"} : user_code(to)
    \/ syscall_handle
    \/ \E call \in Sys : syscall_handler(call)

Next == (~strayed /\ (Handler \/ Code)) \/ Stopped

\* The CPU goes on with the handler it is in.
Spec == Init /\ [][Next]_vars /\ WF_vars(~strayed /\ Handler)
-----------------------------------------------------------------------------
(***************************************************************************)
(* Properties.                                                             *)
(***************************************************************************)

\* Whatever interrupts it, a process goes on with its own latest context, on a
\* stack that is its own and not yet freed, although all frames of user mode
\* share one stack and the slayer frees the stack under an exited process;
\* unless a switch has been made from inside entry or exit code (interrupt.c:211,
\* syscall.s:48).
ResumesItself ==
    ~strayed /\ cpu.at \in Place =>
        /\ cpu.owner = current_pid
        /\ cpu.work = work[current_pid]
        /\ cpu.at # "kernel" =>
             cpu.stack = IF cpu.at \in {"body", "dying"} THEN SysStack(current_pid)
                         ELSE UserStack(current_pid)
        /\ cpu.stack \notin freed

\* After a fault no process runs and nothing is scheduled, though the report
\* enables interrupts with every character (interrupt.c:130).
NothingRunsAfterFault ==
    [][has_fault => UNCHANGED << process, current_pid, tick, work, freed >>]_vars

\* A fault stops the machine, with the whole report or cut short by an
\* interrupt, unless the failing code held the serial lock (interrupt.c:149).
FaultStopsTheMachine == has_fault /\ lock = 0 ~> cpu.at = "halted"

\* While process code runs no line is in service: otherwise the PIC would
\* hold back that line and those below it for ever (pic.c:53).
EveryLineIsAnswered ==
    ~strayed /\ cpu.at \in Place => pic.master = {} /\ pic.slave = {}

\* Hexadecimal text is exact unless the lower half of a negative number has a
\* zero in front.
Exact(u) == u < Word \div 2 \/ u % Half >= Half \div 16

\* The functions at an address, and those that end right before it.
FunctionsAt(rip) == {i \in Sized : rip \in First[i] .. Behind[i] - 1}

FunctionsBefore(rip) == {i \in Sized : rip = Behind[i]}

\* What is printed reads back as what it stands for: addresses by hex2int,
\* numbers by atoi, amounts of memory to the unit, and the function of an
\* address by its name, if it is not the last of the table and none ends there.
PrintedReadsBack ==
    printed # << >> => \A i \in 1 .. Len(printed.format) :
        LET mode == printed.format[i]
            arg == printed.args[i]
            text == PRINT_FORMAT(printed.format, printed.args)[i]
            u == IF arg.type = "FMT_DECIMAL" THEN Unsigned(arg.value) ELSE 0
        IN  /\ mode = "a" => Len(text) = 2 * HALF /\ (Exact(u) => hex2int(text) = u)
            /\ mode = "M" =>
                 LET n == atoi(SubSeq(text, 1, Len(text) - Len(Unit(arg.value))))
                 IN  n * Scale(arg.value) <= u /\ u < (n + 1) * Scale(arg.value)
            /\ mode = "" /\ arg.type = "FMT_DECIMAL" /\ arg.value >= 0 => atoi(text) = u
            /\ mode = "" /\ arg.type = "FMT_STRING" /\ i = 2 =>
                 LET rip == Unsigned(printed.args[1].value)
                 IN  \A line \in FunctionsAt(rip) :
                       FunctionsBefore(rip) = {} /\ line # Len(Symbols) =>
                           text = Symbols[line][4]
=============================================================================
