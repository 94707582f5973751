---------------------------- MODULE MCInterrupts ----------------------------
(***************************************************************************)
(* An instance of Interrupts with words of four hexadecimal digits; the    *)
(* kernel is linked at ff80.                                               *)
(***************************************************************************)
EXTENDS Interrupts

Hex(u) == LET digits == itoa_loop(u, 16) IN Zeros(2 * HALF - Len(digits)) \o digits

\* Names are words of capitals, longer and shorter ones.
SizedLine(addr, size, name) == << Hex(addr), Hex(size), << 84 >>, name >>
UnsizedLine(addr, letter, name) == << Hex(addr), << letter >>, name >>

\* Functions next to each other, one of them without a size, data without a
\* size, and a last line.
MCSymbols ==
    << SizedLine(65408, 16, << 65, 65, 65 >>), UnsizedLine(65440, 84, << 66, 66 >>), SizedLine(65424, 8, << 67 >>),
       UnsizedLine(65456, 68, << 68 >>), SizedLine(65472, 16, << 69 >>) >>

At(rip, cr2, callers) == [rip |-> rip, cr2 |-> cr2, callers |-> callers]

\* Inside a function, on the border of two, on one without a size, on data,
\* in the last one, and in user code; called from these or from nowhere.
MCSite ==
    {At(65410, 18, << 65431, 65440 >>), At(65424, 33000, << >>), At(65457, 65417, << 65480 >>),
     At(16, 0, << >>)}
=============================================================================
