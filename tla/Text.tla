-------------------------------- MODULE Text --------------------------------
(***************************************************************************)
(* What the kernel prints: itoa (libs/navy/itoa.c), PRINT_FORMAT           *)
(* (libs/navy/fmt.c) and the symbol table (kernel/symbols.c).              *)
(*                                                                         *)
(* A string is the sequence of its character codes.  A number has 2 * HALF *)
(* hexadecimal digits (HALF is 8 in the code) and an int has HALF.  Of a   *)
(* format only the slots count: "a" for {a}, "x" for {x}, "M" for {M} and  *)
(* "" for {}; of a line of the symbol table, its words.                    *)
(***************************************************************************)
EXTENDS Integers, SequencesExt

CONSTANTS HALF,     \* hexadecimal digits of an int
          KILO      \* 1024

ASSUME TextAssumption == HALF \in Nat \ {0} /\ KILO \in Nat \ {0}

\* pow of math.c, a turn of the loop for each power.
pow(base, power) ==
    LET return_value[i \in 0 .. power] == IF i = 0 THEN 1 ELSE return_value[i - 1] * base
    IN  return_value[power]

Half == pow(16, HALF)

Word == Half * Half

\* A word as an int64_t, and the low half of one as an int.
Signed(u) == IF u >= Word \div 2 THEN u - Word ELSE u

AsInt(u) == LET low == u % Half IN IF low >= Half \div 2 THEN low - Half ELSE low

Unsigned(v) == v % Word

-----------------------------------------------------------------------------
(***************************************************************************)
(* Numbers to text.                                                        *)
(***************************************************************************)
Digit(d) == IF d < 10 THEN d + 48 ELSE d - 10 + 97

\* The quotient and the remainder of C, which round towards zero.
Quot(v, base) == IF v < 0 THEN -((-v) \div base) ELSE v \div base

Rem(v, base) == v - base * Quot(v, base)

\* What n turns of the loop leave of a value,
After(v, base, n) ==
    LET value[i \in 0 .. n] == IF i = 0 THEN v ELSE Quot(value[i - 1], base)
    IN  value[n]

\* and how many turns leave nothing: at least one, less than the value has ones.
Turns(v, base) ==
    CHOOSE n \in 1 .. (IF v < 0 THEN -v ELSE v) + 1 :
        After(v, base, n) = 0 /\ \A i \in 1 .. n - 1 : After(v, base, i) # 0

\* The characters in the order the loop stores them: the last digit first.
Stored(v, base) ==
    [i \in 1 .. Turns(v, base) |-> Digit(Rem(After(v, base, i - 1), base))]

strrev(s) == Reverse(s)

\* A negative decimal keeps its sign in every digit, and strrev moves '-' to
\* the end.
itoa_loop(v, base) == strrev((IF v < 0 THEN << 45 >> ELSE << >>) \o Stored(v, base))

\* Mutant: the halves of a negative number come in the wrong order.
itoa_swapped(v, base) ==
    IF v < 0 /\ base # 10
    THEN itoa_loop(Unsigned(v) % Half, base) \o itoa_loop(Unsigned(v) \div Half, base)
    ELSE itoa_loop(v, base)

\* In other bases a negative number is printed as its two halves, the lower
\* one without the zeros in front.
itoa(v, base) ==
    IF v < 0 /\ base # 10
    THEN itoa_loop(Unsigned(v) \div Half, base) \o itoa_loop(Unsigned(v) % Half, base)
    ELSE itoa_loop(v, base)

\* The prefix {M} chooses: K, M or G.
Prefix(nbr) ==
    IF Quot(nbr, KILO * KILO * KILO) >= 1 THEN 3
    ELSE IF Quot(nbr, KILO * KILO) >= 1 THEN 2
    ELSE IF Quot(nbr, KILO) >= 1 THEN 1 ELSE 0

Unit(nbr) == << << 66 >>, << 75, 66 >>, << 77, 66 >>, << 71, 66 >> >>[Prefix(nbr) + 1]

Scale(nbr) == << 1, KILO, KILO * KILO, KILO * KILO * KILO >>[Prefix(nbr) + 1]

Zeros(n) == [i \in 1 .. n |-> 48]

fmtvald(v) == [type |-> "FMT_DECIMAL", value |-> Signed(v), str |-> << >>]

fmtvals(s) == [type |-> "FMT_STRING", value |-> 0, str |-> s]

\* What one slot makes of its argument; a char is a string of one.
Slot(mode, arg) ==
    LET hex == itoa(arg.value, 16)
    IN  IF arg.type = "FMT_STRING" THEN arg.str
        ELSE CASE mode = "a" -> Zeros(IF Len(hex) < 2 * HALF THEN 2 * HALF - Len(hex) ELSE 0) \o hex
               [] mode = "x" -> hex
               [] mode = "M" -> itoa(Quot(arg.value, Scale(arg.value)), 10) \o Unit(arg.value)
               [] OTHER -> itoa(arg.value, 10)

\* The texts of the slots; a slot without an argument prints nothing.
PRINT_FORMAT(format, args) ==
    [i \in 1 .. Len(format) |-> IF i <= Len(args) THEN Slot(format[i], args[i]) ELSE << >>]

-----------------------------------------------------------------------------
(***************************************************************************)
(* Text to numbers.                                                        *)
(***************************************************************************)

\* Any other character counts as its code modulo 16.
HexDigit(byte) ==
    (IF byte \in 48 .. 57 THEN byte - 48 ELSE IF byte \in 97 .. 102 THEN byte - 97 + 10 ELSE byte) % 16

hex2int(s) ==
    LET val[i \in 0 .. Len(s)] ==
          IF i = 0 THEN 0 ELSE (val[i - 1] * 16 + HexDigit(s[i])) % Word
    IN  val[Len(s)]

atoi(s) ==
    LET negative == s # << >> /\ s[1] = 45
        digits == IF negative THEN Tail(s) ELSE s
        sum[i \in 0 .. Len(digits)] ==
          IF i = 0 THEN 0 ELSE sum[i - 1] + (digits[i] - 48) * pow(10, Len(digits) - i)
    IN  IF negative THEN -sum[Len(digits)] ELSE sum[Len(digits)]

-----------------------------------------------------------------------------
(***************************************************************************)
(* The symbol table: lines of nm -S, one word after another with a blank   *)
(* in between, and no size for what assembly defines.                      *)
(***************************************************************************)

\* The nth word, or NULL.
strtok(line, n) == IF n <= Len(line) THEN line[n] ELSE << >>

\* memcpy without the terminator: what was longer shows behind.
memcpy(buffer, name) == name \o SubSeq(buffer, Len(name) + 1, Len(buffer))

\* A size is missing where a text symbol has its letter ('T' or 't').
Sizeless(line) == strtok(line, 2)[1] \in {84, 116}

Function(line) == IF Sizeless(line) THEN strtok(line, 3) ELSE strtok(line, 4)

\* int arithmetic, compared as uintptr_t: the sign extension restores the
\* addresses of a kernel linked at the top.
Covers(line, ptr) ==
    LET address == AsInt(hex2int(strtok(line, 1)))
        size == IF Sizeless(line) THEN 0 ELSE AsInt(hex2int(strtok(line, 2)))
    IN  Unsigned(address) <= ptr /\ Unsigned(AsInt(Unsigned(address + size))) >= ptr

\* The loop drops the character after each newline, the first digit of the
\* next address, and never processes the last line.
AsRead(symbols, i) ==
    IF i = 1 THEN symbols[1] ELSE [symbols[i] EXCEPT ![1] = Tail(@)]

Searched(buffer, line, ptr) ==
    IF Covers(line, ptr) THEN memcpy(buffer, Function(line)) ELSE buffer

find_symbols(symbols, ptr) ==
    LET lines == IF symbols = << >> THEN 0 ELSE Len(symbols) - 1
        buffer[i \in 0 .. lines] ==
          IF i = 0 THEN << >> ELSE Searched(buffer[i - 1], AsRead(symbols, i), ptr)
    IN  buffer[lines]
=============================================================================
