------------------------------- MODULE Format -------------------------------
(***************************************************************************)
(* Formatted output (kernel/io/io.c): printf_base walks a format string    *)
(* and prints its arguments with print_uint, print_int, print_hex and      *)
(* print_string, all through putc.                                         *)
(*                                                                         *)
(* Characters are their ASCII codes and strings end with a 0.  Words are   *)
(* NIBBLES hex digits wide (8 in the code).  print_uint and print_int      *)
(* recurse before they print: frames holds the characters still to come.   *)
(***************************************************************************)
EXTENDS Integers, Sequences, SequencesExt

CONSTANTS
  NIBBLES,  \* hex digits of a word
  Calls     \* calls: a format string without its final 0, and the argument

WORD == 16 ^ NIBBLES

ASSUME FormatAssumption == NIBBLES \in 1 .. 8 /\ Calls \subseteq Seq(Nat) \X (0 .. WORD - 1)

VARIABLES
  str, arg,  \* the format, and the value of each of its arguments
  at,        \* i, the index into str
  pc,        \* what runs: "printf", "uint", "int", "hex", "unwind" or "returned"
  x,         \* the number being printed
  base,      \* base of print_uint and print_int, fp of print_hex
  frames,    \* characters the callers of a recursive call have yet to print
  out,       \* what putc was given
  flushed    \* VGA_flush was called

fmtvars == <<str, arg, at, pc, x, base, frames, out, flushed>>

Zero == 48
Minus == 45
Percent == 37
putc(c) == out' = Append(out, c)

\* The char putc gets of a wider argument.
Byte(n) == n % 256

\* An int from its word; C's division rounds towards zero.
Signed(w) == IF w >= WORD \div 2 THEN w - WORD ELSE w
Quotient(n) == IF n < 0 THEN -((-n) \div 10) ELSE n \div 10
Remainder(n) == n - 10 * Quotient(n)

HexChar(d) == IF d < 10 THEN Zero + d ELSE 65 + d - 10

-----------------------------------------------------------------------------
\* The argument of %s: a string of two characters.
StringArg == <<97, 98>>

\* The switch on the character behind a %; %s prints its string.
printf_directive(c) ==
  CASE c = Percent -> putc(Percent) /\ UNCHANGED <<pc, x, base>>
    [] c = 99  -> putc(Byte(arg)) /\ UNCHANGED <<pc, x, base>>
    [] c = 100 -> pc' = "int" /\ x' = Signed(arg) /\ base' = 1 /\ UNCHANGED out
    [] c = 120 -> pc' = "hex" /\ x' = arg /\ base' = 1 /\ out' = out \o <<Zero, 120>>
    [] c = 117 -> pc' = "uint" /\ x' = arg /\ base' = 1 /\ UNCHANGED out
    [] c = 115 -> out' = out \o StringArg /\ UNCHANGED <<pc, x, base>>
    [] OTHER   -> UNCHANGED <<pc, x, base, out>>

\* The index behind a directive.
NextIndex == at + 2

\* One iteration of printf_base's loop, or its end.  A % at the very end of the
\* format returns without the flush.
printf_base ==
  /\ pc = "printf"
  /\ IF at > Len(str) \/ (str[at] = Percent /\ at = Len(str))
     THEN /\ pc' = "returned" /\ flushed' = (at > Len(str))
          /\ UNCHANGED <<at, x, base, out>>
     ELSE /\ IF str[at] = Percent
             THEN at' = NextIndex /\ printf_directive(str[at + 1])
             ELSE at' = at + 1 /\ putc(str[at]) /\ UNCHANGED <<pc, x, base>>
          /\ UNCHANGED flushed
  /\ UNCHANGED <<str, arg, frames>>

\* Mutation: zero prints nothing.
EndOfDigits_empty == x = 0 /\ pc' = "unwind" /\ UNCHANGED <<out, x, base, frames>>

\* The call that finds 0: it prints a digit only if it is the first.
EndOfDigits ==
  /\ x = 0 /\ pc' = "unwind"
  /\ IF base = 1 THEN putc(Zero) ELSE UNCHANGED out
  /\ UNCHANGED <<x, base, frames>>

print_uint ==
  /\ pc = "uint"
  /\ \/ EndOfDigits
     \/ /\ x # 0
        /\ frames' = Append(frames, Zero + (x % 10))
        /\ x' = x \div 10 /\ base' = 0
        /\ UNCHANGED <<pc, out>>
  /\ UNCHANGED <<str, arg, at, flushed>>

\* A negative number's last digit is 0 plus a negative remainder.
print_int ==
  /\ pc = "int"
  /\ \/ EndOfDigits
     \/ /\ x # 0
        /\ IF x < 0 THEN putc(Minus) /\ x' = -1 * Quotient(x)
                    ELSE UNCHANGED out /\ x' = Quotient(x)
        /\ frames' = Append(frames, Zero + Remainder(x))
        /\ base' = 0 /\ UNCHANGED pc
  /\ UNCHANGED <<str, arg, at, flushed>>

\* A caller of the recursion prints its digit; the outermost one returns to printf.
Unwind ==
  /\ pc = "unwind"
  /\ IF frames = <<>> THEN pc' = "printf" /\ UNCHANGED <<out, frames>>
     ELSE putc(Last(frames)) /\ frames' = Front(frames) /\ UNCHANGED pc
  /\ UNCHANGED <<str, arg, at, x, base, flushed>>

\* A leading zero, of a number that is not 0.
Skips(digit) == digit = 0 /\ base = 1 /\ x # 0

\* One iteration of the loop: the top digit is printed unless it is a leading zero,
\* then shifted out.  The loop ends when nothing but zeros is left.
print_hex ==
  /\ pc = "hex"
  /\ LET digit == x \div (WORD \div 16)
     IN IF Skips(digit) THEN UNCHANGED <<out, base>>
        ELSE putc(HexChar(digit)) /\ base' = 0
  /\ x' = (x * 16) % WORD
  /\ pc' = IF x' = 0 THEN "printf" ELSE "hex"
  /\ UNCHANGED <<str, arg, at, frames, flushed>>

FmtInit ==
  /\ \E c \in Calls : str = c[1] /\ arg = c[2]
  /\ at = 1 /\ pc = "printf"
  /\ x = 0 /\ base = 0 /\ frames = <<>> /\ out = <<>> /\ flushed = FALSE

FmtNext == printf_base \/ print_uint \/ print_int \/ Unwind \/ print_hex

FmtSpec == FmtInit /\ [][FmtNext]_fmtvars

-----------------------------------------------------------------------------
(* What is printed, without loops. *)

\* How many digits n has, and the digits.
Digits(n, b) == IF n = 0 THEN 1 ELSE CHOOSE k \in 1 .. 10 : b ^ (k - 1) <= n /\ n < b ^ k
Decimal(n) == [k \in 1 .. Digits(n, 10) |-> Zero + ((n \div 10 ^ (Digits(n, 10) - k)) % 10)]

\* The last digit of a negative number comes out as far below 0 as it should be
\* above it: -5 is printed "-+".
SignedDecimal(n) ==
  IF n >= 0 THEN Decimal(n)
  ELSE <<Minus>> \o (IF n > -10 THEN <<>> ELSE Decimal((-n) \div 10)) \o <<Zero - ((-n) % 10)>>

\* A hex number without the zeros at its end: 256 is printed "0x1".
TrailingZeros(n) == IF n = 0 THEN 0 ELSE CHOOSE k \in 0 .. NIBBLES : n % 16 ^ k = 0 /\ n % 16 ^ (k + 1) # 0
Hex(n) ==
  <<Zero, 120>> \o [k \in 1 .. Digits(n, 16) - TrailingZeros(n) |->
                     HexChar((n \div 16 ^ (Digits(n, 16) - k)) % 16)]

Shown(c) ==
  CASE c = Percent -> <<Percent>>
    [] c = 99  -> <<Byte(arg)>>
    [] c = 100 -> SignedDecimal(Signed(arg))
    [] c = 117 -> Decimal(arg)
    [] c = 120 -> Hex(arg)
    [] c = 115 -> StringArg
    [] OTHER   -> <<>>

\* A character of the format starts a directive if an odd run of %s ends there.
StartsDirective(k) ==
  /\ str[k] = Percent
  /\ \E j \in 1 .. k : /\ (k - j) % 2 = 0
                       /\ \A m \in j .. k : str[m] = Percent
                       /\ j = 1 \/ str[j - 1] # Percent

Piece(k) == IF StartsDirective(k) THEN IF k = Len(str) THEN <<>> ELSE Shown(str[k + 1])
            ELSE IF k > 1 /\ StartsDirective(k - 1) THEN <<>> ELSE <<str[k]>>

\* printf prints the text of its format with every directive replaced by what it
\* stands for, whatever runs of % there are, and every number in its decimal or
\* hex form without leading zeros, up to the two oddities above; it is flushed to
\* the display unless the format ends in a lone % (io.c:13-108).
PrintsFormat ==
  pc = "returned" =>
    /\ out = FlattenSeq([k \in DOMAIN str |-> Piece(k)])
    /\ flushed <=> ~(str # <<>> /\ StartsDirective(Len(str)))
=============================================================================
