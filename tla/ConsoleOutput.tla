---------------------------- MODULE ConsoleOutput ----------------------------
(***************************************************************************)
(* The number formatting of cprintf in src/kernel/console.c: the           *)
(* conversion loop of cprintf (the '%' directives, with the flags '0', '#' *)
(* and 'l' taken by "goto do_again") and printint.  Output is the sequence *)
(* of bytes handed to consputc; bytes are their ASCII codes.  The state    *)
(* that outlives a call, the statics alt_form and long_form, is threaded   *)
(* through as a record st; padding is cprintf's local.                     *)
(*                                                                         *)
(* A format is a sequence of bytes without '\e' (the colour escapes of     *)
(* lines 105-138 are not modelled) and an argument is a small natural      *)
(* number, or for %s a byte sequence or 0 for NULL.  For such arguments    *)
(* va_arg of int, long or unsigned long yields the same value, so the      *)
(* width long_form selects changes nothing here.                           *)
(***************************************************************************)
EXTENDS Integers, Sequences, TLC

CONSTANT MaxArg     \* the largest number formatted

PERCENT == 37
ZERO    == 48       \* '0'
HASH    == 35       \* '#'
ELL     == 108      \* 'l'
MINUS   == 45       \* '-'
XCHAR   == 120      \* 'x'
NULLSTR == <<40, 110, 117, 108, 108, 41>>   \* "(null)"

\* The conversions and their bases: 'u', 'd', 'x', 'p', 'o'.
BaseOf == (117 :> 10) @@ (100 :> 10) @@ (120 :> 16) @@ (112 :> 16) @@ (111 :> 8)

\* digits[v]: "0123456789abcdef".
Digit(v) == IF v < 10 THEN ZERO + v ELSE 87 + v

\* Mutant: a while loop instead of the do-while; 0 yields no digit.
RECURSIVE DigitsWhile(_, _)
DigitsWhile(xx, base) ==
    IF xx = 0 THEN <<>> ELSE DigitsWhile(xx \div base, base) \o <<Digit(xx % base)>>

\* do { buf[i++] = digits[x % base]; } while ((x /= base) != 0), in the
\* order "while (--i >= 0)" prints them: the most significant first.
RECURSIVE Digits(_, _)
Digits(xx, base) ==
    LET d == <<Digit(xx % base)>> IN
    IF xx \div base # 0 THEN Digits(xx \div base, base) \o d ELSE d

\* "while (i < *padding) buf[i++] = '0';" in front of the digits.
ZeroPad(ds, pad) == [k \in 1 .. pad - Len(ds) |-> ZERO] \o ds

\* printint(xx, base, sign, &padding): the bytes it prints and the statics
\* it leaves.  xx is uint64_t, so "sign = (xx < 0)" is false for every
\* argument and no '-' is ever printed (the branch is kept as the code has
\* it; x = -xx there would be 2^64 - xx).  long_form is cleared on entry;
\* alt_form only when it prints the "0x" of a base-16 number.
Printint(xx, base, sign, pad, st) ==
    LET neg    == sign = 1 /\ xx < 0
        x      == IF neg THEN -xx ELSE xx
        body   == ZeroPad(Digits(x, base), pad)
        signed == IF neg THEN <<MINUS>> \o body ELSE body
        prefix == st.alt = 1 /\ base = 16
    IN  [out |-> (IF prefix THEN <<ZERO, XCHAR>> ELSE <<>>) \o signed,
         st  |-> [alt |-> IF prefix THEN 0 ELSE st.alt, long |-> 0]]

\* The loop of cprintf over fmt from the byte after a '%' (Directive) or
\* elsewhere (Run), with the arguments not yet taken.  A byte other than
\* '%' is printed; '%' at the end of fmt ends the loop (the "break").
RECURSIVE Run(_, _, _, _, _), Directive(_, _, _, _, _)
Run(fmt, args, pad, st, out) ==
    IF fmt = <<>> THEN [out |-> out, st |-> st]
    ELSE IF Head(fmt) # PERCENT THEN Run(Tail(fmt), args, pad, st, Append(out, Head(fmt)))
    ELSE Directive(Tail(fmt), args, pad, st, out)

Directive(fmt, args, pad, st, out) ==
    IF fmt = <<>> THEN [out |-> out, st |-> st]
    ELSE LET c == Head(fmt)  rest == Tail(fmt) IN
    CASE c = ZERO -> Directive(rest, args, 18, st, out)
      [] c = HASH -> Directive(rest, args, pad, [st EXCEPT !.alt = 1], out)
      [] c = ELL  -> Directive(rest, args, pad, [st EXCEPT !.long = 1], out)
      [] c \in DOMAIN BaseOf ->
           LET p == Printint(Head(args), BaseOf[c], IF c = 100 THEN 1 ELSE 0, pad,
                             IF c = 112 THEN [st EXCEPT !.alt = 1] ELSE st)
           IN  Run(rest, Tail(args), 0, p.st, out \o p.out)
      [] c = 115 -> Run(rest, Tail(args), pad, st,
                        out \o (IF Head(args) = 0 THEN NULLSTR ELSE Head(args)))
      [] c = PERCENT -> Run(rest, args, pad, st, Append(out, PERCENT))
      [] OTHER -> Run(rest, args, pad, st, out \o <<PERCENT, c>>)

\* cprintf(fmt, ...) from the statics st.
Cprintf(fmt, args, st) == Run(fmt, args, 0, st, <<>>)

-----------------------------------------------------------------------------
(* The reference: the digits of a number by arithmetic.                    *)

Flags == {<<>>, <<ZERO>>, <<HASH>>, <<ELL>>,
          <<ZERO, HASH>>, <<HASH, ZERO>>, <<ZERO, ELL>>, <<ELL, ZERO>>,
          <<HASH, ELL>>, <<ELL, HASH>>}
Convs == DOMAIN BaseOf \cup {115, PERCENT, 113}
Fresh == [alt |-> 0, long |-> 0]

Width(v, base) == CHOOSE k \in 1 .. 8 : v < base^k /\ (k = 1 \/ base^(k - 1) <= v)
DigitAt(v, base, j) == IF j >= Width(v, base) THEN 0 ELSE (v \div base^j) % base

\* v in base, at least pad digits, leading zeros only to reach pad.
Numeral(v, base, pad) ==
    LET L == IF pad > Width(v, base) THEN pad ELSE Width(v, base)
    IN  [k \in 1 .. L |-> Digit(DigitAt(v, base, L - k))]

Expected(fl, c, v) ==
    LET has(f) == \E k \in DOMAIN fl : fl[k] = f IN
    CASE c \in DOMAIN BaseOf ->
           (IF BaseOf[c] = 16 /\ (has(HASH) \/ c = 112) THEN <<ZERO, XCHAR>> ELSE <<>>)
           \o Numeral(v, BaseOf[c], IF has(ZERO) THEN 18 ELSE 0)
      [] c = 115 -> NULLSTR
      [] c = PERCENT -> <<PERCENT>>
      [] OTHER -> <<PERCENT, c>>

\* cprintf, from fresh statics, prints "a", then for one directive "%",
\* flags and a conversion on a number (NULL for %s): the number in the
\* conversion's base, zero-padded to 18 digits under '0', after "0x" for %p
\* and %#x; then "b".  Under every order of the flags taken by do_again.
CprintfMatchesReference ==
    \A fl \in Flags, c \in Convs, v \in 0 .. MaxArg :
        Cprintf(<<97, PERCENT>> \o fl \o <<c, 98>>, <<IF c = 115 THEN 0 ELSE v>>, Fresh).out
            = <<97>> \o Expected(fl, c, v) \o <<98>>
=============================================================================
