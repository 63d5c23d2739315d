--------------------------- MODULE MCConsoleInput ---------------------------
(* Model-checking instance of ConsoleInput: the readers are model values   *)
(* and interchangeable.                                                      *)
EXTENDS ConsoleInput, TLC

ReaderSymmetry == Permutations(Readers)

\* The formatting of cprintf (ConsoleOutput), for numbers up to 70: three
\* octal digits, two hexadecimal ones with a letter.
CO == INSTANCE ConsoleOutput WITH MaxArg <- 70

\* A constant, which TLC computes once; the property adds the antecedent
\* lock \in Readers \cup {None}, true of every state, so that TLC checks it
\* as a state predicate and reports it by state.
FormatOK == CO!CprintfMatchesReference

\* cprintf prints a number under each conversion and order of the flags
\* '0', '#' and 'l' in the conversion's base, zero-padded to 18 digits
\* under '0', after "0x" for %p and %#x (printint and the do_again loop).
CprintfMatchesReference == lock \in Readers \cup {None} => FormatOK

\* The helpers of the user library (UserLib), with four atexit slots (the
\* tree does not define ATEXIT_MAX), two handlers 1 and 2, and 0 as NULL.
UL == INSTANCE UserLib WITH ATEXIT_MAX <- 4, Handlers <- {1, 2}, NULL <- 0

\* Constants computed once, checked as state predicates like FormatOK.
AtoiOK == UL!AtoiMatchesReference
GetenvOK == UL!GetenvMatchesReference
ExitOK == UL!ExitRunsInReverse

\* atoi returns the decimal value of the digits that begin the string.
AtoiMatchesReference == lock \in Readers \cup {None} => AtoiOK

\* getenv returns the value of the first entry "name=value" for exactly
\* that name, and NULL when there is none.
GetenvMatchesReference == lock \in Readers \cup {None} => GetenvOK

\* After any atexit calls, the first ATEXIT_MAX succeed and exit runs them
\* in the reverse order of registration.
ExitRunsInReverse == lock \in Readers \cup {None} => ExitOK

=============================================================================
