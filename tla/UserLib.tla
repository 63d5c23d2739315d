------------------------------ MODULE UserLib ------------------------------
(***************************************************************************)
(* Helpers of the user library src/userspace/ulib.c: atoi, getenv, and the *)
(* atexit table that exit runs.  They are sequential and keep no state but *)
(* the atexit table, so they are operators: a string is the sequence of   *)
(* its bytes before the NUL, as ASCII codes; a handler is a model value.   *)
(* getenv's result is a set: {} for NULL, {v} for a pointer to value v.    *)
(***************************************************************************)
EXTENDS Integers, Sequences

CONSTANTS
    ATEXIT_MAX,     \* slots of atexit_handlers
    Handlers,       \* functions passed to atexit
    NULL            \* an empty slot

EQ == 61            \* '='

\* '0' <= c && c <= '9'
IsDigit(c) == 48 <= c /\ c <= 57

\* Mutant: the digit test '0' < *s, so a '0' ends the number.
RECURSIVE AtoiFromPastZero(_, _)
AtoiFromPastZero(s, acc) ==
    IF s # <<>> /\ 48 < Head(s) /\ Head(s) <= 57
    THEN AtoiFromPastZero(Tail(s), acc * 10 + Head(s) - 48) ELSE acc

\* The int atoi returns: n = n * 10 + *s++ - '0' while *s is a digit.
\* Strings of at most a few digits, so n never leaves the int range.
RECURSIVE AtoiFrom(_, _)
AtoiFrom(s, acc) ==
    IF s # <<>> /\ IsDigit(Head(s)) THEN AtoiFrom(Tail(s), acc * 10 + Head(s) - 48) ELSE acc

Atoi(s) == AtoiFrom(s, 0)

\* strchr(ent, '='): the index of the first '=', or 0 for NULL.
Strchr(ent) == IF \E k \in DOMAIN ent : ent[k] = EQ
             THEN CHOOSE k \in DOMAIN ent : ent[k] = EQ /\ \A j \in 1 .. k - 1 : ent[j] # EQ
             ELSE 0

\* strncmp(a, b, k) == 0 for strings without a NUL inside: their first k
\* bytes, or all of them up to the NUL, agree.
StrnEq(a, b, k) ==
    LET cut(x) == SubSeq(x, 1, IF k < Len(x) THEN k ELSE Len(x)) IN cut(a) = cut(b)

\* Mutant: getenv without the length test; strncmp alone accepts an entry
\* whose name is a prefix of the one asked for.
RECURSIVE GetenvNoLength(_, _, _)
GetenvNoLength(env, name, i) ==
    IF i > Len(env) THEN {}
    ELSE LET eq == Strchr(env[i]) IN
         IF eq # 0 /\ StrnEq(name, env[i], eq - 1)
         THEN {SubSeq(env[i], eq + 1, Len(env[i]))}
         ELSE GetenvNoLength(env, name, i + 1)

\* getenv's loop over environ from entry i: an entry without '=' is skipped,
\* one whose name is not strlen(name) bytes long is skipped, and the first
\* whose name strncmp finds equal gives the pointer past its '='.
RECURSIVE Getenv(_, _, _)
Getenv(env, name, i) ==
    IF i > Len(env) THEN {}
    ELSE LET eq == Strchr(env[i]) IN
         IF eq # 0 /\ Len(name) = eq - 1 /\ StrnEq(name, env[i], eq - 1)
         THEN {SubSeq(env[i], eq + 1, Len(env[i]))}
         ELSE Getenv(env, name, i + 1)

\* Mutant: the search for a free slot stops one short of the last.
AtexitShort(table, f) ==
    IF \E k \in 0 .. ATEXIT_MAX - 2 : table[k] = NULL
    THEN LET k == CHOOSE k \in 0 .. ATEXIT_MAX - 2 :
                     table[k] = NULL /\ \A j \in 0 .. k - 1 : table[j] # NULL
         IN  [table |-> [table EXCEPT ![k] = f], ret |-> 0]
    ELSE [table |-> table, ret |-> -1]

\* atexit(f): f in the first NULL slot and 0, or -1 when every slot is taken.
Atexit(table, f) ==
    IF \E k \in 0 .. ATEXIT_MAX - 1 : table[k] = NULL
    THEN LET k == CHOOSE k \in 0 .. ATEXIT_MAX - 1 :
                     table[k] = NULL /\ \A j \in 0 .. k - 1 : table[j] # NULL
         IN  [table |-> [table EXCEPT ![k] = f], ret |-> 0]
    ELSE [table |-> table, ret |-> -1]

\* The handlers exit calls, in order: slots ATEXIT_MAX - 1 down to 0, the
\* NULL ones skipped.
RECURSIVE ExitCalls(_, _)
ExitCalls(table, i) ==
    IF i < 0 THEN <<>>
    ELSE (IF table[i] # NULL THEN <<table[i]>> ELSE <<>>) \o ExitCalls(table, i - 1)

Exit(table) == ExitCalls(table, ATEXIT_MAX - 1)

EmptyTable == [k \in 0 .. ATEXIT_MAX - 1 |-> NULL]

-----------------------------------------------------------------------------
(* The references.                                                         *)

\* Strings of up to len bytes over the alphabet A.
Strings(A, len) == UNION {[1 .. k -> A] : k \in 0 .. len}

\* The value of the longest prefix of digits, by powers of ten.
DigitPrefix(s) ==
    LET L == CHOOSE l \in 0 .. Len(s) :
                (\A k \in 1 .. l : IsDigit(s[k])) /\ (l = Len(s) \/ ~IsDigit(s[l + 1]))
    IN  SubSeq(s, 1, L)

RECURSIVE Decimal(_, _)
Decimal(d, k) == IF k = 0 THEN 0 ELSE (d[k] - 48) * 10^(Len(d) - k) + Decimal(d, k - 1)

\* atoi returns the decimal value of the digits that begin the string, and
\* 0 when none does ("V" and "0" alike): over digits and other bytes.
AtoiMatchesReference ==
    \A s \in Strings({48, 53, 57, 65}, 4) :
        Atoi(s) = Decimal(DigitPrefix(s), Len(DigitPrefix(s)))

\* getenv(name) points at the value of the first entry of the form
\* name=value, and is NULL when there is none: an entry whose name only
\* begins or ends like name, or that has no '=', never answers.
GetenvMatchesReference ==
    \A env \in Strings(Strings({65, 66, EQ}, 3), 2), name \in Strings({65, 66}, 2) :
        LET hits == {i \in DOMAIN env :
                        Len(env[i]) > Len(name) /\ SubSeq(env[i], 1, Len(name) + 1) = name \o <<EQ>>}
        IN  Getenv(env, name, 1) =
              IF hits = {} THEN {}
              ELSE LET i == CHOOSE i \in hits : \A j \in hits : i <= j
                   IN  {SubSeq(env[i], Len(name) + 2, Len(env[i]))}

\* The table after the atexit calls of regs, and what each returned.
RECURSIVE Register(_, _)
Register(table, regs) ==
    IF regs = <<>> THEN [table |-> table, rets |-> <<>>]
    ELSE LET a == Atexit(table, Head(regs))
             b == Register(a.table, Tail(regs))
         IN  [table |-> b.table, rets |-> <<a.ret>> \o b.rets]

\* After any sequence of atexit calls from the start, the first ATEXIT_MAX
\* succeed and later ones fail with -1, and exit calls the registered
\* functions in the reverse order of their registration, repeats included.
ExitRunsInReverse ==
    \A regs \in Strings(Handlers, ATEXIT_MAX + 1) :
        LET reg == Register(EmptyTable, regs)
            m == IF Len(regs) < ATEXIT_MAX THEN Len(regs) ELSE ATEXIT_MAX
        IN  /\ reg.rets = [k \in 1 .. Len(regs) |-> IF k <= ATEXIT_MAX THEN 0 ELSE -1]
            /\ Exit(reg.table) = [k \in 1 .. m |-> regs[m + 1 - k]]
=============================================================================
