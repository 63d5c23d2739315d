---------------------------- MODULE ConsoleInput ----------------------------
(***************************************************************************)
(* Console input (kernel/console.c): the ring input.buf with the uint32_t  *)
(* indices r (read), w (write: end of committed input) and e (edit), the   *)
(* keyboard interrupt handler consoleintr that edits and commits, and the  *)
(* readers in consoleread that take committed characters and sleep on     *)
(* &input.r when there are none.  cons.lock serialises them; a reader      *)
(* holds it from its wake-up to its return or its next sleep.  One         *)
(* interrupt is taken as delivering one character: an interrupt that       *)
(* delivers several does so under one hold of the lock, which is a         *)
(* sequence of one-character ones with no reader step in between.         *)
(***************************************************************************)
EXTENDS Integers, Sequences

CONSTANTS
    INPUT_BUF,  \* size of input.buf
    W,          \* width of the indices (uint32_t), scaled down
    Chars,      \* ordinary characters typed
    Readers,    \* processes reading the console
    Lens        \* n passed to consoleread

ASSUME (2^W) % INPUT_BUF = 0 /\ 2^W > INPUT_BUF /\ Lens \subseteq Nat

Word == 2^W
NL   == "nl"    \* '\n'
CR   == "cr"    \* '\r', stored as '\n'
EOT  == "eot"   \* C('D')
BS   == {"ctrlH", "del"}   \* C('H') and '\x7f'
KILL == "ctrlU" \* C('U')
Nul  == "nul"   \* the zero bytes of the static buffer
None == "none"

VARIABLES
    buf, r, w, e,   \* struct input
    lock,           \* holder of cons.lock: a reader, or None
    pc,             \* where each reader is in consoleread
    target, n       \* consoleread's target and n

vars == <<buf, r, w, e, lock, pc, target, n>>

\* input.buf[i % INPUT_BUF] for a uint32_t index i.
At(i) == buf[i % INPUT_BUF]

\* The characters from index a up to index b, in order.
Ring(a, b) == [k \in 1 .. (b - a) % Word |-> At((a + k - 1) % Word)]

-----------------------------------------------------------------------------
(* consoleintr, one character per interrupt, under cons.lock               *)

\* C('U'): input.e-- while e != w and the character before e is not '\n'.
RECURSIVE KillLine(_)
KillLine(x) ==
    IF x # w /\ At((x - 1) % Word) # NL THEN KillLine((x - 1) % Word) ELSE x

IntrKill ==
    /\ lock = None
    /\ KillLine(e) # e
    /\ e' = KillLine(e)
    /\ UNCHANGED <<buf, r, w, lock, pc, target, n>>

\* C('H') and '\x7f': one input.e-- if e != w.
IntrErase ==
    /\ lock = None
    /\ e # w
    /\ e' = (e - 1) % Word
    /\ UNCHANGED <<buf, r, w, lock, pc, target, n>>

\* Mutant: '\r' stored as it is.
IntrTypeNoCR(c) ==
    /\ lock = None
    /\ (e - r) % Word < INPUT_BUF
    /\ buf' = [buf EXCEPT ![e % INPUT_BUF] = c]
    /\ e' = (e + 1) % Word
    /\ IF c \in {NL, EOT} \/ (e + 1) % Word = (r + INPUT_BUF) % Word
       THEN /\ w' = (e + 1) % Word
            /\ pc' = [p \in Readers |-> IF pc[p] = "sleep" THEN "woken" ELSE pc[p]]
       ELSE UNCHANGED <<w, pc>>
    /\ UNCHANGED <<r, lock, target, n>>

\* Mutant: the commit without wakeup(&input.r).
IntrTypeNoWakeup(c) ==
    /\ lock = None
    /\ (e - r) % Word < INPUT_BUF
    /\ LET ch == IF c = CR THEN NL ELSE c IN
       /\ buf' = [buf EXCEPT ![e % INPUT_BUF] = ch]
       /\ e' = (e + 1) % Word
       /\ IF ch \in {NL, EOT} \/ (e + 1) % Word = (r + INPUT_BUF) % Word
          THEN w' = (e + 1) % Word ELSE UNCHANGED w
    /\ UNCHANGED <<r, lock, pc, target, n>>

\* Mutant: the room test e - r <= INPUT_BUF, one character too many.
IntrTypeFullOffByOne(c) ==
    /\ lock = None
    /\ (e - r) % Word <= INPUT_BUF
    /\ LET ch == IF c = CR THEN NL ELSE c IN
       /\ buf' = [buf EXCEPT ![e % INPUT_BUF] = ch]
       /\ e' = (e + 1) % Word
       /\ IF ch \in {NL, EOT} \/ (e + 1) % Word = (r + INPUT_BUF) % Word
          THEN /\ w' = (e + 1) % Word
               /\ pc' = [p \in Readers |-> IF pc[p] = "sleep" THEN "woken" ELSE pc[p]]
          ELSE UNCHANGED <<w, pc>>
    /\ UNCHANGED <<r, lock, target, n>>

\* Any other non-zero character, when e - r < INPUT_BUF: '\r' becomes '\n',
\* it is stored at e++, and a '\n', a C('D') or a full buffer sets w = e
\* and wakes every reader sleeping on &input.r.
IntrType(c) ==
    /\ lock = None
    /\ (e - r) % Word < INPUT_BUF
    /\ LET ch == IF c = CR THEN NL ELSE c
           e1 == (e + 1) % Word
       IN /\ buf' = [buf EXCEPT ![e % INPUT_BUF] = ch]
          /\ e' = e1
          /\ IF ch \in {NL, EOT} \/ e1 = (r + INPUT_BUF) % Word
             THEN /\ w' = e1
                  /\ pc' = [p \in Readers |-> IF pc[p] = "sleep" THEN "woken" ELSE pc[p]]
             ELSE UNCHANGED <<w, pc>>
    /\ UNCHANGED <<r, lock, target, n>>

-----------------------------------------------------------------------------
(* consoleread                                                             *)

\* target = n, acquire(&cons.lock).
ReadStart(p, k) ==
    /\ pc[p] = "idle"
    /\ lock = None
    /\ lock' = p
    /\ pc' = [pc EXCEPT ![p] = "loop"]
    /\ target' = [target EXCEPT ![p] = k]
    /\ n' = [n EXCEPT ![p] = k]
    /\ UNCHANGED <<buf, r, w, e>>

\* Return target - n: release(&cons.lock).
Return(p) ==
    /\ lock' = None
    /\ pc' = [pc EXCEPT ![p] = "idle"]

\* while (n > 0) ends.
ReadDone(p) ==
    /\ pc[p] = "loop"
    /\ n[p] <= 0
    /\ Return(p)
    /\ UNCHANGED <<buf, r, w, e, target, n>>

\* r == w: sleep(&input.r, &cons.lock) releases the lock.
ReadSleep(p) ==
    /\ pc[p] = "loop"
    /\ n[p] > 0
    /\ r = w
    /\ lock' = None
    /\ pc' = [pc EXCEPT ![p] = "sleep"]
    /\ UNCHANGED <<buf, r, w, e, target, n>>

\* A woken reader returns from sleep holding cons.lock again.
ReadWake(p) ==
    /\ pc[p] = "woken"
    /\ lock = None
    /\ lock' = p
    /\ pc' = [pc EXCEPT ![p] = "loop"]
    /\ UNCHANGED <<buf, r, w, e, target, n>>

\* c = input.buf[input.r++ % INPUT_BUF], not C('D'): copy it, --n, and
\* stop after a '\n'.
ReadChar(p) ==
    /\ pc[p] = "loop"
    /\ n[p] > 0
    /\ r # w
    /\ At(r) # EOT
    /\ r' = (r + 1) % Word
    /\ n' = [n EXCEPT ![p] = @ - 1]
    /\ IF At(r) = NL THEN Return(p) ELSE UNCHANGED <<lock, pc>>
    /\ UNCHANGED <<buf, w, e, target>>

\* C('D'): stop; if some bytes were read, input.r-- keeps the C('D') for
\* the next read, which returns 0.
ReadEof(p) ==
    /\ pc[p] = "loop"
    /\ n[p] > 0
    /\ r # w
    /\ At(r) = EOT
    /\ r' = IF n[p] < target[p] THEN r ELSE (r + 1) % Word
    /\ Return(p)
    /\ UNCHANGED <<buf, w, e, target, n>>

-----------------------------------------------------------------------------

Init ==
    /\ buf = [i \in 0 .. INPUT_BUF - 1 |-> Nul]
    /\ r = 0 /\ w = 0 /\ e = 0
    /\ lock = None
    /\ pc = [p \in Readers |-> "idle"]
    /\ target = [p \in Readers |-> 0]
    /\ n = [p \in Readers |-> 0]

Next ==
    \/ IntrKill
    \/ IntrErase
    \/ \E c \in Chars \cup {NL, CR, EOT} : IntrType(c)
    \/ \E p \in Readers :
          \/ \E k \in Lens : ReadStart(p, k)
          \/ ReadDone(p) \/ ReadSleep(p) \/ ReadWake(p)
          \/ ReadChar(p) \/ ReadEof(p)

Spec == Init /\ [][Next]_vars


-----------------------------------------------------------------------------
(* Properties                                                              *)

TypeOK ==
    /\ buf \in [0 .. INPUT_BUF - 1 -> Chars \cup {NL, EOT, Nul}]
    /\ {r, w, e} \subseteq 0 .. Word - 1
    /\ lock \in Readers \cup {None}
    /\ pc \in [Readers -> {"idle", "loop", "sleep", "woken"}]

\* No reader sleeps on &input.r while committed input waits: consoleintr's
\* wakeup after every commit and consoleread's test of r == w under
\* cons.lock leave no window for a lost wakeup.
NoLostWakeup == \A p \in Readers : pc[p] = "sleep" => r = w

\* The ring with its wrapping uint32_t indices implements the line
\* discipline: committed input is input.buf from r to w, the edited line
\* from w to e, and every step of consoleintr and consoleread is a step of
\* ConsoleLine or changes neither.
Line == INSTANCE ConsoleLine WITH queue <- Ring(r, w), line <- Ring(w, e)
LineSpec == Line!Spec
=============================================================================
