---------------------------- MODULE ConsoleLine ----------------------------
(***************************************************************************)
(* What console input promises its readers: a line discipline over a      *)
(* buffer of INPUT_BUF characters.  Typed characters go to the line being  *)
(* edited; a newline, an end-of-file or a full buffer commits the line to  *)
(* the queue that reads take characters from, in order.  Erase removes    *)
(* the last character of the line and kill removes the whole line; neither *)
(* reaches committed input.                                                 *)
(***************************************************************************)
EXTENDS Naturals, Sequences, SequencesExt

CONSTANTS
    INPUT_BUF,  \* characters the buffer holds, committed or not
    Chars       \* ordinary characters

NL  == "nl"     \* '\n'
EOT == "eot"    \* C('D'), end of file

VARIABLES
    queue,      \* committed characters not yet read
    line        \* the line being edited

Init == queue = <<>> /\ line = <<>>

Type(c) ==
    /\ Len(queue) + Len(line) < INPUT_BUF
    /\ LET l == Append(line, c) IN
       IF c \in {NL, EOT} \/ Len(queue) + Len(l) = INPUT_BUF
       THEN queue' = queue \o l /\ line' = <<>>
       ELSE line' = l /\ UNCHANGED queue

Erase == line # <<>> /\ line' = Front(line) /\ UNCHANGED queue

Kill == line # <<>> /\ line' = <<>> /\ UNCHANGED queue

Consume == queue # <<>> /\ queue' = Tail(queue) /\ UNCHANGED line

Next ==
    \/ \E c \in Chars \cup {NL, EOT} : Type(c)
    \/ Erase
    \/ Kill
    \/ Consume

Spec == Init /\ [][Next]_<<queue, line>>
=============================================================================
