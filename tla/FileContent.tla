---------------------------- MODULE FileContent ----------------------------
(***************************************************************************)
(* What the content layer of the file system promises its callers: each   *)
(* file is a sequence of bytes.  A write replaces or extends the bytes at  *)
(* an offset no later than the end of the file (files have no holes), and  *)
(* truncation empties a file.  Reads change nothing.  What the files hold  *)
(* may be committed at any point (saved); a crash brings every file back   *)
(* to what was last committed.                                            *)
(***************************************************************************)
EXTENDS Naturals, Sequences

CONSTANTS
    Files,      \* the inodes whose content is written
    Vals,       \* the byte values callers write (0 is the zeroed byte)
    MaxBytes    \* MAXFILE * BSIZE, the largest size a file may reach

VARIABLES content, saved

\* The bytes of s with positions off+1 .. off+Len(w) replaced by w.
Overwrite(s, off, w) ==
    [i \in 1 .. IF off + Len(w) > Len(s) THEN off + Len(w) ELSE Len(s) |->
        IF i > off /\ i <= off + Len(w) THEN w[i - off] ELSE s[i]]

Init == content = [f \in Files |-> <<>>] /\ saved = content

\* Write m copies of v at offset off: off never lies past the end.
Write(f, off, m, v) ==
    /\ off <= Len(content[f])
    /\ m >= 1
    /\ off + m <= MaxBytes
    /\ content' = [content EXCEPT ![f] = Overwrite(@, off, [i \in 1..m |-> v])]

Truncate(f) == content' = [content EXCEPT ![f] = <<>>]

\* The files as they are now become what a crash returns to.
Commit == saved' = content'

Crash == content' = saved /\ saved' = saved

Next ==
    \/ /\ \/ UNCHANGED content
          \/ \E f \in Files :
                \/ Truncate(f)
                \/ \E off \in 0 .. Len(content[f]), v \in Vals :
                      \E m \in 1 .. MaxBytes - off : Write(f, off, m, v)
       /\ UNCHANGED saved \/ Commit
    \/ Crash

Spec == Init /\ [][Next]_<<content, saved>>
=============================================================================
