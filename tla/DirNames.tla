------------------------------ MODULE DirNames ------------------------------
(***************************************************************************)
(* What the directory layer promises: a directory binds each name to at   *)
(* most one inode.  link adds a binding for a name that has none, and      *)
(* unlink removes one.  Where in the directory's content an entry lies,    *)
(* free entries and the insertion cache are invisible here.                *)
(***************************************************************************)
CONSTANTS
    Dirs,       \* directory inodes
    Names,      \* names bound in them
    Inodes      \* the inodes names can be bound to

VARIABLE names  \* names[d]: the set of <<name, inode>> bindings of d

Bound(d, n) == \E b \in names[d] : b[1] = n

Init == names = [d \in Dirs |-> {}]

Link(d, n, i) ==
    /\ ~Bound(d, n)
    /\ names' = [names EXCEPT ![d] = @ \cup {<<n, i>>}]

Unlink(d, n, i) ==
    /\ <<n, i>> \in names[d]
    /\ names' = [names EXCEPT ![d] = @ \ {<<n, i>>}]

\* A step links or unlinks one binding <<n, i>>, which is then among the
\* bindings of d that the step changes: the witness is looked for there.
Changed(d) == (names'[d] \ names[d]) \cup (names[d] \ names'[d])

Next ==
    \E d \in Dirs : \E b \in Changed(d) :
        /\ b \in Names \X Inodes
        /\ Link(d, b[1], b[2]) \/ Unlink(d, b[1], b[2])

Spec == Init /\ [][Next]_names
=============================================================================
