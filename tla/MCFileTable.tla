---------------------------- MODULE MCFileTable ----------------------------
(* Model-checking instance of FileTable: processes and inodes are model     *)
(* values and interchangeable, so they are symmetric.                       *)
EXTENDS FileTable, TLC

ProcInodeSymmetry == Permutations(Procs) \cup Permutations(Inodes)

\* The state up to what no later step reads: the fields of a slot with ref
\* 0 (get_fd overwrites them all before a descriptor can reach the slot)
\* and the call locals of an idle process (set at the start of each call).
\* Two states that agree on this view have the same futures.
LiveState ==
    << ofile, content, iref, ilock, panicked, ref, type,
       [s \in {t \in Slots : ref[t] > 0} |->
            <<ip[s], off[s], readable[s], writable[s]>>],
       [p \in {q \in Procs : pc[q] # "idle"} |->
            <<pc[p], cf[p], cn[p], ci[p], cv[p], coff[p], cr[p], cvec[p], cvi[p]>>] >>
=============================================================================
