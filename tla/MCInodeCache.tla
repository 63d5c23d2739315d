---------------------------- MODULE MCInodeCache ----------------------------
(* Model-checking instances of InodeCache.                                 *)
EXTENDS InodeCache, TLC

\* Threads are interchangeable: no code path depends on a thread's identity.
ThreadSymmetry == Permutations(Threads)

\* The locals of a thread at "idle" are dead: every operation sets a local
\* before reading it.  States that differ only in dead locals are merged.
\* The path kind is read only when namex starts: by the system call itself
\* and, for open with O_CREATE, again by create (CreateStart), which
\* changes sys to "create"; it is dead everywhere else.
Live(f, d) == [t \in Threads |-> IF pc[t] = "idle" THEN d ELSE f[t]]

LiveRel ==
  [t \in Threads |-> pc[t] # "idle" /\ sys[t] = "creat" /\ rel[t]]

LiveView ==
  <<cache, disk, pc, held, panicked, Live(ret, "idle"), Live(tgt, 0),
    Live(cur, None), Live(dp, None), Live(ip, None), Live(loaded, 0),
    Live(fbi, 0), Live(empty, None), Live(sys, "none"), LiveRel>>

\* Lost updates let ip->ref drift from the number of references without
\* bound; exploration stops where it is off by more than RefDrift.
RefDrift == 1
RefWithinDrift ==
  \A s \in Slots : inum[s] # Foreign =>
     ref[s] - Holders(s) \in -RefDrift .. RefDrift
\* Inputs: the system calls made with an absolute path.  Relative paths
\* are used by every call; "/name" by open, so that namex's iget of the
\* root (rather than idup of the cwd) is reached too.
AbsPathCalls == {"open"}
AbsPathBound == \A t \in Threads : ~rel[t] /\ pc[t] # "idle" => sys[t] \in AbsPathCalls

=============================================================================
