----------------------------- MODULE MCDirectory -----------------------------
(***************************************************************************)
(* Model-checking instance of Directory.                                   *)
(***************************************************************************)
EXTENDS Directory, TLC

\* Processes are interchangeable, and so are the names they use (Init
\* gives every process the same locals, and no step prefers a name).
ProcNameSymmetry == Permutations(Threads) \cup Permutations(Names)

\* A local is dead from its last read until a step sets it again: each is
\* kept only at the labels in between, and 0 stands for it elsewhere.
Keep(t, labels, v) == IF pc[t] \in labels THEN v ELSE 0

DirlinkPath == {"dlLookup", "dlOff", "dlScan", "dlEnd"}
IputPath    == {"iputCheck", "iputDec"}

\* The labels iput returns to, during its steps.
Returning(t, labels) == pc[t] \in IputPath /\ after[t] \in labels

LiveLocals(t) ==
  <<Keep(t, {"linkLock", "linkParent", "parentLock", "createLock"}
             \cup DirlinkPath, sc[t]),
    IF Returning(t, {"unlinkBad"}) THEN dp[t]
    ELSE Keep(t, {"parentLock", "createLock", "unlinkLock", "unlinkBad"}
                 \cup DirlinkPath, dp[t]),
    Keep(t, {"parentLock", "createLock"}, nm[t]),
    IF Returning(t, {"ipUnlock", "linkBad", "unlinkDec", "createFound"}) THEN ip[t]
    ELSE IF pc[t] = "parentLock" /\ sc[t] # "link" THEN 0
    ELSE Keep(t, {"createLock", "createFound", "ipUnlock", "linkLock", "linkParent",
                  "parentLock", "linkBad", "unlinkLock", "unlinkDec"}
                 \cup DirlinkPath, ip[t]),
    Keep(t, {"unlinkLock", "dlScan"}, off[t]),
    Keep(t, {"dlOff"}, lo[t]),
    Keep(t, DirlinkPath, links[t]),
    Keep(t, IputPath, puts[t]),
    Keep(t, IputPath, after[t])>>

LiveState == <<fs, lk, cache, pc, panicked, [t \in Threads |-> LiveLocals(t)]>>
\* Inputs of dir_links: sys_link makes its new name, and sys_mkdir its
\* directory, in the root ("/name"); create and unlink use any directory
\* reachable from the root.  (Links and directories anywhere multiply the
\* states by four; the removed-parent race they add is dir_removed_parent's.)
RootInputs ==
  \A t \in Threads :
     /\ sc[t] = "link" /\ pc[t] \notin {"idle", "linkLock", "linkParent"} => dp[t] = ROOTINO
     /\ sc[t] = "mkdir" /\ pc[t] # "idle" => dp[t] = ROOTINO

\* A tree for PathName, over names of at most DIRSIZ = 2 bytes (97 is 'a',
\* 98 is 'b'): the root 1 holds directory 2 as "a" and file 3 as "ab" (so
\* "abb" finds it, cut to DIRSIZ); 2 holds 3 as "b" and the root as "a", a
\* way back up like "..".  The cwd is 2.
PathTree == (<<1, <<97>>>> :> 2) @@ (<<1, <<97, 98>>>> :> 3)
            @@ (<<2, <<98>>>> :> 3) @@ (<<2, <<97>>>> :> 1)

PN == INSTANCE PathName WITH DIRSIZ <- 2, Chars <- {97, 98}, MaxPath <- 5,
                             ROOTINO <- 1, Cwd <- 2,
                             Tree <- PathTree, Dirs <- {1, 2}

\* The parsing facts below are constants, which TLC computes once; each
\* property adds the antecedent panicked \in Panics, true of every state,
\* so that TLC checks it as a state predicate and reports it by state.
PathSplitsOK == PN!SkipelemSplits
PathWalkOK == PN!NamexMatchesReference

\* skipelem splits every path of up to 5 bytes into its elements, cut to
\* DIRSIZ, and leaves an empty path exactly after the last one.
SkipelemSplits == panicked \in Panics => PathSplitsOK

\* namei and nameiparent (namex's loop) return what the path's elements
\* lead to from the root or the cwd, for every path of up to 5 bytes.
NamexMatchesReference == panicked \in Panics => PathWalkOK
=============================================================================
