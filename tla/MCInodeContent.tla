--------------------------- MODULE MCInodeContent ---------------------------
(***************************************************************************)
(* Model-checking instance of InodeContent.                                *)
(***************************************************************************)
EXTENDS InodeContent, TLC

\* Files are interchangeable: balloc's choice does not depend on which file
\* asks.
FileSymmetry == Permutations(Files)

\* States that differ only in what a block no tree uses still holds behave
\* alike: balloc zeroes a block (bzero) before any tree refers to it, and
\* only index blocks are read as block numbers, only data blocks as bytes.
\* Block numbers outside the device are left for TypeOK to report.
\* The committed disk is left out: without crashes nothing reads it.
\* The auxiliary record of a filewrite's start is read only while it is
\* the only writer.
FwLive == <<fwpc, fwn, fwi, foff, fwv, fwSole,
            [f \in Files |-> IF fwSole[f] THEN <<fwPre[f], fwStart[f]>> ELSE 0]>>

LiveBlocks == <<used, addrs, size, locals, panicked, FwLive, crashes,
                [b \in IndexBlocks \cap Blocks |-> ind[b]],
                [b \in (used \ IndexBlocks) \cap Blocks |-> data[b]]>>

\* With crashes the committed disk is part of the state, with what its
\* free blocks hold left out for the same reason.
LiveBlocksDurable ==
    <<LiveBlocks, durable[1], durable[2], durable[5],
      [b \in durable[1] \cap Blocks |-> <<durable[3][b], durable[4][b]>>]>>
\* Inputs of inode_content_values: while a filewrite is in progress on a
\* file, no other call runs on it (another writer would end what
\* ChunksPersisted speaks about, and only multiplies the states).
FwAlone == \A f \in Files : fwpc[f] \in {"loop", "ret"} => op[f] = "idle"
=============================================================================
