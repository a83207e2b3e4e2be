-------------------------- MODULE MCInodeManager --------------------------
(***************************************************************************)
(* InodeManager on two small disks, on which a file has one direct block   *)
(* and at most two behind the indirect block.  For the passing run, with   *)
(* three files, 17 blocks: bitmaps in blocks 2-4, the inodes 0-3 in blocks *)
(* 5-8, and the block ids 12-16 on the disk (17-29 are behind its end).    *)
(* For the others 15 blocks: bitmaps in 2-4, inodes 0-3 in 6-9, ids 10-14  *)
(* on the disk and 15-24 behind it.                                        *)
(***************************************************************************)
EXTENDS InodeManager, TLC

CONSTANTS Fills,   \* what tells the contents of two puts of one size apart
          Lengths  \* the lengths of the contents

\* A byte is known by the put that wrote it and its place in that put, so a
\* block of another file, or of another place in the file, is told apart.
MCContents == {[p \in 1 .. n |-> <<f, p>>] : f \in Fills, n \in Lengths}
MCBytes    == Fills \X (1 .. 10)

\* The contents of a put decide nothing but what is read back.
Symmetry == Permutations(Fills)
=============================================================================
