---------------------------- MODULE MCFuseServer ----------------------------
(***************************************************************************)
(* FuseServer with two processes, two or three names and one or two bytes. *)
(* A byte other than '\0' is a model value; which one it is decides        *)
(* nothing.  A directory entry takes 24 bytes and its name, padded to a    *)
(* multiple of 8: 32 bytes for a name of up to eight letters, 40 for a     *)
(* longer one.                                                             *)
(***************************************************************************)
EXTENDS FuseServer, TLC

CONSTANTS Letters,     \* bytes other than '\0'
          DataLengths, \* how much one write writes
          LongNames    \* names of nine to sixteen letters; the others are shorter

MCBytes == Letters \cup {Zero}
MCData  == UNION {[1 .. n -> Letters] : n \in DataLengths}
MCDirentSize == [name \in Names |-> IF name \in LongNames THEN 40 ELSE 32]

Symmetry == Permutations(Procs) \cup Permutations(LongNames)
              \cup Permutations(Names \ LongNames)
=============================================================================
