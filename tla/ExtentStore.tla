---------------------------- MODULE ExtentStore ----------------------------
(***************************************************************************)
(* What extent_client promises to yfs_client (extent_client.h): a store of *)
(* typed extents named by inode numbers.  create hands out a number that   *)
(* was never used before, put replaces the whole content of one extent,    *)
(* remove forgets one, and no step changes any other extent.  The store    *)
(* lives in the memory of the process (disk::blocks), so a process that    *)
(* dies takes every extent with it: "up" says that it has not died.        *)
(*                                                                         *)
(* InodeManager implements this specification with blocks and a bitmap.    *)
(***************************************************************************)
EXTENDS ExtentProtocol

CONSTANTS Inums,      \* the inode numbers that create may return
          Contents    \* the byte strings that clients put

VARIABLES extents,    \* the live extents: inode number -> type and data
          issued,     \* every inode number that create has returned
          up          \* the process that holds the extents is alive

vars == <<extents, issued, up>>

Extent == [type : Types, data : Contents \cup {<<>>}]

Live == DOMAIN extents

\* The constructor of inode_manager allocates the root directory, inode 1.
Init ==
  /\ extents = [i \in {1} |-> [type |-> T_DIR, data |-> <<>>]]
  /\ issued = {1}
  /\ up = TRUE

\* extents with extent i set to e, and with extent i forgotten.
With(i, e)  == [j \in Live \cup {i} |-> IF j = i THEN e ELSE extents[j]]
Without(i)  == [j \in Live \ {i} |-> extents[j]]

Create(i, type) ==
  /\ up
  /\ i \notin issued
  /\ issued' = issued \cup {i}
  /\ extents' = With(i, [type |-> type, data |-> <<>>])
  /\ UNCHANGED up

Put(i, data) ==
  /\ up
  /\ i \in Live
  /\ extents' = With(i, [extents[i] EXCEPT !.data = data])
  /\ UNCHANGED <<issued, up>>

Remove(i) ==
  /\ up
  /\ i \in Live
  /\ extents' = Without(i)
  /\ UNCHANGED <<issued, up>>

\* The process dies: a call named an extent that does not exist, or the disk
\* could not hold a put.  Nothing it did before is undone by a caller.
Die ==
  /\ up
  /\ up' = FALSE
  /\ UNCHANGED <<extents, issued>>

Next ==
  \/ \E i \in Inums : \E type \in Types : Create(i, type)
  \/ \E i \in Live : \E data \in Contents : Put(i, data)
  \/ \E i \in Live : Remove(i)
  \/ Die

Spec == Init /\ [][Next]_vars
=============================================================================
