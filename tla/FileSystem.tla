----------------------------- MODULE FileSystem -----------------------------
(***************************************************************************)
(* What YFS promises to the programs that use its mount point (the         *)
(* comments of fuse.cc): a tree of directories, files and symbolic links.  *)
(* A directory maps names to inode numbers, a file is a string of bytes,   *)
(* and every operation changes what it names and nothing else.  An inode   *)
(* number is never given to a second node.                                 *)
(*                                                                         *)
(* FuseServer implements this specification.                               *)
(***************************************************************************)
EXTENDS ExtentProtocol, Sequences

CONSTANTS Inums,    \* inode numbers
          Names,    \* names of directory entries
          Bytes,    \* the values of a byte
          Zero,     \* the byte that fills holes
          Data,     \* what one write writes
          Targets,  \* what symbolic links hold
          Lengths   \* offsets, and lengths of files

VARIABLES nodes,    \* inode number -> type and contents
          issued,   \* every inode number that was given to a node
          up        \* the file system has not died

vars == <<nodes, issued, up>>

Dirs  == {i \in DOMAIN nodes : nodes[i].type = T_DIR}
Files == {i \in DOMAIN nodes : nodes[i].type = T_FILE}

\* A function with x mapped to y.
With(f, x, y) == [z \in DOMAIN f \cup {x} |-> IF z = x THEN y ELSE f[z]]
Without(f, x) == [z \in DOMAIN f \ {x} |-> f[z]]

EmptyDir == [name \in {} |-> 0]

Init ==
  /\ nodes = [i \in {1} |-> [type |-> T_DIR, data |-> EmptyDir]]
  /\ issued = {1}
  /\ up = TRUE

\* Some inode number that no node had before.
Issue(i) ==
  /\ i \notin issued
  /\ issued' = issued \cup {i}

\* A new node, named in a directory that has no such name.
Make(i, dir, name, node) ==
  /\ up
  /\ name \notin DOMAIN nodes[dir].data
  /\ nodes' = With(With(nodes, i, node), dir,
                   [nodes[dir] EXCEPT !.data = With(@, name, i)])
  /\ UNCHANGED up

\* "Remove the file named @name from directory @parent.  Free the file's
\* extent.  Do *not* allow unlinking of a directory."
Unlink(dir, name) ==
  /\ up
  /\ UNCHANGED <<issued, up>>
  /\ name \in DOMAIN nodes[dir].data
  /\ LET i == nodes[dir].data[name]
     IN  /\ nodes[i].type # T_DIR
         /\ nodes' = Without([nodes EXCEPT ![dir].data = Without(@, name)], i)

\* "If the new size is bigger than the current file size, fill the new bytes
\* with '\0'."
Resized(bytes, n) ==
  [k \in 1 .. n |-> IF k <= Len(bytes) THEN bytes[k] ELSE Zero]

\* "If @off + @size is greater than the current size of the file, the write
\* should cause the file to grow.  If @off is beyond the end of the file, fill
\* the gap with null bytes."
Overwritten(bytes, data, off) ==
  LET size == IF off + Len(data) > Len(bytes) THEN off + Len(data) ELSE Len(bytes)
  IN  [k \in 1 .. size |-> IF k \in off + 1 .. off + Len(data)
                           THEN data[k - off] ELSE Resized(bytes, size)[k]]

SetSize(i, n) ==
  /\ up
  /\ UNCHANGED <<issued, up>>
  /\ nodes' = [nodes EXCEPT ![i].data = Resized(@, n)]

Write(i, data, off) ==
  /\ up
  /\ UNCHANGED <<issued, up>>
  /\ nodes' = [nodes EXCEPT ![i].data = Overwritten(@, data, off)]

Die ==
  /\ up
  /\ up' = FALSE
  /\ UNCHANGED <<nodes, issued>>

NewNodes == {[type |-> T_FILE, data |-> <<>>], [type |-> T_DIR, data |-> EmptyDir]}
              \cup {[type |-> T_SYMLINK, data |-> t] : t \in Targets}

Next ==
  \/ \E i \in Inums :
       /\ Issue(i)
       /\ \E dir \in Dirs, name \in Names, node \in NewNodes : Make(i, dir, name, node)
  \/ \E dir \in Dirs, name \in Names : Unlink(dir, name)
  \/ \E i \in Files, n \in Lengths : SetSize(i, n)
  \/ \E i \in Files, data \in Data, off \in Lengths : Write(i, data, off)
  \/ Die

Spec == Init /\ [][Next]_vars
=============================================================================
