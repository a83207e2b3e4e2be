----------------------------- MODULE YfsClient -----------------------------
(***************************************************************************)
(* The methods of yfs_client (yfs_client.cc) as functions of the extents   *)
(* that extent_client holds.  A store is a record of the live extents and  *)
(* of the last inode number create returned; ExtentStore says what the     *)
(* calls of extent_client do to it.                                        *)
(*                                                                         *)
(* The data of a directory is the text "name/inum/name/inum/...": here the *)
(* sequence of its tokens, each of which a '/' ends.  Its size is 0 if the *)
(* directory is empty, which is all that is used of it.  The data of a     *)
(* file or a symbolic link is a sequence of bytes.                         *)
(*                                                                         *)
(* Every method runs to its end before the next one starts, because        *)
(* fuse_session_loop serves one request at a time; the methods below are   *)
(* whole methods, with every call of extent_client they make.              *)
(*                                                                         *)
(* A parent that is no directory is left out: lookup then returns before   *)
(* it sets found, and create, mkdir and unlink go on with what the         *)
(* variable happened to hold.  No request of FuseServer names such a       *)
(* parent.                                                                 *)
(***************************************************************************)
EXTENDS ExtentProtocol, FiniteSets, Sequences, SequencesExt

CONSTANT Zero   \* the byte '\0'

-----------------------------------------------------------------------------
(* extent_client.                                                          *)

Live(s) == DOMAIN s.extents

ec_get(s, i) == s.extents[i].data

\* A zeroed attribute record is what getattr returns for a missing inode.
ec_getattr(s, i) ==
  IF i \in Live(s) THEN [type |-> s.extents[i].type, size |-> Len(ec_get(s, i))]
                   ELSE [type |-> T_NONE, size |-> 0]

\* Mutant: the new number is one more than there are inodes.
ec_create_counting(s, type) ==
  LET i == Cardinality(Live(s)) + 1
  IN  [inum    |-> i,
       extents |-> [j \in Live(s) \cup {i} |->
                      IF j = i THEN [type |-> type, data |-> <<>>] ELSE s.extents[j]]]

\* Mutant: the number of a removed inode is given out again.
ec_create_reusing(s, type) ==
  LET i == CHOOSE j \in 1 .. Cardinality(Live(s)) + 1 :
             j \notin Live(s) /\ 1 .. j - 1 \subseteq Live(s)
  IN  [inum    |-> i,
       extents |-> [j \in Live(s) \cup {i} |->
                      IF j = i THEN [type |-> type, data |-> <<>>] ELSE s.extents[j]]]

ec_create(s, type) ==
  [inum    |-> s.inum + 1,
   extents |-> [i \in Live(s) \cup {s.inum + 1} |->
                  IF i = s.inum + 1 THEN [type |-> type, data |-> <<>>]
                                    ELSE s.extents[i]]]

ec_put(s, i, data) == [s EXCEPT !.extents[i].data = data]

ec_remove(s, i) == [s EXCEPT !.extents = [j \in Live(s) \ {i} |-> @[j]]]

-----------------------------------------------------------------------------
(* Outcomes.  "crash" is a NULL inode dereferenced by get, put or remove,  *)
(* "throw" an exception that nothing catches: either ends the process.     *)

OK(s)     == [status |-> "OK", store |-> s]
Fail(r, s) == [status |-> r, store |-> s]
Fatal     == {"crash", "throw"}

isfile(s, i)    == ec_getattr(s, i).type = T_FILE
isdir(s, i)     == ec_getattr(s, i).type = T_DIR
issymlink(s, i) == ec_getattr(s, i).type = T_SYMLINK

-----------------------------------------------------------------------------
(* Directories.                                                            *)

\* What create, mkdir, symlink and unlink write for a list of entries.
Text(list) ==
  [k \in 1 .. 2 * Len(list) |-> IF k % 2 = 1 THEN list[(k + 1) \div 2].name
                                            ELSE list[k \div 2].inum]

\* A token that is no number reads as 0.
atoi(token) == IF token \in Nat THEN token ELSE 0

\* The tokens in twos.  Behind a name that ends the text, getline fails and
\* leaves the empty token.  What is no directory has no entries.
readdir(s, dir) ==
  IF ~ isdir(s, dir) THEN <<>>
  ELSE LET text == ec_get(s, dir)
       IN  [k \in 1 .. (Len(text) + 1) \div 2 |->
              [name |-> text[2 * k - 1],
               inum |-> IF 2 * k <= Len(text) THEN atoi(text[2 * k]) ELSE 0]]

\* lookup of a directory: the first entry of that name decides.
Matches(list, name) == {k \in DOMAIN list : list[k].name = name}
First(list, name) ==
  LET at == Matches(list, name) IN CHOOSE k \in at : \A l \in at : k <= l
found(s, parent, name) == Matches(readdir(s, parent), name) # {}
lookup(s, parent, name) ==
  LET list == readdir(s, parent) IN list[First(list, name)].inum

\* Mutant: a new entry comes first.
prepend_entry(s, parent, name, i) ==
  ec_put(s, parent, <<name, i>> \o ec_get(s, parent))

\* Mutant: the number comes before the name.
append_swapped(s, parent, name, i) ==
  ec_put(s, parent, ec_get(s, parent) \o <<i, name>>)

\* create, mkdir and symlink end by appending an entry to the parent.
append_entry(s, parent, name, i) ==
  ec_put(s, parent, ec_get(s, parent) \o <<name, i>>)

create(s, parent, name) ==
  IF found(s, parent, name) THEN Fail("EXIST", s)
  ELSE LET t == ec_create(s, T_FILE) IN OK(append_entry(t, parent, name, t.inum))

mkdir(s, parent, name) ==
  IF found(s, parent, name) THEN Fail("EXIST", s)
  ELSE LET t == ec_create(s, T_DIR) IN OK(append_entry(t, parent, name, t.inum))

\* symlink does not look whether the name exists.
symlink(s, parent, link, name) ==
  LET t == ec_create(s, T_SYMLINK)
  IN  OK(append_entry(ec_put(t, t.inum, link), parent, name, t.inum))

\* Mutant: the inode is removed and the last entry erased.
unlink_last(s, parent, name) ==
  LET i == lookup(s, parent, name)
      t == ec_remove(s, i)
  IN  OK(ec_put(t, parent, Text(Front(readdir(t, parent)))))

\* Mutant: the entry is erased and the inode stays.
unlink_entry(s, parent, name) ==
  LET list == readdir(s, parent)
  IN  OK(ec_put(s, parent, Text(RemoveAt(list, First(list, name)))))

\* unlink removes the inode before the entry, looks at neither's type, and
\* writes the rest of the directory anew.
unlink(s, parent, name) ==
  IF ~ found(s, parent, name) THEN Fail("NOENT", s)
  ELSE LET i    == lookup(s, parent, name)
           t    == ec_remove(s, i)
           list == readdir(t, parent)
       IN  IF i \notin Live(s) THEN Fail("crash", s)
           ELSE OK(ec_put(t, parent, Text(RemoveAt(list, First(list, name)))))

-----------------------------------------------------------------------------
(* Files.                                                                  *)

Zeros(n) == [k \in 1 .. n |-> Zero]

\* setattr does not look at the type, and gets the data of a missing inode
\* unless the size asked for is the 0 that getattr reports for it.
setattr(s, i, size) ==
  LET a   == ec_getattr(s, i)
      buf == ec_get(s, i)
  IN  IF a.size = size THEN OK(s)
      ELSE IF i \notin Live(s) THEN Fail("crash", s)
      ELSE OK(ec_put(s, i, IF a.size < size THEN buf \o Zeros(size - a.size)
                                            ELSE SubSeq(buf, 1, size)))

\* The bytes from place off (from 0), at most n of them.
substr(buf, off, n) ==
  SubSeq(buf, off + 1, IF off + n < Len(buf) THEN off + n ELSE Len(buf))

\* substr throws out_of_range if off lies behind the end.
read(s, i, size, off) ==
  IF ~ isfile(s, i) THEN Fail("IOERR", s)
  ELSE IF off > Len(ec_get(s, i)) THEN Fail("throw", s)
  ELSE [status |-> "OK", store |-> s, data |-> substr(ec_get(s, i), off, size)]

\* Mutant: the bytes behind the written ones are lost.
write_truncating(s, i, data, off) ==
  LET buf  == ec_get(s, i)
      hole == IF off > Len(buf) THEN off - Len(buf) ELSE 0
      head == IF off > Len(buf) THEN buf \o Zeros(hole) ELSE SubSeq(buf, 1, off)
  IN  IF i \notin Live(s) THEN Fail("crash", s)
      ELSE [status        |-> "OK",
            store         |-> ec_put(s, i, head \o data),
            bytes_written |-> hole + Len(data)]

write(s, i, data, off) ==
  LET buf    == ec_get(s, i)
      end    == off + Len(data)
      suffix == IF end < Len(buf) THEN SubSeq(buf, end + 1, Len(buf)) ELSE <<>>
      hole   == IF off > Len(buf) THEN off - Len(buf) ELSE 0
      head   == IF off > Len(buf) THEN buf \o Zeros(hole) ELSE SubSeq(buf, 1, off)
  IN  IF i \notin Live(s) THEN Fail("crash", s)
      ELSE [status        |-> "OK",
            store         |-> ec_put(s, i, head \o data \o suffix),
            bytes_written |-> hole + Len(data)]

\* Mutant: the type is not looked at, and the data of a missing inode is got.
readlink_unchecked(s, i) ==
  IF i \notin Live(s) THEN Fail("crash", s)
  ELSE [status |-> "OK", store |-> s, data |-> ec_get(s, i)]

readlink(s, i) ==
  IF ~ issymlink(s, i) THEN Fail("IOERR", s)
  ELSE [status |-> "OK", store |-> s, data |-> ec_get(s, i)]
=============================================================================
