-------------------------- MODULE FuseServerProofs --------------------------
(***************************************************************************)
(* Theorems about the FUSE handlers, for any number of processes, any      *)
(* names, bytes and data, and any bounds:                                  *)
(*                                                                         *)
(*   - Spec => []IInv, the inductive invariant, and from it TypeOK,        *)
(*     EntriesLive, NamedOnce and ListedOnce, whatever calls are made;     *)
(*   - NoOrphan and HandleLeadsBack, if no call sets the times of a        *)
(*     directory, and the refinement of FileSystem, if none sets those of  *)
(*     a directory or a symbolic link.  fuseserver_setattr sets the size   *)
(*     along with the times, and so such a call empties what it is made    *)
(*     on: fs_touch finds it, and then these three do not hold;            *)
(*   - NeverCrashes, if no open file is written or resized (fs_crash is    *)
(*     the counterexample otherwise), and ListingReadable, if the names    *)
(*     take the same number of bytes (fs_garbled otherwise).               *)
(*                                                                         *)
(* The parts: the text of a directory; the methods of yfs_client as        *)
(* changes of a store; what a step of the store leaves of what a process   *)
(* knew (Follows, Keeps); the steps, one lemma each; the theorems; and     *)
(* the tree that the extents stand for.                                    *)
(***************************************************************************)
EXTENDS FuseServer, SequenceTheorems, WellFoundedInduction, TLAPS

-----------------------------------------------------------------------------

(***************************************************************************)
(* The inductive invariant.  It is said of a store and of what a process   *)
(* holds, so that a step of the store and a step of the process can be     *)
(* looked at one by one.                                                   *)
(***************************************************************************)
Entries == [name : Names, inum : 2 .. MAX_INUM]
Items   == [name : Names, inum : Nat]   \* what was listed, at any time
Texts   == {Text(list) : list \in Seq(Entries)}
Nodes   == [type : {T_DIR}, data : Texts]
             \cup [type : {T_FILE}, data : Seq(Bytes)]
             \cup [type : {T_SYMLINK}, data : Targets \cup {<<>>}]

\* What the extents are.
StoreOK(s) ==
  /\ s \in [inum : 1 .. MAX_INUM, extents : UNION {[L -> Nodes] : L \in SUBSET Nat}]
  /\ Live(s) \subseteq 1 .. s.inum

\* The entries of the directories: each names an inode, by a name and a number
\* that no other entry has.
Folders(s) == {i \in Live(s) : isdir(s, i)}
AllLive(s) ==
  \A d \in Folders(s) : \A k \in DOMAIN readdir(s, d) : readdir(s, d)[k].inum \in Live(s)
Unique(s) ==
  \A c, d \in Folders(s) :
    \A k \in DOMAIN readdir(s, c), l \in DOMAIN readdir(s, d) :
      \/ c = d /\ readdir(s, c)[k].name = readdir(s, d)[l].name
      \/ readdir(s, c)[k].inum = readdir(s, d)[l].inum
      => c = d /\ k = l

\* The number of a looked-up file was issued, and is no other file's since.
HandleOK(s, h) ==
  /\ h.ino \in 1 .. s.inum
  /\ h.ino \in Live(s) => isfile(s, h.ino)

\* What was listed is issued, distinct, and does not come again: it does not begin
\* at or behind the offset.
Begins(list, j) == dirbuf_size(list)[j - 1]   \* the offset of entry j
Distinct(list) == \A k, l \in DOMAIN list : list[k] = list[l] => k = l
Apart(list, off, old) ==
  \A j \in DOMAIN list, k \in DOMAIN old : Begins(list, j) >= off => list[j] # old[k]
Listings == {"getdents", "listed", "garbled"}
ListingOK(s, c) ==
  /\ \A k \in DOMAIN c.listed : c.listed[k].inum <= s.inum
  /\ Distinct(c.listed)
  /\ c.op = "getdents" => Apart(readdir(s, c.dir), c.off, c.listed)

CallOK(s, c) ==
  /\ c \in Pending
  /\ c.op \in {"opening", "following", "walking"} \cup Listings => c.dir \in Folders(s)
  /\ c.op = "opening" => HandleOK(s, c)
  /\ c.op \in Listings => ListingOK(s, c)

Opened == [dir : Nat, name : Names, ino : Nat]
FdOK(s, h) ==
  \/ h = NoFile
  \/ h \in Opened /\ h.dir \in Folders(s) /\ HandleOK(s, h)

IInv ==
  /\ StoreOK(store) /\ AllLive(store) /\ Unique(store)
  /\ status \in {"running"} \cup Fatal
  /\ DOMAIN call = Procs /\ \A p \in Procs : CallOK(store, call[p])
  /\ DOMAIN fd = Procs /\ \A p \in Procs : FdOK(store, fd[p])

\* What holds besides as long as no directory is emptied by a change of its times.
Leads(s, h) ==
  h.ino \in Live(s) =>
    \E k \in DOMAIN readdir(s, h.dir) :
      readdir(s, h.dir)[k] = [name |-> h.name, inum |-> h.ino]
AllNamed(s) ==
  \A i \in Live(s) \ {1} :
    \E d \in Folders(s) : \E k \in DOMAIN readdir(s, d) : readdir(s, d)[k].inum = i

LInv ==
  /\ AllNamed(store)
  /\ \A p \in Procs : call[p].op = "opening" => Leads(store, call[p])
  /\ \A p \in Procs : fd[p] # NoFile => Leads(store, fd[p])

-----------------------------------------------------------------------------
(* The text of a directory.                                                *)

\* The text has two tokens for each entry.
LEMMA TextIs ==
  ASSUME NEW list \in Seq(Entries)
  PROVE  /\ Text(list) \in Seq(Names \cup Int)
         /\ Len(Text(list)) = 2 * Len(list)
         /\ \A k \in 1 .. Len(list) : /\ Text(list)[2 * k - 1] = list[k].name
                                      /\ Text(list)[2 * k] = list[k].inum
<1> DEFINE n == Len(list)
<1>1. n \in Nat /\ \A k \in 1 .. n : list[k] \in Entries
  OBVIOUS
<1>2. ASSUME NEW k \in 1 .. 2 * n
      PROVE  (k + 1) \div 2 \in 1 .. n /\ (k % 2 # 1 => k \div 2 \in 1 .. n)
  BY <1>1
<1>3. ASSUME NEW k \in 1 .. 2 * n
      PROVE  Text(list)[k] = IF k % 2 = 1 THEN list[(k + 1) \div 2].name ELSE list[k \div 2].inum
  BY DEF Text
<1>4. ASSUME NEW k \in 1 .. 2 * n
      PROVE  Text(list)[k] \in Names \cup Int
  <2>1. CASE k % 2 = 1
    BY <1>1, <1>2, <1>3, <2>1 DEF Entries
  <2>2. CASE k % 2 # 1
    BY <1>1, <1>2, <1>3, <2>2 DEF Entries
  <2> QED BY <2>1, <2>2
<1>5. Text(list) = [k \in 1 .. 2 * n |-> Text(list)[k]]
  BY DEF Text
<1>6. Text(list) \in Seq(Names \cup Int) /\ Len(Text(list)) = 2 * n
  <2>1. 2 * n \in Nat
    BY <1>1
  <2> QED BY <1>4, <1>5, <2>1, IsASeq, LenProperties
<1>7. ASSUME NEW k \in 1 .. n
      PROVE  Text(list)[2 * k - 1] = list[k].name /\ Text(list)[2 * k] = list[k].inum
  <2>1. /\ 2 * k - 1 \in 1 .. 2 * n /\ 2 * k \in 1 .. 2 * n
        /\ (2 * k - 1) % 2 = 1 /\ (2 * k) % 2 # 1
        /\ ((2 * k - 1) + 1) \div 2 = k /\ (2 * k) \div 2 = k
    BY <1>1
  <2> QED BY <1>3, <2>1
<1> QED BY <1>6, <1>7

\* readdir reads back the entries that the text was written from.
LEMMA ReadBack ==
  ASSUME NEW list \in Seq(Entries), NEW s, NEW d, isdir(s, d), ec_get(s, d) = Text(list)
  PROVE  readdir(s, d) = list
<1> DEFINE text == Text(list)
           n    == Len(list)
<1>1. n \in Nat /\ \A k \in 1 .. n : list[k] \in Entries
  OBVIOUS
<1>2. Len(text) = 2 * n /\ (Len(text) + 1) \div 2 = n
  BY <1>1, TextIs
<1>3. ASSUME NEW k \in 1 .. n
      PROVE  [name |-> text[2 * k - 1],
              inum |-> IF 2 * k <= Len(text) THEN atoi(text[2 * k]) ELSE 0] = list[k]
  <2>1. 2 * k <= Len(text)
    BY <1>1, <1>2
  <2>2. text[2 * k - 1] = list[k].name /\ text[2 * k] = list[k].inum
    BY TextIs
  <2>3. PICK e \in Entries : e = list[k]
    BY <1>1
  <2>4. atoi(text[2 * k]) = e.inum
    BY <2>2, <2>3 DEF atoi, Entries
  <2> HIDE DEF text
  <2>5. e = [name |-> e.name, inum |-> e.inum]
    BY DEF Entries
  <2> QED BY <2>1, <2>2, <2>3, <2>4, <2>5
<1>4. readdir(s, d) = [k \in 1 .. n |->
         [name |-> text[2 * k - 1],
          inum |-> IF 2 * k <= Len(text) THEN atoi(text[2 * k]) ELSE 0]]
  <2>1. (IF isdir(s, d) THEN ec_get(s, d) ELSE <<>>) = text
    OBVIOUS
  <2> HIDE DEF text, n
  <2> QED BY <1>2, <2>1, Zenon DEF readdir
<1>5. list = [k \in 1 .. n |-> list[k]]
  BY <1>1, LenProperties
<1> HIDE DEF text, n
<1> QED BY <1>3, <1>4, <1>5, Zenon

\* Two tokens at the end of the text are one entry more.
LEMMA TextAppend ==
  ASSUME NEW list \in Seq(Entries), NEW name \in Names, NEW i \in 2 .. MAX_INUM
  PROVE  /\ Append(list, [name |-> name, inum |-> i]) \in Seq(Entries)
         /\ Text(Append(list, [name |-> name, inum |-> i])) = Text(list) \o <<name, i>>
<1> DEFINE e == [name |-> name, inum |-> i]
           more == Append(list, e)
           n    == Len(list)
           long == Text(list) \o <<name, i>>
<1>1. n \in Nat /\ e \in Entries /\ more \in Seq(Entries) /\ Len(more) = n + 1
  BY DEF Entries
<1>2. /\ Text(list) \in Seq(Names \cup Int) /\ Len(Text(list)) = 2 * n
      /\ Text(more) \in Seq(Names \cup Int) /\ Len(Text(more)) = 2 * (n + 1)
  BY <1>1, TextIs
<1>3. long \in Seq(Names \cup Int) /\ Len(long) = 2 * (n + 1)
  <2>1. i \in Int
    OBVIOUS
  <2> QED BY <1>1, <1>2, <2>1
<1>4. ASSUME NEW k \in 1 .. 2 * (n + 1)
      PROVE  Text(more)[k] = long[k]
  <2>1. PICK m \in 1 .. n + 1 : k = 2 * m - 1 \/ k = 2 * m
    <3>1. /\ (k + 1) \div 2 \in 1 .. n + 1
          /\ k = 2 * ((k + 1) \div 2) - 1 \/ k = 2 * ((k + 1) \div 2)
      BY <1>1
    <3> QED BY <3>1
  <2>2. Text(more)[2 * m - 1] = more[m].name /\ Text(more)[2 * m] = more[m].inum
    BY <1>1, TextIs
  <2>3. CASE m \in 1 .. n
    <3>1. more[m] = list[m]
      BY <1>1, <2>3
    <3>2. Text(list)[2 * m - 1] = list[m].name /\ Text(list)[2 * m] = list[m].inum
      BY <2>3, TextIs
    <3>3. k \in 1 .. 2 * n
      BY <1>1, <2>1, <2>3
    <3>4. long[k] = Text(list)[k]
      BY <1>2, <3>3
    <3> HIDE DEF more, long
    <3> QED BY <2>1, <2>2, <3>1, <3>2, <3>4
  <2>4. CASE m = n + 1
    <3>1. more[m] = e
      BY <1>1, <2>4
    <3>2. long[2 * m - 1] = name /\ long[2 * m] = i
      <4>1. <<name, i>> \in Seq(Names \cup Int) /\ Len(<<name, i>>) = 2
        OBVIOUS
      <4>2. 2 * m - 1 \in 1 .. 2 * n + 2 /\ 2 * m \in 1 .. 2 * n + 2
        BY <1>1, <2>4
      <4>3. /\ long[2 * m - 1] = <<name, i>>[2 * m - 1 - 2 * n]
            /\ long[2 * m] = <<name, i>>[2 * m - 2 * n]
        BY <1>1, <1>2, <2>4, <4>1, <4>2, ConcatProperties
      <4>4. 2 * m - 1 - 2 * n = 1 /\ 2 * m - 2 * n = 2
        BY <1>1, <2>4
      <4> HIDE DEF long
      <4> QED BY <4>3, <4>4
    <3>3. e.name = name /\ e.inum = i
      OBVIOUS
    <3> HIDE DEF more, long, e
    <3> QED BY <2>1, <2>2, <3>1, <3>2, <3>3
  <2>5. m \in 1 .. n \/ m = n + 1
    BY <1>1
  <2> QED BY <2>3, <2>4, <2>5, Zenon
<1> HIDE DEF long, more
<1>5. Text(more) = long
  <2>1. \A k \in 1 .. Len(Text(more)) : Text(more)[k] = long[k]
    BY <1>2, <1>4
  <2> QED BY <1>2, <1>3, <2>1, SeqEqual
<1> USE DEF long, more
<1> QED BY <1>1, <1>5

\* What is left when one entry is taken out: the same entries, in their order.
LEMMA RemoveAtIs ==
  ASSUME NEW S, NEW list \in Seq(S), NEW k \in 1 .. Len(list)
  PROVE  /\ RemoveAt(list, k) \in Seq(S)
         /\ Len(RemoveAt(list, k)) = Len(list) - 1
         /\ \A j \in 1 .. Len(list) - 1 :
              RemoveAt(list, k)[j] = IF j < k THEN list[j] ELSE list[j + 1]
<1> DEFINE a == SubSeq(list, 1, k - 1)
           b == SubSeq(list, k + 1, Len(list))
<1>1. Len(list) \in Nat
  OBVIOUS
<1>2. a \in Seq(S) /\ Len(a) = k - 1 /\ \A j \in 1 .. k - 1 : a[j] = list[j]
  <2>1. k - 1 \in 0 .. Len(list) /\ k - 1 \in Int /\ 1 \in Int
    BY <1>1
  <2>2. \A j \in 1 .. k - 1 : j \in 1 .. Len(list)
    BY <1>1
  <2> QED BY <1>1, <2>1, <2>2, SubSeqProperties
<1>3. /\ b \in Seq(S) /\ Len(b) = Len(list) - k
      /\ \A j \in 1 .. Len(list) - k : b[j] = list[k + j]
  <2>1. k + 1 \in Int /\ k + 1 >= 1 /\ Len(list) \in Int
    BY <1>1
  <2> QED BY <1>1, <2>1, SubSeqProperties
<1>4. RemoveAt(list, k) = a \o b
  BY DEF RemoveAt
<1> HIDE DEF a, b
<1>5. a \o b \in Seq(S) /\ Len(a \o b) = Len(list) - 1
  BY <1>1, <1>2, <1>3
<1>6. ASSUME NEW j \in 1 .. Len(list) - 1
      PROVE  (a \o b)[j] = IF j < k THEN list[j] ELSE list[j + 1]
  <2>1. CASE j < k
    BY <1>1, <1>2, <1>3, <2>1
  <2>2. CASE j >= k
    <3>1. j - (k - 1) \in 1 .. Len(list) - k /\ k + (j - (k - 1)) = j + 1
      BY <1>1, <2>2
    <3>2. (a \o b)[j] = b[j - (k - 1)]
      BY <1>1, <1>2, <1>3, <2>2
    <3>3. b[j - (k - 1)] = list[j + 1]
      BY <1>3, <3>1
    <3>4. ~ (j < k)
      BY <1>1, <2>2
    <3> QED BY <3>2, <3>3, <3>4
  <2>3. j < k \/ j >= k
    BY <1>1
  <2> QED BY <2>1, <2>2, <2>3, Zenon
<1> QED BY <1>4, <1>5, <1>6

\* A set of numbers that is not empty has a smallest.
LEMMA NatSmallest ==
  ASSUME NEW T, T \subseteq Nat, T # {}
  PROVE  \E x \in T : \A y \in T : x <= y
<1>1. PICK x \in T : \A y \in T : ~ (<<y, x>> \in OpToRel(<, Nat))
  BY NatLessThanWellFounded, WFMin
<1>2. ASSUME NEW y \in T
      PROVE  x <= y
  <2>1. x \in Nat /\ y \in Nat
    OBVIOUS
  <2>2. y < x => <<y, x>> \in OpToRel(<, Nat)
    BY <2>1 DEF OpToRel
  <2>3. ~ (y < x)
    BY <1>1, <2>2, Zenon
  <2> QED BY <2>1, <2>3
<1> QED BY <1>2

\* lookup finds the first entry of the name, if there is one.
LEMMA FirstIs ==
  ASSUME NEW list \in Seq(Entries), NEW name, Matches(list, name) # {}
  PROVE  First(list, name) \in 1 .. Len(list) /\ list[First(list, name)].name = name
<1> DEFINE at == Matches(list, name)
<1>1. at \subseteq Nat /\ at \subseteq DOMAIN list /\ \A k \in at : list[k].name = name
  BY DEF Matches
<1>2. \E k \in at : \A l \in at : k <= l
  BY <1>1, NatSmallest
<1>3. First(list, name) \in at
  BY <1>2 DEF First
<1> QED BY <1>1, <1>3

-----------------------------------------------------------------------------
(* The bytes of a directory's reply.                                       *)

\* The size after each entry, up to entry n.
Sizes(f, list, n) ==
  f = [k \in 0 .. n |-> IF k = 0 THEN 0 ELSE f[k - 1] + DirentSize[list[k].name]]

\* A function that satisfies the recursion exists, from one entry to the next.
LEMMA SizesExist ==
  ASSUME NEW list \in Seq(Entries)
  PROVE  Sizes(dirbuf_size(list), list, Len(list))
<1> DEFINE bad == {n \in Nat : ~ \E f : Sizes(f, list, n)}
<1>1. bad = {}
  <2>1. SUFFICES ASSUME bad # {} PROVE FALSE
    BY <2>1
  <2>2. PICK n \in bad : \A m \in bad : n <= m
    BY <2>1, NatSmallest
  <2>3. n \in Nat /\ ~ \E f : Sizes(f, list, n)
    BY <2>2
  <2>4. CASE n = 0
    <3> DEFINE f == [k \in 0 .. 0 |-> 0]
    <3>1. f = [k \in 0 .. 0 |-> IF k = 0 THEN 0 ELSE f[k - 1] + DirentSize[list[k].name]]
      OBVIOUS
    <3> HIDE DEF f
    <3> QED BY <2>3, <2>4, <3>1 DEF Sizes
  <2>5. CASE n # 0
    <3>1. n - 1 \in Nat /\ ~ (n <= n - 1)
      BY <2>3, <2>5
    <3>2. n - 1 \notin bad
      BY <2>2, <3>1
    <3>3. PICK f : Sizes(f, list, n - 1)
      BY <3>1, <3>2
    <3>4. /\ f = [k \in 0 .. n - 1 |-> f[k]]
          /\ \A k \in 0 .. n - 1 : f[k] = IF k = 0 THEN 0 ELSE f[k - 1] + DirentSize[list[k].name]
      BY <3>3, Zenon DEF Sizes
    <3> DEFINE last == f[n - 1] + DirentSize[list[n].name]
               g == [k \in 0 .. n |-> IF k = n THEN last ELSE f[k]]
    <3>5. ASSUME NEW k \in 0 .. n
          PROVE  g[k] = IF k = 0 THEN 0 ELSE g[k - 1] + DirentSize[list[k].name]
      <4>1. CASE k = n
        <5>1. k # 0 /\ k - 1 \in 0 .. n /\ k - 1 # n /\ k - 1 = n - 1
          BY <2>3, <2>5, <4>1
        <5>2. g[k] = last /\ g[k - 1] = f[n - 1]
          BY <4>1, <5>1
        <5> QED BY <4>1, <5>1, <5>2
      <4>2. CASE k # n
        <5>1. k \in 0 .. n - 1 /\ g[k] = f[k]
          BY <2>3, <4>2
        <5>2. k # 0 => k - 1 \in 0 .. n /\ k - 1 # n
          BY <2>3
        <5>3. k # 0 => g[k - 1] = f[k - 1]
          BY <5>2
        <5> QED BY <3>4, <5>1, <5>3
      <4> QED BY <4>1, <4>2
    <3>6. g = [k \in 0 .. n |-> g[k]]
      OBVIOUS
    <3> HIDE DEF g
    <3>7. Sizes(g, list, n)
      BY <3>5, <3>6, Zenon DEF Sizes
    <3> QED BY <2>3, <3>7
  <2> QED BY <2>4, <2>5
<1>2. Len(list) \in Nat
  OBVIOUS
<1>3. \E f : Sizes(f, list, Len(list))
  BY <1>1, <1>2
<1>4. dirbuf_size(list) = CHOOSE f : Sizes(f, list, Len(list))
  BY DEF dirbuf_size, Sizes
<1> QED BY <1>3, <1>4

\* Each entry adds its bytes, which are not none.
LEMMA SizeIs ==
  ASSUME NEW list \in Seq(Entries)
  PROVE  /\ dirbuf_size(list)[0] = 0
         /\ \A k \in 1 .. Len(list) :
              /\ DirentSize[list[k].name] \in 1 .. Chunk
              /\ dirbuf_size(list)[k] = dirbuf_size(list)[k - 1] + DirentSize[list[k].name]
         /\ \A k \in 0 .. Len(list) : dirbuf_size(list)[k] \in Nat
<1> DEFINE size == dirbuf_size(list)
           n == Len(list)
           bad == {k \in 0 .. n : size[k] \notin Nat}
<1>1. n \in Nat /\ Chunk \in Nat /\ \A k \in 1 .. n : list[k] \in Entries
  BY CallsAssumption
<1>2. size = [k \in 0 .. n |-> IF k = 0 THEN 0 ELSE size[k - 1] + DirentSize[list[k].name]]
  BY SizesExist DEF Sizes
<1> HIDE DEF size
<1>3. \A k \in 0 .. n : size[k] = IF k = 0 THEN 0 ELSE size[k - 1] + DirentSize[list[k].name]
  BY <1>2, Zenon
<1> HIDE DEF n
<1>4. \A k \in 1 .. n : DirentSize[list[k].name] \in 1 .. Chunk
  BY <1>1, DirentAssumption DEF Entries
<1>5. size[0] = 0 /\ \A k \in 1 .. n : size[k] = size[k - 1] + DirentSize[list[k].name]
  <2>1. \A k \in 1 .. n : k \in 0 .. n /\ k # 0
    BY <1>1
  <2>2. 0 \in 0 .. n
    BY <1>1
  <2> QED BY <1>3, <2>1, <2>2
<1>6. bad = {}
  <2>1. SUFFICES ASSUME bad # {} PROVE FALSE
    BY <2>1
  <2>2. bad \subseteq Nat
    BY <1>1
  <2>3. PICK k \in bad : \A m \in bad : k <= m
    BY <2>1, <2>2, NatSmallest
  <2>4. k \in 1 .. n /\ k - 1 \in 0 .. n /\ ~ (k <= k - 1) /\ size[k] \notin Nat
    BY <1>1, <1>5, <2>3
  <2>5. size[k - 1] \in Nat
    BY <2>3, <2>4
  <2>6. size[k] = size[k - 1] + DirentSize[list[k].name] /\ DirentSize[list[k].name] \in Nat
    BY <1>1, <1>4, <1>5, <2>4
  <2> QED BY <2>4, <2>5, <2>6
<1> QED BY <1>4, <1>5, <1>6 DEF size, n

\* So a later entry begins at a larger offset.
LEMMA SizeRises ==
  ASSUME NEW list \in Seq(Entries), NEW k \in 0 .. Len(list), NEW l \in 0 .. Len(list), k < l
  PROVE  dirbuf_size(list)[k] < dirbuf_size(list)[l]
<1> DEFINE size == dirbuf_size(list)
           n == Len(list)
           bad == {m \in 0 .. n : k < m /\ ~ (size[k] < size[m])}
<1>1. n \in Nat /\ Chunk \in Nat
  BY CallsAssumption
<1>2. /\ \A m \in 1 .. n : /\ DirentSize[list[m].name] \in 1 .. Chunk
                           /\ size[m] = size[m - 1] + DirentSize[list[m].name]
      /\ \A m \in 0 .. n : size[m] \in Nat
  BY SizeIs
<1> HIDE DEF size
<1>3. bad = {}
  <2>1. SUFFICES ASSUME bad # {} PROVE FALSE
    BY <2>1
  <2>2. bad \subseteq Nat
    BY <1>1
  <2>3. PICK m \in bad : \A i \in bad : m <= i
    BY <2>1, <2>2, NatSmallest
  <2>4. /\ m \in 1 .. n /\ m - 1 \in 0 .. n /\ ~ (m <= m - 1) /\ k < m /\ ~ (size[k] < size[m])
    BY <1>1, <2>3
  <2>5. /\ size[m] = size[m - 1] + DirentSize[list[m].name]
        /\ DirentSize[list[m].name] \in 1 .. Chunk
        /\ size[k] \in Nat /\ size[m - 1] \in Nat
    BY <1>2, <2>4
  <2>6. k = m - 1 \/ size[k] < size[m - 1]
    <3>1. k = m - 1 \/ k < m - 1
      BY <1>1, <2>4
    <3> QED BY <2>3, <2>4, <3>1
  <2>7. ~ (size[k] < size[m])
    BY <2>4
  <2> HIDE DEF n
  <2> QED BY <1>1, <2>5, <2>6, <2>7
<1> QED BY <1>3 DEF size

\* The entries up to one decide its size.
LEMMA SizeSame ==
  ASSUME NEW a \in Seq(Entries), NEW b \in Seq(Entries), NEW n \in 0 .. Len(a), n <= Len(b),
         \A k \in 1 .. n : a[k] = b[k]
  PROVE  \A k \in 0 .. n : dirbuf_size(a)[k] = dirbuf_size(b)[k]
<1> DEFINE f == dirbuf_size(a)
           g == dirbuf_size(b)
           bad == {k \in 0 .. n : f[k] # g[k]}
<1>1. Len(a) \in Nat /\ Len(b) \in Nat
  OBVIOUS
<1>2. /\ f[0] = 0 /\ g[0] = 0
      /\ \A k \in 1 .. Len(a) : f[k] = f[k - 1] + DirentSize[a[k].name]
      /\ \A k \in 1 .. Len(b) : g[k] = g[k - 1] + DirentSize[b[k].name]
  BY SizeIs
<1> HIDE DEF f, g
<1>3. bad = {}
  <2>1. SUFFICES ASSUME bad # {} PROVE FALSE
    BY <2>1
  <2>2. bad \subseteq Nat
    BY <1>1
  <2>3. PICK k \in bad : \A m \in bad : k <= m
    BY <2>1, <2>2, NatSmallest
  <2>4. k \in 1 .. n /\ k - 1 \in 0 .. n /\ ~ (k <= k - 1) /\ f[k] # g[k]
    BY <1>1, <1>2, <2>3
  <2>5. k \in 1 .. Len(a) /\ k \in 1 .. Len(b)
    BY <1>1, <2>4
  <2>6. f[k - 1] = g[k - 1] /\ a[k] = b[k]
    BY <2>3, <2>4
  <2> QED BY <1>2, <2>4, <2>5, <2>6
<1> QED BY <1>3 DEF f, g

\* What is taken out moves the entries behind it towards the start.
LEMMA SizeRemoved ==
  ASSUME NEW list \in Seq(Entries), NEW k \in 1 .. Len(list), NEW j \in 1 .. Len(list) - 1
  PROVE  /\ Begins(RemoveAt(list, k), j) \in Nat
         /\ Begins(RemoveAt(list, k), j) <= Begins(list, IF j < k THEN j ELSE j + 1)
<1> DEFINE rest == RemoveAt(list, k)
           f == dirbuf_size(list)
           g == dirbuf_size(rest)
           n == Len(list)
           bad == {i \in k - 1 .. n - 1 : ~ (g[i] <= f[i + 1])}
<1>1. /\ n \in Nat /\ rest \in Seq(Entries) /\ Len(rest) = n - 1
      /\ \A i \in 1 .. n - 1 : rest[i] = IF i < k THEN list[i] ELSE list[i + 1]
  <2>1. n \in Nat
    OBVIOUS
  <2> HIDE DEF Begins
  <2> QED BY <2>1, RemoveAtIs, Zenon
<1> HIDE DEF rest
<1>2. /\ \A i \in 1 .. n : f[i] = f[i - 1] + DirentSize[list[i].name]
      /\ \A i \in 1 .. n : DirentSize[list[i].name] \in Nat
      /\ \A i \in 0 .. n : f[i] \in Nat
  <2>1. Chunk \in Nat
    BY CallsAssumption
  <2> QED BY <2>1, SizeIs
<1>3. /\ \A i \in 1 .. n - 1 : g[i] = g[i - 1] + DirentSize[rest[i].name]
      /\ \A i \in 0 .. n - 1 : g[i] \in Nat
  BY <1>1, SizeIs
<1>4. \A i \in 0 .. k - 1 : g[i] = f[i]
  <2>1. /\ k - 1 \in 0 .. Len(rest) /\ k - 1 <= Len(list)
        /\ \A i \in 1 .. k - 1 : rest[i] = list[i]
    BY <1>1
  <2> QED BY <1>1, <2>1, SizeSame
<1> HIDE DEF f, g
<1>5. bad = {}
  <2>1. SUFFICES ASSUME bad # {} PROVE FALSE
    BY <2>1
  <2>2. bad \subseteq Nat
    BY <1>1
  <2>3. PICK i \in bad : \A m \in bad : i <= m
    BY <2>1, <2>2, NatSmallest
  <2>4. i \in k - 1 .. n - 1 /\ ~ (g[i] <= f[i + 1])
    BY <2>3
  <2>5. CASE i = k - 1
    <3>1. g[i] = f[i] /\ i + 1 \in 1 .. n /\ i \in 0 .. n /\ (i + 1) - 1 = i
      BY <1>1, <1>4, <2>5
    <3>2. f[i + 1] = f[i] + DirentSize[list[i + 1].name] /\ f[i] \in Nat
          /\ DirentSize[list[i + 1].name] \in Nat
      BY <1>2, <3>1
    <3> QED BY <2>4, <3>1, <3>2
  <2>6. CASE i # k - 1
    <3>1. /\ i - 1 \in k - 1 .. n - 1 /\ ~ (i <= i - 1) /\ i \in 1 .. n - 1 /\ i - 1 \in 0 .. n - 1
          /\ ~ (i < k) /\ i + 1 \in 1 .. n /\ (i + 1) - 1 = i /\ (i - 1) + 1 = i /\ i \in 0 .. n
      BY <1>1, <2>4, <2>6
    <3>2. g[i - 1] <= f[i]
      BY <2>3, <3>1
    <3>3. rest[i] = list[i + 1]
      BY <1>1, <3>1
    <3>4. /\ g[i] = g[i - 1] + DirentSize[list[i + 1].name]
          /\ f[i + 1] = f[i] + DirentSize[list[i + 1].name]
          /\ DirentSize[list[i + 1].name] \in Nat /\ g[i - 1] \in Nat /\ f[i] \in Nat
      BY <1>2, <1>3, <3>1, <3>3
    <3> QED BY <2>4, <3>2, <3>4
  <2> QED BY <2>5, <2>6
<1>6. g[j - 1] \in Nat /\ g[j - 1] <= IF j < k THEN f[j - 1] ELSE f[j]
  <2>1. j - 1 \in 0 .. n - 1 /\ j - 1 \in 0 .. n
    BY <1>1
  <2>2. CASE j < k
    <3>1. j - 1 \in 0 .. k - 1
      BY <1>1, <2>2
    <3> QED BY <1>2, <1>3, <1>4, <2>1, <2>2, <3>1
  <2>3. CASE ~ (j < k)
    <3>1. j - 1 \in k - 1 .. n - 1 /\ (j - 1) + 1 = j
      BY <1>1, <2>3
    <3> QED BY <1>3, <1>5, <2>1, <2>3, <3>1
  <2> QED BY <2>2, <2>3
<1>7. (j + 1) - 1 = j
  BY <1>1
<1> QED BY <1>6, <1>7 DEF Begins, f, g, rest

\* Where an entry begins is a number, and the entries before it decide it.
LEMMA BeginsIs ==
  ASSUME NEW list \in Seq(Entries), NEW j \in DOMAIN list
  PROVE  Begins(list, j) \in Nat
<1>1. j - 1 \in 0 .. Len(list)
  OBVIOUS
<1> QED BY <1>1, SizeIs DEF Begins

LEMMA BeginsSame ==
  ASSUME NEW a \in Seq(Entries), NEW b \in Seq(Entries), NEW j \in DOMAIN a,
         \A k \in DOMAIN a : k \in DOMAIN b /\ a[k] = b[k]
  PROVE  Begins(a, j) = Begins(b, j)
<1>1. /\ j \in 1 .. Len(a) /\ Len(a) \in Nat /\ Len(b) \in Nat
      /\ \A k \in 1 .. Len(a) : k \in 1 .. Len(b) /\ a[k] = b[k]
  OBVIOUS
<1>2. /\ j - 1 \in 0 .. Len(a) /\ j - 1 <= Len(b)
      /\ \A k \in 1 .. j - 1 : a[k] = b[k]
  BY <1>1
<1>3. \A k \in 0 .. j - 1 : dirbuf_size(a)[k] = dirbuf_size(b)[k]
  BY <1>2, SizeSame
<1> QED BY <1>1, <1>3 DEF Begins

\* An inode of that type is a directory, and one whose extent stays has the entries
\* that it had.
LEMMA IsDirectory ==
  ASSUME NEW s, NEW i \in Live(s), s.extents[i].type = T_DIR
  PROVE  isdir(s, i)
BY DEF isdir, ec_getattr

LEMMA SameReaddir ==
  ASSUME NEW s, NEW t, NEW i, i \in Live(s), i \in Live(t), t.extents[i] = s.extents[i]
  PROVE  readdir(t, i) = readdir(s, i)
<1>1. ec_get(t, i) = ec_get(s, i)
  BY DEF ec_get
<1>2. isdir(t, i) <=> isdir(s, i)
  BY DEF isdir, ec_getattr
<1>3. CASE isdir(s, i)
  <2>1. isdir(t, i) <=> TRUE
    BY <1>2, <1>3
  <2> QED BY <1>1, <1>3, <2>1, Zenon DEF readdir
<1>4. CASE ~ isdir(s, i)
  <2>1. ~ isdir(t, i)
    BY <1>2, <1>4
  <2> QED BY <1>4, <2>1, Zenon DEF readdir
<1> QED BY <1>3, <1>4

-----------------------------------------------------------------------------
(* Stores, and what the methods of yfs_client make of them.                *)

\* A store is its number and its extents.
LEMMA StoreIs ==
  ASSUME NEW s, StoreOK(s)
  PROVE  /\ s = [inum |-> s.inum, extents |-> s.extents]
         /\ s.inum \in 1 .. MAX_INUM /\ s.inum \in Nat /\ MAX_INUM \in Nat
         /\ s.extents \in [Live(s) -> Nodes]
         /\ Live(s) \subseteq 1 .. s.inum /\ Live(s) \subseteq Nat
<1>1. s \in [inum : 1 .. MAX_INUM, extents : UNION {[L -> Nodes] : L \in SUBSET Nat}]
  BY DEF StoreOK
<1>2. PICK L \in SUBSET Nat : s.extents \in [L -> Nodes]
  BY <1>1
<1>3. L = Live(s)
  BY <1>2 DEF Live
<1>4. MAX_INUM \in Nat
  BY CallsAssumption
<1> QED BY <1>1, <1>2, <1>3, <1>4 DEF StoreOK

\* And a record of these parts is a store.
LEMMA StoreMade ==
  ASSUME NEW n \in 1 .. MAX_INUM, NEW L, L \subseteq 1 .. n, NEW f \in [L -> Nodes]
  PROVE  /\ StoreOK([inum |-> n, extents |-> f])
         /\ Live([inum |-> n, extents |-> f]) = L
<1>1. L \in SUBSET Nat
  <2>1. ASSUME NEW i \in L
        PROVE  i \in Nat
    BY CallsAssumption
  <2> QED BY <2>1
<1>2. f \in UNION {[M -> Nodes] : M \in SUBSET Nat}
  BY <1>1
<1> QED BY <1>2 DEF StoreOK, Live

\* What an inode holds goes with its type.
LEMMA NodeIs ==
  ASSUME NEW x \in Nodes
  PROVE  /\ x = [type |-> x.type, data |-> x.data]
         /\ x.type \in Types
         /\ x.type = T_DIR => \E list \in Seq(Entries) : x.data = Text(list)
         /\ x.type = T_FILE => x.data \in Seq(Bytes)
         /\ x.type = T_SYMLINK => x.data \in Targets \cup {<<>>}
<1>1. T_DIR # T_FILE /\ T_DIR # T_SYMLINK /\ T_FILE # T_SYMLINK
  BY DEF T_DIR, T_FILE, T_SYMLINK
<1>2. CASE x \in [type : {T_DIR}, data : Texts]
  <2>1. x.data \in Texts
    BY <1>2
  <2>2. PICK list \in Seq(Entries) : x.data = Text(list)
    BY <2>1 DEF Texts
  <2>3. x = [type |-> x.type, data |-> x.data] /\ x.type = T_DIR
    BY <1>2
  <2> QED BY <1>1, <2>2, <2>3 DEF Types
<1>3. CASE x \in [type : {T_FILE}, data : Seq(Bytes)]
  BY <1>1, <1>3 DEF Types
<1>4. CASE x \in [type : {T_SYMLINK}, data : Targets \cup {<<>>}]
  BY <1>1, <1>4 DEF Types
<1> QED BY <1>2, <1>3, <1>4 DEF Nodes

\* The types, as the methods ask for them.
LEMMA KindIs ==
  ASSUME NEW s, StoreOK(s), NEW i
  PROVE  /\ isdir(s, i) <=> i \in Live(s) /\ s.extents[i].type = T_DIR
         /\ isfile(s, i) <=> i \in Live(s) /\ s.extents[i].type = T_FILE
         /\ issymlink(s, i) <=> i \in Live(s) /\ s.extents[i].type = T_SYMLINK
         /\ i \in Live(s) => s.extents[i] \in Nodes
         /\ i \in Live(s) => isdir(s, i) \/ isfile(s, i) \/ issymlink(s, i)
<1>1. T_NONE # T_DIR /\ T_NONE # T_FILE /\ T_NONE # T_SYMLINK
  BY DEF T_NONE, T_DIR, T_FILE, T_SYMLINK
<1>2. i \in Live(s) => s.extents[i] \in Nodes
  BY StoreIs
<1>3. i \in Live(s) => s.extents[i].type \in Types
  BY <1>2, NodeIs
<1>4. ec_getattr(s, i).type = IF i \in Live(s) THEN s.extents[i].type ELSE T_NONE
  BY DEF ec_getattr
<1> QED BY <1>1, <1>2, <1>3, <1>4 DEF isdir, isfile, issymlink, Types

\* The text of a directory is what its entries are written as.
LEMMA FolderIs ==
  ASSUME NEW s, StoreOK(s), NEW d \in Folders(s)
  PROVE  /\ d \in Live(s) /\ s.extents[d].type = T_DIR
         /\ readdir(s, d) \in Seq(Entries)
         /\ ec_get(s, d) = Text(readdir(s, d))
<1>1. d \in Live(s) /\ isdir(s, d) /\ s.extents[d].type = T_DIR /\ s.extents[d] \in Nodes
  BY KindIs DEF Folders
<1>2. PICK list \in Seq(Entries) : ec_get(s, d) = Text(list)
  BY <1>1, NodeIs DEF ec_get
<1> QED BY <1>1, <1>2, ReadBack

\* put changes the data of one inode.
WithData(s, i, data) ==
  [j \in Live(s) |-> IF j = i THEN [type |-> s.extents[i].type, data |-> data]
                              ELSE s.extents[j]]

LEMMA PutIs ==
  ASSUME NEW s, NEW n, NEW f, s = [inum |-> n, extents |-> f],
         NEW i \in Live(s), NEW data,
         s.extents[i] = [type |-> s.extents[i].type, data |-> s.extents[i].data]
  PROVE  ec_put(s, i, data) = [inum |-> n, extents |-> WithData(s, i, data)]
<1>1. ec_put(s, i, data) = [inum |-> n, extents |-> [f EXCEPT ![i].data = data]]
  BY DEF ec_put
<1>2. [f EXCEPT ![i].data = data]
        = [j \in DOMAIN f |-> IF j = i THEN [f[i] EXCEPT !.data = data] ELSE f[j]]
  BY DEF Live
<1>3. [f[i] EXCEPT !.data = data] = [type |-> f[i].type, data |-> data]
  <2>1. f[i] = [type |-> f[i].type, data |-> f[i].data]
    OBVIOUS
  <2> QED BY <2>1
<1> QED BY <1>1, <1>2, <1>3 DEF WithData, Live

\* A new inode, and its entry at the end of a directory.
Made(s, d, name, node) ==
  [inum    |-> s.inum + 1,
   extents |-> [j \in Live(s) \cup {s.inum + 1} |->
                  IF j = d THEN [type |-> T_DIR, data |-> ec_get(s, d) \o <<name, s.inum + 1>>]
                  ELSE IF j = s.inum + 1 THEN node ELSE s.extents[j]]]

EmptyNode(type) == [type |-> type, data |-> <<>>]

LEMMA Created ==
  ASSUME NEW s, StoreOK(s), NEW d \in Folders(s), NEW name, NEW type
  PROVE  append_entry(ec_create(s, type), d, name, ec_create(s, type).inum)
           = Made(s, d, name, EmptyNode(type))
<1> DEFINE n == s.inum + 1
           t == ec_create(s, type)
           g == [j \in Live(s) \cup {n} |-> IF j = n THEN EmptyNode(type) ELSE s.extents[j]]
           data == ec_get(s, d) \o <<name, n>>
<1>1. d \in Live(s) /\ s.extents[d].type = T_DIR /\ s.extents[d] \in Nodes /\ n \notin Live(s)
      /\ d # n
  BY FolderIs, KindIs, StoreIs
<1>2. t = [inum |-> n, extents |-> g]
  BY DEF ec_create, EmptyNode
<1>3. Live(t) = Live(s) \cup {n} /\ t.extents = g /\ t.inum = n
  BY <1>2 DEF Live
<1>4. t.extents[d] = s.extents[d]
  BY <1>1, <1>3
<1>5. ec_get(t, d) = ec_get(s, d)
  BY <1>4 DEF ec_get
<1>6. t.extents[d] = [type |-> t.extents[d].type, data |-> t.extents[d].data]
  BY <1>1, <1>4, NodeIs
<1> HIDE DEF t, g
<1>7. ec_put(t, d, data) = [inum |-> n, extents |-> WithData(t, d, data)]
  BY <1>1, <1>2, <1>3, <1>6, PutIs
<1>8. WithData(t, d, data) = Made(s, d, name, EmptyNode(type)).extents
  BY <1>1, <1>3, <1>4 DEF WithData, Made, g
<1>9. append_entry(t, d, name, t.inum) = ec_put(t, d, data)
  BY <1>3, <1>5 DEF append_entry
<1> QED BY <1>7, <1>8, <1>9 DEF Made, t

LEMMA Linked ==
  ASSUME NEW s, StoreOK(s), NEW d \in Folders(s), NEW name, NEW link
  PROVE  symlink(s, d, link, name)
           = OK(Made(s, d, name, [type |-> T_SYMLINK, data |-> link]))
<1> DEFINE n == s.inum + 1
           t == ec_create(s, T_SYMLINK)
           g == [j \in Live(s) \cup {n} |->
                   IF j = n THEN EmptyNode(T_SYMLINK) ELSE s.extents[j]]
           u == ec_put(t, t.inum, link)
           node == [type |-> T_SYMLINK, data |-> link]
           data == ec_get(s, d) \o <<name, n>>
<1>1. d \in Live(s) /\ s.extents[d].type = T_DIR /\ s.extents[d] \in Nodes /\ n \notin Live(s)
      /\ d # n
  BY FolderIs, KindIs, StoreIs
<1>2. t = [inum |-> n, extents |-> g]
  BY DEF ec_create, EmptyNode
<1>3. Live(t) = Live(s) \cup {n} /\ t.extents = g /\ t.inum = n
  BY <1>2 DEF Live
<1>4. t.extents[n] = [type |-> T_SYMLINK, data |-> <<>>] /\ t.extents[d] = s.extents[d]
      /\ \A j \in Live(s) : t.extents[j] = s.extents[j]
  BY <1>1, <1>3 DEF EmptyNode
<1>5. t.extents[n] = [type |-> t.extents[n].type, data |-> t.extents[n].data]
      /\ t.extents[n].type = T_SYMLINK
  BY <1>4
<1> HIDE DEF t, g
<1>6. u = [inum |-> n, extents |-> WithData(t, n, link)]
  BY <1>2, <1>3, <1>5, PutIs
<1>7. /\ Live(u) = Live(s) \cup {n} /\ u.inum = n
      /\ u.extents[n] = node
      /\ \A j \in Live(s) : u.extents[j] = s.extents[j]
  BY <1>1, <1>3, <1>4, <1>5, <1>6 DEF WithData, Live
<1> HIDE DEF u
<1>8. ec_get(u, d) = ec_get(s, d)
  BY <1>1, <1>7 DEF ec_get
<1>9. u.extents[d] = [type |-> u.extents[d].type, data |-> u.extents[d].data]
      /\ u.extents[d].type = T_DIR
  BY <1>1, <1>7, NodeIs
<1>10. ec_put(u, d, data) = [inum |-> n, extents |-> WithData(u, d, data)]
  BY <1>1, <1>6, <1>7, <1>9, PutIs
<1>11. WithData(u, d, data) = Made(s, d, name, node).extents
  BY <1>1, <1>7, <1>9 DEF WithData, Made
<1>12. symlink(s, d, link, name) = OK(append_entry(u, d, name, t.inum))
  BY DEF symlink, t, u
<1>13. append_entry(u, d, name, t.inum) = ec_put(u, d, data)
  BY <1>3, <1>8 DEF append_entry
<1> QED BY <1>10, <1>11, <1>12, <1>13 DEF Made

\* The same directories with other lists: what the rest of the proof knows of a
\* call that makes a node.
Grows(s, t, d, name) ==
  /\ t.inum = s.inum + 1 /\ t.inum \in 2 .. MAX_INUM
  /\ Live(t) = Live(s) \cup {t.inum}
  /\ d \in Folders(s) /\ d \in Folders(t)
  /\ readdir(t, d) = Append(readdir(s, d), [name |-> name, inum |-> t.inum])
  /\ \A c \in Folders(s) \ {d} : c \in Folders(t) /\ readdir(t, c) = readdir(s, c)
  /\ \A c \in Folders(t) \ Folders(s) : c = t.inum /\ readdir(t, c) = <<>>
  /\ \A i \in Live(s) : isfile(s, i) => isfile(t, i)

LEMMA MadeGrows ==
  ASSUME NEW s, StoreOK(s), NEW d \in Folders(s), NEW name \in Names, NEW node \in Nodes,
         node.type = T_DIR => node.data = <<>>, s.inum < MAX_INUM
  PROVE  /\ StoreOK(Made(s, d, name, node))
         /\ Grows(s, Made(s, d, name, node), d, name)
<1> DEFINE n == s.inum + 1
           t == Made(s, d, name, node)
           e == [name |-> name, inum |-> n]
           text == ec_get(s, d) \o <<name, n>>
           f == [j \in Live(s) \cup {n} |->
                  IF j = d THEN [type |-> T_DIR, data |-> text]
                  ELSE IF j = n THEN node ELSE s.extents[j]]
<1>1. /\ d \in Live(s) /\ readdir(s, d) \in Seq(Entries)
      /\ ec_get(s, d) = Text(readdir(s, d)) /\ s.extents[d].type = T_DIR
  BY FolderIs
<1>2. /\ n \in 2 .. MAX_INUM /\ n \in 1 .. MAX_INUM
      /\ Live(s) \cup {n} \subseteq 1 .. n /\ n \notin Live(s) /\ d # n
  BY <1>1, StoreIs
<1>3. Append(readdir(s, d), e) \in Seq(Entries) /\ Text(Append(readdir(s, d), e)) = text
  BY <1>1, <1>2, TextAppend
<1>4. [type |-> T_DIR, data |-> text] \in Nodes
  <2>1. text \in Texts
    BY <1>3 DEF Texts
  <2> HIDE DEF text
  <2> QED BY <2>1 DEF Nodes
<1>5. f \in [Live(s) \cup {n} -> Nodes]
  <2> HIDE DEF text
  <2> QED BY <1>4, KindIs
<1>6. t = [inum |-> n, extents |-> f]
  BY DEF Made
<1> HIDE DEF f
<1>7. StoreOK(t) /\ Live(t) = Live(s) \cup {n} /\ t.inum = n /\ t.extents = f
  BY <1>2, <1>5, <1>6, StoreMade
<1> HIDE DEF t
<1>8. /\ t.extents[d] = [type |-> T_DIR, data |-> text]
      /\ t.extents[n] = node
      /\ \A j \in Live(s) \ {d} : t.extents[j] = s.extents[j]
  BY <1>1, <1>2, <1>7 DEF f
<1>9. d \in Folders(t)
  BY <1>1, <1>7, <1>8, IsDirectory DEF Folders
<1>10. readdir(t, d) = Append(readdir(s, d), e)
  <2>1. ec_get(t, d) = text
    BY <1>8 DEF ec_get
  <2>2. isdir(t, d)
    BY <1>9 DEF Folders
  <2> HIDE DEF e, text
  <2> QED BY <1>3, <2>1, <2>2, ReadBack
<1>11. ASSUME NEW c \in Folders(s) \ {d}
       PROVE  c \in Folders(t) /\ readdir(t, c) = readdir(s, c)
  <2>1. c \in Live(s) /\ s.extents[c].type = T_DIR
    BY FolderIs
  <2>2. t.extents[c] = s.extents[c]
    BY <1>8, <2>1
  <2>3. c \in Live(t) /\ isdir(t, c)
    BY <1>7, <2>1, <2>2, IsDirectory
  <2> QED BY <2>1, <2>2, <2>3, SameReaddir DEF Folders
<1>12. ASSUME NEW c \in Folders(t) \ Folders(s)
       PROVE  c = n /\ readdir(t, c) = <<>>
  <2>1. c \in Live(t) /\ t.extents[c].type = T_DIR
    BY <1>7, FolderIs
  <2>2. c \notin Live(s)
    <3>1. SUFFICES ASSUME c \in Live(s) PROVE c \in Folders(s)
      BY <3>1
    <3>2. s.extents[c].type = T_DIR
      BY <1>1, <1>8, <2>1, <3>1
    <3> QED BY <3>1, <3>2, KindIs DEF Folders
  <2>3. c = n /\ t.extents[c] = node
    BY <1>7, <1>8, <2>1, <2>2
  <2>4. ec_get(t, c) = <<>>
    BY <2>1, <2>3 DEF ec_get
  <2>5. <<>> \in Seq(Entries) /\ Text(<<>>) = <<>>
    BY DEF Text
  <2>6. isdir(t, c)
    BY DEF Folders
  <2> QED BY <2>3, <2>4, <2>5, <2>6, ReadBack
<1>13. ASSUME NEW i \in Live(s), isfile(s, i)
       PROVE  isfile(t, i)
  <2>1. s.extents[i].type = T_FILE
    BY <1>13, KindIs
  <2>2. i # d
    BY <1>1, <2>1 DEF T_DIR, T_FILE
  <2> QED BY <1>7, <1>8, <2>1, <2>2, KindIs
<1>14. Grows(s, t, d, name)
  BY <1>2, <1>7, <1>9, <1>10, <1>11, <1>12, <1>13 DEF Grows
<1> QED BY <1>7, <1>14 DEF t

\* What it knows of unlink.
Shrinks(s, t, d, k) ==
  /\ d \in Folders(s) /\ k \in DOMAIN readdir(s, d)
  /\ t.inum = s.inum
  /\ Live(t) = Live(s) \ {readdir(s, d)[k].inum}
  /\ Folders(t) = Folders(s)
  /\ readdir(t, d) = RemoveAt(readdir(s, d), k)
  /\ \A c \in Folders(s) \ {d} : readdir(t, c) = readdir(s, c)
  /\ \A i \in Live(t) : isfile(s, i) => isfile(t, i)
  /\ \A i \in Live(t) \ {d} : t.extents[i] = s.extents[i]

LEMMA UnlinkShrinks ==
  ASSUME NEW s, StoreOK(s), AllLive(s), NEW d \in Folders(s), NEW name \in Names,
         found(s, d, name), ~ isdir(s, lookup(s, d, name))
  PROVE  /\ First(readdir(s, d), name) \in DOMAIN readdir(s, d)
         /\ lookup(s, d, name) = readdir(s, d)[First(readdir(s, d), name)].inum
         /\ StoreOK(unlink(s, d, name).store)
         /\ Shrinks(s, unlink(s, d, name).store, d, First(readdir(s, d), name))
<1> DEFINE i == lookup(s, d, name)
           list == readdir(s, d)
           k == First(list, name)
           less == RemoveAt(list, k)
           r == ec_remove(s, i)
           t == ec_put(r, d, Text(less))
<1>1. /\ d \in Live(s) /\ list \in Seq(Entries) /\ ec_get(s, d) = Text(list)
      /\ s.extents[d].type = T_DIR /\ s.extents[d] \in Nodes
  BY FolderIs, KindIs
<1>2. k \in 1 .. Len(list) /\ DOMAIN list = 1 .. Len(list)
  BY <1>1, FirstIs DEF found
<1>3. i = list[k].inum
  BY DEF lookup
<1>4. i \in Live(s)
  BY <1>2, <1>3 DEF AllLive
<1>5. d # i
  BY DEF Folders
<1>6. s = [inum |-> s.inum, extents |-> s.extents] /\ s.inum \in 1 .. MAX_INUM
      /\ Live(s) \subseteq 1 .. s.inum
  BY StoreIs
<1> DEFINE g == [j \in Live(s) \ {i} |-> s.extents[j]]
<1>7. r = [inum |-> s.inum, extents |-> g]
  BY <1>6 DEF ec_remove
<1>8. /\ Live(r) = Live(s) \ {i} /\ r.inum = s.inum
      /\ \A j \in Live(s) \ {i} : r.extents[j] = s.extents[j]
  BY <1>7 DEF Live
<1>9. ec_get(r, d) = ec_get(s, d) /\ readdir(r, d) = list
  <2>1. d \in Live(r) /\ r.extents[d] = s.extents[d]
    BY <1>1, <1>5, <1>8
  <2> HIDE DEF r
  <2> QED BY <1>1, <2>1, SameReaddir DEF ec_get
<1>10. /\ r.extents[d] = [type |-> r.extents[d].type, data |-> r.extents[d].data]
       /\ r.extents[d].type = T_DIR
  BY <1>1, <1>5, <1>8, NodeIs
<1>11. unlink(s, d, name).store = t
  <2>1. unlink(s, d, name) = OK(t)
    BY <1>4, <1>9 DEF unlink
  <2> HIDE DEF t
  <2> QED BY <2>1 DEF OK
<1>12. less \in Seq(Entries)
  BY <1>1, <1>2, RemoveAtIs
<1> HIDE DEF r, g, less, k
<1> DEFINE f == WithData(r, d, Text(less))
<1>13. t = [inum |-> s.inum, extents |-> f]
  BY <1>1, <1>5, <1>7, <1>8, <1>10, PutIs
<1>14. f = [j \in Live(s) \ {i} |-> IF j = d THEN [type |-> T_DIR, data |-> Text(less)]
                                             ELSE s.extents[j]]
  BY <1>8, <1>10 DEF WithData
<1> HIDE DEF f
<1>15. [type |-> T_DIR, data |-> Text(less)] \in Nodes
  BY <1>12 DEF Nodes, Texts
<1>16. f \in [Live(s) \ {i} -> Nodes]
  BY <1>14, <1>15, KindIs
<1>17. Live(s) \ {i} \subseteq 1 .. s.inum
  BY <1>6
<1>18. StoreOK(t) /\ Live(t) = Live(s) \ {i} /\ t.inum = s.inum /\ t.extents = f
  BY <1>6, <1>13, <1>16, <1>17, StoreMade
<1> HIDE DEF t, i
<1>19. /\ t.extents[d] = [type |-> T_DIR, data |-> Text(less)]
       /\ \A j \in Live(s) \ {i, d} : t.extents[j] = s.extents[j]
  BY <1>1, <1>5, <1>14, <1>18
<1>20. \A j \in Live(s) \ {i} : t.extents[j].type = s.extents[j].type
  BY <1>1, <1>19
<1>21. Folders(t) = Folders(s)
  <2>1. i \notin Folders(s)
    BY DEF Folders, i
  <2> QED BY <1>18, <1>20, <2>1, KindIs DEF Folders
<1>22. readdir(t, d) = less
  <2>1. ec_get(t, d) = Text(less) /\ isdir(t, d)
    BY <1>19, <1>21 DEF ec_get, Folders
  <2> QED BY <1>12, <2>1, ReadBack
<1>23. ASSUME NEW c \in Folders(s) \ {d}
       PROVE  readdir(t, c) = readdir(s, c)
  <2>1. c \in Live(s) \ {i, d}
    BY <1>18, <1>21 DEF Folders
  <2> QED BY <1>18, <1>19, <2>1, SameReaddir
<1>24. \A j \in Live(t) : isfile(s, j) => isfile(t, j)
  BY <1>18, <1>20, KindIs
<1>25. Shrinks(s, t, d, k)
  BY <1>1, <1>2, <1>3, <1>18, <1>21, <1>19, <1>22, <1>23, <1>24 DEF Shrinks, less
<1> USE DEF k
<1> QED BY <1>2, <1>3, <1>11, <1>18, <1>25 DEF i

\* What it knows of the calls that change one inode's data.
Rewrites(s, t) ==
  /\ t.inum = s.inum /\ Live(t) = Live(s) /\ Folders(t) = Folders(s)
  /\ \A c \in Folders(s) : readdir(t, c) = readdir(s, c) \/ readdir(t, c) = <<>>
  /\ \A i \in Live(s) : isfile(s, i) => isfile(t, i)

Refills(s, t) == Rewrites(s, t) /\ \A c \in Folders(s) : readdir(t, c) = readdir(s, c)

\* put of data that fit the inode.
LEMMA PutRewrites ==
  ASSUME NEW s, StoreOK(s), NEW i \in Live(s), NEW data,
         [type |-> s.extents[i].type, data |-> data] \in Nodes,
         isdir(s, i) => data = <<>>
  PROVE  /\ StoreOK(ec_put(s, i, data))
         /\ Rewrites(s, ec_put(s, i, data))
         /\ ~ isdir(s, i) => Refills(s, ec_put(s, i, data))
<1> DEFINE t == ec_put(s, i, data)
           f == WithData(s, i, data)
<1>1. /\ s = [inum |-> s.inum, extents |-> s.extents] /\ s.inum \in 1 .. MAX_INUM
      /\ Live(s) \subseteq 1 .. s.inum
      /\ s.extents[i] = [type |-> s.extents[i].type, data |-> s.extents[i].data]
  BY StoreIs, KindIs, NodeIs
<1>2. t = [inum |-> s.inum, extents |-> f]
  BY <1>1, PutIs
<1>3. f \in [Live(s) -> Nodes]
  BY KindIs DEF WithData
<1>4. /\ f[i] = [type |-> s.extents[i].type, data |-> data]
      /\ \A j \in Live(s) \ {i} : f[j] = s.extents[j]
  BY DEF WithData
<1> HIDE DEF f
<1>5. StoreOK(t) /\ Live(t) = Live(s) /\ t.inum = s.inum /\ t.extents = f
  BY <1>1, <1>2, <1>3, StoreMade
<1> HIDE DEF t
<1>6. \A j \in Live(s) : t.extents[j].type = s.extents[j].type
  BY <1>4, <1>5
<1>7. Folders(t) = Folders(s)
  BY <1>5, <1>6, KindIs DEF Folders
<1>8. \A j \in Live(s) : isfile(s, j) => isfile(t, j)
  BY <1>5, <1>6, KindIs
<1>9. \A c \in Folders(s) \ {i} : readdir(t, c) = readdir(s, c)
  BY <1>4, <1>5, SameReaddir DEF Folders
<1>10. i \in Folders(s) => readdir(t, i) = <<>>
  <2>1. SUFFICES ASSUME i \in Folders(s) PROVE readdir(t, i) = <<>>
    BY <2>1
  <2>2. ec_get(t, i) = <<>>
    BY <1>4, <1>5, <2>1 DEF ec_get, Folders
  <2>3. <<>> \in Seq(Entries) /\ Text(<<>>) = <<>>
    BY DEF Text
  <2>4. isdir(t, i)
    BY <1>7, <2>1 DEF Folders
  <2> QED BY <2>2, <2>3, <2>4, ReadBack
<1>11. Rewrites(s, t)
  BY <1>5, <1>7, <1>8, <1>9, <1>10 DEF Rewrites
<1>12. ~ isdir(s, i) => Refills(s, t)
  BY <1>9, <1>11 DEF Refills, Folders
<1> QED BY <1>5, <1>11, <1>12 DEF t

\* A call that leaves the store alone.
LEMMA SameRefills ==
  ASSUME NEW s
  PROVE  Refills(s, s)
BY DEF Refills, Rewrites

\* The data that write and setattr put are bytes.
LEMMA ZerosAre ==
  ASSUME NEW n \in Nat
  PROVE  Zeros(n) \in Seq(Bytes) /\ Len(Zeros(n)) = n
<1>1. Zeros(n) = [k \in 1 .. n |-> Zero] /\ Zero \in Bytes
  BY DataAssumption DEF Zeros
<1> QED BY <1>1, IsASeq

LEMMA WriteRefills ==
  ASSUME NEW s, StoreOK(s), NEW i, i \in Live(s) => isfile(s, i),
         NEW data \in Data, NEW off \in Lengths, NEW t, t = write(s, i, data, off).store
  PROVE  StoreOK(t) /\ Refills(s, t)
<1> DEFINE buf  == ec_get(s, i)
           end  == off + Len(data)
           suffix == IF end < Len(buf) THEN SubSeq(buf, end + 1, Len(buf)) ELSE <<>>
           hole == IF off > Len(buf) THEN off - Len(buf) ELSE 0
           head == IF off > Len(buf) THEN buf \o Zeros(hole) ELSE SubSeq(buf, 1, off)
           new  == head \o data \o suffix
<1>1. CASE i \notin Live(s)
  <2>1. t = s
    BY <1>1 DEF write, Fail
  <2> QED BY <2>1, SameRefills
<1>2. CASE i \in Live(s)
  <2>1. s.extents[i].type = T_FILE /\ s.extents[i] \in Nodes /\ ~ isdir(s, i)
    BY <1>2, KindIs DEF T_DIR, T_FILE
  <2>2. buf \in Seq(Bytes) /\ data \in Seq(Bytes) /\ off \in Nat
    BY <2>1, NodeIs, DataAssumption DEF ec_get
  <2> HIDE DEF buf
  <2>3. Len(buf) \in Nat /\ Len(data) \in Nat /\ end \in Nat
        /\ \A j \in 1 .. Len(buf) : buf[j] \in Bytes
    BY <2>2
  <2>4. suffix \in Seq(Bytes)
    <3>1. CASE end < Len(buf)
      <4>1. \A j \in end + 1 .. Len(buf) : buf[j] \in Bytes
        BY <2>3
      <4>2. SubSeq(buf, end + 1, Len(buf)) \in Seq(Bytes)
        BY <2>3, <4>1, SubSeqProperties
      <4> QED BY <3>1, <4>2
    <3>2. CASE ~ (end < Len(buf))
      BY <3>2
    <3> QED BY <3>1, <3>2
  <2>5. head \in Seq(Bytes)
    <3>1. CASE off > Len(buf)
      <4>1. hole \in Nat
        BY <2>2, <2>3, <3>1
      <4>2. Zeros(hole) \in Seq(Bytes)
        BY <4>1, ZerosAre
      <4> QED BY <2>2, <3>1, <4>2
    <3>2. CASE ~ (off > Len(buf))
      <4>1. \A j \in 1 .. off : buf[j] \in Bytes
        BY <2>2, <2>3, <3>2
      <4>2. SubSeq(buf, 1, off) \in Seq(Bytes)
        BY <2>2, <4>1, SubSeqProperties
      <4> QED BY <3>2, <4>2
    <3> QED BY <3>1, <3>2
  <2> HIDE DEF head, suffix
  <2>6. new \in Seq(Bytes)
    BY <2>2, <2>4, <2>5
  <2>7. t = ec_put(s, i, new)
    BY <1>2 DEF write, new, head, suffix, buf
  <2> HIDE DEF new
  <2>8. [type |-> s.extents[i].type, data |-> new] \in Nodes
    BY <2>1, <2>6 DEF Nodes
  <2> QED BY <1>2, <2>1, <2>7, <2>8, PutRewrites
<1> QED BY <1>1, <1>2

\* setattr of any inode; of a directory or a link, only to 0.
LEMMA SetattrRewrites ==
  ASSUME NEW s, StoreOK(s), NEW i, NEW n \in Nat,
         isdir(s, i) \/ issymlink(s, i) => n = 0, NEW t, t = setattr(s, i, n).store
  PROVE  StoreOK(t) /\ Rewrites(s, t) /\ (~ isdir(s, i) => Refills(s, t))
<1> DEFINE size == ec_getattr(s, i).size
           buf  == ec_get(s, i)
           new  == IF size < n THEN buf \o Zeros(n - size) ELSE SubSeq(buf, 1, n)
<1>1. CASE size = n \/ i \notin Live(s)
  <2>1. t = s
    BY <1>1 DEF setattr, OK, Fail
  <2> QED BY <2>1, SameRefills DEF Refills
<1>2. CASE size # n /\ i \in Live(s)
  <2>1. t = ec_put(s, i, new)
    BY <1>2 DEF setattr, OK
  <2>2. size = Len(buf)
    BY <1>2 DEF ec_getattr
  <2> HIDE DEF size
  <2>3. s.extents[i] \in Nodes /\ (isdir(s, i) \/ isfile(s, i) \/ issymlink(s, i))
    BY <1>2, KindIs
  <2>4. CASE isdir(s, i)
    <3>1. s.extents[i].type = T_DIR /\ i \in Folders(s)
      BY <1>2, <2>4, KindIs DEF Folders
    <3>2. PICK list \in Seq(Entries) : buf = Text(list)
      BY <3>1, FolderIs
    <3>3. buf \in Seq(Names \cup Int)
      BY <3>2, TextIs
    <3>4. n = 0 /\ ~ (size < n)
      BY <2>2, <2>4, <3>3
    <3> HIDE DEF buf
    <3>5. new = <<>>
      BY <3>4, SubSeqEmpty
    <3>6. <<>> \in Seq(Entries) /\ Text(<<>>) = <<>>
      BY DEF Text
    <3> HIDE DEF new
    <3>7. [type |-> s.extents[i].type, data |-> new] \in Nodes
      BY <3>1, <3>5, <3>6 DEF Nodes, Texts
    <3> QED BY <1>2, <2>1, <2>4, <3>5, <3>7, PutRewrites
  <2>5. CASE isfile(s, i)
    <3>1. s.extents[i].type = T_FILE /\ ~ isdir(s, i)
      BY <1>2, <2>5, KindIs DEF T_DIR, T_FILE
    <3>2. buf \in Seq(Bytes)
      BY <2>3, <3>1, NodeIs DEF ec_get
    <3> HIDE DEF buf
    <3>3. Len(buf) \in Nat /\ \A j \in 1 .. Len(buf) : buf[j] \in Bytes
      BY <3>2
    <3>4. new \in Seq(Bytes)
      <4>1. CASE size < n
        <5>1. Zeros(n - size) \in Seq(Bytes)
          BY <2>2, <3>3, <4>1, ZerosAre
        <5> QED BY <3>2, <4>1, <5>1
      <4>2. CASE ~ (size < n)
        <5>1. \A j \in 1 .. n : buf[j] \in Bytes
          BY <2>2, <3>3, <4>2
        <5>2. SubSeq(buf, 1, n) \in Seq(Bytes)
          BY <5>1, SubSeqProperties
        <5> QED BY <4>2, <5>2
      <4> QED BY <4>1, <4>2
    <3> HIDE DEF new
    <3>5. [type |-> s.extents[i].type, data |-> new] \in Nodes
      BY <3>1, <3>4 DEF Nodes
    <3> QED BY <1>2, <2>1, <3>1, <3>5, PutRewrites
  <2>6. CASE issymlink(s, i)
    <3>1. s.extents[i].type = T_SYMLINK /\ ~ isdir(s, i)
      BY <1>2, <2>6, KindIs DEF T_DIR, T_SYMLINK
    <3>2. PICK name : buf = <<name>> \/ buf = <<>>
      BY <2>3, <3>1, NodeIs DEF ec_get, Targets
    <3>3. n = 0 /\ ~ (size < n)
      BY <2>2, <2>6, <3>2
    <3> HIDE DEF buf
    <3>4. new = <<>>
      BY <3>3, SubSeqEmpty
    <3> HIDE DEF new
    <3>5. [type |-> s.extents[i].type, data |-> new] \in Nodes
      BY <3>1, <3>4 DEF Nodes
    <3> QED BY <1>2, <2>1, <3>1, <3>5, PutRewrites
  <2> QED BY <2>3, <2>4, <2>5, <2>6
<1> QED BY <1>1, <1>2

-----------------------------------------------------------------------------
(* Whatever the step, what a process knew of the store is good for as much  *)
(* as before: a file stays that file or dies, a directory stays, and an     *)
(* entry that was there moves towards the start of its directory only.      *)

Follows(s, t) ==
  /\ s.inum <= t.inum
  /\ Folders(s) \subseteq Folders(t)
  /\ \A i \in 1 .. s.inum : i \in Live(t) => i \in Live(s) /\ (isfile(s, i) => isfile(t, i))
  /\ \A c \in Folders(s) : \A j \in DOMAIN readdir(t, c) :
       \/ readdir(t, c)[j].inum > s.inum
       \/ \E l \in DOMAIN readdir(s, c) :
            /\ readdir(t, c)[j] = readdir(s, c)[l]
            /\ Begins(readdir(t, c), j) <= Begins(readdir(s, c), l)

\* The entry of an inode that is left is left.
Keeps(s, t) ==
  \A c \in Folders(s) : \A k \in DOMAIN readdir(s, c) :
    readdir(s, c)[k].inum \in Live(t) =>
      \E l \in DOMAIN readdir(t, c) : readdir(t, c)[l] = readdir(s, c)[k]

\* What a process waits for, and its file, stay good.
LEMMA HeldStays ==
  ASSUME NEW s, NEW t, StoreOK(s), StoreOK(t), Follows(s, t)
  PROVE  /\ \A c : CallOK(s, c) => CallOK(t, c)
         /\ \A h : FdOK(s, h) => FdOK(t, h)
<1>1. /\ s.inum \in Nat /\ t.inum \in Nat /\ s.inum <= t.inum
      /\ Folders(s) \subseteq Folders(t)
  BY StoreIs DEF Follows
<1>2. ASSUME NEW h, HandleOK(s, h)
      PROVE  HandleOK(t, h)
  BY <1>1, <1>2 DEF HandleOK, Follows
<1>3. ASSUME NEW c, c.dir \in Folders(s), ListingOK(s, c),
             c.off \in Nat, \A k \in DOMAIN c.listed : c.listed[k].inum \in Nat
      PROVE  ListingOK(t, c)
  <2>1. \A k \in DOMAIN c.listed : c.listed[k].inum <= s.inum /\ c.listed[k].inum <= t.inum
    BY <1>1, <1>3 DEF ListingOK
  <2>2. ASSUME c.op = "getdents", NEW j \in DOMAIN readdir(t, c.dir), NEW k \in DOMAIN c.listed,
               Begins(readdir(t, c.dir), j) >= c.off
        PROVE  readdir(t, c.dir)[j] # c.listed[k]
    <3>1. readdir(t, c.dir) \in Seq(Entries) /\ readdir(s, c.dir) \in Seq(Entries)
      BY <1>1, <1>3, FolderIs
    <3>2. CASE readdir(t, c.dir)[j].inum > s.inum
      <4>1. readdir(t, c.dir)[j].inum \in Int
        <5> DEFINE list == readdir(t, c.dir)
        <5>1. list \in Seq(Entries) /\ j \in DOMAIN list
          BY <3>1, <2>2
        <5> HIDE DEF list
        <5>2. list[j] \in Entries
          BY <5>1
        <5>3. list[j].inum \in 2 .. MAX_INUM
          BY <5>2 DEF Entries
        <5> QED BY <5>3 DEF list
      <4> QED BY <1>1, <1>3, <2>1, <3>2, <4>1
    <3>3. CASE \E l \in DOMAIN readdir(s, c.dir) :
                 /\ readdir(t, c.dir)[j] = readdir(s, c.dir)[l]
                 /\ Begins(readdir(t, c.dir), j) <= Begins(readdir(s, c.dir), l)
      <4>1. PICK l \in DOMAIN readdir(s, c.dir) :
              /\ readdir(t, c.dir)[j] = readdir(s, c.dir)[l]
              /\ Begins(readdir(t, c.dir), j) <= Begins(readdir(s, c.dir), l)
        BY <3>3
      <4>2. Begins(readdir(s, c.dir), l) >= c.off
        <5>1. Begins(readdir(t, c.dir), j) \in Nat /\ Begins(readdir(s, c.dir), l) \in Nat
          BY <2>2, <3>1, <4>1, BeginsIs
        <5> QED BY <1>3, <2>2, <4>1, <5>1
      <4> QED BY <1>3, <2>2, <4>1, <4>2 DEF ListingOK, Apart
    <3> QED BY <1>3, <2>2, <3>2, <3>3 DEF Follows
  <2> QED BY <1>3, <2>1, <2>2 DEF ListingOK, Apart
<1>4. ASSUME NEW c, CallOK(s, c)
      PROVE  CallOK(t, c)
  <2>1. c \in Pending
    BY <1>4 DEF CallOK
  <2>2. c.op \in {"opening", "following", "walking"} \cup Listings => c.dir \in Folders(t)
    BY <1>1, <1>4 DEF CallOK
  <2>3. c.op = "opening" => HandleOK(t, c)
    BY <1>2, <1>4 DEF CallOK
  <2>4. c.op \in Listings => ListingOK(t, c)
    <3>1. SUFFICES ASSUME c.op \in Listings PROVE ListingOK(t, c)
      BY <3>1
    <3>2. c.off \in Nat /\ c.listed \in Seq(Items)
      BY <2>1, <3>1 DEF Pending, Idle, Items, Listings
    <3>3. \A k \in DOMAIN c.listed : c.listed[k].inum \in Nat
      <4> DEFINE list == c.listed
      <4>1. list \in Seq(Items)
        BY <3>2
      <4> HIDE DEF list
      <4>2. \A k \in DOMAIN list : list[k] \in Items
        BY <4>1
      <4>3. \A k \in DOMAIN list : list[k].inum \in Nat
        BY <4>2 DEF Items
      <4> QED BY <4>3 DEF list
    <3> QED BY <1>3, <1>4, <3>1, <3>2, <3>3 DEF CallOK
  <2> QED BY <2>1, <2>2, <2>3, <2>4 DEF CallOK
<1>5. ASSUME NEW h, FdOK(s, h)
      PROVE  FdOK(t, h)
  BY <1>1, <1>2, <1>5 DEF FdOK
<1> QED BY <1>4, <1>5

\* The invariants of the directories, together.
TreeOK(s) == StoreOK(s) /\ AllLive(s) /\ Unique(s)

LEMMA GrowthIs ==
  ASSUME NEW s, NEW t, NEW d, NEW name \in Names, TreeOK(s), StoreOK(t), Grows(s, t, d, name),
         ~ found(s, d, name)
  PROVE  /\ TreeOK(t) /\ Follows(s, t) /\ Keeps(s, t)
         /\ AllNamed(s) => AllNamed(t)
<1> DEFINE n == t.inum
           e == [name |-> name, inum |-> n]
           m == Len(readdir(s, d)) + 1
<1>1. /\ s.inum \in Nat /\ n \in Nat /\ s.inum < n
      /\ Live(s) \subseteq 1 .. s.inum /\ Live(t) = Live(s) \cup {n} /\ d \in Folders(s)
      /\ n \notin Live(s)
      /\ StoreOK(s) /\ AllLive(s) /\ Unique(s)
  BY StoreIs DEF Grows, TreeOK
<1>2. Folders(s) \subseteq Folders(t)
  BY DEF Grows
<1>3. ASSUME NEW c \in Folders(s)
      PROVE  /\ readdir(s, c) \in Seq(Entries) /\ readdir(t, c) \in Seq(Entries)
             /\ DOMAIN readdir(s, c) \subseteq DOMAIN readdir(t, c)
             /\ \A k \in DOMAIN readdir(s, c) : readdir(t, c)[k] = readdir(s, c)[k]
             /\ \A k \in DOMAIN readdir(t, c) :
                  k \in DOMAIN readdir(s, c) \/ (c = d /\ k = m /\ readdir(t, c)[k] = e)
  <2>1. readdir(s, c) \in Seq(Entries) /\ readdir(t, c) \in Seq(Entries)
    BY <1>1, <1>2, FolderIs
  <2>2. CASE c = d
    <3>1. readdir(t, c) = Append(readdir(s, c), e)
      BY <2>2 DEF Grows
    <3>2. e \in Entries
      BY DEF Grows, Entries
    <3> HIDE DEF e
    <3> QED BY <2>1, <2>2, <3>1, <3>2
  <2>3. CASE c # d
    <3>1. readdir(t, c) = readdir(s, c)
      BY <2>3 DEF Grows
    <3> QED BY <2>1, <3>1
  <2> QED BY <2>2, <2>3
<1>4. m \in DOMAIN readdir(t, d) /\ readdir(t, d)[m] = e
  <2>1. readdir(t, d) = Append(readdir(s, d), e) /\ readdir(s, d) \in Seq(Entries)
    BY <1>1, <1>3 DEF Grows
  <2> HIDE DEF e
  <2> QED BY <2>1
\* An entry of t is an old one or the new one.
<1>5. ASSUME NEW c \in Folders(t), NEW k \in DOMAIN readdir(t, c)
      PROVE  \/ /\ c \in Folders(s) /\ k \in DOMAIN readdir(s, c)
                /\ readdir(t, c)[k] = readdir(s, c)[k]
                /\ readdir(t, c)[k].inum \in Live(s)
             \/ c = d /\ k = m /\ readdir(t, c)[k] = e
  <2>1. c \in Folders(s)
    <3>1. SUFFICES ASSUME c \notin Folders(s) PROVE FALSE
      BY <3>1
    <3>2. readdir(t, c) = <<>>
      BY <3>1 DEF Grows
    <3> QED BY <3>2
  <2> QED BY <1>1, <1>3, <2>1 DEF AllLive
<1>6. e.name = name /\ e.inum = n
  OBVIOUS
<1> HIDE DEF e, m, n
<1>7. AllLive(t)
  BY <1>1, <1>5, <1>6 DEF AllLive
<1>8. ASSUME NEW c \in Folders(s), NEW k \in DOMAIN readdir(s, c)
      PROVE  readdir(s, c)[k].inum # n /\ (c = d => readdir(s, c)[k].name # name)
  BY <1>1, <1>8 DEF AllLive, found, Matches
<1>9. Unique(t)
  <2>1. SUFFICES ASSUME NEW a \in Folders(t), NEW b \in Folders(t),
                        NEW k \in DOMAIN readdir(t, a), NEW l \in DOMAIN readdir(t, b),
                        \/ a = b /\ readdir(t, a)[k].name = readdir(t, b)[l].name
                        \/ readdir(t, a)[k].inum = readdir(t, b)[l].inum
                 PROVE  a = b /\ k = l
    BY DEF Unique
  <2>2. CASE a \in Folders(s) /\ k \in DOMAIN readdir(s, a) /\ readdir(t, a)[k] = readdir(s, a)[k]
    <3>1. CASE b \in Folders(s) /\ l \in DOMAIN readdir(s, b) /\ readdir(t, b)[l] = readdir(s, b)[l]
      BY <1>1, <2>1, <2>2, <3>1 DEF Unique
    <3>2. CASE b = d /\ l = m /\ readdir(t, b)[l] = e
      BY <1>6, <1>8, <2>1, <2>2, <3>2
    <3> QED BY <1>5, <3>1, <3>2
  <2>3. CASE a = d /\ k = m /\ readdir(t, a)[k] = e
    <3>1. CASE b \in Folders(s) /\ l \in DOMAIN readdir(s, b) /\ readdir(t, b)[l] = readdir(s, b)[l]
      BY <1>6, <1>8, <2>1, <2>3, <3>1
    <3>2. CASE b = d /\ l = m /\ readdir(t, b)[l] = e
      BY <2>3, <3>2
    <3> QED BY <1>5, <3>1, <3>2
  <2> QED BY <1>5, <2>2, <2>3
<1>10. Follows(s, t)
  <2>1. ASSUME NEW c \in Folders(s), NEW j \in DOMAIN readdir(t, c)
        PROVE  \/ readdir(t, c)[j].inum > s.inum
               \/ \E l \in DOMAIN readdir(s, c) :
                    /\ readdir(t, c)[j] = readdir(s, c)[l]
                    /\ Begins(readdir(t, c), j) <= Begins(readdir(s, c), l)
    <3>1. CASE j \in DOMAIN readdir(s, c) /\ readdir(t, c)[j] = readdir(s, c)[j]
      <4>1. /\ readdir(s, c) \in Seq(Entries) /\ readdir(t, c) \in Seq(Entries)
            /\ \A k \in DOMAIN readdir(s, c) :
                 k \in DOMAIN readdir(t, c) /\ readdir(t, c)[k] = readdir(s, c)[k]
        BY <1>3
      <4>2. /\ Begins(readdir(t, c), j) = Begins(readdir(s, c), j)
            /\ Begins(readdir(t, c), j) \in Nat
        BY <3>1, <4>1, BeginsSame, BeginsIs
      <4> QED BY <3>1, <4>2
    <3>2. CASE readdir(t, c)[j] = e
      BY <1>1, <1>6, <3>2
    <3> QED BY <1>2, <1>5, <3>1, <3>2
  <2>2. s.inum <= t.inum /\ n = t.inum
    BY <1>1 DEF n
  <2>3. ASSUME NEW i \in 1 .. s.inum, i \in Live(t)
        PROVE  i \in Live(s) /\ (isfile(s, i) => isfile(t, i))
    BY <1>1, <2>3 DEF Grows
  <2> QED BY <1>2, <2>1, <2>2, <2>3 DEF Follows
<1>11. Keeps(s, t)
  BY <1>3 DEF Keeps
<1>12. ASSUME AllNamed(s)
       PROVE  AllNamed(t)
  <2>1. SUFFICES ASSUME NEW i \in Live(t) \ {1}
                 PROVE  \E c \in Folders(t) : \E k \in DOMAIN readdir(t, c) :
                          readdir(t, c)[k].inum = i
    BY DEF AllNamed
  <2>2. CASE i \in Live(s)
    <3>1. PICK c \in Folders(s) : \E k \in DOMAIN readdir(s, c) : readdir(s, c)[k].inum = i
      BY <1>12, <2>2 DEF AllNamed
    <3> QED BY <1>2, <1>3, <3>1
  <2>3. CASE i = n
    BY <1>1, <1>2, <1>4, <1>6, <2>3
  <2> QED BY <1>1, <2>2, <2>3
<1> QED BY <1>1, <1>7, <1>9, <1>10, <1>11, <1>12 DEF TreeOK

LEMMA ShrinkingIs ==
  ASSUME NEW s, NEW t, NEW d, NEW k, TreeOK(s), StoreOK(t), Shrinks(s, t, d, k)
  PROVE  /\ TreeOK(t) /\ Follows(s, t) /\ Keeps(s, t)
         /\ AllNamed(s) => AllNamed(t)
<1> DEFINE gone == readdir(s, d)[k]
           To(c, j) == IF c = d /\ k <= j THEN j + 1 ELSE j
<1>1. /\ StoreOK(s) /\ AllLive(s) /\ Unique(s)
      /\ s.inum \in Nat /\ t.inum = s.inum /\ Live(t) = Live(s) \ {gone.inum}
      /\ Folders(t) = Folders(s) /\ d \in Folders(s) /\ k \in DOMAIN readdir(s, d)
  BY StoreIs DEF Shrinks, TreeOK
<1>2. ASSUME NEW c \in Folders(s)
      PROVE  readdir(s, c) \in Seq(Entries) /\ readdir(t, c) \in Seq(Entries)
  BY <1>1, FolderIs
<1>3. ASSUME NEW c \in Folders(s), NEW j \in DOMAIN readdir(t, c)
      PROVE  /\ j \in Nat /\ To(c, j) \in DOMAIN readdir(s, c)
             /\ Begins(readdir(t, c), j) <= Begins(readdir(s, c), To(c, j))
             /\ readdir(t, c)[j] = readdir(s, c)[To(c, j)]
             /\ c = d => To(c, j) # k
  <2>1. CASE c = d
    <3>1. readdir(t, c) = RemoveAt(readdir(s, c), k)
      BY <2>1 DEF Shrinks
    <3>2. k \in 1 .. Len(readdir(s, c)) /\ k \in Int /\ Len(readdir(s, c)) \in Nat
      BY <1>1, <1>2, <2>1
    <3>3. /\ Len(readdir(t, c)) = Len(readdir(s, c)) - 1
          /\ \A i \in 1 .. Len(readdir(s, c)) - 1 :
               readdir(t, c)[i] = IF i < k THEN readdir(s, c)[i] ELSE readdir(s, c)[i + 1]
      BY <1>2, <3>1, <3>2, RemoveAtIs
    <3>4. j \in 1 .. Len(readdir(s, c)) - 1 /\ j \in Nat
      BY <1>2, <3>3
    <3>5. Begins(readdir(t, c), j) <= Begins(readdir(s, c), IF j < k THEN j ELSE j + 1)
      BY <1>2, <3>1, <3>2, <3>4, SizeRemoved
    <3>6. To(c, j) = IF j < k THEN j ELSE j + 1
      BY <2>1, <3>2, <3>4
    <3>7. To(c, j) \in DOMAIN readdir(s, c) /\ To(c, j) # k
      BY <1>2, <3>2, <3>4, <3>6
    <3> HIDE DEF To
    <3> QED BY <3>3, <3>4, <3>5, <3>6, <3>7
  <2>2. CASE c # d
    <3>1. readdir(t, c) = readdir(s, c)
      BY <2>2 DEF Shrinks
    <3>2. j \in Nat /\ Begins(readdir(s, c), j) \in Nat
      BY <1>2, <3>1, BeginsIs
    <3> QED BY <2>2, <3>1, <3>2
  <2> QED BY <2>1, <2>2
<1>4. ASSUME NEW c \in Folders(s), NEW l \in DOMAIN readdir(s, c), c # d \/ l # k
      PROVE  \E j \in DOMAIN readdir(t, c) : readdir(t, c)[j] = readdir(s, c)[l]
  <2>1. CASE c = d
    <3>1. readdir(t, c) = RemoveAt(readdir(s, c), k)
      BY <2>1 DEF Shrinks
    <3>2. k \in 1 .. Len(readdir(s, c)) /\ k \in Int /\ Len(readdir(s, c)) \in Nat
          /\ l \in 1 .. Len(readdir(s, c)) /\ l \in Int /\ l # k
      BY <1>1, <1>2, <1>4, <2>1
    <3>3. /\ Len(readdir(t, c)) = Len(readdir(s, c)) - 1
          /\ \A i \in 1 .. Len(readdir(s, c)) - 1 :
               readdir(t, c)[i] = IF i < k THEN readdir(s, c)[i] ELSE readdir(s, c)[i + 1]
      BY <1>2, <3>1, <3>2, RemoveAtIs
    <3>4. DOMAIN readdir(t, c) = 1 .. Len(readdir(s, c)) - 1
      BY <1>2, <3>3
    <3>5. CASE l < k
      <4>1. l \in 1 .. Len(readdir(s, c)) - 1
        BY <3>2, <3>5
      <4> QED BY <3>3, <3>4, <3>5, <4>1
    <3>6. CASE k < l
      <4>1. l - 1 \in 1 .. Len(readdir(s, c)) - 1 /\ ~ (l - 1 < k) /\ (l - 1) + 1 = l
        BY <3>2, <3>6
      <4> QED BY <3>3, <3>4, <4>1
    <3> QED BY <3>2, <3>5, <3>6
  <2>2. CASE c # d
    <3>1. readdir(t, c) = readdir(s, c)
      BY <2>2 DEF Shrinks
    <3> QED BY <3>1
  <2> QED BY <2>1, <2>2
\* The entry that is gone was the only one of its inode.
<1>5. ASSUME NEW c \in Folders(s), NEW l \in DOMAIN readdir(s, c), readdir(s, c)[l].inum = gone.inum
      PROVE  c = d /\ l = k
  BY <1>1, <1>5 DEF Unique
<1>6. ASSUME NEW c \in Folders(s), NEW i \in DOMAIN readdir(t, c), NEW j \in DOMAIN readdir(t, c),
             To(c, i) = To(c, j)
      PROVE  i = j
  <2>1. i \in Nat /\ j \in Nat /\ k \in Nat
    BY <1>1, <1>2, <1>3
  <2> QED BY <1>6, <2>1
<1> HIDE DEF To, gone
<1>7. AllLive(t)
  <2>1. SUFFICES ASSUME NEW c \in Folders(s), NEW j \in DOMAIN readdir(t, c)
                 PROVE  readdir(t, c)[j].inum \in Live(t)
    BY <1>1 DEF AllLive
  <2>2. readdir(t, c)[j].inum \in Live(s)
    BY <1>1, <1>3 DEF AllLive
  <2>3. readdir(t, c)[j].inum # gone.inum
    BY <1>3, <1>5
  <2> QED BY <1>1, <2>2, <2>3
<1>8. Unique(t)
  <2>1. SUFFICES ASSUME NEW a \in Folders(s), NEW b \in Folders(s),
                        NEW i \in DOMAIN readdir(t, a), NEW j \in DOMAIN readdir(t, b),
                        \/ a = b /\ readdir(t, a)[i].name = readdir(t, b)[j].name
                        \/ readdir(t, a)[i].inum = readdir(t, b)[j].inum
                 PROVE  a = b /\ i = j
    BY <1>1 DEF Unique
  <2>2. a = b /\ To(a, i) = To(b, j)
    BY <1>1, <1>3, <2>1 DEF Unique
  <2> QED BY <1>6, <2>2
<1>9. Follows(s, t)
  <2>1. ASSUME NEW c \in Folders(s), NEW j \in DOMAIN readdir(t, c)
        PROVE  \E l \in DOMAIN readdir(s, c) :
                 /\ readdir(t, c)[j] = readdir(s, c)[l]
                 /\ Begins(readdir(t, c), j) <= Begins(readdir(s, c), l)
    BY <1>3
  <2>2. \A i \in 1 .. s.inum : i \in Live(t) => i \in Live(s) /\ (isfile(s, i) => isfile(t, i))
    BY <1>1 DEF Shrinks
  <2> QED BY <1>1, <2>1, <2>2 DEF Follows
<1>10. Keeps(s, t)
  BY <1>1, <1>4 DEF Keeps, gone
<1>11. ASSUME AllNamed(s)
       PROVE  AllNamed(t)
  <2>1. SUFFICES ASSUME NEW i \in Live(t) \ {1}
                 PROVE  \E c \in Folders(t) : \E j \in DOMAIN readdir(t, c) :
                          readdir(t, c)[j].inum = i
    BY DEF AllNamed
  <2>2. PICK c \in Folders(s) : \E l \in DOMAIN readdir(s, c) : readdir(s, c)[l].inum = i
    BY <1>1, <1>11 DEF AllNamed
  <2>3. PICK l \in DOMAIN readdir(s, c) : readdir(s, c)[l].inum = i
    BY <2>2
  <2>4. \E j \in DOMAIN readdir(t, c) : readdir(t, c)[j] = readdir(s, c)[l]
    BY <1>1, <1>4, <2>3 DEF gone
  <2> QED BY <1>1, <2>3, <2>4
<1> QED BY <1>7, <1>8, <1>9, <1>10, <1>11 DEF TreeOK

LEMMA RewritingIs ==
  ASSUME NEW s, NEW t, TreeOK(s), StoreOK(t), Rewrites(s, t)
  PROVE  /\ TreeOK(t) /\ Follows(s, t)
         /\ Refills(s, t) => Keeps(s, t)
         /\ Refills(s, t) /\ AllNamed(s) => AllNamed(t)
<1>1. /\ StoreOK(s) /\ AllLive(s) /\ Unique(s)
      /\ s.inum \in Nat /\ t.inum = s.inum /\ Live(t) = Live(s) /\ Folders(t) = Folders(s)
  BY StoreIs DEF Rewrites, TreeOK
<1>2. ASSUME NEW c \in Folders(s), NEW j \in DOMAIN readdir(t, c)
      PROVE  /\ readdir(t, c) = readdir(s, c)
             /\ Begins(readdir(t, c), j) <= Begins(readdir(s, c), j)
  <2>1. readdir(t, c) # <<>>
    OBVIOUS
  <2>2. readdir(t, c) = readdir(s, c)
    BY <2>1 DEF Rewrites
  <2>3. readdir(t, c) \in Seq(Entries)
    BY <1>1, FolderIs
  <2>4. Begins(readdir(t, c), j) \in Nat
    BY <2>3, BeginsIs
  <2> QED BY <2>2, <2>4
<1>3. AllLive(t)
  BY <1>1, <1>2 DEF AllLive
<1>4. Unique(t)
  <2>1. SUFFICES ASSUME NEW a \in Folders(s), NEW b \in Folders(s),
                        NEW i \in DOMAIN readdir(t, a), NEW j \in DOMAIN readdir(t, b),
                        \/ a = b /\ readdir(t, a)[i].name = readdir(t, b)[j].name
                        \/ readdir(t, a)[i].inum = readdir(t, b)[j].inum
                 PROVE  a = b /\ i = j
    BY <1>1 DEF Unique
  <2>2. readdir(t, a) = readdir(s, a) /\ readdir(t, b) = readdir(s, b)
    BY <1>2
  <2> QED BY <1>1, <2>1, <2>2 DEF Unique
<1>5. Follows(s, t)
  <2>1. \A i \in 1 .. s.inum : i \in Live(t) => i \in Live(s) /\ (isfile(s, i) => isfile(t, i))
    BY <1>1 DEF Rewrites
  <2> QED BY <1>1, <1>2, <2>1 DEF Follows
<1>6. ASSUME Refills(s, t)
      PROVE  Keeps(s, t) /\ (AllNamed(s) => AllNamed(t))
  BY <1>1, <1>6 DEF Refills, Keeps, AllNamed
<1> QED BY <1>1, <1>3, <1>4, <1>5, <1>6 DEF TreeOK

-----------------------------------------------------------------------------
(* The steps.  Each leaves what the invariants need of the store, of what   *)
(* a process waits for, and of its open file.                               *)

StepOK ==
  /\ TreeOK(store') /\ Follows(store, store')
  /\ "utimes_dir" \notin Calls => Keeps(store, store') /\ (AllNamed(store) => AllNamed(store'))
  /\ status' \in {"running"} \cup Fatal
  /\ DOMAIN call' = Procs /\ DOMAIN fd' = Procs
  /\ \A q \in Procs :
       \/ call'[q] = call[q]
       \/ /\ CallOK(store', call'[q])
          /\ call'[q].op = "opening" => Leads(store', call'[q])
  /\ \A q \in Procs :
       \/ fd'[q] = fd[q]
       \/ /\ FdOK(store', fd'[q])
          /\ LInv /\ fd'[q] # NoFile => Leads(store', fd'[q])

LEMMA StepKeepsIInv ==
  ASSUME IInv, StepOK
  PROVE  IInv'
<1>1. StoreOK(store) /\ StoreOK(store') /\ AllLive(store') /\ Unique(store')
  BY DEF IInv, StepOK, TreeOK
<1>2. ASSUME NEW q \in Procs
      PROVE  CallOK(store', call'[q]) /\ FdOK(store', fd'[q])
  <2>1. CallOK(store, call[q]) /\ FdOK(store, fd[q])
    BY DEF IInv
  <2>2. CallOK(store', call[q]) /\ FdOK(store', fd[q])
    BY <1>1, <2>1, HeldStays DEF StepOK
  <2> QED BY <2>2 DEF StepOK
<1> QED BY <1>1, <1>2 DEF IInv, StepOK

\* A handle that leads back goes on to: its file's entry stays as long as the file.
LEMMA LeadsStays ==
  ASSUME NEW s, NEW t, NEW h, h.dir \in Folders(s), HandleOK(s, h), Leads(s, h),
         Follows(s, t), Keeps(s, t)
  PROVE  Leads(t, h)
<1>1. SUFFICES ASSUME h.ino \in Live(t)
               PROVE  \E k \in DOMAIN readdir(t, h.dir) :
                        readdir(t, h.dir)[k] = [name |-> h.name, inum |-> h.ino]
  BY DEF Leads
<1>2. h.ino \in Live(s)
  BY <1>1 DEF HandleOK, Follows
<1> DEFINE e == [name |-> h.name, inum |-> h.ino]
<1>3. PICK k \in DOMAIN readdir(s, h.dir) : readdir(s, h.dir)[k] = e
  BY <1>2 DEF Leads
<1>4. e.inum = h.ino
  OBVIOUS
<1> HIDE DEF e
<1>5. \E l \in DOMAIN readdir(t, h.dir) : readdir(t, h.dir)[l] = readdir(s, h.dir)[k]
  BY <1>1, <1>3, <1>4 DEF Keeps
<1> QED BY <1>3, <1>5 DEF e

LEMMA StepKeepsLInv ==
  ASSUME IInv, LInv, StepOK, "utimes_dir" \notin Calls
  PROVE  LInv'
<1>1. AllNamed(store') /\ Follows(store, store') /\ Keeps(store, store')
  BY DEF LInv, StepOK
<1>2. ASSUME NEW q \in Procs, call'[q].op = "opening"
      PROVE  Leads(store', call'[q])
  <2>1. CASE call'[q] = call[q]
    <3>1. CallOK(store, call[q]) /\ Leads(store, call[q])
      BY <1>2, <2>1 DEF IInv, LInv
    <3>2. call[q].dir \in Folders(store) /\ HandleOK(store, call[q])
      BY <1>2, <2>1, <3>1 DEF CallOK
    <3> QED BY <1>1, <2>1, <3>1, <3>2, LeadsStays
  <2>2. CASE call'[q] # call[q]
    BY <1>2, <2>2 DEF StepOK
  <2> QED BY <2>1, <2>2
<1>3. ASSUME NEW q \in Procs, fd'[q] # NoFile
      PROVE  Leads(store', fd'[q])
  <2>1. CASE fd'[q] = fd[q]
    <3>1. FdOK(store, fd[q]) /\ Leads(store, fd[q])
      BY <1>3, <2>1 DEF IInv, LInv
    <3>2. fd[q].dir \in Folders(store) /\ HandleOK(store, fd[q])
      BY <1>3, <2>1, <3>1 DEF FdOK
    <3> QED BY <1>1, <2>1, <3>1, <3>2, LeadsStays
  <2>2. CASE fd'[q] # fd[q]
    BY <1>3, <2>2 DEF StepOK
  <2> QED BY <2>1, <2>2
<1> QED BY <1>1, <1>2, <1>3 DEF LInv

\* A store that stays is a store that follows.
LEMMA SameStore ==
  ASSUME NEW s, TreeOK(s)
  PROVE  /\ Follows(s, s) /\ Keeps(s, s)
BY SameRefills, RewritingIs DEF TreeOK, Refills

\* What a process waits for, part by part.
LEMMA PendingIs ==
  ASSUME NEW c \in Pending
  PROVE  /\ c.op = "opening" => c.dir \in Nat /\ c.name \in Names /\ c.ino \in Nat
         /\ c.op = "walking" => c.dir \in Nat /\ c.name \in Names
         /\ c.op \in Listings =>
              /\ c \in [op : Listings, dir : Nat, off : Nat,
                        listed : Seq(Items), stay : SUBSET Entries]
BY DEF Pending, Idle, Entries, Items, Listings

LEMMA ListingIs ==
  ASSUME NEW op \in Listings, NEW dir \in Nat, NEW off \in Nat,
         NEW listed \in Seq(Items), NEW stay \in SUBSET Entries
  PROVE  [op |-> op, dir |-> dir, off |-> off, listed |-> listed, stay |-> stay] \in Pending
BY DEF Pending, Entries, Items, Listings

\* A process with nothing to wait for.
LEMMA IdleOK ==
  ASSUME NEW s
  PROVE  CallOK(s, Idle) /\ Idle.op # "opening"
BY DEF CallOK, Pending, Idle, Listings

\* The steps that leave the store alone.
LEMMA QuietStep ==
  ASSUME IInv, UNCHANGED store, status' \in {"running"} \cup Fatal,
         NEW p \in Procs, NEW c, call' = [call EXCEPT ![p] = c] \/ call' = call,
         CallOK(store, c), c.op = "opening" => Leads(store, c),
         NEW h, fd' = [fd EXCEPT ![p] = h] \/ fd' = fd,
         FdOK(store, h), LInv /\ h # NoFile => Leads(store, h)
  PROVE  StepOK
<1>1. TreeOK(store) /\ DOMAIN call = Procs /\ DOMAIN fd = Procs
  BY DEF IInv, TreeOK
<1>2. DOMAIN call' = Procs /\ \A q \in Procs : call'[q] = call[q] \/ call'[q] = c
  BY <1>1
<1>3. DOMAIN fd' = Procs /\ \A q \in Procs : fd'[q] = fd[q] \/ fd'[q] = h
  BY <1>1
<1>4. Follows(store, store') /\ Keeps(store, store') /\ (AllNamed(store) => AllNamed(store'))
      /\ TreeOK(store')
  BY <1>1, SameStore
<1>5. \A q \in Procs : \/ call'[q] = call[q]
                       \/ /\ CallOK(store', call'[q])
                          /\ call'[q].op = "opening" => Leads(store', call'[q])
  BY <1>2
<1>6. \A q \in Procs : \/ fd'[q] = fd[q]
                       \/ /\ FdOK(store', fd'[q])
                          /\ LInv /\ fd'[q] # NoFile => Leads(store', fd'[q])
  BY <1>3
<1> QED BY <1>1, <1>2, <1>3, <1>4, <1>5, <1>6 DEF StepOK

\* Neither what it waits for nor its file need change.
LEMMA NoFileOK ==
  ASSUME NEW s
  PROVE  FdOK(s, NoFile)
BY DEF FdOK

LEMMA QuietCall ==
  ASSUME IInv, UNCHANGED <<store, fd>>, status' \in {"running"} \cup Fatal,
         NEW p \in Procs, NEW c, call' = [call EXCEPT ![p] = c],
         CallOK(store, c), c.op = "opening" => Leads(store, c)
  PROVE  StepOK
<1>1. FdOK(store, NoFile) /\ (LInv /\ NoFile # NoFile => Leads(store, NoFile))
  BY NoFileOK
<1>2. fd' = fd /\ store' = store
  OBVIOUS
<1> QED BY <1>1, <1>2, QuietStep

\* What lookup finds is there.
LEMMA FoundIs ==
  ASSUME NEW s, TreeOK(s), NEW d \in Folders(s), NEW name \in Names, found(s, d, name)
  PROVE  /\ d \in Nat
         /\ lookup(s, d, name) \in Live(s) /\ lookup(s, d, name) \in Nat
         /\ lookup(s, d, name) \in 1 .. s.inum
         /\ \E k \in DOMAIN readdir(s, d) :
              readdir(s, d)[k] = [name |-> name, inum |-> lookup(s, d, name)]
<1> DEFINE list == readdir(s, d)
           k == First(list, name)
           i == lookup(s, d, name)
<1>1. list \in Seq(Entries) /\ d \in Live(s)
  BY FolderIs DEF TreeOK
<1>2. k \in DOMAIN list /\ list[k].name = name
  BY <1>1, FirstIs DEF found
<1>3. i = list[k].inum
  BY DEF lookup
<1>4. i \in Live(s)
  BY <1>2, <1>3 DEF AllLive, TreeOK
<1>5. Live(s) \subseteq 1 .. s.inum /\ Live(s) \subseteq Nat
  BY StoreIs DEF TreeOK
<1> HIDE DEF k, i
<1>6. PICK e \in Entries : e = list[k]
  <2> HIDE DEF list
  <2> QED BY <1>1, <1>2
<1>7. e = [name |-> e.name, inum |-> e.inum]
  BY DEF Entries
<1>8. list[k] = [name |-> name, inum |-> i]
  BY <1>2, <1>3, <1>6, <1>7
<1> QED BY <1>1, <1>2, <1>4, <1>5, <1>8 DEF i

\* fuseserver_lookup
LEMMA WalkStep ==
  ASSUME IInv, NEW p \in Procs, NEW dir \in Folders(store), NEW name \in Names,
         Walk(p, dir, name)
  PROVE  StepOK
<1> DEFINE i == lookup(store, dir, name)
           opening == [op |-> "opening", dir |-> dir, name |-> name, ino |-> i]
           following == [op |-> "following", dir |-> dir, ino |-> i]
<1>1. TreeOK(store) /\ status' \in {"running"} \cup Fatal /\ UNCHANGED <<store, fd>>
  BY DEF IInv, TreeOK, Walk
<1>2. CASE ~ found(store, dir, name) \/ isdir(store, i)
  <2>1. call' = [call EXCEPT ![p] = Idle]
    BY <1>2 DEF Walk, Goes
  <2> QED BY <1>1, <2>1, IdleOK, QuietCall
<1>3. CASE found(store, dir, name) /\ ~ isdir(store, i)
  <2>1. /\ dir \in Nat /\ i \in Live(store) /\ i \in Nat /\ i \in 1 .. store.inum
        /\ \E k \in DOMAIN readdir(store, dir) :
             readdir(store, dir)[k] = [name |-> name, inum |-> i]
    BY <1>1, <1>3, FoundIs
  <2>2. CASE isfile(store, i)
    <3>1. call' = [call EXCEPT ![p] = opening]
      BY <1>3, <2>2 DEF Walk, Goes
    <3> HIDE DEF i
    <3>2. opening.op = "opening" /\ opening.dir = dir /\ opening.name = name /\ opening.ino = i
      OBVIOUS
    <3>3. opening \in Pending
      BY <2>1 DEF Pending
    <3> HIDE DEF opening
    <3>4. HandleOK(store, opening) /\ Leads(store, opening)
      BY <2>1, <2>2, <3>2 DEF HandleOK, Leads
    <3>5. CallOK(store, opening)
      BY <3>2, <3>3, <3>4 DEF CallOK, Listings
    <3> QED BY <1>1, <3>1, <3>4, <3>5, QuietCall
  <2>3. CASE ~ isfile(store, i)
    <3>1. call' = [call EXCEPT ![p] = following]
      BY <1>3, <2>3 DEF Walk, Goes
    <3> HIDE DEF i
    <3>2. following.op = "following" /\ following.dir = dir
      OBVIOUS
    <3>3. following \in Pending
      BY <2>1 DEF Pending
    <3> HIDE DEF following
    <3>4. CallOK(store, following)
      BY <3>2, <3>3 DEF CallOK, Listings
    <3> QED BY <1>1, <3>1, <3>2, <3>4, QuietCall
  <2> QED BY <2>2, <2>3
<1> QED BY <1>2, <1>3

\* The methods that only read leave the store alone.
LEMMA ReadStep ==
  ASSUME IInv, NEW out, out.store = store, Ran(out)
  PROVE  UNCHANGED store /\ status' \in {"running"} \cup Fatal
BY DEF Ran, IInv

LEMMA ReadLinkStep ==
  ASSUME IInv, NEW p \in Procs, ReadLink(p)
  PROVE  StepOK
<1> DEFINE i == call[p].ino
           out == readlink(store, i)
           walking == [op |-> "walking", dir |-> call[p].dir, name |-> out.data[1]]
<1>1. Ran(out) /\ UNCHANGED fd /\ call[p].op = "following" /\ status = "running"
      /\ call' = [call EXCEPT ![p] = IF out.status = "OK" /\ out.data # <<>>
                                     THEN walking ELSE Idle]
  BY DEF ReadLink, Waits, Goes
<1>2. out.store = store
  BY DEF readlink, Fail
<1>3. UNCHANGED store /\ status' \in {"running"} \cup Fatal
  BY <1>1, <1>2, ReadStep
<1>4. StoreOK(store) /\ call[p].dir \in Folders(store)
  BY <1>1 DEF IInv, CallOK, Listings
<1>5. CASE out.status = "OK" /\ out.data # <<>>
  <2>1. issymlink(store, i) /\ out.data = ec_get(store, i)
    BY <1>5 DEF readlink, Fail
  <2>2. store.extents[i] \in Nodes /\ store.extents[i].type = T_SYMLINK
    BY <1>4, <2>1, KindIs
  <2>3. out.data \in Targets
    BY <1>5, <2>1, <2>2, NodeIs DEF ec_get
  <2>4. out.data[1] \in Names
    BY <2>3 DEF Targets
  <2>5. call[p].dir \in Nat
    BY <1>4, StoreIs DEF Folders
  <2>6. call' = [call EXCEPT ![p] = walking]
    BY <1>1, <1>5
  <2> HIDE DEF out
  <2>7. walking \in Pending /\ walking.op = "walking" /\ walking.dir = call[p].dir
    BY <2>4, <2>5 DEF Pending
  <2> HIDE DEF walking
  <2>8. CallOK(store, walking) /\ walking.op # "opening"
    BY <1>4, <2>7 DEF CallOK, Listings
  <2> QED BY <1>1, <1>3, <2>6, <2>8, QuietCall
<1>6. CASE ~ (out.status = "OK" /\ out.data # <<>>)
  <2>1. call' = [call EXCEPT ![p] = Idle]
    BY <1>1, <1>6
  <2> QED BY <1>1, <1>3, <2>1, IdleOK, QuietCall
<1> QED BY <1>5, <1>6

LEMMA WalkOnStep ==
  ASSUME IInv, NEW p \in Procs, WalkOn(p)
  PROVE  StepOK
<1>1. call[p].op = "walking" /\ Walk(p, call[p].dir, call[p].name)
  BY DEF WalkOn, Waits
<1>2. call[p] \in Pending /\ call[p].dir \in Folders(store)
  BY <1>1 DEF IInv, CallOK, Listings
<1>3. call[p].name \in Names
  BY <1>1, <1>2, PendingIs
<1> QED BY <1>1, <1>2, <1>3, WalkStep

\* fuseserver_open
LEMMA OpenInodeStep ==
  ASSUME IInv, NEW p \in Procs, OpenInode(p)
  PROVE  StepOK
<1> DEFINE c == call[p]
           h == [dir |-> c.dir, name |-> c.name, ino |-> c.ino]
<1>1. /\ c.op = "opening" /\ UNCHANGED <<store, status>>
      /\ fd' = [fd EXCEPT ![p] = h] /\ call' = [call EXCEPT ![p] = Idle]
  BY DEF OpenInode, Waits, Goes
<1>2. CallOK(store, c) /\ (LInv => Leads(store, c)) /\ status \in {"running"} \cup Fatal
  BY <1>1 DEF IInv, LInv
<1>3. c \in Pending /\ c.dir \in Folders(store) /\ HandleOK(store, c)
  BY <1>1, <1>2 DEF CallOK, Listings
<1>4. c.dir \in Nat /\ c.name \in Names /\ c.ino \in Nat
  BY <1>1, <1>3, PendingIs
<1> HIDE DEF c
<1>5. h \in Opened /\ h.dir = c.dir /\ h.name = c.name /\ h.ino = c.ino
  BY <1>4 DEF Opened
<1> HIDE DEF h
<1>6. FdOK(store, h) /\ (LInv => Leads(store, h))
  BY <1>2, <1>3, <1>5 DEF FdOK, HandleOK, Leads
<1> QED BY <1>1, <1>2, <1>6, IdleOK, QuietStep

LEMMA CloseStep ==
  ASSUME IInv, NEW p \in Procs, Close(p)
  PROVE  StepOK
<1>1. /\ UNCHANGED <<store, status, call>> /\ fd' = [fd EXCEPT ![p] = NoFile]
      /\ status \in {"running"} \cup Fatal
  BY DEF Close, IInv
<1>2. FdOK(store, NoFile)
  BY NoFileOK
<1> QED BY <1>1, <1>2, IdleOK, QuietStep

\* getattr, for the kernel's own look at the size
LEMMA ReadSizeStep ==
  ASSUME IInv, NEW p \in Procs, NEW off \in Lengths, ReadSize(p, off)
  PROVE  StepOK
<1> DEFINE reading == [op |-> "reading", off |-> off]
<1>1. UNCHANGED <<store, status>> /\ status \in {"running"} \cup Fatal
  BY DEF ReadSize, IInv
<1>2. CASE ~ isfile(store, fd[p].ino)
  <2>1. fd' = [fd EXCEPT ![p] = NoFile] /\ call' = call
    BY <1>2 DEF ReadSize
  <2> QED BY <1>1, <2>1, IdleOK, NoFileOK, QuietStep
<1>3. CASE isfile(store, fd[p].ino)
  <2>1. call' = [call EXCEPT ![p] = reading] /\ UNCHANGED fd
    BY <1>3 DEF ReadSize, Goes
  <2>2. CallOK(store, reading) /\ reading.op # "opening"
    BY DEF CallOK, Listings, Pending
  <2> HIDE DEF reading
  <2> QED BY <1>1, <2>1, <2>2, QuietCall
<1> QED BY <1>2, <1>3

\* fuseserver_read
LEMMA ReadFileStep ==
  ASSUME IInv, NEW p \in Procs, Read(p)
  PROVE  StepOK
<1> DEFINE out == read(store, fd[p].ino, Page, call[p].off)
<1>1. Ran(out) /\ UNCHANGED fd /\ call' = [call EXCEPT ![p] = Idle]
  BY DEF Read, Goes
<1>2. out.store = store
  BY DEF read, Fail
<1>3. UNCHANGED store /\ status' \in {"running"} \cup Fatal
  BY <1>1, <1>2, ReadStep
<1> QED BY <1>1, <1>3, IdleOK, QuietCall

\* create, mkdir and symlink of a name that is not there.
LEMMA MakeIs ==
  ASSUME TreeOK(store), NEW dir \in Folders(store), NEW name \in Names, CanMake(dir, name),
         NEW node \in Nodes, node.type = T_DIR => node.data = <<>>,
         NEW t, t = Made(store, dir, name, node)
  PROVE  /\ TreeOK(t) /\ Follows(store, t) /\ Keeps(store, t)
         /\ AllNamed(store) => AllNamed(t)
         /\ Grows(store, t, dir, name)
<1>1. ~ found(store, dir, name) /\ store.inum < MAX_INUM
  BY DEF CanMake
<1>2. StoreOK(t) /\ Grows(store, t, dir, name)
  BY <1>1, MadeGrows DEF TreeOK
<1> QED BY <1>1, <1>2, GrowthIs

\* A step that changes the store; the processes know as much as before.
LEMMA StoreStep ==
  ASSUME IInv, NEW out, Ran(out),
         TreeOK(out.store), Follows(store, out.store),
         "utimes_dir" \notin Calls =>
           Keeps(store, out.store) /\ (AllNamed(store) => AllNamed(out.store)),
         UNCHANGED call,
         NEW p \in Procs, NEW h, fd' = [fd EXCEPT ![p] = h] \/ fd' = fd,
         FdOK(out.store, h), h # NoFile => Leads(out.store, h)
  PROVE  StepOK
<1>1. store' = out.store /\ status' \in {"running"} \cup Fatal
  BY DEF Ran, Fatal, IInv
<1>2. DOMAIN call = Procs /\ DOMAIN fd = Procs
  BY DEF IInv
<1>3. DOMAIN fd' = Procs /\ \A q \in Procs : fd'[q] = fd[q] \/ fd'[q] = h
  BY <1>2
<1> QED BY <1>1, <1>2, <1>3 DEF StepOK

LEMMA StoreOnly ==
  ASSUME IInv, NEW out, Ran(out),
         TreeOK(out.store), Follows(store, out.store),
         "utimes_dir" \notin Calls =>
           Keeps(store, out.store) /\ (AllNamed(store) => AllNamed(out.store)),
         UNCHANGED <<call, fd>>, NEW p \in Procs
  PROVE  StepOK
<1>1. FdOK(out.store, NoFile)
  BY NoFileOK
<1> QED BY <1>1, StoreStep

\* The two kinds of empty inode.
LEMMA EmptyNodes ==
  /\ EmptyNode(T_FILE) \in Nodes /\ EmptyNode(T_FILE).type # T_DIR
  /\ EmptyNode(T_DIR) \in Nodes /\ EmptyNode(T_DIR).data = <<>>
<1>1. <<>> \in Seq(Bytes) /\ T_FILE # T_DIR
  BY DEF T_FILE, T_DIR
<1>2. <<>> \in Texts
  <2>1. <<>> \in Seq(Entries) /\ Text(<<>>) = <<>>
    BY DEF Text
  <2> QED BY <2>1 DEF Texts
<1> QED BY <1>1, <1>2 DEF Nodes, EmptyNode

LEMMA CreateIs ==
  ASSUME TreeOK(store), NEW dir \in Folders(store), NEW name \in Names, CanMake(dir, name)
  PROVE  /\ create(store, dir, name) = OK(Made(store, dir, name, EmptyNode(T_FILE)))
         /\ mkdir(store, dir, name) = OK(Made(store, dir, name, EmptyNode(T_DIR)))
BY Created DEF CanMake, create, mkdir, TreeOK

\* fuseserver_mknod, fuseserver_mkdir and fuseserver_symlink
LEMMA MknodStep ==
  ASSUME IInv, NEW p \in Procs, NEW dir \in Folders(store), NEW name \in Names,
         Mknod(p, dir, name)
  PROVE  StepOK
<1> DEFINE t == Made(store, dir, name, EmptyNode(T_FILE))
<1>1. /\ TreeOK(store) /\ CanMake(dir, name) /\ UNCHANGED <<call, fd>>
      /\ Ran(create(store, dir, name))
  BY DEF IInv, TreeOK, Mknod
<1>2. create(store, dir, name) = OK(t)
  BY <1>1, CreateIs
<1>3. TreeOK(t) /\ Follows(store, t) /\ Keeps(store, t) /\ (AllNamed(store) => AllNamed(t))
  BY <1>1, EmptyNodes, MakeIs
<1> HIDE DEF t
<1>4. OK(t).store = t
  BY DEF OK
<1> QED BY <1>1, <1>2, <1>3, <1>4, StoreOnly

LEMMA MkdirStep ==
  ASSUME IInv, NEW p \in Procs, NEW dir \in Folders(store), NEW name \in Names,
         Mkdir(p, dir, name)
  PROVE  StepOK
<1> DEFINE t == Made(store, dir, name, EmptyNode(T_DIR))
<1>1. /\ TreeOK(store) /\ CanMake(dir, name) /\ UNCHANGED <<call, fd>>
      /\ Ran(mkdir(store, dir, name))
  BY DEF IInv, TreeOK, Mkdir
<1>2. mkdir(store, dir, name) = OK(t)
  BY <1>1, CreateIs
<1>3. TreeOK(t) /\ Follows(store, t) /\ Keeps(store, t) /\ (AllNamed(store) => AllNamed(t))
  BY <1>1, EmptyNodes, MakeIs
<1> HIDE DEF t
<1>4. OK(t).store = t
  BY DEF OK
<1> QED BY <1>1, <1>2, <1>3, <1>4, StoreOnly

LEMMA SymlinkStep ==
  ASSUME IInv, NEW p \in Procs, NEW dir \in Folders(store), NEW name \in Names,
         NEW link \in Targets, Symlink(p, dir, name, link)
  PROVE  StepOK
<1> DEFINE node == [type |-> T_SYMLINK, data |-> link]
           t == Made(store, dir, name, node)
<1>1. /\ TreeOK(store) /\ CanMake(dir, name) /\ UNCHANGED <<call, fd>>
      /\ Ran(symlink(store, dir, link, name))
  BY DEF IInv, TreeOK, Symlink
<1>2. symlink(store, dir, link, name) = OK(t)
  BY <1>1, Linked DEF TreeOK
<1>3. node \in Nodes /\ node.type # T_DIR
  BY DEF Nodes, T_SYMLINK, T_DIR
<1> HIDE DEF node
<1>4. TreeOK(t) /\ Follows(store, t) /\ Keeps(store, t) /\ (AllNamed(store) => AllNamed(t))
  BY <1>1, <1>3, MakeIs
<1> HIDE DEF t
<1>5. OK(t).store = t
  BY DEF OK
<1> QED BY <1>1, <1>2, <1>4, <1>5, StoreOnly

\* fuseserver_create: the process has the new file open.
LEMMA CreatStep ==
  ASSUME IInv, NEW p \in Procs, NEW dir \in Folders(store), NEW name \in Names,
         Creat(p, dir, name)
  PROVE  StepOK
<1> DEFINE t == Made(store, dir, name, EmptyNode(T_FILE))
           h == [dir |-> dir, name |-> name, ino |-> t.inum]
           out == create(store, dir, name)
<1>1. /\ TreeOK(store) /\ CanMake(dir, name) /\ UNCHANGED call /\ Ran(out)
      /\ fd' = [fd EXCEPT ![p] = [dir |-> dir, name |-> name, ino |-> out.store.inum]]
  BY DEF IInv, TreeOK, Creat
<1>2. out = OK(t)
  BY <1>1, CreateIs
<1>3. /\ TreeOK(t) /\ Follows(store, t) /\ Keeps(store, t) /\ (AllNamed(store) => AllNamed(t))
      /\ Grows(store, t, dir, name)
  BY <1>1, EmptyNodes, MakeIs
<1>4. t.extents[t.inum] = EmptyNode(T_FILE)
  <2>1. dir # store.inum + 1
    BY <1>1, StoreIs DEF TreeOK, Folders
  <2> QED BY <2>1 DEF Made
<1> HIDE DEF t
<1>5. out.store = t /\ out.status = "OK"
  BY <1>2 DEF OK
<1> HIDE DEF out
<1>6. /\ t.inum \in Live(t) /\ t.inum \in Nat /\ dir \in Folders(t) /\ dir \in Nat
      /\ t.inum \in 1 .. t.inum
  <2>1. StoreOK(t) /\ t.inum \in Live(t) /\ dir \in Folders(t)
    BY <1>3 DEF TreeOK, Grows
  <2> QED BY <2>1, StoreIs DEF Folders
<1>7. isfile(t, t.inum)
  BY <1>3, <1>4, <1>6, KindIs DEF EmptyNode, TreeOK
<1>8. \E k \in DOMAIN readdir(t, dir) : readdir(t, dir)[k] = [name |-> name, inum |-> t.inum]
  <2> DEFINE e == [name |-> name, inum |-> t.inum]
             list == readdir(store, dir)
  <2>1. readdir(t, dir) = Append(list, e) /\ list \in Seq(Entries)
    BY <1>1, <1>3, FolderIs DEF TreeOK, Grows
  <2> HIDE DEF e, list
  <2>2. Len(list) + 1 \in DOMAIN Append(list, e) /\ Append(list, e)[Len(list) + 1] = e
    BY <2>1
  <2> QED BY <2>1, <2>2 DEF e
<1>9. h \in Opened /\ h.dir = dir /\ h.name = name /\ h.ino = t.inum
  BY <1>6 DEF Opened
<1>10. fd' = [fd EXCEPT ![p] = h]
  BY <1>1, <1>5
<1> HIDE DEF h
<1>11. FdOK(t, h) /\ Leads(t, h)
  BY <1>6, <1>7, <1>8, <1>9 DEF FdOK, HandleOK, Leads
<1> QED BY <1>1, <1>3, <1>5, <1>10, <1>11, StoreStep

\* A listing that need not show an entry any more is as good as before.
LEMMA LessToStay ==
  ASSUME NEW s, NEW c, CallOK(s, c), c.op = "getdents", NEW gone
  PROVE  /\ CallOK(s, [c EXCEPT !.stay = @ \ gone])
         /\ [c EXCEPT !.stay = @ \ gone].op = "getdents"
<1> DEFINE x == [c EXCEPT !.stay = @ \ gone]
<1>1. /\ c \in [op : Listings, dir : Nat, off : Nat,
                listed : Seq(Items), stay : SUBSET Entries]
      /\ c.op \in Listings
  BY PendingIs DEF CallOK, Listings
<1>2. /\ x.op = c.op /\ x.dir = c.dir /\ x.off = c.off /\ x.listed = c.listed
      /\ x.stay = c.stay \ gone
      /\ x = [op |-> c.op, dir |-> c.dir, off |-> c.off, listed |-> c.listed,
              stay |-> c.stay \ gone]
  <2>1. x = [op |-> c.op, dir |-> c.dir, off |-> c.off, listed |-> c.listed,
             stay |-> c.stay \ gone]
    <3> DEFINE seqs == Seq(Items)
               sets == SUBSET Entries
    <3>1. c \in [op : Listings, dir : Nat, off : Nat, listed : seqs, stay : sets]
      BY <1>1
    <3> HIDE DEF seqs, sets
    <3> QED BY <3>1
  <2> HIDE DEF x
  <2> QED BY <2>1
<1>3. x.stay \in SUBSET Entries
  BY <1>1, <1>2
<1>4. x \in Pending
  BY <1>1, <1>2, <1>3, ListingIs
<1> HIDE DEF x
<1>5. c.dir \in Folders(s) /\ ListingOK(s, c)
  BY <1>1 DEF CallOK
<1>6. ListingOK(s, x)
  BY <1>2, <1>5 DEF ListingOK
<1>7. x.op = "getdents"
  BY <1>2
<1>8. CallOK(s, x)
  BY <1>2, <1>4, <1>5, <1>6, <1>7 DEF CallOK
<1> QED BY <1>7, <1>8 DEF x

\* fuseserver_unlink
LEMMA UnlinkStep ==
  ASSUME IInv, NEW p \in Procs, NEW dir \in Folders(store), NEW name \in Names,
         Unlink(p, dir, name)
  PROVE  StepOK
<1> DEFINE i == lookup(store, dir, name)
           out == unlink(store, dir, name)
           gone == {[name |-> name, inum |-> i]}
<1>1. /\ TreeOK(store) /\ found(store, dir, name) /\ ~ isdir(store, i) /\ UNCHANGED fd
      /\ Ran(out)
      /\ call' = [q \in Procs |-> IF call[q].op = "getdents"
                                  THEN [call[q] EXCEPT !.stay = @ \ gone] ELSE call[q]]
  BY DEF IInv, TreeOK, Unlink
<1>2. /\ StoreOK(out.store)
      /\ Shrinks(store, out.store, dir, First(readdir(store, dir), name))
  BY <1>1, UnlinkShrinks DEF TreeOK
<1> HIDE DEF out, i, gone
<1>3. /\ TreeOK(out.store) /\ Follows(store, out.store) /\ Keeps(store, out.store)
      /\ AllNamed(store) => AllNamed(out.store)
  BY <1>1, <1>2, ShrinkingIs
<1>4. store' = out.store /\ status' \in {"running"} \cup Fatal
  BY <1>1 DEF Ran, IInv
<1>5. ASSUME NEW q \in Procs
      PROVE  \/ call'[q] = call[q]
             \/ /\ CallOK(store', call'[q])
                /\ call'[q].op = "opening" => Leads(store', call'[q])
  <2>1. CASE call[q].op # "getdents"
    BY <1>1, <2>1
  <2>2. CASE call[q].op = "getdents"
    <3>1. CallOK(store', call[q])
      BY <1>1, <1>3, <1>4, HeldStays DEF IInv, TreeOK
    <3>2. call'[q] = [call[q] EXCEPT !.stay = @ \ gone]
      BY <1>1, <2>2
    <3>3. CallOK(store', call'[q]) /\ call'[q].op = "getdents"
      BY <2>2, <3>1, <3>2, LessToStay
    <3> QED BY <3>3
  <2> QED BY <2>1, <2>2
<1>6. DOMAIN call' = Procs /\ DOMAIN fd' = Procs /\ \A q \in Procs : fd'[q] = fd[q]
  BY <1>1 DEF IInv
<1> QED BY <1>3, <1>4, <1>5, <1>6 DEF StepOK

\* The open file is a file as long as it is alive.
LEMMA OpenFileIs ==
  ASSUME IInv, NEW p \in Procs, fd[p] # NoFile
  PROVE  fd[p].ino \in Live(store) => isfile(store, fd[p].ino)
BY DEF IInv, FdOK, HandleOK

\* fuseserver_write
LEMMA WriteStep ==
  ASSUME IInv, NEW p \in Procs, NEW data \in Data, NEW off \in Lengths, Write(p, data, off)
  PROVE  StepOK
<1> DEFINE out == write(store, fd[p].ino, data, off)
<1>1. Ran(out) /\ UNCHANGED <<call, fd>> /\ fd[p] # NoFile /\ TreeOK(store)
  BY DEF Write, IInv, TreeOK
<1>2. StoreOK(out.store) /\ Refills(store, out.store)
  BY <1>1, OpenFileIs, WriteRefills DEF TreeOK
<1>3. /\ TreeOK(out.store) /\ Follows(store, out.store) /\ Keeps(store, out.store)
      /\ AllNamed(store) => AllNamed(out.store)
  BY <1>1, <1>2, RewritingIs DEF Refills
<1> HIDE DEF out
<1> QED BY <1>1, <1>3, StoreOnly

\* fuseserver_setattr, for the size
LEMMA FtruncateStep ==
  ASSUME IInv, NEW p \in Procs, NEW n \in Lengths, Ftruncate(p, n)
  PROVE  StepOK
<1> DEFINE i == fd[p].ino
           out == setattr(store, i, n)
<1>1. Ran(out) /\ UNCHANGED <<call, fd>> /\ fd[p] # NoFile /\ TreeOK(store)
  BY DEF Ftruncate, IInv, TreeOK
<1>2. ~ isdir(store, i) /\ ~ issymlink(store, i)
  <2>1. i \in Live(store) => isfile(store, i)
    BY <1>1, OpenFileIs
  <2> HIDE DEF i
  <2> QED BY <1>1, <2>1, KindIs DEF TreeOK, T_DIR, T_FILE, T_SYMLINK
<1>3. n \in Nat
  BY DataAssumption
<1>4. StoreOK(out.store) /\ Rewrites(store, out.store) /\ Refills(store, out.store)
  BY <1>1, <1>2, <1>3, SetattrRewrites DEF TreeOK
<1>5. /\ TreeOK(out.store) /\ Follows(store, out.store) /\ Keeps(store, out.store)
      /\ AllNamed(store) => AllNamed(out.store)
  BY <1>1, <1>4, RewritingIs
<1> HIDE DEF out
<1> QED BY <1>1, <1>5, StoreOnly

\* fuseserver_setattr, for the times
LEMMA UtimesIs ==
  ASSUME NEW p \in Procs, NEW i, Utimes(p, i)
  PROVE  /\ Ran(setattr(store, i, 0)) /\ UNCHANGED <<call, fd>> /\ status = "running"
         /\ isdir(store, i) => "utimes_dir" \in Calls
         /\ issymlink(store, i) => "utimes_link" \in Calls
<1> DEFINE op == CASE isdir(store, i)     -> "utimes_dir"
                   [] issymlink(store, i) -> "utimes_link"
                   [] OTHER               -> "utimes"
<1>1. Makes(p, op) /\ Ran(setattr(store, i, 0)) /\ UNCHANGED <<call, fd>>
  BY DEF Utimes
<1>2. ~ (isdir(store, i) /\ issymlink(store, i))
  BY DEF isdir, issymlink, T_DIR, T_SYMLINK
<1>3. /\ isdir(store, i) => op = "utimes_dir"
      /\ issymlink(store, i) => op = "utimes_link"
  BY <1>2
<1> HIDE DEF op
<1> QED BY <1>1, <1>3 DEF Makes

LEMMA UtimesStep ==
  ASSUME IInv, NEW p \in Procs, NEW i \in Live(store), Utimes(p, i)
  PROVE  StepOK
<1> DEFINE out == setattr(store, i, 0)
<1>1. /\ Ran(out) /\ UNCHANGED <<call, fd>> /\ TreeOK(store)
      /\ "utimes_dir" \notin Calls => ~ isdir(store, i)
  BY UtimesIs DEF IInv, TreeOK
<1>2. /\ StoreOK(out.store) /\ Rewrites(store, out.store)
      /\ ~ isdir(store, i) => Refills(store, out.store)
  BY <1>1, SetattrRewrites DEF TreeOK
<1>3. /\ TreeOK(out.store) /\ Follows(store, out.store)
      /\ "utimes_dir" \notin Calls =>
           Keeps(store, out.store) /\ (AllNamed(store) => AllNamed(out.store))
  BY <1>1, <1>2, RewritingIs
<1> HIDE DEF out
<1> QED BY <1>1, <1>3, StoreOnly

\* opendir
LEMMA ListStep ==
  ASSUME IInv, NEW p \in Procs, NEW dir \in Folders(store), List(p, dir)
  PROVE  StepOK
<1> DEFINE list == readdir(store, dir)
           c == [op |-> "getdents", dir |-> dir, off |-> 0, listed |-> <<>>,
                 stay |-> Range(list)]
<1>1. /\ UNCHANGED <<store, status, fd>> /\ call' = [call EXCEPT ![p] = c]
      /\ status \in {"running"} \cup Fatal /\ StoreOK(store)
  BY DEF List, Goes, IInv
<1>2. list \in Seq(Entries) /\ dir \in Nat
  BY <1>1, FolderIs, StoreIs
<1> HIDE DEF list
<1>3. Range(list) \in SUBSET Entries
  BY <1>2 DEF Range
<1>4. /\ c.op = "getdents" /\ c.dir = dir /\ c.off = 0 /\ c.listed = <<>>
      /\ c.stay = Range(list)
  OBVIOUS
<1>5. <<>> \in Seq(Items) /\ "getdents" \in Listings /\ 0 \in Nat
  BY DEF Listings
<1>6. c \in Pending
  BY <1>2, <1>3, <1>5, ListingIs, Zenon
<1> HIDE DEF c
<1>7. ListingOK(store, c)
  BY <1>4 DEF ListingOK, Distinct, Apart
<1>8. CallOK(store, c) /\ c.op # "opening"
  BY <1>4, <1>5, <1>6, <1>7 DEF CallOK
<1> QED BY <1>1, <1>8, QuietCall

\* Some entries of a listing, from one to another.
Part(list, first, last, some) ==
  /\ first \in DOMAIN list /\ last \in DOMAIN list /\ first <= last
  /\ some = SubSeq(list, first, last)

LEMMA SomeIs ==
  ASSUME NEW list \in Seq(Entries), NEW first, NEW last, NEW some,
         Part(list, first, last, some)
  PROVE  /\ some \in Seq(Entries)
         /\ \A j \in 1 .. Len(some) :
              /\ first + (j - 1) \in first .. last
              /\ some[j] = list[first + (j - 1)]
<1>1. /\ Len(list) \in Nat /\ first \in 1 .. Len(list) /\ last \in 1 .. Len(list)
      /\ \A j \in 1 .. Len(list) : list[j] \in Entries
      /\ first <= last /\ some = SubSeq(list, first, last)
  BY DEF Part
<1>2. \A j \in first .. last : list[j] \in Entries
  BY <1>1
<1>3. /\ some \in Seq(Entries)
      /\ Len(some) = IF first <= last THEN last - first + 1 ELSE 0
      /\ \A j \in 1 .. last - first + 1 : some[j] = list[first + j - 1]
  BY <1>1, <1>2, SubSeqProperties
<1>4. ASSUME NEW j \in 1 .. Len(some)
      PROVE  first + (j - 1) \in first .. last /\ some[j] = list[first + (j - 1)]
  <2>1. /\ j \in 1 .. last - first + 1 /\ first + j - 1 = first + (j - 1)
        /\ first + (j - 1) \in first .. last
    BY <1>1, <1>3
  <2> QED BY <1>3, <2>1
<1> QED BY <1>3, <1>4

\* What is listed with a reply, and where the reply ends.
Reply(list, off, old, first, last, new, end) ==
  /\ first \in DOMAIN list /\ last \in DOMAIN list /\ first <= last
  /\ dirbuf_size(list)[first - 1] = off /\ dirbuf_size(list)[last] = end
  /\ new = old \o SubSeq(list, first, last)

\* What comes next in the listing was not listed, and is listed from now on.
LEMMA ListMore ==
  ASSUME NEW list \in Seq(Entries),
         Distinct(list), NEW off \in Nat, NEW old \in Seq(Items),
         Distinct(old), Apart(list, off, old),
         NEW first, NEW last, NEW new, NEW end,
         Reply(list, off, old, first, last, new, end)
  PROVE  /\ new \in Seq(Items) /\ end \in Nat
         /\ \A k \in DOMAIN new : \/ \E l \in DOMAIN old : new[k] = old[l]
                                  \/ \E l \in DOMAIN list : new[k] = list[l]
         /\ Distinct(new) /\ Apart(list, end, new)
<1> DEFINE m == Len(old)
           some == SubSeq(list, first, last)
           n == Len(some)
           At(k) == first + ((k - m) - 1)
<1>0. /\ first \in DOMAIN list /\ last \in DOMAIN list /\ first <= last
      /\ Begins(list, first) = off /\ dirbuf_size(list)[last] = end /\ new = old \o some
  BY DEF Reply, Begins
<1>1. /\ some \in Seq(Entries)
      /\ \A j \in 1 .. n : first + (j - 1) \in first .. last /\ some[j] = list[first + (j - 1)]
  <2>1. Part(list, first, last, some)
    BY <1>0 DEF Part
  <2> HIDE DEF some, At
  <2> QED BY <2>1, SomeIs
<1> HIDE DEF some
<1>2. some \in Seq(Items)
  <2>1. \A e \in Entries : e \in Items
    BY DEF Entries, Items
  <2> QED BY <1>1, <2>1
<1>3. old \in Seq(Items)
  OBVIOUS
<1>4. /\ m \in Nat /\ n \in Nat /\ new \in Seq(Items) /\ Len(new) = m + n
      /\ DOMAIN old = 1 .. m /\ DOMAIN new = 1 .. m + n /\ DOMAIN list = 1 .. Len(list)
      /\ Len(list) \in Nat
  BY <1>0, <1>2, <1>3
\* The entries of the reply begin at the old offset or behind it, and those that
\* begin at the new one or behind it come after them.
<1>5. \A j \in first .. last : j \in DOMAIN list /\ Begins(list, j) >= off
  <2>1. SUFFICES ASSUME NEW j \in first .. last
                 PROVE  j \in DOMAIN list /\ Begins(list, j) >= off
    OBVIOUS
  <2>2. j \in DOMAIN list
    BY <1>0, <1>4
  <2>3. CASE j = first
    BY <1>0, <2>2, <2>3
  <2>4. CASE j # first
    <3>1. first - 1 \in 0 .. Len(list) /\ j - 1 \in 0 .. Len(list) /\ first - 1 < j - 1
      BY <1>0, <1>4, <2>2, <2>4
    <3>2. Begins(list, first) < Begins(list, j)
      BY <3>1, SizeRises DEF Begins
    <3>3. Begins(list, j) \in Nat
      BY <2>2, BeginsIs
    <3> QED BY <1>0, <2>2, <3>2, <3>3
  <2> QED BY <2>3, <2>4
<1>6. \A j \in DOMAIN list : Begins(list, j) >= end => j \notin first .. last
  <2>1. SUFFICES ASSUME NEW j \in DOMAIN list, j \in first .. last
                 PROVE  ~ (Begins(list, j) >= end)
    OBVIOUS
  <2>2. j - 1 \in 0 .. Len(list) /\ last \in 0 .. Len(list) /\ j - 1 < last
    BY <1>0, <1>4, <2>1
  <2>3. Begins(list, j) < end
    BY <1>0, <2>2, SizeRises DEF Begins
  <2>4. Begins(list, j) \in Nat /\ end \in Nat
    BY <1>0, <2>2, BeginsIs, SizeIs
  <2> QED BY <2>3, <2>4
\* What is at place k is old, or is in the reply.
<1>7. ASSUME NEW k \in 1 .. m + n
      PROVE  \/ k \in 1 .. m /\ new[k] = old[k]
             \/ k > m /\ At(k) \in first .. last /\ new[k] = list[At(k)]
  <2>1. new[k] = IF k <= m THEN old[k] ELSE some[k - m]
    BY <1>0, <1>2, <1>3, <1>4, ConcatProperties
  <2>2. CASE k <= m
    BY <1>4, <2>1, <2>2
  <2>3. CASE ~ (k <= m)
    <3>1. k - m \in 1 .. n
      BY <1>4, <2>3
    <3>2. new[k] = list[At(k)] /\ At(k) \in first .. last
      BY <1>1, <2>1, <2>3, <3>1
    <3> QED BY <1>4, <2>3, <3>2
  <2> QED BY <2>2, <2>3
<1>8. ASSUME NEW k \in 1 .. m + n, NEW l \in 1 .. m + n, k > m, l > m, At(k) = At(l)
      PROVE  k = l
  BY <1>0, <1>4, <1>8
<1> HIDE DEF m, n, At
<1>9. ASSUME NEW k \in 1 .. m + n, NEW l \in 1 .. m + n, new[k] = new[l]
      PROVE  k = l
  <2>1. CASE k \in 1 .. m /\ new[k] = old[k]
    <3>1. CASE l \in 1 .. m /\ new[l] = old[l]
      BY <1>4, <1>9, <2>1, <3>1 DEF Distinct
    <3>2. CASE At(l) \in first .. last /\ new[l] = list[At(l)]
      BY <1>4, <1>5, <1>9, <2>1, <3>2 DEF Apart
    <3> QED BY <1>7, <3>1, <3>2
  <2>2. CASE k > m /\ At(k) \in first .. last /\ new[k] = list[At(k)]
    <3>1. CASE l \in 1 .. m /\ new[l] = old[l]
      BY <1>4, <1>5, <1>9, <2>2, <3>1 DEF Apart
    <3>2. CASE l > m /\ At(l) \in first .. last /\ new[l] = list[At(l)]
      <4>1. At(k) = At(l)
        BY <1>5, <1>9, <2>2, <3>2 DEF Distinct
      <4> QED BY <1>8, <2>2, <3>2, <4>1
    <3> QED BY <1>7, <3>1, <3>2
  <2> QED BY <1>7, <2>1, <2>2
<1>10. ASSUME NEW j \in DOMAIN list, NEW k \in 1 .. m + n, Begins(list, j) >= end
       PROVE  list[j] # new[k]
  <2>1. j \notin first .. last
    BY <1>6, <1>10
  <2>2. CASE k \in 1 .. m /\ new[k] = old[k]
    <3>1. Begins(list, j) >= off
      <4>1. first - 1 \in 0 .. Len(list) /\ last \in 0 .. Len(list) /\ first - 1 < last
        BY <1>0, <1>4
      <4>2. off < end
        BY <1>0, <4>1, SizeRises DEF Begins
      <4>3. end \in Nat /\ Begins(list, j) \in Nat
        BY <1>0, <4>1, BeginsIs, SizeIs
      <4> QED BY <1>10, <4>2, <4>3
    <3> QED BY <1>4, <2>2, <3>1 DEF Apart
  <2>3. CASE At(k) \in first .. last /\ new[k] = list[At(k)]
    BY <1>5, <2>1, <2>3 DEF Distinct
  <2> QED BY <1>7, <2>2, <2>3
<1>11. \A k \in DOMAIN new : \/ \E l \in DOMAIN old : new[k] = old[l]
                             \/ \E l \in DOMAIN list : new[k] = list[l]
  BY <1>4, <1>5, <1>7
<1>12. end \in Nat
  <2>1. last \in 0 .. Len(list)
    BY <1>0, <1>4
  <2> QED BY <1>0, <2>1, SizeIs
<1>13. Distinct(new)
  BY <1>4, <1>9 DEF Distinct
<1>14. Apart(list, end, new)
  BY <1>4, <1>10 DEF Apart
<1> QED BY <1>4, <1>11, <1>12, <1>13, <1>14

\* The listing has ended, or says nothing any more.
LEMMA ListEnds ==
  ASSUME IInv, NEW p \in Procs, call[p].op = "getdents", UNCHANGED <<store, status, fd>>,
         NEW op \in {"listed", "garbled"}, call' = [call EXCEPT ![p] = [call[p] EXCEPT !.op = op]]
  PROVE  StepOK
<1> DEFINE c == call[p]
           done == [c EXCEPT !.op = op]
           seqs == Seq(Items)
           sets == SUBSET Entries
<1>1. /\ status \in {"running"} \cup Fatal /\ CallOK(store, c)
      /\ c.op \in Listings /\ op \in Listings
  BY DEF IInv, Listings
<1>2. c \in [op : Listings, dir : Nat, off : Nat, listed : seqs, stay : sets]
  BY <1>1, PendingIs DEF CallOK
<1>3. c.dir \in Folders(store) /\ ListingOK(store, c)
  BY <1>1 DEF CallOK
<1> HIDE DEF c, seqs, sets
<1>4. done = [op |-> op, dir |-> c.dir, off |-> c.off, listed |-> c.listed, stay |-> c.stay]
  BY <1>2
<1>5. /\ done.op = op /\ done.dir = c.dir /\ done.off = c.off
      /\ done.listed = c.listed /\ done.stay = c.stay
  <2> HIDE DEF done
  <2> QED BY <1>4
<1>6. done \in Pending
  <2>1. c.dir \in Nat /\ c.off \in Nat /\ c.listed \in Seq(Items) /\ c.stay \in SUBSET Entries
    BY <1>2 DEF seqs, sets
  <2> HIDE DEF done
  <2> QED BY <1>1, <1>4, <2>1, ListingIs
<1>7. call' = [call EXCEPT ![p] = done]
  BY DEF c
<1> HIDE DEF done
<1>8. ListingOK(store, done)
  BY <1>3, <1>5 DEF ListingOK
<1>9. CallOK(store, done) /\ done.op # "opening"
  BY <1>1, <1>3, <1>5, <1>6, <1>8 DEF CallOK
<1> QED BY <1>1, <1>7, <1>9, QuietCall

\* A reply with entries.
LEMMA ListGoesOn ==
  ASSUME IInv, NEW p \in Procs, call[p].op = "getdents", UNCHANGED <<store, status, fd>>,
         NEW first, NEW last, NEW new, NEW off,
         Reply(readdir(store, call[p].dir), call[p].off, call[p].listed, first, last, new, off),
         call' = [call EXCEPT ![p] = [call[p] EXCEPT !.off = off, !.listed = new]]
  PROVE  StepOK
<1> DEFINE c == call[p]
           list == readdir(store, c.dir)
           more == [c EXCEPT !.off = off, !.listed = new]
           from == c.off
           old  == c.listed
           seqs == Seq(Items)
           sets == SUBSET Entries
<1>1. /\ status \in {"running"} \cup Fatal /\ CallOK(store, c) /\ c.op = "getdents"
      /\ StoreOK(store) /\ AllLive(store) /\ Unique(store)
      /\ c.op \in Listings
  BY DEF IInv, Listings
<1>2. c \in [op : Listings, dir : Nat, off : Nat, listed : seqs, stay : sets]
  BY <1>1, PendingIs DEF CallOK
<1>3. c.dir \in Folders(store) /\ ListingOK(store, c)
  BY <1>1 DEF CallOK
<1>4. list \in Seq(Entries) /\ Distinct(list)
  BY <1>1, <1>3, FolderIs DEF Unique, Distinct
<1>5. Reply(list, from, old, first, last, new, off)
  OBVIOUS
<1>6. call' = [call EXCEPT ![p] = more]
  OBVIOUS
<1> HIDE DEF c, list, seqs, sets
<1>7. more = [op |-> c.op, dir |-> c.dir, off |-> off, listed |-> new, stay |-> c.stay]
  <2> DEFINE part == [c EXCEPT !.off = off]
  <2>1. c = [op |-> c.op, dir |-> c.dir, off |-> c.off, listed |-> c.listed, stay |-> c.stay]
    BY <1>2
  <2>2. part = [op |-> c.op, dir |-> c.dir, off |-> off, listed |-> c.listed, stay |-> c.stay]
    BY <2>1
  <2>3. more = [part EXCEPT !.listed = new]
    BY <2>1
  <2> HIDE DEF part, more
  <2> QED BY <2>2, <2>3
<1>8. /\ more.op = "getdents" /\ more.dir = c.dir /\ more.off = off
      /\ more.listed = new /\ more.stay = c.stay
  <2> HIDE DEF more
  <2> QED BY <1>1, <1>7
<1>9. /\ from \in Nat /\ old \in Seq(Items)
      /\ \A k \in DOMAIN old : old[k].inum <= store.inum
      /\ Distinct(old) /\ Apart(list, from, old)
  BY <1>1, <1>2, <1>3 DEF ListingOK, seqs, list
<1> HIDE DEF from, old, more
<1>10. /\ new \in Seq(Items) /\ off \in Nat
       /\ \A k \in DOMAIN new : \/ \E l \in DOMAIN old : new[k] = old[l]
                                \/ \E l \in DOMAIN list : new[k] = list[l]
       /\ Distinct(new) /\ Apart(list, off, new)
  BY <1>4, <1>5, <1>9, ListMore
<1>11. \A l \in DOMAIN list : list[l].inum <= store.inum
  <2>1. Live(store) \subseteq 1 .. store.inum /\ store.inum \in Nat
    BY <1>1, StoreIs
  <2>2. \A l \in DOMAIN list : list[l].inum \in 1 .. store.inum
    BY <1>1, <1>3, <2>1 DEF AllLive, list
  <2> QED BY <2>1, <2>2
<1>12. \A k \in DOMAIN new : new[k].inum <= store.inum
  BY <1>9, <1>10, <1>11
<1>13. more \in Pending
  <2>1. c.dir \in Nat /\ c.stay \in SUBSET Entries
    BY <1>2 DEF sets
  <2> QED BY <1>1, <1>7, <1>10, <2>1, ListingIs
<1>14. ListingOK(store, more)
  BY <1>8, <1>10, <1>12 DEF ListingOK, list
<1>15. CallOK(store, more) /\ more.op # "opening"
  BY <1>3, <1>8, <1>13, <1>14 DEF CallOK
<1> QED BY <1>1, <1>6, <1>15, QuietCall

\* fuseserver_readdir
LEMMA ReadDirStep ==
  ASSUME IInv, NEW p \in Procs, ReadDir(p)
  PROVE  StepOK
<1> DEFINE list == readdir(store, call[p].dir)
           size == dirbuf_size(list)
<1>1. /\ UNCHANGED <<store, status, fd>> /\ call[p].op = "getdents"
      /\ \/ call' = [call EXCEPT ![p] = [call[p] EXCEPT !.op = "listed"]]
         \/ call' = [call EXCEPT ![p] = [call[p] EXCEPT !.op = "garbled"]]
         \/ \E first, last \in DOMAIN list :
              /\ first <= last /\ size[first - 1] = call[p].off
              /\ call' = [call EXCEPT ![p] =
                            [call[p] EXCEPT !.off    = size[last],
                                            !.listed = @ \o SubSeq(list, first, last)]]
  BY DEF ReadDir, Waits, Goes
<1>2. CASE \/ call' = [call EXCEPT ![p] = [call[p] EXCEPT !.op = "listed"]]
           \/ call' = [call EXCEPT ![p] = [call[p] EXCEPT !.op = "garbled"]]
  BY <1>1, <1>2, ListEnds
<1>3. ASSUME NEW first \in DOMAIN list, NEW last \in DOMAIN list,
             first <= last, size[first - 1] = call[p].off,
             call' = [call EXCEPT ![p] =
                        [call[p] EXCEPT !.off    = size[last],
                                        !.listed = @ \o SubSeq(list, first, last)]]
      PROVE  StepOK
  <2> DEFINE new == call[p].listed \o SubSeq(list, first, last)
             off == size[last]
  <2>1. Reply(list, call[p].off, call[p].listed, first, last, new, off)
    BY <1>3 DEF Reply
  <2>2. call' = [call EXCEPT ![p] = [call[p] EXCEPT !.off = off, !.listed = new]]
    <3> DEFINE part == [call[p] EXCEPT !.off = off]
    <3>1. part.listed = call[p].listed
      OBVIOUS
    <3>2. [part EXCEPT !.listed = @ \o SubSeq(list, first, last)] = [part EXCEPT !.listed = new]
      BY <3>1
    <3> QED BY <1>3, <3>2
  <2> HIDE DEF new, off
  <2> QED BY <1>1, <2>1, <2>2, ListGoesOn
<1> QED BY <1>1, <1>2, <1>3

LEMMA CloseDirStep ==
  ASSUME IInv, NEW p \in Procs, CloseDir(p)
  PROVE  StepOK
<1>1. /\ UNCHANGED <<store, status, fd>> /\ call' = [call EXCEPT ![p] = Idle]
      /\ status \in {"running"} \cup Fatal
  BY DEF CloseDir, Goes, IInv
<1> QED BY <1>1, IdleOK, QuietCall

LEMMA AnyStep ==
  ASSUME IInv, Next
  PROVE  StepOK
<1>1. PICK p \in Procs :
        \/ \E dir \in Dirs, name \in Names :
             \/ Open(p, dir, name)
             \/ Creat(p, dir, name)
             \/ Mknod(p, dir, name)
             \/ Mkdir(p, dir, name)
             \/ \E link \in Targets : Symlink(p, dir, name, link)
             \/ Unlink(p, dir, name)
        \/ OpenInode(p) \/ ReadLink(p) \/ WalkOn(p) \/ Close(p)
        \/ \E off \in Lengths : ReadSize(p, off)
        \/ Read(p)
        \/ \E data \in Data, off \in Lengths : Write(p, data, off)
        \/ \E n \in Lengths : Ftruncate(p, n)
        \/ \E i \in Live(store) : Utimes(p, i)
        \/ \E dir \in Dirs : List(p, dir)
        \/ ReadDir(p) \/ CloseDir(p)
  BY DEF Next
<1>2. Dirs = Folders(store)
  BY DEF Dirs, Folders
<1>3. ASSUME NEW dir \in Dirs, NEW name \in Names, Open(p, dir, name)
      PROVE  StepOK
  BY <1>2, <1>3, WalkStep DEF Open
<1>4. ASSUME NEW dir \in Dirs, NEW name \in Names,
             \/ Creat(p, dir, name) \/ Mknod(p, dir, name) \/ Mkdir(p, dir, name)
             \/ \E link \in Targets : Symlink(p, dir, name, link)
      PROVE  StepOK
  BY <1>2, <1>4, CreatStep, MknodStep, MkdirStep, SymlinkStep
<1>5. ASSUME NEW dir \in Dirs, NEW name \in Names, Unlink(p, dir, name)
      PROVE  StepOK
  BY <1>2, <1>5, UnlinkStep
<1>6. CASE OpenInode(p) \/ ReadLink(p) \/ WalkOn(p) \/ Close(p)
  BY <1>6, OpenInodeStep, ReadLinkStep, WalkOnStep, CloseStep
<1>7. CASE (\E off \in Lengths : ReadSize(p, off)) \/ Read(p)
  BY <1>7, ReadSizeStep, ReadFileStep
<1>8. CASE \/ \E data \in Data, off \in Lengths : Write(p, data, off)
           \/ \E n \in Lengths : Ftruncate(p, n)
           \/ \E i \in Live(store) : Utimes(p, i)
  BY <1>8, WriteStep, FtruncateStep, UtimesStep
<1>9. CASE (\E dir \in Dirs : List(p, dir)) \/ ReadDir(p) \/ CloseDir(p)
  BY <1>2, <1>9, ListStep, ReadDirStep, CloseDirStep
<1> QED BY <1>1, <1>3, <1>4, <1>5, <1>6, <1>7, <1>8, <1>9

-----------------------------------------------------------------------------
(* The theorems.                                                           *)

\* At the start there is the empty root.
LEMMA InitOK ==
  ASSUME Init
  PROVE  IInv /\ LInv
<1> DEFINE f == [i \in {1} |-> [type |-> T_DIR, data |-> <<>>]]
<1>1. /\ store = [inum |-> 1, extents |-> f] /\ status = "running"
      /\ call = [p \in Procs |-> Idle] /\ fd = [p \in Procs |-> NoFile]
  BY DEF Init
<1>2. f \in [{1} -> Nodes] /\ f[1] = EmptyNode(T_DIR) /\ {1} \subseteq 1 .. 1 /\ 1 \in 1 .. MAX_INUM
  BY EmptyNodes, CallsAssumption DEF EmptyNode
<1> HIDE DEF f
<1>3. StoreOK(store) /\ Live(store) = {1} /\ store.extents = f
  BY <1>1, <1>2, StoreMade
<1>4. \A c \in Folders(store) : readdir(store, c) = <<>>
  <2>1. SUFFICES ASSUME NEW c \in Folders(store) PROVE readdir(store, c) = <<>>
    OBVIOUS
  <2>2. c = 1
    BY <1>3 DEF Folders
  <2>3. ec_get(store, c) = <<>>
    BY <1>2, <1>3, <2>2 DEF ec_get, EmptyNode
  <2>4. <<>> \in Seq(Entries) /\ Text(<<>>) = <<>>
    BY DEF Text
  <2>5. isdir(store, c)
    BY DEF Folders
  <2> QED BY <2>3, <2>4, <2>5, ReadBack
<1>5. AllLive(store) /\ Unique(store)
  BY <1>4 DEF AllLive, Unique
<1>6. \A p \in Procs : call[p] = Idle /\ fd[p] = NoFile
  BY <1>1
<1>7. DOMAIN call = Procs /\ DOMAIN fd = Procs
  BY <1>1
<1>8. IInv
  BY <1>1, <1>3, <1>5, <1>6, <1>7, IdleOK, NoFileOK DEF IInv
<1>9. LInv
  BY <1>3, <1>6, IdleOK DEF LInv, AllNamed
<1> QED BY <1>8, <1>9

LEMMA EveryStep ==
  ASSUME IInv, [Next]_vars
  PROVE  StepOK
<1>1. CASE Next
  BY <1>1, AnyStep
<1>2. CASE UNCHANGED vars
  <2>1. /\ UNCHANGED <<store, call, fd>> /\ status' \in {"running"} \cup Fatal
        /\ TreeOK(store) /\ DOMAIN call = Procs /\ DOMAIN fd = Procs
    BY <1>2 DEF vars, IInv, TreeOK
  <2> QED BY <2>1, SameStore DEF StepOK
<1> QED BY <1>1, <1>2

\* The inductive invariant, whatever calls the processes make.
THEOREM Inductive == Spec => []IInv
<1>1. Init => IInv
  BY InitOK
<1>2. IInv /\ [Next]_vars => IInv'
  BY EveryStep, StepKeepsIInv
<1> QED BY <1>1, <1>2, PTL DEF Spec

\* And what holds besides if none of them sets the times of a directory.
LEMMA Leading ==
  ASSUME "utimes_dir" \notin Calls
  PROVE  Spec => [](IInv /\ LInv)
<1>1. Init => IInv /\ LInv
  BY InitOK
<1>2. (IInv /\ LInv) /\ [Next]_vars => (IInv /\ LInv)'
  BY EveryStep, StepKeepsIInv, StepKeepsLInv
<1> QED BY <1>1, <1>2, PTL DEF Spec

\* Every extent is well formed: the text of a directory is what its entries are
\* written as, a file holds bytes, a link a name or, once its times were
\* set, nothing (yfs_client::create, mkdir, symlink, unlink, write, setattr).
THEOREM TypeCorrect == Spec => []TypeOK
<1>1. IInv => TypeOK
  <2>1. SUFFICES ASSUME IInv PROVE TypeOK
    OBVIOUS
  <2>2. StoreOK(store)
    BY <2>1 DEF IInv
  <2>3. store.inum \in 1 .. MAX_INUM /\ Live(store) \subseteq 1 .. store.inum
    BY <2>2, StoreIs
  <2>4. ASSUME NEW i \in Live(store)
        PROVE  WellFormed(i)
    <3>1. /\ store.extents[i] \in Nodes
          /\ isdir(store, i) \/ isfile(store, i) \/ issymlink(store, i)
      BY <2>2, KindIs
    <3>2. /\ isdir(store, i) => ~ isfile(store, i) /\ ~ issymlink(store, i)
          /\ isfile(store, i) => ~ issymlink(store, i)
      BY DEF isdir, isfile, issymlink, T_DIR, T_FILE, T_SYMLINK
    <3>3. CASE isdir(store, i)
      <4>1. readdir(store, i) \in Seq(Entries) /\ ec_get(store, i) = Text(readdir(store, i))
        BY <2>2, <3>3, FolderIs DEF Folders
      <4> QED BY <3>2, <3>3, <4>1 DEF WellFormed, Entries
    <3>4. CASE isfile(store, i)
      <4>1. ec_get(store, i) \in Seq(Bytes)
        BY <2>2, <3>1, <3>4, KindIs, NodeIs DEF ec_get
      <4> QED BY <3>2, <3>4, <4>1 DEF WellFormed
    <3>5. CASE issymlink(store, i)
      <4>1. ec_get(store, i) \in Targets \cup {<<>>}
        BY <2>2, <3>1, <3>5, KindIs, NodeIs DEF ec_get
      <4> QED BY <3>2, <3>5, <4>1 DEF WellFormed
    <3> QED BY <3>1, <3>3, <3>4, <3>5
  <2>5. \A p \in Procs : call[p] \in Pending
    BY <2>1 DEF IInv, CallOK
  <2>6. \A p \in Procs : fd[p] \in {NoFile} \cup [dir : Nat, name : Names, ino : Nat]
    BY <2>1 DEF IInv, FdOK, Opened
  <2> QED BY <2>1, <2>3, <2>4, <2>5, <2>6 DEF TypeOK, IInv
<1> QED BY <1>1, Inductive, PTL

\* Where the entries are.
LEMMA PlacesAre ==
  /\ Dirs = Folders(store)
  /\ \A place \in Places : \E d \in Folders(store) : \E k \in DOMAIN readdir(store, d) :
       place = <<d, k>> /\ place[1] = d /\ place[2] = k /\ Entry(place) = readdir(store, d)[k]
  /\ \A d \in Folders(store) : \A k \in DOMAIN readdir(store, d) :
       <<d, k>> \in Places /\ Entry(<<d, k>>) = readdir(store, d)[k]
<1>1. Dirs = Folders(store)
  BY DEF Dirs, Folders
<1>2. ASSUME NEW place \in Places
      PROVE  \E d \in Folders(store) : \E k \in DOMAIN readdir(store, d) :
               /\ place = <<d, k>> /\ place[1] = d /\ place[2] = k
               /\ Entry(place) = readdir(store, d)[k]
  <2>1. PICK d \in Folders(store) : place \in {<<d, k>> : k \in DOMAIN readdir(store, d)}
    BY <1>1 DEF Places
  <2>2. PICK k \in DOMAIN readdir(store, d) : place = <<d, k>>
    BY <2>1
  <2>3. place[1] = d /\ place[2] = k
    BY <2>2
  <2> QED BY <2>2, <2>3 DEF Entry
<1>3. ASSUME NEW d \in Folders(store), NEW k \in DOMAIN readdir(store, d)
      PROVE  <<d, k>> \in Places /\ Entry(<<d, k>>) = readdir(store, d)[k]
  BY <1>1 DEF Places, Entry
<1> QED BY <1>1, <1>2, <1>3

\* No entry dangles: unlink takes the entry of the inode that it removes, and no
\* other entry names that inode.
THEOREM NothingDangles == Spec => []EntriesLive
<1>1. IInv => EntriesLive
  BY PlacesAre DEF IInv, AllLive, EntriesLive
<1> QED BY <1>1, Inductive, PTL

\* A directory holds a name once, and the tree names an inode once: create,
\* mkdir and symlink append only names that are not there, each with a number
\* that was never given out.
THEOREM NamesAreUnique == Spec => []NamedOnce
<1>1. IInv => NamedOnce
  <2>1. SUFFICES ASSUME IInv, NEW a \in Places, NEW b \in Places,
                        \/ a[1] = b[1] /\ Entry(a).name = Entry(b).name
                        \/ Entry(a).inum = Entry(b).inum
                 PROVE  a = b
    BY DEF NamedOnce
  <2>2. PICK c \in Folders(store) : \E k \in DOMAIN readdir(store, c) :
          a = <<c, k>> /\ a[1] = c /\ a[2] = k /\ Entry(a) = readdir(store, c)[k]
    BY PlacesAre
  <2>3. PICK k \in DOMAIN readdir(store, c) :
          a = <<c, k>> /\ a[1] = c /\ a[2] = k /\ Entry(a) = readdir(store, c)[k]
    BY <2>2
  <2>4. PICK d \in Folders(store) : \E l \in DOMAIN readdir(store, d) :
          b = <<d, l>> /\ b[1] = d /\ b[2] = l /\ Entry(b) = readdir(store, d)[l]
    BY PlacesAre
  <2>5. PICK l \in DOMAIN readdir(store, d) :
          b = <<d, l>> /\ b[1] = d /\ b[2] = l /\ Entry(b) = readdir(store, d)[l]
    BY <2>4
  <2>6. c = d /\ k = l
    BY <2>1, <2>3, <2>5 DEF IInv, Unique
  <2> QED BY <2>3, <2>5, <2>6
<1> QED BY <1>1, Inductive, PTL

\* A listing names no entry twice, although unlink and create change the
\* directory between one READDIR and the next, and move its entries by as many
\* bytes as their names take, until an offset falls inside an entry, where the
\* listing ends.
THEOREM NothingListedTwice == Spec => []ListedOnce
<1>1. IInv => ListedOnce
  BY DEF IInv, CallOK, ListingOK, Distinct, ListedOnce, Listings
<1> QED BY <1>1, Inductive, PTL

\* If no call sets the times of a directory (which empties it: fuse.cc sets the
\* size that comes with the request), every inode can be reached by its name.
THEOREM NothingIsLost ==
  ASSUME "utimes_dir" \notin Calls
  PROVE  Spec => []NoOrphan
<1>1. IInv /\ LInv => NoOrphan
  <2>1. SUFFICES ASSUME LInv, NEW i \in Live(store) \ {1}
                 PROVE  \E place \in Places : Entry(place).inum = i
    BY DEF NoOrphan
  <2>2. PICK d \in Folders(store) :
          \E k \in DOMAIN readdir(store, d) : readdir(store, d)[k].inum = i
    BY <2>1 DEF LInv, AllNamed
  <2>3. PICK k \in DOMAIN readdir(store, d) : readdir(store, d)[k].inum = i
    BY <2>2
  <2> QED BY <2>3, PlacesAre
<1> QED BY <1>1, Leading, PTL

\* And an inode number that a process holds from an earlier reply is dead, or
\* what it was looked up as leads to it still.
THEOREM HandlesLeadBack ==
  ASSUME "utimes_dir" \notin Calls
  PROVE  Spec => []HandleLeadsBack
<1>1. IInv /\ LInv => HandleLeadsBack
  <2>1. SUFFICES ASSUME IInv, LInv, NEW p \in Procs,
                        NEW h \in {fd[p]} \cup (IF call[p].op = "opening" THEN {call[p]} ELSE {}),
                        h # NoFile, h.ino \in Live(store)
                 PROVE  found(store, h.dir, h.name) /\ lookup(store, h.dir, h.name) = h.ino
    BY DEF HandleLeadsBack
  <2>2. Leads(store, h) /\ h.dir \in Folders(store) /\ h.name \in Names
    <3>1. CASE h = fd[p]
      BY <2>1, <3>1 DEF IInv, LInv, FdOK, Opened
    <3>2. CASE h = call[p] /\ call[p].op = "opening"
      <4>1. CallOK(store, call[p])
        BY <2>1 DEF IInv
      <4>2. call[p].name \in Names
        BY <3>2, <4>1, PendingIs DEF CallOK
      <4> QED BY <2>1, <3>2, <4>1, <4>2 DEF LInv, CallOK
    <3> QED BY <2>1, <3>1, <3>2
  <2> DEFINE list == readdir(store, h.dir)
             e    == [name |-> h.name, inum |-> h.ino]
  <2>3. PICK k \in DOMAIN list : list[k] = e
    BY <2>1, <2>2 DEF Leads
  <2>4. e.name = h.name /\ e.inum = h.ino
    OBVIOUS
  <2> HIDE DEF e
  <2>5. TreeOK(store) /\ found(store, h.dir, h.name)
    BY <2>1, <2>3, <2>4 DEF found, Matches, IInv, TreeOK
  <2> HIDE DEF list
  <2> DEFINE x == [name |-> h.name, inum |-> lookup(store, h.dir, h.name)]
  <2>6. x.name = h.name /\ x.inum = lookup(store, h.dir, h.name)
    OBVIOUS
  <2>7. PICK l \in DOMAIN list : list[l] = x
    BY <2>2, <2>5, FoundIs DEF list
  <2> HIDE DEF x
  <2>8. k = l
    BY <2>1, <2>2, <2>3, <2>4, <2>6, <2>7 DEF IInv, Unique, list
  <2> QED BY <2>3, <2>4, <2>5, <2>6, <2>7, <2>8
<1> QED BY <1>1, Leading, PTL

-----------------------------------------------------------------------------
(* Names of one size: a listing's offset is a multiple of it, as every entry *)
(* begins at one.                                                           *)

LEMMA SizeUniform ==
  ASSUME NEW B \in Nat, \A name \in Names : DirentSize[name] = B, NEW list \in Seq(Entries)
  PROVE  \A k \in 0 .. Len(list) : dirbuf_size(list)[k] = k * B
<1> DEFINE size == dirbuf_size(list)
           bad == {k \in 0 .. Len(list) : size[k] # k * B}
<1>1. Len(list) \in Nat /\ \A k \in 1 .. Len(list) : list[k] \in Entries
  OBVIOUS
<1>2. /\ size[0] = 0
      /\ \A k \in 1 .. Len(list) : size[k] = size[k - 1] + DirentSize[list[k].name]
  BY SizeIs
<1> HIDE DEF size
<1>3. bad = {}
  <2>1. SUFFICES ASSUME bad # {} PROVE FALSE
    BY <2>1
  <2>2. bad \subseteq Nat
    BY <1>1
  <2>3. PICK k \in bad : \A m \in bad : k <= m
    BY <2>1, <2>2, NatSmallest
  <2>4. /\ k \in 1 .. Len(list) /\ k - 1 \in 0 .. Len(list) /\ ~ (k <= k - 1)
        /\ k \in Nat /\ size[k] # k * B
    <3>1. size[0] = 0 * B
      BY <1>2
    <3> QED BY <1>1, <2>3, <3>1
  <2>5. size[k - 1] = (k - 1) * B
    BY <2>3, <2>4
  <2>6. DirentSize[list[k].name] = B
    BY <1>1, <2>4 DEF Entries
  <2>7. (k - 1) * B + B = k * B
    BY <2>4
  <2> QED BY <1>2, <2>4, <2>5, <2>6, <2>7
<1> QED BY <1>3 DEF size

Even(B, c) == c.op = "getdents" => \E m \in Nat : c.off = m * B
Aligned(B) == \A p \in Procs : Even(B, call[p])

LEMMA ListingRecord ==
  ASSUME IInv, NEW p \in Procs, call[p].op = "getdents"
  PROVE  \E dir, off, listed, stay :
           call[p] = [op |-> "getdents", dir |-> dir, off |-> off, listed |-> listed, stay |-> stay]
<1> DEFINE seqs == Seq(Items)
           sets == SUBSET Entries
           c == call[p]
<1>1. c \in [op : Listings, dir : Nat, off : Nat, listed : seqs, stay : sets] /\ c.op = "getdents"
  BY PendingIs DEF IInv, CallOK, Listings
<1> HIDE DEF seqs, sets, c
<1>2. c = [op |-> "getdents", dir |-> c.dir, off |-> c.off, listed |-> c.listed, stay |-> c.stay]
  BY <1>1
<1> QED BY <1>2 DEF c

\* What a step makes of the call of q: another listing is untouched but for what it
\* need not show, a new one starts at 0, and one that goes on is at the end of an
\* entry, at the end of all, or where no entry begins.
Kept(q) == call'[q].op = call[q].op /\ (call[q].op = "getdents" => call'[q].off = call[q].off)
Left(q) == call'[q].op \notin {"getdents", "garbled"}
Started(q) == call'[q].op = "getdents" /\ call'[q].off = 0
Advanced(q) ==
  /\ call[q].op = "getdents" /\ call'[q].op = "getdents"
  /\ \E last \in DOMAIN readdir(store, call[q].dir) :
       call'[q].off = dirbuf_size(readdir(store, call[q].dir))[last]
Inside(list, off) ==
  /\ off < dirbuf_size(list)[Len(list)]
  /\ \A k \in DOMAIN list : dirbuf_size(list)[k - 1] # off
Lost(q) ==
  call[q].op = "getdents" /\ call'[q].op = "garbled" /\ Inside(readdir(store, call[q].dir), call[q].off)

LEMMA CallSteps ==
  ASSUME IInv, [Next]_vars, NEW q \in Procs
  PROVE  Kept(q) \/ Left(q) \/ Started(q) \/ Advanced(q) \/ Lost(q)
<1>1. DOMAIN call = Procs
  BY DEF IInv
<1>2. ASSUME NEW p \in Procs, NEW c, call' = [call EXCEPT ![p] = c]
      PROVE  call'[q] = call[q] \/ (q = p /\ call'[q] = c)
  BY <1>1, <1>2
<1>3. ASSUME call'[q] = call[q]
      PROVE  Kept(q)
  BY <1>3 DEF Kept
<1>4. ASSUME NEW p \in Procs, NEW c, call' = [call EXCEPT ![p] = c],
             c.op \notin {"getdents", "garbled"}
      PROVE  Kept(q) \/ Left(q)
  BY <1>2, <1>3, <1>4 DEF Left
<1>5. ASSUME NEW p \in Procs, NEW dir \in Dirs, NEW name \in Names, Unlink(p, dir, name)
      PROVE  Kept(q)
  <2> DEFINE gone == {[name |-> name, inum |-> lookup(store, dir, name)]}
  <2>1. call' = [r \in Procs |-> IF call[r].op = "getdents"
                                 THEN [call[r] EXCEPT !.stay = @ \ gone] ELSE call[r]]
    BY <1>5 DEF Unlink
  <2> HIDE DEF gone
  <2>2. call'[q] = IF call[q].op = "getdents"
                   THEN [call[q] EXCEPT !.stay = @ \ gone] ELSE call[q]
    BY <2>1
  <2>3. CASE call[q].op = "getdents"
    <3>1. PICK dd, off, listed, stay :
            call[q] = [op |-> "getdents", dir |-> dd, off |-> off, listed |-> listed, stay |-> stay]
      BY <2>3, ListingRecord
    <3>2. call'[q] = [op |-> "getdents", dir |-> dd, off |-> off, listed |-> listed,
                      stay |-> stay \ gone]
      BY <2>2, <2>3, <3>1
    <3> QED BY <2>3, <3>1, <3>2 DEF Kept
  <2>4. CASE call[q].op # "getdents"
    BY <1>3, <2>2, <2>4
  <2> QED BY <2>3, <2>4
<1>6. ASSUME NEW p \in Procs, NEW dir \in Dirs, List(p, dir)
      PROVE  Kept(q) \/ Started(q)
  <2> DEFINE c == [op |-> "getdents", dir |-> dir, off |-> 0, listed |-> <<>>,
                   stay |-> Range(readdir(store, dir))]
  <2>1. call' = [call EXCEPT ![p] = c]
    BY <1>6 DEF List, Goes
  <2>2. c.op = "getdents" /\ c.off = 0
    OBVIOUS
  <2> HIDE DEF c
  <2> QED BY <1>2, <1>3, <2>1, <2>2 DEF Started
<1>7. ASSUME NEW p \in Procs, ReadDir(p)
      PROVE  Kept(q) \/ Left(q) \/ Advanced(q) \/ Lost(q)
  <2> DEFINE list == readdir(store, call[p].dir)
             size == dirbuf_size(list)
  <2>0. call[p].op = "getdents"
    BY <1>7 DEF ReadDir, Waits
  <2>1. \/ call' = [call EXCEPT ![p] = [call[p] EXCEPT !.op = "listed"]]
        \/ /\ call' = [call EXCEPT ![p] = [call[p] EXCEPT !.op = "garbled"]]
           /\ Inside(list, call[p].off)
        \/ \E first, last \in DOMAIN list :
             call' = [call EXCEPT ![p] =
                        [call[p] EXCEPT !.off    = size[last],
                                        !.listed = @ \o SubSeq(list, first, last)]]
    BY <1>7 DEF ReadDir, Waits, Goes, Inside
  <2> HIDE DEF size
  <2>2. PICK dir, off, listed, stay :
          call[p] = [op |-> "getdents", dir |-> dir, off |-> off, listed |-> listed, stay |-> stay]
    BY <2>0, ListingRecord
  <2> HIDE DEF list
  <2>3. CASE call' = [call EXCEPT ![p] = [call[p] EXCEPT !.op = "listed"]]
    <3>1. [call[p] EXCEPT !.op = "listed"].op = "listed"
      BY <2>2
    <3> QED BY <1>4, <2>3, <3>1
  <2>4. ASSUME NEW first \in DOMAIN list, NEW last \in DOMAIN list,
               call' = [call EXCEPT ![p] =
                           [call[p] EXCEPT !.off    = size[last],
                                           !.listed = @ \o SubSeq(list, first, last)]]
        PROVE  Kept(q) \/ Advanced(q)
    <3> DEFINE c == [call[p] EXCEPT !.off    = size[last],
                                    !.listed = @ \o SubSeq(list, first, last)]
    <3>1. c.op = "getdents" /\ c.off = size[last]
      BY <2>2
    <3>2. call' = [call EXCEPT ![p] = c]
      BY <2>4
    <3> HIDE DEF c
    <3>3. CASE q = p /\ call'[q] = c
      BY <2>0, <3>1, <3>3 DEF Advanced, list, size
    <3> QED BY <1>2, <1>3, <3>2, <3>3
  <2>5. ASSUME call' = [call EXCEPT ![p] = [call[p] EXCEPT !.op = "garbled"]],
               Inside(list, call[p].off)
        PROVE  Kept(q) \/ Lost(q)
    <3> DEFINE c == [call[p] EXCEPT !.op = "garbled"]
    <3>1. c.op = "garbled" /\ call' = [call EXCEPT ![p] = c]
      BY <2>2, <2>5
    <3> HIDE DEF c
    <3>3. CASE q = p /\ call'[q] = c
      BY <2>0, <2>5, <3>1, <3>3 DEF Lost, list
    <3> QED BY <1>2, <1>3, <3>1, <3>3
  <2> QED BY <2>1, <2>3, <2>4, <2>5
<1>8. ASSUME NEW p \in Procs, NEW dir, NEW name, Walk(p, dir, name)
      PROVE  Kept(q) \/ Left(q)
  <2> DEFINE i == lookup(store, dir, name)
             opening == [op |-> "opening", dir |-> dir, name |-> name, ino |-> i]
             following == [op |-> "following", dir |-> dir, ino |-> i]
  <2>1. CASE ~ found(store, dir, name) \/ isdir(store, i)
    <3>1. call' = [call EXCEPT ![p] = Idle]
      BY <1>8, <2>1 DEF Walk, Goes
    <3>2. Idle.op = "idle"
      BY DEF Idle
    <3> QED BY <1>4, <3>1, <3>2
  <2>2. CASE found(store, dir, name) /\ ~ isdir(store, i) /\ isfile(store, i)
    <3>1. call' = [call EXCEPT ![p] = opening]
      BY <1>8, <2>2 DEF Walk, Goes
    <3>2. opening.op = "opening"
      OBVIOUS
    <3> HIDE DEF opening
    <3> QED BY <1>4, <3>1, <3>2
  <2>3. CASE found(store, dir, name) /\ ~ isdir(store, i) /\ ~ isfile(store, i)
    <3>1. call' = [call EXCEPT ![p] = following]
      BY <1>8, <2>3 DEF Walk, Goes
    <3>2. following.op = "following"
      OBVIOUS
    <3> HIDE DEF following
    <3> QED BY <1>4, <3>1, <3>2
  <2> QED BY <2>1, <2>2, <2>3
<1>9. ASSUME NEW p \in Procs, OpenInode(p) \/ Read(p) \/ CloseDir(p)
      PROVE  Kept(q) \/ Left(q)
  <2>1. call' = [call EXCEPT ![p] = Idle]
    BY <1>9 DEF OpenInode, Read, CloseDir, Goes
  <2>2. Idle.op = "idle"
    BY DEF Idle
  <2> QED BY <1>4, <2>1, <2>2
<1>10. ASSUME NEW p \in Procs, ReadLink(p)
       PROVE  Kept(q) \/ Left(q)
  <2> DEFINE out == readlink(store, call[p].ino)
             walking == [op |-> "walking", dir |-> call[p].dir, name |-> out.data[1]]
  <2>1. call' = [call EXCEPT ![p] = IF out.status = "OK" /\ out.data # <<>>
                                    THEN walking ELSE Idle]
    BY <1>10 DEF ReadLink, Goes
  <2>2. walking.op = "walking" /\ Idle.op = "idle"
    BY DEF Idle
  <2> HIDE DEF out, walking
  <2> QED BY <1>4, <2>1, <2>2
<1>11. ASSUME NEW p \in Procs, NEW off \in Lengths, ReadSize(p, off)
       PROVE  Kept(q) \/ Left(q)
  <2> DEFINE reading == [op |-> "reading", off |-> off]
  <2>1. UNCHANGED call \/ call' = [call EXCEPT ![p] = reading]
    <3>1. CASE ~ isfile(store, fd[p].ino)
      BY <1>11, <3>1 DEF ReadSize
    <3>2. CASE isfile(store, fd[p].ino)
      BY <1>11, <3>2 DEF ReadSize, Goes
    <3> QED BY <3>1, <3>2
  <2>2. reading.op = "reading"
    OBVIOUS
  <2> HIDE DEF reading
  <2> QED BY <1>3, <1>4, <2>1, <2>2
<1>12. ASSUME NEW p \in Procs,
              \/ Close(p)
              \/ \E dir \in Dirs, name \in Names :
                   \/ Creat(p, dir, name) \/ Mknod(p, dir, name) \/ Mkdir(p, dir, name)
                   \/ \E link \in Targets : Symlink(p, dir, name, link)
              \/ \E data \in Data, off \in Lengths : Write(p, data, off)
              \/ \E n \in Lengths : Ftruncate(p, n)
              \/ \E i \in Live(store) : Utimes(p, i)
       PROVE  Kept(q)
  <2>1. UNCHANGED call
    BY <1>12 DEF Close, Creat, Mknod, Mkdir, Symlink, Write, Ftruncate, Utimes
  <2> QED BY <1>3, <2>1
<1>13. CASE UNCHANGED vars
  BY <1>3, <1>13 DEF vars
<1>14. CASE Next
  <2>1. PICK p \in Procs :
          \/ \E dir \in Dirs, name \in Names : Walk(p, dir, name) \/ Unlink(p, dir, name)
          \/ Walk(p, call[p].dir, call[p].name)
          \/ OpenInode(p) \/ Read(p) \/ CloseDir(p)
          \/ ReadLink(p)
          \/ \E off \in Lengths : ReadSize(p, off)
          \/ \/ Close(p)
             \/ \E dir \in Dirs, name \in Names :
                   \/ Creat(p, dir, name) \/ Mknod(p, dir, name) \/ Mkdir(p, dir, name)
                   \/ \E link \in Targets : Symlink(p, dir, name, link)
             \/ \E data \in Data, off \in Lengths : Write(p, data, off)
             \/ \E n \in Lengths : Ftruncate(p, n)
             \/ \E i \in Live(store) : Utimes(p, i)
          \/ \E dir \in Dirs : List(p, dir)
          \/ ReadDir(p)
    BY <1>14 DEF Next, Open, WalkOn
  <2> QED BY <2>1, <1>5, <1>6, <1>7, <1>8, <1>9, <1>10, <1>11, <1>12
<1> QED BY <1>13, <1>14

LEMMA ListedDirIs ==
  ASSUME IInv, NEW p \in Procs, call[p].op = "getdents"
  PROVE  readdir(store, call[p].dir) \in Seq(Entries)
BY FolderIs DEF IInv, CallOK, Listings

\* If the names all take the same number of bytes in a reply, no offset ever falls
\* inside an entry: fuseserver_readdir then answers with entries, whatever is made
\* and removed meanwhile.
THEOREM OneSizeIsReadable ==
  ASSUME NEW B \in Nat \ {0}, \A name \in Names : DirentSize[name] = B
  PROVE  Spec => []ListingReadable
<1>1. ASSUME NEW m \in Nat, NEW n \in Nat, m * B < n * B
      PROVE  m < n
  <2>1. CASE m >= n
    <3>1. m - n \in Nat /\ (m - n) * B \in Nat
      BY <2>1
    <3>2. m * B = n * B + ((m - n) * B)
      BY <2>1
    <3>3. m * B \in Nat /\ n * B \in Nat
      OBVIOUS
    <3> QED BY <1>1, <3>1, <3>2, <3>3
  <2> QED BY <2>1
<1>2. Init => Aligned(B) /\ ListingReadable
  BY DEF Init, Idle, Aligned, Even, ListingReadable
<1>3. ASSUME IInv, Aligned(B), [Next]_vars
      PROVE  Aligned(B)'
  <2>1. SUFFICES ASSUME NEW q \in Procs, call'[q].op = "getdents"
                 PROVE  \E m \in Nat : call'[q].off = m * B
    BY DEF Aligned, Even
  <2>2. CASE Kept(q)
    BY <1>3, <2>1, <2>2 DEF Aligned, Even, Kept
  <2>3. CASE Started(q)
    <3>1. 0 = 0 * B
      OBVIOUS
    <3> QED BY <2>3, <3>1 DEF Started
  <2>4. CASE Advanced(q)
    <3> DEFINE list == readdir(store, call[q].dir)
    <3>1. PICK last \in DOMAIN list : call'[q].off = dirbuf_size(list)[last]
      BY <2>4 DEF Advanced
    <3>2. list \in Seq(Entries)
      BY <1>3, <2>4, ListedDirIs DEF Advanced
    <3> HIDE DEF list
    <3>3. last \in 0 .. Len(list) /\ last \in Nat
      BY <3>2
    <3>4. dirbuf_size(list)[last] = last * B
      BY <3>2, <3>3, SizeUniform
    <3> QED BY <3>1, <3>3, <3>4
  <2>5. ~ Left(q) /\ ~ Lost(q)
    BY <2>1 DEF Left, Lost
  <2> QED BY <1>3, <2>2, <2>3, <2>4, <2>5, CallSteps
<1>4. ASSUME IInv, Aligned(B), ListingReadable, [Next]_vars
      PROVE  ListingReadable'
  <2>1. SUFFICES ASSUME NEW q \in Procs, call'[q].op = "garbled"
                 PROVE  FALSE
    BY DEF ListingReadable
  <2>2. ~ Kept(q) /\ ~ Left(q) /\ ~ Started(q) /\ ~ Advanced(q)
    BY <1>4, <2>1 DEF ListingReadable, Kept, Left, Started, Advanced
  <2>3. Lost(q)
    BY <1>4, <2>2, CallSteps
  <2> DEFINE list == readdir(store, call[q].dir)
             size == dirbuf_size(list)
  <2>4. call[q].op = "getdents" /\ Inside(list, call[q].off)
    BY <2>3 DEF Lost
  <2>5. list \in Seq(Entries)
    BY <1>4, <2>4, ListedDirIs
  <2>6. PICK m \in Nat : call[q].off = m * B
    BY <1>4, <2>4 DEF Aligned, Even
  <2>7. \A k \in 0 .. Len(list) : size[k] = k * B
    BY <2>5, SizeUniform
  <2>8. call[q].off < size[Len(list)] /\ \A k \in DOMAIN list : size[k - 1] # call[q].off
    BY <2>4 DEF Inside
  <2> HIDE DEF list, size
  <2>9. Len(list) \in Nat /\ m * B < Len(list) * B
    BY <2>5, <2>6, <2>7, <2>8
  <2>10. m < Len(list)
    BY <1>1, <2>9
  <2>11. m + 1 \in DOMAIN list /\ (m + 1) - 1 = m /\ m \in 0 .. Len(list)
    BY <2>5, <2>9, <2>10
  <2> QED BY <2>6, <2>7, <2>8, <2>11
<1> QED BY <1>2, <1>3, <1>4, Inductive, PTL DEF Spec

-----------------------------------------------------------------------------
(* Only write and setattr on a file that was removed while it was open get *)
(* at a missing inode.                                                     *)

Healthy(out) == out.status # "crash"

LEMMA OutcomesAreHealthy ==
  ASSUME IInv
  PROVE  /\ \A dir, name : Healthy(create(store, dir, name)) /\ Healthy(mkdir(store, dir, name))
         /\ \A dir, link, name : Healthy(symlink(store, dir, link, name))
         /\ \A dir \in Dirs, name \in Names : found(store, dir, name) => Healthy(unlink(store, dir, name))
         /\ \A i, n, off : Healthy(read(store, i, n, off))
         /\ \A i : Healthy(readlink(store, i))
         /\ \A i \in Live(store) : Healthy(setattr(store, i, 0))
<1>1. \A s : OK(s).status = "OK"
  BY DEF OK
<1>2. \A r, s : Fail(r, s).status = r
  BY DEF Fail
<1>3. \A s, d : [status |-> "OK", store |-> s, data |-> d].status = "OK"
  OBVIOUS
<1>4. ASSUME NEW dir, NEW name
      PROVE  Healthy(create(store, dir, name)) /\ Healthy(mkdir(store, dir, name))
  BY <1>1, <1>2 DEF create, mkdir, Healthy
<1>5. ASSUME NEW dir, NEW link, NEW name
      PROVE  Healthy(symlink(store, dir, link, name))
  BY <1>1 DEF symlink, Healthy
<1>6. ASSUME NEW dir \in Dirs, NEW name \in Names, found(store, dir, name)
      PROVE  Healthy(unlink(store, dir, name))
  <2>1. lookup(store, dir, name) \in Live(store)
    <3>1. TreeOK(store) /\ dir \in Folders(store)
      BY DEF IInv, TreeOK, Dirs, Folders
    <3> QED BY <1>6, <3>1, FoundIs
  <2> QED BY <1>1, <1>6, <2>1 DEF unlink, Healthy
<1>7. ASSUME NEW i, NEW n, NEW off
      PROVE  Healthy(read(store, i, n, off))
  BY <1>2, <1>3 DEF read, Healthy
<1>8. ASSUME NEW i
      PROVE  Healthy(readlink(store, i))
  BY <1>2, <1>3 DEF readlink, Healthy
<1>9. ASSUME NEW i \in Live(store)
      PROVE  Healthy(setattr(store, i, 0))
  BY <1>1 DEF setattr, Healthy
<1> QED BY <1>4, <1>5, <1>6, <1>7, <1>8, <1>9

\* If no process writes to an open file or resizes it, no inode is missed: what a
\* lookup found is there when the handlers make, remove, list or set the times of
\* it, and readlink and read look at the type of what may be gone before they get
\* the data (yfs_client::readlink, read, unlink).
THEOREM OnlyHandlesCrash ==
  ASSUME Calls \cap {"write", "ftruncate"} = {}
  PROVE  Spec => []NeverCrashes
<1>1. Init => NeverCrashes
  BY DEF Init, NeverCrashes
<1>2. ASSUME IInv, NeverCrashes, [Next]_vars
      PROVE  NeverCrashes'
  <2>1. ASSUME NEW out, Ran(out), Healthy(out)
        PROVE  NeverCrashes'
    BY <1>2, <2>1 DEF Ran, NeverCrashes, Healthy
  <2>2. CASE UNCHANGED status
    BY <1>2, <2>2 DEF NeverCrashes
  <2>3. ASSUME NEW p \in Procs, NEW dir \in Dirs, NEW name \in Names,
               \/ Creat(p, dir, name) \/ Mknod(p, dir, name) \/ Mkdir(p, dir, name)
               \/ \E link \in Targets : Symlink(p, dir, name, link)
               \/ Unlink(p, dir, name)
        PROVE  NeverCrashes'
    <3>1. CASE Creat(p, dir, name) \/ Mknod(p, dir, name)
      <4>1. Ran(create(store, dir, name))
        BY <3>1 DEF Creat, Mknod
      <4> QED BY <1>2, <2>1, <4>1, OutcomesAreHealthy
    <3>2. CASE Mkdir(p, dir, name)
      BY <1>2, <2>1, <3>2, OutcomesAreHealthy DEF Mkdir
    <3>3. CASE \E link \in Targets : Symlink(p, dir, name, link)
      <4>1. PICK link \in Targets : Ran(symlink(store, dir, link, name))
        BY <3>3 DEF Symlink
      <4> QED BY <1>2, <2>1, <4>1, OutcomesAreHealthy
    <3>4. CASE Unlink(p, dir, name)
      <4>1. found(store, dir, name) /\ Ran(unlink(store, dir, name))
        BY <3>4 DEF Unlink
      <4> QED BY <1>2, <2>1, <4>1, OutcomesAreHealthy
    <3> QED BY <2>3, <3>1, <3>2, <3>3, <3>4
  <2>4. ASSUME NEW p \in Procs, Read(p) \/ ReadLink(p)
        PROVE  NeverCrashes'
    <3>1. \/ Ran(read(store, fd[p].ino, Page, call[p].off))
          \/ Ran(readlink(store, call[p].ino))
      BY <2>4 DEF Read, ReadLink
    <3> QED BY <1>2, <2>1, <3>1, OutcomesAreHealthy
  <2>5. ASSUME NEW p \in Procs, NEW i \in Live(store), Utimes(p, i)
        PROVE  NeverCrashes'
    BY <1>2, <2>1, <2>5, UtimesIs, OutcomesAreHealthy
  <2>6. ASSUME NEW p \in Procs,
               \/ \E data \in Data, off \in Lengths : Write(p, data, off)
               \/ \E n \in Lengths : Ftruncate(p, n)
        PROVE  FALSE
    BY <2>6 DEF Write, Ftruncate, Makes
  <2>7. ASSUME NEW p \in Procs,
               \/ OpenInode(p) \/ WalkOn(p) \/ Close(p) \/ ReadDir(p) \/ CloseDir(p)
               \/ \E dir \in Dirs, name \in Names : Open(p, dir, name)
               \/ \E off \in Lengths : ReadSize(p, off)
               \/ \E dir \in Dirs : List(p, dir)
        PROVE  UNCHANGED status
    BY <2>7 DEF OpenInode, WalkOn, Close, ReadDir, CloseDir, Open, ReadSize, List, Walk
  <2>8. CASE Next
    BY <2>2, <2>3, <2>4, <2>5, <2>6, <2>7, <2>8 DEF Next
  <2> QED BY <1>2, <2>2, <2>8 DEF vars
<1> QED BY <1>1, <1>2, Inductive, PTL DEF Spec

-----------------------------------------------------------------------------
(* The refinement: what the handlers do to the extents is what FileSystem   *)
(* says of the tree, or nothing.                                            *)

\* A directory as a function from names, and the node that an extent stands for.
DirMap(list) ==
  [name \in {list[k].name : k \in DOMAIN list} |-> list[First(list, name)].inum]
NodeOf(s, i) ==
  IF s.extents[i].type # T_DIR THEN s.extents[i]
  ELSE [s.extents[i] EXCEPT !.data = DirMap(readdir(s, i))]
TreeOf(s) == [i \in Live(s) |-> NodeOf(s, i)]

LEMMA NodeOfIs ==
  ASSUME NEW s, StoreOK(s), NEW i \in Live(s)
  PROVE  /\ s.extents[i].type = T_DIR =>
              NodeOf(s, i) = [type |-> T_DIR, data |-> DirMap(readdir(s, i))]
         /\ s.extents[i].type # T_DIR => NodeOf(s, i) = s.extents[i]
         /\ NodeOf(s, i).type = s.extents[i].type
         /\ TreeOf(s)[i] = NodeOf(s, i) /\ DOMAIN TreeOf(s) = Live(s)
<1>1. s.extents[i] = [type |-> s.extents[i].type, data |-> s.extents[i].data]
  BY KindIs, NodeIs
<1> DEFINE x == s.extents[i]
           y == DirMap(readdir(s, i))
<1>2. TreeOf(s)[i] = NodeOf(s, i) /\ DOMAIN TreeOf(s) = Live(s)
  BY DEF TreeOf
<1>3. NodeOf(s, i) = IF x.type # T_DIR THEN x ELSE [x EXCEPT !.data = y]
  BY DEF NodeOf
<1> HIDE DEF y, x
<1>4. [x EXCEPT !.data = y] = [type |-> x.type, data |-> y]
  BY <1>1 DEF x
<1>5. x.type = T_DIR => NodeOf(s, i) = [type |-> T_DIR, data |-> y]
  BY <1>3, <1>4
<1>6. x.type # T_DIR => NodeOf(s, i) = x
  BY <1>3
<1>7. NodeOf(s, i).type = x.type
  BY <1>5, <1>6
<1> QED BY <1>2, <1>5, <1>6, <1>7 DEF x, y

\* An extent that stays is the same node.
LEMMA SameNode ==
  ASSUME NEW s, NEW t, NEW i, i \in Live(s), i \in Live(t), t.extents[i] = s.extents[i]
  PROVE  NodeOf(t, i) = NodeOf(s, i)
BY SameReaddir DEF NodeOf

\* If no name comes twice, the first entry of a name is the entry of that name.
NamesOnce(list) == \A k, l \in DOMAIN list : list[k].name = list[l].name => k = l

LEMMA DirMapIs ==
  ASSUME NEW list \in Seq(Entries), NamesOnce(list)
  PROVE  /\ \A z \in DOMAIN DirMap(list) : \E k \in DOMAIN list : z = list[k].name
         /\ \A k \in DOMAIN list : /\ list[k].name \in DOMAIN DirMap(list)
                                   /\ DirMap(list)[list[k].name] = list[k].inum
         /\ DirMap(list) = [name \in DOMAIN DirMap(list) |-> DirMap(list)[name]]
<1>1. DOMAIN DirMap(list) = {list[k].name : k \in DOMAIN list}
      /\ DirMap(list) = [name \in DOMAIN DirMap(list) |-> DirMap(list)[name]]
  BY DEF DirMap
<1>2. ASSUME NEW k \in DOMAIN list
      PROVE  DirMap(list)[list[k].name] = list[k].inum
  <2> DEFINE name == list[k].name
             l    == First(list, name)
  <2>1. Matches(list, name) # {}
    BY DEF Matches
  <2>2. l \in DOMAIN list /\ list[l].name = name
    BY <2>1, FirstIs
  <2>3. l = k
    BY <2>2 DEF NamesOnce
  <2>4. DirMap(list)[name] = list[l].inum
    BY DEF DirMap
  <2> QED BY <2>3, <2>4
<1> QED BY <1>1, <1>2

\* Two directories of the same entries are the same function.
LEMMA DirMapAppend ==
  ASSUME NEW list \in Seq(Entries), NEW e \in Entries, NEW more, more = Append(list, e),
         NamesOnce(list), NamesOnce(more)
  PROVE  /\ DirMap(more) = FS!With(DirMap(list), e.name, e.inum)
         /\ e.name \notin DOMAIN DirMap(list)
<1> DEFINE n == Len(list) + 1
<1>1. /\ more \in Seq(Entries) /\ DOMAIN more = DOMAIN list \cup {n} /\ n \notin DOMAIN list
      /\ more[n] = e /\ \A k \in DOMAIN list : more[k] = list[k]
  OBVIOUS
<1> HIDE DEF n
<1>2. e.name \notin DOMAIN DirMap(list)
  <2>1. SUFFICES ASSUME e.name \in DOMAIN DirMap(list) PROVE FALSE
    OBVIOUS
  <2>2. PICK k \in DOMAIN list : e.name = list[k].name
    BY <2>1, DirMapIs
  <2>3. more[k].name = more[n].name /\ k \in DOMAIN more /\ n \in DOMAIN more
    BY <1>1, <2>2
  <2> QED BY <1>1, <2>3 DEF NamesOnce
<1> DEFINE with == FS!With(DirMap(list), e.name, e.inum)
<1>3. with = [z \in DOMAIN DirMap(list) \cup {e.name} |->
                IF z = e.name THEN e.inum ELSE DirMap(list)[z]]
  BY DEF FS!With
<1> HIDE DEF with
<1>4. DOMAIN DirMap(more) = DOMAIN DirMap(list) \cup {e.name}
  <2>1. ASSUME NEW z \in DOMAIN DirMap(more)
        PROVE  z \in DOMAIN DirMap(list) \cup {e.name}
    <3>1. PICK k \in DOMAIN more : z = more[k].name
      BY <1>1, DirMapIs
    <3>2. k = n => z = e.name
      BY <1>1, <3>1
    <3>3. k \in DOMAIN list => z \in DOMAIN DirMap(list)
      BY <1>1, <3>1, DirMapIs
    <3> QED BY <1>1, <3>2, <3>3
  <2>2. ASSUME NEW z \in DOMAIN DirMap(list)
        PROVE  z \in DOMAIN DirMap(more)
    <3>1. PICK k \in DOMAIN list : z = list[k].name
      BY DirMapIs
    <3>2. k \in DOMAIN more /\ z = more[k].name
      BY <1>1, <3>1
    <3> QED BY <1>1, <3>2, DirMapIs
  <2>3. e.name \in DOMAIN DirMap(more)
    <3>1. n \in DOMAIN more /\ e.name = more[n].name
      BY <1>1
    <3> QED BY <1>1, <3>1, DirMapIs
  <2> QED BY <2>1, <2>2, <2>3
<1>5. ASSUME NEW z \in DOMAIN DirMap(more)
      PROVE  DirMap(more)[z] = with[z]
  <2>1. PICK k \in DOMAIN more : z = more[k].name
    BY <1>1, DirMapIs
  <2>2. DirMap(more)[z] = more[k].inum
    BY <1>1, <2>1, DirMapIs
  <2>3. CASE k = n
    BY <1>1, <1>3, <1>4, <2>1, <2>2, <2>3
  <2>4. CASE k \in DOMAIN list
    <3>1. z = list[k].name /\ z \in DOMAIN DirMap(list) /\ z # e.name
      BY <1>1, <1>2, <2>1, <2>4, DirMapIs
    <3>2. DirMap(list)[z] = list[k].inum
      BY <2>4, <3>1, DirMapIs
    <3> QED BY <1>1, <1>3, <2>2, <2>4, <3>1, <3>2
  <2> QED BY <1>1, <2>3, <2>4
<1>6. DirMap(more) = [z \in DOMAIN DirMap(more) |-> DirMap(more)[z]]
  BY <1>1, DirMapIs
<1>7. with = [z \in DOMAIN DirMap(more) |-> with[z]]
  BY <1>3, <1>4
<1>8. DirMap(more) = with
  BY <1>5, <1>6, <1>7
<1> QED BY <1>2, <1>8 DEF with

LEMMA DirMapRemove ==
  ASSUME NEW list \in Seq(Entries), NEW k \in DOMAIN list, NEW less, less = RemoveAt(list, k),
         NamesOnce(list), NamesOnce(less)
  PROVE  DirMap(less) = FS!Without(DirMap(list), list[k].name)
<1>1. /\ k \in 1 .. Len(list) /\ Len(list) \in Nat /\ DOMAIN list = 1 .. Len(list)
      /\ less \in Seq(Entries) /\ DOMAIN less = 1 .. Len(list) - 1
      /\ \A j \in 1 .. Len(list) - 1 : less[j] = IF j < k THEN list[j] ELSE list[j + 1]
  <2>1. k \in 1 .. Len(list) /\ Len(list) \in Nat /\ DOMAIN list = 1 .. Len(list)
    OBVIOUS
  <2>2. /\ less \in Seq(Entries) /\ Len(less) = Len(list) - 1
        /\ \A j \in 1 .. Len(list) - 1 : less[j] = IF j < k THEN list[j] ELSE list[j + 1]
    BY <2>1, RemoveAtIs
  <2>3. DOMAIN less = 1 .. Len(less)
    BY <2>2
  <2> QED BY <2>1, <2>2, <2>3
<1>2. ASSUME NEW j \in DOMAIN less
      PROVE  \E l \in DOMAIN list : l # k /\ less[j] = list[l]
  <2>1. CASE j < k
    BY <1>1, <2>1
  <2>2. CASE ~ (j < k)
    <3>1. j + 1 \in DOMAIN list /\ j + 1 # k
      BY <1>1, <2>2
    <3> QED BY <1>1, <2>2, <3>1
  <2> QED BY <2>1, <2>2
<1>3. ASSUME NEW l \in DOMAIN list, l # k
      PROVE  \E j \in DOMAIN less : less[j] = list[l]
  <2>1. CASE l < k
    <3>1. l \in DOMAIN less
      BY <1>1, <2>1
    <3> QED BY <1>1, <2>1, <3>1
  <2>2. CASE ~ (l < k)
    <3>1. l - 1 \in DOMAIN less /\ ~ (l - 1 < k) /\ (l - 1) + 1 = l
      BY <1>1, <1>3, <2>2
    <3> QED BY <1>1, <3>1
  <2> QED BY <2>1, <2>2
<1>4. DOMAIN DirMap(less) = DOMAIN DirMap(list) \ {list[k].name}
  <2>1. ASSUME NEW z \in DOMAIN DirMap(less)
        PROVE  z \in DOMAIN DirMap(list) \ {list[k].name}
    <3>1. PICK j \in DOMAIN less : z = less[j].name
      BY <1>1, DirMapIs
    <3>2. PICK l \in DOMAIN list : l # k /\ less[j] = list[l]
      BY <1>2
    <3>3. z = list[l].name /\ z # list[k].name
      BY <3>1, <3>2 DEF NamesOnce
    <3> QED BY <3>3, DirMapIs
  <2>2. ASSUME NEW z \in DOMAIN DirMap(list) \ {list[k].name}
        PROVE  z \in DOMAIN DirMap(less)
    <3>1. PICK l \in DOMAIN list : z = list[l].name
      BY DirMapIs
    <3>2. PICK j \in DOMAIN less : less[j] = list[l]
      BY <1>3, <3>1
    <3> QED BY <1>1, <3>1, <3>2, DirMapIs
  <2> QED BY <2>1, <2>2
<1>5. ASSUME NEW z \in DOMAIN DirMap(less)
      PROVE  DirMap(less)[z] = DirMap(list)[z]
  <2>1. PICK j \in DOMAIN less : z = less[j].name
    BY <1>1, DirMapIs
  <2>2. PICK l \in DOMAIN list : l # k /\ less[j] = list[l]
    BY <1>2
  <2>3. DirMap(less)[z] = less[j].inum
    BY <1>1, <2>1, DirMapIs
  <2>4. DirMap(list)[z] = list[l].inum
    BY <2>1, <2>2, DirMapIs
  <2> QED BY <2>2, <2>3, <2>4
<1>6. DirMap(less) = [z \in DOMAIN DirMap(less) |-> DirMap(less)[z]]
  BY <1>1, DirMapIs
<1>7. FS!Without(DirMap(list), list[k].name)
        = [z \in DOMAIN DirMap(list) \ {list[k].name} |-> DirMap(list)[z]]
  BY DEF FS!Without
<1> QED BY <1>4, <1>5, <1>6, <1>7

\* The lists of a tree whose entries are unique.
LEMMA OnceIs ==
  ASSUME NEW s, Unique(s), NEW d \in Folders(s)
  PROVE  NamesOnce(readdir(s, d))
BY DEF Unique, NamesOnce

\* What setattr and write put is what the comments of fuse.cc say.
LEMMA ResizedIs ==
  ASSUME NEW buf \in Seq(Bytes), NEW n \in Nat
  PROVE  /\ Len(buf) < n => buf \o Zeros(n - Len(buf)) = FS!Resized(buf, n)
         /\ n <= Len(buf) => SubSeq(buf, 1, n) = FS!Resized(buf, n)
         /\ FS!Resized(buf, n) \in Seq(Bytes) /\ Len(FS!Resized(buf, n)) = n
         /\ \A k \in 1 .. n : FS!Resized(buf, n)[k] = IF k <= Len(buf) THEN buf[k] ELSE Zero
<1> DEFINE new == FS!Resized(buf, n)
<1>1. Len(buf) \in Nat /\ Zero \in Bytes /\ \A k \in 1 .. Len(buf) : buf[k] \in Bytes
  BY DataAssumption
<1>2. new = [k \in 1 .. n |-> IF k <= Len(buf) THEN buf[k] ELSE Zero]
  BY DEF FS!Resized
<1> HIDE DEF new
<1>3. new \in Seq(Bytes) /\ Len(new) = n
  <2>1. \A k \in 1 .. n : (IF k <= Len(buf) THEN buf[k] ELSE Zero) \in Bytes
    BY <1>1
  <2>2. new \in [1 .. n -> Bytes]
    BY <1>2, <2>1
  <2>3. new \in Seq(Bytes) /\ Len(new) = n
    BY <2>2
  <2> QED BY <2>3
<1>4. ASSUME Len(buf) < n
      PROVE  buf \o Zeros(n - Len(buf)) = new
  <2> DEFINE more == Zeros(n - Len(buf))
             all  == buf \o more
  <2>1. more \in Seq(Bytes) /\ Len(more) = n - Len(buf)
    <3>1. n - Len(buf) \in Nat
      BY <1>1, <1>4
    <3> QED BY <3>1, ZerosAre
  <2>2. \A k \in 1 .. n - Len(buf) : more[k] = Zero
    BY DEF Zeros
  <2> HIDE DEF more
  <2>3. /\ all \in Seq(Bytes) /\ Len(all) = n
        /\ \A k \in 1 .. n : all[k] = IF k <= Len(buf) THEN buf[k] ELSE more[k - Len(buf)]
    <3>1. Len(buf) + Len(more) = n
      BY <1>1, <2>1
    <3> QED BY <2>1, <3>1, ConcatProperties
  <2> HIDE DEF all
  <2>4. ASSUME NEW k \in 1 .. n
        PROVE  all[k] = new[k]
    <3>1. CASE k <= Len(buf)
      BY <1>2, <2>3, <3>1
    <3>2. CASE ~ (k <= Len(buf))
      <4>1. k - Len(buf) \in 1 .. n - Len(buf)
        BY <1>1, <3>2
      <4> QED BY <1>2, <2>2, <2>3, <3>2, <4>1
    <3> QED BY <3>1, <3>2
  <2>5. all = new
    BY <1>3, <2>3, <2>4, SeqEqual
  <2> QED BY <2>5 DEF all, more
<1>5. ASSUME n <= Len(buf)
      PROVE  SubSeq(buf, 1, n) = new
  <2> DEFINE part == SubSeq(buf, 1, n)
  <2>1. \A k \in 1 .. n : buf[k] \in Bytes
    BY <1>1, <1>5
  <2>2. /\ part \in Seq(Bytes) /\ Len(part) = IF 1 <= n THEN n - 1 + 1 ELSE 0
        /\ \A k \in 1 .. n - 1 + 1 : part[k] = buf[1 + k - 1]
    BY <2>1, SubSeqProperties
  <2> HIDE DEF part
  <2>3. Len(part) = n
    BY <2>2
  <2>4. \A k \in 1 .. n : part[k] = new[k]
    <3>1. \A k \in 1 .. n : k \in 1 .. n - 1 + 1 /\ 1 + k - 1 = k /\ k <= Len(buf)
      BY <1>1, <1>5
    <3> QED BY <1>2, <2>2, <3>1
  <2>5. part = new
    BY <1>3, <2>2, <2>3, <2>4, SeqEqual
  <2> QED BY <2>5 DEF part
<1>6. \A k \in 1 .. n : new[k] = IF k <= Len(buf) THEN buf[k] ELSE Zero
  BY <1>2
<1> QED BY <1>3, <1>4, <1>5, <1>6 DEF new

LEMMA SetattrIs ==
  ASSUME NEW s, StoreOK(s), NEW i, isfile(s, i), NEW n \in Nat, NEW t, t = setattr(s, i, n).store
  PROVE  t = s \/ t = ec_put(s, i, FS!Resized(ec_get(s, i), n))
<1> DEFINE buf == ec_get(s, i)
<1>1. i \in Live(s) /\ buf \in Seq(Bytes)
  BY KindIs, NodeIs DEF ec_get
<1>2. ec_getattr(s, i).size = Len(buf) /\ Len(buf) \in Nat
  BY <1>1 DEF ec_getattr
<1>3. CASE Len(buf) = n
  BY <1>2, <1>3 DEF setattr, OK
<1>4. CASE Len(buf) < n
  <2>1. t = ec_put(s, i, buf \o Zeros(n - Len(buf)))
    BY <1>1, <1>2, <1>4 DEF setattr, OK
  <2> QED BY <1>1, <1>4, <2>1, ResizedIs
<1>5. CASE n < Len(buf)
  <2>1. t = ec_put(s, i, SubSeq(buf, 1, n))
    <3>1. ~ (Len(buf) < n) /\ Len(buf) # n
      BY <1>2, <1>5
    <3> QED BY <1>1, <1>2, <3>1 DEF setattr, OK
  <2>2. n <= Len(buf)
    BY <1>2, <1>5
  <2> QED BY <1>1, <2>1, <2>2, ResizedIs
<1> QED BY <1>2, <1>3, <1>4, <1>5

\* What write leaves before and behind the data.
Before(buf, off) ==
  IF off > Len(buf) THEN buf \o Zeros(IF off > Len(buf) THEN off - Len(buf) ELSE 0)
  ELSE SubSeq(buf, 1, off)
Behind(buf, end) ==
  IF end < Len(buf) THEN SubSeq(buf, end + 1, Len(buf)) ELSE <<>>

LEMMA OverwrittenIs ==
  ASSUME NEW buf \in Seq(Bytes), NEW data \in Seq(Bytes), NEW off \in Nat
  PROVE  /\ Before(buf, off) \o data \o Behind(buf, off + Len(data))
              = FS!Overwritten(buf, data, off)
         /\ FS!Overwritten(buf, data, off) \in Seq(Bytes)
<1> DEFINE end  == off + Len(data)
           size == IF end > Len(buf) THEN end ELSE Len(buf)
           base == FS!Resized(buf, size)
           new  == FS!Overwritten(buf, data, off)
           head == Before(buf, off)
           suffix == Behind(buf, end)
<1>1. /\ Len(buf) \in Nat /\ Len(data) \in Nat /\ end \in Nat /\ size \in Nat
      /\ end <= size /\ Len(buf) <= size /\ off <= end
      /\ Zero \in Bytes /\ \A k \in 1 .. Len(buf) : buf[k] \in Bytes
      /\ \A k \in 1 .. Len(data) : data[k] \in Bytes
  BY DataAssumption
<1>2. \A k \in 1 .. size : base[k] = IF k <= Len(buf) THEN buf[k] ELSE Zero
  BY DEF FS!Resized
<1>3. new = [k \in 1 .. size |-> IF k \in off + 1 .. end THEN data[k - off] ELSE base[k]]
  BY DEF FS!Overwritten
<1> HIDE DEF base, new
<1>4. \A k \in 1 .. size : base[k] \in Bytes
  BY <1>1, <1>2
<1>5. new \in Seq(Bytes) /\ Len(new) = size
  <2>1. \A k \in 1 .. size : (IF k \in off + 1 .. end THEN data[k - off] ELSE base[k]) \in Bytes
    <3>1. \A k \in off + 1 .. end : k - off \in 1 .. Len(data)
      BY <1>1
    <3> QED BY <1>1, <1>4, <3>1
  <2> HIDE DEF size, end
  <2>2. size \in Nat /\ new \in [1 .. size -> Bytes]
    BY <1>1, <1>3, <2>1
  <2>3. new \in Seq(Bytes) /\ Len(new) = size
    BY <2>2
  <2> QED BY <2>3
<1>6. /\ head \in Seq(Bytes) /\ Len(head) = off
      /\ \A k \in 1 .. off : head[k] = IF k <= Len(buf) THEN buf[k] ELSE Zero
  <2>1. head = FS!Resized(buf, off)
    <3>1. CASE off > Len(buf)
      <4>1. Len(buf) < off
        BY <1>1, <3>1
      <4>2. head = buf \o Zeros(off - Len(buf))
        BY <3>1 DEF Before
      <4> QED BY <4>1, <4>2, ResizedIs
    <3>2. CASE ~ (off > Len(buf))
      <4>1. off <= Len(buf)
        BY <1>1, <3>2
      <4>2. head = SubSeq(buf, 1, off)
        BY <3>2 DEF Before
      <4> QED BY <4>1, <4>2, ResizedIs
    <3> QED BY <3>1, <3>2
  <2> HIDE DEF head
  <2> QED BY <2>1, ResizedIs
<1>7. /\ suffix \in Seq(Bytes) /\ Len(suffix) = size - end
      /\ \A k \in 1 .. size - end : suffix[k] = buf[end + k]
  <2>1. suffix = IF end < Len(buf) THEN SubSeq(buf, end + 1, Len(buf)) ELSE <<>>
    BY DEF Behind
  <2> HIDE DEF suffix
  <2>2. CASE end < Len(buf)
    <3>1. PICK a \in Nat, b \in Nat : a = end + 1 /\ b = Len(buf)
      BY <1>1
    <3>2. suffix = SubSeq(buf, a, b) /\ size = b /\ a <= b /\ end = a - 1
      BY <1>1, <2>1, <2>2, <3>1
    <3> HIDE DEF size, end
    <3>3. \A k \in a .. b : buf[k] \in Bytes
      BY <1>1, <3>1, <3>2
    <3>4. /\ suffix \in Seq(Bytes) /\ Len(suffix) = b - a + 1
          /\ \A k \in 1 .. b - a + 1 : suffix[k] = buf[a + k - 1]
      BY <3>2, <3>3, SubSeqProperties
    <3>5. b - a + 1 = size - end /\ \A k \in Nat : a + k - 1 = end + k
      BY <3>2
    <3> QED BY <3>4, <3>5
  <2>3. CASE ~ (end < Len(buf))
    <3>1. suffix = <<>>
      BY <2>1, <2>3
    <3>2. size = end
      BY <1>1, <2>3
    <3> HIDE DEF size, end
    <3> QED BY <1>1, <3>1, <3>2
  <2> QED BY <2>2, <2>3
<1> HIDE DEF head, suffix
<1> DEFINE most == head \o data
           all  == most \o suffix
<1>8. /\ most \in Seq(Bytes) /\ Len(most) = end
      /\ \A k \in 1 .. end : most[k] = IF k <= off THEN head[k] ELSE data[k - off]
  BY <1>6, ConcatProperties
<1> HIDE DEF most
<1>9. /\ all \in Seq(Bytes) /\ Len(all) = size
      /\ \A k \in 1 .. size : all[k] = IF k <= end THEN most[k] ELSE suffix[k - end]
  <2> HIDE DEF size, end
  <2>1. Len(most) + Len(suffix) = size
    BY <1>1, <1>7, <1>8
  <2>2. all \in Seq(Bytes)
    BY <1>7, <1>8
  <2>3. /\ Len(all) = Len(most) + Len(suffix)
        /\ \A k \in 1 .. Len(most) + Len(suffix) :
             all[k] = IF k <= Len(most) THEN most[k] ELSE suffix[k - Len(most)]
    BY <1>7, <1>8, ConcatProperties
  <2> HIDE DEF all
  <2> QED BY <1>8, <2>1, <2>2, <2>3
<1> HIDE DEF all
<1>10. ASSUME NEW k \in 1 .. size
       PROVE  all[k] = new[k]
  <2>1. CASE k <= off
    <3>1. k \in 1 .. off /\ k \in 1 .. end /\ k <= end /\ k \notin off + 1 .. end
      BY <1>1, <2>1
    <3>2. all[k] = IF k <= Len(buf) THEN buf[k] ELSE Zero
      BY <1>6, <1>8, <1>9, <2>1, <3>1
    <3> QED BY <1>2, <1>3, <3>1, <3>2
  <2>2. CASE k > off /\ k <= end
    <3>1. k \in 1 .. end /\ k \in off + 1 .. end /\ ~ (k <= off)
      BY <1>1, <2>2
    <3>2. all[k] = data[k - off]
      BY <1>8, <1>9, <2>2, <3>1
    <3> QED BY <1>3, <3>1, <3>2
  <2>3. CASE k > end
    <3>1. /\ k - end \in 1 .. size - end /\ end + (k - end) = k
          /\ k \notin off + 1 .. end /\ k <= Len(buf) /\ ~ (k <= end)
      BY <1>1, <2>3
    <3>2. all[k] = buf[k]
      BY <1>7, <1>9, <3>1
    <3> QED BY <1>2, <1>3, <3>1, <3>2
  <2> QED BY <1>1, <2>1, <2>2, <2>3
<1>11. all = new
  BY <1>5, <1>9, <1>10, SeqEqual
<1> QED BY <1>5, <1>11 DEF all, most, new, head, suffix

LEMMA WriteIs ==
  ASSUME NEW s, StoreOK(s), NEW i, isfile(s, i), NEW data \in Data, NEW off \in Lengths
  PROVE  write(s, i, data, off).store = ec_put(s, i, FS!Overwritten(ec_get(s, i), data, off))
<1> DEFINE buf == ec_get(s, i)
<1>1. i \in Live(s) /\ buf \in Seq(Bytes) /\ data \in Seq(Bytes) /\ off \in Nat
  BY KindIs, NodeIs, DataAssumption DEF ec_get
<1>2. write(s, i, data, off).store
        = ec_put(s, i, Before(buf, off) \o data \o Behind(buf, off + Len(data)))
  BY <1>1 DEF write, Before, Behind
<1> HIDE DEF buf
<1>3. Before(buf, off) \o data \o Behind(buf, off + Len(data))
        = FS!Overwritten(buf, data, off)
  BY <1>1, OverwrittenIs
<1> QED BY <1>2, <1>3 DEF buf

\* put of a file changes one node.
LEMMA PutTree ==
  ASSUME NEW s, StoreOK(s), NEW i, isfile(s, i), NEW data \in Seq(Bytes)
  PROVE  TreeOf(ec_put(s, i, data)) = [TreeOf(s) EXCEPT ![i].data = data]
<1> DEFINE t == ec_put(s, i, data)
           f == WithData(s, i, data)
           tree == TreeOf(s)
<1>1. i \in Live(s) /\ s.extents[i].type = T_FILE /\ s.extents[i] \in Nodes
  BY KindIs
<1>2. /\ s = [inum |-> s.inum, extents |-> s.extents]
      /\ s.extents[i] = [type |-> s.extents[i].type, data |-> s.extents[i].data]
  BY <1>1, StoreIs, NodeIs
<1>3. t = [inum |-> s.inum, extents |-> f]
  BY <1>1, <1>2, PutIs
<1>4. /\ DOMAIN f = Live(s) /\ f[i] = [type |-> T_FILE, data |-> data]
      /\ \A j \in Live(s) \ {i} : f[j] = s.extents[j]
  BY <1>1 DEF WithData
<1> HIDE DEF f
<1>5. Live(t) = Live(s) /\ t.extents = f
  BY <1>3, <1>4 DEF Live
<1> HIDE DEF t
<1>6. NodeOf(t, i) = [type |-> T_FILE, data |-> data]
  BY <1>4, <1>5 DEF NodeOf, T_FILE, T_DIR
<1>7. \A j \in Live(s) \ {i} : NodeOf(t, j) = NodeOf(s, j)
  BY <1>4, <1>5, SameNode
<1>8. /\ tree = [j \in Live(s) |-> NodeOf(s, j)] /\ DOMAIN tree = Live(s)
      /\ tree[i] = [type |-> T_FILE, data |-> s.extents[i].data]
  BY <1>1, <1>2, NodeOfIs DEF TreeOf, T_FILE, T_DIR
<1> HIDE DEF tree
<1>9. [tree[i] EXCEPT !.data = data] = [type |-> T_FILE, data |-> data]
  <2>1. PICK x : x = tree[i]
    OBVIOUS
  <2>2. x = [type |-> T_FILE, data |-> x.data]
    BY <1>8, <2>1
  <2>3. [x EXCEPT !.data = data] = [type |-> T_FILE, data |-> data]
    BY <2>2
  <2> QED BY <2>1, <2>3
<1>10. [tree EXCEPT ![i].data = data]
         = [j \in Live(s) |-> IF j = i THEN [tree[i] EXCEPT !.data = data] ELSE tree[j]]
  BY <1>8
<1>11. TreeOf(t) = [j \in Live(s) |-> NodeOf(t, j)]
  BY <1>5 DEF TreeOf
<1>12. \A j \in Live(s) : NodeOf(t, j) = IF j = i THEN [tree[i] EXCEPT !.data = data] ELSE tree[j]
  BY <1>6, <1>7, <1>8, <1>9
<1>13. TreeOf(t) = [tree EXCEPT ![i].data = data]
  BY <1>10, <1>11, <1>12
<1> QED BY <1>13 DEF t, tree

\* What create, mkdir and symlink do to the tree.
LEMMA MadeTree ==
  ASSUME NEW s, TreeOK(s), NEW d \in Folders(s), NEW name \in Names, ~ found(s, d, name),
         NEW node \in Nodes, node.type = T_DIR => node.data = <<>>, s.inum < MAX_INUM,
         NEW new, node.type # T_DIR => new = node,
         node.type = T_DIR => new = [type |-> T_DIR, data |-> FS!EmptyDir]
  PROVE  /\ TreeOf(Made(s, d, name, node))
              = FS!With(FS!With(TreeOf(s), s.inum + 1, new), d,
                        [TreeOf(s)[d] EXCEPT !.data = FS!With(@, name, s.inum + 1)])
         /\ name \notin DOMAIN TreeOf(s)[d].data
         /\ d \in DOMAIN TreeOf(s) /\ TreeOf(s)[d].type = T_DIR
<1> DEFINE n    == s.inum + 1
           t    == Made(s, d, name, node)
           e    == [name |-> name, inum |-> n]
           list == readdir(s, d)
           more == readdir(t, d)
           tree == TreeOf(s)
           map  == DirMap(list)
           with == FS!With(map, name, n)
<1>1. StoreOK(s) /\ Unique(s) /\ d \in Live(s) /\ s.extents[d].type = T_DIR /\ list \in Seq(Entries)
  BY FolderIs DEF TreeOK
<1>2. StoreOK(t) /\ Grows(s, t, d, name)
  BY <1>1, MadeGrows
<1>3. Unique(t)
  BY <1>2, GrowthIs DEF TreeOK
<1>4. n \notin Live(s) /\ d # n
  BY <1>1, StoreIs
<1>5. /\ Live(t) = Live(s) \cup {n} /\ t.extents[n] = node
      /\ \A j \in Live(s) \ {d} : t.extents[j] = s.extents[j]
  BY <1>1, <1>4 DEF Made, Live
<1> HIDE DEF t
<1>6. /\ t.inum = n /\ n \in 2 .. MAX_INUM /\ more = Append(list, e) /\ d \in Folders(t)
      /\ \A c \in Folders(t) \ Folders(s) : readdir(t, c) = <<>>
  <2>1. t.inum = n
    BY <1>2 DEF Grows
  <2> QED BY <1>2, <2>1 DEF Grows
<1> HIDE DEF n
<1>7. e \in Entries /\ e.name = name /\ e.inum = n
  BY <1>6 DEF Entries
<1> HIDE DEF e, list, more
<1>8. NamesOnce(list) /\ NamesOnce(more)
  BY <1>1, <1>3, <1>6, OnceIs DEF list, more
<1>9. DirMap(more) = with /\ name \notin DOMAIN map
  BY <1>1, <1>6, <1>7, <1>8, DirMapAppend
<1> HIDE DEF map, with
<1>10. NodeOf(t, d) = [type |-> T_DIR, data |-> with]
  <2>1. d \in Live(t) /\ t.extents[d].type = T_DIR
    BY <1>2, <1>6, FolderIs
  <2> QED BY <1>2, <1>9, <2>1, NodeOfIs DEF more
<1>11. NodeOf(t, n) = new
  <2>1. CASE node.type # T_DIR
    BY <1>2, <1>5, <2>1, NodeOfIs
  <2>2. CASE node.type = T_DIR
    <3>1. n \in Folders(t) \ Folders(s)
      BY <1>2, <1>4, <1>5, <2>2, KindIs DEF Folders
    <3>2. readdir(t, n) = <<>>
      BY <1>6, <3>1
    <3>3. DirMap(<<>>) = FS!EmptyDir
      BY DEF DirMap, FS!EmptyDir
    <3> QED BY <1>2, <1>5, <2>2, <3>2, <3>3, NodeOfIs
  <2> QED BY <2>1, <2>2
<1>12. \A j \in Live(s) \ {d} : NodeOf(t, j) = NodeOf(s, j)
  BY <1>5, SameNode
<1>13. /\ tree[d] = [type |-> T_DIR, data |-> map]
       /\ \A j \in Live(s) : tree[j] = NodeOf(s, j)
       /\ DOMAIN tree = Live(s)
  BY <1>1, NodeOfIs DEF list, map
<1> HIDE DEF tree
<1> DEFINE dir == [tree[d] EXCEPT !.data = FS!With(@, name, n)]
<1>14. dir = [type |-> T_DIR, data |-> with]
  <2>1. PICK x : x = tree[d]
    OBVIOUS
  <2>2. x = [type |-> T_DIR, data |-> x.data] /\ x.data = map
    BY <1>13, <2>1
  <2>3. [x EXCEPT !.data = with] = [type |-> T_DIR, data |-> with]
    BY <2>2
  <2>4. dir = [x EXCEPT !.data = with]
    BY <2>1, <2>2 DEF with
  <2> QED BY <2>3, <2>4
<1> HIDE DEF dir
<1>15. FS!With(FS!With(tree, n, new), d, dir)
         = [z \in Live(s) \cup {n} |-> IF z = d THEN dir ELSE IF z = n THEN new ELSE tree[z]]
  BY <1>1, <1>13 DEF FS!With
<1>16. TreeOf(t) = [z \in Live(s) \cup {n} |-> NodeOf(t, z)]
  BY <1>5 DEF TreeOf
<1>17. \A z \in Live(s) \cup {n} :
         NodeOf(t, z) = IF z = d THEN dir ELSE IF z = n THEN new ELSE tree[z]
  BY <1>4, <1>10, <1>11, <1>12, <1>13, <1>14
<1>18. TreeOf(t) = FS!With(FS!With(tree, n, new), d, dir)
  BY <1>15, <1>16, <1>17
<1>19. name \notin DOMAIN tree[d].data /\ d \in DOMAIN tree /\ tree[d].type = T_DIR
  BY <1>1, <1>9, <1>13
<1> QED BY <1>18, <1>19 DEF t, n, dir, tree

\* What unlink does to the tree.
LEMMA UnlinkTree ==
  ASSUME NEW s, TreeOK(s), NEW d \in Folders(s), NEW name \in Names, found(s, d, name),
         ~ isdir(s, lookup(s, d, name)), NEW t, t = unlink(s, d, name).store
  PROVE  /\ TreeOf(t) = FS!Without([TreeOf(s) EXCEPT ![d].data = FS!Without(@, name)],
                                   lookup(s, d, name))
         /\ name \in DOMAIN TreeOf(s)[d].data
         /\ TreeOf(s)[d].data[name] = lookup(s, d, name)
         /\ lookup(s, d, name) \in Live(s)
         /\ t.inum = s.inum
<1> DEFINE list == readdir(s, d)
           less == readdir(t, d)
           k    == First(list, name)
           i    == lookup(s, d, name)
           tree == TreeOf(s)
           map  == DirMap(list)
           rest == FS!Without(map, name)
<1>1. /\ StoreOK(s) /\ Unique(s) /\ AllLive(s)
      /\ d \in Live(s) /\ s.extents[d].type = T_DIR /\ list \in Seq(Entries)
  BY FolderIs DEF TreeOK
<1>2. k \in DOMAIN list /\ i = list[k].inum /\ StoreOK(t) /\ Shrinks(s, t, d, k)
  BY <1>1, UnlinkShrinks
<1>3. list[k].name = name
  BY <1>1, FirstIs DEF found
<1>4. Unique(t) /\ i \in Live(s)
  BY <1>2, ShrinkingIs, FoundIs DEF TreeOK
<1> HIDE DEF k, i
<1>5. /\ t.inum = s.inum /\ Live(t) = Live(s) \ {i} /\ d \in Folders(t) /\ less = RemoveAt(list, k)
      /\ \A j \in Live(t) \ {d} : t.extents[j] = s.extents[j]
  BY <1>2 DEF Shrinks
<1> HIDE DEF list, less
<1>6. NamesOnce(list) /\ NamesOnce(less)
  BY <1>1, <1>4, <1>5, OnceIs DEF list, less
<1>7. DirMap(less) = rest
  BY <1>1, <1>2, <1>3, <1>5, <1>6, DirMapRemove
<1>8. name \in DOMAIN map /\ map[name] = i
  BY <1>1, <1>2, <1>3, <1>6, DirMapIs
<1> HIDE DEF map, rest
<1>9. d \in Live(t) /\ NodeOf(t, d) = [type |-> T_DIR, data |-> rest]
  <2>1. d \in Live(t) /\ t.extents[d].type = T_DIR
    BY <1>2, <1>5, FolderIs
  <2> QED BY <1>2, <1>7, <2>1, NodeOfIs DEF less
<1>10. \A j \in Live(t) \ {d} : NodeOf(t, j) = NodeOf(s, j)
  BY <1>5, SameNode
<1>11. /\ tree[d] = [type |-> T_DIR, data |-> map]
       /\ tree = [j \in Live(s) |-> NodeOf(s, j)]
       /\ DOMAIN tree = Live(s)
  BY <1>1, NodeOfIs DEF list, map, TreeOf
<1> HIDE DEF tree
<1> DEFINE cut == [tree EXCEPT ![d].data = FS!Without(@, name)]
<1>12. cut = [j \in Live(s) |-> IF j = d THEN [type |-> T_DIR, data |-> rest] ELSE tree[j]]
  <2>1. PICK x : x = tree[d]
    OBVIOUS
  <2>2. x = [type |-> T_DIR, data |-> x.data] /\ x.data = map
    BY <1>11, <2>1
  <2>3. [x EXCEPT !.data = rest] = [type |-> T_DIR, data |-> rest]
    BY <2>2
  <2>4. cut = [tree EXCEPT ![d] = [x EXCEPT !.data = rest]]
    BY <1>1, <1>11, <2>1, <2>2 DEF rest
  <2>5. cut = [tree EXCEPT ![d] = [type |-> T_DIR, data |-> rest]]
    BY <2>3, <2>4
  <2> HIDE DEF cut
  <2> QED BY <1>11, <2>5
<1> HIDE DEF cut
<1>13. FS!Without(cut, i) = [j \in Live(s) \ {i} |-> cut[j]]
  BY <1>12 DEF FS!Without
<1>14. TreeOf(t) = [j \in Live(s) \ {i} |-> NodeOf(t, j)]
  BY <1>5 DEF TreeOf
<1>15. \A j \in Live(s) \ {i} : NodeOf(t, j) = cut[j]
  BY <1>5, <1>9, <1>10, <1>11, <1>12
<1>16. TreeOf(t) = FS!Without(cut, i)
  BY <1>13, <1>14, <1>15
<1>17. name \in DOMAIN tree[d].data /\ tree[d].data[name] = i
  BY <1>8, <1>11
<1> QED BY <1>4, <1>5, <1>16, <1>17 DEF cut, i, tree

-----------------------------------------------------------------------------
(* The steps of the handlers are steps of FileSystem.                      *)

FSStep == [FS!Next]_(FS!vars)

LEMMA TreesAre == Tree = TreeOf(store) /\ Tree' = TreeOf(store')
BY DEF Tree, TreeOf, NodeOf, DirMap

\* A step that leaves the store alone is none of the tree, or ends the process.
LEMMA QuietMaps ==
  ASSUME store' = store, status' = status \/ (status = "running" /\ status' \in Fatal)
  PROVE  FSStep
<1>1. Tree' = Tree
  BY TreesAre
<1>2. CASE status' = status
  BY <1>1, <1>2 DEF FSStep, FS!vars
<1>3. CASE status = "running" /\ status' \in Fatal
  <2>1. FS!Die
    BY <1>1, <1>3 DEF FS!Die, Fatal
  <2> QED BY <2>1 DEF FSStep, FS!Next
<1> QED BY <1>2, <1>3

\* A method that leaves the store alone, whatever becomes of the process.
LEMMA SameMaps ==
  ASSUME NEW out, Ran(out), out.store = store, status = "running"
  PROVE  FSStep
BY QuietMaps DEF Ran

\* create, mkdir and symlink
LEMMA MadeMaps ==
  ASSUME IInv, NEW d \in Folders(store), NEW name \in Names, CanMake(d, name),
         NEW node \in Nodes, node.type = T_DIR => node.data = <<>>,
         NEW new \in FS!NewNodes, node.type # T_DIR => new = node,
         node.type = T_DIR => new = [type |-> T_DIR, data |-> FS!EmptyDir],
         Ran(OK(Made(store, d, name, node))), status = "running"
  PROVE  FSStep
<1> DEFINE n == store.inum + 1
<1>1. TreeOK(store) /\ StoreOK(store) /\ ~ found(store, d, name) /\ store.inum < MAX_INUM
  BY DEF IInv, TreeOK, CanMake
<1>2. store' = Made(store, d, name, node) /\ status' = "running"
  BY DEF Ran, OK, Fatal
<1>3. /\ Tree' = FS!With(FS!With(Tree, n, new), d, [Tree[d] EXCEPT !.data = FS!With(@, name, n)])
      /\ name \notin DOMAIN Tree[d].data
      /\ d \in DOMAIN Tree /\ Tree[d].type = T_DIR
  BY <1>1, <1>2, TreesAre, MadeTree
<1>4. store'.inum = n /\ store.inum \in Nat /\ n \in 1 .. MAX_INUM
  BY <1>1, <1>2, StoreIs DEF Made
<1> HIDE DEF n
<1>5. n = store.inum + 1
  BY DEF n
<1>6. FS!Issue(n)
  BY <1>4, <1>5 DEF FS!Issue
<1>7. FS!Make(n, d, name, new)
  BY <1>2, <1>3 DEF FS!Make
<1>8. d \in FS!Dirs
  BY <1>3 DEF FS!Dirs, FS!T_DIR, T_DIR
<1> QED BY <1>4, <1>6, <1>7, <1>8 DEF FSStep, FS!Next

\* unlink
LEMMA UnlinkMaps ==
  ASSUME IInv, NEW d \in Folders(store), NEW name \in Names, found(store, d, name),
         ~ isdir(store, lookup(store, d, name)),
         Ran(unlink(store, d, name)), status = "running"
  PROVE  FSStep
<1> DEFINE i == lookup(store, d, name)
           t == unlink(store, d, name).store
<1>1. TreeOK(store) /\ StoreOK(store)
  BY DEF IInv, TreeOK
<1>2. /\ TreeOf(t) = FS!Without([TreeOf(store) EXCEPT ![d].data = FS!Without(@, name)], i)
      /\ name \in DOMAIN TreeOf(store)[d].data
      /\ TreeOf(store)[d].data[name] = i /\ i \in Live(store)
      /\ t.inum = store.inum
  BY <1>1, UnlinkTree
<1>3. store' = t /\ status' = "running"
  <2>1. unlink(store, d, name).status = "OK"
    BY <1>2 DEF unlink, OK
  <2> HIDE DEF t
  <2> QED BY <2>1 DEF Ran, Fatal, t
<1>4. d \in Live(store) /\ store.extents[d].type = T_DIR /\ store.extents[i].type # T_DIR
  BY <1>1, <1>2, FolderIs, KindIs
<1>5. /\ Tree[i].type # T_DIR /\ Tree[d].type = T_DIR /\ d \in DOMAIN Tree
  BY <1>1, <1>2, <1>4, TreesAre, NodeOfIs
<1> HIDE DEF t, i
<1>6. FS!Unlink(d, name)
  <2>1. Tree[d].data[name] = i /\ name \in DOMAIN Tree[d].data
    BY <1>2, TreesAre
  <2>2. Tree' = FS!Without([Tree EXCEPT ![d].data = FS!Without(@, name)], i)
    BY <1>2, <1>3, TreesAre
  <2>3. store'.inum = store.inum
    BY <1>2, <1>3
  <2> QED BY <1>3, <1>5, <2>1, <2>2, <2>3 DEF FS!Unlink, FS!T_DIR, T_DIR
<1>7. d \in FS!Dirs
  BY <1>5 DEF FS!Dirs, FS!T_DIR, T_DIR
<1> QED BY <1>6, <1>7 DEF FSStep, FS!Next

\* A file whose data are put.
LEMMA PutMaps ==
  ASSUME IInv, NEW i, isfile(store, i), NEW data \in Seq(Bytes),
         store' = ec_put(store, i, data)
  PROVE  /\ Tree' = [Tree EXCEPT ![i].data = data]
         /\ i \in FS!Files /\ Tree[i].data = ec_get(store, i)
         /\ store'.inum = store.inum
<1>1. StoreOK(store)
  BY DEF IInv
<1>2. i \in Live(store) /\ store.extents[i].type = T_FILE
  BY <1>1, KindIs
<1>3. Tree' = [Tree EXCEPT ![i].data = data]
  BY <1>1, TreesAre, PutTree
<1>4. Tree[i] = store.extents[i] /\ DOMAIN Tree = Live(store)
  BY <1>1, <1>2, TreesAre, NodeOfIs DEF T_FILE, T_DIR
<1>5. i \in FS!Files
  BY <1>2, <1>4 DEF FS!Files, FS!T_FILE, T_FILE
<1>6. Tree[i].data = ec_get(store, i)
  BY <1>4 DEF ec_get
<1>7. store'.inum = store.inum
  BY DEF ec_put
<1> QED BY <1>3, <1>5, <1>6, <1>7

\* setattr
LEMMA SetattrMaps ==
  ASSUME IInv, NEW i, i \in Live(store) => isfile(store, i), NEW n \in Lengths,
         Ran(setattr(store, i, n)), status = "running"
  PROVE  FSStep
<1> DEFINE out == setattr(store, i, n)
           data == FS!Resized(ec_get(store, i), n)
<1>1. StoreOK(store) /\ n \in Nat
  BY DataAssumption DEF IInv
<1>2. CASE i \notin Live(store)
  <2>1. out.store = store
    BY <1>2 DEF setattr, OK, Fail
  <2> QED BY <2>1, SameMaps
<1>3. CASE i \in Live(store)
  <2>1. isfile(store, i)
    BY <1>3
  <2>2. out.store = store \/ out.store = ec_put(store, i, data)
    BY <1>1, <2>1, SetattrIs
  <2>3. out.status = "OK"
    BY <1>3 DEF setattr, OK
  <2> HIDE DEF out
  <2>4. CASE out.store = store
    BY <2>4, SameMaps DEF out
  <2>5. CASE out.store = ec_put(store, i, data)
    <3>1. store' = ec_put(store, i, data) /\ status' = "running"
      BY <2>3, <2>5 DEF Ran, Fatal, out
    <3>2. data \in Seq(Bytes)
      <4>1. ec_get(store, i) \in Seq(Bytes)
        BY <1>1, <2>1, KindIs, NodeIs DEF ec_get
      <4> QED BY <1>1, <4>1, ResizedIs
    <3>3. /\ Tree' = [Tree EXCEPT ![i].data = data]
          /\ i \in FS!Files /\ Tree[i].data = ec_get(store, i)
          /\ store'.inum = store.inum
      BY <2>1, <3>1, <3>2, PutMaps
    <3>4. FS!SetSize(i, n)
      BY <3>1, <3>3 DEF FS!SetSize
    <3> QED BY <3>3, <3>4 DEF FSStep, FS!Next
  <2> QED BY <2>2, <2>4, <2>5
<1> QED BY <1>2, <1>3

\* write
LEMMA WriteMaps ==
  ASSUME IInv, NEW i, i \in Live(store) => isfile(store, i),
         NEW bytes \in Data, NEW off \in Lengths,
         Ran(write(store, i, bytes, off)), status = "running"
  PROVE  FSStep
<1> DEFINE out == write(store, i, bytes, off)
           data == FS!Overwritten(ec_get(store, i), bytes, off)
<1>1. StoreOK(store) /\ bytes \in Seq(Bytes) /\ off \in Nat
  BY DataAssumption DEF IInv
<1>2. CASE i \notin Live(store)
  <2>1. out.store = store
    BY <1>2 DEF write, Fail
  <2> QED BY <2>1, SameMaps
<1>3. CASE i \in Live(store)
  <2>1. isfile(store, i)
    BY <1>3
  <2>2. out.store = ec_put(store, i, data)
    BY <1>1, <2>1, WriteIs
  <2>3. out.status = "OK"
    BY <1>3 DEF write
  <2> HIDE DEF out
  <2>4. store' = ec_put(store, i, data) /\ status' = "running"
    BY <2>2, <2>3 DEF Ran, Fatal, out
  <2>5. data \in Seq(Bytes)
    <3>1. ec_get(store, i) \in Seq(Bytes)
      BY <1>1, <2>1, KindIs, NodeIs DEF ec_get
    <3> QED BY <1>1, <3>1, OverwrittenIs
  <2>6. /\ Tree' = [Tree EXCEPT ![i].data = data]
        /\ i \in FS!Files /\ Tree[i].data = ec_get(store, i)
        /\ store'.inum = store.inum
    BY <2>1, <2>4, <2>5, PutMaps
  <2>7. FS!Write(i, bytes, off)
    BY <2>4, <2>6 DEF FS!Write
  <2> QED BY <2>6, <2>7 DEF FSStep, FS!Next
<1> QED BY <1>2, <1>3

\* The nodes that are made.
LEMMA NewNodesAre ==
  /\ EmptyNode(T_FILE) \in FS!NewNodes
  /\ [type |-> T_DIR, data |-> FS!EmptyDir] \in FS!NewNodes
  /\ \A link \in Targets : [type |-> T_SYMLINK, data |-> link] \in FS!NewNodes
BY DEF FS!NewNodes, EmptyNode, FS!T_FILE, FS!T_DIR, FS!T_SYMLINK, T_FILE, T_DIR, T_SYMLINK

LEMMA StepRefines ==
  ASSUME IInv, Calls \cap {"utimes_dir", "utimes_link"} = {}, [Next]_vars
  PROVE  FSStep
<1>1. Dirs = Folders(store) /\ TreeOK(store)
  BY DEF Dirs, Folders, IInv, TreeOK
<1>2. ASSUME NEW dir \in Dirs, NEW name \in Names, CanMake(dir, name), status = "running",
             Ran(create(store, dir, name))
      PROVE  FSStep
  <2>1. create(store, dir, name) = OK(Made(store, dir, name, EmptyNode(T_FILE)))
    BY <1>1, <1>2, CreateIs
  <2>2. EmptyNode(T_FILE) \in Nodes /\ EmptyNode(T_FILE) \in FS!NewNodes
        /\ EmptyNode(T_FILE).type # T_DIR
    BY EmptyNodes, NewNodesAre
  <2> QED BY <1>1, <1>2, <2>1, <2>2, MadeMaps
<1>3. ASSUME NEW p \in Procs, NEW dir \in Dirs, NEW name \in Names,
             Creat(p, dir, name) \/ Mknod(p, dir, name)
      PROVE  FSStep
  BY <1>2, <1>3 DEF Creat, Mknod, Makes
<1>4. ASSUME NEW p \in Procs, NEW dir \in Dirs, NEW name \in Names, Mkdir(p, dir, name)
      PROVE  FSStep
  <2>1. CanMake(dir, name) /\ status = "running" /\ Ran(mkdir(store, dir, name))
    BY <1>4 DEF Mkdir, Makes
  <2>2. mkdir(store, dir, name) = OK(Made(store, dir, name, EmptyNode(T_DIR)))
    BY <1>1, <2>1, CreateIs
  <2>3. EmptyNode(T_DIR) \in Nodes /\ EmptyNode(T_DIR).data = <<>> /\ EmptyNode(T_DIR).type = T_DIR
    BY EmptyNodes DEF EmptyNode
  <2>4. [type |-> T_DIR, data |-> FS!EmptyDir] \in FS!NewNodes
    BY NewNodesAre
  <2> QED BY <1>1, <2>1, <2>2, <2>3, <2>4, MadeMaps
<1>5. ASSUME NEW p \in Procs, NEW dir \in Dirs, NEW name \in Names, NEW link \in Targets,
             Symlink(p, dir, name, link)
      PROVE  FSStep
  <2> DEFINE node == [type |-> T_SYMLINK, data |-> link]
  <2>1. CanMake(dir, name) /\ status = "running" /\ Ran(symlink(store, dir, link, name))
    BY <1>5 DEF Symlink, Makes
  <2>2. symlink(store, dir, link, name) = OK(Made(store, dir, name, node))
    BY <1>1, Linked DEF TreeOK
  <2>3. node \in Nodes /\ node.type # T_DIR /\ node \in FS!NewNodes
    BY NewNodesAre DEF Nodes, T_SYMLINK, T_DIR
  <2> HIDE DEF node
  <2> QED BY <1>1, <2>1, <2>2, <2>3, MadeMaps
<1>6. ASSUME NEW p \in Procs, NEW dir \in Dirs, NEW name \in Names, Unlink(p, dir, name)
      PROVE  FSStep
  <2>1. /\ found(store, dir, name) /\ ~ isdir(store, lookup(store, dir, name))
        /\ Ran(unlink(store, dir, name)) /\ status = "running"
    BY <1>6 DEF Unlink, Makes
  <2> QED BY <1>1, <2>1, UnlinkMaps
<1>7. ASSUME NEW p \in Procs,
             \/ OpenInode(p) \/ WalkOn(p) \/ Close(p) \/ ReadDir(p) \/ CloseDir(p)
             \/ \E dir \in Dirs, name \in Names : Open(p, dir, name)
             \/ \E off \in Lengths : ReadSize(p, off)
             \/ \E dir \in Dirs : List(p, dir)
      PROVE  FSStep
  <2>1. UNCHANGED <<store, status>>
    BY <1>7 DEF OpenInode, WalkOn, Close, ReadDir, CloseDir, Open, ReadSize, List, Walk
  <2> QED BY <2>1, QuietMaps
<1>8. ASSUME NEW p \in Procs, ReadLink(p)
      PROVE  FSStep
  <2>1. Ran(readlink(store, call[p].ino)) /\ status = "running"
    BY <1>8 DEF ReadLink, Waits
  <2>2. readlink(store, call[p].ino).store = store
    BY DEF readlink, Fail
  <2> QED BY <2>1, <2>2, SameMaps
<1>9. ASSUME NEW p \in Procs, Read(p)
      PROVE  FSStep
  <2>1. Ran(read(store, fd[p].ino, Page, call[p].off)) /\ status = "running"
    BY <1>9 DEF Read, Waits
  <2>2. read(store, fd[p].ino, Page, call[p].off).store = store
    BY DEF read, Fail
  <2> QED BY <2>1, <2>2, SameMaps
<1>10. ASSUME NEW p \in Procs, NEW data \in Data, NEW off \in Lengths, Write(p, data, off)
       PROVE  FSStep
  <2>1. Ran(write(store, fd[p].ino, data, off)) /\ status = "running" /\ fd[p] # NoFile
    BY <1>10 DEF Write, Makes
  <2> QED BY <2>1, OpenFileIs, WriteMaps
<1>11. ASSUME NEW p \in Procs, NEW n \in Lengths, Ftruncate(p, n)
       PROVE  FSStep
  <2>1. Ran(setattr(store, fd[p].ino, n)) /\ status = "running" /\ fd[p] # NoFile
    BY <1>11 DEF Ftruncate, Makes
  <2> QED BY <2>1, OpenFileIs, SetattrMaps
<1>12. ASSUME NEW p \in Procs, NEW i \in Live(store), Utimes(p, i)
       PROVE  FSStep
  <2>1. /\ Ran(setattr(store, i, 0)) /\ status = "running"
        /\ ~ issymlink(store, i) /\ ~ isdir(store, i)
    BY <1>12, UtimesIs
  <2>2. isfile(store, i)
    BY <1>1, <2>1, KindIs DEF TreeOK
  <2>3. 0 \in Lengths
    BY DataAssumption
  <2> QED BY <2>1, <2>2, <2>3, SetattrMaps
<1>13. CASE UNCHANGED vars
  BY <1>13, QuietMaps DEF vars
<1>14. CASE Next
  <2>1. PICK p \in Procs :
          \/ \E dir \in Dirs, name \in Names :
               \/ Open(p, dir, name)
               \/ Creat(p, dir, name)
               \/ Mknod(p, dir, name)
               \/ Mkdir(p, dir, name)
               \/ \E link \in Targets : Symlink(p, dir, name, link)
               \/ Unlink(p, dir, name)
          \/ OpenInode(p) \/ ReadLink(p) \/ WalkOn(p) \/ Close(p)
          \/ \E off \in Lengths : ReadSize(p, off)
          \/ Read(p)
          \/ \E data \in Data, off \in Lengths : Write(p, data, off)
          \/ \E n \in Lengths : Ftruncate(p, n)
          \/ \E i \in Live(store) : Utimes(p, i)
          \/ \E dir \in Dirs : List(p, dir)
          \/ ReadDir(p) \/ CloseDir(p)
    BY <1>14 DEF Next
  <2> QED BY <2>1, <1>3, <1>4, <1>5, <1>6, <1>7, <1>8, <1>9, <1>10, <1>11, <1>12
<1> QED BY <1>13, <1>14

LEMMA InitRefines == Init => FS!Init
<1>1. SUFFICES ASSUME Init PROVE FS!Init
  OBVIOUS
<1>2. /\ store.inum = 1 /\ Live(store) = {1} /\ status = "running"
      /\ store.extents[1] = [type |-> T_DIR, data |-> <<>>]
  BY <1>1 DEF Init, Live
<1>3. readdir(store, 1) = <<>>
  <2>1. ec_get(store, 1) = <<>> /\ isdir(store, 1)
    BY <1>2, IsDirectory DEF ec_get
  <2>2. <<>> \in Seq(Entries) /\ Text(<<>>) = <<>>
    BY DEF Text
  <2> QED BY <2>1, <2>2, ReadBack
<1>4. DirMap(<<>>) = FS!EmptyDir
  BY DEF DirMap, FS!EmptyDir
<1>5. StoreOK(store)
  BY <1>1, InitOK DEF IInv
<1>6. NodeOf(store, 1) = [type |-> T_DIR, data |-> FS!EmptyDir]
  BY <1>2, <1>3, <1>4, <1>5, NodeOfIs
<1>7. Tree = [i \in {1} |-> [type |-> T_DIR, data |-> FS!EmptyDir]]
  BY <1>2, <1>6, TreesAre DEF TreeOf
<1>8. 1 .. store.inum = {1}
  BY <1>2
<1> QED BY <1>2, <1>7, <1>8 DEF FS!Init, FS!T_DIR, T_DIR

\* The handlers implement the file system that fuse.cc describes, for any
\* number of processes, names and bytes, as long as no call sets the times of a
\* directory or of a symbolic link, which empties it.  What is made, removed and
\* written is what FileSystem says; what a lookup or a listing answers is no part
\* of its state, and is the subject of HandlesLeadBack and NothingListedTwice.
THEOREM Refinement ==
  ASSUME Calls \cap {"utimes_dir", "utimes_link"} = {}
  PROVE  Spec => RefinesFileSystem
<1>1. IInv /\ [Next]_vars => [FS!Next]_(FS!vars)
  BY StepRefines DEF FSStep
<1> QED BY <1>1, InitRefines, Inductive, PTL DEF Spec, RefinesFileSystem, FS!Spec
=============================================================================
