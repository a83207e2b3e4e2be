----------------------------- MODULE FuseServer -----------------------------
(***************************************************************************)
(* The FUSE handlers of yfs_client (fuse.cc) and the programs that use     *)
(* the mount point.  fuse_session_loop serves one request at a time, so a  *)
(* handler is one step; but a system call is often several requests, and   *)
(* requests of other processes come in between.  What a process knows from *)
(* an earlier reply (an inode number, a size, an offset in a listing) may  *)
(* be stale when its next request uses it.                                 *)
(*                                                                         *)
(* What the kernel does is not in the repository.  It is modelled as the   *)
(* handlers meet it: it looks a name up before it uses it, keeps nothing   *)
(* from one call to the next (the handlers reply with timeouts of 0), and  *)
(* holds the lock of a directory from the lookup to the request that       *)
(* changes the directory, so it sends no request to make a name that is    *)
(* there, or to unlink one that is not there or that names a directory.    *)
(***************************************************************************)
EXTENDS YfsClient

CONSTANTS Procs,     \* processes, each with one call at a time and one open file
          Names,     \* names of directory entries
          Bytes,     \* the values of a byte
          Data,      \* what one write writes
          Lengths,   \* offsets and lengths that the processes use
          Page,      \* bytes of one READ
          DirentSize,  \* fuse_dirent_size: the bytes that an entry of each name takes
          Chunk,     \* bytes of one reply to READDIR
          MAX_INUM,  \* bound: nothing is made beyond this inode number
          Calls,     \* the system calls that the processes make
          NoFile     \* the descriptor of a process that has no file open

ASSUME CallsAssumption ==
  /\ Calls \subseteq {"open", "creat", "mknod", "mkdir", "symlink", "unlink", "read",
                      "write", "ftruncate", "utimes", "utimes_dir", "utimes_link",
                      "getdents"}
  /\ {Page, Chunk, MAX_INUM} \subseteq Nat \ {0}

\* The kernel asks for a page, and no entry is larger than that.
ASSUME DirentAssumption == DirentSize \in [Names -> 1 .. Chunk]

\* 0 is the length that Utimes sets.
ASSUME DataAssumption ==
  /\ Zero \in Bytes
  /\ \A data \in Data : data \in Seq(Bytes)
  /\ Lengths \subseteq Nat /\ 0 \in Lengths

\* A symbolic link holds the name of another entry of its directory.
Targets == {<<name>> : name \in Names}

VARIABLES store,   \* the extents (see YfsClient)
          status,  \* "running", or how the process of yfs_client ended
          call,    \* what each process is waiting for
          fd       \* the open file of each process: the entry it was opened by

vars == <<store, status, call, fd>>

Idle == [op |-> "idle"]

Init ==
  /\ store = [inum |-> 1, extents |-> [i \in {1} |-> [type |-> T_DIR, data |-> <<>>]]]
  /\ status = "running"
  /\ call = [p \in Procs |-> Idle]
  /\ fd = [p \in Procs |-> NoFile]

Dirs == {i \in Live(store) : isdir(store, i)}

\* A process that waits for nothing makes a call, and one that waits for the
\* reply to an earlier request of its call sends the next.
Makes(p, op) == status = "running" /\ call[p] = Idle /\ op \in Calls
Waits(p, op) == status = "running" /\ call[p].op = op
Goes(p, next) == call' = [call EXCEPT ![p] = next]

\* The handler's method ran: the store it left, and whether the process lives.
Ran(out) ==
  /\ store' = out.store
  /\ status' = IF out.status \in Fatal THEN out.status ELSE status

-----------------------------------------------------------------------------
(* open: LOOKUP, READLINK as often as the name is a symbolic link, OPEN.   *)

\* fuseserver_lookup: what the name leads to.
Walk(p, dir, name) ==
  LET i == lookup(store, dir, name)
  IN  /\ IF ~ found(store, dir, name) \/ isdir(store, i) THEN Goes(p, Idle)
         ELSE IF isfile(store, i)
              THEN Goes(p, [op |-> "opening", dir |-> dir, name |-> name, ino |-> i])
              ELSE Goes(p, [op |-> "following", dir |-> dir, ino |-> i])
      /\ UNCHANGED <<store, status, fd>>

Open(p, dir, name) ==
  /\ Makes(p, "open")
  /\ fd[p] = NoFile
  /\ Walk(p, dir, name)

\* fuseserver_readlink: the link may have been removed since the lookup, and one
\* that Utimes emptied leads nowhere.
ReadLink(p) ==
  LET out == readlink(store, call[p].ino)
  IN  /\ Waits(p, "following")
      /\ Ran(out)
      /\ Goes(p, IF out.status = "OK" /\ out.data # <<>>
                 THEN [op |-> "walking", dir |-> call[p].dir, name |-> out.data[1]]
                 ELSE Idle)
      /\ UNCHANGED fd

WalkOn(p) ==
  /\ Waits(p, "walking")
  /\ Walk(p, call[p].dir, call[p].name)

\* fuseserver_open replies without looking at the inode.
OpenInode(p) ==
  /\ Waits(p, "opening")
  /\ fd' = [fd EXCEPT ![p] =
              [dir |-> call[p].dir, name |-> call[p].name, ino |-> call[p].ino]]
  /\ Goes(p, Idle)
  /\ UNCHANGED <<store, status>>

\* There is no handler for RELEASE or FORGET.
Close(p) ==
  /\ call[p] = Idle
  /\ fd[p] # NoFile
  /\ fd' = [fd EXCEPT ![p] = NoFile]
  /\ UNCHANGED <<store, status, call>>

-----------------------------------------------------------------------------
(* Calls that change a directory, each under the lock of the directory.    *)

CanMake(dir, name) == ~ found(store, dir, name) /\ store.inum < MAX_INUM

\* fuseserver_create and fuseserver_createhelper.
Creat(p, dir, name) ==
  LET out == create(store, dir, name)
  IN  /\ Makes(p, "creat") /\ fd[p] = NoFile /\ CanMake(dir, name)
      /\ Ran(out)
      /\ fd' = [fd EXCEPT ![p] = [dir |-> dir, name |-> name, ino |-> out.store.inum]]
      /\ UNCHANGED call

Mknod(p, dir, name) ==
  /\ Makes(p, "mknod") /\ CanMake(dir, name)
  /\ Ran(create(store, dir, name))
  /\ UNCHANGED <<call, fd>>

Mkdir(p, dir, name) ==
  /\ Makes(p, "mkdir") /\ CanMake(dir, name)
  /\ Ran(mkdir(store, dir, name))
  /\ UNCHANGED <<call, fd>>

Symlink(p, dir, name, link) ==
  /\ Makes(p, "symlink") /\ CanMake(dir, name)
  /\ Ran(symlink(store, dir, link, name))
  /\ UNCHANGED <<call, fd>>

\* A listing in progress need not show an entry that is gone.
Unlink(p, dir, name) ==
  LET i == lookup(store, dir, name)
  IN  /\ Makes(p, "unlink") /\ found(store, dir, name) /\ ~ isdir(store, i)
      /\ Ran(unlink(store, dir, name))
      /\ call' = [q \in Procs |->
                    IF call[q].op = "getdents"
                    THEN [call[q] EXCEPT !.stay = @ \ {[name |-> name, inum |-> i]}]
                    ELSE call[q]]
      /\ UNCHANGED fd

-----------------------------------------------------------------------------
(* Calls on the open file.                                                 *)

\* read asks for the size first (GETATTR), and reads only before the end.  A
\* missing inode is reported as a symbolic link, and the kernel gives up an
\* inode whose type has changed.
ReadSize(p, off) ==
  LET i == fd[p].ino
  IN  /\ Makes(p, "read") /\ fd[p] # NoFile
      /\ IF ~ isfile(store, i)
         THEN fd' = [fd EXCEPT ![p] = NoFile] /\ UNCHANGED call
         ELSE /\ off < ec_getattr(store, i).size
              /\ Goes(p, [op |-> "reading", off |-> off])
              /\ UNCHANGED fd
      /\ UNCHANGED <<store, status>>

\* fuseserver_read
Read(p) ==
  /\ Waits(p, "reading")
  /\ Ran(read(store, fd[p].ino, Page, call[p].off))
  /\ Goes(p, Idle)
  /\ UNCHANGED fd

\* fuseserver_write
Write(p, data, off) ==
  /\ Makes(p, "write") /\ fd[p] # NoFile
  /\ Ran(write(store, fd[p].ino, data, off))
  /\ UNCHANGED <<call, fd>>

\* fuseserver_setattr with FUSE_SET_ATTR_SIZE
Ftruncate(p, n) ==
  /\ Makes(p, "ftruncate") /\ fd[p] # NoFile
  /\ Ran(setattr(store, fd[p].ino, n))
  /\ UNCHANGED <<call, fd>>

\* fuseserver_setattr with FUSE_SET_ATTR_ATIME and FUSE_SET_ATTR_MTIME: the size
\* of the request, which the kernel leaves 0, is set all the same, whatever the
\* type of the inode.  (The call is named after what it is made on, so that a run
\* can leave directories or links alone.)
Utimes(p, i) ==
  /\ Makes(p, CASE isdir(store, i)     -> "utimes_dir"
                [] issymlink(store, i) -> "utimes_link"
                [] OTHER               -> "utimes")
  /\ Ran(setattr(store, i, 0))
  /\ UNCHANGED <<call, fd>>

-----------------------------------------------------------------------------
(* getdents: READDIR from where the last reply ended, until one is empty.  *)

List(p, dir) ==
  /\ Makes(p, "getdents")
  /\ Goes(p, [op |-> "getdents", dir |-> dir, off |-> 0, listed |-> <<>>,
              stay |-> Range(readdir(store, dir))])
  /\ UNCHANGED <<store, status, fd>>

\* b.size of dirbuf_add after each of the entries.  It is the offset behind the
\* entry, which fuse_add_dirent writes into it.
dirbuf_size(list) ==
  LET size[k \in 0 .. Len(list)] ==
        IF k = 0 THEN 0 ELSE size[k - 1] + DirentSize[list[k].name]
  IN  size

\* fuseserver_readdir and reply_buf_limited.  The directory is written into the
\* buffer anew for each request, and the reply is the bytes from off on.  The
\* kernel passes on some or all of the whole entries in it, and goes on where the
\* last of them says.  If off now falls inside an entry, the bytes of a number or
\* a name pass for an entry, and the listing says nothing any more.
ReadDir(p) ==
  LET list == readdir(store, call[p].dir)
      size == dirbuf_size(list)
  IN  /\ Waits(p, "getdents")
      /\ \/ /\ call[p].off >= size[Len(list)]
            /\ Goes(p, [call[p] EXCEPT !.op = "listed"])
         \/ \E first, last \in DOMAIN list :
              /\ first <= last /\ size[first - 1] = call[p].off
              /\ size[last] <= call[p].off + Chunk
              /\ Goes(p, [call[p] EXCEPT !.off    = size[last],
                                         !.listed = @ \o SubSeq(list, first, last)])
         \/ /\ call[p].off < size[Len(list)]
            /\ \A k \in DOMAIN list : size[k - 1] # call[p].off
            /\ Goes(p, [call[p] EXCEPT !.op = "garbled"])
      /\ UNCHANGED <<store, status, fd>>

CloseDir(p) ==
  /\ status = "running" /\ call[p].op \in {"listed", "garbled"}
  /\ Goes(p, Idle)
  /\ UNCHANGED <<store, status, fd>>

-----------------------------------------------------------------------------
Next ==
  \E p \in Procs :
    \/ \E dir \in Dirs, name \in Names :
         \/ Open(p, dir, name)
         \/ Creat(p, dir, name)
         \/ Mknod(p, dir, name)
         \/ Mkdir(p, dir, name)
         \/ \E link \in Targets : Symlink(p, dir, name, link)
         \/ Unlink(p, dir, name)
    \/ OpenInode(p) \/ ReadLink(p) \/ WalkOn(p) \/ Close(p)
    \/ \E off \in Lengths : ReadSize(p, off)
    \/ Read(p)
    \/ \E data \in Data, off \in Lengths : Write(p, data, off)
    \/ \E n \in Lengths : Ftruncate(p, n)
    \/ \E i \in Live(store) : Utimes(p, i)
    \/ \E dir \in Dirs : List(p, dir)
    \/ ReadDir(p) \/ CloseDir(p)

Spec == Init /\ [][Next]_vars

-----------------------------------------------------------------------------
(* Properties.                                                             *)

\* The entries of all directories: where each is, and what it says.
Places == UNION {{<<dir, k>> : k \in DOMAIN readdir(store, dir)} : dir \in Dirs}
Entry(place) == readdir(store, place[1])[place[2]]

\* The text of a directory is what its entries are written as, no more.
WellFormed(i) ==
  LET data == ec_get(store, i)
  IN  CASE isdir(store, i)     -> /\ readdir(store, i) \in Seq([name : Names, inum : 2 .. MAX_INUM])
                                 /\ data = Text(readdir(store, i))
        [] isfile(store, i)    -> data \in Seq(Bytes)
        [] issymlink(store, i) -> data \in Targets \cup {<<>>}
        [] OTHER               -> FALSE

Pending ==
  {Idle}
    \cup [op : {"opening"}, dir : Nat, name : Names, ino : Nat]
    \cup [op : {"following"}, dir : Nat, ino : Nat]
    \cup [op : {"walking"}, dir : Nat, name : Names]
    \cup [op : {"reading"}, off : Lengths]
    \cup [op : {"getdents", "listed", "garbled"}, dir : Nat, off : Nat,
           listed : Seq([name : Names, inum : Nat]),
           stay : SUBSET [name : Names, inum : 2 .. MAX_INUM]]

TypeOK ==
  /\ store.inum \in 1 .. MAX_INUM
  /\ Live(store) \subseteq 1 .. store.inum
  /\ \A i \in Live(store) : WellFormed(i)
  /\ status \in {"running"} \cup Fatal
  /\ \A p \in Procs : call[p] \in Pending
  /\ \A p \in Procs : fd[p] \in {NoFile} \cup [dir : Nat, name : Names, ino : Nat]

\* Every entry names an inode that exists, so no lookup leads a later request to
\* the NULL inode: unlink takes the entry of the inode that it removes.
EntriesLive == \A place \in Places : Entry(place).inum \in Live(store)

\* A name is in a directory once ("$f appears more than once in the directory",
\* test-lab1-part2-a.pl), and an inode is named once in the whole tree, so
\* unlink cannot remove an inode that another entry names.
NamedOnce ==
  \A a, b \in Places :
    \/ a[1] = b[1] /\ Entry(a).name = Entry(b).name
    \/ Entry(a).inum = Entry(b).inum
    => a = b

\* Every inode but the root can be reached through its name: nothing is lost.
NoOrphan == \A i \in Live(store) \ {1} : \E place \in Places : Entry(place).inum = i

\* An inode number that a process holds from an earlier reply is either dead or
\* still the file it was looked up as, whatever was unlinked and made since.
HandleLeadsBack ==
  \A p \in Procs :
    \A h \in {fd[p]} \cup (IF call[p].op = "opening" THEN {call[p]} ELSE {}) :
      h # NoFile /\ h.ino \in Live(store)
        => found(store, h.dir, h.name) /\ lookup(store, h.dir, h.name) = h.ino

\* No entry is listed twice, as long as the offsets of the listing fall between
\* entries: what is unlinked during a listing moves later entries towards its start
\* only, by however many bytes.
ListedOnce ==
  \A p \in Procs : call[p].op \in {"getdents", "listed", "garbled"} =>
    \A k, l \in DOMAIN call[p].listed : call[p].listed[k] = call[p].listed[l] => k = l

\* The file system that the extents stand for: a directory maps a name to the
\* inode of the first entry of that name.
Tree ==
  [i \in Live(store) |->
     LET x    == store.extents[i]
         list == readdir(store, i)
     IN  IF x.type # T_DIR THEN x
         ELSE [x EXCEPT !.data = [name \in {list[k].name : k \in DOMAIN list} |->
                                    list[First(list, name)].inum]]]

FS == INSTANCE FileSystem WITH
        Inums  <- 1 .. MAX_INUM,
        nodes  <- Tree,
        issued <- 1 .. store.inum,
        up     <- status = "running"

\* The handlers do what the comments of fuse.cc promise: make, unlink, resize
\* and overwrite one node each, however the calls interleave.
RefinesFileSystem == FS!Spec

\* setattr changes the size only if the request says so ("You only have to
\* implement the FUSE_SET_ATTR_SIZE bit, which indicates that the size of the
\* file should be changed", fuse.cc).
TimesKeepData ==
  [][(\E p \in Procs : \E i \in Live(store) : Utimes(p, i)) => store' = store]_vars

\* No call makes get, put or remove dereference the NULL of a missing inode
\* ("FATAL: yfs_client DIED!", part2_tester.sh).
NeverCrashes == status # "crash"

\* A read behind the end of the file reads zero bytes (fuse.cc): it does not end
\* the process.
NeverThrows == status # "throw"

\* A listing consists of the entries of the directory ("Retrieve all the file names
\* / i-numbers pairs in directory @ino", "You can ignore @size and @off", fuse.cc).
ListingReadable == \A p \in Procs : call[p].op # "garbled"

\* A listing names every entry that was there from its start to its end ("$f is
\* not in the directory listing", test-lab1-part2-a.pl).
ListingComplete ==
  \A p \in Procs : call[p].op = "listed" => call[p].stay \subseteq Range(call[p].listed)
=============================================================================
