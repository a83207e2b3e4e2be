# A verification of YFS in TLA+

YFS is a file system in user space: `yfs_client` is one process that serves the
requests of FUSE and keeps everything it stores in an array in its own memory.
This directory holds TLA+ models of it, the TLC configurations that check them,
and proofs that TLAPS checks.  Line numbers refer to the files under `src/`.

## 1. The system

| Part | State | Operations | Called by |
|---|---|---|---|
| disk, block manager (`inode_manager.cc`) | `blocks[32768][512]`; the bitmaps are some of the blocks | `read_block`, `write_block`, `alloc_block`, `free_block` | inode manager |
| inode manager (`inode_manager.cc`) | inodes, one per block; the static counter `inum` | `alloc_inode`, `read_file`, `write_file`, `getattr`, `remove_file` | extent server |
| extent server, extent client | none of their own | `create`, `get`, `put`, `getattr`, `remove` | yfs_client |
| `yfs_client.cc` | none of its own: directories are texts `name/inum/...` in extents | `lookup`, `create`, `mkdir`, `symlink`, `readlink`, `readdir`, `read`, `write`, `setattr`, `unlink` | FUSE handlers |
| `fuse.cc` | none | one handler for each kind of request, one request at a time (`fuse_session_loop`, 571) | the kernel, for any number of processes |
| `rpc/fifo.h` | a queue, a mutex and two condition variables | `enq`, `deq` | the thread pool |
| `rpc/thr_pool.h` | the threads, the objects of the jobs | `addObjJob`, the worker's loop, the destructor | rpcs |
| `rpc/rpc.h` (rpcc), `librpc.a` | calls in progress, the window of finished calls, the connection, the nonces | `call`, `bind`, `cancel`, `got_pdu` | threads of a client |
| `rpc/rpc.h` (rpcs), `librpc.a` | registered procedures, the nonce, windows of replies, connections | `reg`, `got_pdu`, `dispatch`, `checkduplicate_and_update` | `extent_smain.cc`, the network |
| `rpc/marshall.h` | a buffer and an index into it | `<<`, `>>`, `pack_*_header`, `unpack_*_header` | both ends of rpc |
| `extent_smain.cc` | none | starts rpcs, then registers `get`, `getattr`, `put`, `remove` | the shell; not a target of this lab's makefile |

All calls from the handlers down to the disk are plain function calls in one
thread.  The concurrency of the file system is above: a system call is often
several requests, and the requests of other processes come in between, so a
process acts on an inode number, a size or a listing offset that may be stale.
The concurrency of the rpc library is in its threads: the callers that share one
rpcc, the pool's threads that share the `fifo`, and what the network does between
two processes.

What is hard, and the properties that would notice (all of them with their lines
are in `PROJECT.json`, "hazards"):

* The arithmetic of the disk: which bit is which block, where bitmaps, inodes and
  data meet, direct and indirect blocks, stale block numbers that `write_file`
  leaves behind, the end of the disk, the end of the inode table.
  `LiveBlocksMarked`, `NoSharedBlock`, `NoLeak`, `SpaceSuffices`,
  `RefinesExtentStore`, and the findings below.
* Directories and inodes are separate extents that one method changes one after
  the other.  `EntriesLive`, `NamedOnce`, `NoOrphan`, `RefinesFileSystem`.
* Requests that use what an earlier reply said.  `HandleLeadsBack`, `ListedOnce`,
  `NeverCrashes`, and the findings `NeverThrows`, `ListingComplete`, `ListingReadable`.
* Wake-ups of the queue: one signal for each job, spurious wake-ups, threads that
  come in first.  `Bounded`, `JobsAreSeen`, `SpaceIsSeen`, `EnqReturns`.
* Jobs as objects that pass from thread to thread, a pool that refuses jobs, a pool
  that is destroyed while jobs wait.  `OneHolder`, `Drained`, `AcceptedJobsRun`,
  `DestructorReturns`.
* Calls over connections that die, to servers that restart: requests that are sent
  again, replies that come late or to a caller that is gone, a client that is
  cancelled meanwhile, an acknowledgement that lets the server forget.  `AtMostOnce`,
  `OwnAnswer`, `RunsAtItsServer`, `NoDanglingCaller`, `AckedIsOver`,
  `QuietAfterCancel`, `CancelReturns`.
* The layout of messages: a header in front of contents that were written first.
  `Understood`.

Nothing is persistent: a process that ends takes every file with it (`up` in the
abstract specifications).  The only recovery the code knows is that of rpc, where a
server that starts again has another nonce, and clients of the former one are told.

## 2. The modules

```
FileSystem  <--- implemented by ---  FuseServer  EXTENDS  YfsClient     (fuse.cc, yfs_client.cc)
                                       ^ FuseServerProofs   |  uses create, get, put, remove of
ExtentStore <--- implemented by ---  InodeManager                       (extent_*.cc, inode_manager.cc)
                                          ^ InodeManagerLemmas, InodeManagerProofs, InodeManagerRefinement

Rpc  EXTENDS  Marshall                                                  (rpc/rpc.h, marshall.h, extent_smain.cc)
   ^ RpcProofs   ^ MarshallProofs

ThrPool  EXTENDS  Fifo                                                  (rpc/thr_pool.h, rpc/fifo.h)
   ^ ThrPoolProofs  ^ FifoProofs
```

`ExtentProtocol` holds the types of extents and the numbers of the procedures.  `T_SYMLINK` is used by
`yfs_client.cc` (83, 433) but the enum at `extent_protocol.h` 20-23 does not
declare it; the models use the next value, 3.

**InodeManager** is the disk as the code has it: one array of blocks without
types.  `Create`, `Put` and `Remove` are the handlers of `extent_server` with all
they call; `NullInode` is any handler that dereferences the NULL of `get_inode`.
`BBLOCK`, `IBLOCK`, `free_blocks` and `alloc_blocks` are the code's arithmetic, so
block ids start at `BBLOCK(0) * BPB` and go past the end of the disk, as they do
in `alloc_block`.  A series of calls of `alloc_block` returns the clear ids in
ascending order, then -1.  `write_file` is in two halves, `released` and
`rewritten`, as in the code.  `status` says how the process ended: a NULL inode, a
write behind the disk, or a block table that overran its buffer (`MAXFILE`).
`get` and `getattr` change only timestamps, which are left out; what `get` returns
is `read_file`, and the refinement says what it is worth.

**ExtentStore** is what `extent_client` promises `yfs_client`: typed extents under
numbers that are never reused, where `put` replaces one extent and nothing else.

**YfsClient** has the methods of `yfs_client` as functions of a store of extents
(a record of the live extents and the last inode number).  Each is whole: the
lookup, the calls of `extent_client`, the early returns, and the ends of the
process ("crash" for a NULL inode, "throw" for `substr`).  One early return is left
out: `lookup` in a parent that is no directory (261), after which `create`, `mkdir`
and `unlink` act on a variable nobody set.  The kernel sends no such request,
because a directory is never removed and a number never reused.  A directory is its text,
a sequence of tokens: `create`, `mkdir` and `symlink` append a name and a number,
`readdir` takes the text apart again, and `unlink` writes what is left.  That the
text stays what its entries are written as is `WellFormed`, a part of `TypeOK`.
Names hold no `/`, which the kernel guarantees.

**FuseServer** has one action per request: the handlers of `fuse.cc`, and the
processes and the kernel that send requests.  The kernel is not in the
repository; the model assumes of it only what the module's head says: it looks a
name up before it makes or unlinks it, under the lock of the directory, and caches
nothing, because the handlers reply with timeouts of 0.  A process has one call in
progress (`call`) and one open file (`fd`).  `read` is two requests (the size, then
the bytes), `open` is a walk that may follow a link, and a listing is as many
replies as it takes.  `Utimes` is `fuseserver_setattr` with the times only: the
handler sets the size as well, of a file, a directory or a symbolic link (`touch
-h`, `cp -a`), and a call is named after what it is made on, so that a run can leave
directories or links alone.  `ReadDir` counts as the handler does: `dirbuf_size` is
where each entry ends in the buffer, in bytes (`DirentSize`), and an offset is a
place in the buffer of an earlier request.  The kernel takes any number of whole
entries from a reply.  When no entry begins at the offset any more, what it reads is
the middle of one, and the listing is "garbled": it ends in the model, for what the
bytes of a number or a name say as an entry (an error, a wrong name, an offset
further up) is up to those bytes.

**FileSystem** is what the comments of `fuse.cc` promise: a tree of directories,
files and links, where each call makes, removes, resizes or overwrites one node.

**Fifo** is the monitor of `rpc/fifo.h`.  A thread is "out", "in" (it has the
mutex or wants it) or "wait"; a step is what a thread does from the top of the loop
of `enq` or `deq` to its return or its next wait, which is what it does without
giving up the mutex.  `Signal` wakes some waiter, `Spurious` any.

**ThrPool** puts the pool around the queue.  `addObjJob` makes a job's object and
gives its address to `enq`; a worker calls what it takes and then deletes it; the
destructor enqueues one empty job (a pill) for each worker and joins them.  The
object of a job that the queue refuses is deleted by nobody (`thr_pool.h` 57-61:
`addObjJob` only returns false), and `OneHolder` says that this is the only case.

**Marshall** is the layout of a message: cells of one number or one character, the
header's room in front, a 64-bit number in two cells, a string behind its length,
and a reader that goes on with zeros once something was cut off.  No method of the
repository has more than two arguments, so `Put` and `Take` write and read one
value or two.

**Rpc** is one client with several threads, its connections, and the extent server's
process with its start and its registrations.  The code of `call1`, `bind`, `cancel`,
`got_pdu` and `dispatch` is only in `librpc.a`; the model follows that archive's
machine code, for the archive is what a program of this repository links:

* Its `checkduplicate_and_update` is an empty exercise that answers FORGOTTEN.  So
  a client that may send again (`retrans_`) gets `atmostonce_failure` for every call,
  its bind included; a client that does not has the nonce 0, is served, and sends
  nothing twice.  `AtMostOnce` holds because of these two together: a server that
  answered NEW instead breaks it (mutant `checkduplicate_new`).
* An unknown procedure ends the server (`VERIFY`).  The constructor of rpcs listens
  before `main` has registered anything, so a quick client can bring it about.
* A reply for a client without nonce on a connection that the server has seen die
  ends the server: `dispatch` looks for the client's newest connection, and there
  is none under the nonce 0.  Connections have one flag `dead` for both ends: an end
  that has not noticed yet sends what will not arrive, which is a message that is
  never received, and that is allowed in any case.
* `put` and `remove` do not assign their result `r` (`extent_server.cc` 26, 72);
  the model lets it be any of two values.

Each step runs under one hold of rpcc's `m_` or is private to a thread; `call1`
gives `m_` up to send, so registering a call, sending it and waiting are separate
steps, and `got_pdu` or `cancel` may come between.  A method of the extent server is
one step.

Operators whose comment begins with "Mutant" are not part of a specification.
Each is a definition as a plausible bug would have it; put in the place of the
definition after it, it violates the property that `PROJECT.json` names, which
shows that the property can notice.

## 3. The runs

| Run | Shows | Bounds |
|---|---|---|
| `inode_files` | `TypeOK`, `LiveBlocksMarked`, `NoSharedBlock`, `NoLeak`, `SpaceSuffices`, `RefinesExtentStore` | three inodes; a disk with 5 data blocks and 13 ids behind it, so files compete for blocks and the disk fills; blocks of 2 bytes, 1 direct block and 2 indirect, and puts of 2, 3, 5 and 7 bytes: a direct block, the first indirect block, all blocks with the last one half full, and one block more than `MAXFILE`; an id that needs the mask (10) |
| `fs_data` | `TypeOK`, `EntriesLive`, `NamedOnce`, `NoOrphan`, `HandleLeadsBack`, `RefinesFileSystem` | two processes, two names, inodes 1-4: a name can be removed, made again and removed again while the other process holds it open; offsets and lengths 0 and 1, writes of one byte of two values: over a byte of another value, at the end of a file and behind a hole; files of up to 2 bytes |
| `fs_list` | `ListedOnce`, `NeverCrashes` | two processes, three names, inodes 1-4, names of 32 and of 40 bytes and replies of up to 72: an entry of either size is removed in front of, at or behind the offset of a listing, and another made at the end; links are removed or emptied between the lookup and the readlink; no open file is read, written or resized |
| `fifo` | `TypeOK`, `Bounded`, `JobsAreSeen`, `SpaceIsSeen`, `EnqReturns`, `PoolTypeOK`, `OneHolder`, `Drained`, `DestructorReturns`, `AcceptedJobsRun` | two producers, two workers, four jobs and two pills, limit 2, pools that wait and pools that refuse: both of a group can sleep, or one can come in while the other is woken; the pills meet a full queue |
| `rpc` | `RpcTypeOK`, `AtMostOnce`, `OwnAnswer`, `RunsAtItsServer`, `Understood`, `NoDanglingCaller`, `AckedIsOver`, `QuietAfterCancel`, `CancelReturns` | two threads, three calls, two connections, two runs of the server: a call can meet a dead connection, a new server, the reply of an earlier connection, the other thread's reply and a cancel; clients with and without `retrans_`; `Word` is 100, so one extent number needs both cells |

Contents, processes and names are symmetric in the runs that check safety only.  The runs that let `CHECK_DEADLOCK` be FALSE are those where
the process may end, and where nothing is made beyond `MAX_INUM`.

An entry takes 24 bytes and its name, padded to a multiple of 8
(`fuse_dirent_size`), so 32 bytes stand for names of up to eight letters and 40 for
longer ones (`LongNames`).  `Chunk` is what one reply holds, a page in the kernel:
40 bytes are one entry, 72 one or two, and a directory of more than a page is what
the bounds stand for.

`fs_data` leaves out the times of directories and of links, because a call that sets
them empties what it is made on (see `fs_touch`).  Without its entries a directory's
inodes are lost, so `NoOrphan` and `HandleLeadsBack` are false at once, and to empty
either is no step of `FileSystem`, so `RefinesFileSystem` is false too.  The run
says what holds as long as nobody does that; it has the times of files, which are
truncated.  That `TypeOK`, `EntriesLive` and `NamedOnce` hold in any case is proved.
`fs_list` has the times of links.

Fairness.  In `ThrPool`, a thread that wants the mutex gets it in the end (a mutex
is held for a few instructions at a time; POSIX does not promise it for a mutex under
constant contention), methods return, workers come back for the next job, and the
owner goes on with a destructor it has begun.  Nothing is assumed of which waiter a
signal wakes, of spurious wake-ups, or of the callers of `addObjJob`.  In `Rpc`, the
threads of the client run, and `Return` is strongly fair: a call whose connection
dies may wait and send again by turns, but its waits double until its deadline has
passed, and then it returns.  Nothing is assumed of the network or the server, so
`CancelReturns` holds with both of them silent.

Seven runs look for a disagreement with what the repository says of itself, and
find it (`PROJECT.json`, "findings"):

| Run | The repository says | The code does |
|---|---|---|
| `inode_range` | every created inode has its type (`part1_tester.cc` 77) | `alloc_inode` passes `INODE_NUM`, `get_inode` does not |
| `alloc_off_disk` | "Allocate a free disk block." (`inode_manager.cc` 19) | ids 32768 to 40959, and -1, are not on the disk |
| `fs_touch` | only the size bit changes the size (`fuse.cc` 120) | setting the times empties a file, a directory or a link |
| `fs_crash` | `yfs_client` must not die (`part2_tester.sh` 32) | creat, unlink, write to the open file |
| `fs_throw` | a read behind the end reads zero bytes (`fuse.cc` 157) | `substr` throws when a file shrank meanwhile |
| `fs_garbled` | a listing is the directory's entries, whatever @off (`fuse.cc` 333) | an entry of another length goes, and the offset falls inside another |
| `fs_readdir` | every live file is listed (`test-lab1-part2-a.pl` 88) | an entry is skipped when an earlier one goes |

One more disagreement needs no run: a write behind the end of a file is answered
with the bytes of the hole counted in (`bytes_written` of `write`, `yfs_client.cc`
376), where `fuse.cc` 181 promises @size bytes.  Every such write shows it.

## 4. The proofs

**InodeManager**, for every geometry that `LayoutAssumption` admits: the bitmaps
end before the inode table and the inode table before the first block id.  The
code's numbers satisfy it: bitmaps in blocks 2-9, inode i in block 11+i, the first
id 8192, so `MAX_INUM`, the bound on `create`, may be as large as 8180, eight times
`INODE_NUM`.

* `InodeManagerLemmas`: least elements and ranks of finite sets of numbers (for the
  order in which `alloc_block` hands out ids), `free_block`'s arithmetic as the
  inverse of `alloc_block`'s, and what `mark` and `free_blocks` do to the marked ids.
* `InodeManagerProofs`: `TypeCorrect`, `BlocksMarked`, `BlocksNotShared`,
  `BlocksNotLeaked` and `RoomIsUsed`.  The invariants need one another.  That freeing a file leaves
  other files' blocks marked needs `NoSharedBlock`; that new blocks are shared with
  nobody needs that all blocks in use are marked; and both need `TypeOK`, because a
  block number is only safe to write to if it is in no bitmap and no inode.  `RoomIsUsed`
  (`SpaceSuffices`) adds the order of `alloc_block` (`SmallestFirst`): ids behind the
  end of the disk come only after every free one on it.
* `InodeManagerRefinement`: `Refinement`, the disk implements `ExtentStore`, provided
  that create stays below `INODE_NUM` (the run `inode_range` shows why).  A `put`
  changes what is read of its own file to what was put, byte by byte through the
  direct and indirect blocks, and leaves every other file because its blocks are
  not among those written.

**Fifo**, for any finite numbers of threads, any jobs and any limit: `QueueBounded`,
`NoJobWakeupLost`, `NoSpaceWakeupLost`.  The invariant is the conjunction of the
checked ones.  While a worker sleeps there is a worker awake for each job: a push
adds a job and wakes a worker, a pop takes both, and a worker falls asleep only when
the queue is empty.  The same for producers needs `Bounded`, since `deq` signals only
below the limit.

**ThrPool**, for any finite numbers of threads, any jobs, any limit, at least one
worker and a pill for each (`PoolAssumption`; a pool without workers runs nothing
and is drained of nothing).  `PoolUsesFifo`: every step of the pool is a step of
Fifo or leaves the queue alone, so `PoolKeepsQueue` takes over what is proved of
the queue.  `PoolTypeCorrect`, `PoolOneHolder` and `PoolDrained` rest on one
invariant, `PInv`.  `OneHolder` counts holders, which is no basis for an induction;
`Apart` says instead that no two of the places of a job (a producer in `enq`, a
place in the queue, a worker) ever have the same one, and `Lives` ties them to the
job's object and its runs.  `Drained` needs the order of the queue as well
(`PillsLast`): behind a pill there are only pills, so a worker that has one leaves
no job behind; and when each worker has a pill, there being as many pills as
workers, no pill is left in the queue.

**Marshall**, for every width of a cell (`WordAssumption`: at least 1) and every
alphabet of characters.  `RequestRead` and `ReplyRead`: a buffer that was made as
call1 or dispatch makes it, content first and header then, gives its reader the
header and the values that were put, and the reader ends at the end of the buffer
(`okdone`).  `RefusalRead` is the same for a reply without content.  The argument
goes by places: a value's cells lie behind one another (`Holds`), each `Read` gets
its value out of them and moves by their number (`ReadCells`), and packing a header
touches no cell behind `RPC_HEADER_SZ`, which both headers fit into.

**Rpc**, for any set of threads, any requests of the methods' types
(`RequestsAssumption`: a call of another type does not compile), and any numbers
of calls, connections and starts of the server (`RpcAssumption` only says that the
bounds are numbers).  All eight safety invariants of the run `rpc` are theorems:
`TypeCorrect`, `RunsOnce`, `AnswersItsCall`, `BoundFirst`, `MessagesUnderstood`,
`CallersAlive`, `AcksAreSafe`, `CancelIsQuiet`.  They follow from one invariant,
`IInv` (`Inductive`), because none of them is inductive alone:

* That a call has its own answer is a chain: the thread has packed its own request
  (`ThreadInv`), whatever is on a connection or in a job is the request of the thread
  that waits under its xid (`TravelInv`), a run is of the procedure and with the
  arguments of the request it was made for (`Requested`), and a reply or a caller
  that reports success carries the result of a run for its xid (`ReplyInv`,
  `CallerInv`).  A reply that comes late is true all the same: runs are never
  forgotten, xids never given out twice.
* `AtMostOnce` needs `OnceInv`: a client that sends again has no runs at all; one that
  does not has each request at one place, the thread, a connection or a job, and
  nowhere once it has run (`OnePlace`).
* `RunsAtItsServer` needs the way of the nonce: a run of bind returns the nonce of its
  server (`RunInv`), the client binds to what it returned (`BindInv`), every other
  request carries that nonce (`Known`), and `oldsrv` compares it.
* `AckedIsOver` needs `WindowInv`: the window also has no xid behind its front whose
  caller still waits, so the front never moves past one (`WindowUpdate`).
* `Understood` is where `MarshallProofs` is used: the proofs of the steps look at a
  message only through what its reader gets out of it (`Hdr`, `Args`, `ReplyHdr`,
  `Carries`).

There is one lemma per action (`CallStep`, `TransmitStep`, ..., `DispatchStep`), each
with one step per part of the invariant.  What the steps have in common is stated
before: what connections look like after an update, and what each part of the
invariant depends on.

**FuseServer**, for any processes, names, bytes and calls, and any bounds.
`DataAssumption` says that what is written consists of bytes and that offsets and
lengths are numbers, 0 among them (`utimes` sets the length 0), and
`DirentAssumption` that an entry takes some bytes and no more than a reply has.

* `Inductive`: the invariant `IInv` holds whatever calls are made.  The checked
  properties are not inductive: that unlink leaves no entry behind (`EntriesLive`)
  needs that no second entry names the inode (`NamedOnce`), which needs that create
  makes a number that no entry has, so entries must be live; and all of it needs
  `TypeOK`, because `lookup` reads what the text of the directory says.  For what
  processes know, `HandleOK` says that a number they hold was issued, and is a
  file's or nobody's; `Apart`, that the entries that begin at the offset of a listing
  or behind it are none of those that were listed.  `TypeCorrect`, `NothingDangles`,
  `NamesAreUnique` and `NothingListedTwice` follow.
* `Apart` is about bytes: an entry that is removed moves those behind it up by its
  size and none down (`SizeRemoved`), so what was listed stays before the offset,
  wherever the offset falls.  `NothingListedTwice` holds for names of any lengths, up
  to the reply that is garbled.  `OneSizeIsReadable` says that lengths are what
  makes it so: if all names take the same number of bytes, every offset is a
  multiple of it, and some entry begins there or the listing is at its end.
* `OnlyHandlesCrash`: without `write` and `ftruncate` in `Calls` no request gets at a
  missing inode.  `fs_crash` shows that with `write` one does.
* The proof separates the store from the processes.  A method of `yfs_client` makes
  a store grow by an inode with its entry (`Grows`), lose both (`Shrinks`) or change
  the data of one inode (`Rewrites`).  In each case the new store `Follows` the old
  one: no issued number comes back to life, a file stays a file, and an entry moves
  towards the start of its directory or is new.  That is all that the knowledge of
  the processes needs to stay good (`HeldStays`), so the handlers and the interleaving
  are looked at apart.
* `ReadBack` is the lemma on the text of directories: `readdir` gets out of `Text` the
  entries that it was written from, for any number of entries.  `TextAppend` and
  `RemoveAtIs` carry it over the appended tokens of create and the rewritten rest of
  unlink.
* `NothingIsLost` and `HandlesLeadBack` assume that `Calls` does not have
  `utimes_dir`, and `Refinement` that it has neither `utimes_dir` nor `utimes_link`.
  They are false otherwise: `fuseserver_setattr` sets the size along with the times,
  which drops a directory's entries and a link's name (run `fs_touch`).  Without
  `utimes_dir`, an entry stays as long as its inode does (`Keeps`), and `LInv` is
  invariant as well.
* `Refinement`: the handlers implement `FileSystem`.  A directory's list and the
  function from names to inodes that it stands for change in step (`DirMapAppend`,
  `DirMapRemove`, because a name is there once); what `setattr` and `write` put
  together out of head, hole, data and suffix is what the comments of `fuse.cc` say,
  byte by byte (`ResizedIs`, `OverwrittenIs`).  A request that ends the process maps to
  `Die`, and one that changes no extent to a stutter.  What a lookup or a listing
  answers is no part of the state of `FileSystem`, so the refinement compares no
  answers; `HandlesLeadBack`, `NothingListedTwice` and `OneSizeIsReadable` are about
  those.

With this every invariant that a passing run checks is a theorem, and so are both
refinements.  Only model-checked is liveness (`CancelReturns`, and `EnqReturns`,
`DestructorReturns` and `AcceptedJobsRun` of `ThrPool`), which like ENABLED is out of
the prover's reach.  What the violation runs find are facts about one behaviour each,
which TLC shows.

## 5. What is not modelled

Timestamps.  What the kernel makes of a garbled reply to READDIR.  `statfs`, and the mount code of `main` in `fuse.cc`.  A disk that fills
while `FuseServer` runs: that module's store always has room, the disk's limits are
`InodeManager`'s subject.  `rename`, `rmdir`, `link`: there is no handler.

Of rpc: the bytes of a connection and the loop that polls for them (`connection.h`,
`pollmgr.h`: declarations only, the code is in `librpc.a`), what `method_thread.h`
and `slock.h` wrap, vectors and maps in messages (no message of the repository has
one), checksums (off), and the switches for tests (`lossytest_`, `reachable_`,
`counting_`).  The race of two handlers of `extent_server` in two threads of the
pool: no program of this lab has it, and nothing in the repository says what should
come of it.  The reply window of `checkduplicate_and_update`, which the archive does
not have yet.  `gettime`, the logging and `lang/`.

## 6. Plan

Done: sections 2 to 4.  Next, in this order:

1. The two refinements put together: `ec_create`, `ec_put` and `ec_remove` of
   `YfsClient` as steps of `ExtentStore`, so that `FileSystem` is shown of the blocks on
   the disk, as long as the disk has room.
2. What is left of the tree when the times of a directory or a link are set: which
   files stay reachable.
3. `ExtentServerRpc`, once a program starts `extent_smain.cc`: which steps of
   `alloc_block`, `alloc_inode` and `write_file` must not interleave.
