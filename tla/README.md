# Models and proofs of the SVR3 kernel for the m68k

TLA+ modules of the parts of this UNIX System V Release 3 kernel
(`src/src/uts/m68k`) that keep shared state in tables and lists, and that
processes and interrupts change between each other's steps: the block buffer
cache, file and record locks, semaphores, messages, processes with their
signals, inodes, and pipes.  TLC checks each module on small instances; TLAPS
proves, for every size, the safety properties TLC checks, among them that callers
cannot tell the buffer cache from the blocks themselves, that record locks exclude
each other, and that a pipe is a queue of bytes.  All paths below
are relative to `src/src/uts/m68k`.

`os/` is the machine independent kernel, `fs/s5` the System V file system,
`io/` the drivers and the IPC facilities, `nse/` STREAMS and remote file
sharing, `ml/` the assembler support.  `src/src/cmd` (commands, compilers and
libraries) is outside the kernel and is not modelled.

## How the kernel runs, and how the modules show it

- The kernel is **not preempted**.  A process in it runs until it sleeps or
  returns to user mode, so an action is what the code does from one sleep to
  the next.  Processes interleave where they sleep.  Modules whose calls take
  several actions between sleeps (the buffer cache, the inode table) have a
  variable, `run` or `curproc`, that names the process in the middle of such a
  stretch; while it is set no other process takes a step.
- **Interrupts** run between any two instructions at a lower priority level.
  Where the code is at `spl0` and tests something an interrupt may change, the
  test is an action of its own (`GetblkScan` and `GetblkHit` of `BufferCache`);
  stretches between `spl6` and `splx` are not split.
- `sleep(chan, pri)` waits for a `wakeup(chan)`; above `PZERO` a signal ends it
  too.  A wakeup makes all sleepers runnable; each one looks again.  In the
  modules a wakeup clears the channel of every sleeper on it, and what
  the sleeper does next is another action.
- Nothing tells a caller when it may be run: schedulers are nondeterministic,
  and where a liveness property needs fairness it is written in the module.

## Inventory

| Component | State | Operations | What is hard about it | What makes it correct |
|---|---|---|---|---|
| Block buffer cache `os/bio.c` | headers with flags, hash chains, available list, `basyncnt`, driver queue | getblk, geteblk, bread(a), bwrite, bdwrite, bawrite, brelse, bflush, bdwait, binval, iodone | completion interrupts against scans at spl0; sleeps on a buffer or on any buffer; delayed and asynchronous writes that fail | one buffer per block, each held by one process or the driver, nobody sleeps for ever, callers see the last write |
| Record locks `os/flock.c` | `flox[]`, free list, ordered list per file, `sleeplcks` | set, wait, check, close, clean up after a machine | splitting and joining with a table that may run out; sleepers on records that are deleted; circles of sleepers | the lists mean a lock per byte; no conflicting locks; no circle |
| Semaphores `io/sem.c` | `sema[]`, `sem[]`, counts of sleepers, `semtmp`, undo structures | semget, semop, semctl, semexit | lists of operations that are all done or none; one `semtmp` for all; signals during the sleep; removal under sleepers | no partial effects, nobody sleeps who could go on |
| Processes and signals `os/fork.c exit.c sig.c slp.c` | `proc[]` with family pointers, pending and held signals, `u_signal` | fork, exec, exit, wait, pause, kill, ssig, psig | signals against sleeps; families that change under a sleeping fork; zombies nobody is told of | a family tree, no signal slept through, the dead are laid to rest |
| Inodes `os/iget.c fs/s5/s5iget.c s5alloc.c` | `inode[]`, `s5inode[]`, their free lists, hash chains, the inodes on the medium, `s_inode[]` of the super block | iget, iput, plock, prele, iflush, s5iread, s5iupdat, s5ialloc, s5ifree, sync | locks held over sleeps and wanted in both orders; entries reused under those who look for them; deferred writes | one entry per inode, references counted, list of free inodes right, no circle |
| s5 blocks `fs/s5/s5alloc.c` | `s_free[]` and its chain of blocks | alloc, free | the chain block read with the super block locked | no block twice |
| s5 files, names, mounting, sync `fs/s5`, `os/nami.c sys*.c fio.c fstyp.c` | file table, mount table, directories | open, close, read, write, link, unlink, mount, umount, sync | sleeps between check and use; crash between the writes of an umount | what is marked clean is clean |
| Pipes `fs/s5/s5pipe.c s5rdwri.c` | an inode with counts of readers and writers, two pointers into a circle of blocks, a flag for each side that waits | open, read, write, close | sleeps with the inode locked and unlocked; transfers in pieces; blocks not read before they are written and not written back after they were read | no lost wakeup; bytes in order |
| Callouts and clock `os/clock.c` | `callout[]` | timeout, untimeout, timein | the clock's scan against changes of the table | every entry runs once, in time |
| Resource maps `os/malloc.c` | a map of free ranges | malloc, mfree | a map that is full | the map is a set of units |
| Messages `io/msg.c` | queues with a lock and a limit, a map of text segments, headers | msgget, msgsnd, msgrcv, msgctl | four things to wait for, each with its own flag; removal and changes of limits under sleepers; calls that fail half way | order, bounds, no header or segment lost, no lost wakeup |
| Shared memory, regions, paging, swapping `io/shm.c os/region.c page.c fault.c getpages.c swapalloc.c sched.c` | region, page and swap tables | attach, fault, steal, swap | region locks over sleeps; reference counts of pages and swap | no page used after it is free |
| Dispatching `os/disp.c swtch.c` | run queue | setrq, swtch | none that the modules depend on | any runnable process may run next |
| exec, traps, start-up `os/exec.c trap.c ...` | one process's own image | exec, system call entry | formats and registers | |
| Terminals `io/clist.c tty.c ...` | cblocks, queues | input and output at interrupt level | sleep against interrupt | |
| Drivers `io/mvme*.c ...` | board registers, request queues | strategy, interrupt | hardware outside the repository | each request is answered once |
| Remote file sharing `nse/nudnix fs/du` | send and receive descriptors, queues, servers | remote calls, recovery | a circuit that fails anywhere | what a lost machine held is released once |
| STREAMS and protocols `nse/streams nse/protocol` | queues of messages | put, service | flow control | |

They interact as follows.  `iget`, `iput` and the file code read and write
inodes and blocks through `bread`, `bdwrite` and `bwrite` of the buffer cache;
`s5closei` uses `bflush` and `binval`, `sync` uses `bflush`, `s5umount` uses
`iflush` and `bdwait`.  A read or write of a file with mandatory locks calls
`reclock` with the inode locked, and `reclock` releases and relocks it around
its sleep.  `exit` calls `semexit`, and the close of a file calls `cleanlocks`.
All of them wait through `sleep` and are interrupted through `psignal`.  The
modules model one component each; a neighbour appears as the steps its contract
allows: a read of a block is a sleep and may fail, a close is `cleanlocks` at any
time, an exit is `semexit` at any time between calls.

## Modules

| Module | Models | |
|---|---|---|
| `BufferCache` | `os/bio.c` | detailed |
| `BlockStore` | a register per block | its promise |
| `BufferCache_proofs` | | proofs |
| `RecordLock` | `os/flock.c` | detailed |
| `ByteLocks` | a lock per byte and owner | its promise |
| `RecordLock_proofs` | | proofs |
| `Semaphores` | `io/sem.c` | detailed |
| `Semaphores_proofs` | | proofs |
| `Processes` | `os/fork.c`, `exit.c`, `sig.c`, `slp.c`, `ssig` of `sys4.c`, SIGCLD in `cmd/init/init.c` | |
| `Processes_proofs` | | proofs |
| `InodeTable` | `os/iget.c`, `fs/s5/s5iget.c`, the inode half of `fs/s5/s5alloc.c` | detailed |
| `InodeList` | a list of inodes with a lock each | its promise |
| `InodeTable_proofs` | | proofs |
| `ResourceMap` | `os/malloc.c` | operators on a map |
| `Messages` | `io/msg.c`, with the text in a `ResourceMap` | detailed |
| `MessageQueues` | a sequence of messages per queue | its promise |
| `Messages_proofs` | | proofs |
| `Pipe` | `fs/s5/s5pipe.c`, the FIFO parts of `fs/s5/s5rdwri.c` | detailed |
| `Fifo` | a bounded queue of bytes | its promise |
| `Pipe_proofs` | | proofs |
| `SeqLemmas` | | lemmas: sequences, induction, iterated functions |
| `MC...` | constants and symmetry of the instances | |

### BufferCache

A buffer header is four functions of the buffer: `flags` (b_flags), `blkOf`
(b_dev and b_blkno), `data`, and its place on `free` (bfreelist in `av_forw`
order).  Hash chains are not lists: a buffer is found for a block when `blkOf`
says so and it is not `STALE`, for a chain holds at most one such buffer, and
that it does is the invariant `UniqueBlock`.  `data` is a *version*, how many
times the block had been written when the contents were made, or `Garbage` for
a buffer nothing was read into.  `ioq` holds what was handed to the drivers,
which finish those for one block in order and others in any
order (`TransferOk`, `TransferFails`); drivers are
external to the repository's kernel core and are modelled as the cache uses
them.  A process stands at a `Place` in a call; `getblk` is the actions
`GetblkScan` (search at spl0), `GetblkHit`/`GetblkBusy` (after spl6),
`GetblkEmpty`, `GetblkReuse` and `GetblkDelwri` (a delayed write is
started and the search repeated), `bread` adds `Iowait*`, `breada` `Ahead*`,
`bflush` `Flush*`, and `Count` is the `basyncnt++` that bwrite does after
strategy has returned.  `Modify` is the caller's change of the contents, which
happens as the buffer is written.

Left out: `clrbuf`, the headers for physical I/O (`pfreelist`), residual counts,
`B_PHYS`, the split of hash chains by device, and the sleep of a driver in its close,
between the `bflush` and the `binval` of `s5closei` (`s5subr.c:673-675`).  `CallClose`
needs a device nobody uses, and nobody comes to use it before `binval`; in the code the
inode of the special file is locked through that sleep, which keeps out others who open
the device, unless it has a second special file.

### RecordLock

`recs` is `flox[]`; a record is on the free list, on the list of a file or on
`sleeplcks`.  The free list and `sleeplcks` are sets, as one record is as good
as another (`AnyOf`); file lists are sequences.  `Flckadj` applies `Adjust` to each lock
of the list from `insrt` on, in the order of the loop in `flckadj`, with an early
stop.  `stat` is the C union of `wakeflg` and of the id a sleeper waits for.
Requests are ranges of bytes: `convoff` and the conversion of lengths are not
modelled, nor is F_GETLK, which changes nothing.  A mandatory check is made with
the inode locked; what that costs is the extra sleep `Plock` after the wakeup.

### Semaphores

`sema` are the identifiers with their sequence numbers, `sem_base` picks the semaphores
of a set, `cnt` are `semncnt` and `semzcnt`.  `DoAll` does the list of operations, one
after the other (`Trial`), until one has to wait or fails, and `Semundo` takes back what
was done; `Outcome` is the sleep or the return that follows.  `semtmp` is shared as in
the code: `CopyIn` may stop in the middle for a page fault or end there at a bad address
(`BadAddress`, EFAULT), and another call may then overwrite what is there: a semop with
its operations, SETALL with its values, which lie over the fields of the operations as
the union has it (`Overlaid`).  `semtmp` is emptied in the model when nobody is copying,
since nobody reads it then.  All sets are of one size.  SETALL's copy from user space is
one step, although it may wait for a page or meet a bad address, and values that would
become numbers of semaphores the set does not have are not written over somebody's
operations.  Keys, permissions, IPC_SET and the commands that only read are left out.

`u_error` is `u.u_error` of the process that took the last step: every return of semop
sets it.  `AllOrNothing` is about every outcome of semop but success: whichever error a
step ends with (EAGAIN, ERANGE, ENOSPC, EINVAL, EFAULT, EIDRM, EINTR), and whenever a
process falls asleep, for the first time or after a retry and on the same semaphore as
before or another (seen by `chan`, which is `Nowhere` before and not after), all values
and all adjustments of all processes are as they were.

`SleepersBlocked` says nothing of a call that names a semaphore twice.  It does
not hold for one: the operations -1 and then 0 on one semaphore leave the caller
counted as waiting for *zero* (after the -1 has been taken back), and when
its value becomes one, with which both could be done, only those who wait for more
are woken.

### Processes

`proc` is the process table with `p_parent`, `p_child` and `p_sibling` as
pointers; `Chain` follows them.  A process is in user mode, in `trap` (on its
way back with a signal pending), or in the sleep of `fork`, `wait`, `pause` or
`exit`.  `Post` is `psignal` by kill or by an interrupt, at any time.  `Issig`
models the loop of `issig`, including `freeproc` of dead children when SIGCLD is
ignored.  Two signals stand for all: KILL, which cannot be caught, held or
ignored, and CLD, whose default is to do nothing and which `exit` posts; CLD can
also be caught, and caught it is like any other signal.  Tracing, process groups, user
limits, priorities and the run queue are left out.

proc[1] runs init (`cmd/init/init.c`) and never exits.  Where its program is, is
`init_at`.  In `main` it catches SIGCLD, and pauses or goes to spawn or kill something:
`Disarm` is the `signal(SIGCLD,SIG_DFL)` before its forks, which it makes in `spawning`,
and `Arm` the `signal(SIGCLD,childeath)` after them.  A SIGCLD it catches (`Psig`)
brings it to `childeath`, which waits once (`Wait`, then `reaped`) and catches the next
(`Arm`).  `signal` drops a SIGCLD that is pending and posts a new one if a child is dead
(`Retell`, `os/sys4.c:341-346`).  Whoever asks the operator for a level waits while
`spawning`, as `getlvl` does.  A fork of `efork` that fails is followed by a pause with
SIGCLD caught: that is `Arm`, `Pause` and `Disarm`; the model also lets it fork again at
once.  Left out is what init does on other signals than SIGCLD, the pause for room in
its own table, and its children's programs, which are any.

### InodeTable

An inode is its mode (a file or free) and its links.  `inode` is the table in
core with hash chain membership, lock, `IWANT`, count, `ICHG` and whether an
`s5inode` is attached (`fsptr`); `dinode` is the medium, a block being read and
written in one step (the buffer cache has its own module); `super` is what the
super block keeps of free inodes.  `curproc` is the process that has not slept
since its last action.  `proc[p].by` says whether `iget` returns to a caller or
into `s5ialloc`.  `f_inode` is the inode of one open file, a reference that no
process is using at the moment; any process may close it, as processes share files
through fork.  `Iflush(k)` is the
pass of an umount that finds a busy inode and fails: the k entries before that one
have been taken off their hash chains.  An umount that succeeds would end the
file system.  What a vacant entry last held is forgotten, as nobody looks
at it.  Left out: mount points, remote inodes, other file system types,
`NOICACHE`, the blocks of a file (their truncation is a sleep), read-only file
systems, and reads that fail in `s5iupdat`: such a read loses the update, so that
the inode on the medium and the list of the super block need not agree any
more, and the check of `AllocChecks` ("inode was allocated after all") is what
the code has against that.

What a caller of `iget` sees of all this is `ilist` (an inode's contents wherever
the newest copy is), `file`, `ref` and `locked`, on which `InodeList` is
instantiated.

### ResourceMap and Messages

A map is the sequence of its ranges; the range of size zero that ends the array
is not in it, and `mapsize`, the free slots, is what the sequence is short of
`MAPSLOTS`.  `Malloc` and `Taken` are the result and the effect of malloc,
`Mfree` is mfree; `Overflows` is its one early return, which loses the units and
wakes nobody.  They are operators: `Messages` makes actions of them, as the code
calls them between two sleeps.

A queue `msgque[q]` has its messages, its byte count and limit, and the two flags
MSG_RWAIT and MSG_WWAIT; `msglock` are the queues that are locked, `msgfp` the number of
free headers (one is as good as another).  A process sleeps for `room` in the queue, for
a `header`, for `space` in the map, or as a `reader`; `Again` is what it does when it
wakes, from the label `getres` or `findmsg` on.  The copies between user and kernel are
`copyin` and `copyout`, places with the queue locked where other processes run; both may
fail.  A signal ends any of the four sleeps.  One for room goes by `intr`, as that path
has to look at the queue: if it is locked, the signal ends the sleep for the lock too,
and MSG_WWAIT stays (`IntrLocked`); if not, the flag goes and the others are woken
(`IntrLooks`).  `Rmid` gives all messages of a queue back in one step.  Keys,
permissions, IPC_STAT, the copy of the type (which does not touch the queue) and the
identifiers' upper half beyond `seq` are left out.  Free segments are in no more pieces
than there are texts and one; the instance has more slots than headers, as the code's
configuration does (`cf/config.h:111`, `:112`), so that its map does not overflow, and
`PoolAccounted` would show an overflow as lost segments.

### Pipe

`data` is the circle of PIPSIZ bytes, in blocks.  Each block of a transfer is an
action, `ReadBlock` or `WriteBlock`, since each one waits for a buffer with the inode
locked; opens and closes run between them as far as the code lets them, for
`s5openf` does not lock the inode.  What the cache does to a block is in these two
actions: a block read to its end may lose its bytes (its delayed write is
cancelled), a block that is not read before it is written may hold anything
beside the new bytes; both are nondeterministic, `lost` and `old`.  A byte is
named by its writer, the length of its write and its index in it.  `Abort` is the
close of a half-open file after a signal (`copen1`).  `save` is what of a write that
is larger than the fifo goes in a later round (`floop`).  Left out: faults in
the transfer, file offsets and times, O_RDWR opens of a named fifo, and ends shared
by dup or fork, which only change when the last close comes.

## Runs

TLC finishes every run that is to pass; a run that expects a violation states
one sentence of the repository's comments and is described under *Findings*.

| Run | Instance | Shows |
|---|---|---|
| `cache_store` | 2 processes, 2 buffers, 2 blocks, a write, read-ahead, with fairness | `ImplementsBlockStore`: callers cannot tell the cache from a register per block; `BdwaitDrains`: bdwait returns when no asynchronous write is under way; `EverySleepEnds` on a buffer |
| `cache_errors` | 3 processes, 2 buffers, 2 blocks, a write, a failing transfer | type, available list (`FreeIffIdle`), one buffer per block (`UniqueBlock`), owners of busy buffers (`BusyIsOwned`), wakeups and `basyncnt` (`NoLostWakeup`, `FreeNotStranded`) |
| `cache_stale_hit` | 2 processes, a failing transfer | violation of `NoOneElse` |
| `locks` | a local owner and a remote one, 3 bytes, 3 records, every request | `ImplementsByteLocks`, `Coalesced`, `PoolAccounted`, type |
| `lock_waits` | 3 owners that wait for each other, 5 records | `SleeperBlocked`, `NoCircle` |
| `semaphores` | 3 processes, a set of 2, 3 lists of operations, a removal, a fault; states that differ in `u_error` alone are one (`VIEW`) | `SleepersCounted`, `SleepersBlocked`, `AllOrNothing`, type |
| `processes` | proc[1] and 2 descendants | `FamilyTree`, `NoSignalSlept`, `NoZombieMissed`, type |
| `process_life` | the same, with fairness | `KillKills`, `ZombiesLaidToRest` |
| `fork_fails` | 4 entries, a fork of proc[1] that fails | violation of `AdoptedListed` |
| `inodes` | 2 processes, 2 entries, 3 inodes, a list of 2, an open file | `ImplementsInodeList`, `OneInode`, `Counted`, `S5Accounted`, `ListedFree`, `NoCircle`, type |
| `messages` | 3 processes, 2 queues, 2 headers, 3 segments, 6 requests, a removal, a raised limit | `ImplementsMessageQueues`: messages of a type are received in the order they were sent; `PoolAccounted`: every header and segment is somewhere; `SleepersBlocked`, type |
| `pipe` | 2 writers, 2 readers, 2 blocks of 2 bytes | `ImplementsFifo`: the blocks are a queue of bytes; `Contiguous`: a write that fits is in one piece; `SleepersBlocked`, type |

### Bounds and why they suffice

- *Buffers, blocks.* With as many or more blocks than buffers every reuse,
  delayed write and wait for an available buffer happens: `cache_errors`, where
  three processes compete for two buffers and two blocks.  `cache_store` has no
  symmetry, since it checks liveness.  `MaxHold` is one buffer per process between
  calls.  `MaxWrites` and `MaxErrs` bound versions and failures: each block has the
  version it starts with and a written one, which tells a stale copy from the last
  one, and one failure leads to every error path.  `BawriteFree`
  (4 in the code) is 0 so that bawrite goes asynchronous with so few buffers.
- *Locks.* Three bytes give every relation of two ranges (before, adjacent,
  overlapping on either side, within, equal) and a split into two.  Three
  records are few enough to run out in the middle of a split.  The waiting run
  uses only write locks of one byte, since who waits for whom is what counts; three
  owners give circles of two and of three.
- *Semaphores.* Each list gives to one semaphore and then meets trouble at the other:
  one waits for more, one waits for zero, one may not wait; with three processes two
  sleep while the third one acts.  `SemVmx` and `SemAem` of one and two undo structures
  for three processes make the second operation fail by EAGAIN, ERANGE and ENOSPC.
  EINVAL, one entry too many, comes about only where a SETALL has changed the semaphore
  of an operation while it was copied in; that it takes back what was done is in the
  proof.  `MaxSeq` bounds removals, `MaxFaults` page faults.  `u_error` is written and
  never read, so the `VIEW` leaves it out of what distinguishes states; action
  properties are checked at every step, also at one to a state seen before.
- *Processes.* Three entries give a grandparent, a parent and a child, so that
  orphans, dead or alive, change parents.  `MayFail`, `Handlers` and `Posted` say
  whose forks fail, who besides init changes dispositions, and who is sent signals by
  kill and pauses for them.  In `processes` forks of proc[1] do not fail, since then the
  family tree does not hold (`fork_fails`), and proc[1] gets SIGCLD only from deaths and
  does not pause, which would make the run three times as long.  In `process_life`
  it pauses and may be sent a SIGCLD that nobody's death stands behind, but no other
  process changes dispositions: the state space would be too large for liveness.
  With two other entries there can be two dead children for one SIGCLD.
- *Inodes.* Two entries for three inodes make every entry be reused.  A list of
  two for three inodes is refilled by the scan; blocks of two inodes (`INOPB`) make
  the scan cross a block; inode 1 is in a block whose read may fail.  With a file
  open and another process using an inode, the table is full.  `Named`, `Linkable`
  and `Openable` bound the inodes that names are looked up for, that get links and
  that stay open: inode 1 in the run, which meets the others through `s5ialloc`.
  The branch of `AllocChecks` for an inode that "was allocated after all" is never
  taken in the run: that is what `ListedFree` says.
- *Messages.* Texts take no, one and two of three segments, so that the map is in
  pieces when one is out; two headers run out before the segments and after them; a
  queue is full with one message or with two.  Each of the four sleeps and each way
  out of msgsnd happens.  Two messages of one type differ in size, which tells their
  order.  `MaxSeq` is one removal per queue, which comes under every kind of sleeper.
- *Pipe.* Two blocks of two bytes are the least where the end of the circle
  and the end of a block differ.  Transfers of three bytes start in either half
  of a block, cross both ends and do not divide the circle; writes of five are larger
  than the fifo.  Two of each kind: one sleeps while another of its kind acts.
  The proofs cover all other sizes.

Processes, buffers, blocks and records that nothing distinguishes are declared
symmetric, in runs without liveness only.  Deadlock is checked in every run.

### Fairness

`BufferCache!FairSpec` (run `cache_store`): the driver answers each request (weak
fairness of `TransferOk` per buffer): a driver that loses a request hangs the code as
well.  A process that is in a call or holds a buffer goes on (strong fairness of
`Release \/ Step`): the scheduler runs every runnable process, but that a process finds
the kernel free for it (`run`) happens again and again and not continuously.  Nothing
says that calls are made.

`Processes!FairSpec` (run `process_life`): every runnable process in the kernel or with
a pending signal runs, and what an uninterruptible sleep waits for comes.  It is weak
fairness written out, `[]<>~CanRun(p) \/ []<><<Runs(p)>>_vars`, with the enabling
condition spelled out, which TLC evaluates much faster than ENABLED.  init does not stop
half way: in childeath it calls wait, and after it and after its forks it catches SIGCLD
again (weak fairness of `InitGoes`, which is `Wait(InitProc)` or `Arm`, while it is
neither in main nor in the kernel).  Nothing is assumed of it in main, where it may
pause for ever, or fork for ever, or do nothing at all: that it goes on to wait is the
doing of the kernel's SIGCLD.  So a run in which signal() does not tell of the dead
again leaves some unburied (the mutant `RetellNothing`).  After `getlvl`, SIGCLD is
caught again only when something is spawned (`init.c:1970`); fairness takes it that the
level asked for has an entry in inittab.  `ZombiesLaidToRest` assumes that forks end at
some time: each new child comes first in the chain, and wait takes the first dead one,
so that with new children dying for ever an old one could be passed by for ever.

## Findings

1. **A stale buffer is handed out** (`cache_stale_hit`, `os/bio.c:293-305`).
   getblk tests `B_STALE` at spl0 and sets spl6 afterwards without testing it
   again.  A delayed write of the buffer that fails in between makes it stale and
   not busy; getblk takes it, and the next getblk of the block skips the stale
   buffer and assigns another one.  Two processes have the block then.
2. **A failed fork cuts off adopted children** (`fork_fails`, `os/fork.c:268`).
   newproc takes its child off by `pp->p_child = cp->p_sibling`.  If the
   parent is proc[1] and another process exited while it slept, that process's
   children are in front of the new one and are cut off with it; wait in proc[1]
   never finds them.
Observations that are not runs, since nothing in the repository says otherwise or
since the parts are not modelled:

- a semaphore sleeper that is not woken, described under *Semaphores*
  (`io/sem.c:586`);
- s5ifree stores the number it frees at `s_inode[0]` when the list is empty, even
  if free inodes with lower numbers are not listed (`fs/s5/s5alloc.c:333`).  The
  next scan starts there, and s5ialloc reports that the file system is out of inodes
  although one is free.  That the scan is not started from the beginning is
  what the comment at `s5alloc.c:184` describes;
- the bound of that scan, `s_isize * (m_bsize/1024)`, is zero for blocks of
  512 bytes (`s5alloc.c:261`);
- IPC_SET raises the limit of a message queue and wakes nobody who waits for
  room in it (`io/msg.c:120`);
- a bad address in a read or write of a fifo changes its size by a block's bytes
  and leaves the pointers (`fs/s5/s5rdwri.c:135`, `:286`); with ENOSPC in a write in
  rounds the rest of the round is dropped;
- s5umount marks the file system clean and starts that write before all delayed
  writes are on the medium (`fs/s5/s5sys3.c:366`);
- smount returns with a mount table entry in the state MINTER on one error path
  (`os/sys3.c:333-345`), and the iput in sumount may sleep between finding the
  entry and marking it MINTER, while another umount takes it apart
  (`os/sys3.c:437-441`).

Further hazards, of parts that are not modelled, beside those in
`PROJECT.json`: a read or write under a mandatory lock checks once and then sleeps
block by block (`fs/s5/s5rdwri.c:59`); pexit cleans up after a failed fork
with semexit, which works on the parent (`os/exit.c:264`); breada holds the block
it read while it gets the next one (`os/bio.c:134`).

## Proofs

**Buffer cache** (`BufferCache_proofs`), for any processes, buffers, blocks,
devices, read-ahead lists and bounds, from `CacheAssumption` only, which says
that the sets are disjoint where they are joined, and that there are finitely many
buffers.  `Invariance` is `Spec => []IInv`, and from it follow `TypeCorrect`
(`TypeOK`), `AvailableList` (`FreeIffIdle`), `OneCopy` (`UniqueBlock`) and
`NoBufferLost` (`BusyIsOwned`).  None of the four is inductive.  That a released
buffer was busy (so that it is not put on the list twice) needs to know which
buffer a call works on and that it is the caller's: `CallOK`.  That iodone's
buffer is busy and not a caller's needs to know what is with the driver:
`HoldOK`.  That a delayed write started by getblk has contents and a block
needs `Filled`.  `UniqueBlock` needs the search, the reuse of the first available
buffer and its new name to be one step, and that a stale buffer never becomes
good again under its old name.  The proof has three parts, each by cases on
the action: `TypeStep`, `CallStep`, and `BuffersStep`, which relies on lemmas
about one buffer changing its state (`OneBuffer`, `GiveBack`, `StartTransfer`,
`WriteBehindStep`, `IodoneStep`, `GotStep`).  `SeqLemmas` has what is needed of
`RemoveAt`, `Append`, `Cons` and `Tail`.  `IInv` was
checked by TLC on the instance of `cache_errors` before it was proved.

The second half of the module extends that invariant by `WakeInv` and proves `WakeupsKept`
(`NoLostWakeup`) and `Drains` (`BdwaitDrains`).  `NoLostWakeup` speaks of the driver's
queue; what a step keeps is said of the flags.  `Asleep` is what a sleeper relies
on: the buffer getblk waits for is still busy and wanted, the transfer iowait
waits for is not done, the available list is marked, basyncnt is not yet zero.
`Begun` says that a process on its way to iowait has started the transfer it will
wait for, without which nobody would end that sleep.  `Counted` says that basyncnt
and the writes started but not yet counted (bio.c:173 comes after strategy) are
together the buffers marked as asynchronous writes; `WritesInQueue` turns these
into places in the queue.  A step touches one buffer (`TouchStep`), starts
a transfer (`GotWakes`, `WriteBehindWakes`), ends one (`IodoneWakes`) or touches none
(`QuietStep`).  For bdwait, basyncnt is zero and no write is uncounted when it
returns, since the one who would count runs (`UncountedRuns`).  TLC checked
`WakeInv` on the instance of `cache_errors` too.

The last part proves `NobodyStranded` (`FreeNotStranded`).  brelse wakes those who
wait for its buffer, and only if there are none those who wait for any, so that
several buffers may become available while somebody still sleeps for one.  The
property alone says nothing of how many processes are about to take them; what
does is `Enough`: while somebody sleeps for any buffer, the available ones can be
matched, one to one, with blocks that a running process is looking for and will not
find busy (`Sought`).  A release with `WANTED` adds a buffer and a block (`MatchMore`),
for the sleeper it wakes wants the block of that buffer (`Waiting`), still there under
its name; taking a buffer loses one of each (`MatchLess`).  That a block
looked for is not lost otherwise needs `AtHit` (a busy buffer the hash scan stopped at
is good), `Closing` (binval makes no buffer stale that somebody waits for, since nobody
is at a block of the device) and `WantedSlept` (a wanted buffer has a sleeper).  TLC
checked these on the instance of `cache_errors` and with three buffers.

The refinement is `BlockStoreImplemented`: `Spec /\ [](errs = 0) =>
ImplementsBlockStore`, with `SoundMedium` for a medium that never fails (`MaxErrs = 0`,
as in `cache_store`).  That no transfer fails is a hypothesis because the code promises
nothing else: `cache_stale_hit` shows that two processes may have a block after a
write-behind that failed.  `NobodyElseHasIt` says that they do not without one.
`StoreInv` has two parts.  `DataInv` is about contents: a buffer that can be found, and
is complete or being written, has the last version (`NewestIn`); a write in the driver's
queue is of a version between the medium's and the last (`Between`), the writes of a
block are queued in their order (`WritesInOrder`), a read of a buffer that can be found
comes after them (`ReadLast`); and the last version is on the medium, delayed or queued
(`Kept`).  It relies on the drivers serving the requests for one block in order.
`FreshInv` says that what a caller has is never stale (`HeldFresh`), nor is what a hash
scan stopped at (`HitFresh`), and that while a device is closed nobody has a buffer of
it (`Closed`), so that binval takes nothing from anybody and drops no delayed write
(`BinvalStore`).  Each step is one of a few kinds (`Gives`, `Gets`, `Fills`, `Modifies`,
`Behind`, `Completes`, or `Idles`; `ActorMoved`), and each kind is a step of one
register, or none (`GivesVisibly`, ..., `Visibly`).  The mapping chooses a buffer for
each block that somebody has; `OneHolder` says that there is only one to choose.  TLC
checked `StoreInv` with three buffers and two writes before it was proved.

**Record locks** (`RecordLock_proofs`), for any owners, servers, files, last byte,
lock records and requests, from `LockAssumption`: owners and records are finitely
many, the names that stand for nobody are nobody's, and requests are those the
system calls can make.  `Invariance` is `Spec => []Inv`; from it follow `TypeCorrect`
(`TypeOK`), `RecordsAccounted` (`PoolAccounted`), `ListsCoalesced` (`Coalesced`),
`SleepersWillBeTold` (`SleeperBlocked`) and `NobodyInACircle` (`NoCircle`).
`LocksImplemented` is `Spec => ImplementsByteLocks`, the refinement, and
`AlwaysExclusive` what it is for: in no reachable state is a byte locked by two
owners, one of them for writing.

The loop of flckadj is a recursive function over the places of the list it started
with; `Loop` is what holds after each of them, proved by induction on the place
(`LoopBegins`, `LoopIdle`, `LoopStep`, `ScanFacts`).  It has three parts: what has
become of the list (`Lists`: no record lost, the locks of others untouched, who slept
on what is changed told), what the places passed mean for the request (`Passed`: the
owner's locks there are before it and apart from it, and the hint `insrt` does not come
too late), and what each byte is locked as (`ByteWise`).  Each of the ways the code
deals with one lock (`IsPast`, `IsBefore`, `IsOver`, `IsSwallow`, `IsSplit`, `RunsOut`)
keeps the three.  That a lock may be looked at once and never again needs that the
request, when it swallows a lock and grows, grows over nothing it has passed
(`PassedSwallow`, `BelowHull`).  The sum of it is `Updated`, and `BegunLock` and
`BegunUnlock` say that the place blocked() returns is one to start from.  `Reworked` is
what both an update and cleanlocks do to the lists; the invariant is proved once for it.

`SleeperBlocked` is not inductive without `Told`'s last part, that the record of a
sleeper not yet woken names the owner of the lock it sleeps on.  `NoRing` speaks of
the sleepers' records alone and not of the locks: a woken sleeper's record stays, with
an owner that may have given up its locks, until it runs.  `DeadflckFacts` says that
deadflck, which goes as many steps as there are owners, has then seen all there is to
see: where it has not met the caller it has met an owner that waits for nobody
(`ComesRound`, by the finiteness of the owners), so that the caller's record closes no
circle (`NoNewRing`).

For the refinement `Held` are the bytes of all records (`HeldFacts`); each return
of reclock is a step of `ByteLocks` on them (`ReclockStep`).  blocked() finds no lock in
the way exactly when `Clear` holds (`ClearFacts`).  A request that runs out of
records has lost, of its bytes, those that are not locked any more (`RunOutStep`); that
no byte has changed its type needs that an owner locks a byte in one manner only
(`LockedOnce`), which the lists give and `ByteLocks` does not say.

**Pipes** (`Pipe_proofs`), for any number of processes, any ways to
open the fifo, lengths of transfers, and sizes and numbers of blocks, from
`PipeAssumption`: finitely many processes, at least two blocks, no transfer of
no bytes.  `Invariance` is `Spec => []IInv`; from it follow
`PointersAndCounts` (`TypeOK`) and `SleepersHaveReason` (`SleepersBlocked`),
`FifoImplemented` is `Spec => ImplementsFifo`, the refinement itself, and
`WritesWhole` is `Spec => []Contiguous`.

None of them is inductive.  During a transfer the pointers do not agree with the
size: `Circle` says where the process that transfers has got to, and that
there is room for the rest of its round, and `Alone` that there is only one, the
one with the inode locked.  `Reasons` is `SleepersBlocked` by place; that the
last close wakes those it must needs `Counted`, the counts as cardinalities, and
that a read does not end the wait of another reader needs `Sided`, that who reads
has something to read.  Each action has a lemma, which proves `IInv'` and what the
action does to `Front`, the place of the oldest byte.  `MovesFacts` says once what
a step of a process does to the others: it may wake them, and nothing else.

For the refinement, `Contents` are the bytes from `Front` on, around the circle, and
each step of the pipe is a step of `Fifo` on them, or none (`StepMaps`).  The
arithmetic is in two lemmas.  `ReadBlockTakes`: when the code cancels the write of a
block it has read (the room left is more than a block), no byte still in
the fifo is in that block, although others may have wrapped around behind it.
`WriteBlockPuts`: a block that is not read first is either written
whole or from its start, in a fifo with so much room that none of its bytes is in that
block.  Lengths are linear in all of this but in `BlockWithin`, that a block
lies within the circle.

For `WritesWhole`, `LastWritten` says that a byte with others to come can be the last
in the fifo only while its writer has the inode, and `WholeAt` that a write that fits is
one round: it has waited with all of it to come.  `ShiftedKept` does the steps that put
nothing in, and in `WriteBlockWhole` the first byte of a block meets the last one
in the fifo.

**Inodes** (`InodeTable_proofs`), for any numbers of processes,
entries, inodes, links and lengths of the lists, from `TableAssumption`: these numbers
are positive, the processes are finitely many, and the inodes named exist.
`Invariance` is `Spec => []IInv`; from it follow `OneCopyInCore` (`OneInode`) and
`ReferencesCounted` (`Counted`).  `IInv` ties each entry to the processes: its
count is the number of its references, it is locked when exactly one of them has
passed the lock, it is on `ifreelist` when nobody has it, and, unless it has changed
or is being read, it equals its block (`SlotOK`); and each process knows what it
has, in iput that it is the last (`ProcOK`, `Alone`).  None of these holds
without the others: that iget may reuse an entry needs that the free list has nobody's
entries, and that the entry is lost without harm needs that it was unchanged.
The steps of the module are of eleven *kinds* (`StepsHaveKinds`): `Quiet`,
`Works`, `Takes`, `Puts`, `Unlocks`, `Relocks`, `Fetches`, `Fills`, `Drops`, `Hands`
and `Iflush`, by what they do to one entry and to the caller; the invariant is proved
once for each kind, with one lemma for what any step does to others, which is
to wake them (`Others`).  `S5inodesAccounted` (`S5Accounted`) adds that what an
entry of `s5inode[]` is attached to is an entry of the table, `AllocationExclusive`
who has s_ilock (`AllocInv`).

`ListImplemented` is `Spec => ImplementsInodeList`.  `ListHere` says where the newest
copy of an inode is, `SlotDecides` that a step which changes one entry changes that inode
of the list only, and each kind is then a step of the list or none.
`TypeCorrect` (`TypeOK`) is proved there too, since one of its bounds is not about types:
s5ifree counts the inode in s_tinode after it has freed it, so that s_tinode with
what s5ifree still owes (`Owed`) is at most the number of free inodes of the list.

`NumbersFree` (`ListedFree`) needs what `ListInv` says of a free number on its way: the
numbers listed, and while the list is rebuilt those filled in, are free and differ
(`PlacesOK`); a number that is popped and not allocated yet, or freed and not listed
yet, is free and not listed (`HeldOK`); the scan has only filled in numbers below the
one it is at (`ScanOK`); a block shows an inode in use as free only between its
allocation and its `iupdat`, during which its process has s_ilock (`MediumOK`), so what
the scan reads from the block is so.  `Straight` says that s5ialloc never gives an inode
back because it "was allocated after all".

`NobodyInACircle` (`NoCircle`) rests on it.  `WaitInv` says that what a sleeper waits
for stays locked and wanted until he is woken.  Whoever sleeps with an inode locked does
so in s5ifree (`LockedAsleep`), for s_ilock; who has s_ilock and sleeps is in iget, for
an inode whose number is free; and the inode locked in s5ifree is still a file's
(`FreeNotAsked`).  So no chain of sleepers is longer than three.

**Processes** (`Processes_proofs`), for any process table, any signals and any choice of
the processes whose forks fail, that change what they do with signals or that are sent
signals, from `ProcAssumption`: the table is finite and has proc[1], the signals are a
list without repetition with KILL and CLD in it, and proc[1] is not among `Handlers` (it
is init, and changes only what it does with SIGCLD, by `Arm` and `Disarm`).
`Invariance` is `Spec => []Inv`; from it follow `TypeCorrect` (`TypeOK`),
`SignalsEndSleep` (`NoSignalSlept`) and `DeadChildrenSeen` (`NoZombieMissed`).

`Inv` has two parts.  `Wellformed` is about the table alone: `Table` types the entries
and ties the channel to the state; `Family` says that the chain of each process is
linked as p_child and p_sibling say, ends, and holds children only, all of them unless
it is proc[1]'s and its forks may fail; `Parents` that a parent is there and can act;
`Newborn` where in its parent's chain a child that is being made stands, and that there
is one at a time, which is what makes `pp->p_child = cp->p_sibling` right for
everyone but proc[1].  `Settled` is about a process and its place in its program: whoever
sleeps so that a signal may end it has no signal that it does not hold, and in
wait no dead child unless SIGCLD is held; an uninterruptible sleep is the one of
fork or of exit; a process is in fork exactly as long as a child of its is
half made.  `NoZombieMissed` is not inductive without all of it: a child that dies is
seen because exit posts SIGCLD to its parent, which p_parent must name, and because
wait looks through the chain, which must then hold the child.

The functions on the table have a lemma each, which says what becomes of the chains and
of the rest (`FreeprocFacts`, `AdoptFacts`, `NewprocFacts`, `ForkFailsFacts`, ...), all
resting on `ChainIs`: whatever sequence is linked as the pointers say is what following
them computes.  That and `FreeprocAllFacts`, the loop of issig that gives dead children
back until none is left, are inductions on the steps of a recursive function.  Each
action then has a lemma (`ForkStep`, `ExitStep`, ...).

`TreeKept` is `FamilyTree`, for every table in which forks of proc[1] do not fail: the code
does not make sure of that, and the finding `fork_fails` is what happens when one does.
`Invariance` and the other theorems do not assume it.

**Messages** (`Messages_proofs`), for any numbers of processes, queues, headers and
segments, any size of a segment, any requests, limits and number of removals, from
`MessagesAssumption` and `SlotsAssumption`, which say only that these are numbers and
that a message sent has a type above zero (`msg.c:386` refuses others).  `Invariance` is
`Spec => []Inv`; from it follow `TypeCorrect` (`TypeOK`), `NoWakeupLost`
(`SleepersBlocked`), `NoSegmentTwice` and `NoSegmentLost` (`PoolAccounted`), and
`QueuesImplemented` is `Spec => ImplementsMessageQueues`.

Again none is inductive.  `Locks` and `CopyOK` say what a process may rely on after a
copy in which it slept: it alone has the queue locked, the room it found is still there
(else the refinement would have a send past the limit), and the message it is to take
is in its place, none before it of its type.  That a receiver who found nothing is
woken by the next message needs the flag of his own incarnation of the queue, and the
same goes for room: `ReasonOK` is `SleepersBlocked` by state.  `PoolOf` gives every
header and text to a holder, a place in a queue or a process that copies in; a
message that leaves the middle of a queue renames the holders behind it
(`PoolRenamed`).  Each step is of a few kinds (`QuietStep`, `QueueStep`, `MapStep`), by
what it changes, after a chain of wakeups of which `WokeFacts` and `Roused` say that
they wake, and change nothing else.

The first part of the module is about maps: `MfreeFacts` and `TakenFacts` say that mfree
and malloc, which join and split ranges in the array, add and take exactly the units
they were called for, and keep the ranges in order and apart.  mfree loses the units
when the array is full.  `NoSegmentTwice` holds all the same: what is lost is not used
again.  That nothing is lost needs `EnoughSlots`, `MSGTQL <= MAPSLOTS`: behind each
range but the last begins a text, and there are no more texts than headers
(`NoOverflow`).  The configuration has 40 headers and 98 slots (`cf/config.h:111`,
`:112`; mapinit keeps two for itself, `sys/map.h:33`), so the condition holds there;
nothing in the code makes sure of it when these are changed.

For the refinement, `QueueBar`, `MadeBar` and `LimitBar` are the queues, their
incarnations and limits as `MessageQueues` has them; each action sends, receives, removes,
makes or sets there, or does nothing (`NextMaps`).  `TextsBack` and `Bytes` are
recursive functions, and what they compute is an induction on their steps.

**Semaphores** (`Semaphores_proofs`), for any finite set of processes, any numbers of
identifiers and semaphores, any limits, and any lists of operations that are not empty
(an empty one does nothing), from `SemAssumption`.  `Invariance` is `Spec => []Inv`;
`TypeCorrect` (`TypeOK`), `WaitersCounted` (`SleepersCounted`), `NoWakeupLost`
(`SleepersBlocked`) and `DoneOrUndone` (`AllOrNothing`: every failing return and every
sleep, `AllOrNothingNow` of each step) follow from it.

The invariant has to say more in three places.  `Counted`: a count is above zero when
somebody sleeps there, and at most the number of those who sleep or, ended by a signal,
have still to count themselves out (`Waits`).  The code has no such pairing of counts
and sleepers: whoever wakes sets the count to zero, those woken may be counted again
before the one with the signal takes himself out, and only the wakeup by the last one
out, which makes everyone count again, keeps it right.  `Current`: the identifier of a
call is the one in the table or has been removed; never a later one.  `Reason`: among
the operations a sleeper tried there is one on the semaphore he sleeps on that cannot be
done.  That is `SleepersBlocked` seen from one operation, which each change of one value
keeps or ends with a wakeup (`ReasonKept`); that an operation which cannot be done by
itself stops the list needs that no other one is on the same semaphore (`DoAllStuck`).

The first part of the module is about a list of operations as `semop` does it.  `Ran`
says where the work stands after `i` of them, and is kept by one more (`RanStep`), so it
holds of all (`TrialRuns`): values and adjustments in their limits, and everyone who
waits woken if a value became one that could help him.  `SemaoeBack` says that `semaoe`
never fails in taking back what it has added (there is room for the entry, and the sum is
in range, since both were so before), and `SemundoRuns` that taking back in the reverse
order ends with the values and adjustments of the start.  Both are inductions on recursive
functions (`Iteration`).

**Only model-checked:** liveness under fairness (`EverySleepEnds`, `KillKills`,
`ZombiesLaidToRest`) is beyond the prover.  Induction theorems of the library take an
operator, which the installed provers cannot instantiate; `SeqLemmas` states induction for
a set of numbers instead (`SetInduction`, `UpTo`), and with it that a function defined by
recursion over an interval is what its definition says (`IterationExists`).

## Not modelled

`PROJECT.json` lists every part with its reason.  In short: single process code without
shared state (exec, traps, start-up), register level drivers, user programs but init's
handling of its children, and the boot tools are outside; the parts of the next section
are to come.

## Plan

In order of importance:

1. `SuperBlock`: `alloc` and `free` of blocks in `fs/s5/s5alloc.c`, the chain
   of free blocks, `s_flock`, and the order of their writes through the cache;
   abstractly a set of free blocks.  Property: no block free and in use, or
   allocated twice.
2. `Mount`: sync, umount and a crash, with the cache as delayed writes: what is
   marked clean is clean (`s5sys3.c:366`).
3. `Callout` (`os/clock.c`), tracing (`ptrace`, `procxmt`, `SSTOP`) as an
   extension of `Processes`.
4. `Region` and pages: region locks and reference counts.
5. RFS recovery (`nse/nudnix`): descriptors, queued work and a lost circuit.
