# A TLA+ verification of the xv6 editor and of the kernel under it

The repository is a line editor with undo and syntax highlighting
(`src/editor.c`) and the xv6 kernel it runs on (`src/xv6_all_files/`).  This
directory models the parts of both whose correctness depends on more than one
step: what the editor does to a text over many commands, and what the kernel
does when processes, CPUs, interrupts and power failures interleave.

## Parts of the system

| part | sources | modules | state |
|---|---|---|---|
| line editor: commands, undo, load, save | `editor.c` | `Editor`, `EditorUndo` | modelled, proved |
| syntax highlighter | `editor.c:654-923` | `Highlight` | modelled, safety proved |
| write-ahead log and recovery | `log.c` | `Log`, implements `TransDisk` | modelled, proved |
| buffer cache, disk driver | `bio.c`, `ide.c` | `Disk`, implements `BlockStore` | modelled but for disk errors, proved |
| blocks and contents of files, image builder | `fs.c`, `file.c`, `mkfs.c` | `Inode` | modelled |
| inodes, directories, names, open files | `fs.c`, `file.c`, `sysfile.c`, `exec.c` | `Fs` | modelled |
| pipes | `pipe.c`, `fileclose` | `Pipe`, implements `ByteQueue` | modelled, safety proved |
| process table, scheduler | `proc.c` | `Proc` | modelled, invariants proved |
| physical and user memory | `kalloc.c`, `vm.c`, `exec.c`, `growproc` | `Memory` | modelled |
| spin locks, traps, console, keyboard, `sleep()` | `spinlock.c`, `trap.c`, `console.c`, `kbd.c`, `uart.c`, `sys_sleep` | `Console` | modelled but for output, safety proved |
| boot, interrupt controllers, shell, user library, user commands | see `PROJECT.json` | none | not modelled, below |

How they interact: the editor saves with `unlink`, `open` and `write`; each of
these calls runs inside a transaction of the log (a long write in several: `begin_trans` ...
`commit_trans`), which writes home blocks through the buffer cache.  `Fs` uses the
log as `TransDisk` promises it (a transaction at a time, a committed and a working
disk) and `Inode` counts what a transaction puts into it.  `Disk` is the cache that
`Log` sees only as loading, pinning and eviction.  The log, the buffers, the disk
driver and the pipes sleep and are woken through the process table, whose `sleep()` is
the atomic step "release the lock and sleep" in those modules; `Console` is
where that step itself is taken apart, with its two locks, the interrupt flag and the switch
to the scheduler.

## Modules

**Log** has one action per stretch of `log.c` between two sector writes or
lock operations.  `disk`, `dlog` and `dhead` are what is on the platter,
`cache`, `dirty`, `lh` and `busy` are memory, `tail` is the loop variable of
`install_trans`, `pc` and `held` say where each process is.  `ReadHead`,
`RecoverInstall` and `RecoverErase` are `recover_from_log`; `BeginTrans`,
`LogWrite`, `CommitTrans`, `CommitInstall`, `CommitErase` and `CommitEnd` are the
calls; `Modify` is the caller's part of the protocol (read a block, change
it); `Load` and `Recycle` are what `bget` may do to a buffer meanwhile;
`Crash` loses the memory at any moment.  The header block is one sector, so it
is written in one step.

**TransDisk** is what file system code may rely on: a disk with a working and a
committed copy; a transaction changes the working copy, commits it in one
step, and a failure brings the committed copy back.  `Log` maps `working` to
what `bread` returns and `committed` to what recovery would produce from the
disk as it is.

**Editor** has `text` (the array of line pointers), `line_number`, `changed`,
`auto_show`, `cmds` (the undo records), the file and the editor's mode.  Each
command runs from prompt to prompt in one action, with everything it calls:
recording, updating `line_number`, and the display, which may never return.
Saving is split at every system call that changes the file, because the machine
may stop there (`PowerOff`).  Lines are a few representative contents: ordinary,
empty, too long for an undo record, with an unmatched quote, too long to load.
With every slot in use the code reads past `text[]`; what it finds there is
taken from the build in the repository (`editor.asm`) and described in the module: one, six or
eight words that look like lines (`beyond`).  `ins` after the last line writes to such a place; `del` moves what is
there into the last slot, which stays in use, and frees one of the words, so that it either kills the editor or leaves a block
in the free list over which a later `malloc` may fault (`MallocFaults`); `save` writes these words as further lines.
The same build decides that the undo record, which outgrows its five bytes
(`editor.c:383`), only reaches a buffer that is no longer in use.

**EditorUndo** adds a history variable that remembers, for each undo record, the
text before the command, to state what undo has to bring back.

**Highlight** is the loop of `show_text_syntax_highlighting` over one line, one
action per kind of branch; the sixteen keyword branches are one action over a
set of words.  The search for a closing quote stops at the end of the line: the
bytes after it are zero in all buffers but those of the command `init`.

**Pipe** has the fields of `struct pipe`, the lock, the references to the two ends, and
for each process its position, the end it uses and the bytes left.  Every
byte, every test and every sleep is an action; `Kill` needs no lock and may
fall between any two of them.  Counters are taken modulo `UINT`, a multiple of
`PIPESIZE` as 2^32 is.  All processes start with both ends open (after `pipe()`
and `fork()`), and close them in any order.

**ByteQueue** is a bounded first-in first-out queue with two ends that close.
`Pipe` maps its queue to the bytes of the ring from `nread` to `nwrite`.

**Proc** has the process table, what each CPU executes, and `ptable.lock` by the
CPU that holds it.  A critical section that ends in `release` is one action.
One that ends in `sched()` is split: the lock stays with the CPU until its
scheduler gives it up, and the CPU is still on the old kernel stack until
`Sched`.  `fork()` is five actions, as it fills the new slot without the lock.
System calls leave interrupts on, so a timer interrupt can take the CPU from a process in the middle
of `fork()` as well as in user space (`Preemptible`); it goes on on any CPU.
The scheduler may choose any runnable slot.  A fault of user code is an exit.
`trap()` tests `proc->killed` before a system call without the lock, so a killed
process may still make a call; fairness makes it exit in the end.

**Disk** is `bio.c` over `ide.c`: the buffers and their most-recently-used list, the
driver's queue, the controller and its interrupt.  A process asks for sectors, may
hold two buffers (`MayHold`: `log_write` and `install_trans` pair a sector of the log with another one; `bmap` and `itrunc` keep an indirect block
while `balloc` and `bfree` read others), changes, writes or logs them, and
releases them.  `BgetHit`, `BgetSleep`, `BgetRecycle` and `BgetPanic` are the outcomes of one
pass through `bget`; `Iderw`, `IderwLoop`, `IderwWoken` and `Ideintr` are the driver.  The log's part is small:
a logged buffer stays dirty until the transaction is over.  The
controller (external) finishes a request some time after it was started.

**BlockStore** is what the rest of the kernel may rely on: one content for each sector,
which only the process that holds the sector changes, and which reaches the platter
when that process writes it.

**Inode** has the bitmap, the blocks and the inodes of a disk as `mkfs` makes it
(`Image`; the initial states are images), open files with their offsets, and what each process has
still to write.  A chunk of `filewrite` is one transaction and one action; other processes
come between two chunks.  `file` is a history variable: what was written.
`Balloc`, `Bmap`, `Writei`, `Readi` and `Itrunc` are functions on the disk that also collect the
set of blocks they log.  Inodes, bitmap, data blocks and log lie on the disk in the order of `mkfs`, and the log's blocks
are not marked as used.  When a file gets one of them, file and log overwrite each other; the model stops there
(`stop = "overrun"`) and says nothing of what follows.

**Fs** is the inode cache, the directory tree, the table of open files and the system calls
of `sysfile.c`, with a stack of continuations for each process: a call stops where the code may
wait (`begin_trans`, `ilock`, and wherever a lock is given up), and everything in
between is one action.  `commit_trans` is two, the write of the header and the rest.  There is no crash action: `TreeAfterCrash` speaks of `committed` in every state.  `disk` is the working copy and `committed` what a power
failure would bring back; `iput` may write outside a transaction, as in the code, and the
panics that follow are states, not errors of the model.  So is the meeting of two processes in `log_write`, or in `log_write` and
`commit_trans`, which no lock prevents there: what the log holds then depends on single instructions, and the model stops.  Paths are sequences of names and `..`, of one or two elements in the run.

**Memory** has the pages, the address spaces (directory, tables, entries) and the
processes with their sizes.  `kalloc` finds no page when the pool is empty, and also once in a call when other processes have the
rest for a moment: `Refusals` says which of the call's requests this can be.  `fork`, `exec`, `sbrk`,
`exit` and `wait` run to their end or to the first failure with all that they undo.
Processes compete for pages only through the pool, so each call is one action.  Any number of
pages is in the hands of pipes from the start, which decides where the pool runs out.  `lost` collects the pages to which no pointer is
left, `data` says what a page contains.  `exec` takes segments that do not start at a page, over which `loaduvm` panics, and pages that could not be mapped,
which it then reads to physical address 0; `uva2ka` of a page without a page table follows a null pointer, and the model stops.
The sums of address and size in a program header are assumed not to wrap around.

**Console** has CPUs with interrupt flag and `ncli`, spin locks, the scheduler, and threads that
are interrupted at any instruction where interrupts are on.  An interrupt is a frame on the
interrupted thread with steps of its own.  Under them run `consoleread`, `consolewrite`,
`sys_sleep` and `procdump`, fed by a keyboard that sends scan codes, a serial line and a timer.
`line` is a history variable: the characters completed and not yet read.  Six
scenarios (which processes do what, and what is typed) are the initial states.  `consoleread` and `consolewrite` give up the lock of the console's inode
where they wait and take it back at the end; the model leaves it out, since it is held only where nothing waits (`Fs` has `ilock` and `iunlock`).

Definitions whose comment begins with "Broken" are variants with a plausible
mistake.  Each property was seen to fail with one of them, and so was each conjunct of the invariants that
collect several (of those that are inductive, whose conjuncts depend on each other, some); they are no part of the specifications.

## Runs

| run | shows |
|---|---|
| `log` | `LogInv` (types and the inductive invariant of the proofs), `AtomicTransactions`, `RecoveryEnds`, `SleepersWake` |
| `editor` | `TextInv` (types, `LinesContiguous`, `FileSound`, `StaysFull`), `UnchangedIsSaved`, `SaveLeavesPrefix` over all command sequences |
| `editor_undo` | `UndoRestores`, `InsertAddsOneLine` |
| `highlight` | `PrintInv` (types, `EachLetterOnce`, and what makes them inductive), `EndsOrRepeats` on every line of up to four letters |
| `pipe` | `PipeInv` (types, `MutualExclusion`, `NoUseAfterFree`, and what makes them inductive), `NoLostWakeup`, `IsByteQueue`, `EndOfFileIsFinal` |
| `proc` | `ProcInv` (types, `StackIsOwned`, `RunningIsOnCPU`, `EmbryoIsPrivate`, `UnusedIsClean`, and what makes them inductive), `ParentIsAlive`, `NoMissedExit` |
| `proc_live` | `InitReaps`, `KilledExits` |
| `disk` | `BufferInv` (types, `OneBuffer`, `NoBufferLost`, `RequestIsSane`, `HeldIsValid`, `CleanIsOnDisk`), `DriverInv` (`QueueIsServed`, `NoLostWakeup`, `WrittenIsOnDisk`), `IsBlockStore` |
| `inode` | `InodeInv` (types, `NoHoles`, `OffsetInside`, `BlocksOwned`), `FitsInLog`, `ReadsBack`, `LogIsLast` |
| `fs` | `InodeCacheInv` (types, `OneSlot`, `CacheAgrees`, `InUseIsAllocated`), `RefsCounted`, `TreeAfterCrash`, `PanicKnown` |
| `memory` | `PageInv` (types, `PagesAccounted`, `UserMemoryIsData`), `SizeIsMapped`, `PanicNeedsLoss`, `ForkCopies` |
| `console` | `LockInv` (`NoPanic`, `InterruptFlag`), `RingInv` (types, `RingIsReadable`, `InOrder`), `LineAtATime`, `WakeupsArrive` (`NoLostWakeup`, `NapEnds`), `NoStuckModifier` |

Bounds.  The log has room for two blocks, which a transaction logs in either order, again, or once too often; three processes
make two wait in `begin_trans` at the same time, of which the wakeup lets one in.  Three line slots
are the least with a first, a middle and a last line, and files have up to one
line more than fits; `editor` has lines with and without a quote and a file with a line that is too long, `editor_undo` has lines that do and do not
fit an undo record.  Two undo records make the oldest one give way.  A ring of two
bytes with counters modulo four wraps in both, and a transfer of three bytes
fills the ring and sleeps half way.  Three processes give two that compete on one side with one on
the other.  Four slots give init, a parent and two children; `MaxPid` stops the
forks.  `proc_live` has one CPU and three slots: fairness with two CPUs takes too
long to check, and what the second CPU can break is in `proc`.

`disk`: two processes, two buffers and three sectors (one of them the log's), so that buffers are shared,
recycled, pinned and used up; one sector is an indirect block.  `inode`: blocks of two bytes, one direct and two indirect
blocks, nine data blocks and four inodes, a log of six: one write crosses all
boundaries, and the root directory and two files use up the data blocks, so that the next block would be the log's.  Sizes stay below `UINT`.
`fs`: two processes with two calls each, five inodes, four slots of the cache, two open files:
each table can be full, and an inode can be freed and used again while the other
process is in any call.  `memory`: two processes and seventeen pages, page tables with two
entries, a pool that refuses the second or the seventh request of a call, and a `KERNBASE` of six pages; two lost pages at most.  `console`: two CPUs, two processes, a ring of
two characters and counters modulo four.

Deadlock is checked where the system must go on (log, editor, disk, inode, fs, memory, console; where calls are
bounded, their end is a stuttering step).  A pipe that
everybody has closed, a line that is printed and a kernel that has panicked
really stop.

Fairness.  The scheduler's loop comes round to every slot and the timer preempts,
so a process inside the kernel takes its next step (weak fairness) and one that
is runnable again and again runs (strong).  Between two timer interrupts it gets on: a process in `fork()` that is preempted again and again
does its next step in the end, and a killed one reaches its next trap (strong fairness of `Fork` and `KilledTraps`).  Spin locks are not fair, but every
critical section is short; strong fairness of their acquisition is assumed where
a liveness property needs it, and it is used for `KilledLeaves` below only to show that
the failure there is not due to its absence.  A system call makes finitely many
log writes, hence strong fairness of `CommitTrans`.  init calls `wait()` for ever
(`init.c`).  The editor's `Highlight` loop is a single process.  The other runs check safety
only: what must happen there is stated as an invariant on sleepers (nobody
sleeps while what it waits for is there) together with the absence of deadlock.

## Disagreements between the code and its documentation

Each is a property that TLC refutes with a configuration of its own:

- `tlc -config MCUndoHitsItsLine.cfg MCEditorUndo`: deletions are not recorded, so undoing a
  modification after one overwrites another line; the README says that nothing else is affected.
- `tlc -config MCDisplayEnds.cfg MCHighlight`: an unmatched quote makes the highlighter
  start the line over for ever.
- `tlc -config MCKilledLeaves.cfg MCPipe`: `kill()` between the test of `proc->killed` and
  `sleep()` is missed.
- `tlc -config MCBornAlive.cfg MCProc`: `kill(0)`, or `kill` of the pid of a fork that
  failed, kills the next process that gets the slot.

Met while modelling and part of `Editor` without a run of their own: `ins-n`
inserts before line n where the help says after it (`editor.c:588`); undoing the
modification of an empty line asks the user for a line (`editor.c:408`); with all
256 slots in use `save` writes one, six, seven or eight more lines from other memory
(`editor.c:513`), `ins` drops the last line silently, and `del` (`editor.c:461`) takes bytes past the table for the last line or kills
the editor, depending on how the table was filled and on the length of the command.

Met in the kernel, part of the models, and named in the properties where they limit
them:

- `iput` outside a transaction (`sysfile.c:372`, `proc.c:183`, `exec.c:49`, `fs.c:617`) frees an inode
  when it drops the last reference: "write outside of trans", or the change joins
  whatever transaction is open, or races with it in `log_write`.  `PanicKnown` lists this, and "ilock: no type" by way of the `..` of a
  directory that was removed together with its parent.
- A link made inside a removed directory leaves the target's count too high.
- `mkfs` does not mark the log's blocks in the bitmap (`mkfs.c:150`); `balloc` gives them to files
  when all others are used.  `LogIsLast` says that this needs a write for which the data blocks are too few: no sequence of writes and
truncations leaks blocks that would bring it about earlier.
- `filewrite` counts on ten blocks of log (`file.c:132`) and `log_write` takes nine
  (`log.c:164`); `FitsInLog` holds because there is one bitmap block.
- `mkfs` rounds the root directory up by a whole block when its entries fill
  their blocks (`mkfs.c:146`), which would leave a hole; assumed not to be so (`RootIsNotFull`).
- `allocuvm` ignores that `mappages` fails (`vm.c:262`); `setupkvm` and `copyuvm` lose
  pages when a page table is refused.  `PageInv` accounts for them as `lost`, and `PanicNeedsLoss` says that
  the later panics have no other cause.
- `exec` does not test that a segment starts at a page, and `loaduvm` panics over one that does not
  (`vm.c:224`); this is the exception in `PanicNeedsLoss`.
- `growproc` to size 0 fails with the memory gone and the size unchanged
  (`proc.c:117`); by more than the size, the size it asks for wraps around, `deallocuvm` finds nothing to do, and the
  size stays what it was.
- `fork` copies the guard page below the stack as an accessible one.
- A writer that is killed at the full ring returns without waking the readers of what it has
  written (`pipe.c:85`): they sleep on until another writer comes or the last one closes.
  `NoLostWakeup` of `Pipe` has this as its one exception.
- A read that the disk reports as failed leaves the buffer valid with old contents
  (`ide.c:106`).

## Proofs

`LogProofs` holds, for every set of processes, blocks and contents and every size of
the log, from `LogAssumption` alone:

- `LogInvariant`: `Spec => []LogInv`;
- `LogImplementsTransDisk`: `Spec => AtomicTransactions`, the refinement.

That transactions are atomic is not inductive as it stands.  `LogInv` adds what the code
relies on: one transaction at a time (`OneTransaction`); no block twice in a header
(`NoDuplicates`), so the order of installation does not matter; a header on disk
exactly from the commit point to the erasure, and equal to the one in memory
(`HeaderWhenCommitting`, `HeaderEmptyOutside`); no process before recovery is over
(`QuietRecovery`); the blocks before `tail` installed (`Installed`); logged blocks
pinned, with their contents in the log (`LoggedIsPinned`); all other cached
blocks equal to the disk (`CleanIsCurrent`); and the buffer a process holds cached
(`HeldIsCached`).  There is one lemma per action for the invariant.  For the
refinement, lemmas say what recovery would produce before the commit
(`LoggedVisible`), during installation (`InstallKeepsRecovered`,
`EraseKeepsRecovered`) and when nothing is logged (`QuietVisible`), and `RefineStep` maps each action: a
modification is a write, the header write is the commit, `CommitEnd` ends the
transaction, a crash (or a panic followed by one) fails it, and everything else
stutters.

`PipeProofs` holds, for every set of processes and bytes, every `PIPESIZE`, and counters
modulo any multiple of it (`PipeAssumption`):

- `PipeInvariant`: `Spec => []PipeInv`;
- `WakeupsNotLost`: `Spec => []NoLostWakeup`;
- `EndOfFile`: `Spec => EndOfFileIsFinal`;
- `RingIsQueue`: `Spec => IsByteQueue`, the refinement of `ByteQueue`.

That the page is not used after it is freed, and that nobody sleeps through a wakeup, need
to know who holds what.  `PipeInv` adds that an end is open as long as a reference to it
is left or its last holder is in `pipeclose` (`EndsCounted`), what a call has still to transfer
(`CallsCounted`), and that what a sleeper waits for is still to come, unless the process that brought it is
between its change and its `wakeup` (`SleepersWait`).  `FreeIsLast` says that the close
that frees the page finds nobody inside.  The refinement adds that `nwrite - nread`, as an unsigned
number, is at most `PIPESIZE` (`NoOverrun`).  `PlacesDiffer` is where the divisibility is needed: two
counters less than `PIPESIZE` apart, across the wrap too, have different places in the ring, so a byte
that is written replaces none that is stored.

`ProcProofs` holds, for every size of the process table and every set of CPUs
(`ProcAssumption`):

- `ProcInvariant`: `Spec => []ProcInv`;
- `ParentsLive`: `Spec => []ParentIsAlive`;
- `ExitsNotMissed`: `Spec => []NoMissedExit`.

The strengthening is the protocol of `ptable.lock` around `swtch()`: the CPU whose process is on its way into
or out of `sched()` holds it (`LockAcrossSched`), so a scheduler that looks for a process, or a parent
that frees one, meets none that is still on a CPU.  A process that was preempted inside `fork()` is on no CPU for a while and keeps its slot
all the same: `SlotOwns` follows where the process is in `fork()`, not whether it runs.  Around it stand where a process can be in each state (`PlaceOfState`),
what `fork()` has given to the slot it fills (`SlotOwns`), and that init is there and
nobody is its own parent (`InitLives`), which the adoption in `exit()` relies on.
`NobodysParent`, `ForkSlot` and `RunsAlone` are the facts that most actions use; the lemma of an action
says what the action changes, slot by slot, and then takes the conjuncts.

`EditorProofs` holds for every size of the table and of the undo buffer, all kinds of lines
(`EditorAssumption`) and every set of files that the editor may find (any non-empty sequence of lines, or none):

- `TextIsSound`, `NothingUnsaved`, `SavedSoFar`: `TextInv`, `UnchangedIsSaved` and `SaveLeavesPrefix` are
  invariants of `InitFrom(files) /\ [][Next]_vars`;
- `UndoGivesTextBack`: the specification with the history variable implies `UndoRestores`;
- `InsertionAddsALine`: it implies `InsertAddsOneLine`.

The first three are inductive together (`EditorInv`): an exit without saving is right because `changed` is, and a save
because the text has no gap.  `SaveLeavesPrefix` compares the file with `goal`, an auxiliary variable that keeps the text of a
save that was begun; nothing is claimed of the old text, which is lost as soon as the save begins.  A full table stays full until it is written anew, whatever
is found past it (`StaysFull`).  `ShiftedUp`, `ShiftedDown` and `Loaded` say what the loops over `text[]` do to a text
without gaps.  For undo, `PastInv` is a chain: the record k, executed on the text before
command k + 1, gives the text before command k, unless a change that is not recorded came between.  `Pushed` and
`Popped` keep the chain, also when the oldest record gives way, and `UndoOfIns` is the
equation of one link.  It has no equation for a full table, where `del` runs past the end: there `UndoRestores` speaks of modifications only.

`DiskProofs` holds for every set of processes, sectors and contents and every number of buffers (`DiskAssumption`):

- `BuffersSound`: `Spec => []BufferInv`;
- `DriverSound`: `Spec => []DriverInv`;
- `CacheImplementsBlockStore`: `Spec => IsBlockStore`, the refinement.

`BufferInv /\ DriverInv` is inductive.  What carries it is `HeldIsValid` (a buffer that a process holds is valid, or the
process is still loading it), `CleanIsOnDisk` (a valid clean buffer has what is on the platter, unless its holder has just
changed it), `QueueIsServed` (a request stays queued until it is finished, and the controller works on the first) and
`WrittenIsOnDisk` (when the interrupt is there, the platter has the data).  In the refinement the content of a
sector is that of its valid buffer, or else of the platter; `ContentKept` is the step that all cases reduce to: recycling a
buffer, loading a sector and finishing a write change no content.

`HighlightProofs` holds for lines of every length, any letters and any keywords of which none begins another
(`HighlightAssumption`):

- `LettersPrintedOnce`: `Spec => []PrintInv`.

That every letter is printed once when the loop ends is not inductive, because the loop can start over.  `PrintedSoFar`
says what is printed until then.  `Replays` says that afterwards the loop is caught: there is a set of letters on the line,
with the one at `mark`, from which it only goes to letters of that set.  `OneWay` shows that there is one
way to go on from each letter; this is where the assumption on keywords is used.

`ConsoleProofs` and `InputProofs` hold for every set of CPUs, every number of processes, every `INPUT_BUF` and indices modulo
any larger multiple of it (`ConsoleAssumption`, which also says of the scenarios that they consist of calls, keys and
characters that the model knows; there may be any number of them, of any length):

- `ConsoleInvariant`: `Spec => []ConsoleInv`, and from it `LocksAreUsedWell`: `Spec => []LockInv`;
- `InputInvariant`: `Spec => [](ConsoleInv /\ InputInv)`, and from it `NoWakeupIsLost`: `Spec => []WakeupsArrive`,
  `AReadTakesOneLine`: `Spec => []LineAtATime` and `RingHoldsWhatWasTyped`: `Spec => []RingInv`;
- `ModifiersAreReleased`: `Spec => []NoStuckModifier`.

That nothing panics says nothing of where a thread is, so it is not inductive.  `ConsoleInv` gives a table of the
places in the kernel: the locks held there (`LocksAt`), the depth of `pushcli()` (`DepthAt`) and what the
interrupt flag is or will be again (`FlagAt`), and says that each CPU fits the place of its thread (`CpuInv`), a
CPU that spins but for the lock it spins for, and that processes are where their state says, each on one CPU (`PlaceInv`).  `AcquireFits`, `ReleaseFits`,
`SchedFits` and the like say what the operations of `spinlock.c` and `proc.c` do to a CPU that fits a place; `ProcStep`, `HandlerStep`,
`LeaveStep` and `EnterStep` turn that into the whole invariant for a step within a process, a handler, into the scheduler and out of it;
the lemma of an action supplies the places before and after.  Two facts carry it: an interrupt finds a thread that holds no
lock, because holding one turns interrupts off, and a process that is chosen by the scheduler is on no other CPU, because whoever
switches holds `ptable.lock` until the scheduler has it.

`InputInv` adds that what a process tested before `sleep()` is still so when it gets there (`TestedInv`): it holds the lock under which the
handlers change it, which is what `ConsoleInv` knows.  `GotInv` says what a read has taken while it sleeps, and `StoredInv` that
no zero is stored.  The lemmas on the ring (`RingGrows`, `RingStores`, `RingCommits`, `RingShrinks`, `RingReads`) speak of arbitrary
indices, across their wrap; `SlotsDiffer` is where the divisibility is needed.  `ModifierInv` accounts for bytes that
are sent and not read: at most one key, with its escape, and what the modifiers will be when it is read is backed by a key that is down.

Only model-checked:

- Liveness under fairness (`RecoveryEnds`, `SleepersWake`, `EndsOrRepeats`, `InitReaps`, `KilledExits`), which the prover does not handle.
- `Inode` and `Memory` (`InodeInv`, `FitsInLog`, `ReadsBack`, `LogIsLast`, `PageInv`, `SizeIsMapped`, `PanicNeedsLoss`, `ForkCopies`): their
  operations are folds over sequences of blocks, pages and segments, and what a fold computes for every input needs
  induction over data.
- `Fs` (`InodeCacheInv`, `RefsCounted`, `TreeAfterCrash`, `PanicKnown`), whose invariants have not been made inductive: that would take, for each of the
  places where a call can wait, what it holds there, as `ConsoleInv` does for the console.

## Not modelled

- Output: `cgaputc`, `uartputc` and the formatting of `cprintf`.  The echo runs under
  `input.lock` and other output under `cons.lock`, so two CPUs may write the cursor's
  registers at the same time; nothing but the screen depends on it.
- Disk errors, spurious disk interrupts, the second disk, `memide.c`: the code has no reaction to
  them to be checked.
- `fetchint`, `argptr` and the other functions of `syscall.c`, `fstat`, `stati`: they read and
  change nothing.  The descriptors of `sys_pipe` are allocated as in `sys_open`.
- Boot code, assembly, and the programming of segment registers, page directory
  register and interrupt controllers: sequences of writes without a state of their own.
- The shell, init, `malloc`, `printf` and the user commands: sequential programs of one
  process over the calls that are modelled; tests reach what they do.
