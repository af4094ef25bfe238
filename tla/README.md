# Verification of os-rust

TLA+ models of the kernel in `src/src`, TLC configurations that check them on
small instances, and TLAPS proofs of what matters most for every instance.

## The system

A small SMP kernel for x86-64, booted by Limine. `kmain` initialises the console
and physical memory and starts every CPU in `common_entry`; from there on the CPUs
are equals. Each has a TLS page with a ready queue and an idle thread. A one-shot
LAPIC timer drives everything: its interrupt saves the running thread, picks the
next one, sometimes evens the ready queue out with another CPU's, re-arms the timer
and returns into the chosen thread.

| Component | State | Operations | Interacts with |
|---|---|---|---|
| scheduler (`sched/mod.rs`) | current thread per CPU | `timer_interrupt`, `switch`, `maybe_load_balance`, `force_switch_to_idle` | other CPUs' ready queues, LAPIC, the threads' stacks |
| ready queue (`sched/thread.rs`, `Queue`) | `data`, `head`, `tail`, `len` | `new`, `push`, `pop` | behind a SpinLock in each TLS page |
| threads (`sched/thread.rs`) | thread table, id counter, closure pages, stacks | `spawn`, `ready`, `thread_trampoline` | frame allocator, the ready queue of the current CPU |
| CPU registry (`arch/x86_64/cpu.rs`) | `CPUS`, a TLS page per CPU | `setup_tls`, `get_cpu_tls` | read by load balancing on every CPU |
| timer (`arch/x86_64/lapic.rs`) | armed or not, in service or not | `setup_lapic_timer`, write of the initial count, `send_eoi` | enters the scheduler |
| frame allocator (`memory/bitmap.rs`) | regions, one bitmap each | `init`, `alloc`, `dealloc`, `total_frames`, `free_frames` | TLS pages, stacks, closure pages, page tables |
| SpinLock (`sync/spinlock.rs`) | one flag; each guard keeps the interrupt flag it saw | `lock`, drop of the guard | everything shared |
| page mapping (`memory/vmm.rs`) | page tables | `map_page` | frame allocator; called once, at boot |
| console (`dev/console`) | cursor, colours, escape-sequence state | `log`, `recv_byte`, `put_char` | `println!` from everywhere, the panic handler too |
| boot (`main.rs`, `init.rs`, `boot/requests.rs`) | how far each CPU is | `kmain`, `common_entry` | Limine; everything it initialises |
| descriptor tables (`gdt.rs`, `idt.rs`) | hardware tables, GS base | `setup_gdt`, `setup_idt` once per CPU | the TLS page, frame allocator, the handlers |
| context switch (`sched/mod.rs`, `CpuRegsOnStack`) | registers, stacks | `timer_interrupt`, `force_switch_to_idle` | scheduler, threads |
| panic (`panic.rs`) | - | print and halt | console |
| util (`util.rs`), font | - | `random_u64`; data | - |

What is hard in it: the steps of several CPUs interleave between critical sections;
a CPU in its timer interrupt is still on the stack of the thread it has already put
back on the queue; load balancing picks a partner before it locks anything, and may
pick one that is still booting; pushes into fixed-size queues panic when full;
`spawn` drops the table's lock half-way; the allocator's scan and the layout of its
metadata are arithmetic with off-by-ones to make; locks are taken in orders that
only an argument about who can hold what keeps from deadlock; a lock is a flag, an
interrupt flag and a guard, with the timer interrupting between any two instructions;
each CPU boots while others already run; one terminal, with colours and half-read
escape sequences for state, serves every CPU and the panic handler. `hazards` in
PROJECT.json lists these at their lines; one without a property has a note that says
why: mostly that the code does go wrong there and nothing says what it should do.

What makes each part correct: no thread is lost, duplicated or run from stale
registers, no two CPUs share a stack, every ready thread runs, balancing converges
(scheduler); a bounded FIFO that reads no unwritten slot (queue); each spawn readies
its own thread once and the thread runs its closure (threads); a frame has one owner
and `alloc` fails only if nothing fits (allocator); the metadata lies in reserved
memory and overlaps nothing (initialisation); one holder, which is not interrupted,
and the interrupt flag as it was (SpinLock); no circle of waiting CPUs (locks);
nothing used before it is set up, by any CPU (boot); the page asked for and no other
(page mapping); a thread resumed with exactly its registers (context switch); whole
messages in their own colours, on the screen, and a panic that can print (console).

## Modules

**Scheduler** (`sched/mod.rs`, `Thread::ready`, the table half of `spawn_raw`,
`setup_tls`, `common_entry`). One variable per piece of shared state, under its name
in the code; `stack` (whose stack a CPU executes on), `saved` (whose `regs` field is
current), `lapic` and `pc` make explicit what the hardware knows. A critical section
is one action: it runs under a SpinLock with interrupts off, so nothing sees it
half-done. A timer interrupt takes five: entry (`TimerInterrupt`), `Switch`, the
random choice (`PickCpu`, `PickNoCpu`), `Balance`, and re-arm, EOI and `iretq`
(`TimerReturn`). `Boot` is `common_entry`: `SetupTls` publishes the CPU,
`ForceSwitchToIdle` arms the timer and enters the idle thread. A spawn takes two
(`AddThread`, `Ready`), between which a caller may be preempted and moved. Threads
are named by their slot of the table; idle threads are in no table. Nothing in the
repository calls `Thread::spawn`; the callers (`Caller`, `MaySpawn`) are boot code on
a CPU that has its TLS, and running threads. The three `expect("Ready queue is
full")` lead to `pc = "panic"`.

**MCScheduler** adds the state constraints of the three-CPU search.

**RingQueue** is `Queue<T>` with its array, uninitialized slots included;
**BoundedFifo** says what the scheduler relies on. `Fifo` is the refinement, with
`Contents` (the `len` slots from `head` on) for the abstract queue. `result` records
what the last call returned, so that the refinement is about results too.

**ThreadSpawn** is `Thread::spawn` in full: closure page (`AllocPage`), id (`TakeId`),
stack (`AllocStack`), table (`AddThread`, `TableFull`), `get_thread_mut` and `ready`
(`Ready`, which panics if the id is not found), then `thread_trampoline`. Several callers interleave, and frames and table slots run
out. A page is what lies at offset 0 (the fat pointer) and at 64 (the closure). The
queue that `ready` pushes into is Scheduler's, and so is that it has room.

**FrameAllocator** is `alloc` and `dealloc`. The scan of `MemoryRegion::alloc` is
kept as its loop, an iteration a step, because the invariant that relates
`consecutive_free`, `start_index` and `i` is what is worth checking; setting or
clearing the bits of a range is one step. A bitmap is the set of its 1 bits.
`held` is a history of what callers have. `dealloc` gets what a caller holds within
one region: the repository has no caller, and the code checks nothing.

**FrameInit** is `BitmapFrameAllocator::init` with `BitmapView` in bytes and bits:
which entry hosts the metadata, where each struct and bitmap goes, what is cleared
and reserved. The sum of the bitmaps' bytes is a cardinality (of the pairs of an entry
and a byte of its bitmap), which can be reasoned about without induction.
`AllocatorAssumptions` says that the result is what `FrameAllocatorAssumption` asks for.
Its names differ from FrameAllocator's, so that one module of proofs extends both.

**SpinLock** is `lock` and the drop of its guard, an instruction an action: read the
interrupt flag, clear it, compare-and-swap, clear the lock, restore the flag. Threads
and the timer handler of each CPU run it, with nested guards; the interrupt can come
whenever the flag is set and returns into any thread that no other CPU runs, so
threads move between CPUs at every point. `asks` is the lock a call of `lock` is about
to take; a thread takes locks above those it holds, and may take one again that it has
dropped, as `do_load_balance` does in its loop. `CurrentCpu` and `CurrentThreadId` are the
two reads through `GsBase`. **AbstractLock** is a lock with a holder;
`ImplementsLock` is the refinement, with the owner of a guard as the holder.

**SchedLocks** refines Scheduler's critical sections: each lock (`GLOBAL_THREAD_TABLE`,
a thread's `sched_state`, a ready queue, `GLOBAL_TERMINAL`) is asked for in one step and
obtained in another, and `do_load_balance` pops, marks and pushes thread by thread.
It EXTENDS Scheduler and its sections end in Scheduler's own actions where the code
does its work in one go; `SectionsAtomic` maps the state between two pieces back to
the state before the section, and is Scheduler's `Spec`.

**ContextSwitch** has the registers and stacks word by word: the frame
`new_inside_kernel` builds, what the CPU pushes, the pushes of `timer_interrupt` and the
pops of `timer_interrupt` (`Pops`) and `force_switch_to_idle` (`IdlePops`), each list
from its own place in the code, threads that change registers and push and pop in between.
A register's value is a token that tells whose it is.

**PageMap** is `map_page`: four levels of tables, frames with old content, entries for
huge pages. `Path` is the MMU's walk, table by table, and `Walk` where it ends. **Boot**
EXTENDS it and is `kmain` and `common_entry`: each CPU has a program of labels, one per
call or per write that others can see, with what it requires (`Requires`: what the code
cannot do without; `println!` without a console just prints nothing) and whether it
takes a frame (`TakesFrame`). A missing requirement is a fault, a missing frame the
panic of `unwrap`. `Sched` maps booting to Scheduler's `SetupTls` and
`ForceSwitchToIdle`. **MCBoot** has the page tables.

**Terminal** is the state of `terminal.rs` and `recv_byte`, with the framebuffer as the
colour it was last filled with and the set of glyphs drawn since. `IndexInBounds` is the
one check there is, the slice's in `put_pixel`; a glyph beyond the right edge would pass
it and go on in the next row. **Console** EXTENDS it: `log` under the terminal's lock byte by
byte, `console::init`, `kmain`'s and others' messages, and the panic handler, on
several CPUs. A panic comes anywhere outside `log`, an exception (whose handlers panic)
too; inside it only from `put_pixel`. kmain prints the bootloader's name, which is whatever the bootloader
says, escape sequences included; **MCConsole** enumerates some, and assumes nothing but
what TLC evaluates there: their escape sequences are complete (`QuietNames`), a name's
letters being part of the one letter that stands for the text in that colour.

The theorems are in **SchedulerProofs**, **SchedLocksProofs**, **RingQueueProofs**,
**SpinLockProofs**, **FrameAllocatorProofs**, **ThreadProofs** (ThreadSpawn and
ContextSwitch, whose specification is `SwitchSpec` for that), **BootProofs** (PageMap
and Boot) and **ConsoleProofs** (Terminal and Console).

## Runs

| Run | Instance | Shows |
|---|---|---|
| sched | 2 CPUs, table and queues of 5, `FairSpec` | `PlacedOnce`, `CpuFieldCurrent`, `ReadyQueueNeverFull`, `ResumesFromSavedRegs`, `StackExclusive`, `MigrationHalvesImbalance`; liveness `QueuedThreadRuns`, `MigrationStops` |
| sched_stack | 3 CPUs, 5 threads | finding: `StackExclusive` fails |
| ring_queue | 3 items, 4 slots | `LiveSlotsInitialized`, refinement `Fifo` |
| frame_alloc | regions of 3 and 5 frames, one reserved; requests for 0, 1, 2, 4 | `BitmapTracksOwners`, `NoRunSkipped`, `FreeFramesExact`, `HandsOutFreshRun` |
| frame_init | all maps of up to 3 entries of 1, 2, 3 or 5 frames, memory all 0 or all 1 | `MetadataLayout`, `OnlyMetadataReserved`, `AllocatorAssumptions` |
| spawn | 2 callers, 2 table slots, 9 frames, stacks of 2 | `SpawnedThreadReady`, `LostOnlyWhenFull` |
| spawn_closure | the same | finding: `RunsItsClosure` fails |
| spinlock | 2 CPUs, 3 threads, 2 locks, `FairSpec` | `HolderNotInterrupted`, `FlagRestored`, `CurrentCpuStable`, refinement `ImplementsLock`; liveness `SectionsProceed` |
| sched_locks | 2 CPUs, table and queues of 4 | `NoCircularWait`, `LockOrder`, refinement `SectionsAtomic` |
| context_switch | 2 threads and the idle thread, stacks 0, 1 or 3 words deep when interrupted | `ResumesExactly`, `HandlerAligned` |
| boot | 3 CPUs, 2, 9 or 14 frames, 5 places for the LAPIC's page, `FairSpec` | `NeverFaults`, `HandlersCanRun`, `MapsThatPageOnly`, refinement `ImplementsSchedulerBoot`; liveness `BootCompletes` |
| console | 3 printers, a screen of 2 by 3 glyphs, a little wider than they are, 783 names | `MessagesKeepColours`, `TerminalAtRest`, `PanicCanPrint`, `CursorCellBlank`, `ParsedArgs` |

*Bounds.* Five threads give two CPUs imbalances of 0 to 5, so no move, moves of one
and of two, odd and even, and a queue as full as the table can make it. Four slots
let the ring wrap several times around, both full and empty, at every offset. The
allocator's regions include one too small for the largest request, one with a
reserved prefix and a gap between them. In `frame_init` frames of 4 bytes, bytes of 2
bits and structs of 2 bytes make bitmaps of several bytes and metadata of one to
several frames; a map may have no entry large enough, which is the panic. In `spawn`
nine frames suffice for three spawns, so that both the table and memory run out; ids
and the history variables grow with the frames used, which bounds them. Three threads
on two CPUs are the fewest with which a thread changes CPU, and two locks the fewest
for guards to nest; one thread calls `current_cpu`. SchedLocks' `NoCircularWait` is
about the two CPUs of the run, `LockOrder` about one CPU at a time, so it does not
depend on their number. In `boot` the LAPIC's page needs no new table, one, or two,
or meets a huge page at either level; the first two free frames may be dirty and then
point anywhere in the bootloader's tables; 14 frames are just enough, with fewer any
allocation on any CPU can be the one that fails. In `console` `USIZE` is 128 and there
are two arguments, so that four bytes are enough for overflow and for surplus ones; the
screen is a few pixels wider than its glyphs and its rows are longer still, and the
third line ends exactly at its bottom.
`CHECK_DEADLOCK FALSE` is set where the program stops: after `init` of the allocator,
when every caller has run out of frames, when all CPUs run their idle threads (Boot
ends there), and when every printer has panicked.

*Fairness.* Weak fairness per CPU of booting, of finishing a spawn begun in boot
code, and of each step of the timer interrupt: the bootloader starts every CPU the
kernel asked for, a CPU executes its next instruction, and an armed timer fires once
interrupts are on, which they are whenever a thread runs. A running thread is not
obliged to spawn or to finish a spawn. None is assumed of the random choice beyond
that it is made. That a spin on a lock ends is assumed; the compare-and-swap loop by
itself does not guarantee it: SpinLock has only weak fairness per CPU of each
instruction, of which the swap is enabled only while the lock is free, so a CPU may
lose every race. `SectionsProceed` is what remains true: whoever holds a lock gets to
the end of its section or to its next spin. Boot assumes that a CPU executes its next
label, and that the loop of `kmain` starts every CPU.

## Findings

1. `sched_stack`: `switch` pushes the preempted thread and releases the queue while
   the CPU is still on that thread's stack, where it goes on to balance, print,
   re-arm the timer and return. If the CPU's own balancing puts a thread behind it,
   an idle third CPU that balances next receives the preempted thread as the oldest
   entry and resumes it while the first CPU is still there. With two CPUs the
   property holds (`StacksOfTwoCpus`): balancing never takes the last entry of a queue, a
   balancing that puts something behind the thread leaves the other queue at least as
   long, and that one can then lose one entry at most (to a CPU that leaves its idle
   thread), which is no imbalance of two.
2. `spawn_closure`: `spawn` writes the closure at offset 64 of its page, and
   `run_and_cleanup` reads it at offset 0, where the fat pointer is. A closure that
   captures nothing has no bytes to read and runs correctly.

Two observations that contradict no document: outside a lock `current_thread_id` can
return another thread's id, when the thread is moved between its two reads (nothing
calls it yet, which is why `CurrentCpuStable` speaks of calls under a lock); and an
escape sequence is ended by `m` only, so that one cut short swallows the text of later
messages up to the next `m` (no message of the kernel has one, but a name could).
`map_page` on a dirty frame, or through a huge page, writes to memory that is no page
table; the model calls what follows undefined, and `MapsThatPageOnly` and
`BootCompletes` exclude it (both happen in the run). A CPU that runs out of frames after
it is published stays online, with a queue that others fill and nobody empties; the run
of `boot` reaches that too, and `BootCompletes` assumes frames for everyone.

## Proofs

All theorems hold for every value of the constants that meets the module's
assumption.

*Scheduler* (`SchedulerAssumption`: CPU ids are naturals, the thread table is no larger
than a ready queue, as 256 and 256 are). `SchedulerInv` is inductive: the type
invariant, `PlacedOnce`, `CpuFieldCurrent`, `ReadyQueueNeverFull` and
`ResumesFromSavedRegs`, and two parts that they need. `CpuInv` says what each value of
`pc` implies of the CPU's queue, current thread and partner (a CPU past boot runs a
thread of the table or its own idle thread; a partner is another CPU, online).
`SpawnInv` says that a thread between its two table steps is in the table, is held by
one caller, is still Born, and so is in no queue. `ReadyQueueNeverFull` needs
`PlacedOnce`: a queue has no duplicates and holds threads of the table only, so its
length is at most `TableCap`; a pigeonhole lemma over cardinalities gives the strict
bound when one more thread is about to be pushed. Each action is a lemma, each conjunct
a step. The theorems `TypeCorrect`, `NoThreadLostOrDuplicated`, `CpuFieldIsCurrent`,
`NoReadyQueueOverflow`, `OnlySavedRegsResumed` and `MigrationIsHalf` follow.
`StacksOfTwoCpus` is `StackExclusive` under the hypothesis `TwoCpus` (there are no three
different CPUs), without which it is false (finding 1). It needs `StackInv`: a CPU that
is still on the stack of a thread it has put back has that thread in its own queue, and
either it is the last one there, which balancing never takes, or the queue is
`Levelled`: no longer than the other CPU's, or one longer if the other runs a thread.
Taking a thread off its own queue to run it leaves the other CPU with as many `InHands`,
so the queue stays levelled through `switch`; an imbalance of two, which balancing
needs, does not arise.

*RingQueue* (`RingQueueAssumption`: at least one slot). `RingInvariant` proves the
type invariant and `LiveSlotsInitialized`; from it `RingQueueIsFifo` shows that each
step of the ring maps to a step of `BoundedFifo`. The argument is arithmetic modulo
`Cap`: the slots `(head + i) % Cap` for `i < len` differ from each other and from
`tail` unless the ring is full.

*FrameAllocator* (`FrameAllocatorAssumption`; that `init` establishes it is proved
below). The inductive invariant adds to `BitmapTracksOwners` and `NoRunSkipped` what the
scan knows: the `consecutive_free` bits before `i` are free, start at `start_index`, are
fewer than `count`, and the bit before them, if any, is used. `OwnersTracked`,
`FirstFit`, `FrameTypeCorrect` and `FreshRunHandedOut` follow, and `FreeFramesCounted`
(`FreeFramesExact`) by counting: the bits of all regions are the free ones, the reserved
ones and those of the frames in use, the last in bijection with `held`.

*FrameInit* (`FrameInitAssumption`: Limine's usable entries are whole frames, lie in
memory and do not overlap; sizes are positive). `FrameInitInv` says where `init` puts
each struct and bitmap, which bits it leaves set and that the host entry has room. Bitmap
k begins where bitmap k - 1 ends, because the bytes counted up to k are those up to k - 1
and the k-th's own; so the pieces are ordered and disjoint (`MetadataLaidOut`). Clearing
the bitmaps touches every bit that stands for a frame, and `reserve` sets the first
`FramesNeeded` of the host's and no other (`AllocatorReady`). Those are the frames with
metadata in them (`MetadataReserved`), since the pieces leave no gap from the start of
the host on: for an address among the bitmaps, the first bitmap that ends behind it
contains it. Together with the theorems above, frames are handed out once and the
metadata never, for any memory map.

*SpinLock* (`SpinLockAssumption`: CPUs and threads are different things). `SpinLockInv`
strengthens the three invariants of the run: `HolderNotInterrupted` has to hold through
the end of `drop`, after the flag is cleared and before interrupts are back
(`HoldersMasked`); `FlagRestored` follows only from what each guard saw (`Seen`:
interrupts on for the oldest guard of a thread, off for all others and for the
handler's); a locked lock has exactly one guard (`Guarded`). From it
`HolderNeverInterrupted`, `FlagIsRestored`, `CurrentCpuIsStable`, `SpinLockTypeCorrect`,
and `SpinLockImplementsLock`: the swap that succeeds is AbstractLock's Acquire, the store
of `false` its Release, every other step a stutter. For any CPUs, threads, locks and
depth of nesting.

*SchedLocks* (`LocksAssumption`: `NULL` is neither a lock nor a loop's record).
`LocksInv` says what a CPU holds and spins for at each label (`Sections`), where
Scheduler is meanwhile (`Control`), and that a loop of `do_load_balance` that has pushed
k threads has the first k of the longer queue at the end of the shorter one, with their
new cpu (`Loop`). The loop's two queues and the states it rewrites are not Scheduler's
half-way; `QueuesSeen` and `StatesSeen` are what they were before the section. The
proof uses SchedulerProofs itself, instantiated with those for `ready_queue` and
`sched_state`: `SchedulerInv` of what is seen is a conjunct of `LocksInv`, and is where
"a thread popped by one loop is in nobody else's hands" comes from. `LockedSectionsAtomic`
is the refinement, so all theorems about Scheduler hold of the code with its locks taken
one by one. `LocksInOrder` gives each lock a rank that only rises along a CPU's requests;
in a circle of waits the CPU that waits for the lock of highest rank would hold one that
is higher. `NoCirclesOfWaits` assumes that CPU ids are bounded (`CPUS` has 256 entries).

*ThreadSpawn* (`SpawnAssumption`: finitely many callers, `NULL` is no thread).
`SpawnInv`: an id drawn is below the counter and belongs to one spawn (`IdsDistinct`);
before the first critical section it is nowhere, between the two it is in the table once
and not readied (`CallerInv`). `SpawnsReadyTheirOwn` follows. `FramesLostOnlyToFullTable`
is a balance: each step pays for the frames it takes by the label it moves its caller to,
counted with cardinalities of the callers at each label and of the slots in use.

*ContextSwitch* (`StackAssumption`: stacks have an even number of words and room for a
frame below whatever a thread has on them; the code has no guard page). `SwitchInv` says
of each thread that is not running that its frame has, word by word in the order of the
pops, the registers it was left with, below its live words. That the struct, the pushes
and the pops agree is the lemma `ListsAgree`. `ThreadsResumeExactly` and
`HandlersAreAligned` follow for any threads and depths.

*PageMap and Boot* (`PageMapAssumption`, `TreeAssumption`: the bootloader's tables are a
tree of four levels in which the entry above the direct map is present and huge entries
are at the levels the hardware has them; `BootAssumption`, `TlsAssumption`: CPU ids are
naturals, `NULL` is nothing else). `TablesInv` keeps the tree a tree through `map_page`:
the lemmas about `Path` say that an entry written into a table changes the paths through
that entry and, because no table is reached in two ways, no other; a new table, cleared,
adds none. `BootInv` adds what the place of each CPU in its program implies: what it has
loaded, what it has published, what kmain has set up by the time other CPUs start. It
gives `NothingUsedTooEarly`, `InterruptsFindTheirState`, `CleanCallKeepsOtherPages`
(`MapsThatPageOnly`, which is about a call that has met only cleared frames and real
tables) and, with what is shared mapped to Scheduler's variables, `BootRefinesScheduler`,
for any number of CPUs and any LAPIC page. `OtherPagesKeepTheirFrames` says when the call
is of that kind, in terms of the start alone: the free frames are zero (`FreeIsCleared`)
and the bootloader has no huge page on the way to the LAPIC's page (`NoHugePage`); then
every other page keeps for good the frame that the bootloader's tables give it. The code
checks neither condition: a dirty frame maps pages nobody asked for (the run reaches
that), and behind a huge page the call writes into that page's memory, whatever is there.
`CleanInv` follows the call down the levels: the free frames stay zero and none of the
entries that it has still to come to is a huge page.

*Terminal and Console* (`TerminalAssumption`: a screen of at least one glyph, a pitch
of at least its width, and a usize that can hold 107, the largest argument with a
meaning; `ConsoleAssumption`). `ConsoleInv`: the cursor leaves room for a glyph,
everything drawn is above its line or to its left on it (that they do not overlap would
not be inductive), and the lock is held by whoever is inside `log`. `GlyphsOnScreen` is
the bound of `put_pixel`'s index, and that no glyph leaves the visible part; with it nothing panics under the lock
(`PanicsCanPrint`); `NoGlyphOverdrawn` is `CursorCellBlank`.

`MessagesInTheirColours` and `TerminalLeftAtRest` hold under the hypothesis `QuietNames`,
without which they are false: a name that ends in half an escape sequence takes the reset
behind it for its own, and the code prints the bootloader's name as it is. `MessageInv`
says which part of which message is left to be sent and, for each, the state, the
arguments and the colours of the terminal (`Midway`); within the name all it knows is the
automaton of `QuietFrom`, begun at the byte that comes next. So the reset is always read
as one, the next message begins at rest, and each glyph is drawn in its own colour.

`ArgsParsed` is `ParsedArgs` without a bound on the text. The reference adds up what each
digit is worth at its place, by powers of ten, over the whole text; the code multiplies
as it goes and wraps. One more digit multiplies the worth of the field's earlier ones by
ten (there is one more digit behind each) and leaves the other fields alone
(`FieldAppend`), a reduction modulo usize before or after makes no difference
(`ModLemma`), a semicolon opens an empty field or, at the last, none. The sums and powers
are recursive functions; that they exist and what they add up to is induction, which is
done on sets of naturals (`Induction`), from the least element of what is left out.

*Only model-checked.* Liveness (`QueuedThreadRuns`, `MigrationStops`,
`SectionsProceed`, `BootCompletes`), which depends on fairness.

The type invariants of RingQueue, FrameAllocator and SpinLock are proved and not run;
ThreadSpawn's holds in its run's instance, and what its proofs need of it is in
`SpawnType`.

## Not modelled

- The font and the pixels inside a glyph, the colour values of the theme: data.
- The contents of the GDT and IDT and the LAPIC's register numbers: hardware data. When
  the tables are allocated and loaded, and what a handler needs by then, is in Boot.
  The exception handlers print and stop, as a panic does. An exception inside `log`
  would spin on the terminal's lock, as a panic there would; none is modelled, for its
  code, its data and the framebuffer are memory the bootloader has mapped.
- The overflow checks of a debug build: the makefile makes a release build.
- The forwarding functions of `memory/mod.rs` and the address arithmetic of
  `phys_to_virt`; that it needs `HHDM_OFFSET` first is in Boot.
- The TLB: `map_page` overwrites without `invlpg`; kmain calls it once, before the page
  is used.
- `random_u64`: its caller relies on nothing but a value, and the xorshift on 64-bit
  words is out of TLC's reach.
- The Limine requests: tables of data. Boot assumes that the bootloader answers them.
- What a panic with a lock held does to the other CPUs: under a ready queue's lock and
  the terminal's there is none, which `ReadyQueueNeverFull` and `PanicCanPrint` show; the
  third, `setup_tls` on a CPU whose id is not below 256, is excluded by assumption.

## Plan

The code is modelled and every safety property of the passing runs is proved. What is
left is to split the longest proofs further where a change to the model would break them,
and to follow the code when it gains callers of `dealloc` and `Thread::spawn`.
